\* Timing run, poor timer: the Minor Frames synchronize with MET (WorstCaseSlotsPerMinorFrame = 1, so the noisy window of line 886 is slot 1).
CONSTANTS
  Slots = 4
  SlotPeriod = 3
  MicrosPerSec = 12
  Word = 256
  Activities = 1
  MaxPeriod = 2
  MaxLagCount = 2
  MaxSlotsPerWakeup = 1
  MaxNoisyMF = 2
  MaxSyncAttempts = 2
  ClockAccuracy = 1
  WorstClockAccuracy = 0
  SchTblInit <- MCDisabledTable
  CallbackThreads = FALSE
  ReloadShared = FALSE
  StartupPeriod = 1
  ShortSlotPeriod = 1
  SyncSlotPeriod = 3
  TimedEnv = FALSE
  CmdIds = {}
  CmdEntries = {}
  LoadTables = {}
SPECIFICATION Spec
CONSTRAINT MCConstraint
INVARIANTS NextSlotInRange
PROPERTIES CursorRefinement NoisyClassification
