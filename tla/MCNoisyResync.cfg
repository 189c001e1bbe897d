\* Tone handling against spec 4.2: only on-time signals resynchronise.
CONSTANTS
  Slots = 4
  SlotPeriod = 2
  MicrosPerSec = 9
  Word = 256
  Activities = 1
  MaxPeriod = 2
  MaxLagCount = 2
  MaxSlotsPerWakeup = 1
  MaxNoisyMF = 2
  MaxSyncAttempts = 2
  ClockAccuracy = 0
  WorstClockAccuracy = 0
  SchTblInit <- MCDisabledTable
  CallbackThreads = FALSE
  ReloadShared = FALSE
  StartupPeriod = 1
  ShortSlotPeriod = 1
  SyncSlotPeriod = 3
  TimedEnv = FALSE
  CmdIds = {}
  CmdEntries = {}
  LoadTables = {}
SPECIFICATION Spec
CONSTRAINT MCConstraint

PROPERTY ResyncOnlyOnTime
