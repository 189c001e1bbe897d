\* Threaded callbacks on a 3-slot table: the timer and sync-attempt invariants under the finer interleaving.
CONSTANTS
  Slots = 3
  SlotPeriod = 2
  MicrosPerSec = 7
  Word = 256
  Activities = 1
  MaxPeriod = 2
  MaxLagCount = 1
  MaxSlotsPerWakeup = 1
  MaxNoisyMF = 2
  MaxSyncAttempts = 2
  ClockAccuracy = 0
  WorstClockAccuracy = 0
  SchTblInit <- MCDisabledTable
  CallbackThreads = TRUE
  ReloadShared = FALSE
  StartupPeriod = 1
  ShortSlotPeriod = 1
  SyncSlotPeriod = 3
  TimedEnv = FALSE
  CmdIds = {}
  CmdEntries = {}
  LoadTables = {}
SPECIFICATION Spec
CONSTRAINT MCConstraint
INVARIANTS TimerArmed IInv TimerInv
