\* Executor run: phased activities, dispatch failures and table commands on a 3-slot table.
CONSTANTS
  Slots = 3
  SlotPeriod = 2
  MicrosPerSec = 7
  Word = 256
  Activities = 1
  MaxPeriod = 2
  MaxLagCount = 1
  MaxSlotsPerWakeup = 1
  MaxNoisyMF = 1
  MaxSyncAttempts = 1
  ClockAccuracy = 0
  WorstClockAccuracy = 0
  SchTblInit <- MCPhasedTable
  CallbackThreads = FALSE
  ReloadShared = FALSE
  StartupPeriod = 1
  ShortSlotPeriod = 1
  SyncSlotPeriod = 3
  TimedEnv = FALSE
  CmdIds = {2}
  CmdEntries <- MCLoadEntries
  LoadTables <- MCLoadTables
SPECIFICATION Spec
CONSTRAINT MCConstraint
INVARIANTS EnabledEntriesValid
PROPERTIES CursorRefinement
