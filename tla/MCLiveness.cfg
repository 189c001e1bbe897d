\* Liveness: the timer is timed against the MET (TimedEnv); the timer, the task and the MET are weakly fair, tones, clock-state changes and commands are not.
CONSTANTS
  Slots = 3
  SlotPeriod = 2
  MicrosPerSec = 6
  Word = 256
  Activities = 1
  MaxPeriod = 2
  MaxLagCount = 1
  MaxSlotsPerWakeup = 1
  MaxNoisyMF = 1
  MaxSyncAttempts = 2
  ClockAccuracy = 0
  WorstClockAccuracy = 0
  SchTblInit <- MCDisabledTable
  CallbackThreads = FALSE
  ReloadShared = FALSE
  StartupPeriod = 1
  ShortSlotPeriod = 1
  SyncSlotPeriod = 3
  TimedEnv = TRUE
  CmdIds = {}
  CmdEntries = {}
  NextPass <- MCNextPass
  LoadTables = {}
SPECIFICATION FairSpec
PROPERTIES ScheduleProgressPrompt
