--------------------------- MODULE SchedulerState ---------------------------
(***************************************************************************)
(* The state of the kit_sch scheduler object (SCHEDULER_Class, one         *)
(* instance per process) and of the OS objects it drives, as set up by     *)
(* SCHEDULER_Constructor followed by SCHEDULER_StartTimers.                *)
(*                                                                         *)
(* Diagnostic counters that never influence control (SlotsProcessedCount,  *)
(* SkippedSlotsCount, MultipleSlotsCount, SameSlotCount, the activity and  *)
(* major-frame counts) are left out: they are unbounded and no guard reads *)
(* them.  Events (CFE_EVS_SendEvent) are left out likewise.                *)
(***************************************************************************)
EXTENDS SlotClock

CONSTANTS
  Activities,         \* SCHTBL_ACTIVITIES_PER_SLOT
  MaxPeriod,          \* largest Period an entry of the model's tables has
  MaxLagCount,        \* SCHEDULER_MAX_LAG_COUNT
  MaxSlotsPerWakeup,  \* SCHEDULER_MAX_SLOTS_PER_WAKEUP
  MaxNoisyMF,         \* SCHEDULER_MAX_NOISY_MF
  MaxSyncAttempts,    \* SCHEDULER_MAX_SYNC_ATTEMPTS
  ClockAccuracy,      \* accuracy (usec) OS_TimerCreate reports for the timer
  WorstClockAccuracy, \* SCHEDULER_WORST_CLOCK_ACCURACY
  SchTblInit,         \* the schedule table loaded at start-up
  CallbackThreads,    \* TRUE: the callbacks run in threads of their own
  ReloadShared,       \* TRUE: the build reloads LastSyncMETSlot for the
                      \*       subtraction in GetCurrentSlotNumber
  StartupPeriod,      \* SCHEDULER_STARTUP_PERIOD (usec)
  ShortSlotPeriod,    \* SCHEDULER_SHORT_SLOT_PERIOD (usec)
  SyncSlotPeriod,     \* SCHEDULER_SYNC_SLOT_PERIOD (usec)
  TimedEnv            \* TRUE: the timer expires when its time has run out
                      \*       on the MET and the tone comes at most once
                      \*       per MET second; FALSE: both at any moment

ASSUME ActivitiesAssumption == Activities \in Nat \ {0}
ASSUME MaxPeriodAssumption == MaxPeriod \in Nat \ {0}
ASSUME MaxLagAssumption == MaxLagCount \in Nat \ {0}
ASSUME MaxSlotsAssumption == MaxSlotsPerWakeup \in Nat \ {0}
ASSUME MaxNoisyAssumption == MaxNoisyMF \in Nat \ {0}
ASSUME MaxSyncAssumption == MaxSyncAttempts \in 1 .. (Word - 1)
ASSUME AccuracyAssumption ==
  ClockAccuracy \in Nat /\ WorstClockAccuracy \in Nat
ASSUME ThreadsAssumption ==
  CallbackThreads \in BOOLEAN /\ ReloadShared \in BOOLEAN
ASSUME TimerPeriodAssumption ==
  /\ {StartupPeriod, ShortSlotPeriod, SyncSlotPeriod} \subseteq Nat \ {0}
  /\ TimedEnv \in BOOLEAN

(* SCHTBL_INDEX(Slot, Activity) = Slot * SCHTBL_ACTIVITIES_PER_SLOT + Activity *)
EntryIds == 0 .. (Slots * Activities - 1)
SCHTBL_INDEX(slot, activity) == slot * Activities + activity

(* A schedule table entry; MsgTblIndex is abstracted into the outcome of *)
(* the dispatch (see SlotExecutor).                                      *)
Entry == [Enabled : BOOLEAN, Period : 0 .. MaxPeriod, Offset : 0 .. MaxPeriod]

ASSUME SchTblInitAssumption == SchTblInit \in [EntryIds -> Entry]

(* SCHTBL_ValidEntry, on the fields the model keeps. *)
ValidEntry(e) == e.Period >= 1 /\ e.Offset < e.Period

(* What the table manager hands to the load functions: SCHTBL validates a *)
(* table file before it loads it (spec 3: an entry that is or will be     *)
(* enabled has Offset < Period, checked by the external validator).       *)
TableManagerAccepts(e) == e.Enabled => ValidEntry(e)

(* The start-up table is a table file the table manager loaded, hence  *)
(* validated like every later load.                                      *)
ASSUME SchTblInitValid ==
  \A i \in EntryIds : TableManagerAccepts(SchTblInit[i])

(* SCHEDULER_TIME_SYNC_SLOT: the last slot of the table. *)
TimeSyncSlot == Slots - 1

(* SyncToMET bit flags: SCHEDULER_SYNCH_TO_MINOR, SCHEDULER_SYNCH_TO_MAJOR *)
(* and SCHEDULER_SYNCH_MAJOR_PENDING.  SCHEDULER_SYNCH_FALSE is {}.        *)
SyncFlags == {"TO_MINOR", "TO_MAJOR", "MAJOR_PENDING"}

MFSources == {"NONE", "CFE_TIME", "MINOR_FRAME_TIMER"}

(* The OS timer: a periodic timer, a one-shot timer still to fire, or a  *)
(* one-shot timer that has fired and was not set again.                  *)
TimerModes == {"Periodic", "OneShot", "Stopped"}

(* The start time of OS_TimerSet as the model keeps it: the microseconds *)
(* of MET until the timer expires, or 0 when the timer is not timed and   *)
(* may expire at any moment.                                              *)
TimerStart(usec) == IF TimedEnv THEN usec ELSE 0

(* Constructor: a timer less accurate than the worst accepted makes the  *)
(* Minor Frames synchronize with MET.                                    *)
PoorClock == ClockAccuracy > WorstClockAccuracy
WorstCaseSlotsPerMinorFrame ==
  IF PoorClock THEN ((ClockAccuracy * 2) \div SlotPeriod) + 1 ELSE 1

VARIABLES
  \* SCHEDULER_Class fields
  NextSlotNumber, TablePassCount, LastProcessCount, MinorFramesSinceTone,
  LastSyncMETSlot, SyncToMET, MajorFrameSource, SyncAttemptsLeft,
  IgnoreMajorFrame, UnexpectedMajorFrame, ConsecutiveNoisyFrameCounter,
  SendNoisyMajorFrameMsg, SchTbl,
  \* OS objects and the environment
  TimeSemaphore,   \* the binary semaphore the callbacks give
  timer,           \* mode of the Minor Frame timer
  timerLeft,       \* MET microseconds until the timer expires
  met,             \* MET sub-second, in microseconds
  toneSeen,        \* the tone has come in this MET second
  flying,          \* cFE TIME reports CFE_TIME_FLAG_FLYING
  \* locals of the scheduler task inside SCHEDULER_Execute
  pc,              \* "Wait", "Slot" (semaphore taken), "Run" (processing)
  metMode,         \* GetCurrentSlotNumber took the MET branch
  CurrentSlot,     \* the slot read (before re-basing, in the MET branch)
  lastSyncCmp,     \* LastSyncMETSlot as loaded for the comparison
  ProcessCount,    \* slots still to process in this wakeup
  \* MinorFrameCallback between its increment and its rollover check
  mfPc             \* "Idle" or "Tail"

schVars == <<NextSlotNumber, TablePassCount, LastProcessCount,
             MinorFramesSinceTone, LastSyncMETSlot, SyncToMET,
             MajorFrameSource, SyncAttemptsLeft, IgnoreMajorFrame,
             UnexpectedMajorFrame, ConsecutiveNoisyFrameCounter,
             SendNoisyMajorFrameMsg, SchTbl>>
envVars == <<TimeSemaphore, timer, timerLeft, met, toneSeen, flying>>
taskVars == <<pc, metMode, CurrentSlot, lastSyncCmp, ProcessCount>>
vars == <<schVars, envVars, taskVars, mfPc>>

TypeOK ==
  /\ NextSlotNumber \in Uint
  /\ TablePassCount \in Nat
  /\ LastProcessCount \in Uint
  /\ MinorFramesSinceTone \in Uint
  /\ LastSyncMETSlot \in Uint
  /\ SyncToMET \subseteq SyncFlags
  /\ MajorFrameSource \in MFSources
  /\ SyncAttemptsLeft \in Uint
  /\ IgnoreMajorFrame \in BOOLEAN
  /\ UnexpectedMajorFrame \in BOOLEAN
  /\ ConsecutiveNoisyFrameCounter \in Nat
  /\ SendNoisyMajorFrameMsg \in BOOLEAN
  /\ SchTbl \in [EntryIds -> Entry]
  /\ TimeSemaphore \in BOOLEAN
  /\ timer \in TimerModes
  /\ timerLeft \in Nat
  /\ met \in Micros
  /\ toneSeen \in BOOLEAN
  /\ flying \in BOOLEAN
  /\ pc \in {"Wait", "Slot", "Run"}
  /\ metMode \in BOOLEAN
  /\ CurrentSlot \in Uint
  /\ lastSyncCmp \in Uint
  /\ ProcessCount \in Uint
  /\ mfPc \in {"Idle", "Tail"}

(* SCHEDULER_Constructor, then SCHEDULER_StartTimers: the timer is set   *)
(* once with SCHEDULER_STARTUP_PERIOD (a one-shot).  TablePassCount,     *)
(* ConsecutiveNoisyFrameCounter and LastProcessCount are not set by the  *)
(* constructor: they start at 0 as fields of a zero-initialised static   *)
(* object.  The MET and the clock state are whatever cFE TIME reports.   *)
Init ==
  /\ NextSlotNumber = 0
  /\ TablePassCount = 0
  /\ LastProcessCount = 0
  /\ MinorFramesSinceTone = TimeSyncSlot
  /\ LastSyncMETSlot = 0
  /\ SyncToMET = IF PoorClock THEN {"TO_MINOR"} ELSE {}
  /\ MajorFrameSource = "NONE"
  /\ SyncAttemptsLeft = 0
  /\ IgnoreMajorFrame = FALSE
  /\ UnexpectedMajorFrame = FALSE
  /\ ConsecutiveNoisyFrameCounter = 0
  /\ SendNoisyMajorFrameMsg = TRUE
  /\ SchTbl = SchTblInit
  /\ TimeSemaphore = FALSE
  /\ timer = "OneShot"
  /\ timerLeft = TimerStart(StartupPeriod)
  /\ met \in Micros
  /\ toneSeen \in BOOLEAN
  /\ flying \in BOOLEAN
  /\ pc = "Wait"
  /\ metMode = FALSE
  /\ CurrentSlot = 0
  /\ lastSyncCmp = 0
  /\ ProcessCount = 0
  /\ mfPc = "Idle"

=============================================================================
