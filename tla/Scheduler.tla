----------------------------- MODULE Scheduler -----------------------------
(***************************************************************************)
(* The kit_sch scheduler: the two callbacks, the scheduler task and its    *)
(* commands, sharing the scheduler object without a lock, together with    *)
(* the environment (the MET clock and cFE TIME's clock state).             *)
(***************************************************************************)
EXTENDS SyncMonitor, MinorFrameDriver, WakeupReconciler, SchedulerCmds

CONSTANTS
  CmdIds,       \* schedule-table entries the commands of a run address
  CmdEntries,   \* entries the load commands of a run carry
  LoadTables    \* tables the table manager of a run loads

ASSUME CmdAssumption ==
  /\ CmdIds \subseteq EntryIds
  /\ CmdEntries \subseteq Entry
  /\ LoadTables \subseteq [EntryIds -> Entry]

(* The MET advances by one microsecond, wrapping at the second, and a    *)
(* set timer comes one microsecond closer to expiring.  A timed timer     *)
(* that has expired calls MinorFrameCallback before the MET moves on; a   *)
(* new MET second may bring a new tone.                                  *)
Counting == TimedEnv /\ timer # "Stopped"
MetTick ==
  /\ Counting => timerLeft > 0
  /\ met' = (met + 1) % MicrosPerSec
  /\ timerLeft' = IF Counting THEN timerLeft - 1 ELSE timerLeft
  /\ toneSeen' = (toneSeen /\ met' # 0)
  /\ UNCHANGED <<schVars, TimeSemaphore, timer, flying, taskVars, mfPc>>

(* cFE TIME enters or leaves flywheel. *)
ClockStateChange ==
  /\ flying' = ~flying
  /\ UNCHANGED <<schVars, TimeSemaphore, timer, timerLeft, met, toneSeen,
                 taskVars, mfPc>>

Next ==
  \/ MajorFrameCallback
  \/ MinorFrameCallback
  \/ MinorFrameTail
  \/ ExecuteTake
  \/ ExecuteCount
  \/ \E failed \in SUBSET EntryIds : ExecuteRun(failed)
  \/ ResetStatus
  \/ \E i \in CmdIds, enabled \in BOOLEAN : ConfigSchEntryCmd(i, enabled)
  \/ \E i \in CmdIds, e \in CmdEntries : LoadSchEntryCmd(i, e)
  \/ \E t \in LoadTables :
       /\ \A i \in EntryIds : TableManagerAccepts(t[i])
       /\ LoadSchTbl(t)
  \/ \E i \in CmdIds, e \in CmdEntries :
       TableManagerAccepts(e) /\ LoadSchTblEntry(i, e)
  \/ MetTick
  \/ ClockStateChange

Spec == Init /\ [][Next]_vars

(* The steps that cannot stop for good.  The OS timer keeps firing while *)
(* it is set (MinorFrameCallback, and its second half in a thread); the  *)
(* scheduler task, blocked only in OS_BinSemTake, runs whenever the      *)
(* semaphore is given and has no other suspend point; the MET keeps      *)
(* advancing.  The tone, the clock state and the ground commands are the *)
(* environment's and get no fairness: a tone may never come.             *)
Fairness ==
  /\ WF_vars(MinorFrameCallback)
  /\ WF_vars(MinorFrameTail)
  /\ WF_vars(ExecuteTake)
  /\ WF_vars(ExecuteCount)
  /\ WF_vars(\E failed \in SUBSET EntryIds : ExecuteRun(failed))
  /\ WF_vars(MetTick)

FairSpec == Spec /\ Fairness

-----------------------------------------------------------------------------
(***************************************************************************)
(* Properties                                                              *)
(***************************************************************************)

(* The slot the task will process next is a slot of the table: every     *)
(* path of SCHEDULER_Execute (rollover, lag skip to the current slot)    *)
(* and of ProcessNextSlot keeps NextSlotNumber below SCHTBL_SLOTS, so    *)
(* ProcessNextSlot never indexes past the schedule table.  It rests on   *)
(* GetCurrentSlotNumber returning a slot of the table whatever the       *)
(* callbacks did in between.                                             *)
NextSlotInRange == NextSlotNumber \in SlotIds

(* The Minor Frame timer is never left stopped: whenever a one-shot      *)
(* timer (start-up or long time-sync slot) has fired, the callback sets  *)
(* it again before it returns, so minor frames keep coming whether or    *)
(* not the tone arrives.                                                 *)
TimerArmed == mfPc = "Idle" => timer # "Stopped"

(* While a MET synchronization driven by the Minor Frame timer is        *)
(* pending, at least one attempt is left: MinorFrameCallback never       *)
(* decrements SyncAttemptsLeft from 0 (a uint32 wrap to 2^32-1).         *)
SyncAttemptsInRange ==
  ("MAJOR_PENDING" \in SyncToMET /\ MajorFrameSource = "MINOR_FRAME_TIMER")
    => SyncAttemptsLeft \in 1 .. MaxSyncAttempts

(* Every enabled schedule-table entry has 0 <= Offset < Period: the      *)
(* commands refuse to enable or load any other, and ProcessNextSlot only *)
(* ever disables.  (TablePassCount % Period would divide by zero.)       *)
EnabledEntriesValid ==
  \A i \in EntryIds : SchTbl[i].Enabled => ValidEntry(SchTbl[i])

(* The table position (NextSlotNumber, TablePassCount) behaves as the    *)
(* abstract cursor of TableCursor: SCHEDULER_Execute, ProcessNextSlot    *)
(* and the reset command only ever advance it one slot, skip it forward  *)
(* by a lag jump that counts the rollover it crosses, or restart the     *)
(* pass count.                                                           *)
Cursor == INSTANCE TableCursor
            WITH slot <- NextSlotNumber, pass <- TablePassCount,
                 MaxLag <- MaxLagCount
CursorRefinement == Cursor!Spec

(* Spec 4.2: a synchronization signal resets the slot counter to 0 (and  *)
(* wakes the task) only when it is on time: not MET-synchronized and at  *)
(* the time-sync slot, or MET-synchronized on the minor frame and with   *)
(* NextSlotNumber 0 or within WorstCaseSlotsPerMinorFrame + 1 slots of   *)
(* the end of the table.  MajorFrameCallback is about the tone handling. *)
SpecOnTime ==
  \/ SyncToMET = {} /\ MinorFramesSinceTone = TimeSyncSlot
  \/ /\ "TO_MINOR" \in SyncToMET
     /\ \/ NextSlotNumber = 0
        \/ NextSlotNumber >= Slots - (WorstCaseSlotsPerMinorFrame + 1)
ResyncOnlyOnTime ==
  [][MajorFrameCallback /\ ~flying /\ ~IgnoreMajorFrame' => SpecOnTime]_vars

(* Spec 4.2 (b): while the Minor Frames are synchronized with MET, a tone *)
(* is classified noisy (UnexpectedMajorFrame) exactly when it is not on   *)
(* time, i.e. NextSlotNumber is neither 0 nor within                      *)
(* WorstCaseSlotsPerMinorFrame + 1 slots of the end of the table.  It is  *)
(* about MajorFrameCallback's window test (line 886), a uint32            *)
(* subtraction that the constructor's WorstCaseSlotsPerMinorFrame (line   *)
(* 127, from the timer accuracy) may underflow.                           *)
NoisyClassification ==
  [][MajorFrameCallback /\ ~flying /\ SyncToMET = {"TO_MINOR"}
       => (UnexpectedMajorFrame' <=> ~SpecOnTime)]_vars

(* Spec 3 and 8: the reset command clears counters and the ignore flag   *)
(* but not the timing phase, so TablePassCount (the phase of every       *)
(* periodic activity) never moves backwards.                             *)
PassCountMonotonic == [][TablePassCount' >= TablePassCount]_TablePassCount

(* The scheduler task handles each wakeup within the MET microsecond it  *)
(* is given in: no MET tick while a wakeup is pending or being handled   *)
(* (the task runs at a higher priority than any work that could delay    *)
(* it, and SCHEDULER_Execute is short against a slot).                   *)
TaskPrompt == MetTick => pc = "Wait" /\ ~TimeSemaphore

(* A slot is processed: ProcessNextSlot in the loop of SCHEDULER_Execute. *)
SlotProcessed == \E failed \in SUBSET EntryIds : ExecuteRun(failed)

(* The schedule survives the loss of the tone: once no tone comes any    *)
(* more and the task keeps up, the task processes a slot infinitely      *)
(* often.  The Minor Frame timer alone must keep the table going: the    *)
(* first callback with no tone makes the timer the Major Frame source    *)
(* and starts a MET synchronization (line 1000), which ends at MET slot  *)
(* 0 or after SCHEDULER_MAX_SYNC_ATTEMPTS early returns (line 1021); the *)
(* long time-sync slot is a one-shot that the callback re-arms at the    *)
(* rollover (lines 1061 and 1076); every callback that does not return   *)
(* early gives the semaphore (line 1089); and the ProcessCount policy of *)
(* SCHEDULER_Execute (rollover, jitter, same slot, lag skip) must never  *)
(* settle on processing nothing while the MET slot moves on.             *)
ScheduleProgressPrompt ==
  (<>[][~MajorFrameCallback /\ TaskPrompt]_vars) => []<><<SlotProcessed>>_vars

-----------------------------------------------------------------------------
(***************************************************************************)
(* Inductive strengthenings, checked by TLC, proved in SchedulerProofs   *)
(* and TimerProofs.                                                       *)
(***************************************************************************)

(* What keeps TypeOK and SyncAttemptsInRange inductive: the tone counter  *)
(* is at most SCHTBL_SLOTS, and a slot of the table whenever no           *)
(* MinorFrameCallback is between its increment and its rollover check;    *)
(* LastSyncMETSlot (and the task's copy of it) is a MET slot; the         *)
(* processing loop of SCHEDULER_Execute is only entered with a positive   *)
(* ProcessCount, so its decrement never wraps.                            *)
IInv ==
  /\ TypeOK
  /\ MinorFramesSinceTone \in 0 .. Slots
  /\ mfPc = "Idle" => MinorFramesSinceTone \in SlotIds
  /\ LastSyncMETSlot \in SlotIds
  /\ lastSyncCmp \in SlotIds
  /\ pc = "Run" => ProcessCount >= 1
  /\ SyncAttemptsInRange

(* What keeps TimerArmed inductive: a one-shot timer is set only for the *)
(* long time-sync slot, so while it runs the tone counter is at that slot *)
(* and the callback it fires rolls the counter over and sets the timer    *)
(* periodic again.  Between the two halves of a threaded callback the     *)
(* timer is never a one-shot still to fire, and a one-shot that has       *)
(* fired is one whose counter reached SCHTBL_SLOTS: the tail re-arms it,  *)
(* unless the tone callback has reset the counter and re-armed it first.  *)
TimerInv ==
  /\ TimerArmed
  /\ mfPc = "Idle" /\ timer = "OneShot" => MinorFramesSinceTone = TimeSyncSlot
  /\ mfPc = "Tail" => timer # "OneShot"
  /\ mfPc = "Tail" /\ timer = "Stopped" => MinorFramesSinceTone = Slots

(* A build in which MinorFrameCallback runs to completion before the task *)
(* runs again and GetCurrentSlotNumber loads LastSyncMETSlot once.        *)
AtomicBuild == ~CallbackThreads /\ ~ReloadShared

(* In such a build NextSlotNumber stays a slot of the table: the slot     *)
(* SCHEDULER_Execute read between OS_BinSemTake and its lag decision is   *)
(* one, so the lag skip to it is in range.                                *)
SlotInv ==
  /\ IInv
  /\ AtomicBuild =>
       /\ mfPc = "Idle"
       /\ NextSlotNumber \in SlotIds
       /\ pc = "Slot" => CurrentSlot \in SlotIds

=============================================================================
