---------------------------- MODULE TimerProofs ----------------------------
(***************************************************************************)
(* Proof that the Minor Frame timer is never left stopped (TimerArmed).    *)
(* TimerArmed alone is not inductive: a one-shot timer that fires stops,   *)
(* and only the rollover of the tone counter in the same callback sets it  *)
(* again.  The strengthening TimerInv (Scheduler) says why the rollover    *)
(* always comes: a one-shot timer runs only while the counter is at the    *)
(* time-sync slot, so the counter reaches SCHTBL_SLOTS when it fires.      *)
(***************************************************************************)
EXTENDS SchedulerProofs

USE SlotsAssumption, SlotPeriodAssumption, MicrosAssumption, WordAssumption,
    MaxSyncAssumption, ThreadsAssumption, TimerPeriodAssumption

(* What the rollover tail of MinorFrameCallback does to the timer, from  *)
(* a counter m and a timer t that is not a one-shot still to fire: it    *)
(* sets a one-shot only for the time-sync slot, and it leaves the timer  *)
(* stopped only if the counter has not reached SCHTBL_SLOTS.             *)
LEMMA TailTimerCases ==
  ASSUME NEW m \in Nat, NEW t \in TimerModes, t # "OneShot"
  PROVE  /\ TailTimer(m, t) \in TimerModes
         /\ TailTimer(m, t) = "OneShot" => TailSlot(m) = TimeSyncSlot
         /\ TailTimer(m, t) = "Stopped" => t = "Stopped" /\ m < Slots
BY DEF TailTimer, TailSlot, TimerModes

(* The steps that touch neither the timer, the tone counter nor the      *)
(* threaded callback's position.                                         *)
LEMMA TimerUnchanged ==
  ASSUME TimerInv,
         UNCHANGED <<timer, MinorFramesSinceTone, mfPc>>
  PROVE  TimerInv'
BY DEF TimerInv, TimerArmed

(* The tone callback either leaves the timer and the counter alone or    *)
(* sets the timer periodic.                                               *)
LEMMA MajorFrameTimer ==
  ASSUME TimerInv, MajorFrameCallback
  PROVE  TimerInv'
<1>. DEFINE noisy   == ~flying /\ NoisyMajorFrame
            counter == ConsecutiveNoisyFrameCounter + 1
            ignore  == IF noisy /\ ~IgnoreMajorFrame
                       THEN counter >= MaxNoisyMF
                       ELSE IgnoreMajorFrame
            resync  == ~flying /\ ~ignore
<1>1. /\ timer' = IF resync THEN "Periodic" ELSE timer
      /\ MinorFramesSinceTone' = IF resync THEN 0 ELSE MinorFramesSinceTone
      /\ mfPc' = mfPc
  BY Zenon DEF MajorFrameCallback, taskVars
<1>2. CASE resync
  BY <1>1, <1>2 DEF TimerInv, TimerArmed
<1>3. CASE ~resync
  BY <1>1, <1>3, TimerUnchanged
<1>. QED
  BY <1>2, <1>3

(* The head of MinorFrameCallback: a wait sets the timer periodic; else  *)
(* the tail runs in the same step or, threaded, is left pending with a   *)
(* counter of SCHTBL_SLOTS if the one-shot timer has stopped.            *)
LEMMA MinorFrameTimer ==
  ASSUME TypeOK, TimerInv, MinorFrameCallback
  PROVE  TimerInv'
<1>. DEFINE first   == MajorFrameSource = "NONE"
            src     == IF first THEN "MINOR_FRAME_TIMER" ELSE MajorFrameSource
            sync    == IF first THEN SyncToMET \cup {"MAJOR_PENDING"}
                       ELSE SyncToMET
            attempt == IF first THEN MaxSyncAttempts ELSE SyncAttemptsLeft
            pending == "MAJOR_PENDING" \in sync /\ src = "MINOR_FRAME_TIMER"
            left    == (attempt - 1) % Word
            slot    == GetMETSlotNumber(met)
            wait    == pending /\ SyncWait(slot, left)
            t       == IF pending THEN "Periodic" ELSE Fired(timer)
            l       == IF t = "Periodic" THEN TimerStart(SlotPeriod) ELSE 0
            m       == IF pending THEN slot ELSE MinorFramesSinceTone + 1
<1>1. mfPc = "Idle" /\ timer \in {"Periodic", "OneShot"}
  BY DEF MinorFrameCallback
<1>2. /\ t \in TimerModes
      /\ t # "OneShot"
      /\ t = "Stopped" => MinorFramesSinceTone = TimeSyncSlot /\ m = Slots
  BY <1>1 DEF Fired, TimerModes, TimerInv, TimeSyncSlot
<1>3. m \in Nat
  BY METSlotInRange DEF TypeOK, Uint, SlotIds
<1>4. CASE wait
  <2>1. timer' = t /\ mfPc' = mfPc
    BY <1>4, Zenon DEF MinorFrameCallback
  <2>2. t = "Periodic"
    BY <1>4
  <2>. QED
    BY <2>1, <2>2 DEF TimerInv, TimerArmed
<1>5. CASE ~wait /\ CallbackThreads
  <2>1. timer' = t /\ mfPc' = "Tail" /\ MinorFramesSinceTone' = m
    BY <1>5, Zenon DEF MinorFrameCallback
  <2>. QED
    BY <1>2, <2>1 DEF TimerInv, TimerArmed
<1>6. CASE ~wait /\ ~CallbackThreads
  <2>1. /\ timer' = TailTimer(m, t)
        /\ MinorFramesSinceTone' = TailSlot(m)
        /\ mfPc' = mfPc
    BY <1>6, Zenon DEF MinorFrameCallback
  <2>. QED
    BY <1>1, <1>2, <1>3, <2>1, TailTimerCases DEF TimerInv, TimerArmed
<1>. QED
  BY <1>4, <1>5, <1>6

(* The threaded tail re-reads the counter: a stopped timer still has its *)
(* counter at SCHTBL_SLOTS (a tone in between would have re-armed it),   *)
(* so the rollover re-arms it.                                           *)
LEMMA MinorFrameTailTimer ==
  ASSUME TypeOK, TimerInv, MinorFrameTail
  PROVE  TimerInv'
<1>1. /\ mfPc = "Tail" /\ mfPc' = "Idle"
      /\ timer' = TailTimer(MinorFramesSinceTone, timer)
      /\ MinorFramesSinceTone' = TailSlot(MinorFramesSinceTone)
  BY DEF MinorFrameTail
<1>2. /\ timer \in TimerModes /\ timer # "OneShot"
      /\ MinorFramesSinceTone \in Nat
  BY <1>1 DEF TypeOK, TimerInv, Uint
<1>3. timer = "Stopped" => ~(MinorFramesSinceTone < Slots)
  BY <1>1 DEF TimerInv
<1>. QED
  BY <1>1, <1>2, <1>3, TailTimerCases DEF TimerInv, TimerArmed

(* Every step of the scheduler preserves TimerInv. *)
LEMMA NextTimer == TypeOK /\ TimerInv /\ [Next]_vars => TimerInv'
<1>. SUFFICES ASSUME TypeOK, TimerInv, [Next]_vars PROVE TimerInv'
  OBVIOUS
<1>1. CASE MajorFrameCallback
  BY <1>1, MajorFrameTimer
<1>2. CASE MinorFrameCallback
  BY <1>2, MinorFrameTimer
<1>3. CASE MinorFrameTail
  BY <1>3, MinorFrameTailTimer
<1>4. CASE \/ UNCHANGED vars \/ ExecuteTake \/ ExecuteCount
           \/ \E failed \in SUBSET EntryIds : ExecuteRun(failed)
           \/ ResetStatus
           \/ \E i \in CmdIds, enabled \in BOOLEAN :
                ConfigSchEntryCmd(i, enabled)
           \/ \E i \in CmdIds, e \in CmdEntries : LoadSchEntryCmd(i, e)
           \/ \E t \in LoadTables : LoadSchTbl(t)
           \/ \E i \in CmdIds, e \in CmdEntries : LoadSchTblEntry(i, e)
           \/ MetTick \/ ClockStateChange
  <2>1. UNCHANGED <<timer, MinorFramesSinceTone, mfPc>>
    BY <1>4 DEF vars, schVars, envVars, ExecuteTake, ExecuteCount,
                ExecuteRun, ResetStatus, ConfigSchEntryCmd, LoadSchEntryCmd,
                LoadSchTbl, LoadSchTblEntry, MetTick, ClockStateChange
  <2>. QED
    BY <2>1, TimerUnchanged
<1>. QED
  BY <1>1, <1>2, <1>3, <1>4 DEF Next

LEMMA InitTimerInv == Init => TimerInv
BY DEF Init, TimerInv, TimerArmed

(* TimerInv, which the threaded run checks, holds in every reachable     *)
(* state: a one-shot timer runs only at the time-sync slot, and between  *)
(* the halves of a threaded MinorFrameCallback a stopped timer has its   *)
(* tone counter at SCHTBL_SLOTS.                                         *)
THEOREM TimerInvariant == Spec => []TimerInv
BY InitTimerInv, NextTimer, TypeCorrect, PTL DEF Spec

(* MinorFrameCallback never leaves the timer stopped when it returns:    *)
(* whenever the one-shot timer of the start-up or of the long time-sync  *)
(* slot fires, the callback (or its threaded tail) sets it again, so the *)
(* minor frames keep coming whether or not a tone ever arrives.          *)
THEOREM TimerAlwaysArmed == Spec => []TimerArmed
<1>1. TimerInv => TimerArmed
  BY DEF TimerInv
<1>. QED
  BY <1>1, TimerInvariant, PTL

=============================================================================
