-------------------------- MODULE MinorFrameDriver --------------------------
(***************************************************************************)
(* The Minor-Frame Driver: MinorFrameCallback, called by the OS timer.     *)
(*                                                                         *)
(* The callback is split where another thread can observe it: after the    *)
(* increment of MinorFramesSinceTone and before its rollover check         *)
(* (scheduler.c 1048/1051).  With CallbackThreads = FALSE (callbacks run   *)
(* in interrupt context, or the task cannot be preempted by them) the two  *)
(* halves are one step; with CallbackThreads = TRUE (OSAL time-base        *)
(* thread) the task and the tone callback may run between them.           *)
(***************************************************************************)
EXTENDS SchedulerState

(* The timer fires: a periodic timer stays armed, a one-shot one stops.  *)
Fired(t) == IF t = "OneShot" THEN "Stopped" ELSE t

(* Lines 1051-1089, applied to the counter value m and the timer mode t: *)
(* rollover (short slot, counter back to 0), long one-shot slot at the   *)
(* time-sync slot, and the semaphore given.                              *)
(* Variant whose rollover test is one slot late. *)
TailSlotLate(m) == IF m > Slots THEN 0 ELSE m
TailSlot(m) == IF m >= Slots THEN 0 ELSE m
(* Variant that does not re-arm the timer after a long slot. *)
TailTimerNoRearm(m, t) ==
  IF TailSlot(m) = TimeSyncSlot THEN "OneShot" ELSE t
TailTimer(m, t) ==
  IF TailSlot(m) = TimeSyncSlot THEN "OneShot"
  ELSE IF m >= Slots THEN "Periodic"
  ELSE t
(* Its start time: the long slot, the short slot, or the time left l. *)
TailLeft(m, l) ==
  IF TailSlot(m) = TimeSyncSlot THEN TimerStart(SyncSlotPeriod)
  ELSE IF m >= Slots THEN TimerStart(ShortSlotPeriod)
  ELSE l

(* The early return of a pending synchronization (line 1021): keep       *)
(* waiting while the MET slot is not 0 and attempts remain.             *)
(* Variant that waits with no attempt limit. *)
SyncWaitNoLimit(slot, left) == slot # 0
SyncWait(slot, left) == slot # 0 /\ left > 0

(* Lines 997-1049: the head of the callback.  At the first call with no  *)
(* Major Frame source yet the timer becomes the source and a MET         *)
(* synchronization is started.  While it is pending, the timer is set to *)
(* nominal and one attempt is used; the callback returns early (no       *)
(* semaphore) while the MET slot is not 0 and attempts remain, else the  *)
(* synchronization is declared and the counter set to the MET slot.     *)
(* Otherwise the counter is incremented.  SyncAttemptsLeft is a uint32.  *)
MinorFrameCallback ==
  LET first   == MajorFrameSource = "NONE"
      src     == IF first THEN "MINOR_FRAME_TIMER" ELSE MajorFrameSource
      sync    == IF first THEN SyncToMET \cup {"MAJOR_PENDING"} ELSE SyncToMET
      attempt == IF first THEN MaxSyncAttempts ELSE SyncAttemptsLeft
      pending == "MAJOR_PENDING" \in sync /\ src = "MINOR_FRAME_TIMER"
      left    == (attempt - 1) % Word
      slot    == GetMETSlotNumber(met)
      wait    == pending /\ SyncWait(slot, left)
      t       == IF pending THEN "Periodic" ELSE Fired(timer)
      l       == IF t = "Periodic" THEN TimerStart(SlotPeriod) ELSE 0
      m       == IF pending THEN slot ELSE MinorFramesSinceTone + 1
  IN
  /\ mfPc = "Idle"
  /\ timer \in {"Periodic", "OneShot"}
  /\ timerLeft = 0
  /\ MajorFrameSource' = src
  /\ SyncAttemptsLeft' = IF pending THEN left ELSE attempt
  /\ \/ /\ wait
        /\ SyncToMET' = sync
        /\ LastSyncMETSlot' = IF first THEN 0 ELSE LastSyncMETSlot
        /\ timer' = t
        /\ timerLeft' = l
        /\ UNCHANGED <<MinorFramesSinceTone, TimeSemaphore, mfPc>>
     \/ /\ ~wait
        /\ SyncToMET' = IF pending
                        THEN (sync \ {"MAJOR_PENDING"}) \cup {"TO_MAJOR"}
                        ELSE sync
        /\ LastSyncMETSlot' = IF first \/ pending THEN 0 ELSE LastSyncMETSlot
        /\ IF CallbackThreads
           THEN /\ MinorFramesSinceTone' = m
                /\ timer' = t
                /\ timerLeft' = l
                /\ mfPc' = "Tail"
                /\ UNCHANGED TimeSemaphore
           ELSE /\ MinorFramesSinceTone' = TailSlot(m)
                /\ timer' = TailTimer(m, t)
                /\ timerLeft' = TailLeft(m, l)
                /\ TimeSemaphore' = TRUE
                /\ UNCHANGED mfPc
  /\ UNCHANGED <<NextSlotNumber, TablePassCount, LastProcessCount,
                 IgnoreMajorFrame, UnexpectedMajorFrame,
                 ConsecutiveNoisyFrameCounter, SendNoisyMajorFrameMsg,
                 SchTbl, met, toneSeen, flying, taskVars>>

(* The second half of a threaded MinorFrameCallback: it re-reads the      *)
(* counter, which the task may have read and the tone callback may have   *)
(* reset in between.                                                      *)
MinorFrameTail ==
  /\ mfPc = "Tail"
  /\ MinorFramesSinceTone' = TailSlot(MinorFramesSinceTone)
  /\ timer' = TailTimer(MinorFramesSinceTone, timer)
  /\ timerLeft' = TailLeft(MinorFramesSinceTone, timerLeft)
  /\ TimeSemaphore' = TRUE
  /\ mfPc' = "Idle"
  /\ UNCHANGED <<NextSlotNumber, TablePassCount, LastProcessCount,
                 LastSyncMETSlot, SyncToMET, MajorFrameSource,
                 SyncAttemptsLeft, IgnoreMajorFrame, UnexpectedMajorFrame,
                 ConsecutiveNoisyFrameCounter, SendNoisyMajorFrameMsg,
                 SchTbl, met, toneSeen, flying, taskVars>>

=============================================================================
