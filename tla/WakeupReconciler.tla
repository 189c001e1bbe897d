-------------------------- MODULE WakeupReconciler --------------------------
(***************************************************************************)
(* The Wakeup Reconciler: SCHEDULER_Execute, run by the scheduler task.    *)
(*                                                                         *)
(* It is split at the points where what it reads from shared state can    *)
(* change under it:                                                        *)
(*   ExecuteTake   OS_BinSemTake, the noisy-frame message flag and the     *)
(*                 first half of GetCurrentSlotNumber (lines 687-708);     *)
(*   ExecuteCount  the rest of GetCurrentSlotNumber (a second load of      *)
(*                 LastSyncMETSlot when ReloadShared) and the ProcessCount *)
(*                 policy: rollover, jitter correction, same slot, lag     *)
(*                 skip, per-wakeup cap (lines 711-833);                   *)
(*   ExecuteRun    one ProcessNextSlot of the final loop (lines 835-839).  *)
(* ProcessNextSlot always returns CFE_SUCCESS, so the loop runs            *)
(* ProcessCount times and SCHEDULER_Execute returns true.                  *)
(***************************************************************************)
EXTENDS SlotExecutor

(* The first ProcessCount: slots from NextSlotNumber to cur, inclusive,   *)
(* across the rollover (uint32).                                         *)
FirstProcessCount(cur, next) ==
  IF cur < next THEN ((Slots - next) + (cur + 1)) % Word
  ELSE ((cur - next) + 1) % Word

(* Jitter correction (lines 733-761): the count to use and the new       *)
(* LastProcessCount, from the first count c and the previous last.       *)
JitterCount(c, last) ==
  IF c = 2 THEN (IF last = 1 THEN 1 ELSE 2)
  ELSE IF c = Slots THEN (IF last # Slots THEN 1 ELSE Slots)
  ELSE c
JitterLast(c) == IF c = 2 THEN 2 ELSE IF c = Slots THEN Slots ELSE c

(* Same slot (line 766): the whole table is due, the slot did not move. *)
SameSlotCount(c) == IF c = Slots THEN 0 ELSE c

(* Lag skip (lines 777-809) *)
Lagging(c) == c > MaxLagCount

(* The pass count after a lag skip from next to cur (line 788). *)
(* Variant that does not count a skipped rollover. *)
SkipPassUncounted(cur, next, pass) == pass
SkipPass(cur, next, pass) == IF cur < next THEN NextPass(pass) ELSE pass

(* Per-wakeup cap (lines 814-817) *)
Capped(c) == IF c > MaxSlotsPerWakeup THEN MaxSlotsPerWakeup ELSE c

(* The task takes the semaphore (it blocks until a callback gives it),   *)
(* re-arms the noisy message when the major frame is not ignored, and    *)
(* reads the slot: MinorFramesSinceTone, or the MET slot and a first     *)
(* load of LastSyncMETSlot.                                              *)
ExecuteTake ==
  /\ pc = "Wait"
  /\ TimeSemaphore
  /\ TimeSemaphore' = FALSE
  /\ SendNoisyMajorFrameMsg' = ~IgnoreMajorFrame
  /\ metMode' = (SyncToMET # {})
  /\ CurrentSlot' = IF SyncToMET # {} THEN GetMETSlotNumber(met)
                    ELSE MinorFramesSinceTone
  /\ lastSyncCmp' = IF SyncToMET # {} THEN LastSyncMETSlot ELSE 0
  /\ pc' = "Slot"
  /\ UNCHANGED <<NextSlotNumber, TablePassCount, LastProcessCount,
                 MinorFramesSinceTone, LastSyncMETSlot, SyncToMET,
                 MajorFrameSource, SyncAttemptsLeft, IgnoreMajorFrame,
                 UnexpectedMajorFrame, ConsecutiveNoisyFrameCounter, SchTbl,
                 timer, timerLeft, met, toneSeen, flying, ProcessCount,
                 mfPc>>

(* The task finishes GetCurrentSlotNumber and decides how many slots to  *)
(* process.  A lag skip moves NextSlotNumber to the current slot, with   *)
(* one more table pass when it skips the rollover.                       *)
ExecuteCount ==
  LET lastSyncSub == IF ReloadShared THEN LastSyncMETSlot ELSE lastSyncCmp
      cur   == IF metMode THEN RebasedSlot(CurrentSlot, lastSyncCmp, lastSyncSub)
               ELSE CurrentSlot
      first == FirstProcessCount(cur, NextSlotNumber)
      count == SameSlotCount(JitterCount(first, LastProcessCount))
      skip  == Lagging(count)
      final == Capped(IF skip THEN 1 ELSE count)
  IN
  /\ pc = "Slot"
  /\ LastProcessCount' = JitterLast(first)
  /\ TablePassCount' = IF skip THEN SkipPass(cur, NextSlotNumber, TablePassCount)
                       ELSE TablePassCount
  /\ NextSlotNumber' = IF skip THEN cur ELSE NextSlotNumber
  /\ ProcessCount' = final
  /\ pc' = IF final = 0 THEN "Wait" ELSE "Run"
  /\ metMode' = FALSE
  /\ CurrentSlot' = 0
  /\ lastSyncCmp' = 0
  /\ UNCHANGED <<MinorFramesSinceTone, LastSyncMETSlot, SyncToMET,
                 MajorFrameSource, SyncAttemptsLeft, IgnoreMajorFrame,
                 UnexpectedMajorFrame, ConsecutiveNoisyFrameCounter,
                 SendNoisyMajorFrameMsg, SchTbl, envVars, mfPc>>

(* One iteration of the processing loop. *)
ExecuteRun(failed) ==
  /\ pc = "Run"
  /\ ProcessNextSlot(failed)
  /\ ProcessCount' = ProcessCount - 1
  /\ pc' = IF ProcessCount = 1 THEN "Wait" ELSE "Run"
  /\ UNCHANGED <<LastProcessCount, MinorFramesSinceTone, LastSyncMETSlot,
                 SyncToMET, MajorFrameSource, SyncAttemptsLeft,
                 IgnoreMajorFrame, UnexpectedMajorFrame,
                 ConsecutiveNoisyFrameCounter, SendNoisyMajorFrameMsg,
                 envVars, metMode, CurrentSlot, lastSyncCmp, mfPc>>

=============================================================================
