---------------------------- MODULE SlotExecutor ----------------------------
(***************************************************************************)
(* The Slot Executor: ProcessNextSlot, one slot of the schedule table.     *)
(*                                                                         *)
(* Every enabled entry of the slot whose Offset equals TablePassCount mod  *)
(* Period is dispatched.  Whether the message is found in the message      *)
(* table and CFE_SB_TransmitMsg succeeds is up to the environment: any     *)
(* subset of the dispatched entries may fail, and a failed entry is        *)
(* disabled.  The slot then advances, rolling over to 0 with one more      *)
(* table pass.  The ground-command hook at the time-sync slot is a stub in *)
(* the code (a TODO) and changes nothing.                                  *)
(***************************************************************************)
EXTENDS SchedulerState

(* The entries of slot s (SlotIndex .. SlotIndex + ACTIVITIES - 1).  For *)
(* a slot beyond the table the code reads past the array; the model      *)
(* dispatches nothing there.                                             *)
SlotEntries(s) == {i \in EntryIds : i \div Activities = s}

(* The entries of slot s that are due in pass p. *)
Due(s, p) ==
  {i \in SlotEntries(s) :
     /\ SchTbl[i].Enabled
     /\ SchTbl[i].Period # 0
     /\ p % SchTbl[i].Period = SchTbl[i].Offset}

(* TablePassCount++ (lines 790 and 1261). *)
NextPass(p) == p + 1

(* NextSlotNumber++, with the rollover to 0 and TablePassCount++.  The *)
(* slot number is a uint32.                                              *)
(* Variant whose rollover test is one slot late. *)
AdvanceSlotLate(s) == IF (s + 1) % Word > Slots THEN 0 ELSE (s + 1) % Word
AdvanceSlot(s) == IF (s + 1) % Word = Slots THEN 0 ELSE (s + 1) % Word
(* Variant that never counts the pass. *)
AdvancePassMissing(s, p) == p
AdvancePass(s, p) == IF (s + 1) % Word = Slots THEN NextPass(p) ELSE p

(* ProcessNextSlot, with failed the set of due entries whose dispatch   *)
(* fails.                                                                *)
ProcessNextSlot(failed) ==
  /\ failed \subseteq Due(NextSlotNumber, TablePassCount)
  /\ SchTbl' = [i \in EntryIds |->
                  IF i \in failed THEN [SchTbl[i] EXCEPT !.Enabled = FALSE]
                  ELSE SchTbl[i]]
  /\ NextSlotNumber' = AdvanceSlot(NextSlotNumber)
  /\ TablePassCount' = AdvancePass(NextSlotNumber, TablePassCount)

=============================================================================
