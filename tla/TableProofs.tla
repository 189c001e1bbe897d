---------------------------- MODULE TableProofs ----------------------------
(***************************************************************************)
(* Proof that no schedule-table entry is ever enabled with a Period or an  *)
(* Offset that ProcessNextSlot cannot use (TablePassCount % Period with    *)
(* Period = 0, or an Offset that no pass reaches).  The start-up table and *)
(* every table or entry the table manager loads are validated by it; the   *)
(* two ground commands check the entry themselves; ProcessNextSlot only    *)
(* disables.  EnabledEntriesValid is inductive given the type of SchTbl.   *)
(***************************************************************************)
EXTENDS SchedulerProofs

USE SchTblInitValid

(* An entry that is disabled, or valid, may be stored anywhere. *)
LEMMA StoreAccepted ==
  ASSUME TypeOK, EnabledEntriesValid, NEW i \in EntryIds, NEW e,
         TableManagerAccepts(e),
         SchTbl' = [SchTbl EXCEPT ![i] = e]
  PROVE  EnabledEntriesValid'
BY DEF EnabledEntriesValid, TableManagerAccepts, TypeOK

(* The steps that do not write the table. *)
LEMMA TableUnchanged ==
  ASSUME EnabledEntriesValid, SchTbl' = SchTbl
  PROVE  EnabledEntriesValid'
BY DEF EnabledEntriesValid

(* ProcessNextSlot disables the entries whose dispatch failed and keeps  *)
(* the others as they are.                                               *)
LEMMA ExecuteRunValid ==
  ASSUME TypeOK, EnabledEntriesValid, NEW failed \in SUBSET EntryIds,
         ExecuteRun(failed)
  PROVE  EnabledEntriesValid'
<1>. SUFFICES ASSUME NEW i \in EntryIds, SchTbl'[i].Enabled
              PROVE  ValidEntry(SchTbl'[i])
  BY DEF EnabledEntriesValid
<1>1. SchTbl[i] \in Entry
  BY DEF TypeOK
<1>2. CASE i \in failed
  <2>1. SchTbl'[i] = [SchTbl[i] EXCEPT !.Enabled = FALSE]
    BY <1>2 DEF ExecuteRun, ProcessNextSlot
  <2>. QED
    BY <1>1, <2>1 DEF Entry
<1>3. CASE i \notin failed
  <2>1. SchTbl'[i] = SchTbl[i]
    BY <1>3 DEF ExecuteRun, ProcessNextSlot
  <2>. QED
    BY <2>1 DEF EnabledEntriesValid
<1>. QED
  BY <1>2, <1>3

(* SCHEDULER_ConfigSchEntryCmd enables an entry only if its Period and   *)
(* Offset, which it leaves alone, are valid.                             *)
LEMMA ConfigValid ==
  ASSUME TypeOK, EnabledEntriesValid, NEW i \in CmdIds,
         NEW enabled \in BOOLEAN, ConfigSchEntryCmd(i, enabled)
  PROVE  EnabledEntriesValid'
<1>1. i \in EntryIds /\ SchTbl[i] \in Entry
  BY CmdAssumption DEF TypeOK
<1>2. SchTbl' = [SchTbl EXCEPT ![i] = [SchTbl[i] EXCEPT !.Enabled = enabled]]
  BY <1>1 DEF ConfigSchEntryCmd
<1>3. TableManagerAccepts([SchTbl[i] EXCEPT !.Enabled = enabled])
  BY <1>1 DEF ConfigSchEntryCmd, TableManagerAccepts, ValidEntry, Entry
<1>. QED
  BY <1>1, <1>2, <1>3, StoreAccepted

(* Every step of the scheduler keeps the enabled entries valid. *)
LEMMA NextValid ==
  TypeOK /\ EnabledEntriesValid /\ [Next]_vars => EnabledEntriesValid'
<1>. SUFFICES ASSUME TypeOK, EnabledEntriesValid, [Next]_vars
              PROVE  EnabledEntriesValid'
  OBVIOUS
<1>1. CASE \/ UNCHANGED vars \/ MajorFrameCallback \/ MinorFrameCallback
           \/ MinorFrameTail \/ ExecuteTake \/ ExecuteCount \/ ResetStatus
           \/ MetTick \/ ClockStateChange
  <2>1. SchTbl' = SchTbl
    BY <1>1 DEF vars, schVars, MajorFrameCallback, MinorFrameCallback,
                MinorFrameTail, ExecuteTake, ExecuteCount, ResetStatus,
                MetTick, ClockStateChange
  <2>. QED
    BY <2>1, TableUnchanged
<1>2. CASE \E failed \in SUBSET EntryIds : ExecuteRun(failed)
  BY <1>2, ExecuteRunValid
<1>3. CASE \E i \in CmdIds, enabled \in BOOLEAN : ConfigSchEntryCmd(i, enabled)
  BY <1>3, ConfigValid
<1>4. CASE \E i \in CmdIds, e \in CmdEntries : LoadSchEntryCmd(i, e)
  <2>. PICK i \in CmdIds, e \in CmdEntries : LoadSchEntryCmd(i, e)
    BY <1>4
  <2>1. TableManagerAccepts(e) /\ SchTbl' = [SchTbl EXCEPT ![i] = e]
    BY DEF LoadSchEntryCmd, TableManagerAccepts
  <2>. QED
    BY <2>1, StoreAccepted, CmdAssumption
<1>5. CASE \E t \in LoadTables :
             /\ \A i \in EntryIds : TableManagerAccepts(t[i])
             /\ LoadSchTbl(t)
  BY <1>5 DEF LoadSchTbl, EnabledEntriesValid, TableManagerAccepts
<1>6. CASE \E i \in CmdIds, e \in CmdEntries :
             TableManagerAccepts(e) /\ LoadSchTblEntry(i, e)
  BY <1>6, StoreAccepted, CmdAssumption DEF LoadSchTblEntry
<1>. QED
  BY <1>1, <1>2, <1>3, <1>4, <1>5, <1>6 DEF Next

(* No schedule-table entry is ever enabled with Period = 0 or            *)
(* Offset >= Period, whatever the commands, the loads and the failed     *)
(* dispatches of ProcessNextSlot do, in any order.  So the               *)
(* TablePassCount % Period of ProcessNextSlot never divides by zero.     *)
THEOREM EntriesValid == Spec => []EnabledEntriesValid
<1>1. Init => EnabledEntriesValid
  BY DEF Init, EnabledEntriesValid, TableManagerAccepts
<1>. QED
  BY <1>1, NextValid, TypeCorrect, PTL DEF Spec

=============================================================================
