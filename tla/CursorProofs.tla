---------------------------- MODULE CursorProofs ----------------------------
(***************************************************************************)
(* Proof that the table position (NextSlotNumber, TablePassCount) of the   *)
(* scheduler implements the abstract cursor of TableCursor, under the      *)
(* refinement mapping slot <- NextSlotNumber, pass <- TablePassCount of    *)
(* Scheduler's Cursor instance.  The argument follows the steps that move  *)
(* the position:                                                           *)
(*   ExecuteRun (ProcessNextSlot) is Advance;                              *)
(*   ExecuteCount is a lag Skip when it skips, and a stutter otherwise;    *)
(*   ResetStatus is RestartPass;                                           *)
(*   every other step leaves the position alone.                           *)
(* It rests on SlotInv, in a build with atomic callbacks and a single load *)
(* of LastSyncMETSlot: there NextSlotNumber and the slot the task skips to *)
(* are slots of the table, so the uint32 arithmetic never wraps.           *)
(***************************************************************************)
EXTENDS SchedulerProofs

USE SlotsAssumption, WordAssumption, MaxLagAssumption

(* The ProcessCount policy never counts more slots than lie between the *)
(* next slot and the current one, and never the whole table: a lag skip  *)
(* (a count above SCHEDULER_MAX_LAG_COUNT >= 1) happens only when the    *)
(* first count is itself above the limit and short of the whole table.   *)
LEMMA PolicyBound ==
  ASSUME NEW c \in 1 .. Slots, NEW last \in Uint,
         Lagging(SameSlotCount(JitterCount(c, last)))
  PROVE  c > MaxLagCount /\ c < Slots
BY DEF Lagging, SameSlotCount, JitterCount

(* From slot next to slot cur of the table, the first count of          *)
(* SCHEDULER_Execute is the forward distance plus one.                   *)
LEMMA FirstCountAhead ==
  ASSUME NEW cur \in SlotIds, NEW next \in SlotIds
  PROVE  FirstProcessCount(cur, next) = Cursor!Ahead(next, cur) + 1
<1>1. CASE cur < next
  <2>1. (Slots - next) + (cur + 1) \in 0 .. (Word - 1)
    BY <1>1 DEF SlotIds
  <2>. QED
    BY <1>1, <2>1, ModSmall DEF FirstProcessCount, Cursor!Ahead, SlotIds
<1>2. CASE ~(cur < next)
  <2>1. (cur - next) + 1 \in 0 .. (Word - 1)
    BY <1>2 DEF SlotIds
  <2>. QED
    BY <1>2, <2>1, ModSmall DEF FirstProcessCount, Cursor!Ahead, SlotIds
<1>. QED
  BY <1>1, <1>2

(* A lag skip of SCHEDULER_Execute to the current slot is a Skip of the  *)
(* cursor: at least MaxLag slots ahead, less than a whole table, and it  *)
(* counts the pass exactly when it crosses the rollover.                  *)
LEMMA LagSkipIsSkip ==
  ASSUME NEW cur \in SlotIds, NEW next \in SlotIds, NEW last \in Uint,
         NEW p \in Nat,
         Lagging(SameSlotCount(JitterCount(FirstProcessCount(cur, next),
                                           last)))
  PROVE  /\ Cursor!Ahead(next, cur) >= MaxLagCount
         /\ Cursor!Ahead(next, cur) <= Slots - 2
         /\ SkipPass(cur, next, p) = IF cur < next THEN p + 1 ELSE p
<1>1. Cursor!Ahead(next, cur) \in 0 .. (Slots - 1)
  BY DEF Cursor!Ahead, SlotIds
<1>2. FirstProcessCount(cur, next) \in 1 .. Slots
  BY <1>1, FirstCountAhead
<1>3. FirstProcessCount(cur, next) > MaxLagCount
      /\ FirstProcessCount(cur, next) < Slots
  BY <1>2, PolicyBound
<1>. QED
  BY <1>1, <1>3, FirstCountAhead DEF SkipPass, NextPass

(* NextSlotNumber++ of ProcessNextSlot, with its rollover and pass count, *)
(* is the cursor's Advance on a slot of the table.                       *)
LEMMA AdvanceIsAdvance ==
  ASSUME NEW s \in SlotIds, NEW p \in Nat
  PROVE  /\ AdvanceSlot(s) = IF s = Slots - 1 THEN 0 ELSE s + 1
         /\ AdvancePass(s, p) = IF s = Slots - 1 THEN p + 1 ELSE p
<1>1. (s + 1) % Word = s + 1
  BY ModSmall DEF SlotIds
<1>. QED
  BY <1>1 DEF AdvanceSlot, AdvancePass, NextPass, SlotIds

(* SCHEDULER_Execute's count-and-skip step moves the position only by a   *)
(* lag skip to the slot it read.                                          *)
LEMMA ExecuteCountCursor ==
  ASSUME AtomicBuild, SlotInv, ExecuteCount
  PROVE  [Cursor!Next]_<<NextSlotNumber, TablePassCount>>
<1>. DEFINE lastSyncSub == IF ReloadShared THEN LastSyncMETSlot ELSE lastSyncCmp
            cur   == IF metMode
                     THEN RebasedSlot(CurrentSlot, lastSyncCmp, lastSyncSub)
                     ELSE CurrentSlot
            first == FirstProcessCount(cur, NextSlotNumber)
            count == SameSlotCount(JitterCount(first, LastProcessCount))
            skip  == Lagging(count)
<1>1. /\ NextSlotNumber' = IF skip THEN cur ELSE NextSlotNumber
      /\ TablePassCount' = IF skip
                           THEN SkipPass(cur, NextSlotNumber, TablePassCount)
                           ELSE TablePassCount
  BY Zenon DEF ExecuteCount
<1>2. /\ NextSlotNumber \in SlotIds
      /\ TablePassCount \in Nat
      /\ LastProcessCount \in Uint
      /\ CurrentSlot \in SlotIds
      /\ lastSyncCmp \in SlotIds
  BY DEF AtomicBuild, SlotInv, IInv, TypeOK, ExecuteCount
<1>3. cur \in SlotIds
  <2>1. lastSyncSub = lastSyncCmp
    BY DEF AtomicBuild
  <2>. QED
    BY <1>2, <2>1, RebasedSlotInRange
<1>4. CASE skip
  <2>1. /\ Cursor!Ahead(NextSlotNumber, cur) >= MaxLagCount
        /\ Cursor!Ahead(NextSlotNumber, cur) <= Slots - 2
        /\ SkipPass(cur, NextSlotNumber, TablePassCount)
             = IF cur < NextSlotNumber THEN TablePassCount + 1
               ELSE TablePassCount
    BY <1>2, <1>3, <1>4, LagSkipIsSkip
  <2>2. Cursor!Skip
    BY <1>1, <1>3, <1>4, <2>1 DEF Cursor!Skip, SlotIds
  <2>. QED
    BY <2>2 DEF Cursor!Next
<1>5. CASE ~skip
  BY <1>1, <1>5
<1>. QED
  BY <1>4, <1>5

(* Every step of the scheduler is a step of the cursor or leaves the     *)
(* table position alone.                                                 *)
LEMMA CursorStep ==
  ASSUME AtomicBuild, SlotInv, [Next]_vars
  PROVE  [Cursor!Next]_<<NextSlotNumber, TablePassCount>>
<1>1. CASE ExecuteCount
  BY <1>1, ExecuteCountCursor
<1>2. CASE \E failed \in SUBSET EntryIds : ExecuteRun(failed)
  <2>1. NextSlotNumber \in SlotIds /\ TablePassCount \in Nat
    BY DEF AtomicBuild, SlotInv, IInv, TypeOK
  <2>2. /\ NextSlotNumber' = AdvanceSlot(NextSlotNumber)
        /\ TablePassCount' = AdvancePass(NextSlotNumber, TablePassCount)
    BY <1>2 DEF ExecuteRun, ProcessNextSlot
  <2>3. Cursor!Advance
    BY <2>1, <2>2, AdvanceIsAdvance DEF Cursor!Advance
  <2>. QED
    BY <2>3 DEF Cursor!Next
<1>3. CASE ResetStatus
  <2>1. Cursor!RestartPass
    BY <1>3 DEF ResetStatus, Cursor!RestartPass
  <2>. QED
    BY <2>1 DEF Cursor!Next
<1>4. CASE \/ UNCHANGED vars \/ MajorFrameCallback \/ MinorFrameCallback
           \/ MinorFrameTail \/ ExecuteTake
           \/ \E i \in CmdIds, enabled \in BOOLEAN :
                ConfigSchEntryCmd(i, enabled)
           \/ \E i \in CmdIds, e \in CmdEntries : LoadSchEntryCmd(i, e)
           \/ \E t \in LoadTables : LoadSchTbl(t)
           \/ \E i \in CmdIds, e \in CmdEntries : LoadSchTblEntry(i, e)
           \/ MetTick \/ ClockStateChange
  BY <1>4 DEF vars, schVars, MajorFrameCallback, MinorFrameCallback,
              MinorFrameTail, ExecuteTake, ConfigSchEntryCmd, LoadSchEntryCmd,
              LoadSchTbl, LoadSchTblEntry, MetTick, ClockStateChange
<1>. QED
  BY <1>1, <1>2, <1>3, <1>4 DEF Next

(* In a build where MinorFrameCallback runs to completion before the     *)
(* task resumes and GetCurrentSlotNumber loads LastSyncMETSlot once, the *)
(* table position of SCHEDULER_Execute, ProcessNextSlot and the reset    *)
(* command implements the abstract cursor: it starts at slot 0 of pass   *)
(* 0, and it only ever advances one slot (counting the rollover), skips  *)
(* forward by a lag jump that counts the rollover it crosses, or         *)
(* restarts the pass count.                                              *)
THEOREM CursorRefines ==
  ASSUME AtomicBuild
  PROVE  Spec => CursorRefinement
<1>1. Init => Cursor!Init
  BY DEF Init, Cursor!Init
<1>2. SlotInv /\ [Next]_vars => [Cursor!Next]_<<NextSlotNumber, TablePassCount>>
  BY CursorStep
<1>. QED
  BY <1>1, <1>2, SlotInvariant, PTL
  DEF Spec, CursorRefinement, Cursor!Spec, Cursor!cursor

=============================================================================
