-------------------------- MODULE SchedulerProofs --------------------------
(***************************************************************************)
(* Proofs about the kit_sch scheduler, for every value of the constants    *)
(* that satisfies the assumptions of SlotClock, SchedulerState and         *)
(* Scheduler.  The argument: SlotInv (Scheduler) holds initially and every *)
(* step of Next preserves it; TypeOK, SyncAttemptsInRange and, in a build  *)
(* with atomic callbacks and a single load of LastSyncMETSlot,             *)
(* NextSlotInRange follow from it.                                         *)
(***************************************************************************)
EXTENDS Scheduler, TLAPS

USE SlotsAssumption, SlotPeriodAssumption, MicrosAssumption, WordAssumption,
    MaxSyncAssumption, MaxSlotsAssumption, MaxLagAssumption, MaxNoisyAssumption,
    ActivitiesAssumption, MaxPeriodAssumption, AccuracyAssumption,
    SchTblInitAssumption, CmdAssumption, ThreadsAssumption,
    TimerPeriodAssumption

-----------------------------------------------------------------------------
(* Quotient and remainder of a natural by a positive natural. *)
LEMMA DivMod ==
  ASSUME NEW x \in Nat, NEW b \in Nat \ {0}
  PROVE  /\ x \div b \in Nat
         /\ x % b \in 0 .. (b - 1)
         /\ x = (x \div b) * b + (x % b)
<1>1. x % b = x - b * (x \div b)
  OBVIOUS
<1>2. x \div b \in Nat
  BY SMTT(60)
<1>3. x % b \in 0 .. (b - 1)
  OBVIOUS
<1>. QED
  BY <1>1, <1>2, <1>3

(* Integer division is determined by quotient and remainder. *)
LEMMA DivUnique ==
  ASSUME NEW x \in Nat, NEW b \in Nat \ {0}, NEW q \in Nat,
         NEW r \in 0 .. (b - 1), x = q * b + r
  PROVE  x \div b = q
OBVIOUS

(* A uint32 value is its own residue. *)
LEMMA ModSmall ==
  ASSUME NEW x \in 0 .. (Word - 1)
  PROVE  x % Word = x
OBVIOUS

(* GetMETSlotNumber maps every microsecond of the MET second to a slot of  *)
(* the table: the quotient is at most SCHTBL_SLOTS, the round-up adds at   *)
(* most one, and SCHTBL_SLOTS itself wraps to 0.  It rests on one second   *)
(* holding Slots slot periods plus less than one (MicrosAssumption).       *)
LEMMA METSlotInRange ==
  ASSUME NEW m \in Micros
  PROVE  GetMETSlotNumber(m) \in SlotIds
<1>1. PICK q \in Nat, r \in 0 .. (SlotPeriod - 1) : m = q * SlotPeriod + r
  <2>1. m \in Nat
    BY DEF Micros
  <2>2. /\ m \div SlotPeriod \in Nat
        /\ m % SlotPeriod \in 0 .. (SlotPeriod - 1)
        /\ m = (m \div SlotPeriod) * SlotPeriod + (m % SlotPeriod)
    BY <2>1, DivMod
  <2>. QED
    BY <2>2, Zenon
<1>2. m \div SlotPeriod = q
  BY <1>1, DivUnique DEF Micros
<1>3. q <= Slots
  BY <1>1 DEF Micros
<1>4. q = Slots => r + 1 < SlotPeriod
  BY <1>1 DEF Micros
<1>5. (r + 1) \div SlotPeriod = IF r + 1 = SlotPeriod THEN 1 ELSE 0
  <2>1. CASE r + 1 = SlotPeriod
    BY <2>1, DivUnique
  <2>2. CASE r + 1 < SlotPeriod
    BY <2>2, DivUnique
  <2>. QED
    BY <2>1, <2>2
<1>6. (m - q * SlotPeriod) + 1 = r + 1
  BY <1>1
<1>7. q + (r + 1) \div SlotPeriod \in 0 .. Slots
  BY <1>3, <1>4, <1>5
<1>. QED
  BY <1>2, <1>6, <1>7 DEF GetMETSlotNumber, SlotIds

(* The MET re-basing of GetCurrentSlotNumber stays in the table when the  *)
(* MET slot and LastSyncMETSlot are slots of the table and both loads of  *)
(* LastSyncMETSlot return the same value.                                 *)
LEMMA RebasedSlotInRange ==
  ASSUME NEW c \in SlotIds, NEW l \in SlotIds
  PROVE  RebasedSlot(c, l, l) \in SlotIds
BY DEF RebasedSlot, SlotIds

(* Whatever the two loads return, the re-based slot is a uint32. *)
LEMMA RebasedSlotType ==
  ASSUME NEW c \in Uint, NEW l \in Uint, NEW k \in Uint
  PROVE  RebasedSlot(c, l, k) \in Uint
BY DEF RebasedSlot, Uint

-----------------------------------------------------------------------------
(* The start-up state (constructor and SCHEDULER_StartTimers) satisfies   *)
(* the strengthened invariant.                                            *)
LEMMA InitSlotInv == Init => SlotInv
<1>. SUFFICES ASSUME Init PROVE SlotInv
  OBVIOUS
<1>1. TypeOK
  <2>1. SchTbl \in [EntryIds -> Entry]
    BY DEF Init
  <2>2. MinorFramesSinceTone \in Uint /\ ProcessCount \in Uint
    BY DEF Init, Uint, TimeSyncSlot
  <2>3. SyncToMET \subseteq SyncFlags
    BY DEF Init, SyncFlags
  <2>4. timerLeft \in Nat /\ toneSeen \in BOOLEAN
    BY DEF Init, TimerStart
  <2>. QED
    BY <2>1, <2>2, <2>3, <2>4 DEF Init, TypeOK, Uint, TimerModes, MFSources
<1>2. SyncAttemptsInRange
  BY DEF Init, SyncAttemptsInRange
<1>. QED
  BY <1>1, <1>2 DEF Init, SlotInv, IInv, SlotIds, TimeSyncSlot

(* MajorFrameCallback preserves it: it only ever sets the tone counter to *)
(* 0, records a MET slot, and clears MAJOR_PENDING when it resyncs.       *)
LEMMA MajorFrameSlotInv == SlotInv /\ MajorFrameCallback => SlotInv'
<1>. SUFFICES ASSUME SlotInv, MajorFrameCallback PROVE SlotInv'
  OBVIOUS
<1>1. GetMETSlotNumber(met) \in SlotIds
  BY METSlotInRange DEF SlotInv, IInv, TypeOK
<1>2. TypeOK'
  <2>1. ConsecutiveNoisyFrameCounter' \in Nat
    BY DEF SlotInv, IInv, TypeOK, MajorFrameCallback
  <2>2. /\ IgnoreMajorFrame' \in BOOLEAN
        /\ UnexpectedMajorFrame' \in BOOLEAN
        /\ TimeSemaphore' \in BOOLEAN
    <3>1. IgnoreMajorFrame' \in BOOLEAN
      <4>1. (ConsecutiveNoisyFrameCounter + 1 >= MaxNoisyMF) \in BOOLEAN
        BY DEF SlotInv, IInv, TypeOK
      <4>. QED
        BY <4>1, Zenon DEF SlotInv, IInv, TypeOK, MajorFrameCallback
    <3>2. UnexpectedMajorFrame' \in BOOLEAN
      BY DEF SlotInv, IInv, TypeOK, MajorFrameCallback
    <3>3. TimeSemaphore' \in BOOLEAN
      BY DEF SlotInv, IInv, TypeOK, MajorFrameCallback
    <3>. QED
      BY <3>1, <3>2, <3>3
  <2>3. /\ timer' \in TimerModes
        /\ MajorFrameSource' \in MFSources
        /\ SyncToMET' \subseteq SyncFlags
    BY DEF SlotInv, IInv, TypeOK, MajorFrameCallback, TimerModes, MFSources
  <2>4. MinorFramesSinceTone' \in Uint /\ LastSyncMETSlot' \in Uint
    BY <1>1 DEF SlotInv, IInv, TypeOK, MajorFrameCallback, Uint, SlotIds
  <2>5. timerLeft' \in Nat /\ toneSeen' \in BOOLEAN
    BY DEF SlotInv, IInv, TypeOK, MajorFrameCallback, TimerStart
  <2>. QED
    BY <2>1, <2>2, <2>3, <2>4, <2>5 DEF SlotInv, IInv, TypeOK, MajorFrameCallback,
                                  taskVars
<1>3. SyncAttemptsInRange'
  BY DEF SlotInv, IInv, MajorFrameCallback, SyncAttemptsInRange
<1>. QED
  BY <1>1, <1>2, <1>3 DEF SlotInv, IInv, MajorFrameCallback, taskVars, SlotIds

(* MinorFrameCallback preserves it.  The counter it stores is the MET    *)
(* slot or one more than a slot of the table (at most SCHTBL_SLOTS), and *)
(* the rollover check brings it back into the table; an attempt is only *)
(* used up while attempts remain, and a pending synchronization that has *)
(* run out of attempts is declared, so MAJOR_PENDING never stays with    *)
(* SyncAttemptsLeft = 0.                                                 *)
LEMMA MinorFrameSlotInv == SlotInv /\ MinorFrameCallback => SlotInv'
<1>. SUFFICES ASSUME SlotInv, MinorFrameCallback PROVE SlotInv'
  OBVIOUS
<1>. DEFINE first   == MajorFrameSource = "NONE"
            src     == IF first THEN "MINOR_FRAME_TIMER" ELSE MajorFrameSource
            sync    == IF first THEN SyncToMET \cup {"MAJOR_PENDING"}
                       ELSE SyncToMET
            attempt == IF first THEN MaxSyncAttempts ELSE SyncAttemptsLeft
            pending == "MAJOR_PENDING" \in sync /\ src = "MINOR_FRAME_TIMER"
            left    == (attempt - 1) % Word
            slot    == GetMETSlotNumber(met)
            m       == IF pending THEN slot ELSE MinorFramesSinceTone + 1
<1>1. slot \in SlotIds
  BY METSlotInRange DEF SlotInv, IInv, TypeOK
<1>2. m \in 0 .. Slots
  BY <1>1 DEF SlotInv, IInv, MinorFrameCallback, SlotIds
<1>3. attempt \in Uint /\ left \in Uint
  BY DEF SlotInv, IInv, TypeOK, Uint
<1>4. pending /\ first => attempt = MaxSyncAttempts
  OBVIOUS
<1>5. pending /\ ~first => attempt \in 1 .. MaxSyncAttempts
  BY DEF SlotInv, IInv, SyncAttemptsInRange
<1>6. TailSlot(m) \in SlotIds
  BY <1>2 DEF TailSlot, SlotIds
<1>7. MinorFramesSinceTone' \in 0 .. Slots
      /\ (mfPc' = "Idle" => MinorFramesSinceTone' \in SlotIds)
      /\ (~CallbackThreads => mfPc' = "Idle")
  BY <1>2, <1>6 DEF SlotInv, IInv, MinorFrameCallback, SlotIds
<1>8. SyncAttemptsLeft' \in Uint /\ SyncAttemptsInRange'
  <2>1. SyncAttemptsLeft' \in Uint
    BY <1>3 DEF MinorFrameCallback
  <2>2. CASE pending /\ SyncWait(slot, left)
    <3>1. attempt \in 1 .. MaxSyncAttempts
      BY <1>4, <1>5, <2>2
    <3>2. left = attempt - 1
      BY <3>1, ModSmall DEF Uint
    <3>3. SyncAttemptsLeft' = left /\ left > 0
      BY <2>2 DEF MinorFrameCallback, SyncWait
    <3>. QED
      BY <2>1, <3>1, <3>2, <3>3 DEF SyncAttemptsInRange
  <2>3. CASE pending /\ ~SyncWait(slot, left)
    <3>1. "MAJOR_PENDING" \notin SyncToMET'
      BY <2>3 DEF MinorFrameCallback
    <3>. QED
      BY <2>1, <3>1 DEF SyncAttemptsInRange
  <2>4. CASE ~pending
    <3>1. SyncToMET' = sync /\ MajorFrameSource' = src
      BY <2>4 DEF MinorFrameCallback
    <3>. QED
      BY <2>1, <2>4, <3>1 DEF SyncAttemptsInRange
  <2>. QED
    BY <2>2, <2>3, <2>4
<1>9. /\ timer' \in TimerModes
      /\ SyncToMET' \subseteq SyncFlags
      /\ MajorFrameSource' \in MFSources
      /\ TimeSemaphore' \in BOOLEAN
      /\ LastSyncMETSlot' \in SlotIds
      /\ timerLeft' \in Nat
  <2>1. timer' \in TimerModes
    BY DEF SlotInv, IInv, TypeOK, MinorFrameCallback, TailTimer, Fired,
           TimerModes
  <2>2. SyncToMET' \subseteq SyncFlags
    BY DEF SlotInv, IInv, TypeOK, MinorFrameCallback, SyncFlags
  <2>3. MajorFrameSource' \in MFSources
    BY DEF SlotInv, IInv, TypeOK, MinorFrameCallback, MFSources
  <2>4. TimeSemaphore' \in BOOLEAN
    BY DEF SlotInv, IInv, TypeOK, MinorFrameCallback
  <2>5. LastSyncMETSlot' \in SlotIds
    BY DEF SlotInv, IInv, MinorFrameCallback, SlotIds
  <2>6. timerLeft' \in Nat
    BY DEF SlotInv, IInv, TypeOK, MinorFrameCallback, TailLeft, TimerStart
  <2>. QED
    BY <2>1, <2>2, <2>3, <2>4, <2>5, <2>6
<1>10. TypeOK'
  BY <1>7, <1>8, <1>9 DEF SlotInv, IInv, TypeOK, MinorFrameCallback, Uint,
                          SlotIds, taskVars
<1>. QED
  BY <1>7, <1>8, <1>9, <1>10 DEF SlotInv, IInv, MinorFrameCallback,
                                 taskVars, AtomicBuild

(* The second half of a threaded MinorFrameCallback brings the counter   *)
(* back into the table.  It only exists when callbacks run in threads.   *)
LEMMA MinorFrameTailSlotInv == SlotInv /\ MinorFrameTail => SlotInv'
<1>. SUFFICES ASSUME SlotInv, MinorFrameTail PROVE SlotInv'
  OBVIOUS
<1>1. TailSlot(MinorFramesSinceTone) \in SlotIds
  BY DEF SlotInv, IInv, TailSlot, SlotIds
<1>2. TailTimer(MinorFramesSinceTone, timer) \in TimerModes
  BY DEF SlotInv, IInv, TypeOK, TailTimer, TimerModes
<1>3. ~AtomicBuild
  BY DEF SlotInv, MinorFrameTail
<1>5. TailLeft(MinorFramesSinceTone, timerLeft) \in Nat
  BY DEF SlotInv, IInv, TypeOK, TailLeft, TimerStart
<1>4. TypeOK'
  BY <1>1, <1>2, <1>5 DEF SlotInv, IInv, TypeOK, MinorFrameTail, SlotIds, Uint,
                    taskVars
<1>. QED
  BY <1>1, <1>3, <1>4 DEF SlotInv, IInv, MinorFrameTail, SlotIds, taskVars,
                          SyncAttemptsInRange

(* OS_BinSemTake and the first half of GetCurrentSlotNumber: the task's  *)
(* copies are a MET slot, or the tone counter, which is a slot of the    *)
(* table unless a threaded callback is between its two halves.           *)
LEMMA ExecuteTakeSlotInv == SlotInv /\ ExecuteTake => SlotInv'
<1>. SUFFICES ASSUME SlotInv, ExecuteTake PROVE SlotInv'
  OBVIOUS
<1>1. GetMETSlotNumber(met) \in SlotIds
  BY METSlotInRange DEF SlotInv, IInv, TypeOK
<1>2. /\ CurrentSlot' \in 0 .. Slots
      /\ AtomicBuild => CurrentSlot' \in SlotIds
      /\ lastSyncCmp' \in SlotIds
  BY <1>1 DEF SlotInv, IInv, ExecuteTake, SlotIds
<1>3. TypeOK'
  <2>1. CurrentSlot' \in Uint /\ lastSyncCmp' \in Uint
    BY <1>2 DEF SlotIds, Uint
  <2>2. metMode' \in BOOLEAN /\ SendNoisyMajorFrameMsg' \in BOOLEAN
        /\ TimeSemaphore' \in BOOLEAN
    BY DEF ExecuteTake
  <2>. QED
    BY <2>1, <2>2 DEF SlotInv, IInv, TypeOK, ExecuteTake
<1>. QED
  BY <1>2, <1>3 DEF SlotInv, IInv, ExecuteTake, SyncAttemptsInRange

(* The ProcessCount policy of SCHEDULER_Execute yields a uint32 count,   *)
(* and the loop is entered only with a positive one.                     *)
LEMMA CountType ==
  ASSUME NEW first \in Uint, NEW last \in Uint, NEW skip \in BOOLEAN
  PROVE  /\ JitterLast(first) \in Uint
         /\ Capped(IF skip THEN 1 ELSE SameSlotCount(JitterCount(first, last)))
              \in Uint
BY DEF JitterLast, JitterCount, SameSlotCount, Capped, Uint

(* The rest of GetCurrentSlotNumber and the ProcessCount policy.  The    *)
(* slot it may skip to is a uint32; in an atomic build it is the re-based *)
(* MET slot of two equal loads, or the tone counter, hence a slot of the *)
(* table.                                                                *)
LEMMA ExecuteCountSlotInv == SlotInv /\ ExecuteCount => SlotInv'
<1>. SUFFICES ASSUME SlotInv, ExecuteCount PROVE SlotInv'
  OBVIOUS
<1>. DEFINE lastSyncSub == IF ReloadShared THEN LastSyncMETSlot ELSE lastSyncCmp
            cur   == IF metMode
                     THEN RebasedSlot(CurrentSlot, lastSyncCmp, lastSyncSub)
                     ELSE CurrentSlot
            first == FirstProcessCount(cur, NextSlotNumber)
            count == SameSlotCount(JitterCount(first, LastProcessCount))
            skip  == Lagging(count)
            final == Capped(IF skip THEN 1 ELSE count)
<1>1. lastSyncSub \in Uint
  BY DEF SlotInv, IInv, TypeOK, SlotIds, Uint
<1>2. cur \in Uint
  BY <1>1, RebasedSlotType DEF SlotInv, IInv, TypeOK
<1>3. AtomicBuild => cur \in SlotIds
  <2>. SUFFICES ASSUME AtomicBuild PROVE cur \in SlotIds
    OBVIOUS
  <2>1. pc = "Slot" /\ CurrentSlot \in SlotIds /\ lastSyncCmp \in SlotIds
    BY DEF SlotInv, IInv, ExecuteCount
  <2>2. lastSyncSub = lastSyncCmp
    BY DEF AtomicBuild
  <2>. QED
    BY <2>1, <2>2, RebasedSlotInRange
<1>4. first \in Uint
  BY <1>2 DEF FirstProcessCount, SlotInv, IInv, TypeOK, Uint
<1>5. skip \in BOOLEAN
  BY DEF Lagging
<1>6. final \in Uint /\ JitterLast(first) \in Uint
  BY <1>4, <1>5, CountType DEF SlotInv, IInv, TypeOK
<1>7. /\ NextSlotNumber' \in Uint
      /\ AtomicBuild => NextSlotNumber' \in SlotIds
  BY <1>2, <1>3 DEF SlotInv, IInv, TypeOK, ExecuteCount
<1>8. TablePassCount' \in Nat
  BY DEF SlotInv, IInv, TypeOK, ExecuteCount, SkipPass, NextPass
<1>9. /\ ProcessCount' = final
      /\ pc' = IF final = 0 THEN "Wait" ELSE "Run"
      /\ LastProcessCount' = JitterLast(first)
  BY DEF ExecuteCount
<1>10. pc' = "Run" => ProcessCount' >= 1
  BY <1>6, <1>9 DEF Uint
<1>11. TypeOK'
  <2>1. /\ ProcessCount' \in Uint
        /\ LastProcessCount' \in Uint
        /\ pc' \in {"Wait", "Slot", "Run"}
    BY <1>6, <1>9
  <2>2. /\ metMode' \in BOOLEAN
        /\ CurrentSlot' \in Uint
        /\ lastSyncCmp' \in Uint
    <3>1. metMode' = FALSE /\ CurrentSlot' = 0 /\ lastSyncCmp' = 0
      BY Zenon DEF ExecuteCount
    <3>2. 0 \in Uint
      BY DEF Uint
    <3>. QED
      BY <3>1, <3>2, Zenon
  <2>. QED
    BY <1>7, <1>8, <2>1, <2>2 DEF SlotInv, IInv, TypeOK, ExecuteCount,
                                  envVars
<1>. QED
  BY <1>7, <1>9, <1>10, <1>11 DEF SlotInv, IInv, ExecuteCount,
                                  SyncAttemptsInRange, SlotIds

(* NextSlotNumber++ with its rollover keeps the slot a uint32 (a slot of *)
(* the table when it was one), a failed dispatch only disables an entry, *)
(* and the loop counter is decremented only while positive.              *)
LEMMA ExecuteRunSlotInv ==
  ASSUME NEW failed \in SUBSET EntryIds
  PROVE  SlotInv /\ ExecuteRun(failed) => SlotInv'
<1>. SUFFICES ASSUME SlotInv, ExecuteRun(failed) PROVE SlotInv'
  OBVIOUS
<1>1. SchTbl' \in [EntryIds -> Entry]
  <2>1. ASSUME NEW i \in EntryIds
        PROVE  [SchTbl[i] EXCEPT !.Enabled = FALSE] \in Entry
    <3>1. SchTbl[i] \in Entry
      BY DEF SlotInv, IInv, TypeOK
    <3>. QED
      BY <3>1 DEF Entry
  <2>. QED
    BY <2>1 DEF SlotInv, IInv, TypeOK, ExecuteRun, ProcessNextSlot
<1>2. /\ NextSlotNumber' \in Uint
      /\ NextSlotNumber \in SlotIds => NextSlotNumber' \in SlotIds
      /\ TablePassCount' \in Nat
  <2>1. AdvanceSlot(NextSlotNumber) \in Uint
    BY DEF SlotInv, IInv, TypeOK, AdvanceSlot, Uint
  <2>2. NextSlotNumber \in SlotIds => AdvanceSlot(NextSlotNumber) \in SlotIds
    <3>. SUFFICES ASSUME NextSlotNumber \in SlotIds
                  PROVE  AdvanceSlot(NextSlotNumber) \in SlotIds
      OBVIOUS
    <3>1. (NextSlotNumber + 1) % Word = NextSlotNumber + 1
      BY ModSmall DEF SlotIds
    <3>. QED
      BY <3>1 DEF AdvanceSlot, SlotIds
  <2>3. AdvancePass(NextSlotNumber, TablePassCount) \in Nat
    BY DEF SlotInv, IInv, TypeOK, AdvancePass, NextPass
  <2>. QED
    BY <2>1, <2>2, <2>3 DEF ExecuteRun, ProcessNextSlot
<1>3. /\ ProcessCount' \in Uint
      /\ pc' = "Run" => ProcessCount' >= 1
      /\ pc' \in {"Wait", "Run"}
  BY DEF SlotInv, IInv, TypeOK, ExecuteRun, Uint
<1>4. TypeOK'
  BY <1>1, <1>2, <1>3 DEF SlotInv, IInv, TypeOK, ExecuteRun, ProcessNextSlot,
                          envVars
<1>. QED
  BY <1>2, <1>3, <1>4 DEF SlotInv, IInv, ExecuteRun, ProcessNextSlot,
                          SyncAttemptsInRange

(* The commands run between two calls of SCHEDULER_Execute.  The reset  *)
(* clears counters and the ignore flag only; the two table commands      *)
(* write one entry of the table, with a valid index.                     *)
LEMMA ResetSlotInv == SlotInv /\ ResetStatus => SlotInv'
<1>. SUFFICES ASSUME SlotInv, ResetStatus PROVE SlotInv'
  OBVIOUS
<1>1. TypeOK'
  BY DEF SlotInv, IInv, TypeOK, ResetStatus, envVars, taskVars
<1>. QED
  BY <1>1 DEF SlotInv, IInv, ResetStatus, SyncAttemptsInRange, taskVars

LEMMA ConfigSlotInv ==
  ASSUME NEW i \in CmdIds, NEW enabled \in BOOLEAN
  PROVE  SlotInv /\ ConfigSchEntryCmd(i, enabled) => SlotInv'
<1>. SUFFICES ASSUME SlotInv, ConfigSchEntryCmd(i, enabled) PROVE SlotInv'
  OBVIOUS
<1>1. SchTbl' \in [EntryIds -> Entry]
  BY DEF SlotInv, IInv, TypeOK, ConfigSchEntryCmd, Entry
<1>. QED
  BY <1>1 DEF SlotInv, IInv, TypeOK, ConfigSchEntryCmd, SyncAttemptsInRange,
              envVars, taskVars

LEMMA LoadSlotInv ==
  ASSUME NEW i \in CmdIds, NEW e \in CmdEntries
  PROVE  SlotInv /\ LoadSchEntryCmd(i, e) => SlotInv'
<1>. SUFFICES ASSUME SlotInv, LoadSchEntryCmd(i, e) PROVE SlotInv'
  OBVIOUS
<1>1. SchTbl' \in [EntryIds -> Entry]
  BY DEF SlotInv, IInv, TypeOK, LoadSchEntryCmd
<1>. QED
  BY <1>1 DEF SlotInv, IInv, TypeOK, LoadSchEntryCmd, SyncAttemptsInRange,
              envVars, taskVars

(* The table manager's loads replace the table, or one entry of it, by   *)
(* entries of the model's type.                                          *)
LEMMA LoadTblSlotInv ==
  ASSUME NEW t \in LoadTables
  PROVE  SlotInv /\ LoadSchTbl(t) => SlotInv'
<1>. SUFFICES ASSUME SlotInv, LoadSchTbl(t) PROVE SlotInv'
  OBVIOUS
<1>1. SchTbl' \in [EntryIds -> Entry]
  BY DEF LoadSchTbl
<1>. QED
  BY <1>1 DEF SlotInv, IInv, TypeOK, LoadSchTbl, SyncAttemptsInRange,
              envVars, taskVars

LEMMA LoadTblEntrySlotInv ==
  ASSUME NEW i \in CmdIds, NEW e \in CmdEntries
  PROVE  SlotInv /\ LoadSchTblEntry(i, e) => SlotInv'
<1>. SUFFICES ASSUME SlotInv, LoadSchTblEntry(i, e) PROVE SlotInv'
  OBVIOUS
<1>1. SchTbl' \in [EntryIds -> Entry]
  BY DEF SlotInv, IInv, TypeOK, LoadSchTblEntry
<1>. QED
  BY <1>1 DEF SlotInv, IInv, TypeOK, LoadSchTblEntry, SyncAttemptsInRange,
              envVars, taskVars

(* The MET ticks within its second; the clock state only flips a flag.   *)
LEMMA EnvironmentSlotInv == SlotInv /\ (MetTick \/ ClockStateChange) => SlotInv'
<1>. SUFFICES ASSUME SlotInv, MetTick \/ ClockStateChange PROVE SlotInv'
  OBVIOUS
<1>1. CASE MetTick
  <2>1. met' \in Micros
    BY <1>1 DEF SlotInv, IInv, TypeOK, MetTick, Micros
  <2>. QED
    BY <1>1, <2>1 DEF SlotInv, IInv, TypeOK, MetTick, SyncAttemptsInRange,
                      schVars, taskVars
<1>2. CASE ClockStateChange
  BY <1>2 DEF SlotInv, IInv, TypeOK, ClockStateChange, SyncAttemptsInRange,
              schVars, taskVars
<1>. QED
  BY <1>1, <1>2

(* Every step of the scheduler preserves SlotInv. *)
LEMMA NextSlotInv == SlotInv /\ [Next]_vars => SlotInv'
<1>. SUFFICES ASSUME SlotInv, [Next]_vars PROVE SlotInv'
  OBVIOUS
<1>1. CASE UNCHANGED vars
  BY <1>1 DEF SlotInv, IInv, TypeOK, SyncAttemptsInRange, vars, schVars,
              envVars, taskVars
<1>2. CASE MajorFrameCallback
  BY <1>2, MajorFrameSlotInv
<1>3. CASE MinorFrameCallback
  BY <1>3, MinorFrameSlotInv
<1>4. CASE MinorFrameTail
  BY <1>4, MinorFrameTailSlotInv
<1>5. CASE ExecuteTake
  BY <1>5, ExecuteTakeSlotInv
<1>6. CASE ExecuteCount
  BY <1>6, ExecuteCountSlotInv
<1>7. CASE \E failed \in SUBSET EntryIds : ExecuteRun(failed)
  BY <1>7, ExecuteRunSlotInv
<1>8. CASE ResetStatus
  BY <1>8, ResetSlotInv
<1>9. CASE \E i \in CmdIds, enabled \in BOOLEAN : ConfigSchEntryCmd(i, enabled)
  BY <1>9, ConfigSlotInv
<1>10. CASE \E i \in CmdIds, e \in CmdEntries : LoadSchEntryCmd(i, e)
  BY <1>10, LoadSlotInv
<1>11. CASE MetTick \/ ClockStateChange
  BY <1>11, EnvironmentSlotInv
<1>12. CASE \E t \in LoadTables :
              /\ \A i \in EntryIds : TableManagerAccepts(t[i])
              /\ LoadSchTbl(t)
  BY <1>12, LoadTblSlotInv
<1>13. CASE \E i \in CmdIds, e \in CmdEntries :
              TableManagerAccepts(e) /\ LoadSchTblEntry(i, e)
  BY <1>13, LoadTblEntrySlotInv
<1>. QED
  BY <1>1, <1>2, <1>3, <1>4, <1>5, <1>6, <1>7, <1>8, <1>9, <1>10, <1>11,
     <1>12, <1>13
  DEF Next

(* SlotInv holds in every reachable state. *)
THEOREM SlotInvariant == Spec => []SlotInv
BY InitSlotInv, NextSlotInv, PTL DEF Spec

(* IInv, which the threaded run checks, holds in every reachable state, *)
(* in every build: the tone counter stays at most SCHTBL_SLOTS (a slot   *)
(* between callbacks), LastSyncMETSlot and its copy are MET slots, and   *)
(* the processing loop of SCHEDULER_Execute is entered only with a       *)
(* positive count, so its decrement never wraps.                         *)
THEOREM InductiveInvariant == Spec => []IInv
<1>1. SlotInv => IInv
  BY DEF SlotInv
<1>. QED
  BY <1>1, SlotInvariant, PTL

(* Type correctness of the whole model: every field of the scheduler    *)
(* object keeps its C type (uint32 fields stay in 0 .. 2^w - 1) through  *)
(* every interleaving of the callbacks, the task and the commands.       *)
THEOREM TypeCorrect == Spec => []TypeOK
<1>1. SlotInv => TypeOK
  BY DEF SlotInv, IInv
<1>. QED
  BY <1>1, SlotInvariant, PTL

(* MinorFrameCallback never decrements SyncAttemptsLeft from 0: while a  *)
(* MET synchronization driven by the Minor Frame timer is pending, at    *)
(* least one and at most SCHEDULER_MAX_SYNC_ATTEMPTS attempts are left.  *)
THEOREM SyncAttemptsBounded == Spec => []SyncAttemptsInRange
<1>1. SlotInv => SyncAttemptsInRange
  BY DEF SlotInv, IInv
<1>. QED
  BY <1>1, SlotInvariant, PTL

(* In a build where MinorFrameCallback runs to completion before the     *)
(* task resumes and GetCurrentSlotNumber loads LastSyncMETSlot once,     *)
(* NextSlotNumber is always a slot of the table, so ProcessNextSlot      *)
(* never indexes past the schedule table.  (The runs MCRaceThreads and   *)
(* MCRaceReload show that neither hypothesis can be dropped.)            *)
THEOREM NextSlotBounded ==
  ASSUME AtomicBuild
  PROVE  Spec => []NextSlotInRange
<1>1. SlotInv => NextSlotInRange
  BY DEF SlotInv, NextSlotInRange
<1>. QED
  BY <1>1, SlotInvariant, PTL

-----------------------------------------------------------------------------
(* The worst case of slots per minor frame (constructor, line 127) is a  *)
(* natural.                                                              *)
LEMMA WorstCaseNat == WorstCaseSlotsPerMinorFrame \in Nat
<1>0. ClockAccuracy * 2 \in Nat
  OBVIOUS
<1>1. (ClockAccuracy * 2) \div SlotPeriod \in Nat
  BY <1>0, DivMod
<1>. QED
  BY <1>1 DEF WorstCaseSlotsPerMinorFrame, PoorClock

(* One MajorFrameCallback, while the Minor Frames are synchronized with   *)
(* MET: when the worst case is below SCHTBL_SLOTS, the uint32 window      *)
(* bound of line 886 does not wrap, and the code's noisy test is the      *)
(* negation of spec 4.2's on-time test.                                   *)
LEMMA NoisyStep ==
  ASSUME WorstCaseSlotsPerMinorFrame < Slots, SlotInv, MajorFrameCallback,
         ~flying, SyncToMET = {"TO_MINOR"}
  PROVE  UnexpectedMajorFrame' <=> ~SpecOnTime
<1>. DEFINE wc == WorstCaseSlotsPerMinorFrame
<1>1. UnexpectedMajorFrame' <=> NoisyMajorFrame
  <2>1. UnexpectedMajorFrame' =
          IF flying THEN UnexpectedMajorFrame ELSE (~flying /\ NoisyMajorFrame)
    BY DEF MajorFrameCallback
  <2>2. UnexpectedMajorFrame' = (~flying /\ NoisyMajorFrame)
    BY <2>1, Zenon
  <2>. QED
    BY <2>2, Zenon
<1>2. NextSlotNumber \in Nat /\ wc \in Nat
  BY WorstCaseNat DEF SlotInv, IInv, TypeOK, Uint
<1>3. (Slots - wc - 1) % Word = Slots - wc - 1
  BY <1>2
<1>4. NoisyMajorFrame <=> (NextSlotNumber # 0 /\ NextSlotNumber < Slots - wc - 1)
  BY <1>3 DEF NoisyMajorFrame
<1>5. SpecOnTime <=> (NextSlotNumber = 0 \/ NextSlotNumber >= Slots - (wc + 1))
  BY DEF SpecOnTime
<1>. QED
  BY <1>1, <1>2, <1>4, <1>5

(* Spec 4.2 (b) holds of the code's noisy classification for every table *)
(* size and timer accuracy whose worst case of slots per minor frame is  *)
(* below SCHTBL_SLOTS (the run MCVeryPoorClock shows the bound is        *)
(* needed: past it the uint32 subtraction at line 886 wraps).            *)
THEOREM NoisyClassificationHolds ==
  ASSUME WorstCaseSlotsPerMinorFrame < Slots
  PROVE  Spec => NoisyClassification
<1>1. SlotInv /\ [Next]_vars =>
        [MajorFrameCallback /\ ~flying /\ SyncToMET = {"TO_MINOR"}
           => (UnexpectedMajorFrame' <=> ~SpecOnTime)]_vars
  BY NoisyStep
<1>. QED
  BY <1>1, SlotInvariant, PTL DEF Spec, NoisyClassification

=============================================================================
