----------------------------- MODULE SlotClock -----------------------------
(***************************************************************************)
(* The Slot Clock of the kit_sch scheduler (scheduler.c): the two pure     *)
(* computations that turn a time reading into a schedule-table slot.       *)
(*                                                                         *)
(*  - GetMETSlotNumber converts the microseconds of the current MET        *)
(*    second into a slot, rounding up when one more microsecond would      *)
(*    reach the next slot boundary, and wrapping SCHTBL_SLOTS to 0.        *)
(*  - RebasedSlot is the MET branch of GetCurrentSlotNumber: the MET slot   *)
(*    is re-based on the MET slot recorded at the last major frame         *)
(*    (LastSyncMETSlot).  The code loads LastSyncMETSlot twice (once in    *)
(*    the comparison, once in the subtraction); the operator takes both    *)
(*    loads as parameters so that the caller can model a build in which    *)
(*    a concurrent store falls between them.  uint32 arithmetic is kept    *)
(*    modulo Word.                                                         *)
(*                                                                         *)
(* The subseconds-to-microseconds conversion (CFE_TIME_Sub2MicroSecs) is   *)
(* cFE's; the model starts from the microsecond value.                     *)
(***************************************************************************)
EXTENDS Integers

CONSTANTS
  Slots,         \* SCHTBL_SLOTS: number of slots in the schedule table
  SlotPeriod,    \* SCHEDULER_NORMAL_SLOT_PERIOD, in microseconds
  MicrosPerSec,  \* microseconds in one MET second (10^6 on the target)
  Word           \* 2^w: modulus of the unsigned integer type (uint32)

ASSUME SlotsAssumption == Slots \in Nat \ {0, 1}
ASSUME SlotPeriodAssumption == SlotPeriod \in Nat \ {0}
\* One second holds exactly Slots slot periods, up to a remainder shorter
\* than one slot period (true of 10^6 / SCHTBL_SLOTS for SCHTBL_SLOTS <= 1000).
ASSUME MicrosAssumption ==
  /\ MicrosPerSec \in Nat
  /\ Slots * SlotPeriod <= MicrosPerSec
  /\ MicrosPerSec < (Slots + 1) * SlotPeriod
ASSUME WordAssumption == Word \in Nat /\ 2 * Slots < Word

Micros == 0 .. (MicrosPerSec - 1)   \* values of the MET sub-second in usec
SlotIds == 0 .. (Slots - 1)
Uint == 0 .. (Word - 1)

(* GetMETSlotNumber, with the MET microseconds as its input. *)
(* Variant that does not wrap SCHTBL_SLOTS back to 0. *)
GetMETSlotNumberNoWrap(MicroSeconds) ==
  LET METSlot0  == MicroSeconds \div SlotPeriod
      Remainder == (MicroSeconds - METSlot0 * SlotPeriod) + 1
  IN  METSlot0 + Remainder \div SlotPeriod
GetMETSlotNumber(MicroSeconds) ==
  LET METSlot0  == MicroSeconds \div SlotPeriod
      Remainder == (MicroSeconds - METSlot0 * SlotPeriod) + 1
      METSlot   == METSlot0 + Remainder \div SlotPeriod
  IN  IF METSlot = Slots THEN 0 ELSE METSlot

(* The MET branch of GetCurrentSlotNumber: CurrentSlot is the MET slot,    *)
(* LastSyncCmp the value of LastSyncMETSlot loaded for the comparison and  *)
(* LastSyncSub the value loaded for the subtraction.                       *)
(* Variant that subtracts without the rollover correction. *)
RebasedSlotSigned(CurrentSlot, LastSyncCmp, LastSyncSub) ==
  CurrentSlot - LastSyncSub
RebasedSlot(CurrentSlot, LastSyncCmp, LastSyncSub) ==
  IF CurrentSlot < LastSyncCmp
  THEN (CurrentSlot + Slots - LastSyncSub) % Word
  ELSE (CurrentSlot - LastSyncSub) % Word

=============================================================================
