---------------------------- MODULE TableCursor ----------------------------
(***************************************************************************)
(* What the scheduler promises about its position in the schedule table    *)
(* (spec sections 4.4 and 4.5), independent of how wakeups are timed: the  *)
(* cursor (slot, pass) moves forward one slot at a time, counting a pass   *)
(* at each rollover; or it jumps forward to a slot at least MaxLag slots   *)
(* and less than a whole table ahead (a lag skip), counting the pass when  *)
(* the jump crosses the rollover; or, on a reset command, the pass count   *)
(* restarts at 0 at the same slot.  It never moves backwards within a pass *)
(* and never loses or invents a rollover.                                  *)
(***************************************************************************)
EXTENDS Naturals

CONSTANTS Slots, MaxLag

VARIABLES slot, pass

cursor == <<slot, pass>>

Init == slot = 0 /\ pass = 0

(* Forward distance from slot a to slot b. *)
Ahead(a, b) == IF b >= a THEN b - a ELSE (Slots - a) + b

Advance ==
  /\ slot' = IF slot = Slots - 1 THEN 0 ELSE slot + 1
  /\ pass' = IF slot = Slots - 1 THEN pass + 1 ELSE pass

Skip ==
  \E to \in 0 .. (Slots - 1) :
    /\ Ahead(slot, to) >= MaxLag
    /\ Ahead(slot, to) <= Slots - 2
    /\ slot' = to
    /\ pass' = IF to < slot THEN pass + 1 ELSE pass

RestartPass ==
  /\ pass' = 0
  /\ slot' = slot

Next == Advance \/ Skip \/ RestartPass

Spec == Init /\ [][Next]_cursor

=============================================================================
