---------------------------- MODULE MCScheduler ----------------------------
(***************************************************************************)
(* Small instances of Scheduler for TLC.                                   *)
(***************************************************************************)
EXTENDS Scheduler

(* Bound on the table passes a run explores (TablePassCount is otherwise *)
(* unbounded); pass 1 is the first whose phase differs from pass 0.     *)
MaxPass == 1

MCConstraint == TablePassCount <= MaxPass

(* A state constraint would cut every behaviour at MaxPass and make a    *)
(* liveness property hold vacuously there.  The liveness runs instead    *)
(* keep TablePassCount modulo MCPassModulus, a multiple of every Period  *)
(* of their table: Due reads the pass count only modulo a Period, and    *)
(* the liveness properties do not read it, so nothing they tell apart    *)
(* is lost.  (It replaces NextPass in those runs' cfg.)                  *)
MCPassModulus == 1
MCNextPass(p) == (p + 1) % MCPassModulus

(* Tables: all entries disabled (the timing runs), or entries of period 2 *)
(* in both phases enabled, with the last entry disabled and invalid       *)
(* (Offset = Period), as a loaded table file may hold it (the executor    *)
(* run).                                                                  *)
MCDisabledTable ==
  [i \in EntryIds |-> [Enabled |-> FALSE, Period |-> 1, Offset |-> 0]]
MCPhasedTable ==
  [i \in EntryIds |->
     IF i = Slots * Activities - 1
     THEN [Enabled |-> FALSE, Period |-> 1, Offset |-> 1]
     ELSE [Enabled |-> TRUE, Period |-> 2, Offset |-> i % 2]]

(* The table file the executor run's table manager loads: the start-up *)
(* table again, which re-enables entries a failed dispatch disabled.    *)
MCLoadTables == {MCPhasedTable}

MCLoadEntries ==
  {[Enabled |-> TRUE, Period |-> 2, Offset |-> 1],
   [Enabled |-> FALSE, Period |-> 1, Offset |-> 0]}

=============================================================================
