------------------------------ MODULE Doubles ------------------------------
(***************************************************************************)
(* The doubles of the process and signal traits side by side, as a test of *)
(* the supervisor has them.                                                *)
(***************************************************************************)
EXTENDS FakeChild, FakeSignals

vars == <<childVars, signalVars>>

Init == ChildInit /\ SignalsInit

Next ==
  \/ ChildNext /\ UNCHANGED signalVars
  \/ SignalsNext /\ UNCHANGED childVars

Spec == Init /\ [][Next]_vars /\ ChildFairness
=============================================================================
