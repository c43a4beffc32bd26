----------------------------- MODULE MCCondrun -----------------------------
(***************************************************************************)
(* Condrun as TLC checks it: with both predicates, without time, and with  *)
(* one predicate, in time.                                                 *)
(***************************************************************************)
EXTENDS Condrun

BothPredicates == {<<"expensive", "low_data">>}
OnePredicate == {<<"expensive">>}

\* The compositions of one predicate are the same.
OneComposition == CondrunInit /\ composition = "And"

OneCompositionSpec == OneComposition /\ [][CondrunNext]_condrunVars /\ CondrunFairness
=============================================================================
