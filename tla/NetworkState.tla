---------------------------- MODULE NetworkState ----------------------------
(***************************************************************************)
(* The NetworkState trait (src/state/mod.rs): a network is the values of   *)
(* its flags.  On one that nothing is known of every flag is false.        *)
(***************************************************************************)
CONSTANT Flags      \* the flags of a NetworkState

Networks == [Flags -> BOOLEAN]

AllClear == [f \in Flags |-> FALSE]
=============================================================================
