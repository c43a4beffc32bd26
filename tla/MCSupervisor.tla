---------------------------- MODULE MCSupervisor ----------------------------
(***************************************************************************)
(* Supervisor as TLC checks it.                                            *)
(***************************************************************************)
EXTENDS Supervisor, TLC

\* The workers are interchangeable (used by the runs of safety properties).
WorkerSymmetry == Permutations(Workers)
=============================================================================
