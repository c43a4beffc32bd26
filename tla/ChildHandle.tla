----------------------------- MODULE ChildHandle -----------------------------
(***************************************************************************)
(* The promise of the ChildHandle trait (src/process/mod.rs), as           *)
(* TokioChildHandle keeps it for any client: one that calls signal, wait   *)
(* and terminate in any order, one at a time (they take &mut self), as     *)
(* often as it likes, until wait or terminate has told it that the child   *)
(* is gone.                                                                *)
(***************************************************************************)
EXTENDS ProcessGroup

CONSTANT MaxSent    \* bound: the client starts no call after this many signals

ASSUME ClientAssumption == MaxSent \in Nat

ClientMaySend == child \in {"live", "zombie"} /\ Len(sent) < MaxSent

Start == Spawn

CallSignal(kind) == ClientMaySend /\ Signal(kind)

CallTerminate == ClientMaySend /\ Terminate

CallWait == Wait

Environment == (\E w \in Workers : Fork(w)) \/ (\E p \in Procs : Exit(p))

Next ==
  \/ Start
  \/ \E kind \in DOMAIN UnixSignal : CallSignal(kind)
  \/ CallTerminate
  \/ CallWait
  \/ TerminateStep
  \/ Environment
  \/ Elapse

Spec == GroupInit /\ [][Next]_groupVars

\* The runtime polls a future that is ready, its timer advances, and a process
\* with a pending SIGKILL dies.  Nothing else is promised: a member may ignore
\* every other signal and run for ever.
Fairness ==
  /\ WF_groupVars(TerminateStep)
  /\ WF_groupVars(Elapse)
  /\ \A p \in Procs : WF_groupVars(p \in doomed /\ Exit(p))

FairSpec == Spec /\ Fairness

-----------------------------------------------------------------------------
\* Types, and how the leader's state, its status and the group hang together
\* (the kernel's bookkeeping behind TokioChildHandle).
TypeOK == GroupTypeOK /\ GroupInv

\* terminate and signal never hit a group whose id may have been recycled:
\* killpg(pgid) in process/tokio.rs comes before the wait that reaps.
NoStraySignal == [][SentToOwnGroup]_groupVars

\* terminate escalates only after the whole of `grace`.
KillAfterGrace == [][SentAfterGrace]_groupVars

\* Whatever the command does with its signals, terminate returns, and when it
\* has the child is reaped.
TerminateReturns == op # "idle" ~> (op = "idle" /\ child = "reaped")

\* The SIGKILL of terminate clears the whole group, workers forked while it
\* was being asked to stop included.
KillClearsGroup == op = "killing" ~> alive = {}

\* The trait and the plan promise SIGKILL for what is still alive after the
\* grace period (process/mod.rs:31; plan line 24, "SIGTERM to restic's process
\* group, wait `--grace`, SIGKILL if still alive", and line 64 on workers):
\* when the grace period of a terminate is over and the call has returned, no
\* member of the group goes on without a SIGKILL.
NoSurvivorAfterTerminate ==
  (termAge = Grace /\ op = "idle") => alive = doomed
=============================================================================
