---------------------------- MODULE ProcessGroup ----------------------------
(***************************************************************************)
(* TokioSpawner and TokioChildHandle (src/process/tokio.rs) over the       *)
(* kernel's view of what they started: a session of its own whose leader   *)
(* is the spawned command, and the processes that command forks into the   *)
(* same group.  The module has the state and the actions; ChildHandle      *)
(* drives them from an arbitrary client, Supervisor from Supervisor::run.  *)
(*                                                                         *)
(* Time is discrete.  A timer is the number of units left before it is     *)
(* due, and Elapse takes one unit off.                                     *)
(***************************************************************************)
EXTENDS Integers, Sequences

CONSTANTS
  Leader,       \* the spawned process; its pid is the id of the group
  Workers,      \* names for the processes the command may fork
  Grace         \* SupervisorConfig::grace, in units of time

Procs == {Leader} \cup Workers

ASSUME GroupAssumption == Leader \notin Workers /\ Grace \in Nat

VARIABLES
  child,        \* the leader as the kernel sees it: "none" before the spawn,
                \* "live", "zombie" until it is waited for, then "reaped"
  status,       \* its ExitStatus: "none" until it exits, then "ok" or "fail"
  alive,        \* the members of the group that are running
  doomed,       \* those of them with a SIGKILL they have not died of yet
  sent,         \* the signals given to killpg, in order
  op,           \* where terminate is: "idle", in its "grace" race, or "killing"
  graceLeft,    \* what is left of sleep(grace)
  termAge       \* history: time since terminate's SIGTERM, up to Grace, or
                \* NotTerminated when terminate has not been called

groupVars == <<child, status, alive, doomed, sent, op, graceLeft, termAge>>

\* The Unix signal that each SignalKind is forwarded as.
UnixSignal == [Interrupt |-> "SIGINT", Terminate |-> "SIGTERM",
               Quit |-> "SIGQUIT", Hup |-> "SIGHUP"]

Statuses == {"ok", "fail"}

NotTerminated == -1

GroupInit ==
  /\ child = "none"
  /\ status = "none"
  /\ alive = {}
  /\ doomed = {}
  /\ sent = <<>>
  /\ op = "idle"
  /\ graceLeft = 0
  /\ termAge = NotTerminated

-----------------------------------------------------------------------------
(* The operations of the handle.                                           *)

Spawn ==
  /\ child = "none"
  /\ child' = "live"
  /\ alive' = {Leader}
  /\ UNCHANGED <<status, doomed, sent, op, graceLeft, termAge>>

\* Mutant of Killpg: kill(pid) instead of killpg.
Killpg_LeaderOnly(sig) ==
  /\ sent' = Append(sent, sig)
  /\ doomed' = IF sig = "SIGKILL" THEN alive \cap {Leader} ELSE doomed

\* killpg reaches every member at once.  A member may handle or ignore the
\* other signals, and Exit lets it die of them; SIGKILL leaves it no choice.
Killpg(sig) ==
  /\ sent' = Append(sent, sig)
  /\ doomed' = IF sig = "SIGKILL" THEN alive ELSE doomed

Signal(kind) ==
  /\ op = "idle"
  /\ Killpg(UnixSignal[kind])
  /\ UNCHANGED <<child, status, alive, op, graceLeft, termAge>>

\* wait is ready once the leader has exited.  The poll that finds it so reaps
\* it, and a later wait is answered from the cached status.
Waitable == child \in {"zombie", "reaped"}

\* Mutant of Wait: it returns while the child still runs.
Wait_Early ==
  /\ op = "idle"
  /\ child # "none"
  /\ child' = "reaped"
  /\ UNCHANGED <<status, alive, doomed, sent, op, graceLeft, termAge>>

Wait ==
  /\ op = "idle"
  /\ Waitable
  /\ child' = "reaped"
  /\ UNCHANGED <<status, alive, doomed, sent, op, graceLeft, termAge>>

Terminate ==
  /\ op = "idle"
  /\ Killpg("SIGTERM")
  /\ op' = "grace"
  /\ graceLeft' = Grace
  /\ termAge' = 0
  /\ UNCHANGED <<child, status, alive>>

\* Mutant of TerminateExited: the exit does not end the call, which goes on to
\* the SIGKILL when the grace period is over.
TerminateExited_Continue ==
  /\ op = "grace"
  /\ Waitable
  /\ child' = "reaped"
  /\ UNCHANGED <<status, alive, doomed, sent, op, graceLeft, termAge>>

\* The two arms of the select in terminate.  It is not biased: when both are
\* ready, either may be taken.
TerminateExited ==
  /\ op = "grace"
  /\ Waitable
  /\ child' = "reaped"
  /\ op' = "idle"
  /\ graceLeft' = 0
  /\ UNCHANGED <<status, alive, doomed, sent, termAge>>

\* Mutants of TerminateKill: it does not wait for the timer, and it sends SIGTERM
\* once more.
TerminateKill_Eager ==
  /\ op = "grace"
  /\ Killpg("SIGKILL")
  /\ op' = "killing"
  /\ UNCHANGED <<child, status, alive, graceLeft, termAge>>

TerminateKill_Again ==
  /\ op = "grace"
  /\ graceLeft = 0
  /\ Killpg("SIGTERM")
  /\ op' = "killing"
  /\ UNCHANGED <<child, status, alive, graceLeft, termAge>>

TerminateKill ==
  /\ op = "grace"
  /\ graceLeft = 0
  /\ Killpg("SIGKILL")
  /\ op' = "killing"
  /\ UNCHANGED <<child, status, alive, graceLeft, termAge>>

TerminateReaped ==
  /\ op = "killing"
  /\ Waitable
  /\ child' = "reaped"
  /\ op' = "idle"
  /\ UNCHANGED <<status, alive, doomed, sent, graceLeft, termAge>>

TerminateStep == TerminateExited \/ TerminateKill \/ TerminateReaped

-----------------------------------------------------------------------------
(* The command and the kernel.                                             *)

\* A member without a pending SIGKILL forks a worker into its group.
Fork(w) ==
  /\ w \in Workers \ alive
  /\ alive \ doomed # {}
  /\ alive' = alive \cup {w}
  /\ UNCHANGED <<child, status, doomed, sent, op, graceLeft, termAge>>

Exit(p) ==
  /\ p \in alive
  /\ alive' = alive \ {p}
  /\ doomed' = doomed \ {p}
  /\ IF p = Leader
       THEN /\ child' = "zombie"
            /\ status' \in IF p \in doomed THEN {"fail"} ELSE Statuses
       ELSE UNCHANGED <<child, status>>
  /\ UNCHANGED <<sent, op, graceLeft, termAge>>

\* The part of a clock tick that concerns terminate.
Elapse ==
  /\ graceLeft' = IF graceLeft > 0 THEN graceLeft - 1 ELSE 0
  /\ termAge' = IF termAge \in 0..(Grace - 1) THEN termAge + 1 ELSE termAge
  /\ UNCHANGED <<child, status, alive, doomed, sent, op>>

\* What can happen to the group, whoever drives it.
GroupStep ==
  \/ Spawn \/ Wait \/ Terminate \/ TerminateStep
  \/ \E kind \in DOMAIN UnixSignal : Signal(kind)
  \/ \E w \in Workers : Fork(w)
  \/ \E p \in Procs : Exit(p)
  \/ Elapse

-----------------------------------------------------------------------------
(* Facts about the group that the modules built on this one check.         *)

GroupTypeOK ==
  /\ child \in {"none", "live", "zombie", "reaped"}
  /\ status \in {"none"} \cup Statuses
  /\ alive \subseteq Procs
  /\ doomed \subseteq alive
  /\ sent \in Seq({"SIGINT", "SIGTERM", "SIGQUIT", "SIGHUP", "SIGKILL"})
  /\ op \in {"idle", "grace", "killing"}
  /\ graceLeft \in 0..Grace
  /\ termAge \in NotTerminated..Grace

\* The kernel's bookkeeping: who is alive, and who has an exit status.
GroupInv ==
  /\ child = "live" <=> Leader \in alive
  /\ child \in {"none", "live"} <=> status = "none"
  /\ child = "none" => alive = {}

\* A signal is sent only while the leader is there or a zombie: its pid, which
\* is the group's id, cannot have passed to a process of somebody else.
SentToOwnGroup == sent' # sent => child \in {"live", "zombie"}

\* No SIGKILL before the whole grace period has passed since the SIGTERM.
SentAfterGrace ==
  (sent' # sent /\ sent'[Len(sent')] = "SIGKILL") => termAge >= Grace
=============================================================================
