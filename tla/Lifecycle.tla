------------------------------ MODULE Lifecycle ------------------------------
(***************************************************************************)
(* What condrun run promises whoever calls it (README.md, SPEC.md 2.4 and  *)
(* 6, the comments of src/supervisor.rs), with no clock, no signals and no *)
(* process group: one command, launched at most once, and an exit code     *)
(* that says what became of it.                                            *)
(***************************************************************************)
EXTENDS Integers

CONSTANT Strict

NoResult == -1

VARIABLES
  phase,      \* "gating", "running", "stopping" (condrun is killing) or "ended"
  command,    \* "none", "live", "zombie" until it is waited for, "reaped"
  outcome,    \* how the command ended: "none" until it has, then "ok" or "fail"
  result      \* condrun's exit code

lifecycleVars == <<phase, command, outcome, result>>

LifecycleInit ==
  /\ phase = "gating"
  /\ command = "none"
  /\ outcome = "none"
  /\ result = NoResult

\* The gate stays shut: a predicate fails, a signal arrives, or condrun cannot
\* set itself up or start the command.
Refuse ==
  /\ phase = "gating"
  /\ phase' = "ended"
  /\ result' \in {0, 4} \cup (IF Strict THEN {1} ELSE {})
  /\ UNCHANGED <<command, outcome>>

\* condrun itself is killed; that can only be before there is a command.
Die ==
  /\ phase = "gating"
  /\ phase' = "ended"
  /\ UNCHANGED <<command, outcome, result>>

Launch ==
  /\ phase = "gating"
  /\ phase' = "running"
  /\ command' = "live"
  /\ UNCHANGED <<outcome, result>>

CommandExits ==
  /\ command = "live"
  /\ command' = "zombie"
  /\ outcome' \in {"ok", "fail"}
  /\ UNCHANGED <<phase, result>>

\* The command ended without condrun ending it.
Report ==
  /\ phase = "running"
  /\ command = "zombie"
  /\ phase' = "ended"
  /\ command' = "reaped"
  /\ result' = IF outcome = "ok" THEN 0 ELSE 2
  /\ UNCHANGED outcome

\* condrun starts to kill the command, which may just have ended by itself.
Stop ==
  /\ phase = "running"
  /\ phase' = "stopping"
  /\ UNCHANGED <<command, outcome, result>>

Collect ==
  /\ phase = "stopping"
  /\ command = "zombie"
  /\ command' = "reaped"
  /\ UNCHANGED <<phase, outcome, result>>

ReportKilled ==
  /\ phase = "stopping"
  /\ command = "reaped"
  /\ phase' = "ended"
  /\ result' = 3
  /\ UNCHANGED <<command, outcome>>

LifecycleNext ==
  \/ Refuse \/ Die \/ Launch
  \/ CommandExits
  \/ Report \/ Stop \/ Collect \/ ReportKilled

LifecycleSpec == LifecycleInit /\ [][LifecycleNext]_lifecycleVars

\* An exit is not left unnoticed, and once condrun has started to kill the
\* command, the command ends and so does condrun.  A command that is left
\* alone may run for ever.
Promptness ==
  /\ WF_lifecycleVars(command = "zombie" /\ (Report \/ Stop \/ Collect))
  /\ WF_lifecycleVars(phase = "stopping" /\ CommandExits)
  /\ WF_lifecycleVars(ReportKilled)

FairLifecycle == LifecycleSpec /\ Promptness
=============================================================================
