----------------------------- MODULE FakeChild -----------------------------
(***************************************************************************)
(* FakeSpawner and FakeChildHandle (src/process/fake.rs), the doubles the  *)
(* tests of the supervisor run against, driven by any client of the        *)
(* traits: one call at a time, a wait that may be dropped before it is     *)
(* ready (the losing arm of a select), no terminate or signal after the    *)
(* client was told of the exit.                                            *)
(*                                                                         *)
(* A poll that finds a timer over runs on to the end of its call; the      *)
(* steps it makes on the way are actions here, "returning", "killing" and  *)
(* "terminated" the places between them.                                   *)
(***************************************************************************)
EXTENDS Integers, Sequences

CONSTANTS
  Scripts,      \* what with_terminate_delay and new are given: [exit_code,
                \* exit_delay, terminate_delay], the code as "ok" or "fail"
  Grace,        \* the argument of terminate
  MaxHandles,   \* bound: the handles a test enqueues
  MaxSent       \* bound: the signals a client sends

ASSUME FakeAssumption ==
  /\ Scripts \subseteq [exit_code : {"ok", "fail"}, exit_delay : Nat, terminate_delay : Nat]
  /\ Grace \in Nat /\ MaxHandles \in Nat /\ MaxSent \in Nat

FakePid == 99999

NoScript == [exit_code |-> "none", exit_delay |-> 0, terminate_delay |-> 0]
DefaultScript == [exit_code |-> "ok", exit_delay |-> 0, terminate_delay |-> 0]

VARIABLES
  handles,      \* FakeSpawner::handles
  script,       \* that of the handle spawn returned, or NoScript
  exited, terminated, killed, last_signal,      \* ChildState
  call,         \* where the pending call is, "idle" if there is none
  timer,        \* what is left of the sleep in it
  told,         \* history: whether wait or terminate has returned
  sent,         \* history: the signals the calls so far stand for
  termAge       \* history: as in ProcessGroup

childState == <<exited, terminated, killed, last_signal>>
childVars == <<handles, script, childState, call, timer, told, sent, termAge>>

SignalName == [Interrupt |-> "SIGINT", Terminate |-> "SIGTERM", Quit |-> "SIGQUIT", Hup |-> "SIGHUP"]

ChildInit ==
  /\ handles = <<>>
  /\ script = NoScript
  /\ exited = FALSE /\ terminated = FALSE /\ killed = FALSE /\ last_signal = "none"
  /\ call = "idle"
  /\ timer = 0
  /\ told = FALSE
  /\ sent = <<>>
  /\ termAge = -1

EnqueueHandle(s) ==
  /\ script = NoScript
  /\ Len(handles) < MaxHandles
  /\ handles' = Append(handles, s)
  /\ UNCHANGED <<script, childState, call, timer, told, sent, termAge>>

\* The queue first, then a child that exits at once.
FakeSpawn ==
  /\ script = NoScript
  /\ IF handles = <<>>
       THEN script' = DefaultScript /\ UNCHANGED handles
       ELSE script' = Head(handles) /\ handles' = Tail(handles)
  /\ UNCHANGED <<childState, call, timer, told, sent, termAge>>

Running == script # NoScript /\ call = "idle"

-----------------------------------------------------------------------------
(* wait.  It never ends by its notification: terminate, which alone sends  *)
(* one, cannot be called while a wait is pending (both take &mut self).    *)

CallWait ==
  /\ Running
  /\ IF exited
       THEN told' = TRUE /\ UNCHANGED <<call, timer>>
       ELSE call' = "waiting" /\ timer' = script.exit_delay /\ UNCHANGED told
  /\ UNCHANGED <<handles, script, childState, sent, termAge>>

\* The exit delay starts anew with the next wait.
DropWait ==
  /\ call = "waiting"
  /\ call' = "idle"
  /\ timer' = 0
  /\ UNCHANGED <<handles, script, childState, told, sent, termAge>>

WaitElapses ==
  /\ call = "waiting" /\ timer = 0
  /\ exited' = TRUE
  /\ call' = "returning"
  /\ UNCHANGED <<handles, script, terminated, killed, last_signal, timer, told, sent, termAge>>

WaitReturns ==
  /\ call = "returning"
  /\ call' = "idle"
  /\ told' = TRUE
  /\ UNCHANGED <<handles, script, childState, timer, sent, termAge>>

-----------------------------------------------------------------------------
(* terminate and signal.                                                   *)

MaySend == Running /\ ~told /\ Len(sent) < MaxSent

Graceful == script.terminate_delay <= Grace

\* Mutant of TerminateSleep: the resistant child is killed at once.
TerminateSleep_Eager == IF Graceful THEN script.terminate_delay ELSE 0

\* A resistant child is waited for during the whole of grace.
TerminateSleep == IF Graceful THEN script.terminate_delay ELSE Grace

CallTerminate ==
  /\ MaySend
  /\ terminated' = TRUE
  /\ call' = "terminating"
  /\ timer' = TerminateSleep
  /\ sent' = Append(sent, "SIGTERM")
  /\ termAge' = 0
  /\ UNCHANGED <<handles, script, exited, killed, last_signal, told>>

TerminateElapses ==
  /\ call = "terminating" /\ timer = 0
  /\ IF Graceful
       THEN exited' = TRUE /\ call' = "terminated" /\ UNCHANGED <<killed, sent>>
       ELSE killed' = TRUE /\ call' = "killing" /\ sent' = Append(sent, "SIGKILL") /\ UNCHANGED exited
  /\ UNCHANGED <<handles, script, terminated, last_signal, timer, told, termAge>>

\* mark_exited after the kill.
KilledExits ==
  /\ call = "killing"
  /\ exited' = TRUE
  /\ call' = "terminated"
  /\ UNCHANGED <<handles, script, terminated, killed, last_signal, timer, told, sent, termAge>>

TerminateReturns ==
  /\ call = "terminated"
  /\ call' = "idle"
  /\ told' = TRUE
  /\ UNCHANGED <<handles, script, childState, timer, sent, termAge>>

CallSignal(kind) ==
  /\ MaySend
  /\ last_signal' = kind
  /\ sent' = Append(sent, SignalName[kind])
  /\ UNCHANGED <<handles, script, exited, terminated, killed, call, timer, told, termAge>>

Advance ==
  /\ timer' = IF timer > 0 THEN timer - 1 ELSE 0
  /\ termAge' = IF termAge \in 0..(Grace - 1) THEN termAge + 1 ELSE termAge
  /\ UNCHANGED <<handles, script, childState, call, told, sent>>

TerminateRuns == TerminateElapses \/ KilledExits \/ TerminateReturns

ChildNext ==
  \/ \E s \in Scripts : EnqueueHandle(s)
  \/ FakeSpawn
  \/ CallWait \/ DropWait \/ WaitElapses \/ WaitReturns
  \/ CallTerminate \/ TerminateRuns
  \/ \E kind \in DOMAIN SignalName : CallSignal(kind)
  \/ Advance

ChildSpec == ChildInit /\ [][ChildNext]_childVars

ChildFairness == WF_childVars(TerminateRuns) /\ WF_childVars(Advance)

-----------------------------------------------------------------------------
\* Types, and how far the state of a call tells that of the child.
ChildTypeOK ==
  /\ handles \in Seq(Scripts)
  /\ script \in Scripts \cup {NoScript, DefaultScript}
  /\ exited \in BOOLEAN /\ terminated \in BOOLEAN /\ killed \in BOOLEAN /\ told \in BOOLEAN
  /\ last_signal \in {"none"} \cup DOMAIN SignalName
  /\ call \in {"idle", "waiting", "returning", "terminating", "killing", "terminated"}
  /\ timer \in Nat
  /\ sent \in Seq({"SIGINT", "SIGTERM", "SIGQUIT", "SIGHUP", "SIGKILL"})
  /\ termAge \in -1..Grace

Op ==
  CASE call = "terminating" -> "grace"
    [] call = "terminated" -> IF killed THEN "killing" ELSE "grace"
    [] call = "killing" -> "killing"
    [] OTHER -> "idle"

\* The double's child in the terms of a real one: it is a zombie between the
\* mark of its exit and the return that tells of it.  A killed double reports
\* the exit code it was given, which no killed process does; Supervisor::run
\* looks at no status after terminate, and the mapping says "fail" for it.
Handle ==
  INSTANCE ChildHandle WITH
    Leader <- FakePid,
    Workers <- {},
    child <- IF script = NoScript THEN "none" ELSE IF told THEN "reaped"
             ELSE IF exited THEN "zombie" ELSE "live",
    status <- IF ~exited THEN "none" ELSE IF killed THEN "fail" ELSE script.exit_code,
    alive <- IF script # NoScript /\ ~exited THEN {FakePid} ELSE {},
    doomed <- IF killed /\ ~exited THEN {FakePid} ELSE {},
    op <- Op,
    graceLeft <- IF Op = "grace" THEN Grace - termAge ELSE 0

\* What the tests learn from the double holds of the handle: each step of it is
\* one the promise of ChildHandle allows or none, terminate's return included.
ImplementsHandle == Handle!FairSpec
=============================================================================
