----------------------------- MODULE Supervisor -----------------------------
(***************************************************************************)
(* Supervisor::run (src/supervisor.rs), with the part of dispatch in       *)
(* src/cli.rs that installs the signal handlers before it and the exit     *)
(* code main.rs makes of its result, over the process group, the signals   *)
(* and the clock it runs against.                                          *)
(*                                                                         *)
(* run is one task: a step of it takes it from one point where it can be   *)
(* interleaved with the world to the next.  pc names those points:         *)
(*   "boot"         the handlers are being installed                       *)
(*   "preflight"    the race of the pre-flight evaluation with a signal    *)
(*   "spawn"        predicates passed, the child is about to be spawned    *)
(*   "watch"        the biased select of the watcher loop                  *)
(*   "evaluate"     a poll tick fired, the predicates are read again       *)
(*   "flip"         the debounce is over, terminate is about to be called  *)
(*   "wait"         the select of the path without kill-on-change          *)
(*   "forward"      a signal was received, child.signal is next            *)
(*   "race"         the select of wait_with_escalation                     *)
(*   "escalate"     a second signal was received, terminate is next        *)
(*   "terminating"  inside child.terminate, at the point op names          *)
(*   "drain"        terminate has returned, child.wait is next             *)
(*   "done"         condrun has exited with code                           *)
(*   "signalled"    condrun has died of a signal it had no handler for     *)
(***************************************************************************)
EXTENDS ProcessGroup, UnixSignals

CONSTANTS
  Poll, Debounce,         \* SupervisorConfig's durations, in units of time
  Strict, KillOnChange,   \* SupervisorConfig's flags
  Delivered               \* the kinds of signal that are ever sent to condrun

ASSUME ConfigAssumption ==
  /\ Poll \in Nat /\ Debounce \in Nat
  /\ Strict \in BOOLEAN /\ KillOnChange \in BOOLEAN
  /\ Delivered \subseteq Kinds

NotFailing == -1
NoCode == -1
NoSig == "none"

VARIABLES
  pc,
  sig,          \* the signal select returned and run has not forwarded yet
  site,         \* the call of terminate run has made: "none", "flip" in the
                \* watcher loop, "escalation" in wait_with_escalation
  verdict,      \* whether the predicate set passes on the network as it is
  tickLeft,     \* what is left of sleep(poll)
  failAge,      \* the age of fail_started_at up to Debounce, or NotFailing
  code,         \* the exit code of condrun
  passAge,      \* history: time since an evaluation last passed, up to PassCap
  failFor       \* history: time the network has been failing and run had no
                \* step to make, up to FailCap

runVars == <<pc, sig, site, tickLeft, failAge, code>>
history == <<passAge, failFor>>
vars == <<groupVars, signalVars, runVars, verdict, history>>

\* The poll ticks from the one that first sees a failure to the one that kills.
TicksToKill ==
  IF Poll = 0 THEN 0 ELSE (Debounce + Poll - 1) \div Poll
PromptBound == Poll + TicksToKill * Poll

PassCap == Poll + Debounce
FailCap == PromptBound + 1

UpTo(cap, n) == IF n < cap THEN n ELSE cap

Ended == pc \in {"done", "signalled"}

Init ==
  /\ GroupInit
  /\ SignalsInit
  /\ pc = "boot"
  /\ sig = NoSig
  /\ site = "none"
  /\ verdict \in BOOLEAN
  /\ tickLeft = 0
  /\ failAge = NotFailing
  /\ code = NoCode
  /\ passAge = 0
  /\ failFor = 0

-----------------------------------------------------------------------------
(* Before the child.                                                       *)

Goto(from, to) == pc = from /\ pc' = to

Return(from, result) == Goto(from, "done") /\ code' = result

Boot ==
  /\ pc = "boot"
  /\ InstallHandler
  /\ pc' = IF handled' = AllHandlers THEN "preflight" ELSE "boot"
  /\ UNCHANGED <<groupVars, sig, site, verdict, tickLeft, failAge, code, history>>

\* build_network_state or RealSignals::new fails; main exits with 4.
BootFail ==
  /\ Return("boot", 4)
  /\ UNCHANGED <<groupVars, signalVars, sig, site, verdict, tickLeft, failAge, history>>

PreflightSignal ==
  /\ \E kind \in pending : NextSignal(kind)
  /\ Return("preflight", 0)
  /\ UNCHANGED <<groupVars, sig, site, verdict, tickLeft, failAge, history>>

PreflightPass ==
  /\ verdict
  /\ Goto("preflight", "spawn")
  /\ passAge' = 0
  /\ UNCHANGED <<groupVars, signalVars, sig, site, verdict, tickLeft, failAge, code, failFor>>

PreflightFail ==
  /\ ~verdict
  /\ Return("preflight", IF Strict THEN 1 ELSE 0)
  /\ UNCHANGED <<groupVars, signalVars, sig, site, verdict, tickLeft, failAge, history>>

SpawnFail ==
  /\ Return("spawn", 4)
  /\ UNCHANGED <<groupVars, signalVars, sig, site, verdict, tickLeft, failAge, history>>

SpawnChild ==
  /\ pc = "spawn"
  /\ Spawn
  /\ IF KillOnChange
       THEN pc' = "watch" /\ tickLeft' = Poll
       ELSE pc' = "wait" /\ UNCHANGED tickLeft
  /\ UNCHANGED <<signalVars, sig, site, verdict, failAge, code, history>>

-----------------------------------------------------------------------------
(* With the child running.                                                 *)

\* Mutant of MappedCode: the child's own code is passed on (130 after SIGINT).
MappedCode_Raw == IF status = "ok" THEN 0 ELSE 130

\* The exit code for a child that ended by itself or on a forwarded signal.
MappedCode == IF status = "ok" THEN 0 ELSE 2

\* Mutant of ChildExited: wait_with_escalation waits for a signal alone.
ChildExited_NotInRace ==
  /\ pc \in {"watch", "wait"}
  /\ Wait
  /\ pc' = "done"
  /\ code' = MappedCode
  /\ UNCHANGED <<signalVars, sig, site, verdict, tickLeft, failAge, history>>

\* The first arm of the watcher's select, and its counterpart without one.
ChildExited ==
  /\ pc \in {"watch", "wait", "race"}
  /\ Wait
  /\ pc' = "done"
  /\ code' = MappedCode
  /\ UNCHANGED <<signalVars, sig, site, verdict, tickLeft, failAge, history>>

\* The select of the watcher is biased: the arms are polled in order.
SignalReceived ==
  /\ pc \in {"watch", "wait"}
  /\ pc = "watch" => ~Waitable
  /\ \E kind \in pending : NextSignal(kind) /\ sig' = kind
  /\ pc' = "forward"
  /\ UNCHANGED <<groupVars, site, verdict, tickLeft, failAge, code, history>>

\* Mutant of Tick: the select is not biased.
Tick_Unbiased ==
  /\ tickLeft = 0
  /\ Goto("watch", "evaluate")
  /\ UNCHANGED <<groupVars, signalVars, sig, site, verdict, tickLeft, failAge, code, history>>

Tick ==
  /\ tickLeft = 0
  /\ ~Waitable
  /\ pending = {}
  /\ Goto("watch", "evaluate")
  /\ UNCHANGED <<groupVars, signalVars, sig, site, verdict, tickLeft, failAge, code, history>>

NextWindow == pc' = "watch" /\ tickLeft' = Poll

\* Mutants of EvaluatePass: a recovery does not clear fail_started_at, and one
\* that calls off a debounce leaves the loop for the select without a tick.
EvaluatePass_KeepTimer ==
  /\ pc = "evaluate"
  /\ verdict
  /\ NextWindow
  /\ passAge' = 0
  /\ UNCHANGED <<groupVars, signalVars, sig, site, verdict, failAge, code, failFor>>

EvaluatePass_Disarmed ==
  /\ pc = "evaluate"
  /\ verdict
  /\ failAge' = NotFailing
  /\ IF failAge = NotFailing THEN NextWindow ELSE pc' = "wait" /\ UNCHANGED tickLeft
  /\ passAge' = 0
  /\ UNCHANGED <<groupVars, signalVars, sig, site, verdict, code, failFor>>

EvaluatePass ==
  /\ pc = "evaluate"
  /\ verdict
  /\ failAge' = NotFailing
  /\ NextWindow
  /\ passAge' = 0
  /\ UNCHANGED <<groupVars, signalVars, sig, site, verdict, code, failFor>>

\* Mutant of FailStarted: insert instead of get_or_insert.
FailStarted_Restart == 0

\* fail_started_at.get_or_insert(now)
FailStarted == IF failAge = NotFailing THEN 0 ELSE failAge

EvaluateFail ==
  /\ pc = "evaluate"
  /\ ~verdict
  /\ failAge' = FailStarted
  /\ IF failAge' >= Debounce
       THEN pc' = "flip" /\ UNCHANGED tickLeft
       ELSE NextWindow
  /\ UNCHANGED <<groupVars, signalVars, sig, site, verdict, code, history>>

TerminateOnFlip ==
  /\ Goto("flip", "terminating")
  /\ Terminate
  /\ site' = "flip"
  /\ UNCHANGED <<signalVars, sig, verdict, tickLeft, failAge, code, history>>

Forward ==
  /\ Goto("forward", "race")
  /\ Signal(sig)
  /\ sig' = NoSig
  /\ UNCHANGED <<signalVars, site, verdict, tickLeft, failAge, code, history>>

\* Mutants of SecondSignal: the second signal is read and ignored, and it makes
\* condrun leave at once.
SecondSignal_Ignored ==
  /\ \E kind \in pending : NextSignal(kind)
  /\ Goto("race", "race")
  /\ UNCHANGED <<groupVars, sig, site, verdict, tickLeft, failAge, code, history>>

SecondSignal_Abandon ==
  /\ \E kind \in pending : NextSignal(kind)
  /\ Return("race", 3)
  /\ UNCHANGED <<groupVars, sig, site, verdict, tickLeft, failAge, history>>

SecondSignal ==
  /\ \E kind \in pending : NextSignal(kind)
  /\ Goto("race", "escalate")
  /\ UNCHANGED <<groupVars, sig, site, verdict, tickLeft, failAge, code, history>>

TerminateOnSecondSignal ==
  /\ Goto("escalate", "terminating")
  /\ Terminate
  /\ site' = "escalation"
  /\ UNCHANGED <<signalVars, sig, verdict, tickLeft, failAge, code, history>>

Terminating ==
  /\ pc = "terminating"
  /\ TerminateStep
  /\ pc' = IF op' = "idle" THEN "drain" ELSE "terminating"
  /\ UNCHANGED <<signalVars, sig, site, verdict, tickLeft, failAge, code, history>>

\* Mutant of Drain: the status that is drained is mapped as if the child had
\* ended by itself.
Drain_Mapped ==
  /\ Return("drain", MappedCode)
  /\ Wait
  /\ UNCHANGED <<signalVars, sig, site, verdict, tickLeft, failAge, history>>

Drain ==
  /\ Return("drain", 3)
  /\ Wait
  /\ UNCHANGED <<signalVars, sig, site, verdict, tickLeft, failAge, history>>

RunStep ==
  \/ Boot \/ BootFail
  \/ PreflightSignal \/ PreflightPass \/ PreflightFail
  \/ SpawnFail \/ SpawnChild
  \/ ChildExited \/ SignalReceived \/ Tick
  \/ EvaluatePass \/ EvaluateFail \/ TerminateOnFlip
  \/ Forward \/ SecondSignal \/ TerminateOnSecondSignal
  \/ Terminating \/ Drain

-----------------------------------------------------------------------------
(* The world.                                                              *)

SignalArrives(kind) ==
  /\ ~Ended
  /\ Notify(kind)
  /\ UNCHANGED <<groupVars, runVars, verdict, history>>

\* A kind without a handler takes its default disposition.  No destructor
\* runs, so kill_on_drop does not either.
DiesOfSignal(kind) ==
  /\ ~Ended
  /\ kind \notin handled
  /\ pc' = "signalled"
  /\ UNCHANGED <<groupVars, signalVars, sig, site, verdict, tickLeft, failAge, code, history>>

NetworkChanges ==
  /\ ~Ended
  /\ verdict' = ~verdict
  /\ failFor' = 0
  /\ UNCHANGED <<groupVars, signalVars, runVars, passAge>>

GroupMoves ==
  /\ (\E w \in Workers : Fork(w)) \/ (\E p \in Procs : Exit(p))
  /\ UNCHANGED <<signalVars, runVars, verdict, history>>

\* Whether run has a step to make.
Runnable ==
  \/ pc \in {"boot", "preflight", "spawn", "evaluate", "flip", "forward", "escalate", "drain"}
  \/ pc \in {"watch", "wait", "race"} /\ (Waitable \/ pending # {})
  \/ pc = "watch" /\ tickLeft = 0
  \/ pc = "terminating" /\ (Waitable \/ (op = "grace" /\ graceLeft = 0))

ClockTick ==
  /\ ~Ended
  /\ Elapse
  /\ tickLeft' = IF tickLeft > 0 THEN tickLeft - 1 ELSE 0
  /\ failAge' = IF failAge = NotFailing THEN NotFailing ELSE UpTo(Debounce, failAge + 1)
  /\ passAge' = UpTo(PassCap, passAge + 1)
  /\ failFor' = IF verdict THEN 0
                ELSE IF Runnable THEN failFor
                ELSE UpTo(FailCap, failFor + 1)
  /\ UNCHANGED <<signalVars, pc, sig, site, code, verdict>>

World ==
  \/ \E kind \in Delivered : SignalArrives(kind) \/ DiesOfSignal(kind)
  \/ NetworkChanges
  \/ GroupMoves
  \/ ClockTick

Next == RunStep \/ World

Spec == Init /\ [][Next]_vars

\* The runtime polls the task while it can make a step, the clock advances,
\* and a process with a pending SIGKILL dies.  The command owes nothing else.
Fairness ==
  /\ WF_vars(RunStep)
  /\ WF_vars(ClockTick)
  /\ \A p \in Procs : WF_vars(p \in doomed /\ Exit(p) /\ UNCHANGED <<signalVars, runVars, verdict, history>>)

FairSpec == Spec /\ Fairness

-----------------------------------------------------------------------------
RunTypeOK ==
  /\ pc \in {"boot", "preflight", "spawn", "watch", "evaluate", "flip", "wait", "forward",
             "race", "escalate", "terminating", "drain", "done", "signalled"}
  /\ sig \in Kinds \cup {NoSig}
  /\ site \in {"none", "flip", "escalation"}
  /\ verdict \in BOOLEAN
  /\ tickLeft \in 0..Poll
  /\ failAge \in NotFailing..Debounce
  /\ code \in NoCode..4
  /\ passAge \in 0..PassCap
  /\ failFor \in 0..FailCap

\* The types of the variables of run and of what it stands on.
TypeOK == GroupTypeOK /\ SignalsTypeOK /\ RunTypeOK

\* On no path of run, whatever the order of exits, signals and ticks, is a
\* signal sent to the group after the leader was reaped: by then the pid that
\* TokioChildHandle cached may be somebody else's.
NoStraySignal == [][SentToOwnGroup]_vars

\* condrun is never gone while its child is there: it returns after it has
\* reaped it, and a signal that kills condrun comes before the spawn (the
\* reason given at signal/real.rs:21 for catching SIGQUIT and SIGHUP).
NeverOrphans == Ended => child \in {"none", "reaped"}

\* What each exit code says of the run is so (supervisor.rs:11 and the table of
\* README.md): 0 that the command succeeded or never started, 1 that --strict
\* refused it, 2 that it failed and condrun had not called terminate on it, 3
\* that it had, 4 that no command was started.
ExitCodeFaithful ==
  pc = "done" =>
    CASE code = 0 -> (child = "none" \/ status = "ok") /\ site = "none"
      [] code = 1 -> Strict /\ child = "none"
      [] code = 2 -> status = "fail" /\ site = "none"
      [] code = 3 -> site # "none" /\ status # "none"
      [] code = 4 -> child = "none"
      [] OTHER -> FALSE

\* The watcher kills only when no evaluation has passed for the debounce window
\* and the poll interval before it (fail_started_at is cleared by every
\* evaluation that passes), and only when it was asked to watch.
DebounceHonoured ==
  (pc = "flip" \/ site = "flip") => KillOnChange /\ passAge = PassCap

\* A network that stays failed is acted on in a bounded time, not counting what
\* the scheduler delays run: one poll interval to see it, and the polls that
\* fit the debounce window after it.  get_or_insert keeps the first failure's
\* time, and every failure that is seen counts towards the same window.
PromptKill == pc \in {"watch", "evaluate", "flip"} => failFor <= PromptBound

\* An exit of the child is noticed, also with --poll 0s, when there is always
\* a tick to serve: the watcher's select is biased to the child.
ExitNoticed == child = "zombie" ~> child = "reaped"

\* So is a signal sent to condrun while the watcher loop runs.
SignalServed == (pc = "watch" /\ pending # {}) ~> pc \in {"forward", "done", "signalled"}

\* A second signal ends the run even when the command ignores both.
SecondSignalEnds == (pc = "race" /\ pending # {}) ~> Ended

\* A network that fails for good ends the run, unless a signal was forwarded.
FlipEndsRun == (pc = "watch" /\ [](~verdict /\ pc # "forward")) ~> Ended

-----------------------------------------------------------------------------
(* The promise this keeps.                                                 *)

Phase ==
  CASE pc \in {"boot", "preflight", "spawn"} -> "gating"
    [] pc \in {"terminating", "drain"} -> "stopping"
    [] Ended -> "ended"
    [] OTHER -> "running"

Promise == INSTANCE Lifecycle
             WITH phase <- Phase, command <- child, outcome <- status, result <- code

\* Supervisor::run implements Lifecycle: every step of it, of the command and
\* of the world is a step of the promise or none.
ImplementsLifecycle == Promise!LifecycleSpec

\* It implements its liveness, too.
KeepsPromise == Promise!FairLifecycle

-----------------------------------------------------------------------------
(* What the documentation says and the code does not do: each of these is  *)
(* checked to be violated.                                                 *)

\* README.md:75, --kill-on-change, "Kill the child if predicates flip after
\* launch": it does so for as long as the child lives.
FlipAlwaysEndsRun == (child = "live" /\ [](~verdict)) ~> Ended

\* SPEC.md:58, "If child exits naturally: propagate its exit code": so it is
\* when the child has exited before condrun sends it anything.
NaturalExitPropagated ==
  (child = "zombie" /\ sent = <<>>) ~> (pc = "done" /\ code = MappedCode)
=============================================================================
