------------------------------ MODULE Condrun ------------------------------
(***************************************************************************)
(* condrun run as a whole: dispatch (src/cli.rs) opens the network state,  *)
(* installs the signal handlers and calls Supervisor::run, whose           *)
(* evaluations read, flag by flag, the snapshot the network state keeps    *)
(* while reports of the system's path come in.                             *)
(*                                                                         *)
(* Supervisor supplies run, its child and its signals; NetworkReports, the *)
(* promise of MacOsNetworkState, the network state; PredicateSet the       *)
(* evaluation, over the snapshot.  `verdict` of Supervisor is here what    *)
(* the last evaluation came to, so that a network change in Supervisor is  *)
(* the end of an evaluation that came to something else.                   *)
(***************************************************************************)
EXTENDS Supervisor

CONSTANTS Flags, PredicateLists, MaxReports

ASSUME ReportsAssumption ==
  MaxReports \in Nat \ {0} /\ PredicateLists \subseteq Seq(Flags)

VARIABLES
  path, open, owed, reports, snapshot, ready,       \* of NetworkReports
  predicates, composition, at, result, seen,        \* of PredicateSet
  gate,     \* the first-update barrier: "new", "waiting" or "open"
  timedOut, \* history: whether it opened without an update
  past      \* history: the flags, with their values, of the paths there were
            \* since the monitor was started

reportVars == <<path, open, owed, reports, snapshot, ready>>
setVars == <<predicates, composition, at, result, seen>>
gateVars == <<gate, timedOut>>
condrunVars == <<vars, reportVars, setVars, gateVars, past>>

Reports == INSTANCE NetworkReports
Set == INSTANCE PredicateSet WITH network <- snapshot

CondrunInit ==
  /\ Init
  /\ Reports!Init
  /\ Set!Init
  /\ gate = "new"
  /\ timedOut = FALSE
  /\ past = {}

Values(net) == {<<flag, net[flag]>> : flag \in Flags}

-----------------------------------------------------------------------------
(* Before Supervisor::run.                                                 *)

\* MacOsNetworkState::new starts the monitor.
OpenNetwork ==
  /\ pc = "boot" /\ gate = "new"
  /\ Reports!Open
  /\ gate' = "waiting"
  /\ past' = Values(path)
  /\ UNCHANGED <<vars, setVars, timedOut>>

\* Mutant of BarrierOpens: new returns without waiting for an update.
BarrierOpens_AtOnce ==
  /\ pc = "boot" /\ gate = "waiting"
  /\ gate' = "open"
  /\ UNCHANGED <<vars, reportVars, setVars, timedOut, past>>

\* It returns after the first update, or without one after its timeout.
BarrierOpens ==
  /\ pc = "boot" /\ gate = "waiting"
  /\ gate' = "open"
  /\ timedOut' = ~ready
  /\ UNCHANGED <<vars, reportVars, setVars, past>>

\* The handlers come after the network state.
BootStep ==
  /\ \/ gate = "open" /\ Boot
     \/ BootFail
  /\ UNCHANGED <<reportVars, setVars, gateVars, past>>

-----------------------------------------------------------------------------
(* Supervisor::run with its evaluations.                                   *)

Judged == verdict' = IF result' = "none" THEN verdict ELSE result' = "pass"

\* The reader's lock is never held across an await: an evaluation runs to its
\* end in one poll, and no other arm of a select comes between its reads.  The
\* handler does, on a thread of its own.
EvaluationStep ==
  /\ \/ pc \in {"preflight", "evaluate"} /\ result = "none" /\ Set!Evaluate
     \/ Set!EvaluateNext
  /\ Judged
  /\ failFor' = IF verdict' = verdict THEN failFor ELSE 0
  /\ UNCHANGED <<groupVars, signalVars, runVars, passAge, reportVars, gateVars, past>>

\* Mutant of Conclude: the command is launched whatever the result.
Conclude_LaunchAnyway ==
  /\ result # "none"
  /\ \/ /\ Goto("preflight", "spawn")
        /\ passAge' = 0
        /\ UNCHANGED <<groupVars, signalVars, sig, site, verdict, tickLeft, failAge, code, failFor>>
     \/ EvaluatePass \/ EvaluateFail
  /\ result' = "none"
  /\ seen' = {}
  /\ UNCHANGED <<predicates, composition, at, reportVars, gateVars, past>>

\* run matches on the result, which is then gone.
Conclude ==
  /\ result # "none"
  /\ PreflightPass \/ PreflightFail \/ EvaluatePass \/ EvaluateFail
  /\ result' = "none"
  /\ seen' = {}
  /\ UNCHANGED <<predicates, composition, at, reportVars, gateVars, past>>

OtherStep ==
  /\ \/ at = 0 /\ result = "none" /\ PreflightSignal
     \/ SpawnFail \/ SpawnChild
     \/ ChildExited \/ SignalReceived \/ Tick
     \/ TerminateOnFlip \/ Forward \/ SecondSignal \/ TerminateOnSecondSignal
     \/ Terminating \/ Drain
  /\ UNCHANGED <<reportVars, setVars, gateVars, past>>

CondrunStep ==
  \/ OpenNetwork \/ BarrierOpens \/ BootStep
  \/ EvaluationStep \/ Conclude \/ OtherStep

-----------------------------------------------------------------------------
(* The world.                                                              *)

PathChanges ==
  /\ ~Ended
  /\ Reports!Change
  /\ past' = IF open THEN past \cup Values(path') ELSE past
  /\ UNCHANGED <<vars, setVars, gateVars>>

ReportComes ==
  /\ ~Ended
  /\ Reports!Report \/ Reports!EmptyReport
  /\ UNCHANGED <<vars, setVars, gateVars, past>>

\* The update handler.
ReportApplies ==
  /\ ~Ended
  /\ Reports!Apply
  /\ Set!NetworkChanges
  /\ UNCHANGED <<vars, gateVars, past>>

OtherWorld ==
  /\ \/ \E kind \in Delivered : SignalArrives(kind) \/ DiesOfSignal(kind)
     \/ GroupMoves
     \/ ClockTick
  /\ UNCHANGED <<reportVars, setVars, gateVars, past>>

CondrunNext ==
  \/ CondrunStep
  \/ PathChanges \/ ReportComes \/ ReportApplies
  \/ OtherWorld

CondrunSpec == CondrunInit /\ [][CondrunNext]_condrunVars

\* As in Supervisor; and the framework reports a change at last (strongly fair,
\* for the bound on its queue alone keeps it from doing so), and runs the
\* handler.
CondrunFairness ==
  /\ WF_condrunVars(CondrunStep)
  /\ WF_condrunVars(ClockTick /\ UNCHANGED <<reportVars, setVars, gateVars, past>>)
  /\ WF_condrunVars(Leader \in doomed /\ Exit(Leader) /\ OtherWorld)
  /\ SF_condrunVars(owed /\ ReportComes /\ Reports!Report)
  /\ WF_condrunVars(ReportApplies)

FairCondrunSpec == CondrunSpec /\ CondrunFairness

-----------------------------------------------------------------------------
\* The composition is the Supervisor of the module of that name: what holds of
\* run for a network that may pass or fail at any time holds with this one.
ImplementsSupervisor == Spec

\* The system's path once had that value of the flag.
Was(flag, value) == <<flag, value>> \in past

Rejecting == {predicates[i] : i \in DOMAIN predicates}

\* Each flag (under --any, one of them) was clear on a path; some flag (under
\* --any, each of them) was raised on one.
WasClear ==
  IF composition = "And"
    THEN \A flag \in Rejecting : Was(flag, FALSE)
    ELSE \E flag \in Rejecting : Was(flag, FALSE)

WasRaised ==
  IF composition = "And"
    THEN \E flag \in Rejecting : Was(flag, TRUE)
    ELSE \A flag \in Rejecting : Was(flag, TRUE)

\* A command is launched only when what was rejected was not there, on paths
\* the system has had since the monitor was started, or the barrier had timed
\* out.  No evaluation reads the default while an update is on its way
\* (state/macos.rs:224).
LaunchWarranted == (child # "none" /\ ~timedOut) => WasClear

\* It is killed for the network only when what is rejected was there.
FlipWarranted == site = "flip" => WasRaised

\* The system's path was reported, and what is still on its way to the readers
\* is at most reports without a path.
Settled == open /\ ~owed /\ \A i \in DOMAIN reports : reports[i] = Reports!Empty

\* From then on run is not behind: an evaluation that read one snapshot, the one
\* there is, decides what the predicates say of the system's own path, whatever
\* was queued before, in whatever order paths and empty reports came.
EvaluationCurrent ==
  (result # "none" /\ Settled /\ seen = {snapshot}) => (result = "pass" <=> Set!Verdict(path))

\* A path with every flag raised that stays as it is ends the run, unless a
\* signal was forwarded: also when reports of other paths are still queued
\* before it, and an evaluation of one of them passes and calls off a debounce
\* that had begun.
BadPathEndsRun ==
  (pc = "watch" /\ [](path = [f \in Flags |-> TRUE] /\ pc # "forward")) ~> Ended
=============================================================================
