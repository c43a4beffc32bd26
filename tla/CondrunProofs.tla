---------------------------- MODULE CondrunProofs ----------------------------
(***************************************************************************)
(* For every list of predicates, every composition and every sequence of   *)
(* reports: condrun run as a whole is a Supervisor, so that the theorems   *)
(* about Supervisor hold of it, and what it launches and kills goes back   *)
(* to paths that the system has had.                                       *)
(***************************************************************************)
EXTENDS Condrun, SupervisorProofs

SetProofs == INSTANCE PredicateSetProofs WITH network <- snapshot

-----------------------------------------------------------------------------
(* The composition is a Supervisor.                                        *)

\* An evaluation is under way only at the two points of run that evaluate, and
\* has no result yet.
EvaluationInv == at # 0 => pc \in {"preflight", "evaluate"} /\ result = "none"

\* What happens to the evaluation is, to Supervisor, a change of the network or
\* nothing; everything else is a step of its own.
LEMMA StepOfSupervisor ==
  IInv /\ EvaluationInv /\ [CondrunNext]_condrunVars => [Next]_vars
<1> SUFFICES ASSUME IInv, EvaluationInv, [CondrunNext]_condrunVars PROVE [Next]_vars
  OBVIOUS
<1>1. CASE OpenNetwork \/ BarrierOpens \/ PathChanges \/ ReportComes \/ ReportApplies
  BY <1>1 DEF OpenNetwork, BarrierOpens, PathChanges, ReportComes, ReportApplies
<1>2. CASE BootStep
  BY <1>2 DEF BootStep, Next, RunStep
<1>3. CASE EvaluationStep
  <2>1. ~Ended
    BY <1>3 DEF EvaluationStep, EvaluationInv, Ended, Set!EvaluateNext
  <2>2. verdict \in BOOLEAN /\ verdict' \in BOOLEAN
    BY <1>3 DEF EvaluationStep, Judged, IInv, TypeOK, RunTypeOK
  <2>3. UNCHANGED <<groupVars, signalVars, runVars, passAge>>
    BY <1>3 DEF EvaluationStep
  <2>4. CASE verdict' = verdict
    BY <1>3, <2>3, <2>4 DEF EvaluationStep, vars, history
  <2>5. CASE verdict' # verdict
    <3>1. verdict' = ~verdict /\ failFor' = 0
      BY <1>3, <2>2, <2>5 DEF EvaluationStep
    <3> QED BY <2>1, <2>3, <3>1 DEF NetworkChanges, Next, World
  <2> QED BY <2>4, <2>5
<1>4. CASE Conclude
  BY <1>4 DEF Conclude, Next, RunStep
<1>5. CASE OtherStep
  BY <1>5 DEF OtherStep, Next, RunStep
<1>6. CASE OtherWorld
  BY <1>6 DEF OtherWorld, Next, World
<1>7. CASE UNCHANGED condrunVars
  BY <1>7 DEF condrunVars
<1> QED
  BY <1>1, <1>2, <1>3, <1>4, <1>5, <1>6, <1>7 DEF CondrunNext, CondrunStep

LEMMA EvaluationInvStep ==
  IInv /\ EvaluationInv /\ [CondrunNext]_condrunVars => EvaluationInv'
<1> SUFFICES ASSUME IInv, EvaluationInv, [CondrunNext]_condrunVars PROVE EvaluationInv'
  OBVIOUS
<1> USE DEF EvaluationInv
<1>1. CASE OpenNetwork \/ BarrierOpens \/ PathChanges \/ ReportComes
  BY <1>1 DEF OpenNetwork, BarrierOpens, PathChanges, ReportComes, setVars, vars, runVars
<1>2. CASE BootStep
  BY <1>2 DEF BootStep, Boot, BootFail, Return, Goto, setVars
<1>3. CASE EvaluationStep
  BY <1>3 DEF EvaluationStep, Set!Evaluate, Set!EvaluateNext, Set!Return, runVars
<1>4. CASE Conclude
  BY <1>4 DEF Conclude
<1>5. CASE OtherStep
  BY <1>5 DEF OtherStep, setVars, PreflightSignal, SpawnFail, SpawnChild, ChildExited, SignalReceived,
     Tick, TerminateOnFlip, Forward, SecondSignal, TerminateOnSecondSignal, Terminating, Drain, Return, Goto
<1>6. CASE OtherWorld
  <2>1. UNCHANGED <<at, result>>
    BY <1>6 DEF OtherWorld, setVars
  <2>2. pc \in {"preflight", "evaluate"} => pc' = pc
    BY <1>6, ConfigAssumption DEF OtherWorld, SignalArrives, DiesOfSignal, GroupMoves, ClockTick, runVars, IInv, SignalInv
  <2> QED BY <2>1, <2>2
<1>7. CASE ReportApplies
  BY <1>7 DEF ReportApplies, Set!NetworkChanges, vars, runVars
<1>8. CASE UNCHANGED condrunVars
  BY <1>8 DEF condrunVars, setVars, vars, runVars
<1> QED
  BY <1>1, <1>2, <1>3, <1>4, <1>5, <1>6, <1>7, <1>8 DEF CondrunNext, CondrunStep

LEMMA CondrunInvariant == CondrunSpec => [](IInv /\ EvaluationInv)
<1>1. CondrunInit => IInv /\ EvaluationInv
  BY InitInv DEF CondrunInit, Set!Init, EvaluationInv
<1>2. IInv /\ EvaluationInv /\ [CondrunNext]_condrunVars => (IInv /\ EvaluationInv)'
  BY StepOfSupervisor, EvaluationInvStep, InvStep
<1> QED BY <1>1, <1>2, PTL DEF CondrunSpec

\* With the evaluation made flag by flag over a snapshot that changes, run is
\* still the Supervisor whose verdict may change at any time.
THEOREM Composition == CondrunSpec => ImplementsSupervisor
<1>1. CondrunInit => Init
  BY DEF CondrunInit
<1> QED
  BY <1>1, StepOfSupervisor, CondrunInvariant, PTL DEF CondrunSpec, Spec, ImplementsSupervisor

\* What Supervisor promises over a network that may do anything holds of condrun
\* over the predicates, the network state and its barrier.
THEOREM WholeProgramSafe ==
  CondrunSpec => [](NeverOrphans /\ ExitCodeFaithful /\ DebounceHonoured /\ PromptKill /\ NobodyEscapes)
<1>1. CondrunSpec => Spec
  BY Composition DEF ImplementsSupervisor
<1> QED
  BY <1>1, NoOrphan, ExitCodes, Debounced, KilledPromptly, KillReachesAll, PTL

\* The same of what it does step by step, and condrun as a whole implements
\* Lifecycle.
THEOREM WholeProgramRefines == CondrunSpec => NoStraySignal /\ ImplementsLifecycle
<1>1. CondrunSpec => Spec
  BY Composition DEF ImplementsSupervisor
<1> QED BY <1>1, OwnGroupOnly, Refinement, PTL

-----------------------------------------------------------------------------
(* What the evaluations read.                                              *)

\* The steps that leave the network state, the barrier and the evaluation as
\* they are, and those that take no part in it.
LEMMA OtherSteps ==
  BootStep \/ OtherStep \/ OtherWorld => UNCHANGED <<reportVars, setVars, gateVars, past>>
  BY DEF BootStep, OtherStep, OtherWorld

\* Whatever is in the network state was the system's path at some time: each
\* report as a whole, and the snapshot, too, once there was one.
SnapshotInv ==
  /\ path \in Set!Networks /\ snapshot \in Set!Networks
  /\ reports \in Seq(Set!Networks \cup {Reports!Empty})
  /\ \A i \in DOMAIN reports : reports[i] = Reports!Empty \/ Values(reports[i]) \subseteq past
  /\ ready \in BOOLEAN
  /\ ready => Values(snapshot) \subseteq past
  /\ ~ready => snapshot = Set!AllClear
  /\ open => Values(path) \subseteq past

\* run starts behind the barrier, and the barrier opens with an update or has
\* timed out.
GateInv ==
  /\ gate \in {"new", "waiting", "open"} /\ open \in BOOLEAN
  /\ pc \notin {"boot", "done", "signalled"} => gate = "open"
  /\ gate = "open" => timedOut \/ ready
  /\ gate = "new" => ~open /\ ~ready /\ reports = <<>>
  /\ gate # "new" => open

\* What an evaluation has read: updates if the barrier did not time out, and
\* never a raised flag that no path had.
SeenInv ==
  /\ seen \subseteq Set!Networks
  /\ \A net \in seen, flag \in Flags : net[flag] => Was(flag, TRUE)
  /\ ~timedOut => \A net \in seen : Values(net) \subseteq past
  /\ at = 0 /\ result = "none" => seen = {}

\* The result of an evaluation is there only where run is about to look at it,
\* and is what it will act on.
ResultInv ==
  result # "none" => pc \in {"preflight", "evaluate"} /\ (verdict <=> result = "pass")

LEMMA PastGrows == GateInv /\ [CondrunNext]_condrunVars => gate = "new" \/ past \subseteq past'
<1> SUFFICES ASSUME GateInv, [CondrunNext]_condrunVars, gate # "new" PROVE past \subseteq past'
  OBVIOUS
<1> QED
  BY OtherSteps DEF CondrunNext, CondrunStep, OpenNetwork, BarrierOpens, EvaluationStep, Conclude,
     PathChanges, ReportComes, ReportApplies, condrunVars

LEMMA SnapshotInvStep ==
  SnapshotInv /\ GateInv /\ [CondrunNext]_condrunVars => SnapshotInv'
<1> SUFFICES ASSUME SnapshotInv, GateInv, [CondrunNext]_condrunVars PROVE SnapshotInv'
  OBVIOUS
<1> USE DEF SnapshotInv
<1>1. CASE OpenNetwork
  BY <1>1 DEF OpenNetwork, GateInv, Reports!Open
<1>2. CASE UNCHANGED <<reportVars, past>>
  BY <1>2 DEF reportVars, Values
<1>3. CASE PathChanges
  <2>1. /\ path' \in Set!Networks /\ UNCHANGED <<open, reports, snapshot, ready>>
        /\ past \subseteq past' /\ (open => Values(path') \subseteq past')
    BY <1>3 DEF PathChanges, Reports!Change, Reports!Networks, Set!Networks
  <2> QED BY <2>1 DEF Values
<1>4. CASE ReportComes
  <2>1. UNCHANGED <<path, open, snapshot, ready, past>>
    BY <1>4 DEF ReportComes, Reports!Report, Reports!EmptyReport
  <2>2. PICK r \in Set!Networks \cup {Reports!Empty} :
          reports' = Append(reports, r) /\ (r = Reports!Empty \/ Values(r) \subseteq past)
    BY <1>4 DEF ReportComes, Reports!Report, Reports!EmptyReport
  <2> QED BY <2>1, <2>2 DEF Values
<1>5. CASE ReportApplies
  <2>1. UNCHANGED <<path, open, past>> /\ reports # <<>> /\ reports' = Tail(reports)
    BY <1>5 DEF ReportApplies, Reports!Apply
  <2>2. reports' \in Seq(Set!Networks \cup {Reports!Empty})
    BY <2>1
  <2>3. \A i \in DOMAIN reports' : reports'[i] = Reports!Empty \/ Values(reports'[i]) \subseteq past
    BY <2>1
  <2>4. CASE Head(reports) = Reports!Empty
    BY <1>5, <2>1, <2>2, <2>3, <2>4 DEF ReportApplies, Reports!Apply, Values
  <2>5. CASE Head(reports) # Reports!Empty
    <3>1. snapshot' = reports[1] /\ ready' = TRUE /\ 1 \in DOMAIN reports
      BY <1>5, <2>1, <2>5 DEF ReportApplies, Reports!Apply
    <3> QED BY <2>1, <2>2, <2>3, <2>5, <3>1 DEF Values
  <2> QED BY <2>4, <2>5
<1> QED
  BY <1>1, <1>2, <1>3, <1>4, <1>5, OtherSteps DEF CondrunNext, CondrunStep, BarrierOpens,
     EvaluationStep, Conclude, condrunVars

LEMMA GateInvStep ==
  IInv /\ GateInv /\ EvaluationInv /\ [CondrunNext]_condrunVars => GateInv'
<1> SUFFICES ASSUME IInv, GateInv, EvaluationInv, [CondrunNext]_condrunVars PROVE GateInv'
  OBVIOUS
<1> USE DEF GateInv
<1>1. CASE OpenNetwork
  BY <1>1 DEF OpenNetwork, Reports!Open, vars, runVars
<1>2. CASE BarrierOpens
  BY <1>2 DEF BarrierOpens, reportVars, vars, runVars
<1>3. CASE BootStep
  BY <1>3 DEF BootStep, Boot, BootFail, Return, Goto, reportVars, gateVars
<1>4. CASE EvaluationStep
  BY <1>4 DEF EvaluationStep, reportVars, gateVars, runVars
<1>5. CASE Conclude
  BY <1>5 DEF Conclude, PreflightPass, PreflightFail, EvaluatePass, EvaluateFail, NextWindow, Return, Goto,
     reportVars, gateVars
<1>6. CASE OtherStep
  BY <1>6 DEF OtherStep, PreflightSignal, SpawnFail, SpawnChild, ChildExited, SignalReceived,
     Tick, TerminateOnFlip, Forward, SecondSignal, TerminateOnSecondSignal, Terminating, Drain, Return, Goto,
     reportVars, gateVars
<1>7. CASE OtherWorld
  <2>1. pc' \in {pc, "signalled"}
    BY <1>7 DEF OtherWorld, SignalArrives, DiesOfSignal, GroupMoves, ClockTick, runVars
  <2> QED BY <1>7, <2>1 DEF OtherWorld, reportVars, gateVars
<1>8. CASE PathChanges
  BY <1>8 DEF PathChanges, Reports!Change, gateVars, vars, runVars
<1>9. CASE ReportComes
  BY <1>9 DEF ReportComes, Reports!Report, Reports!EmptyReport, gateVars, vars, runVars
<1>10. CASE ReportApplies
  BY <1>10 DEF ReportApplies, Reports!Apply, gateVars, vars, runVars
<1>11. CASE UNCHANGED condrunVars
  BY <1>11 DEF condrunVars, reportVars, gateVars, vars, runVars
<1> QED
  BY <1>1, <1>2, <1>3, <1>4, <1>5, <1>6, <1>7, <1>8, <1>9, <1>10, <1>11 DEF CondrunNext, CondrunStep

\* To the evaluation every step is one of its own, the end of it or none.
LEMMA StepOfSet ==
  SetProofs!IInv /\ [CondrunNext]_condrunVars => SetProofs!IInv'
<1> SUFFICES ASSUME SetProofs!IInv, [CondrunNext]_condrunVars PROVE SetProofs!IInv'
  OBVIOUS
<1>1. CASE EvaluationStep
  <2>1. SetProofs!Evaluate \/ SetProofs!EvaluateNext
    <3>1. UNCHANGED snapshot
      BY <1>1 DEF EvaluationStep, reportVars
    <3> QED
      BY <1>1, <3>1 DEF EvaluationStep, Set!Evaluate, Set!EvaluateNext, SetProofs!Evaluate, SetProofs!EvaluateNext,
         Set!Return, SetProofs!Return, Set!Otherwise, SetProofs!Otherwise, Set!Decisive, SetProofs!Decisive,
         Set!Outcome, SetProofs!Outcome, Set!setVars, SetProofs!setVars
  <2> QED BY <2>1, SetProofs!InvStep, ReportsAssumption DEF SetProofs!Next, SetProofs!InvStep
<1>2. CASE ReportApplies
  <2>1. SetProofs!NetworkChanges
    BY <1>2 DEF ReportApplies, Set!NetworkChanges, SetProofs!NetworkChanges, Set!Networks, SetProofs!Networks,
       Set!setVars, SetProofs!setVars
  <2> QED BY <2>1, SetProofs!InvStep, ReportsAssumption DEF SetProofs!Next, SetProofs!InvStep
<1>3. CASE Conclude
  <2>1. /\ UNCHANGED <<predicates, composition, at, snapshot>>
        /\ at = 0 /\ result' = "none" /\ seen' = {}
    BY <1>3 DEF Conclude, reportVars, SetProofs!IInv, SetProofs!TypeOK
  <2> QED
    BY <2>1 DEF SetProofs!IInv, SetProofs!TypeOK, SetProofs!LoopInv, SetProofs!ResultJustified,
       SetProofs!Decisive, SetProofs!Otherwise
<1>4. CASE UNCHANGED <<setVars, snapshot>>
  <2>1. UNCHANGED SetProofs!vars
    BY <1>4 DEF setVars, SetProofs!vars, SetProofs!setVars
  <2> QED BY <2>1, SetProofs!InvStep, ReportsAssumption DEF SetProofs!InvStep
<1> QED
  BY <1>1, <1>2, <1>3, <1>4, OtherSteps DEF CondrunNext, CondrunStep, OpenNetwork, BarrierOpens, PathChanges,
     ReportComes, Reports!Open, Reports!Change, Reports!Report, Reports!EmptyReport, reportVars, condrunVars

LEMMA ResultInvStep ==
  IInv /\ EvaluationInv /\ ResultInv /\ [CondrunNext]_condrunVars => ResultInv'
<1> SUFFICES ASSUME IInv, EvaluationInv, ResultInv, [CondrunNext]_condrunVars PROVE ResultInv'
  OBVIOUS
<1> USE DEF ResultInv
<1>1. CASE OpenNetwork \/ BarrierOpens \/ PathChanges \/ ReportComes
  BY <1>1 DEF OpenNetwork, BarrierOpens, PathChanges, ReportComes, setVars, vars, runVars
<1>2. CASE BootStep
  BY <1>2 DEF BootStep, Boot, BootFail, Return, Goto, setVars
<1>3. CASE EvaluationStep
  <2>1. pc \in {"preflight", "evaluate"} /\ pc' = pc
    BY <1>3 DEF EvaluationStep, EvaluationInv, Set!EvaluateNext, runVars
  <2>2. result' # "none" => (verdict' <=> result' = "pass")
    BY <1>3 DEF EvaluationStep, Judged
  <2> QED BY <2>1, <2>2
<1>4. CASE Conclude
  BY <1>4 DEF Conclude
<1>5. CASE OtherStep
  BY <1>5 DEF OtherStep, setVars, PreflightSignal, SpawnFail, SpawnChild, ChildExited, SignalReceived,
     Tick, TerminateOnFlip, Forward, SecondSignal, TerminateOnSecondSignal, Terminating, Drain, Return, Goto
<1>6. CASE OtherWorld
  <2>1. UNCHANGED <<result, verdict>>
    BY <1>6 DEF OtherWorld, setVars, SignalArrives, DiesOfSignal, GroupMoves, ClockTick
  <2>2. pc \in {"preflight", "evaluate"} => pc' = pc
    BY <1>6, ConfigAssumption DEF OtherWorld, SignalArrives, DiesOfSignal, GroupMoves, ClockTick, runVars, IInv, SignalInv
  <2> QED BY <2>1, <2>2
<1>7. CASE ReportApplies
  BY <1>7 DEF ReportApplies, Set!NetworkChanges, vars, runVars
<1>8. CASE UNCHANGED condrunVars
  BY <1>8 DEF condrunVars, setVars, vars, runVars
<1> QED
  BY <1>1, <1>2, <1>3, <1>4, <1>5, <1>6, <1>7, <1>8 DEF CondrunNext, CondrunStep

LEMMA SeenInvStep ==
  /\ IInv /\ EvaluationInv /\ ResultInv /\ SnapshotInv /\ GateInv /\ SeenInv /\ SetProofs!IInv
  /\ [CondrunNext]_condrunVars
  => SeenInv'
<1> SUFFICES ASSUME IInv, EvaluationInv, ResultInv, SnapshotInv, GateInv, SeenInv, SetProofs!IInv,
                    [CondrunNext]_condrunVars
             PROVE  SeenInv'
  OBVIOUS
<1> USE DEF SeenInv
<1>1. pc = "boot" => at = 0 /\ result = "none" /\ seen = {}
  BY DEF EvaluationInv, ResultInv
<1>2. CASE OpenNetwork \/ BarrierOpens
  <2>1. UNCHANGED <<at, result, seen>> /\ seen = {}
    BY <1>1, <1>2 DEF OpenNetwork, BarrierOpens, setVars
  <2> QED BY <1>1, <2>1
<1>3. CASE UNCHANGED <<setVars, timedOut>> /\ past \subseteq past'
  BY <1>3 DEF setVars, Was
\* What is read now is the snapshot.
<1>4. CASE EvaluationStep
  <2>1. UNCHANGED <<past, timedOut>> /\ (timedOut \/ ready)
    BY <1>4 DEF EvaluationStep, gateVars, GateInv, EvaluationInv, Set!EvaluateNext
  <2>2. CASE Set!Evaluate
    <3>1. seen' = {snapshot} /\ ~(at' = 0 /\ result' = "none")
      BY <2>2 DEF Set!Evaluate, Set!Return, Set!Otherwise
    <3>2. \A flag \in Flags : snapshot[flag] => Was(flag, TRUE)
      BY DEF SnapshotInv, Values, Was, Set!Networks, Set!AllClear
    <3> QED BY <2>1, <3>1, <3>2 DEF SnapshotInv, Values, Was
  <2>3. CASE Set!EvaluateNext
    <3>1. UNCHANGED seen
      BY <2>3 DEF Set!EvaluateNext
    <3>2. ~(at' = 0 /\ result' = "none")
      <4>1. at \in Nat \ {0}
        BY <2>3 DEF Set!EvaluateNext, SetProofs!IInv, SetProofs!TypeOK
      <4> QED BY <2>3, <4>1 DEF Set!EvaluateNext, Set!Return, Set!Otherwise, Set!Decisive
    <3> QED BY <2>1, <3>1, <3>2 DEF Was
  <2> QED BY <1>4, <2>2, <2>3 DEF EvaluationStep
<1>5. CASE Conclude
  BY <1>5 DEF Conclude
<1>6. CASE ReportApplies
  <2>1. UNCHANGED <<past, timedOut, at, result>> /\ (ready => ready')
    BY <1>6 DEF ReportApplies, gateVars, Set!NetworkChanges, Reports!Apply
  <2>2. CASE at = 0
    BY <1>6, <2>1, <2>2 DEF ReportApplies, Set!NetworkChanges, Was
  <2>3. CASE at # 0
    <3>1. timedOut \/ ready'
      BY <2>1, <2>3 DEF GateInv, EvaluationInv
    <3>2. seen' = seen \cup {snapshot'} /\ SnapshotInv'
      BY <1>6, <2>3, SnapshotInvStep DEF ReportApplies, Set!NetworkChanges
    <3>3. \A flag \in Flags : snapshot'[flag] => Was(flag, TRUE)
      BY <2>1, <3>2 DEF SnapshotInv, Values, Was, Set!Networks, Set!AllClear
    <3> QED BY <2>1, <2>3, <3>1, <3>2, <3>3 DEF SnapshotInv, Values, Was
  <2> QED BY <2>2, <2>3
<1> QED
  BY <1>2, <1>3, <1>4, <1>5, <1>6, OtherSteps DEF CondrunNext, CondrunStep, PathChanges,
     ReportComes, gateVars, condrunVars

-----------------------------------------------------------------------------
(* What is launched and what is killed.                                    *)

\* From the evaluation that passes to the spawn and after it, and from the
\* first that fails to the flip, what was read is remembered in `past`.
WarrantInv ==
  /\ (pc = "spawn" \/ child # "none") /\ ~timedOut => WasClear
  /\ failAge # NotFailing \/ pc = "flip" \/ site = "flip" => WasRaised

\* A result rests on flags that were read, and those on paths.
LEMMA ResultWarrants ==
  ASSUME SetProofs!IInv, SeenInv
  PROVE  /\ result = "pass" /\ ~timedOut => WasClear
         /\ result = "fail" => WasRaised
<1> USE DEF SetProofs!IInv, SetProofs!ResultJustified, SetProofs!Outcome, SetProofs!Decisive, SetProofs!Otherwise,
            Was, WasClear, WasRaised, Rejecting
<1>1. composition \in {"And", "Or"} /\ (\A i \in DOMAIN predicates : predicates[i] \in Flags)
  BY DEF SetProofs!TypeOK
<1>2. ASSUME ~timedOut, NEW net \in seen, NEW flag \in Flags, ~net[flag]
      PROVE  <<flag, FALSE>> \in past
  BY <1>2 DEF SeenInv, Values, Set!Networks
<1>3. ASSUME NEW net \in seen, NEW flag \in Flags, net[flag]
      PROVE  <<flag, TRUE>> \in past
  BY <1>3 DEF SeenInv
<1>4. ASSUME result = "pass", ~timedOut PROVE WasClear
  <2>1. CASE composition = "And"
    BY <1>1, <1>2, <1>4, <2>1
  <2>2. CASE composition = "Or"
    BY <1>1, <1>2, <1>4, <2>2
  <2> QED BY <1>1, <2>1, <2>2
<1>5. ASSUME result = "fail" PROVE WasRaised
  <2>1. CASE composition = "And"
    BY <1>1, <1>3, <1>5, <2>1
  <2>2. CASE composition = "Or"
    BY <1>1, <1>3, <1>5, <2>2
  <2> QED BY <1>1, <2>1, <2>2
<1> QED BY <1>4, <1>5

CInv ==
  /\ IInv /\ EvaluationInv /\ ResultInv
  /\ SnapshotInv /\ GateInv /\ SeenInv /\ SetProofs!IInv
  /\ WarrantInv

\* `past` only grows once there is anything to be warranted.
LEMMA WarrantsLast ==
  /\ UNCHANGED <<predicates, composition>> /\ past \subseteq past'
  => (WasClear => WasClear') /\ (WasRaised => WasRaised')
  BY DEF WasClear, WasRaised, Was, Rejecting

LEMMA WarrantInvStep == CInv /\ [CondrunNext]_condrunVars => WarrantInv'
<1> SUFFICES ASSUME CInv, [CondrunNext]_condrunVars PROVE WarrantInv'
  OBVIOUS
<1> USE DEF WarrantInv
<1>1. CASE OpenNetwork
  <2>1. /\ pc = "boot" /\ child = "none" /\ failAge = NotFailing /\ site = "none"
        /\ UNCHANGED <<pc, child, failAge, site>>
    BY <1>1 DEF OpenNetwork, CInv, IInv, ChildInv, DebounceInv, SiteInv, Gating, vars, runVars, groupVars
  <2> QED BY <2>1
<1>2. CASE BarrierOpens
  <2>1. /\ pc = "boot" /\ child = "none" /\ failAge = NotFailing /\ site = "none"
        /\ UNCHANGED <<pc, child, failAge, site>>
    BY <1>2 DEF BarrierOpens, CInv, IInv, ChildInv, DebounceInv, SiteInv, Gating, vars, runVars, groupVars
  <2> QED BY <2>1
<1>3. CASE Conclude
  <2>1. UNCHANGED <<predicates, composition, past, timedOut>>
    BY <1>3 DEF Conclude, gateVars
  <2>2. (WasClear => WasClear') /\ (WasRaised => WasRaised')
    BY <2>1, WarrantsLast
  <2>3. result \in {"pass", "fail"} /\ (verdict <=> result = "pass")
    BY <1>3 DEF Conclude, CInv, ResultInv, SetProofs!IInv, SetProofs!TypeOK
  <2>4. CASE PreflightPass
    <3>1. WasClear' \/ timedOut
      BY <2>2, <2>3, <2>4, ResultWarrants DEF CInv, PreflightPass
    <3> QED BY <2>1, <2>2, <2>4, <3>1 DEF PreflightPass, Goto, CInv, groupVars
  <2>5. CASE PreflightFail \/ EvaluatePass
    BY <2>1, <2>2, <2>5 DEF CInv, PreflightFail, EvaluatePass, NextWindow, Return, Goto, groupVars
  <2>6. CASE EvaluateFail
    <3>1. WasRaised'
      BY <2>2, <2>3, <2>6, ResultWarrants DEF CInv, EvaluateFail
    <3> QED BY <2>1, <2>2, <2>6, <3>1 DEF EvaluateFail, NextWindow, CInv, groupVars
  <2> QED BY <1>3, <2>4, <2>5, <2>6 DEF Conclude
\* The other steps start nothing that needs a warrant.
<1>4. CASE /\ UNCHANGED <<predicates, composition, timedOut>> /\ past \subseteq past'
           /\ (pc' = "spawn" \/ child' # "none") => (pc = "spawn" \/ child # "none")
           /\ (failAge' # NotFailing \/ pc' = "flip" \/ site' = "flip") =>
                (failAge # NotFailing \/ pc = "flip" \/ site = "flip")
  BY <1>4, WarrantsLast DEF CInv
<1>5. CASE EvaluationStep
  BY <1>5, <1>4 DEF EvaluationStep, Set!Evaluate, Set!EvaluateNext, Set!setVars, runVars, groupVars, gateVars
<1>6. CASE PathChanges \/ ReportComes \/ UNCHANGED condrunVars
  BY <1>6, <1>4 DEF PathChanges, ReportComes, condrunVars, setVars, vars, runVars, groupVars, gateVars
<1>7. CASE ReportApplies
  BY <1>7, <1>4 DEF ReportApplies, Set!NetworkChanges, Set!setVars, vars, runVars, groupVars, gateVars
<1>8. CASE BootStep
  <2>1. /\ (pc' = "spawn" \/ child' # "none") => (pc = "spawn" \/ child # "none")
        /\ (failAge' # NotFailing \/ pc' = "flip" \/ site' = "flip") =>
             (failAge # NotFailing \/ pc = "flip" \/ site = "flip")
    BY <1>8 DEF BootStep, Boot, BootFail, Return, Goto, groupVars
  <2> QED BY <1>8, <2>1, <1>4 DEF BootStep, setVars, gateVars
<1>9. CASE OtherStep
  <2>1. /\ (pc' = "spawn" \/ child' # "none") => (pc = "spawn" \/ child # "none")
        /\ (failAge' # NotFailing \/ pc' = "flip" \/ site' = "flip") =>
             (failAge # NotFailing \/ pc = "flip" \/ site = "flip")
    <3>1. CASE PreflightSignal \/ SpawnFail \/ SpawnChild \/ SignalReceived \/ Tick \/ SecondSignal
      BY <3>1 DEF PreflightSignal, SpawnFail, SpawnChild, SignalReceived, Tick, SecondSignal, Return, Goto, groupVars
    <3>2. CASE ChildExited \/ Drain
      BY <3>2 DEF ChildExited, Drain, Wait, Waitable, Return, Goto
    <3>3. CASE TerminateOnFlip \/ Forward \/ TerminateOnSecondSignal
      BY <3>3 DEF TerminateOnFlip, Forward, TerminateOnSecondSignal, Terminate, Signal, Goto
    <3>4. CASE Terminating
      BY <3>4 DEF Terminating, TerminateStep, TerminateExited, TerminateKill, TerminateReaped, Waitable
    <3> QED BY <1>9, <3>1, <3>2, <3>3, <3>4 DEF OtherStep
  <2> QED BY <1>9, <2>1, <1>4 DEF OtherStep, setVars, gateVars
<1>10. CASE OtherWorld
  <2>1. UNCHANGED <<predicates, composition, timedOut, past>>
    BY <1>10 DEF OtherWorld, setVars, gateVars
  <2>2. CASE \E kind \in Delivered : SignalArrives(kind) \/ DiesOfSignal(kind)
    BY <2>1, <2>2, <1>4 DEF SignalArrives, DiesOfSignal, runVars, groupVars
  <2>3. CASE GroupMoves
    <3>1. child' # "none" => child # "none"
      BY <2>3 DEF GroupMoves, Fork, Exit, CInv, IInv, GroupInv
    <3> QED BY <2>1, <2>3, <3>1, <1>4 DEF GroupMoves, runVars
  <2>4. CASE ClockTick
    BY <2>1, <2>4, <1>4 DEF ClockTick, Elapse
  <2> QED BY <1>10, <2>2, <2>3, <2>4 DEF OtherWorld
<1> QED
  BY <1>1, <1>2, <1>3, <1>5, <1>6, <1>7, <1>8, <1>9, <1>10 DEF CondrunNext, CondrunStep

LEMMA CInvariant == CondrunSpec => []CInv
<1>1. CondrunInit => CInv
  <2> SUFFICES ASSUME CondrunInit PROVE CInv
    OBVIOUS
  <2>1. IInv
    BY InitInv DEF CondrunInit
  <2>2. SetProofs!IInv
    BY ReportsAssumption DEF CondrunInit, Set!Init, SetProofs!IInv, SetProofs!TypeOK, SetProofs!LoopInv,
       SetProofs!ResultJustified, SetProofs!Decisive, SetProofs!Otherwise, Set!Networks, SetProofs!Networks
  <2>3. SnapshotInv
    <3>1. reports = <<>> /\ open = FALSE /\ ready = FALSE /\ path \in Set!Networks /\ snapshot = Set!AllClear
      BY DEF CondrunInit, Reports!Init, Set!Networks, Reports!Networks, Set!AllClear, Reports!AllClear
    <3>2. snapshot \in Set!Networks /\ ready \in BOOLEAN
      BY <3>1 DEF Set!AllClear, Set!Networks
    <3> QED BY <3>1, <3>2 DEF SnapshotInv
  <2>5. GateInv
    BY DEF CondrunInit, Init, Reports!Init, GateInv
  <2>4. EvaluationInv /\ ResultInv /\ SeenInv /\ WarrantInv
    BY DEF CondrunInit, Init, GroupInit, Set!Init, EvaluationInv, ResultInv, SeenInv, WarrantInv
  <2> QED BY <2>1, <2>2, <2>3, <2>4, <2>5 DEF CInv
<1>2. CInv /\ [CondrunNext]_condrunVars => CInv'
  BY StepOfSupervisor, InvStep, EvaluationInvStep, ResultInvStep, SnapshotInvStep, GateInvStep,
     SeenInvStep, StepOfSet, WarrantInvStep DEF CInv
<1> QED BY <1>1, <1>2, PTL DEF CondrunSpec

\* For every list, composition and order of changes, reports and reads: unless
\* the barrier timed out, a command is launched only on flags that the system's
\* paths have had, never on the default.
THEOREM LaunchIsWarranted == CondrunSpec => []LaunchWarranted
<1>1. CInv => LaunchWarranted
  BY DEF CInv, WarrantInv, LaunchWarranted
<1> QED BY <1>1, CInvariant, PTL

\* A flip kill goes back to flags that paths have had, the default included in
\* none of them, and across all the evaluations of a debounce window.
THEOREM FlipIsWarranted == CondrunSpec => []FlipWarranted
<1>1. CInv => FlipWarranted
  BY DEF CInv, WarrantInv, FlipWarranted
<1> QED BY <1>1, CInvariant, PTL
-----------------------------------------------------------------------------
(* How far run is behind the system's path.                                *)

\* While the path is watched its last report is still owed, or queued with
\* nothing but empty reports behind it, or is the snapshot with nothing but
\* empty reports to come.
LagInv ==
  open =>
    \/ owed
    \/ \E i \in DOMAIN reports :
         /\ reports[i] = path
         /\ \A j \in DOMAIN reports : j > i => reports[j] = Reports!Empty
    \/ snapshot = path /\ \A j \in DOMAIN reports : reports[j] = Reports!Empty

\* Where there are no flags there is one network, and it looks like a report
\* without a path.
LEMMA EmptyIsEmpty ==
  ASSUME NEW net \in Set!Networks, net = Reports!Empty, NEW other \in Set!Networks
  PROVE  other = net
<1>1. Flags = {}
  BY DEF Set!Networks, Reports!Empty
<1> QED BY <1>1 DEF Set!Networks

LEMMA LagInvStep ==
  SnapshotInv /\ GateInv /\ LagInv /\ [CondrunNext]_condrunVars => LagInv'
<1> SUFFICES ASSUME SnapshotInv, GateInv, LagInv, [CondrunNext]_condrunVars, open' PROVE LagInv'
  BY DEF LagInv
<1> USE DEF LagInv
<1>1. CASE OpenNetwork
  BY <1>1 DEF OpenNetwork, Reports!Open
<1>2. CASE UNCHANGED reportVars
  BY <1>2 DEF reportVars
<1>3. CASE PathChanges
  BY <1>3 DEF PathChanges, Reports!Change
\* A report of the path is the last in the queue; an empty one comes behind it.
<1>4. CASE ReportComes
  <2>1. UNCHANGED <<path, open, snapshot>> /\ reports \in Seq(Set!Networks \cup {Reports!Empty})
    BY <1>4 DEF ReportComes, Reports!Report, Reports!EmptyReport, SnapshotInv
  <2>2. CASE Reports!Report
    <3>1. /\ reports' = Append(reports, path) /\ Len(reports') = Len(reports) + 1
          /\ reports'[Len(reports')] = path /\ DOMAIN reports' = 1..Len(reports')
      BY <2>1, <2>2 DEF Reports!Report, SnapshotInv
    <3> QED BY <2>1, <3>1
  <2>3. CASE Reports!EmptyReport
    <3>1. /\ reports' = Append(reports, Reports!Empty) /\ UNCHANGED owed
          /\ DOMAIN reports = 1..Len(reports) /\ DOMAIN reports' = 1..(Len(reports) + 1)
          /\ \A i \in DOMAIN reports : reports'[i] = reports[i]
          /\ reports'[Len(reports) + 1] = Reports!Empty
      BY <2>1, <2>3 DEF Reports!EmptyReport
    <3> QED BY <2>1, <3>1
  <2> QED BY <1>4, <2>2, <2>3 DEF ReportComes
\* The handler takes the first report: that of the path, or one before it.
<1>5. CASE ReportApplies
  <2>1. /\ UNCHANGED <<path, open, owed>> /\ reports # <<>> /\ reports' = Tail(reports)
        /\ snapshot' = IF reports[1] = Reports!Empty THEN snapshot ELSE reports[1]
    <3>1. UNCHANGED <<path, open, owed>> /\ reports # <<>> /\ reports' = Tail(reports)
      BY <1>5 DEF ReportApplies, Reports!Apply
    <3>2. snapshot' = IF Head(reports) = Reports!Empty THEN snapshot ELSE Head(reports)
      BY <1>5 DEF ReportApplies, Reports!Apply
    <3>3. Head(reports) = reports[1]
      BY <3>1 DEF SnapshotInv
    <3> QED BY <3>1, <3>2, <3>3
  <2>2. /\ DOMAIN reports = 1..Len(reports) /\ Len(reports) \in Nat \ {0}
        /\ DOMAIN reports' = 1..(Len(reports) - 1)
        /\ \A j \in DOMAIN reports' : reports'[j] = reports[j + 1]
    BY <2>1 DEF SnapshotInv
  <2>3. CASE owed
    BY <2>1, <2>3
  <2>4. ASSUME NEW i \in DOMAIN reports, reports[i] = path,
               \A j \in DOMAIN reports : j > i => reports[j] = Reports!Empty
        PROVE  LagInv'
    <3>1. CASE i = 1
      <4>1. \A j \in DOMAIN reports' : reports'[j] = Reports!Empty
        BY <2>2, <2>4, <3>1
      <4>2. snapshot' = path'
        BY <2>1, <2>4, <3>1, EmptyIsEmpty DEF SnapshotInv
      <4> QED BY <4>1, <4>2
    <3>2. CASE i # 1
      <4>1. i - 1 \in DOMAIN reports' /\ reports'[i - 1] = path'
        BY <2>1, <2>2, <2>4, <3>2
      <4>2. \A j \in DOMAIN reports' : j > i - 1 => reports'[j] = Reports!Empty
        BY <2>2, <2>4
      <4> QED BY <4>1, <4>2
    <3> QED BY <3>1, <3>2
  <2>5. CASE snapshot = path /\ \A j \in DOMAIN reports : reports[j] = Reports!Empty
    BY <2>1, <2>2, <2>5
  <2> QED BY <1>5, <2>1, <2>3, <2>4, <2>5
<1> QED
  BY <1>1, <1>2, <1>3, <1>4, <1>5, OtherSteps DEF CondrunNext, CondrunStep, BarrierOpens,
     EvaluationStep, Conclude, condrunVars

LEMMA LagInvariant == CondrunSpec => []LagInv
<1>1. CondrunInit => LagInv
  BY DEF CondrunInit, Reports!Init, LagInv
<1>2. CInv => SnapshotInv /\ GateInv
  BY DEF CInv
<1> QED BY <1>1, <1>2, CInvariant, LagInvStep, PTL DEF CondrunSpec

\* However many reports were queued, and whatever they were of: once there is
\* none left the snapshot is the system's path, and what an evaluation of it
\* returns is what the predicates say of that path.
THEOREM SettledIsCurrent == CondrunSpec => []EvaluationCurrent
<1>1. CInv /\ LagInv => EvaluationCurrent
  <2> SUFFICES ASSUME CInv, LagInv, result # "none", Settled, seen = {snapshot}
               PROVE  result = "pass" <=> Set!Verdict(path)
    BY DEF EvaluationCurrent
  <2>1. path \in Set!Networks /\ snapshot \in Set!Networks
    BY DEF CInv, SnapshotInv
  <2>2. snapshot = path
    BY <2>1, EmptyIsEmpty DEF LagInv, Settled
  <2>3. SetProofs!StableVerdict
    BY SetProofs!JustifiedIsVerdict, ReportsAssumption DEF CInv, SetProofs!IInv
  <2>4. result = "pass" <=> SetProofs!Verdict(snapshot)
    BY <2>1, <2>3 DEF SetProofs!StableVerdict, Set!Networks, SetProofs!Networks
  <2>5. SetProofs!Verdict(snapshot) <=> Set!Verdict(path)
    BY <2>2 DEF SetProofs!Verdict, Set!Verdict, SetProofs!Outcome, Set!Outcome
  <2> QED BY <2>4, <2>5
<1> QED BY <1>1, CInvariant, LagInvariant, PTL
=============================================================================
