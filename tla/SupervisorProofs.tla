-------------------------- MODULE SupervisorProofs --------------------------
(***************************************************************************)
(* For all durations, all flags and any number of workers and signals:     *)
(* the types of Supervisor, its safety properties, how soon it kills on a  *)
(* network that stays failed, and that it implements Lifecycle.            *)
(***************************************************************************)
EXTENDS Supervisor, ProcessGroupProofs

-----------------------------------------------------------------------------
(* The inductive invariant.                                                *)

Gating == {"boot", "preflight", "spawn"}
Watching == {"watch", "evaluate", "flip"}
Running == Watching \cup {"wait", "forward", "race", "escalate"}

\* What there is of a child, and where terminate is, at each point of run.
ChildInv ==
  /\ pc \in Gating \cup {"signalled"} => child = "none"
  /\ pc \in Running \cup {"terminating"} => child \in {"live", "zombie"}
  /\ pc = "drain" => child = "reaped"
  /\ pc = "done" => child \in {"none", "reaped"}
  /\ op # "idle" <=> pc = "terminating"

\* From the pre-flight on no signal kills condrun, and what is forwarded is a
\* signal that was received.
SignalInv ==
  /\ pc \notin {"boot", "signalled", "done"} => handled = Kinds
  /\ pc = "forward" => sig \in Kinds

\* site is set exactly while run is on the way to exit code 3.
SiteInv ==
  /\ pc \in {"terminating", "drain"} => site # "none"
  /\ pc \notin {"terminating", "drain", "done"} => site = "none"
  /\ pc # "done" => code = NoCode
  /\ pc \in Watching \/ site = "flip" => KillOnChange

\* The last evaluation that passed is at least a poll interval older than
\* fail_started_at.
DebounceInv ==
  /\ pc \in Gating => failAge = NotFailing
  /\ (pc = "watch" /\ failAge = NotFailing) => passAge + tickLeft >= Poll
  /\ (pc = "evaluate" /\ failAge = NotFailing) => passAge >= Poll
  /\ failAge # NotFailing => passAge >= Poll + failAge
  /\ (pc = "flip" \/ site = "flip") => passAge = PassCap

IInv ==
  /\ TypeOK
  /\ GroupInv /\ GraceInv
  /\ ChildInv /\ SignalInv /\ SiteInv /\ DebounceInv
  /\ ExitCodeFaithful

-----------------------------------------------------------------------------
(* Types.                                                                  *)

\* The bounds of the history variables are numbers, also for a poll of zero.
LEMMA Bounds == PromptBound \in Nat /\ FailCap \in Nat /\ PassCap \in Nat
<1> USE ConfigAssumption
<1>1. TicksToKill \in Nat
  BY DEF TicksToKill
<1>2. TicksToKill * Poll \in Nat
  BY <1>1
<1> QED BY <1>2 DEF PromptBound, FailCap, PassCap

\* Every step of the system is, to the group, a step of its own or none.
LEMMA StepOfGroup == SignalInv /\ [Next]_vars => GroupStep \/ UNCHANGED groupVars
<1> SUFFICES ASSUME SignalInv, [Next]_vars PROVE GroupStep \/ UNCHANGED groupVars
  OBVIOUS
<1>1. CASE Forward
  <2>1. sig \in DOMAIN UnixSignal
    BY <1>1 DEF Forward, Goto, SignalInv, Kinds, UnixSignal
  <2> QED BY <1>1, <2>1 DEF Forward, GroupStep
<1>2. CASE RunStep /\ ~Forward
  BY <1>2 DEF RunStep, GroupStep, Boot, BootFail, PreflightSignal, PreflightPass, PreflightFail,
     SpawnFail, SpawnChild, ChildExited, SignalReceived, Tick, EvaluatePass, EvaluateFail,
     TerminateOnFlip, SecondSignal, TerminateOnSecondSignal, Terminating, Drain
<1>3. CASE World
  BY <1>3 DEF World, GroupStep, SignalArrives, DiesOfSignal, NetworkChanges, GroupMoves, ClockTick
<1>4. CASE UNCHANGED vars
  BY <1>4 DEF vars
<1> QED BY <1>1, <1>2, <1>3, <1>4 DEF Next

LEMMA SignalsTypeStep == SignalsTypeOK /\ [Next]_vars => SignalsTypeOK'
<1> SUFFICES ASSUME SignalsTypeOK, [Next]_vars PROVE SignalsTypeOK'
  OBVIOUS
<1> USE DEF SignalsTypeOK
<1>1. CASE Boot
  BY <1>1 DEF Boot, InstallHandler, HandlerOrder, Kinds
<1>2. CASE PreflightSignal \/ SignalReceived \/ SecondSignal
  BY <1>2 DEF PreflightSignal, SignalReceived, SecondSignal, NextSignal
<1>3. CASE \E kind \in Delivered : SignalArrives(kind)
  BY <1>3 DEF SignalArrives, Notify
<1>4. CASE UNCHANGED signalVars
  BY <1>4 DEF signalVars
<1>5. [Next]_vars =>
        \/ Boot \/ PreflightSignal \/ SignalReceived \/ SecondSignal
        \/ (\E kind \in Delivered : SignalArrives(kind)) \/ UNCHANGED signalVars
  BY DEF Next, RunStep, World, BootFail, PreflightPass, PreflightFail,
     SpawnFail, SpawnChild, ChildExited, Tick, EvaluatePass, EvaluateFail, TerminateOnFlip, Forward,
     TerminateOnSecondSignal, Terminating, Drain, DiesOfSignal, NetworkChanges, GroupMoves, ClockTick, vars
<1> QED BY <1>1, <1>2, <1>3, <1>4, <1>5

LEMMA RunTypeStep == SignalsTypeOK /\ RunTypeOK /\ [Next]_vars => RunTypeOK'
<1> SUFFICES ASSUME SignalsTypeOK, RunTypeOK, [Next]_vars PROVE RunTypeOK'
  OBVIOUS
<1> USE ConfigAssumption, Bounds DEF RunTypeOK, history
<1>1. CASE Boot \/ BootFail \/ PreflightSignal \/ PreflightPass \/ PreflightFail
  BY <1>1 DEF Boot, BootFail, PreflightSignal, PreflightPass, PreflightFail, Return, Goto, NoCode
<1>2. CASE SpawnFail \/ SpawnChild
  BY <1>2 DEF SpawnFail, SpawnChild, Return, Goto, NoCode
<1>3. CASE ChildExited \/ Drain
  BY <1>3 DEF ChildExited, Drain, Return, Goto, MappedCode, NoCode
<1>4. CASE SignalReceived \/ SecondSignal \/ Forward \/ Tick
  <2>1. (\E kind \in pending : sig' = kind) => sig' \in Kinds
    BY DEF SignalsTypeOK
  <2> QED
    BY <1>4, <2>1 DEF SignalReceived, SecondSignal, Forward, Tick, Goto
<1>5. CASE EvaluatePass
  BY <1>5 DEF EvaluatePass, NextWindow, NotFailing
<1>6. CASE EvaluateFail
  BY <1>6 DEF EvaluateFail, NextWindow, FailStarted, NotFailing
<1>7. CASE TerminateOnFlip \/ TerminateOnSecondSignal \/ Terminating
  BY <1>7 DEF TerminateOnFlip, TerminateOnSecondSignal, Terminating, Goto
<1>8. ASSUME NEW kind \in Delivered, SignalArrives(kind) \/ DiesOfSignal(kind) PROVE RunTypeOK'
  BY <1>8 DEF SignalArrives, DiesOfSignal, runVars
<1>9. CASE NetworkChanges
  <2>1. verdict' \in BOOLEAN
    BY <1>9 DEF NetworkChanges
  <2>2. failFor' \in 0..FailCap
    BY <1>9 DEF NetworkChanges
  <2>3. UNCHANGED <<runVars, passAge>>
    BY <1>9 DEF NetworkChanges
  <2> QED BY <2>1, <2>2, <2>3 DEF runVars
<1>10. CASE ClockTick
  BY <1>10 DEF ClockTick, UpTo, NotFailing
<1>11. CASE GroupMoves \/ UNCHANGED vars
  BY <1>11 DEF GroupMoves, vars, runVars
<1> QED
  BY <1>1, <1>2, <1>3, <1>4, <1>5, <1>6, <1>7, <1>8, <1>9, <1>10, <1>11 DEF Next, RunStep, World

LEMMA TypeStep == TypeOK /\ GroupInv /\ SignalInv /\ [Next]_vars => TypeOK'
<1>1. GroupTypeOK /\ UNCHANGED groupVars => GroupTypeOK'
  BY DEF GroupTypeOK, groupVars
<1> QED
  BY <1>1, StepOfGroup, GroupTypeStep, SignalsTypeStep, RunTypeStep DEF TypeOK

-----------------------------------------------------------------------------
(* The parts of the invariant, one lemma each.                             *)

\* Steps that move run from one point to another, by what they do to the child.
LEMMA ChildInvStep ==
  TypeOK /\ GroupInv /\ SignalInv /\ ChildInv /\ [Next]_vars => ChildInv'
<1> SUFFICES ASSUME TypeOK, GroupInv, SignalInv, ChildInv, [Next]_vars PROVE ChildInv'
  OBVIOUS
<1> USE DEF ChildInv, Gating, Watching, Running
<1>1. CASE Boot \/ BootFail \/ PreflightSignal \/ PreflightPass \/ PreflightFail \/ SpawnFail
  BY <1>1 DEF Boot, BootFail, PreflightSignal, PreflightPass, PreflightFail, SpawnFail,
     Return, Goto, groupVars
<1>2. CASE SpawnChild
  BY <1>2 DEF SpawnChild, Spawn
<1>3. CASE ChildExited \/ Drain
  BY <1>3 DEF ChildExited, Drain, Wait, Return, Goto
<1>4. CASE SignalReceived \/ SecondSignal \/ Tick \/ EvaluatePass \/ EvaluateFail
  BY <1>4 DEF SignalReceived, SecondSignal, Tick, EvaluatePass, EvaluateFail, NextWindow, Goto, groupVars
<1>5. CASE TerminateOnFlip \/ TerminateOnSecondSignal \/ Forward
  BY <1>5 DEF TerminateOnFlip, TerminateOnSecondSignal, Forward, Terminate, Signal, Goto
<1>6. CASE Terminating
  BY <1>6 DEF Terminating, TerminateStep, TerminateExited, TerminateKill, TerminateReaped
<1>7. ASSUME NEW kind \in Delivered, SignalArrives(kind) \/ DiesOfSignal(kind) PROVE ChildInv'
  BY <1>7, ConfigAssumption DEF SignalArrives, DiesOfSignal, SignalInv, Ended, TypeOK, RunTypeOK,
     runVars, groupVars
<1>8. CASE GroupMoves
  <2>1. ASSUME NEW p \in Procs, Exit(p) PROVE child' = child \/ (child = "live" /\ child' = "zombie")
    BY <2>1 DEF Exit, GroupInv
  <2>2. ASSUME NEW w \in Workers, Fork(w) PROVE child' = child
    BY <2>2 DEF Fork
  <2>3. UNCHANGED <<pc, op>>
    BY <1>8 DEF GroupMoves, Fork, Exit, runVars
  <2> QED BY <1>8, <2>1, <2>2, <2>3 DEF GroupMoves
<1>9. CASE NetworkChanges \/ ClockTick \/ UNCHANGED vars
  BY <1>9 DEF NetworkChanges, ClockTick, Elapse, vars, runVars, groupVars
<1> QED
  BY <1>1, <1>2, <1>3, <1>4, <1>5, <1>6, <1>7, <1>8, <1>9 DEF Next, RunStep, World

\* The handlers are all there before the pre-flight starts, and stay.
LEMMA SignalInvStep == TypeOK /\ SignalInv /\ [Next]_vars => SignalInv'
<1> SUFFICES ASSUME TypeOK, SignalInv, [Next]_vars PROVE SignalInv'
  OBVIOUS
<1> USE DEF SignalInv
<1>1. CASE Boot
  BY <1>1 DEF Boot, AllHandlers, HandlerOrder, Kinds
<1>2. CASE BootFail \/ PreflightSignal \/ PreflightPass \/ PreflightFail \/ SpawnFail \/ SpawnChild
  BY <1>2 DEF BootFail, PreflightSignal, PreflightPass, PreflightFail, SpawnFail, SpawnChild,
     NextSignal, Return, Goto, signalVars
<1>3. CASE SignalReceived
  BY <1>3 DEF SignalReceived, NextSignal, TypeOK, SignalsTypeOK
<1>4. CASE ChildExited \/ Drain \/ SecondSignal \/ Tick \/ EvaluatePass \/ EvaluateFail
  BY <1>4 DEF ChildExited, Drain, SecondSignal, Tick, EvaluatePass, EvaluateFail, NextWindow,
     NextSignal, Return, Goto, signalVars
<1>5. CASE TerminateOnFlip \/ TerminateOnSecondSignal \/ Forward \/ Terminating
  BY <1>5 DEF TerminateOnFlip, TerminateOnSecondSignal, Forward, Terminating, Goto, signalVars
<1>6. ASSUME NEW kind \in Delivered, SignalArrives(kind) \/ DiesOfSignal(kind) PROVE SignalInv'
  BY <1>6 DEF SignalArrives, DiesOfSignal, Notify, runVars, signalVars
<1>7. CASE NetworkChanges \/ GroupMoves \/ ClockTick \/ UNCHANGED vars
  BY <1>7 DEF NetworkChanges, GroupMoves, ClockTick, vars, runVars, signalVars
<1> QED
  BY <1>1, <1>2, <1>3, <1>4, <1>5, <1>6, <1>7 DEF Next, RunStep, World

LEMMA SiteInvStep == TypeOK /\ SignalInv /\ SiteInv /\ [Next]_vars => SiteInv'
<1> SUFFICES ASSUME TypeOK, SignalInv, SiteInv, [Next]_vars PROVE SiteInv'
  OBVIOUS
<1> USE DEF SiteInv, Watching
<1>1. CASE Boot \/ BootFail \/ PreflightSignal \/ PreflightPass \/ PreflightFail \/ SpawnFail
  BY <1>1 DEF Boot, BootFail, PreflightSignal, PreflightPass, PreflightFail, SpawnFail, Return, Goto
<1>2. CASE SpawnChild
  BY <1>2, ConfigAssumption DEF SpawnChild
<1>3. CASE ChildExited \/ Drain
  BY <1>3 DEF ChildExited, Drain, Return, Goto
<1>4. CASE SignalReceived \/ SecondSignal \/ Tick \/ EvaluatePass \/ EvaluateFail
  BY <1>4 DEF SignalReceived, SecondSignal, Tick, EvaluatePass, EvaluateFail, NextWindow, Goto
<1>5. CASE TerminateOnFlip \/ TerminateOnSecondSignal \/ Forward \/ Terminating
  BY <1>5 DEF TerminateOnFlip, TerminateOnSecondSignal, Forward, Terminating, Goto
<1>6. ASSUME NEW kind \in Delivered, SignalArrives(kind) \/ DiesOfSignal(kind) PROVE SiteInv'
  BY <1>6, ConfigAssumption DEF SignalArrives, DiesOfSignal, SignalInv, Ended, TypeOK, RunTypeOK, runVars
<1>7. CASE NetworkChanges \/ GroupMoves \/ ClockTick \/ UNCHANGED vars
  BY <1>7 DEF NetworkChanges, GroupMoves, ClockTick, vars, runVars
<1> QED
  BY <1>1, <1>2, <1>3, <1>4, <1>5, <1>6, <1>7 DEF Next, RunStep, World

\* The code is set on the way out, and the child's state is final by then.
LEMMA ExitCodeStep ==
  IInv /\ [Next]_vars => ExitCodeFaithful'
<1> SUFFICES ASSUME IInv, [Next]_vars, pc' = "done" PROVE ExitCodeFaithful'
  BY DEF ExitCodeFaithful
<1> USE DEF IInv, ExitCodeFaithful, NoCode
<1>1. CASE BootFail \/ SpawnFail \/ PreflightSignal \/ PreflightFail
  BY <1>1, ConfigAssumption DEF BootFail, SpawnFail, PreflightSignal, PreflightFail, Return, Goto, groupVars,
     ChildInv, SiteInv, Gating
<1>2. CASE ChildExited
  <2>1. status \in {"ok", "fail"} /\ site = "none" /\ UNCHANGED <<status, site>>
    BY <1>2 DEF ChildExited, Wait, Waitable, GroupInv, SiteInv, TypeOK, GroupTypeOK, Statuses
  <2> QED
    BY <1>2, <2>1 DEF ChildExited, MappedCode
<1>3. CASE Drain
  BY <1>3 DEF Drain, Return, Goto, Wait, GroupInv, SiteInv, ChildInv
<1>4. CASE pc = "done"
  <2>1. UNCHANGED <<code, site>> /\ child \in {"none", "reaped"}
    BY <1>4 DEF ChildInv, Next, RunStep, World, Boot, BootFail, PreflightSignal, PreflightPass, PreflightFail,
       SpawnFail, SpawnChild, ChildExited, SignalReceived, Tick, EvaluatePass, EvaluateFail,
       TerminateOnFlip, Forward, SecondSignal, TerminateOnSecondSignal, Terminating, Drain,
       Return, Goto, SignalArrives, DiesOfSignal, Ended, NetworkChanges, GroupMoves, ClockTick, vars, runVars
  <2>2. UNCHANGED <<child, status>>
    <3>1. ASSUME NEW p \in Procs, Exit(p) PROVE UNCHANGED <<child, status>>
      BY <2>1, <3>1 DEF Exit, GroupInv
    <3> QED
      BY <1>4, <3>1 DEF Next, RunStep, World, Boot, BootFail, PreflightSignal, PreflightPass, PreflightFail,
       SpawnFail, SpawnChild, ChildExited, SignalReceived, Tick, EvaluatePass, EvaluateFail,
       TerminateOnFlip, Forward, SecondSignal, TerminateOnSecondSignal, Terminating, Drain,
       Return, Goto, SignalArrives, DiesOfSignal, Ended, NetworkChanges, GroupMoves, Fork, ClockTick, vars, groupVars
  <2> QED BY <1>4, <2>1, <2>2
<1>5. \/ BootFail \/ SpawnFail \/ PreflightSignal \/ PreflightFail \/ ChildExited \/ Drain
      \/ pc = "done"
  BY DEF Next, RunStep, World, Boot, PreflightPass, SpawnChild, SignalReceived, Tick,
     EvaluatePass, EvaluateFail, NextWindow, TerminateOnFlip, Forward, SecondSignal,
     TerminateOnSecondSignal, Terminating, Goto, SignalArrives, DiesOfSignal,
     NetworkChanges, GroupMoves, ClockTick, vars, runVars
<1> QED BY <1>1, <1>2, <1>3, <1>4, <1>5

\* fail_started_at and the last evaluation that passed grow old together; only
\* an evaluation that passes makes the latter young again, and clears the former.
LEMMA DebounceInvStep == TypeOK /\ SiteInv /\ DebounceInv /\ [Next]_vars => DebounceInv'
<1> SUFFICES ASSUME TypeOK, SiteInv, DebounceInv, [Next]_vars PROVE DebounceInv'
  OBVIOUS
<1> USE ConfigAssumption, Bounds DEF DebounceInv, TypeOK, RunTypeOK, Gating, NotFailing
<1>1. CASE Boot \/ BootFail \/ PreflightSignal \/ PreflightFail \/ SpawnFail
  BY <1>1 DEF Boot, BootFail, PreflightSignal, PreflightFail, SpawnFail, Return, Goto, history
<1>2. CASE PreflightPass
  BY <1>2 DEF PreflightPass, Goto, SiteInv
<1>3. CASE SpawnChild
  BY <1>3 DEF SpawnChild, history
<1>4. CASE ChildExited \/ Drain \/ SignalReceived \/ SecondSignal \/ Forward
  BY <1>4 DEF ChildExited, Drain, SignalReceived, SecondSignal, Forward, Return, Goto, history
<1>5. CASE Tick
  BY <1>5 DEF Tick, Goto, history
<1>6. CASE EvaluatePass
  BY <1>6 DEF EvaluatePass, NextWindow, SiteInv
<1>7. CASE EvaluateFail
  BY <1>7 DEF EvaluateFail, NextWindow, FailStarted, PassCap, history
<1>8. CASE TerminateOnFlip \/ TerminateOnSecondSignal \/ Terminating
  BY <1>8 DEF TerminateOnFlip, TerminateOnSecondSignal, Terminating, Goto, history
<1>9. ASSUME NEW kind \in Delivered, SignalArrives(kind) \/ DiesOfSignal(kind) PROVE DebounceInv'
  BY <1>9 DEF SignalArrives, DiesOfSignal, runVars, history
<1>10. CASE ClockTick
  BY <1>10 DEF ClockTick, UpTo, PassCap
<1>11. CASE NetworkChanges \/ GroupMoves \/ UNCHANGED vars
  BY <1>11 DEF NetworkChanges, GroupMoves, vars, runVars, history
<1> QED
  BY <1>1, <1>2, <1>3, <1>4, <1>5, <1>6, <1>7, <1>8, <1>9, <1>10, <1>11 DEF Next, RunStep, World

-----------------------------------------------------------------------------
(* The theorems.                                                           *)

LEMMA InitInv == Init => IInv
<1> SUFFICES ASSUME Init PROVE IInv
  OBVIOUS
<1> USE DEF Init
<1>1. GroupTypeOK /\ GroupInv /\ GraceInv
  BY GroupInitInv
<1>2. SignalsTypeOK /\ RunTypeOK
  BY ConfigAssumption, Bounds DEF SignalsInit, SignalsTypeOK, RunTypeOK, NoSig, NotFailing, NoCode
<1>3. ChildInv /\ SignalInv /\ SiteInv /\ DebounceInv /\ ExitCodeFaithful
  BY DEF GroupInit, ChildInv, SignalInv, SiteInv, DebounceInv, ExitCodeFaithful, Gating, Watching, Running
<1> QED BY <1>1, <1>2, <1>3 DEF IInv, TypeOK

LEMMA InvStep == IInv /\ [Next]_vars => IInv'
<1> SUFFICES ASSUME IInv, [Next]_vars PROVE IInv'
  OBVIOUS
<1>1. (GroupInv /\ GraceInv)'
  <2>1. UNCHANGED groupVars => (GroupInv /\ GraceInv)'
    BY DEF IInv, GroupInv, GraceInv, groupVars
  <2> QED
    BY <2>1, StepOfGroup, GroupInvStep, GraceInvStep DEF IInv, TypeOK
<1> QED
  BY <1>1, TypeStep, ChildInvStep, SignalInvStep, SiteInvStep, DebounceInvStep, ExitCodeStep DEF IInv

\* The invariant the other theorems rest on: where run is determines what
\* there is of the child, of terminate, of the handlers and of the exit code.
THEOREM Invariant == Spec => []IInv
  BY InitInv, InvStep, PTL DEF Spec

\* The variables of run keep their types for all durations and flags.
THEOREM TypeCorrect == Spec => []TypeOK
<1>1. IInv => TypeOK
  BY DEF IInv
<1> QED BY <1>1, Invariant, PTL

\* However exits, signals, ticks and kills interleave, condrun is gone only
\* when its child is reaped or was never spawned.
THEOREM NoOrphan == Spec => []NeverOrphans
<1>1. IInv => NeverOrphans
  BY DEF IInv, ChildInv, NeverOrphans, Ended
<1> QED BY <1>1, Invariant, PTL

\* The exit code tells the truth about the run.
THEOREM ExitCodes == Spec => []ExitCodeFaithful
<1>1. IInv => ExitCodeFaithful
  BY DEF IInv
<1> QED BY <1>1, Invariant, PTL

\* When run has sent SIGKILL, on whichever of its paths, nobody in the group is
\* without one, until condrun is gone and after it.
THEOREM KillReachesAll == Spec => []NobodyEscapes
<1>1. Init => NobodyEscapes
  BY DEF Init, GroupInit, NobodyEscapes
<1>2. IInv /\ NobodyEscapes /\ [Next]_vars => NobodyEscapes'
  <2>1. UNCHANGED groupVars /\ NobodyEscapes => NobodyEscapes'
    BY DEF groupVars, NobodyEscapes
  <2>2. IInv => GroupTypeOK /\ SignalInv /\ (op = "grace" => child # "none")
    BY DEF IInv, TypeOK, ChildInv
  <2> QED BY <2>1, <2>2, StepOfGroup, NobodyEscapesStep
<1> QED BY <1>1, <1>2, Invariant, PTL DEF Spec

\* The watcher kills only after a poll interval and the whole debounce window
\* without an evaluation that passed, however late the scheduler runs it.
THEOREM Debounced == Spec => []DebounceHonoured
<1>1. IInv => DebounceHonoured
  BY DEF IInv, DebounceInv, SiteInv, DebounceHonoured, Watching
<1> QED BY <1>1, Invariant, PTL

\* No path of run signals a group whose leader it has reaped.
THEOREM OwnGroupOnly == Spec => NoStraySignal
<1>1. IInv /\ [Next]_vars => [SentToOwnGroup]_vars
  <2> SUFFICES ASSUME IInv, Next, sent' # sent PROVE child \in {"live", "zombie"}
    BY DEF SentToOwnGroup
  <2>1. \/ TerminateOnFlip \/ Forward \/ TerminateOnSecondSignal \/ Terminating
    BY DEF Next, RunStep, World, Boot, BootFail, PreflightSignal, PreflightPass, PreflightFail,
       SpawnFail, SpawnChild, Spawn, ChildExited, Wait, SignalReceived, Tick, EvaluatePass, EvaluateFail,
       SecondSignal, Drain, SignalArrives, DiesOfSignal, NetworkChanges, GroupMoves, Fork, Exit,
       ClockTick, Elapse, groupVars
  <2> QED
    BY <2>1 DEF TerminateOnFlip, Forward, TerminateOnSecondSignal, Terminating, Goto, IInv, ChildInv,
       Running, Watching
<1> QED BY <1>1, Invariant, PTL DEF Spec, NoStraySignal

-----------------------------------------------------------------------------
(* How late the watcher kills.                                             *)

\* The times at which poll intervals end, counted from a poll.
Windows == {k * Poll : k \in Nat}

\* Since the failure that was seen first there have been whole poll intervals,
\* m units of time, that ended within the debounce window, and the one at hand.
SeenFor(m) ==
  /\ m < Debounce
  /\ failFor + tickLeft <= Poll + m + Poll
  /\ failAge + tickLeft >= m + Poll \/ failAge = Debounce

PromptInv ==
  /\ pc \in Gating \/ verdict => failFor = 0
  /\ pc = "evaluate" => tickLeft = 0
  /\ pc \in {"watch", "evaluate"} =>
       IF failAge = NotFailing THEN failFor + tickLeft <= Poll ELSE \E m \in Windows : SeenFor(m)
  /\ PromptKill

\* The interval after one that ends within the debounce window is the last that
\* PromptBound counts.
LEMMA LastWindow == \A m \in Windows : m \in Nat /\ (m < Debounce => Poll + m + Poll <= PromptBound)
<1> SUFFICES ASSUME NEW k \in Nat
             PROVE  k * Poll \in Nat /\ (k * Poll < Debounce => Poll + k * Poll + Poll <= PromptBound)
  BY DEF Windows
<1> USE ConfigAssumption
<1>0. k * Poll \in Nat
  OBVIOUS
<1>1. CASE Poll = 0
  BY <1>1 DEF PromptBound, TicksToKill
<1>2. CASE Poll # 0
  <2> DEFINE n == TicksToKill
  <2>0. SUFFICES ASSUME k * Poll < Debounce PROVE k * Poll + Poll <= n * Poll
    <3>1. n \in Nat
      BY DEF TicksToKill
    <3>2. n * Poll \in Nat /\ PromptBound = Poll + n * Poll
      BY <3>1 DEF PromptBound
    <3> HIDE DEF n
    <3> QED BY <1>0, <2>0, <3>2
  <2>1. n \in Nat /\ n * Poll >= Debounce
    <3>1. n = (Debounce + Poll - 1) \div Poll /\ Poll \in Nat \ {0} /\ Debounce + Poll - 1 \in Nat
      BY <1>2 DEF TicksToKill
    <3>2. n \in Nat /\ Debounce + Poll - 1 < (n + 1) * Poll
      BY <3>1
    <3>3. (n + 1) * Poll = n * Poll + Poll /\ n * Poll \in Nat
      BY <3>2
    <3> QED BY <3>2, <3>3
  <2> HIDE DEF n
  <2>2. ~(n <= k)
    <3> SUFFICES ASSUME n <= k PROVE n * Poll <= k * Poll
      BY <2>0, <2>1, <1>0
    <3>1. PICK d \in Nat : k = n + d
      BY <2>1
    <3>2. k * Poll = n * Poll + d * Poll /\ d * Poll \in Nat /\ n * Poll \in Nat
      BY <2>1, <3>1
    <3> QED BY <3>2
  <2>3. PICK d \in Nat : n = k + 1 + d
    <3>1. n - (k + 1) \in Nat /\ n = k + 1 + (n - (k + 1))
      BY <2>1, <2>2
    <3> QED BY <3>1
  <2>4. n * Poll = k * Poll + Poll + d * Poll /\ d * Poll \in Nat
    BY <2>3
  <2> QED BY <1>0, <2>4
<1> QED BY <1>0, <1>1, <1>2

LEMMA NextOfWindows == /\ 0 \in Windows
                       /\ \A m \in Windows : m + Poll \in Windows
<1>1. 0 = 0 * Poll /\ \A k \in Nat : k * Poll + Poll = (k + 1) * Poll /\ k + 1 \in Nat
  BY ConfigAssumption
<1> QED BY <1>1 DEF Windows

LEMMA PromptInit == Init => PromptInv
  BY DEF Init, PromptInv, PromptKill, Gating

\* A poll that sees the failure opens the next interval or kills.
LEMMA PromptEvaluateFail ==
  TypeOK /\ PromptInv /\ EvaluateFail => PromptInv'
<1> SUFFICES ASSUME TypeOK, PromptInv, EvaluateFail PROVE PromptInv'
  OBVIOUS
<1> USE ConfigAssumption, Bounds DEF TypeOK, RunTypeOK, NotFailing
<1>1. /\ pc = "evaluate" /\ ~verdict /\ tickLeft = 0
      /\ UNCHANGED <<verdict, failFor>> /\ failAge' = FailStarted
      /\ failFor \in Nat /\ failAge' \in Nat
  BY DEF EvaluateFail, PromptInv, FailStarted, history
<1>2. CASE failAge' >= Debounce
  <2>1. pc' = "flip" /\ tickLeft' = tickLeft
    BY <1>2 DEF EvaluateFail
  <2>2. failFor <= PromptBound
    <3>1. CASE failAge = NotFailing
      <4>1. failFor <= Poll /\ TicksToKill * Poll \in Nat
        <5>1. TicksToKill \in Nat
          BY DEF TicksToKill
        <5> QED BY <1>1, <3>1, <5>1 DEF PromptInv
      <4> QED BY <4>1 DEF PromptBound
    <3>2. CASE failAge # NotFailing
      BY <1>1, <3>2, LastWindow DEF PromptInv, SeenFor
    <3> QED BY <3>1, <3>2
  <2> QED BY <1>1, <2>1, <2>2 DEF PromptInv, PromptKill, Gating
<1>3. CASE ~(failAge' >= Debounce)
  <2>1. pc' = "watch" /\ tickLeft' = Poll /\ failAge' # NotFailing
    BY <1>1, <1>3 DEF EvaluateFail, NextWindow
  <2>2. \E m \in Windows : SeenFor(m)'
    <3>1. CASE failAge = NotFailing
      <4>1. failAge' = 0 /\ failFor <= Poll /\ 0 < Debounce
        BY <1>1, <1>3, <3>1 DEF PromptInv, FailStarted
      <4>2. SeenFor(0)'
        BY <1>1, <2>1, <4>1 DEF SeenFor
      <4> QED BY <4>2, NextOfWindows
    <3>2. CASE failAge # NotFailing
      <4>1. PICK m \in Windows : SeenFor(m)
        BY <1>1, <3>2 DEF PromptInv
      <4>2. failAge' = failAge /\ m \in Nat
        BY <1>1, <3>2, LastWindow DEF FailStarted
      <4>3. SeenFor(m + Poll)'
        BY <1>1, <1>3, <2>1, <4>1, <4>2 DEF SeenFor
      <4> QED BY <4>3, NextOfWindows
    <3> QED BY <3>1, <3>2
  <2>3. failFor' <= PromptBound
    BY <1>1, <2>1, <2>2, LastWindow DEF SeenFor
  <2> QED BY <1>1, <2>1, <2>2, <2>3 DEF PromptInv, PromptKill, Gating
<1> QED BY <1>2, <1>3

\* Time that passes while run has nothing to do passes in the poll interval.
LEMMA PromptClockTick ==
  TypeOK /\ PromptInv /\ ClockTick => PromptInv'
<1> SUFFICES ASSUME TypeOK, PromptInv, ClockTick PROVE PromptInv'
  OBVIOUS
<1>0. Poll \in Nat /\ Debounce \in Nat /\ PromptBound \in Nat /\ Poll <= PromptBound
  <2>1. TicksToKill \in Nat
    BY ConfigAssumption DEF TicksToKill
  <2>2. TicksToKill * Poll \in Nat
    BY <2>1, ConfigAssumption
  <2> QED BY <2>2, ConfigAssumption DEF PromptBound
<1>t. tickLeft \in Nat /\ tickLeft <= Poll /\ failAge \in Int /\ failFor \in Nat
  BY <1>0 DEF TypeOK, RunTypeOK, NotFailing
<1>1. /\ UNCHANGED <<pc, verdict>> /\ failFor' \in Nat
      /\ verdict => failFor' = 0
      /\ failFor' = failFor \/ failFor' = 0 \/ (failFor' <= failFor + 1 /\ ~Runnable)
  BY <1>t, Bounds DEF ClockTick, UpTo
<1>2. pc \in Gating \cup {"evaluate", "flip"} => Runnable
  BY DEF Runnable, Gating
\* The values after the step.
<1>a. PICK left \in Nat : left = tickLeft'
  BY <1>t DEF ClockTick
<1>b. PICK for \in Nat : for = failFor'
  BY <1>1
<1>c. PICK age \in Int : age = failAge'
  BY <1>0, <1>t DEF ClockTick, UpTo, NotFailing
<1>3. /\ left <= tickLeft /\ tickLeft <= left + 1
      /\ tickLeft = 0 => left = 0
      /\ pc = "watch" /\ ~Runnable => tickLeft = left + 1
  BY <1>t, <1>a DEF Runnable, ClockTick
<1>4. pc \in {"watch", "evaluate"} => for + left <= failFor + tickLeft
  <2>1. for = failFor \/ for = 0 \/ (for <= failFor + 1 /\ ~Runnable)
    BY <1>1, <1>b
  <2> QED BY <1>t, <1>2, <1>3, <2>1
<1>6. CASE pc \in {"watch", "evaluate"} /\ failAge = NotFailing
  <2>1. failAge' = NotFailing /\ failFor + tickLeft <= Poll
    BY <1>6 DEF ClockTick, PromptInv
  <2>2. for + left <= Poll
    BY <1>0, <1>t, <1>4, <1>6, <2>1
  <2>3. for <= PromptBound
    BY <1>0, <2>2
  <2> QED BY <1>1, <1>2, <1>3, <1>6, <1>a, <1>b, <2>1, <2>2, <2>3 DEF PromptInv, PromptKill, Gating
<1>7. CASE pc \in {"watch", "evaluate"} /\ failAge # NotFailing
  <2>1. PICK m \in Windows : SeenFor(m)
    BY <1>7 DEF PromptInv
  <2>2. m \in Nat /\ m < Debounce /\ Poll + m + Poll <= PromptBound
    BY <2>1, LastWindow DEF SeenFor
  <2>3. age # NotFailing /\ (age = failAge + 1 \/ age = Debounce)
        /\ (failAge = Debounce => age = Debounce)
    BY <1>0, <1>t, <1>7, <1>c DEF ClockTick, UpTo, NotFailing, TypeOK, RunTypeOK
  <2>4. for + left <= Poll + m + Poll
    BY <1>0, <1>t, <1>4, <1>7, <2>1, <2>2 DEF SeenFor
  <2>5. age + left >= m + Poll \/ age = Debounce
    BY <1>0, <1>t, <1>3, <2>1, <2>2, <2>3 DEF SeenFor
  <2>6. SeenFor(m)'
    BY <1>a, <1>b, <1>c, <2>2, <2>4, <2>5 DEF SeenFor
  <2>7. for <= PromptBound
    BY <1>0, <2>2, <2>4
  <2> QED BY <1>1, <1>2, <1>3, <1>7, <1>a, <1>b, <1>c, <2>3, <2>6, <2>7 DEF PromptInv, PromptKill, Gating
<1>8. CASE pc \notin {"watch", "evaluate"}
  <2>1. pc \in Gating \cup {"flip"} => for = failFor \/ for = 0
    BY <1>1, <1>2, <1>b
  <2>2. 0 <= PromptBound
    BY <1>0
  <2> QED BY <1>1, <1>8, <1>b, <2>1, <2>2 DEF PromptInv, PromptKill, Gating
<1> QED BY <1>6, <1>7, <1>8

LEMMA PromptInvStep == IInv /\ PromptInv /\ [Next]_vars => PromptInv'
<1> SUFFICES ASSUME IInv, PromptInv, [Next]_vars PROVE PromptInv'
  OBVIOUS
<1>t. TypeOK /\ TypeOK'
  BY InvStep DEF IInv
<1>1. CASE EvaluateFail
  BY <1>1, <1>t, PromptEvaluateFail
<1>2. CASE ClockTick
  BY <1>2, <1>t, PromptClockTick
<1> USE DEF PromptInv, PromptKill, SeenFor, Gating
<1>3. CASE /\ UNCHANGED <<failFor, verdict>>
           /\ pc' \in Gating => pc \in Gating
           /\ pc' \notin {"watch", "evaluate", "flip"}
  BY <1>3
<1>4. CASE UNCHANGED <<failFor, verdict, pc, tickLeft, failAge>>
  BY <1>4
<1>5. CASE SpawnChild
  <2>1. /\ failFor' = 0 /\ failAge' = NotFailing /\ verdict' = verdict
        /\ pc' \in {"watch", "wait"} /\ (pc' = "watch" => tickLeft' = Poll)
    BY <1>5 DEF SpawnChild, IInv, DebounceInv, history
  <2>2. Poll \in Nat /\ PromptBound \in Nat
    BY ConfigAssumption, Bounds
  <2> QED BY <2>1, <2>2
<1>6. CASE Boot \/ BootFail \/ PreflightSignal \/ PreflightPass \/ PreflightFail \/ SpawnFail
  BY <1>3, <1>6 DEF Boot, BootFail, PreflightSignal, PreflightPass, PreflightFail, SpawnFail, Return, Goto, history
<1>7. CASE ChildExited \/ SignalReceived \/ Forward \/ SecondSignal \/ Drain
  BY <1>3, <1>7 DEF ChildExited, SignalReceived, Forward, SecondSignal, Drain, Return, Goto, history
<1>8. CASE TerminateOnFlip \/ TerminateOnSecondSignal \/ Terminating
  BY <1>3, <1>8 DEF TerminateOnFlip, TerminateOnSecondSignal, Terminating, Goto, history
<1>9. CASE Tick
  BY <1>9 DEF Tick, Goto, history
<1>10. CASE EvaluatePass
  <2>1. failFor' = 0 /\ failAge' = NotFailing /\ pc' = "watch" /\ tickLeft' = Poll
    BY <1>10 DEF EvaluatePass, NextWindow
  <2> QED BY <2>1, ConfigAssumption, Bounds DEF TypeOK, RunTypeOK
<1>11. CASE NetworkChanges
  <2>1. failFor' = 0 /\ UNCHANGED <<pc, tickLeft, failAge>>
    BY <1>11 DEF NetworkChanges, runVars
  <2>2. tickLeft \in 0..Poll /\ PromptBound \in Nat /\ Poll \in Nat
    BY <1>t, Bounds, ConfigAssumption DEF TypeOK, RunTypeOK
  <2>3. \A m \in Windows : SeenFor(m) => SeenFor(m)'
    BY <2>1, <2>2, LastWindow
  <2> QED BY <2>1, <2>2, <2>3
<1>12. ASSUME NEW kind \in Delivered, SignalArrives(kind) \/ DiesOfSignal(kind) PROVE PromptInv'
  BY <1>3, <1>4, <1>12 DEF SignalArrives, DiesOfSignal, runVars, history
<1>13. CASE GroupMoves \/ UNCHANGED vars
  BY <1>4, <1>13 DEF GroupMoves, vars, runVars, history
<1> QED
  BY <1>1, <1>2, <1>5, <1>6, <1>7, <1>8, <1>9, <1>10, <1>11, <1>12, <1>13 DEF Next, RunStep, World

\* For all durations, also polls that do not divide the debounce window: a
\* network that stays failed is not watched for longer than PromptBound.
THEOREM KilledPromptly == Spec => []PromptKill
<1>1. PromptInv => PromptKill
  BY DEF PromptInv
<1> QED BY <1>1, PromptInit, PromptInvStep, Invariant, PTL DEF Spec

-----------------------------------------------------------------------------
(* Supervisor implements Lifecycle.                                        *)

\* Each step of Supervisor is, seen through Phase, one step of the promise, or
\* leaves what the promise speaks of as it was.
LEMMA RefinementStep ==
  IInv /\ [Next]_vars => [Promise!LifecycleNext]_(Promise!lifecycleVars)
<1> SUFFICES ASSUME IInv, [Next]_vars
             PROVE  Promise!LifecycleNext \/ UNCHANGED <<Phase, child, status, code>>
  BY DEF Promise!lifecycleVars
<1> USE DEF Phase, Ended
<1>1. CASE Boot \/ PreflightPass
  BY <1>1 DEF Boot, PreflightPass, Goto, groupVars
<1>2. CASE BootFail \/ PreflightSignal \/ PreflightFail \/ SpawnFail
  <2>1. Phase = "gating" /\ Phase' = "ended" /\ UNCHANGED <<child, status>>
    BY <1>2 DEF BootFail, PreflightSignal, PreflightFail, SpawnFail, Return, Goto, groupVars
  <2>2. code' \in {0, 4} \cup (IF Strict THEN {1} ELSE {})
    BY <1>2 DEF BootFail, PreflightSignal, PreflightFail, SpawnFail, Return
  <2> QED BY <2>1, <2>2 DEF Promise!LifecycleNext, Promise!Refuse
<1>3. CASE SpawnChild
  BY <1>3 DEF SpawnChild, Spawn, Promise!LifecycleNext, Promise!Launch
<1>4. CASE ChildExited
  <2>1. child = "zombie" /\ Phase = "running" /\ Phase' = "ended"
    BY <1>4 DEF ChildExited, Wait, Waitable, IInv, ChildInv, Running, Watching
  <2> QED
    BY <1>4, <2>1 DEF ChildExited, Wait, MappedCode, Promise!LifecycleNext, Promise!Report
<1>5. CASE SignalReceived \/ SecondSignal \/ Tick \/ EvaluatePass \/ EvaluateFail \/ Forward
  BY <1>5 DEF SignalReceived, SecondSignal, Tick, EvaluatePass, EvaluateFail, NextWindow, Forward,
     Signal, Goto, groupVars
<1>6. CASE TerminateOnFlip \/ TerminateOnSecondSignal
  BY <1>6 DEF TerminateOnFlip, TerminateOnSecondSignal, Terminate, Goto,
     Promise!LifecycleNext, Promise!Stop
<1>7. CASE Terminating
  <2>1. child \in {"live", "zombie"} /\ Phase = "stopping" /\ Phase' = "stopping"
    BY <1>7 DEF Terminating, IInv, ChildInv
  <2>2. CASE TerminateKill
    BY <1>7, <2>1, <2>2 DEF Terminating, TerminateKill
  <2>3. CASE TerminateExited \/ TerminateReaped
    BY <1>7, <2>1, <2>3 DEF Terminating, TerminateExited, TerminateReaped, Waitable,
       Promise!LifecycleNext, Promise!Collect
  <2> QED BY <1>7, <2>2, <2>3 DEF Terminating, TerminateStep
<1>8. CASE Drain
  BY <1>8 DEF Drain, Return, Goto, Wait, IInv, ChildInv, Promise!LifecycleNext, Promise!ReportKilled
<1>9. ASSUME NEW kind \in Delivered, SignalArrives(kind) \/ DiesOfSignal(kind)
      PROVE  Promise!LifecycleNext \/ UNCHANGED <<Phase, child, status, code>>
  <2>1. CASE SignalArrives(kind)
    BY <2>1 DEF SignalArrives, runVars, groupVars
  <2>2. CASE DiesOfSignal(kind)
    <3>1. pc = "boot"
      BY <2>2, ConfigAssumption DEF DiesOfSignal, IInv, SignalInv
    <3> QED BY <2>2, <3>1 DEF DiesOfSignal, groupVars, Promise!LifecycleNext, Promise!Die
  <2> QED BY <1>9, <2>1, <2>2
<1>10. CASE GroupMoves
  <2>1. UNCHANGED <<Phase, code>>
    BY <1>10 DEF GroupMoves, runVars
  <2>2. ASSUME NEW p \in Procs, Exit(p)
        PROVE  \/ UNCHANGED <<child, status>>
               \/ child = "live" /\ child' = "zombie" /\ status' \in {"ok", "fail"}
    BY <2>2 DEF Exit, Statuses, IInv, GroupInv
  <2>3. ASSUME NEW w \in Workers, Fork(w) PROVE UNCHANGED <<child, status>>
    BY <2>3 DEF Fork
  <2> QED
    BY <1>10, <2>1, <2>2, <2>3 DEF GroupMoves, Promise!LifecycleNext, Promise!CommandExits
<1>11. CASE NetworkChanges \/ ClockTick \/ UNCHANGED vars
  BY <1>11 DEF NetworkChanges, ClockTick, Elapse, vars, runVars, groupVars
<1> QED
  BY <1>1, <1>2, <1>3, <1>4, <1>5, <1>6, <1>7, <1>8, <1>9, <1>10, <1>11 DEF Next, RunStep, World

\* Supervisor::run, with its clock, signals and process group, does for its
\* caller what Lifecycle says: one command, one launch, one true exit code.
THEOREM Refinement == Spec => ImplementsLifecycle
<1>1. Init => Promise!LifecycleInit
  BY DEF Init, GroupInit, Phase, Ended, NoCode, Promise!LifecycleInit, Promise!NoResult
<1> QED
  BY <1>1, RefinementStep, Invariant, PTL DEF Spec, ImplementsLifecycle, Promise!LifecycleSpec
=============================================================================
