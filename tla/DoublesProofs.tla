--------------------------- MODULE DoublesProofs ---------------------------
(***************************************************************************)
(* For all scripts, any grace period and any number of handles and         *)
(* signals: what the double of a child does is one of the things the       *)
(* promise of ChildHandle allows; and for any number of injected signals,  *)
(* the double of the signals loses no wakeup.                              *)
(***************************************************************************)
EXTENDS Doubles, TLAPS

\* Nothing has happened to a child that was not spawned.
UnspawnedInv ==
  script = NoScript =>
    call = "idle" /\ ~exited /\ ~killed /\ ~told /\ sent = <<>> /\ termAge = -1

\* Where the pending call is tells whether the child has exited, and whether
\* the client knows.
CallInv ==
  /\ told => exited
  /\ call # "idle" => ~told
  /\ call \in {"waiting", "terminating", "killing"} => ~exited
  /\ call \in {"returning", "terminated"} => exited
  /\ call = "idle" => (exited <=> told)
  /\ call = "killing" => killed
  /\ call \in {"waiting", "returning", "terminating"} => ~killed
  /\ call = "idle" /\ ~told => ~killed

\* The sleep of terminate measures the time since its SIGTERM.
SleepInv ==
  /\ call \in {"terminating", "killing", "terminated"} => termAge \in 0..Grace
  /\ call = "terminating" => termAge >= TerminateSleep - timer

IInv == ChildTypeOK /\ UnspawnedInv /\ CallInv /\ SleepInv

\* The handles have scripts, which are never NoScript.
LEMMA ScriptFacts ==
  /\ NoScript \notin Scripts /\ DefaultScript # NoScript
  /\ \A s \in Scripts \cup {DefaultScript} :
       s.exit_code \in {"ok", "fail"} /\ s.exit_delay \in Nat /\ s.terminate_delay \in Nat
  BY FakeAssumption DEF NoScript, DefaultScript

LEMMA InitInv == ChildInit => IInv
<1> SUFFICES ASSUME ChildInit PROVE IInv
  OBVIOUS
<1>1. ChildTypeOK
  <2>1. handles \in Seq(Scripts) /\ sent \in Seq({"SIGINT", "SIGTERM", "SIGQUIT", "SIGHUP", "SIGKILL"})
    BY DEF ChildInit
  <2>2. termAge \in -1..Grace
    BY FakeAssumption DEF ChildInit
  <2> QED BY <2>1, <2>2 DEF ChildInit, ChildTypeOK
<1>2. UnspawnedInv /\ CallInv /\ SleepInv
  BY DEF ChildInit, UnspawnedInv, CallInv, SleepInv
<1> QED BY <1>1, <1>2 DEF IInv

\* Types are kept.
LEMMA TypeStep == IInv /\ [ChildNext]_childVars => ChildTypeOK'
<1> SUFFICES ASSUME IInv, [ChildNext]_childVars PROVE ChildTypeOK'
  OBVIOUS
<1> USE DEF IInv, ChildTypeOK, childState
<1>1. CASE \E s \in Scripts : EnqueueHandle(s)
  BY <1>1 DEF EnqueueHandle
<1>2. CASE FakeSpawn
  <2>1. handles' \in Seq(Scripts) /\ script' \in Scripts \cup {DefaultScript}
    BY <1>2 DEF FakeSpawn
  <2> QED BY <1>2, <2>1 DEF FakeSpawn
<1>3. CASE CallWait \/ DropWait \/ WaitElapses \/ WaitReturns
  <2>1. timer' \in Nat
    BY <1>3, ScriptFacts DEF CallWait, DropWait, WaitElapses, WaitReturns, Running
  <2> QED BY <1>3, <2>1 DEF CallWait, DropWait, WaitElapses, WaitReturns
<1>4. CASE CallTerminate
  <2>1. TerminateSleep \in Nat
    BY <1>4, FakeAssumption, ScriptFacts DEF CallTerminate, MaySend, Running, TerminateSleep, Graceful
  <2>2. sent' \in Seq({"SIGINT", "SIGTERM", "SIGQUIT", "SIGHUP", "SIGKILL"}) /\ termAge' \in -1..Grace
    BY <1>4, FakeAssumption DEF CallTerminate
  <2> QED BY <1>4, <2>1, <2>2 DEF CallTerminate
<1>5. CASE TerminateRuns
  <2>1. sent' \in Seq({"SIGINT", "SIGTERM", "SIGQUIT", "SIGHUP", "SIGKILL"})
    BY <1>5 DEF TerminateRuns, TerminateElapses, KilledExits, TerminateReturns
  <2> QED BY <1>5, <2>1 DEF TerminateRuns, TerminateElapses, KilledExits, TerminateReturns
<1>6. CASE \E kind \in DOMAIN SignalName : CallSignal(kind)
  <2> PICK kind \in DOMAIN SignalName : CallSignal(kind)
    BY <1>6
  <2>1. sent' \in Seq({"SIGINT", "SIGTERM", "SIGQUIT", "SIGHUP", "SIGKILL"})
    BY DEF CallSignal, SignalName
  <2> QED BY <2>1 DEF CallSignal
<1>7. CASE Advance
  <2>1. timer' \in Nat /\ termAge' \in -1..Grace
    BY <1>7, FakeAssumption DEF Advance
  <2> QED BY <1>7, <2>1 DEF Advance
<1>8. CASE UNCHANGED childVars
  BY <1>8 DEF childVars
<1> QED
  BY <1>1, <1>2, <1>3, <1>4, <1>5, <1>6, <1>7, <1>8 DEF ChildNext

LEMMA InvStep == IInv /\ [ChildNext]_childVars => IInv'
<1> SUFFICES ASSUME IInv, [ChildNext]_childVars PROVE UnspawnedInv' /\ CallInv' /\ SleepInv'
  BY TypeStep DEF IInv
<1> USE DEF IInv, UnspawnedInv, CallInv, SleepInv, childState, TerminateSleep, Graceful
<1>1. CASE \E s \in Scripts : EnqueueHandle(s)
  BY <1>1 DEF EnqueueHandle
<1>2. CASE FakeSpawn
  <2>1. script' # NoScript
    BY <1>2, ScriptFacts DEF FakeSpawn, ChildTypeOK
  <2> QED BY <1>2, <2>1 DEF FakeSpawn
<1>3. CASE CallWait \/ DropWait
  BY <1>3 DEF CallWait, DropWait, Running
<1>4. CASE WaitElapses \/ WaitReturns
  BY <1>4 DEF WaitElapses, WaitReturns
<1>5. CASE CallTerminate
  <2>1. script # NoScript /\ timer' = TerminateSleep /\ termAge' = 0 /\ TerminateSleep \in Nat /\ Grace \in Nat
    BY <1>5, FakeAssumption, ScriptFacts DEF CallTerminate, MaySend, Running, ChildTypeOK
  <2>2. UnspawnedInv' /\ CallInv'
    BY <1>5, <2>1 DEF CallTerminate, MaySend, Running
  <2>3. SleepInv'
    BY <1>5, <2>1 DEF CallTerminate
  <2> QED BY <2>2, <2>3
<1>6. CASE TerminateRuns
  BY <1>6 DEF TerminateRuns, TerminateElapses, KilledExits, TerminateReturns
<1>7. CASE \E kind \in DOMAIN SignalName : CallSignal(kind)
  BY <1>7 DEF CallSignal, MaySend, Running
<1>8. CASE Advance
  <2>1. UnspawnedInv' /\ CallInv'
    BY <1>8, FakeAssumption DEF Advance
  <2>2. SleepInv'
    <3>1. CASE call \notin {"terminating", "killing", "terminated"}
      BY <1>8, <3>1 DEF Advance
    <3>2. CASE call \in {"terminating", "killing", "terminated"}
      <4>1. termAge' \in 0..Grace /\ termAge \in 0..Grace
        BY <1>8, <3>2, FakeAssumption DEF Advance
      <4>2. call = "terminating" => TerminateSleep \in 0..Grace
        BY FakeAssumption, ScriptFacts DEF ChildTypeOK
      <4>3. call = "terminating" => termAge' >= TerminateSleep - timer'
        BY <1>8, <4>1, <4>2, FakeAssumption DEF Advance, ChildTypeOK
      <4> QED BY <1>8, <4>1, <4>3 DEF Advance
    <3> QED BY <3>1, <3>2
  <2> QED BY <2>1, <2>2
<1>9. CASE UNCHANGED childVars
  BY <1>9 DEF childVars
<1> QED
  BY <1>1, <1>2, <1>3, <1>4, <1>5, <1>6, <1>7, <1>8, <1>9 DEF ChildNext

LEMMA Invariant == ChildSpec => []IInv
  BY InitInv, InvStep, PTL DEF ChildSpec

\* The double's fields never contradict each other or its pending call.
THEOREM ChildTypeCorrect == ChildSpec => []ChildTypeOK
<1>1. IInv => ChildTypeOK
  BY DEF IInv
<1> QED BY <1>1, Invariant, PTL

-----------------------------------------------------------------------------
(* The promise of ChildHandle.                                             *)

\* Where terminate is, in the double's terms.
LEMMA Ops ==
  /\ call \in {"idle", "waiting", "returning"} => Op = "idle"
  /\ call = "terminating" => Op = "grace"
  /\ call = "killing" => Op = "killing"
  /\ call = "terminated" => Op = IF killed THEN "killing" ELSE "grace"
  BY DEF Op

LEMMA InitPromised == ChildInit => Handle!GroupInit
  BY Ops DEF ChildInit, Handle!GroupInit, Handle!NotTerminated

LEMMA StepPromised == IInv /\ [ChildNext]_childVars => [Handle!Next]_(Handle!groupVars)
<1> SUFFICES ASSUME IInv, [ChildNext]_childVars PROVE [Handle!Next]_(Handle!groupVars)
  OBVIOUS
<1> USE DEF IInv, ChildTypeOK, CallInv, childState
<1>1. CASE \E s \in Scripts : EnqueueHandle(s)
  BY <1>1 DEF EnqueueHandle, Op, Handle!groupVars
<1>2. CASE FakeSpawn
  <2>1. script = NoScript /\ script' # NoScript /\ ~told' /\ ~exited' /\ Op = "idle" /\ Op' = "idle"
    BY <1>2, ScriptFacts, Ops DEF FakeSpawn, UnspawnedInv, Op
  <2>2. Handle!Spawn
    BY <1>2, <2>1 DEF FakeSpawn, UnspawnedInv, Handle!Spawn
  <2> QED BY <2>2 DEF Handle!Next, Handle!Start
<1>3. CASE CallWait \/ DropWait
  <2>1. Op = "idle" /\ Op' = "idle"
    BY <1>3 DEF CallWait, DropWait, Running, Op
  <2>2. told' = told
    BY <1>3 DEF CallWait, DropWait, Running
  <2> QED BY <1>3, <2>1, <2>2 DEF CallWait, DropWait, Handle!groupVars
<1>4. CASE WaitElapses
  <2>1. script # NoScript /\ Op = "idle" /\ Op' = "idle" /\ script.exit_code \in {"ok", "fail"}
    BY <1>4, ScriptFacts DEF WaitElapses, UnspawnedInv, Op
  <2>2. Handle!Exit(FakePid)
    BY <1>4, <2>1 DEF WaitElapses, Handle!Exit, Handle!Statuses
  <2> QED BY <2>2 DEF Handle!Next, Handle!Environment, Handle!Procs
<1>5. CASE WaitReturns
  <2>1. script # NoScript /\ Op = "idle" /\ Op' = "idle"
    BY <1>5 DEF WaitReturns, UnspawnedInv, Op
  <2>2. Handle!CallWait
    BY <1>5, <2>1 DEF WaitReturns, Handle!CallWait, Handle!Wait, Handle!Waitable
  <2> QED BY <2>2 DEF Handle!Next
<1>6. CASE CallTerminate
  <2>1. script # NoScript /\ Op = "idle" /\ Op' = "grace" /\ Grace - termAge' = Grace
    BY <1>6, FakeAssumption DEF CallTerminate, MaySend, Running, Op
  <2>2. Handle!CallTerminate
    BY <1>6, <2>1 DEF CallTerminate, MaySend, Running, Handle!CallTerminate, Handle!ClientMaySend,
       Handle!Terminate, Handle!Killpg
  <2> QED BY <2>2 DEF Handle!Next
<1>7. CASE TerminateElapses
  <2>1. script # NoScript /\ Op = "grace" /\ script.exit_code \in {"ok", "fail"}
    BY <1>7, ScriptFacts DEF TerminateElapses, UnspawnedInv, Op
  <2>2. CASE Graceful
    <3>1. Op' = "grace"
      BY <1>7, <2>2 DEF TerminateElapses, Op
    <3>2. Handle!Exit(FakePid)
      BY <1>7, <2>1, <2>2, <3>1 DEF TerminateElapses, Handle!Exit, Handle!Statuses
    <3> QED BY <3>2 DEF Handle!Next, Handle!Environment, Handle!Procs
  <2>3. CASE ~Graceful
    <3>1. Op' = "killing"
      BY <1>7, <2>3 DEF TerminateElapses, Op
    <3>2. Grace - termAge = 0
      BY <1>7, <2>3, FakeAssumption DEF TerminateElapses, SleepInv, TerminateSleep
    <3>3. Handle!TerminateKill
      BY <1>7, <2>1, <2>3, <3>1, <3>2 DEF TerminateElapses, Handle!TerminateKill, Handle!Killpg
    <3> QED BY <3>3 DEF Handle!Next, Handle!TerminateStep
  <2> QED BY <2>2, <2>3
<1>8. CASE KilledExits
  <2>1. script # NoScript /\ Op = "killing" /\ Op' = "killing"
    BY <1>8 DEF KilledExits, UnspawnedInv, Op
  <2>2. Handle!Exit(FakePid)
    BY <1>8, <2>1 DEF KilledExits, Handle!Exit
  <2> QED BY <2>2 DEF Handle!Next, Handle!Environment, Handle!Procs
<1>9. CASE TerminateReturns
  <2>1. script # NoScript /\ Op' = "idle"
    BY <1>9 DEF TerminateReturns, UnspawnedInv, Op
  <2>2. CASE killed
    <3>1. Op = "killing"
      BY <1>9, <2>2 DEF TerminateReturns, Op
    <3>2. Handle!TerminateReaped
      BY <1>9, <2>1, <2>2, <3>1 DEF TerminateReturns, Handle!TerminateReaped, Handle!Waitable
    <3> QED BY <3>2 DEF Handle!Next, Handle!TerminateStep
  <2>3. CASE ~killed
    <3>1. Op = "grace"
      BY <1>9, <2>3 DEF TerminateReturns, Op
    <3>2. Handle!TerminateExited
      BY <1>9, <2>1, <2>3, <3>1 DEF TerminateReturns, Handle!TerminateExited, Handle!Waitable
    <3> QED BY <3>2 DEF Handle!Next, Handle!TerminateStep
  <2> QED BY <2>2, <2>3
<1>10. CASE \E kind \in DOMAIN SignalName : CallSignal(kind)
  <2> PICK kind \in DOMAIN SignalName : CallSignal(kind)
    BY <1>10
  <2>1. script # NoScript /\ Op = "idle" /\ Op' = "idle"
    BY DEF CallSignal, MaySend, Running, Op
  <2>2. kind \in DOMAIN Handle!UnixSignal /\ SignalName[kind] = Handle!UnixSignal[kind]
        /\ SignalName[kind] # "SIGKILL"
    BY DEF SignalName, Handle!UnixSignal
  <2>3. Handle!CallSignal(kind)
    BY <2>1, <2>2 DEF CallSignal, MaySend, Running, Handle!CallSignal, Handle!ClientMaySend,
       Handle!Signal, Handle!Killpg
  <2> QED BY <2>2, <2>3 DEF Handle!Next
<1>11. CASE Advance
  <2>1. Op' = Op /\ (Op = "grace" => termAge \in 0..Grace)
    BY <1>11 DEF Advance, Op, SleepInv
  <2>2. Handle!Elapse
    BY <1>11, <2>1, FakeAssumption DEF Advance, Handle!Elapse
  <2> QED BY <2>2 DEF Handle!Next
<1>12. CASE UNCHANGED childVars
  BY <1>12 DEF childVars, Op, Handle!groupVars
<1> QED
  BY <1>1, <1>2, <1>3, <1>4, <1>5, <1>6, <1>7, <1>8, <1>9, <1>10, <1>11, <1>12 DEF ChildNext, TerminateRuns

\* Each step of the double is one that the handle's promise allows, or none.
THEOREM DoubleIsHandle == ChildSpec => Handle!Spec
  BY InitPromised, StepPromised, Invariant, PTL DEF ChildSpec, Handle!Spec

\* The same beside a double of the signals: neither disturbs the other.
THEOREM DoubleStaysHandle == Spec => Handle!Spec
<1>1. Spec => ChildSpec
  <2>1. Init => ChildInit
    BY DEF Init
  <2>2. [Next]_vars => [ChildNext]_childVars
    BY DEF Next, vars
  <2> QED BY <2>1, <2>2, PTL DEF Spec, ChildSpec
<1> QED BY <1>1, DoubleIsHandle, PTL

-----------------------------------------------------------------------------
(* The signals.                                                            *)

SignalTypeOK ==
  /\ owed \in 0..MaxInjected
  /\ at \in {"idle", "check", "await", "asleep"}
  /\ permit \in BOOLEAN /\ woken \in BOOLEAN

\* From its look at the queue until it sleeps, next is owed a notification for
\* what was pushed meanwhile, or has the permit.
AwaitInv == (at = "await" /\ ~permit /\ queue # <<>>) => owed > 0

LEMMA SignalsStep ==
  SignalTypeOK /\ AwaitInv /\ NoSleepOnSignal /\ [SignalsNext]_signalVars =>
    SignalTypeOK' /\ AwaitInv' /\ NoSleepOnSignal'
<1> SUFFICES ASSUME SignalTypeOK, AwaitInv, NoSleepOnSignal, [SignalsNext]_signalVars
             PROVE  SignalTypeOK' /\ AwaitInv' /\ NoSleepOnSignal'
  OBVIOUS
<1> USE InjectAssumption DEF SignalTypeOK, AwaitInv, NoSleepOnSignal
<1>1. CASE \E kind \in Injectable : InjectPush(kind)
  BY <1>1 DEF InjectPush
<1>2. CASE InjectNotify
  <2>1. owed \in Nat /\ owed > 0 /\ owed' = owed - 1 /\ UNCHANGED <<queue, at>>
    BY <1>2 DEF InjectNotify
  <2>2. CASE at = "asleep" /\ ~woken
    <3>1. woken' = TRUE /\ permit' = permit
      BY <1>2, <2>2 DEF InjectNotify, NotifyOne
    <3> QED BY <2>1, <2>2, <3>1
  <2>3. CASE ~(at = "asleep" /\ ~woken)
    <3>1. permit' = TRUE /\ woken' = woken
      BY <1>2, <2>3 DEF InjectNotify, NotifyOne
    <3> QED BY <2>1, <2>3, <3>1
  <2> QED BY <2>2, <2>3
<1>3. CASE CallNext
  BY <1>3 DEF CallNext
<1>4. CASE CheckQueue
  BY <1>4 DEF CheckQueue
<1>5. CASE AwaitNotified
  BY <1>5 DEF AwaitNotified
<1>6. CASE Wake
  BY <1>6 DEF Wake
<1>7. CASE DropNext
  BY <1>7 DEF DropNext
<1>8. CASE UNCHANGED signalVars
  BY <1>8 DEF signalVars
<1> QED
  BY <1>1, <1>2, <1>3, <1>4, <1>5, <1>6, <1>7, <1>8 DEF SignalsNext

\* However many signals are injected, in whatever order the pushes, the
\* notifications, the calls of next and their drops come: next does not sleep
\* on a signal.
THEOREM NoSignalSleptOn == Spec => []NoSleepOnSignal
<1>1. Init => SignalTypeOK /\ AwaitInv /\ NoSleepOnSignal
  <2> SUFFICES ASSUME SignalsInit PROVE SignalTypeOK /\ AwaitInv /\ NoSleepOnSignal
    BY DEF Init
  <2>1. SignalTypeOK
    <3>1. owed \in 0..MaxInjected /\ at \in {"idle", "check", "await", "asleep"}
      BY InjectAssumption DEF SignalsInit
    <3>2. permit \in BOOLEAN /\ woken \in BOOLEAN
      BY Zenon DEF SignalsInit
    <3> QED BY <3>1, <3>2 DEF SignalTypeOK
  <2>2. AwaitInv /\ NoSleepOnSignal
    BY DEF SignalsInit, AwaitInv, NoSleepOnSignal
  <2> QED BY <2>1, <2>2
<1>2. [Next]_vars => [SignalsNext]_signalVars
  BY DEF Next, vars
<1> QED BY <1>1, <1>2, SignalsStep, PTL DEF Spec
=============================================================================
