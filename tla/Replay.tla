------------------------------- MODULE Replay -------------------------------
(***************************************************************************)
(* The unit tests of src/supervisor.rs as runs of the specification: what  *)
(* each of them sets up, does at which time and asserts, with Supervisor   *)
(* in the place of Supervisor::run.  They bind the specification to the    *)
(* behaviour the repository itself has written down.                       *)
(*                                                                         *)
(* A unit of time is half a second; the tests' few milliseconds, which     *)
(* only let run come to its select, are one unit, and an hour is never     *)
(* over.  The tests' clock is paused: it moves when nobody has a step to   *)
(* make.  What is due at one and the same time happens in any order.       *)
(***************************************************************************)
EXTENDS Integers, Sequences

VARIABLES
  child, status, alive, doomed, sent, op, graceLeft, termAge,   \* ProcessGroup
  handled, pending,                                             \* UnixSignals
  pc, sig, site, verdict, tickLeft, failAge, code, passAge, failFor,
  test,         \* the test that is run
  now,          \* the time since it started
  step,         \* how many lines of its script were made
  exitIn,       \* what is left of the sleep after which the double's child
                \* exits, or Never
  last_signal, evaluations, harmed      \* what the assertions look at

specVars == <<child, status, alive, doomed, sent, op, graceLeft, termAge, handled, pending,
              pc, sig, site, verdict, tickLeft, failAge, code, passAge, failFor>>
observed == <<last_signal, evaluations, harmed>>
vars == <<specVars, test, now, step, exitIn, observed>>

Never == -1

\* The supervisor of a test t: its configuration, its network and its signals.
Under(t) ==
  INSTANCE Supervisor WITH
    Leader <- "child", Workers <- {},
    Grace <- t.grace, Poll <- t.poll, Debounce <- t.debounce,
    Strict <- t.strict, KillOnChange <- t.kill_on_change,
    Delivered <- {"Interrupt", "Terminate", "Quit", "Hup"}

-----------------------------------------------------------------------------
(* The tests.  script says what a test does when; expect what it asserts   *)
(* at the end, of those things it asserts.                                 *)

\* cfg(false, false) and FakeChildHandle::new(0, ZERO).
Base ==
  [poll |-> 0, debounce |-> 0, grace |-> 0, strict |-> FALSE, kill_on_change |-> FALSE,
   passes |-> TRUE, slow |-> FALSE, injected |-> {},
   exit_code |-> "ok", exit_delay |-> 0, terminate_delay |-> 0,
   script |-> <<>>, expect |-> [code |-> 0]]

At(time, do) == [at |-> time, do |-> do]

Scenario1 == [Base EXCEPT !.expect = [code |-> 0, spawned |-> TRUE]]

Scenario2 == [Base EXCEPT !.exit_code = "fail", !.expect = [code |-> 2, spawned |-> TRUE]]

Scenario3 == [Base EXCEPT !.passes = FALSE, !.expect = [code |-> 0, spawned |-> FALSE]]

Scenario4 == [Scenario3 EXCEPT !.strict = TRUE, !.expect = [code |-> 1, spawned |-> FALSE]]

NoKillOnChange == [Base EXCEPT !.exit_delay = 20, !.script = <<At(10, "raise")>>]

WatcherCfg(grace, poll) == [Base EXCEPT !.kill_on_change = TRUE, !.grace = grace, !.poll = poll]

Scenario5 ==
  [WatcherCfg(10, 4) EXCEPT
     !.exit_delay = 120,
     !.script = <<At(6, "assert unharmed"), At(6, "raise")>>,
     !.expect = [code |-> 3, terminated |-> TRUE, killed |-> FALSE]]

Scenario6 ==
  [WatcherCfg(4, 4) EXCEPT
     !.exit_delay = 1200, !.terminate_delay = 20,
     !.script = <<At(6, "raise")>>,
     !.expect = [code |-> 3, terminated |-> TRUE, killed |-> TRUE]]

ChildExitsNaturally ==
  [WatcherCfg(2, 10) EXCEPT
     !.exit_delay = 4,
     !.expect = [code |-> 0, terminated |-> FALSE, killed |-> FALSE]]

PollIntervalRespected ==
  [WatcherCfg(2, 10) EXCEPT
     !.exit_delay = 1200,
     !.script = <<At(24, "abort")>>,
     !.expect = [evaluations |-> 1 + 2]]

DebounceCfg(debounce, poll) ==
  [WatcherCfg(2, poll) EXCEPT !.debounce = debounce, !.exit_delay = 1200]

DebounceZero ==
  [DebounceCfg(0, 4) EXCEPT
     !.script = <<At(6, "raise")>>,
     !.expect = [code |-> 3, terminated |-> TRUE]]

DebounceWaits ==
  [DebounceCfg(20, 4) EXCEPT
     !.script = <<At(7, "raise"), At(24, "assert unharmed")>>,
     !.expect = [code |-> 3, terminated |-> TRUE]]

DebounceResets ==
  [DebounceCfg(20, 4) EXCEPT
     !.script = <<At(7, "raise"), At(15, "clear"), At(40, "assert unharmed"), At(40, "abort")>>,
     !.expect = [terminated |-> FALSE]]

DebounceRetrips ==
  [DebounceCfg(20, 4) EXCEPT
     !.script = <<At(7, "raise"), At(15, "clear"), At(23, "raise"), At(40, "assert unharmed")>>,
     !.expect = [code |-> 3, terminated |-> TRUE]]

SigintForwarded ==
  [Base EXCEPT
     !.exit_delay = 120,
     !.script = <<At(1, "Interrupt")>>,
     !.expect = [code |-> 0, last_signal |-> "Interrupt", terminated |-> FALSE, killed |-> FALSE]]

SigtermForwarded ==
  [WatcherCfg(2, 10) EXCEPT
     !.exit_code = "fail", !.exit_delay = 120,
     !.script = <<At(1, "Terminate")>>,
     !.expect = [code |-> 2, last_signal |-> "Terminate", terminated |-> FALSE]]

SignalDuringPreflight ==
  [Base EXCEPT
     !.slow = TRUE, !.injected = {"Interrupt"},
     !.expect = [code |-> 0, spawned |-> FALSE]]

SecondSignalEscalates ==
  [Base EXCEPT
     !.exit_delay = 7200,
     !.script = <<At(1, "Interrupt"), At(2, "Interrupt")>>,
     !.expect = [code |-> 3, last_signal |-> "Interrupt", terminated |-> TRUE]]

SigquitAndSighup(kind) ==
  [Base EXCEPT
     !.exit_delay = 120,
     !.script = <<At(1, kind)>>,
     !.expect = [code |-> 0, last_signal |-> kind]]

SignalNoEscalation ==
  [WatcherCfg(4, 10) EXCEPT
     !.exit_delay = 60, !.terminate_delay = 6,
     !.script = <<At(1, "Interrupt")>>,
     !.expect = [code |-> 0, last_signal |-> "Interrupt", terminated |-> FALSE, killed |-> FALSE]]

Tests ==
  {Scenario1, Scenario2, Scenario3, Scenario4, NoKillOnChange,
   Scenario5, Scenario6, ChildExitsNaturally, PollIntervalRespected,
   DebounceZero, DebounceWaits, DebounceResets, DebounceRetrips,
   SigintForwarded, SigtermForwarded, SignalDuringPreflight, SecondSignalEscalates,
   SigquitAndSighup("Quit"), SigquitAndSighup("Hup"), SignalNoEscalation}

-----------------------------------------------------------------------------
(* A test under way.                                                       *)

Waiting == {"watch", "wait", "race"}

Init ==
  /\ test \in Tests
  /\ child = "none" /\ status = "none" /\ alive = {} /\ doomed = {} /\ sent = <<>>
  /\ op = "idle" /\ graceLeft = 0 /\ termAge = -1
  /\ handled = {"Interrupt", "Terminate", "Quit", "Hup"}
  /\ pending = test.injected
  /\ pc = "preflight" /\ sig = "none" /\ site = "none" /\ verdict = test.passes
  /\ tickLeft = 0 /\ failAge = -1 /\ code = -1 /\ passAge = 0 /\ failFor = 0
  /\ now = 0 /\ step = 0 /\ exitIn = Never
  /\ last_signal = "none" /\ evaluations = 0 /\ harmed = FALSE

Aborted == step > 0 /\ test.script[step].do = "abort"
Ended == pc = "done" \/ Aborted

ExitDue == exitIn = 0 /\ child = "live"

\* SlowPassPredicate is never through.
Stuck(t) == pc = "preflight" /\ t.slow /\ pending = {}

\* The handle's sleep in wait starts anew with each wait, and a terminate that
\* is obeyed within grace has a sleep of its own.  The doubles do not fail to
\* spawn.
RunSteps(t) ==
  /\ ~Ended /\ ~ExitDue
  /\ Under(t)!RunStep
  /\ (pc = "preflight" /\ t.slow) => pc' = "done" /\ pending' # pending
  /\ pc = "spawn" => child' = "live"
  /\ (op = "grace" /\ t.terminate_delay <= t.grace) => op' # "killing"
  /\ exitIn' = IF pc' \in Waiting THEN t.exit_delay
               ELSE IF op = "idle" /\ op' = "grace"
                 THEN IF t.terminate_delay <= t.grace THEN t.terminate_delay ELSE Never
               ELSE IF op' = "killing" THEN 0 ELSE Never
  /\ evaluations' = IF pc \in {"preflight", "evaluate"} THEN evaluations + 1 ELSE evaluations
  /\ last_signal' = IF pc = "forward" THEN sig ELSE last_signal
  /\ UNCHANGED <<test, now, step, harmed>>

ChildExits(t) ==
  /\ ~Ended /\ ExitDue
  /\ Under(t)!GroupMoves
  /\ doomed = {} => status' = t.exit_code
  /\ UNCHANGED <<test, now, step, exitIn, observed>>

EventDue == step < Len(test.script) /\ test.script[step + 1].at <= now

ScriptLine(t) ==
  /\ ~Aborted /\ EventDue
  /\ step' = step + 1
  /\ LET do == t.script[step + 1].do IN
       \/ do \in {"raise", "clear"} /\ verdict' = (do = "clear") /\ Under(t)!NetworkChanges /\ UNCHANGED harmed
       \/ do \in handled /\ Under(t)!SignalArrives(do) /\ UNCHANGED harmed
       \/ do = "assert unharmed" /\ harmed' = (harmed \/ site # "none") /\ UNCHANGED specVars
       \/ do = "abort" /\ UNCHANGED <<specVars, harmed>>
  /\ UNCHANGED <<test, now, exitIn, last_signal, evaluations>>

\* The paused clock.
TimePasses(t) ==
  /\ ~Ended /\ ~ExitDue /\ ~EventDue
  /\ ~Under(t)!Runnable \/ Stuck(t)
  /\ Under(t)!ClockTick
  /\ now' = now + 1
  /\ exitIn' = IF exitIn > 0 THEN exitIn - 1 ELSE exitIn
  /\ UNCHANGED <<test, step, observed>>

Next ==
  \E t \in Tests :
    /\ test = t
    /\ RunSteps(t) \/ ChildExits(t) \/ ScriptLine(t) \/ TimePasses(t)

Spec == Init /\ [][Next]_vars /\ WF_vars(Next)

-----------------------------------------------------------------------------
Observed ==
  [code |-> code, spawned |-> child # "none", terminated |-> site # "none",
   killed |-> "SIGKILL" \in {sent[i] : i \in DOMAIN sent},
   last_signal |-> last_signal, evaluations |-> evaluations]

\* In every order its events may take, each test comes to its end with all its
\* assertions satisfied.
TestsPass ==
  <>(/\ Ended /\ step = Len(test.script)
     /\ ~harmed
     /\ \A a \in DOMAIN test.expect : Observed[a] = test.expect[a])
=============================================================================
