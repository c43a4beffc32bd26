# A verification project for condrun

condrun starts a command only while the network satisfies some predicates,
watches the network while the command runs, and kills the command when the
predicates flip. This directory holds TLA+ modules that model it, the TLC
configurations that check them on small instances, and proofs that TLAPS checks
for every value of the constants. Paths such as `src/supervisor.rs` are those
of the crate.

## 1. The system

| Part | State it keeps | Operations | Talks to |
|---|---|---|---|
| `Supervisor::run`, `wait_with_escalation` (`src/supervisor.rs`) | where it is, `fail_started_at`, the poll timer, the signal in hand | one async function, consumed once | all the parts below, through traits |
| `TokioSpawner`, `TokioChildHandle` (`src/process/tokio.rs`) | the tokio `Child`, the cached pid | `spawn`, `wait`, `terminate(grace)`, `signal(kind)` | the kernel: a session of its own, `killpg` |
| `RealSignals` (`src/signal/real.rs`) | four tokio signal streams | `new`, `next` | the kernel's handlers; read by the supervisor |
| `PredicateSet`, `RejectExpensive`, `RejectLowData` (`src/predicate/`) | the list, the composition | `evaluate` | reads `NetworkState` once per predicate |
| `MacOsNetworkState` (`src/state/macos.rs`) | snapshot and `ready` under a mutex, a condition variable, four reference-counted objects | `new`, two readers, `Drop`; the update handler on a dispatch queue | Network.framework |
| `dispatch`, `build_predicates` (`src/cli.rs`), `main` | none | construct the others, `run` or `check`, map the result to an exit code | all of them |
| `parse_duration` (`src/cli.rs`) | none | text to seconds | clap |
| `FixtureNetworkState` (`src/state/fixture.rs`) | the fixture, its creation time | two readers over `snapshot_at` | tests and the feature `test-fixture` |
| `FakeSpawner`, `FakeChildHandle`, `FakeSignals`, `FakeNetworkState` | scripted behaviour under a mutex | those of their traits | the unit tests of the supervisor |

### What is hard here

- `run` is one task, but five actors move around it: the child, the members of
  its group, whoever sends signals, the network and the clock. Two `select!`
  loops and a `terminate` with a `select!` of its own decide who is heard first.
- State is read before an await and used after it: the child was alive when the
  tick fired, the predicates passed when the gate opened, the first failure was
  seen one poll interval ago.
- The pid is cached and used for `killpg` after it; it must not be used once the
  leader is reaped.
- Signals are lossy (one slot per kind) and, until the handlers are there,
  deadly.
- The predicates read one flag after the other while the update handler writes
  both on another thread, which also outlives the struct it was made for.
- Between a change of the system's path and a kill lie the framework's report,
  a queue, a lock, an evaluation, the poll interval and the debounce.
- The tests are worth what their doubles are worth: a double that does what no
  child does, or that loses a signal, proves nothing about the supervisor.

PROJECT.json lists the hazards with their lines.

### What makes each part correct

- *Supervisor*: it never leaves its child behind; its exit code is true; it
  kills neither too early (poll interval and debounce window) nor too late; an
  exit, a signal and a flip are each served in the end; a second signal ends the
  run.
- *Process group*: no signal to a group that is not ours; the whole grace period
  between SIGTERM and SIGKILL; `terminate` returns whatever the command does;
  its SIGKILL clears the group.
- *Signals*: no signal kills condrun while there is a child.
- *Predicates*: the result is the verdict of the set on a network that stands
  still, and rests on what was there on one that does not.
- *MacOsNetworkState*: the snapshot is what the system last reported; `new`
  neither sleeps on an update nor hangs without one; nothing is used after it
  was freed, nothing is leaked; the readers see the reports whole and in order.
- *The command line*: an invocation with a wrong part touches no network; a
  duration is exact or refused; the code of `check` is a verdict on networks
  there were, and `--explain` agrees with it.
- *Fixtures*: a look-up at any time gives what playing the list forward gives.
- *The whole*: a launch and a kill each go back to paths the system has had, and
  a path that stays bad ends the run however much is queued before it.
- *The doubles*: a fake child behaves as some child would; a fake stream of
  signals never sleeps on a signal.

## 2. The modules

```
Lifecycle                      what `condrun run` promises, abstractly
   ^ refined by
Supervisor ---- EXTENDS ------ ProcessGroup, UnixSignals
   ^       ^                        ^
   |       +-- INSTANCE, per test   ChildHandle   the same group, any client
   |       Replay                       ^ refined by
   |                                FakeChild --+
Condrun -- INSTANCE -- NetworkReports           +-- Doubles
   |                      ^ refined by          |
   |                   MacOsNetworkState   FakeSignals
   +------ INSTANCE -- PredicateSet
                          ^
Cli ------- EXTENDS ------+, Fixture, Duration

NetworkState               the trait: flags and the networks they make up;
                           extended by all that read or write a network
MCSupervisor, MCCondrun, MCCli, MCDoubles     instances for TLC
*Proofs                                       theorems
```

**ProcessGroup** has the state and the actions of `src/process/tokio.rs` and of
the kernel below it. `child` is the leader as the kernel sees it (`live`,
`zombie`, `reaped`), `alive` the members of the group, `doomed` those with a
SIGKILL they have yet to die of, `op` and `graceLeft` the position of
`terminate` and what is left of its timer, `sent` what was given to `killpg`.
`Terminate`, `TerminateExited`, `TerminateKill` and `TerminateReaped` are the
four stretches between awaits of `terminate`. A member may ignore any signal
but SIGKILL, fork into the group at any time, and exit at any time with any
status. Assumed of the kernel and the command: a member does not leave the
session, and a SIGKILL to a group is atomic with respect to forks in it.

**ChildHandle** lets any client call `wait`, `signal` and `terminate` in any
order, one call at a time (they take `&mut self`), as long as it was not told
that the child is gone: the trait's promise, independent of the supervisor.

**UnixSignals** is `RealSignals`: the order in which the handlers are installed,
and streams of one notification each. Two signals of a kind that arrive before
the stream is read are one: a double Ctrl+C counts as two only if the first was
read in between. A signal that arrives while `terminate` runs is never read.

**Supervisor** is `run` with the part of `dispatch` before it and the exit code
`main` makes of it. `pc` names the points between awaits (the module's header
lists them); each action takes `run` from one to the next. `verdict` is what the
predicates say at the moment; an evaluation reads it in one step here, and
predicate by predicate in Condrun. `code` is the exit code.

- *The selects.* An arm is an action guarded by what makes it ready. The
  watcher's select is biased, so `SignalReceived` requires that the child is not
  waitable and `Tick` that there is no signal either; the pre-flight select,
  that of `--no-kill-on-change`, the one in `wait_with_escalation` and the one
  in `terminate` are not, so any ready arm may be taken. tokio polls the arms of
  a biased select one after the other; an exit or a signal that comes between
  the polls is as if it came after the whole poll, since the arms polled later
  do not depend on it.
- *Time* is discrete. A timer counts down, `ClockTick` takes one unit off every
  timer, and any number of units may pass while `run` could make a step: the
  scheduler may delay it. `passAge` and `failFor` are history variables.

**Lifecycle** is the abstract specification: a gate, a command launched at most
once, an exit code that says what became of it. Supervisor implements it under
the mapping `Phase`.

**PredicateSet** is `evaluate`, one step per predicate, while the network
changes between two steps; a predicate is represented by the flag it rejects.

**MacOsNetworkState** is the thread in `new` and `Drop`, the handler on its
serial queue (two steps: reading the flags of its path, and the section under
the mutex), and the reference counts of queue, monitor, block and shared state.
The framework may be slow, deliver null paths, or never deliver anything; the
condition variable may wake up for no reason. The mutex is never poisoned: no
code under it can panic, so the error paths for a poisoned mutex are left out.

**NetworkReports** is what a reader sees of it, without threads, locks or
counts: the path may change at any time, changes are reported, reports are
applied one at a time and in order. MacOsNetworkState implements it: the reports
not yet applied are the callback in the handler and those in the queue.

**Condrun** puts the parts together as `dispatch` does: `MacOsNetworkState::new`
(here its promise, NetworkReports, with the barrier as `gate`), the handlers,
then Supervisor with an evaluation of PredicateSet over the snapshot wherever
Supervisor evaluates. The evaluation is several steps, between which the handler
may run but no other arm of a `select!`: there is no await in it. `verdict` of
Supervisor is what the last evaluation came to, so that an evaluation that comes
to something else is a change of the network to Supervisor, and Condrun
implements Supervisor's `Spec` with no mapping at all. Dropping the network
state is left out: nothing reads it afterwards.

**Cli** is one invocation from its arguments to its exit code: what `main` makes
of clap's verdict, the order in which `dispatch` refuses and builds, the whole
of `check` with and without `--explain`, and `run` up to `Supervisor::run`,
which here returns any code. It extends **Duration** (`parse_duration`: a text is
its digits and the unit after them; the u64 is a width, `MaxU64`, and beside the
parser stands what a text means, `Seconds`, a sum of place values), **Fixture**
(`FixtureNetworkState`: its clock, the look-up at every read, and beside it the
replay of the list, `Play`) and PredicateSet.

**FakeChild** is `FakeSpawner` and `FakeChildHandle` under any client of the
traits; **FakeSignals** is the queue and the `Notify` of `FakeSignals`, with
`inject` in its two steps and a `next` that may be dropped; **Doubles** runs the
two side by side. FakeChild implements ChildHandle: its child is a zombie from
the mark of its exit to the return that tells of it.

**Replay** has the unit tests of `src/supervisor.rs`, each as a record with its
configuration, its double's delays, its script of events and its assertions, and
runs Supervisor (an INSTANCE per test) under the tests' paused clock. A unit of
time is half a second. It binds the specification to what the repository itself
has written down of the program's behaviour.

## 3. What the runs check

| Run | Instance | What it shows |
|---|---|---|
| `handle` | 2 workers, grace 2, `MaxSent` 3 | whatever the client: types, no stray signal, the grace period, `terminate` returns, SIGKILL clears the group |
| `watch` | `--strict`, poll 2, debounce 3, grace 2, 2 workers, 2 kinds of signal | the supervisor's safety with the watcher, how soon and how late it kills, and that it implements Lifecycle |
| `live` | poll 0, debounce 1, 1 worker, 2 kinds | under fairness: exits, signals and flips are served, a second signal ends the run, Lifecycle's liveness |
| `barrier` | `MaxQueued` 2 | the first-update barrier, the handler, `Drop` with callbacks queued, and that it implements NetworkReports |
| `condrun` | both predicates under AND and OR, `MaxReports` 2, poll, debounce and grace 0, SIGHUP | the composition is a Supervisor; launches and kills are warranted; `run` is behind the path only by what is queued |
| `stale` | one predicate, `MaxReports` 2, poll 1, debounce 2, no signal | a path that stays bad ends the run, also when outdated reports call off a debounce that has begun |
| `cli` | `MaxU64` 69663, texts of up to 5 of the digits 0, 6, 9, fixtures of up to 3 snapshots over 3 times, all flags | durations, refusals, `check` and `--explain` over a network that changes, the look-up in a fixture |
| `doubles` | grace 2, 4 scripts, `MaxHandles` 1, `MaxSent` 2, `MaxInjected` 2 | the double of the child implements ChildHandle, that of the signals loses no wakeup |
| `replay` | the 20 tests | each ends with its assertions satisfied, in every order its events may take |
| `survivor`, `deaf`, `natural` | | one disagreement each, see 5 |

**The bounds.** `MaxSent` (ChildHandle, FakeChild), `MaxQueued`
(MacOsNetworkState), `MaxReports` (NetworkReports), `MaxHandles` and
`MaxInjected` (the doubles) and `MaxClock` (Fixture) cap what would grow without
end; a third signal or a third callback meets the same guards as the second, and
after the last transition of a fixture nothing changes. Debounce 3 with poll 2
makes the window end between two polls; a poll of 0 is the worst case for the
liveness of the select, where a tick is always ready. Two workers are enough for
one to be forked while the other is being killed; they are interchangeable, and
the safety runs use the symmetry. `condrun` runs with all durations 0 because
its questions are about the order of reports, reads and steps of `run`, which the
timers only thin out, and all its properties are theorems for every duration,
every set of flags and every bound on the queue; two reports in the queue are the
least for which their order matters. `stale` has the timers: its debounce is two
polls long, so that a snapshot of an outdated report may be sampled, and pass,
after the first failure that counts and before the one that kills. Its property
is a liveness property and has no theorem; no signal arrives, since a forwarded
one is what the property excepts and `deaf` is about. It has one predicate, for which the
compositions are the same and one is taken (`OneCompositionSpec`); what two
predicates add, reads of two snapshots in one evaluation, is the subject of
`condrun`. `--no-kill-on-change` has no run of its own: the tests of `replay`
take that path through `run`, and `ExitCodes` and the other theorems of
SupervisorProofs hold for both values of the flag. `MaxU64`
69663 is overflowed by texts of five digits in the multiplication (96000), in
the addition (69666), in the product with 60 (6000m) and in that with 3600
(60h), and not by their smaller neighbours. The proofs have no such bounds.

**Fairness.** The runtime polls a task that can make a step (weak fairness of
`RunStep`, of `CondrunStep`, of the thread in MacOsNetworkState), time advances,
and a process with a pending SIGKILL dies; the dispatch queue runs what is on
it. The runtime justifies the first, tokio's timer the second, the kernel the
third, libdispatch the last. In Condrun the framework must also report a change
at last; that is strong fairness, since the bound on the queue, which the
framework does not have, disables a report again and again. In Doubles the clock
advances and `terminate` is polled; in Replay the test goes on. Nothing is
assumed of the command, of the network or of whoever sends signals.

The properties that are less obvious than their names:

- `ExitCodeFaithful` relates the exit code to what really happened: 2 only if
  condrun never called `terminate`, 3 only if it had.
- `DebounceHonoured`: before a flip kill no evaluation has passed for a poll
  interval and a whole debounce window, however late the scheduler runs the
  task. `PromptKill` is the other side: a network that stays failed is acted on
  after at most one poll interval and the polls that fit the window, the delays
  of the scheduler not counted.
- `EvaluationCurrent` says how far `run` may lag: once the framework has reported
  the path (`owed`) and no report of a path is left in the queue, an evaluation of
  the one snapshot there is returns what the predicates say of the system's path.
  `BadPathEndsRun` rests on it, and `PromptKill` bounds what follows.
- `FlipEndsRun` and `BadPathEndsRun` hold under the condition that no signal is
  forwarded; `deaf` shows why.
- `NeverOrphans` depends on all four handlers being there before the spawn.
- `LaunchWarranted` and `FlipWarranted` do not say that the predicates passed
  (or failed) on one path: the flags are read one after the other and may be of
  two. They say that each flag counted was that of a path the system has had
  since the monitor was started, and in particular never the default that a
  snapshot has before its first update, unless the barrier timed out.
- `ArgumentsDecide`: a bad `--grace` is refused for `check` too, which has no
  use for it, and before the network is touched.
- `TestsPass` is a liveness property: under every order of what is due at one
  time the test ends, its script played out and its assertions satisfied.

Every run has `CHECK_DEADLOCK FALSE`: the program ends, and the handle and the
network state have nothing to do when they are gone.

## 4. What is proved

| Module | Theorems |
|---|---|
| SupervisorProofs | TypeCorrect, NoOrphan, ExitCodes, Debounced, KilledPromptly, OwnGroupOnly, KillReachesAll, Refinement |
| ChildHandleProofs | TypeCorrect, OwnGroupOnly, GraceBeforeKill, KillReachesAll |
| PredicateSetProofs | TypeCorrect, EvaluationJustified, StableEvaluation |
| MacOsNetworkStateProofs | TypeCorrect, CurrentSnapshot, NoWakeupLost, DropIsSafe, NothingLeaks, ReadersSeeReports |
| CondrunProofs | Composition, WholeProgramSafe, WholeProgramRefines, LaunchIsWarranted, FlipIsWarranted, SettledIsCurrent |
| CliProofs | ParseIsExact, DurationsExact, ArgumentsFirst, CheckEvaluates, CheckIsJustified, ExplainIsFaithful, LookupReplays |
| DoublesProofs | ChildTypeCorrect, DoubleIsHandle, DoubleStaysHandle, NoSignalSleptOn |

They hold for all durations, all flags, any set of workers and signals, any
lists of predicates over any flags, any bound on the queues, any width of a u64,
any duration texts, fixtures and command lines, any scripts of the doubles, from
the assumptions named in the modules, which only type the constants. The longest
is `InvocationAssumption`: a command line is a record of what clap hands over, its
durations are texts of digits and a unit, a command has at least one (each of the
three has a default, which is parsed like a value), and a fixture is a snapshot or
a list of snapshots with times. Every invariant a passing run checks is a
theorem; so is every action property, and the safety half of every refinement.

*ProcessGroupProofs* holds the lemmas about one step of the group that both
clients cite: types, the kernel's bookkeeping (`GroupInv`), `GraceInv`, which
ties the timer to the age of the SIGTERM, and `NobodyEscapes`: once SIGKILL was
sent every member of the group has one pending. That is inductive because a fork
needs a member without one; it is the safety half of `KillClearsGroup`, for any
number of workers and on every path of `run`.

*Supervisor.* None of the properties is inductive by itself. `IInv` adds what
there is of a child at each `pc` (`ChildInv`: it is unreaped wherever a signal is
sent, reaped at "drain"), that the handlers are all there from the pre-flight on
(`SignalInv`), where the exit code comes from (`SiteInv`), and `DebounceInv`: the
last evaluation that passed is at least a poll interval older than
`fail_started_at`, for which one must also know how much of the current window
is left. The refinement goes action by action: each one maps to an action of
Lifecycle or leaves what it speaks of unchanged. `KilledPromptly` needs an
invariant of its own, `PromptInv`: since the failure that was seen first there
have been whole poll intervals that ended within the debounce window, and the one
at hand (`SeenFor`), which bounds `failFor` from above and the age of
`fail_started_at` from below. `LastWindow` is the division by the poll interval,
with one that does not divide the debounce and one that is 0.

*PredicateSet.* The invariant says that the predicates already behind the loop
had the indecisive outcome, each on a network of this call.

*MacOsNetworkState.* `PathInv` says where the last report of the path is: in the
queue with nothing but null paths behind it, in the handler, or in the snapshot.
`RefInv` gives each reference count as the sum of those who hold a reference, at
each point of `new` and `Drop`; `NothingLeaks`, the safety half of `AllReleased`,
is that sum when nobody is left. `ReadersSeeReports` maps each step to one of
NetworkReports; `OwedInv` ties the report that is owed to the monitor.

*Condrun.* `Composition` needs only that an evaluation is under way at the two
points of `run` that evaluate; the theorems of SupervisorProofs then hold of the
whole program (`WholeProgramSafe`, `WholeProgramRefines`). `LaunchIsWarranted` and `FlipIsWarranted` follow each flag from
the path through the reports into the snapshot (`SnapshotInv`), the networks
seen by the evaluation (`SeenInv`), its result (`ResultInv`, over the invariant
of PredicateSetProofs, instantiated) and the step of `run` that rests on it
(`WarrantInv`); `GateInv` is what the barrier gives: at an evaluation an update
is there, or the barrier has timed out. `SettledIsCurrent` needs `LagInv`: the last
report of the path is owed, or queued with nothing but empty reports behind it, or
the snapshot, with nothing but empty reports to come. It is the part of
`BadPathEndsRun` that can be proved, for queues of any length.

*Cli.* `CliInv` has a part for each thing that a later step relies on. `PlaceInv`
says what became of the arguments at each `pc`: past "args" the durations are
those parsed and none was refused, a state is opened only for a command that is
there, and code 4 comes without a state. `CheckInv` says that the set evaluated is
the one the flags ask for and that each network of the call is one since the state
was opened; with it a step of Cli is a step of PredicateSet or happens before the
evaluation, so that the invariant of PredicateSetProofs is kept (`SetStep`).
`LinesInv` gives each line of `--explain` a network it was true on, and
`FixtureInv` is `LookupIsReplay` with its types. TLC has checked the parts on the
instance of run `cli`.

*Duration and Fixture* compute over data of any length. The library's induction
theorems take an operator as a parameter, which the provers here cannot
instantiate; the proofs go around it with sets. `SetInduction` (a set of naturals
with 0 and the successors of its members is `Nat`) follows from the existence of a
least element in `Nat \ S` (`WFMin`), and an induction hypothesis is then
membership in a set. `Recursion` shows by it that a function defined by recursion
over an interval exists, without which nothing can be said of the CHOOSE behind a
recursive function; `Parsed_Unfold`, `Tens_Unfold` and `PlaceSums_Unfold` are the
equations it gives. `ParseIsNumber` compares the digit-by-digit parse with the sum
of the digits' place values, from the first digit on: what is parsed so far, at
the place it has, is the sum so far, or that sum is already too large (`Stands`,
`DigitStep`). So the checked multiplication and addition refuse no number that
fits. For Fixture, `Greatest` (a bounded set of naturals has a greatest member)
gives the entry that `max_by` returns, `LatestIs` that it is unique, and
`SnapshotStep` that the entry looked up a moment later is the one that playing the
transitions of that moment leaves.

*Doubles.* `CallInv` and `SleepInv` tie the place in the call and what is left
of its timer to the history variables of ProcessGroup: the sleep of a
`terminate` that ends in a kill is the whole grace period. For the signals
`AwaitInv` covers the gap between the look at the queue and the sleep: what was
pushed in it is still owed its notification, or the permit is there.

Only model-checked: everything under fairness, for which TLAPS has no rules
here, ENABLED included (the properties of `live`, `BarrierOpens`, `AllReleased`,
`TerminateReturns`, `KillClearsGroup`, `BadPathEndsRun`, `TestsPass`, and the
fairness half of `ImplementsHandle`). Of `KillClearsGroup` and `AllReleased` the
safety halves are proved; what is left to TLC is that the pending deaths and the
queued callbacks come. Of Replay nothing is proved: its scripts are instances of
the constants.

## 5. Where the documentation and the code disagree

- **survivor**: `terminate` is content when the leader has exited; a worker that
  ignores SIGTERM lives on without a SIGKILL.
- **deaf**: after the first forwarded signal nobody watches the network any more.
- **natural**: a child that exits by itself between the poll tick and
  `terminate` is reported with 3.

Other facts a reader of the models should know, for which no run is kept:

- Exit code 3 also follows a second signal, where README.md:96 speaks of a
  predicate flip (`ExitCodeFaithful` says what 3 does mean).
- After the barrier's timeout the readers of `MacOsNetworkState` return the
  defaults (the warning at state/macos.rs:229 says so), although the comment at
  state/macos.rs:117 has it that they never see them; `LaunchWarranted` excepts
  that case.
- A set of two predicates may pass or fail on a mixture of two paths.
- `condrun` without an argument exits with 0, since clap treats the help it
  prints as asked for, while the comment at cli.rs:385 says that `main` maps it to
  4.
- `check --explain` evaluates each predicate for its line and the set once more
  for the exit code, where SPEC.md:90 speaks of one evaluation; on a network
  that changes in between the lines and the code may differ.
- The pre-flight select is not biased, so the gate may open although a signal is
  there to be read; the signal is then forwarded to the child.
- The debounce compares samples: a network that recovers between two polls
  counts as failed throughout.
- A fake child that is killed keeps the exit code it was given, which no killed
  process has; `run` looks at no status after `terminate`. The queue of
  `FakeSignals` keeps every signal, where the real streams keep one of a kind:
  no unit test can see a signal coalesced.

## 6. What is not modelled

- *clap's grammar*: declarative, generated by its derive macros. Cli takes its
  verdict ("help", "wrong" and so on) as an input and models what follows.
- *Logging and wording*: the reasons predicates give, the lines of `check`
  beyond their outcome, and the test `preflight_fail_log_message`, which is about
  the text of a log line.
- *Fixture files*: their JSON and their times before 0 or between two units; a
  file is well-formed or it is not.
- *SIGKILL of condrun*: nothing in the code answers it, and the comment at
  process/tokio.rs:27 says so; the group, a session of its own, lives on.
- *Durations that overflow an `Instant`*: tokio saturates its timers; a wait of
  many years is never over in any model.
- *The platform without Network.framework*: `real_network_state` refuses, which
  is `OpenFails` of Cli.
- *Build files, CI and the integration tests*: not part of the program.
