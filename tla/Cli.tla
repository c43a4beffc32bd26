-------------------------------- MODULE Cli --------------------------------
(***************************************************************************)
(* One invocation of condrun: main (src/main.rs) and dispatch              *)
(* (src/cli.rs), from the arguments to the exit code, with the whole of    *)
(* check.  What run does from Supervisor::run on is in Supervisor; here it *)
(* returns some code.                                                      *)
(*                                                                         *)
(* The predicates are evaluated by PredicateSet, whose network is the one  *)
(* the state that dispatch has built would read: the system's, which may   *)
(* change at any time, or that of a Fixture, which changes with its clock. *)
(*                                                                         *)
(* pc is where the invocation is: "args" (clap parses), "dispatch",        *)
(* "state" (build_network_state), "handlers" (RealSignals::new), "run",    *)
(* "lines" (of --explain), "set" (the set is to be evaluated),             *)
(* "evaluating" and "done".                                                *)
(***************************************************************************)
EXTENDS PredicateSet, Fixture, Duration, FiniteSets

CONSTANT Invocations
  \* The command lines: `ask` is what clap finds ("help", "version", "bare"
  \* for no argument at all, "run", "check", or "wrong" for what it refuses),
  \* `command` whether something follows --, `durations` the texts of --grace,
  \* --poll and --debounce, `source` what --state-source names (NoSource,
  \* NoPrefix, or a fixture); any, explain and the rejects are flags.

NoSource == [form |-> "system"]
NoPrefix == [form |-> "noprefix"]   \* --state-source without its "file:"

IsSource(source) ==
  \/ source \in {NoSource, NoPrefix, Unloadable}
  \/ source.form = "static" /\ source.state \in Networks
  \/ source.form = "sequence" /\ source.list \in Seq([at : Nat, state : Networks])

\* Each of a command's durations has a default, which is parsed like a value.
ASSUME InvocationAssumption ==
  /\ Flags = {"expensive", "low_data"}
  /\ \A i \in Invocations :
       /\ i.ask \in {"help", "version", "bare", "run", "check", "wrong"}
       /\ i.durations \in Seq(Texts)
       /\ i.ask \in {"run", "check"} => i.durations # <<>>
       /\ IsSource(i.source)
       /\ {i.command, i.any, i.explain, i.reject_expensive, i.reject_low_data} \subseteq BOOLEAN

VARIABLES
  pc, args,
  lines,      \* what --explain has printed, outcome by outcome
  code,       \* the exit code
  opened,     \* history: whether a network state has been built
  known,      \* history: the networks there were since then
  config      \* SupervisorConfig's durations, in seconds

cliVars == <<pc, args, lines, code, opened, known, config>>
allVars == <<vars, fixtureVars, cliVars>>

NoCode == -1

CliInit ==
  /\ args \in Invocations
  /\ pc = "args"
  /\ lines = <<>>
  /\ code = NoCode
  /\ opened = FALSE
  /\ known = {}
  /\ config = <<>>
  /\ predicates = <<>> /\ composition = "And"
  /\ network = AllClear
  /\ at = 0 /\ result = "none" /\ seen = {}
  /\ FixtureInit

Goto(from, to) == pc = from /\ pc' = to

Exit(with) == pc' = "done" /\ code' = with

-----------------------------------------------------------------------------
(* main.                                                                   *)

\* Each duration is parsed, those the command takes no notice of, too.
Parsed == [i \in DOMAIN args.durations |-> ParseDuration(args.durations[i])]

\* try_parse refuses, or has printed what was asked for.
ParseFails ==
  /\ pc = "args"
  /\ \/ args.ask \in {"help", "version", "bare"} /\ Exit(0)
     \/ args.ask = "wrong" /\ Exit(4)
     \/ args.ask \in {"run", "check"} /\ Invalid \in {Parsed[i] : i \in DOMAIN Parsed} /\ Exit(4)
  /\ UNCHANGED <<vars, fixtureVars, args, lines, opened, known, config>>

ParseSucceeds ==
  /\ args.ask \in {"run", "check"}
  /\ Invalid \notin {Parsed[i] : i \in DOMAIN Parsed}
  /\ Goto("args", "dispatch")
  /\ config' = Parsed
  /\ UNCHANGED <<vars, fixtureVars, args, lines, code, opened, known>>

-----------------------------------------------------------------------------
(* dispatch.                                                               *)

\* Mutant of BuildPredicates: the second flag replaces the first.
BuildPredicates_Replace ==
  IF args.reject_low_data THEN <<"low_data">>
  ELSE IF args.reject_expensive THEN <<"expensive">> ELSE <<>>

\* A flag, a predicate, in this order.
BuildPredicates ==
  (IF args.reject_expensive THEN <<"expensive">> ELSE <<>>)
    \o (IF args.reject_low_data THEN <<"low_data">> ELSE <<>>)

Composition == IF args.any THEN "Or" ELSE "And"

\* Mutant of MissingCommand: the command is looked at when it is spawned.
MissingCommand_Late == FALSE

MissingCommand == args.ask = "run" /\ ~args.command

RefuseEmpty ==
  /\ pc = "dispatch"
  /\ MissingCommand
  /\ Exit(4)
  /\ UNCHANGED <<vars, fixtureVars, args, lines, opened, known, config>>

Dispatch ==
  /\ ~MissingCommand
  /\ Goto("dispatch", "state")
  /\ predicates' = BuildPredicates
  /\ composition' = Composition
  /\ UNCHANGED <<network, at, result, seen, fixtureVars, args, lines, code, opened, known, config>>

AfterState ==
  pc' = IF args.ask = "run" THEN "handlers" ELSE IF args.explain THEN "lines" ELSE "set"

\* real_network_state; the system's network may be any.
Opened ==
  /\ opened' = TRUE
  /\ known' = {network'}
  /\ AfterState
  /\ UNCHANGED <<setVars, at, result, seen, args, lines, code, config>>

OpenSystem ==
  /\ pc = "state"
  /\ args.source = NoSource
  /\ network' \in Networks
  /\ Opened
  /\ UNCHANGED fixtureVars

LoadFixture ==
  /\ pc = "state"
  /\ args.source.form \in {"static", "sequence"}
  /\ Load(args.source)
  /\ network' = Reading(args.source, 0)
  /\ Opened

\* NWPathMonitor does not start (or the platform has none), or the fixture
\* cannot be had.
OpenFails ==
  /\ pc = "state"
  /\ args.source \in {NoSource, NoPrefix, Unloadable}
  /\ Exit(4)
  /\ UNCHANGED <<vars, fixtureVars, args, lines, opened, known, config>>

InstallHandlers ==
  /\ \/ Goto("handlers", "run") /\ UNCHANGED code
     \/ pc = "handlers" /\ Exit(4)
  /\ UNCHANGED <<vars, fixtureVars, args, lines, opened, known, config>>

RunReturns ==
  /\ pc = "run"
  /\ \E with \in 0..4 : Exit(with)
  /\ UNCHANGED <<vars, fixtureVars, args, lines, opened, known, config>>

\* Mutant of ExplainLine: the lines end with the first failure.
ExplainLine_ShortCircuit ==
  /\ pc = "lines"
  /\ IF Len(lines) = Len(predicates) \/ "fail" \in {lines[i] : i \in DOMAIN lines}
       THEN pc' = "set" /\ UNCHANGED lines
       ELSE lines' = Append(lines, Outcome(predicates[Len(lines) + 1], network)) /\ UNCHANGED pc
  /\ UNCHANGED <<vars, fixtureVars, args, code, opened, known, config>>

\* --explain evaluates each predicate by itself before it evaluates the set.
ExplainLine ==
  /\ pc = "lines"
  /\ IF Len(lines) = Len(predicates)
       THEN pc' = "set" /\ UNCHANGED lines
       ELSE lines' = Append(lines, Outcome(predicates[Len(lines) + 1], network)) /\ UNCHANGED pc
  /\ UNCHANGED <<vars, fixtureVars, args, code, opened, known, config>>

EvaluateSet ==
  /\ Goto("set", "evaluating")
  /\ Evaluate
  /\ UNCHANGED <<fixtureVars, args, lines, code, opened, known, config>>

EvaluateMore ==
  /\ EvaluateNext
  /\ UNCHANGED <<fixtureVars, cliVars>>

CheckReturns ==
  /\ pc = "evaluating"
  /\ result # "none"
  /\ Exit(IF result = "pass" THEN 0 ELSE 1)
  /\ UNCHANGED <<vars, fixtureVars, args, lines, opened, known, config>>

-----------------------------------------------------------------------------
(* The network, as the state that was opened would read it.                *)

Observed == known' = known \cup {network'} /\ UNCHANGED <<pc, args, lines, code, opened, config>>

SystemChanges ==
  /\ opened /\ pc # "done"
  /\ fixture = Unloadable
  /\ NetworkChanges
  /\ Observed
  /\ UNCHANGED fixtureVars

FixtureChanges ==
  /\ pc # "done"
  /\ ClockAdvances
  /\ NetworkChanges
  /\ network' = Reading(fixture, clock')
  /\ Observed

CliNext ==
  \/ ParseFails \/ ParseSucceeds
  \/ RefuseEmpty \/ Dispatch
  \/ OpenSystem \/ LoadFixture \/ OpenFails
  \/ InstallHandlers \/ RunReturns
  \/ ExplainLine \/ EvaluateSet \/ EvaluateMore \/ CheckReturns
  \/ SystemChanges \/ FixtureChanges

CliSpec == CliInit /\ [][CliNext]_allVars

-----------------------------------------------------------------------------
\* parse_duration gives every text of the grammar that fits its seconds, to
\* the second, and refuses every other: digit by digit, the u64 overflows
\* exactly when the number does, and the unit overflows only when it must.
ParseFaithful ==
  /\ pc # "args" /\ config # <<>> =>
       \A i \in DOMAIN config :
         Meaningful(args.durations[i]) /\ config[i] = Seconds(args.durations[i])
  /\ (pc = "done" /\ args.ask \in {"run", "check"} /\ config = <<>>) =>
       \E i \in DOMAIN args.durations : ~Meaningful(args.durations[i])

\* An invocation that is wrong in any of its arguments ends with 4 before any
\* network state is opened, whichever command would have used the argument;
\* check gives 4 for nothing else than that or a state that cannot be opened.
ArgumentsDecide ==
  /\ (args.ask = "run" /\ ~args.command) => ~opened /\ code \in {NoCode, 4}
  /\ (\E i \in DOMAIN args.durations : ~Meaningful(args.durations[i])) => ~opened
  /\ (pc = "done" /\ args.ask = "check" /\ code = 4) => ~opened
  /\ (pc = "done" /\ ~opened) => code = 4 \/ args.ask \in {"help", "version", "bare"}

\* check's code goes back to its flags: 0 says that each flag given was clear
\* (with --any: that some flag was given and was clear) on a network there was
\* since the state was opened, 1 the opposite.
CheckJustified ==
  LET Given == {f \in Flags : args[IF f = "expensive" THEN "reject_expensive" ELSE "reject_low_data"]}
      Was(f, value) == \E net \in known : net[f] = value
  IN  (pc = "done" /\ args.ask = "check") =>
        CASE code = 0 -> IF args.any THEN \E f \in Given : Was(f, FALSE) ELSE \A f \in Given : Was(f, FALSE)
          [] code = 1 -> IF args.any THEN \A f \in Given : Was(f, TRUE) ELSE \E f \in Given : Was(f, TRUE)
          [] OTHER -> code = 4

\* check --explain prints a line for every flag, and when the network has not
\* changed since the state was opened its lines and its code agree, although
\* each comes from an evaluation of its own.
ExplainAgrees ==
  (pc = "done" /\ args.ask = "check" /\ args.explain /\ opened) =>
    /\ Len(lines) = Cardinality({f \in {"reject_expensive", "reject_low_data"} : args[f]})
    /\ \A net \in known : known = {net} =>
         IF args.any
           THEN code = 0 <=> "pass" \in {lines[i] : i \in DOMAIN lines}
           ELSE code = 0 <=> "fail" \notin {lines[i] : i \in DOMAIN lines}
=============================================================================
