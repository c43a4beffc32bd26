------------------------------ MODULE Fixture ------------------------------
(***************************************************************************)
(* FixtureNetworkState (src/state/fixture.rs), the network state of builds *)
(* with the test-fixture feature: a JSON file with one snapshot, or with   *)
(* snapshots and the times they apply from, counted from when the file was *)
(* loaded.  Nothing requires the file to list them in order or to give     *)
(* each a time of its own.                                                 *)
(***************************************************************************)
EXTENDS NetworkState, Integers, Sequences

CONSTANT MaxClock   \* bound: the fixture's clock stops here

ASSUME FixtureAssumption == MaxClock \in Nat

Static(snapshot) == [form |-> "static", state |-> snapshot]
Sequence(list) == [form |-> "sequence", list |-> list]
Unloadable == [form |-> "unloadable"]   \* missing, unreadable or malformed

VARIABLES
  fixture,      \* Inner::fixture, Unloadable before the load
  clock,        \* the time since Inner::created_at
  replayed      \* history: the fixture played forward, a moment at a time

fixtureVars == <<fixture, clock, replayed>>

\* Mutant of Latest: the last in the list.
Latest_InList(list, due) == CHOOSE i \in due : \A j \in due : j <= i

\* Iterator::max_by returns the last of several maxima.
Latest(list, due) ==
  CHOOSE i \in due : \A j \in due :
    list[j].at < list[i].at \/ (list[j].at = list[i].at /\ j <= i)

SnapshotAt(list, elapsed) ==
  LET due == {i \in DOMAIN list : list[i].at <= elapsed}
  IN  IF due = {} THEN AllClear ELSE list[Latest(list, due)].state

\* What is_expensive and is_low_data_mode read a flag of.
Reading(fix, elapsed) ==
  IF fix.form = "static" THEN fix.state ELSE SnapshotAt(fix.list, elapsed)

-----------------------------------------------------------------------------
\* The transitions of one moment applied in the order they are listed: the last
\* of them stays.
Play(list, moment, before) ==
  LET now == {i \in DOMAIN list : list[i].at = moment}
  IN  IF now = {} THEN before ELSE list[CHOOSE i \in now : \A j \in now : j <= i].state

Apply(fix, moment, before) ==
  IF fix.form = "static" THEN fix.state ELSE Play(fix.list, moment, before)

FixtureInit == fixture = Unloadable /\ clock = 0 /\ replayed = AllClear

Load(fix) ==
  /\ fixture' = fix
  /\ clock' = 0
  /\ replayed' = Apply(fix, 0, AllClear)

ClockAdvances ==
  /\ fixture # Unloadable
  /\ clock < MaxClock
  /\ clock' = clock + 1
  /\ replayed' = Apply(fixture, clock', replayed)
  /\ UNCHANGED fixture

\* Looking the snapshot up from nothing at every read, in a list in any order
\* and with ties, gives what playing the list forward gives.
LookupIsReplay == fixture # Unloadable => Reading(fixture, clock) = replayed
=============================================================================
