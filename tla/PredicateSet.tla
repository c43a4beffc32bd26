---------------------------- MODULE PredicateSet ----------------------------
(***************************************************************************)
(* PredicateSet::evaluate (src/predicate/mod.rs) over the predicates of    *)
(* src/predicate/metered.rs.  Each predicate awaits one flag of the        *)
(* network state, and the state's reader takes its lock for that flag      *)
(* alone: between two predicates the network may become another one.       *)
(*                                                                         *)
(* A predicate is represented by the flag it rejects: RejectExpensive by   *)
(* "expensive", RejectLowData by "low_data".                               *)
(***************************************************************************)
EXTENDS NetworkState, Naturals, Sequences

CONSTANT PredicateLists     \* the lists of predicates a set is built from

ASSUME ListAssumption == PredicateLists \subseteq Seq(Flags)

VARIABLES
  predicates, composition,  \* the fields of the PredicateSet
  network,                  \* what the flags are now
  at,                       \* the predicate the loop is at; 0 between calls
  result,                   \* of the last call: "none" until it returns
  seen                      \* history: the networks there were during the call

setVars == <<predicates, composition>>
vars == <<setVars, network, at, result, seen>>

\* RejectExpensive::evaluate and RejectLowData::evaluate on a network.
Outcome(predicate, net) == IF net[predicate] THEN "fail" ELSE "pass"

\* Mutant of Decisive: a failure ends the loop under OR, too.
Decisive_Fail == "fail"

\* The outcome of one predicate that the loop returns at once, and what it
\* returns when no predicate had it (an empty list included).
Decisive == IF composition = "And" THEN "fail" ELSE "pass"
Otherwise == IF composition = "And" THEN "pass" ELSE "fail"

\* What the set means on a network that does not change.
Verdict(net) ==
  IF composition = "And"
    THEN \A i \in DOMAIN predicates : Outcome(predicates[i], net) = "pass"
    ELSE \E i \in DOMAIN predicates : Outcome(predicates[i], net) = "pass"

Init ==
  /\ predicates \in PredicateLists
  /\ composition \in {"And", "Or"}
  /\ network \in Networks
  /\ at = 0
  /\ result = "none"
  /\ seen = {}

Return(outcome) == at' = 0 /\ result' = outcome

\* evaluate is called.  Without a predicate it returns at once.
Evaluate ==
  /\ at = 0
  /\ seen' = {network}
  /\ IF predicates = <<>>
       THEN Return(Otherwise)
       ELSE at' = 1 /\ result' = "none"
  /\ UNCHANGED <<setVars, network>>

\* Mutant of EvaluateNext: the last predicate alone makes the result.
EvaluateNext_LastWins ==
  /\ at # 0
  /\ IF at = Len(predicates) THEN Return(Outcome(predicates[at], network))
     ELSE at' = at + 1 /\ UNCHANGED result
  /\ UNCHANGED <<setVars, network, seen>>

\* One turn of the loop: the predicate at hand reads its flag.
EvaluateNext ==
  /\ at # 0
  /\ IF Outcome(predicates[at], network) = Decisive THEN Return(Decisive)
     ELSE IF at = Len(predicates) THEN Return(Otherwise)
     ELSE at' = at + 1 /\ UNCHANGED result
  /\ UNCHANGED <<setVars, network, seen>>

\* The system reports another path; a report sets all the flags together.
NetworkChanges ==
  /\ network' \in Networks
  /\ seen' = IF at = 0 THEN seen ELSE seen \cup {network'}
  /\ UNCHANGED <<setVars, at, result>>

Next == Evaluate \/ EvaluateNext \/ NetworkChanges

Spec == Init /\ [][Next]_vars

-----------------------------------------------------------------------------
\* Types, and that the network of the moment is one of those seen in a call.
TypeOK ==
  /\ predicates \in Seq(Flags)
  /\ composition \in {"And", "Or"}
  /\ network \in Networks
  /\ at \in 0..Len(predicates)
  /\ result \in {"none", "pass", "fail"}
  /\ seen \subseteq Networks
  /\ at # 0 => result = "none" /\ network \in seen

\* Whatever the network does meanwhile, the result rests on what was there:
\* the predicate that decided it was so on some network of the call, or every
\* predicate was otherwise, each on some network of the call.
ResultJustified ==
  /\ result = Decisive =>
       \E i \in DOMAIN predicates, net \in seen : Outcome(predicates[i], net) = Decisive
  /\ result = Otherwise =>
       \A i \in DOMAIN predicates :
         \E net \in seen : Outcome(predicates[i], net) = Otherwise

\* If the network does not change during the call, the early returns of the
\* loop compute the verdict of the set, on empty lists too.
StableVerdict ==
  \A net \in Networks :
    (result # "none" /\ seen = {net}) => (result = "pass" <=> Verdict(net))
=============================================================================
