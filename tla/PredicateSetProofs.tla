------------------------- MODULE PredicateSetProofs -------------------------
(***************************************************************************)
(* For every list of predicates, every composition and every sequence of   *)
(* network changes: what PredicateSet::evaluate returns is justified by    *)
(* what it read, and on a network that stays it is the set's verdict.      *)
(***************************************************************************)
EXTENDS PredicateSet, TLAPS

\* While the loop is under way the predicates before the one at hand had, each
\* on a network of the call, the outcome that does not decide.
LoopInv ==
  at # 0 =>
    \A i \in 1..(at - 1) : \E net \in seen : Outcome(predicates[i], net) = Otherwise

IInv == TypeOK /\ LoopInv /\ ResultJustified

\* A predicate has one of two outcomes, and one of the two is decisive.
LEMMA Outcomes ==
  ASSUME NEW predicate, NEW net, composition \in {"And", "Or"}
  PROVE  /\ Outcome(predicate, net) \in {"pass", "fail"}
         /\ Decisive # Otherwise
         /\ {Decisive, Otherwise} = {"pass", "fail"}
  BY DEF Outcome, Decisive, Otherwise

LEMMA TypeInit == Init => TypeOK
  BY ListAssumption DEF Init, TypeOK

\* The types are preserved (the loop never runs past the list).
LEMMA TypeStep == TypeOK /\ [Next]_vars => TypeOK'
<1> SUFFICES ASSUME TypeOK, [Next]_vars PROVE TypeOK'
  OBVIOUS
<1> USE DEF TypeOK, setVars
<1>1. CASE Evaluate
  <2>1. predicates # <<>> => Len(predicates) >= 1
    OBVIOUS
  <2>2. seen' \subseteq Networks /\ network' \in seen'
    BY <1>1 DEF Evaluate
  <2> QED
    BY <1>1, <2>1, <2>2 DEF Evaluate, Return, Otherwise
<1>2. CASE EvaluateNext
  BY <1>2 DEF EvaluateNext, Return, Decisive, Otherwise
<1>3. CASE NetworkChanges
  BY <1>3 DEF NetworkChanges
<1>4. CASE UNCHANGED vars
  BY <1>4 DEF vars
<1> QED
  BY <1>1, <1>2, <1>3, <1>4 DEF Next

LEMMA InvStep == IInv /\ [Next]_vars => IInv'
<1> SUFFICES ASSUME IInv, [Next]_vars PROVE LoopInv' /\ ResultJustified'
  BY TypeStep DEF IInv
<1> USE DEF IInv
<1>1. CASE Evaluate
  <2>1. LoopInv'
    BY <1>1 DEF Evaluate, LoopInv, Return
  <2>2. ResultJustified'
    <3>1. CASE predicates = <<>>
      BY <1>1, <3>1 DEF Evaluate, Return, ResultJustified, TypeOK, setVars, Otherwise, Decisive
    <3>2. CASE predicates # <<>>
      BY <1>1, <3>2 DEF Evaluate, ResultJustified, TypeOK, setVars, Otherwise, Decisive
    <3> QED BY <3>1, <3>2
  <2> QED BY <2>1, <2>2
<1>2. CASE EvaluateNext
  <2>1. /\ network \in seen /\ at \in 1..Len(predicates) /\ predicates \in Seq(Flags)
        /\ UNCHANGED <<predicates, composition, seen>>
        /\ Decisive' = Decisive /\ Otherwise' = Otherwise
    BY <1>2 DEF EvaluateNext, TypeOK, setVars, Decisive, Otherwise
  <2>2. CASE Outcome(predicates[at], network) = Decisive
    <3>1. result' = Decisive /\ at' = 0
      BY <1>2, <2>2 DEF EvaluateNext, Return
    <3>2. \E i \in DOMAIN predicates, net \in seen : Outcome(predicates[i], net) = Decisive
      BY <2>1, <2>2
    <3>3. Decisive # Otherwise
      BY DEF Decisive, Otherwise
    <3> QED
      BY <2>1, <3>1, <3>2, <3>3 DEF LoopInv, ResultJustified, Outcome
  <2>3. CASE Outcome(predicates[at], network) # Decisive
    <3>1. Outcome(predicates[at], network) = Otherwise
      BY <2>3, Outcomes DEF TypeOK
    <3>2. \A i \in 1..at : \E net \in seen : Outcome(predicates[i], net) = Otherwise
      <4> SUFFICES ASSUME NEW i \in 1..at
                   PROVE  \E net \in seen : Outcome(predicates[i], net) = Otherwise
        OBVIOUS
      <4>1. CASE i = at
        BY <2>1, <3>1, <4>1
      <4>2. CASE i # at
        <5>1. i \in 1..(at - 1)
          BY <2>1, <4>2
        <5> QED BY <2>1, <5>1 DEF LoopInv
      <4> QED BY <4>1, <4>2
    <3>3. CASE at = Len(predicates)
      <4>1. result' = Otherwise /\ at' = 0
        BY <1>2, <2>3, <3>3 DEF EvaluateNext, Return
      <4>2. \A i \in DOMAIN predicates : \E net \in seen : Outcome(predicates[i], net) = Otherwise
        BY <2>1, <3>2, <3>3
      <4>3. Decisive # Otherwise
        BY DEF Decisive, Otherwise
      <4> QED
        BY <2>1, <4>1, <4>2, <4>3 DEF LoopInv, ResultJustified, Outcome
    <3>4. CASE at # Len(predicates)
      <4>1. at' = at + 1 /\ result' = result /\ result = "none"
        BY <1>2, <2>3, <3>4 DEF EvaluateNext, TypeOK
      <4>2. LoopInv'
        <5>1. 1..(at' - 1) = 1..at
          BY <2>1, <4>1
        <5> QED BY <2>1, <3>2, <5>1 DEF LoopInv, Outcome
      <4>3. ResultJustified'
        BY <2>1, <4>1 DEF ResultJustified, Decisive, Otherwise
      <4> QED BY <4>2, <4>3
    <3> QED BY <3>3, <3>4
  <2> QED BY <2>2, <2>3
<1>3. CASE NetworkChanges
  <2>1. /\ UNCHANGED <<predicates, composition, at, result>>
        /\ Decisive' = Decisive /\ Otherwise' = Otherwise /\ seen \subseteq seen'
    BY <1>3 DEF NetworkChanges, setVars, Decisive, Otherwise
  <2>2. LoopInv'
    BY <2>1 DEF LoopInv, Outcome
  <2>3. ResultJustified'
    BY <2>1 DEF ResultJustified, Outcome
  <2> QED BY <2>2, <2>3
<1>4. CASE UNCHANGED vars
  BY <1>4 DEF vars, setVars, LoopInv, ResultJustified, Decisive, Otherwise, Outcome
<1> QED
  BY <1>1, <1>2, <1>3, <1>4 DEF Next

\* Every state of every evaluation has the types of the module.
THEOREM TypeCorrect == Spec => []TypeOK
  BY TypeInit, TypeStep, PTL DEF Spec

\* evaluate never returns a result that nothing it read accounts for, however
\* often the network changes between two of its reads.
THEOREM EvaluationJustified == Spec => []ResultJustified
<1>1. Init => IInv
  BY TypeInit DEF Init, IInv, LoopInv, ResultJustified, Decisive, Otherwise
<1>2. IInv => ResultJustified
  BY DEF IInv
<1> QED BY <1>1, <1>2, InvStep, PTL DEF Spec

\* A justified result is the verdict when only one network was seen.
LEMMA JustifiedIsVerdict == TypeOK /\ ResultJustified => StableVerdict
<1> SUFFICES ASSUME TypeOK, ResultJustified,
                    NEW net \in Networks, result # "none", seen = {net}
             PROVE  result = "pass" <=> Verdict(net)
  BY DEF StableVerdict
<1>1. result \in {"pass", "fail"}
  BY DEF TypeOK
<1>2. CASE composition = "And"
  <2>1. Decisive = "fail" /\ Otherwise = "pass"
    BY <1>2 DEF Decisive, Otherwise
  <2>2. CASE result = "fail"
    BY <1>2, <2>1, <2>2 DEF ResultJustified, Verdict
  <2>3. CASE result = "pass"
    BY <1>2, <2>1, <2>3 DEF ResultJustified, Verdict
  <2> QED BY <1>1, <2>2, <2>3
<1>3. CASE composition = "Or"
  <2>1. Decisive = "pass" /\ Otherwise = "fail"
    BY <1>3 DEF Decisive, Otherwise
  <2>2. CASE result = "fail"
    BY <1>3, <2>1, <2>2 DEF ResultJustified, Verdict
  <2>3. CASE result = "pass"
    BY <1>3, <2>1, <2>3 DEF ResultJustified, Verdict
  <2> QED BY <1>1, <2>2, <2>3
<1> QED
  BY <1>2, <1>3 DEF TypeOK

\* On a network that does not change during the call, evaluate returns the
\* verdict of the set: AND is "all pass", OR is "one passes", the empty AND
\* passes and the empty OR fails.
THEOREM StableEvaluation == Spec => []StableVerdict
  BY TypeCorrect, EvaluationJustified, JustifiedIsVerdict, PTL
=============================================================================
