------------------------------ MODULE CliProofs ------------------------------
(***************************************************************************)
(* For every width of a u64, every duration text, every fixture and every  *)
(* command line: durations are parsed exactly, fixtures are replayed, and  *)
(* what an invocation does and returns is what its arguments ask for.      *)
(*                                                                         *)
(* Induction is over sets of naturals, each with the property to be shown; *)
(* a recursive function is shown to exist before it is unfolded.           *)
(***************************************************************************)
EXTENDS Cli, PredicateSetProofs, WellFoundedInduction, FiniteSetTheorems

LessThan == {p \in Nat \X Nat : p[1] < p[2]}

LEMMA LessThanWellFounded == IsWellFoundedOn(LessThan, Nat)
<1>1. LessThan = OpToRel(<, Nat)
  BY Zenon DEF LessThan, OpToRel
<1> QED BY <1>1, NatLessThanWellFounded, Zenon

\* A set of naturals with 0 and the successors of its members is that of all.
LEMMA SetInduction ==
  ASSUME NEW S \in SUBSET Nat, 0 \in S, \A n \in S : n + 1 \in S
  PROVE  S = Nat
<1> SUFFICES ASSUME Nat \ S # {} PROVE FALSE
  OBVIOUS
<1>1. PICK x \in Nat \ S : \A y \in Nat \ S : ~(<<y, x>> \in LessThan)
  BY LessThanWellFounded, WFMin
<1>2. x \in Nat /\ x - 1 \in Nat /\ x - 1 < x /\ x - 1 \notin S
  OBVIOUS
<1>3. <<x - 1, x>> \in LessThan
  BY <1>2 DEF LessThan
<1> QED BY <1>1, <1>2, <1>3

\* The same for an interval.
LEMMA IntervalInduction ==
  ASSUME NEW n \in Nat, NEW K, 0 \in K, \A i \in 1..n : i - 1 \in K => i \in K
  PROVE  0..n \subseteq K
<1> DEFINE S == {i \in Nat : i <= n => i \in K}
<1>1. S \in SUBSET Nat /\ 0 \in S
  OBVIOUS
<1>2. ASSUME NEW i \in S PROVE i + 1 \in S
  <2> SUFFICES ASSUME i + 1 <= n PROVE i + 1 \in K
    OBVIOUS
  <2>1. i \in K /\ i + 1 \in 1..n /\ (i + 1) - 1 = i
    OBVIOUS
  <2> QED BY <2>1
<1>3. S = Nat
  <2> HIDE DEF S
  <2> QED BY <1>1, <1>2, SetInduction
<1> QED BY <1>3

\* A set of naturals below a bound has a greatest member.
LEMMA Greatest ==
  ASSUME NEW S \in SUBSET Nat, S # {}, NEW bound \in Nat, \A n \in S : n <= bound
  PROVE  \E m \in S : \A n \in S : n <= m
<1> DEFINE D == {d \in Nat : bound - d \in S}
<1>1. D \subseteq Nat /\ D # {}
  <2> PICK n \in S : TRUE
    OBVIOUS
  <2>1. bound - n \in Nat /\ bound - (bound - n) = n
    OBVIOUS
  <2> QED BY <2>1
<1>2. PICK x \in D : \A y \in D : ~(<<y, x>> \in LessThan)
  BY <1>1, LessThanWellFounded, WFMin
<1>3. bound - x \in S
  BY <1>2
<1>4. ASSUME NEW n \in S PROVE n <= bound - x
  <2> SUFFICES ASSUME n > bound - x PROVE FALSE
    OBVIOUS
  <2>1. bound - n \in Nat /\ bound - (bound - n) = n /\ bound - n < x
    OBVIOUS
  <2>2. <<bound - n, x>> \in LessThan
    BY <2>1 DEF LessThan
  <2> QED BY <1>2, <2>1, <2>2
<1> QED BY <1>3, <1>4

\* A function that is defined by recursion over 0..n, by a first value and a
\* step, exists.
Recursive(f, n, first, step) ==
  f = [i \in 0..n |-> IF i = 0 THEN first ELSE step[<<i, f[i - 1]>>]]

LEMMA Recursion ==
  ASSUME NEW n \in Nat, NEW S, NEW first \in S, NEW step \in [(1..n) \X S -> S]
  PROVE  \E f \in [0..n -> S] : Recursive(f, n, first, step)
<1> DEFINE Upto(m, f) == \A i \in 0..m : f[i] = IF i = 0 THEN first ELSE step[<<i, f[i - 1]>>]
           K == {m \in Nat : m <= n => \E f \in [0..m -> S] : Upto(m, f)}
<1>1. 0 \in K
  <2>1. Upto(0, [i \in 0..0 |-> first]) /\ [i \in 0..0 |-> first] \in [0..0 -> S]
    OBVIOUS
  <2> QED BY <2>1
<1>2. ASSUME NEW m \in K PROVE m + 1 \in K
  <2> SUFFICES ASSUME m + 1 <= n PROVE \E f \in [0..(m + 1) -> S] : Upto(m + 1, f)
    OBVIOUS
  <2>1. PICK f \in [0..m -> S] : Upto(m, f)
    OBVIOUS
  <2> DEFINE g == [i \in 0..(m + 1) |-> IF i <= m THEN f[i] ELSE step[<<i, f[m]>>]]
  <2>2. step[<<m + 1, f[m]>>] \in S
    OBVIOUS
  <2>3. g \in [0..(m + 1) -> S]
    BY <2>2
  <2>4. ASSUME NEW i \in 0..(m + 1)
        PROVE  g[i] = IF i = 0 THEN first ELSE step[<<i, g[i - 1]>>]
    <3>1. CASE i <= m
      <4>1. i \in 0..m /\ (i # 0 => i - 1 \in 0..m) /\ g[i] = f[i] /\ (i # 0 => g[i - 1] = f[i - 1])
        BY <3>1
      <4> QED BY <2>1, <4>1
    <3>2. CASE i = m + 1
      BY <3>2
    <3> QED BY <3>1, <3>2
  <2> QED BY <2>3, <2>4
<1>4. K \in SUBSET Nat
  OBVIOUS
<1>3. PICK f \in [0..n -> S] : Upto(n, f)
  <2>1. K = Nat
    <3> HIDE DEF K
    <3> QED BY <1>1, <1>2, <1>4, SetInduction
  <2> QED BY <2>1
<1> QED BY <1>3 DEF Recursive

-----------------------------------------------------------------------------
(* Duration.                                                               *)

LEMMA DigitAt ==
  ASSUME NEW digits \in Seq(0..9), NEW i \in 1..Len(digits)
  PROVE  digits[i] \in 0..9
  OBVIOUS

LEMMA PushDigitType ==
  ASSUME NEW n \in {Invalid} \cup 0..MaxU64, NEW digit \in 0..9
  PROVE  PushDigit(n, digit) \in {Invalid} \cup 0..MaxU64
  BY WidthAssumption DEF PushDigit, Invalid

\* The three recursive functions of Duration, unfolded.
LEMMA Parsed_Unfold ==
  ASSUME NEW digits \in Seq(0..9)
  PROVE  /\ ParsedPrefixes(digits) \in [0..Len(digits) -> {Invalid} \cup 0..MaxU64]
         /\ ParsedPrefixes(digits)[0] = 0
         /\ \A i \in 1..Len(digits) :
              ParsedPrefixes(digits)[i] = PushDigit(ParsedPrefixes(digits)[i - 1], digits[i])
<1> DEFINE n == Len(digits)
           S == {Invalid} \cup 0..MaxU64
           step == [p \in (1..n) \X S |-> PushDigit(p[2], digits[p[1]])]
<1>1. 0 \in S /\ n \in Nat
  BY WidthAssumption
<1>2. step \in [(1..n) \X S -> S]
  <2> SUFFICES ASSUME NEW i \in 1..n, NEW m \in S PROVE PushDigit(m, digits[i]) \in S
    OBVIOUS
  <2>1. digits[i] \in 0..9
    BY DigitAt
  <2> QED BY <2>1, PushDigitType
<1>3. PICK f \in [0..n -> S] : Recursive(f, n, 0, step)
  <2> HIDE DEF step, n, S
  <2> QED BY <1>1, <1>2, Recursion
<1>4. f = [i \in 0..n |-> IF i = 0 THEN 0 ELSE PushDigit(f[i - 1], digits[i])]
  <2> SUFFICES ASSUME NEW i \in 0..n
               PROVE  f[i] = IF i = 0 THEN 0 ELSE PushDigit(f[i - 1], digits[i])
    OBVIOUS
  <2>1. CASE i = 0
    BY <1>3, <2>1 DEF Recursive
  <2>2. CASE i # 0
    <3>1. <<i, f[i - 1]>> \in (1..n) \X S
      BY <2>2
    <3>2. step[<<i, f[i - 1]>>] = PushDigit(f[i - 1], digits[i])
      BY <3>1
    <3> QED BY <1>3, <2>2, <3>2 DEF Recursive
  <2> QED BY <2>1, <2>2
<1> DEFINE g == ParsedPrefixes(digits)
<1>5. g = [i \in 0..n |-> IF i = 0 THEN 0 ELSE PushDigit(g[i - 1], digits[i])]
  BY <1>4, Zenon DEF ParsedPrefixes
<1> HIDE DEF g
<1>6. \A i \in 0..n : g[i] \in S
  <2> DEFINE K == {i \in 0..n : g[i] \in S}
  <2>1. 0 \in K
    BY <1>1, <1>5
  <2>2. ASSUME NEW i \in 1..n, i - 1 \in K PROVE i \in K
    <3>1. digits[i] \in 0..9 /\ g[i - 1] \in S
      BY <2>2, DigitAt
    <3>2. PushDigit(g[i - 1], digits[i]) \in S
      BY <3>1, PushDigitType
    <3> QED BY <1>5, <2>2, <3>2
  <2>3. 0..n \subseteq K
    <3> HIDE DEF K
    <3> QED BY <1>1, <2>1, <2>2, IntervalInduction
  <2> QED BY <2>3
<1>7. g \in [0..n -> S] /\ g[0] = 0 /\ \A i \in 1..n : g[i] = PushDigit(g[i - 1], digits[i])
  BY <1>5, <1>6
<1> QED BY <1>7 DEF g

LEMMA Tens_Unfold ==
  ASSUME NEW n \in Nat
  PROVE  /\ Tens(n) \in [0..n -> Nat]
         /\ Tens(n)[0] = 1
         /\ \A i \in 1..n : Tens(n)[i] = 10 * Tens(n)[i - 1]
<1> DEFINE step == [p \in (1..n) \X Nat |-> 10 * p[2]]
           g == Tens(n)
<1>1. step \in [(1..n) \X Nat -> Nat]
  OBVIOUS
<1>2. PICK f \in [0..n -> Nat] : Recursive(f, n, 1, step)
  <2> HIDE DEF step
  <2> QED BY <1>1, Recursion
<1>3. f = [i \in 0..n |-> IF i = 0 THEN 1 ELSE 10 * f[i - 1]]
  <2> SUFFICES ASSUME NEW i \in 0..n PROVE f[i] = IF i = 0 THEN 1 ELSE 10 * f[i - 1]
    OBVIOUS
  <2>1. i # 0 => <<i, f[i - 1]>> \in (1..n) \X Nat
    OBVIOUS
  <2>2. i # 0 => step[<<i, f[i - 1]>>] = 10 * f[i - 1]
    BY <2>1
  <2> HIDE DEF step
  <2> QED BY <1>2, <2>2 DEF Recursive
<1>4. g = [i \in 0..n |-> IF i = 0 THEN 1 ELSE 10 * g[i - 1]]
  BY <1>3, Zenon DEF Tens
<1> HIDE DEF g
<1>5. \A i \in 0..n : g[i] \in Nat
  <2> DEFINE K == {i \in 0..n : g[i] \in Nat}
  <2>1. 0 \in K
    BY <1>4
  <2>2. ASSUME NEW i \in 1..n, i - 1 \in K PROVE i \in K
    BY <1>4, <2>2
  <2>3. 0..n \subseteq K
    <3> HIDE DEF K
    <3> QED BY <2>1, <2>2, IntervalInduction
  <2> QED BY <2>3
<1>6. g \in [0..n -> Nat] /\ g[0] = 1 /\ \A i \in 1..n : g[i] = 10 * g[i - 1]
  BY <1>4, <1>5
<1> QED BY <1>6 DEF g

LEMMA PlaceSums_Unfold ==
  ASSUME NEW digits \in Seq(0..9)
  PROVE  LET n == Len(digits) IN
         /\ PlaceSums(digits) \in [0..n -> Nat]
         /\ PlaceSums(digits)[0] = 0
         /\ \A i \in 1..n :
              PlaceSums(digits)[i] = PlaceSums(digits)[i - 1] + digits[i] * Tens(n)[n - i]
<1> DEFINE n == Len(digits)
           step == [p \in (1..n) \X Nat |-> p[2] + digits[p[1]] * Tens(n)[n - p[1]]]
           g == PlaceSums(digits)
<1>0. n \in Nat
  OBVIOUS
<1>1. step \in [(1..n) \X Nat -> Nat]
  <2> SUFFICES ASSUME NEW i \in 1..n, NEW m \in Nat PROVE m + digits[i] * Tens(n)[n - i] \in Nat
    OBVIOUS
  <2>1. digits[i] \in Nat
    BY DigitAt
  <2>2. Tens(n)[n - i] \in Nat
    BY <1>0, Tens_Unfold
  <2>3. digits[i] * Tens(n)[n - i] \in Nat
    BY <2>1, <2>2
  <2> QED BY <2>3
<1>2. PICK f \in [0..n -> Nat] : Recursive(f, n, 0, step)
  <2> HIDE DEF step, n
  <2> QED BY <1>0, <1>1, Recursion
<1>3. f = [i \in 0..n |-> IF i = 0 THEN 0 ELSE f[i - 1] + digits[i] * Tens(n)[n - i]]
  <2> SUFFICES ASSUME NEW i \in 0..n
               PROVE  f[i] = IF i = 0 THEN 0 ELSE f[i - 1] + digits[i] * Tens(n)[n - i]
    OBVIOUS
  <2>1. i # 0 => <<i, f[i - 1]>> \in (1..n) \X Nat
    OBVIOUS
  <2>2. i # 0 => step[<<i, f[i - 1]>>] = f[i - 1] + digits[i] * Tens(n)[n - i]
    BY <2>1
  <2> HIDE DEF step, n
  <2> QED BY <1>2, <2>2 DEF Recursive
<1>4. g = [i \in 0..n |-> IF i = 0 THEN 0 ELSE g[i - 1] + digits[i] * Tens(n)[n - i]]
  BY <1>3, Zenon DEF PlaceSums
<1> HIDE DEF g
<1>5. \A i \in 0..n : g[i] \in Nat
  <2> DEFINE K == {i \in 0..n : g[i] \in Nat}
  <2>1. 0 \in K
    BY <1>0, <1>4
  <2>2. ASSUME NEW i \in 1..n, i - 1 \in K PROVE i \in K
    <3>1. <<i, g[i - 1]>> \in (1..n) \X Nat
      BY <2>2
    <3>2. step[<<i, g[i - 1]>>] \in Nat
      <4> HIDE DEF step
      <4> QED BY <1>1, <3>1
    <3>3. g[i] = g[i - 1] + digits[i] * Tens(n)[n - i]
      <4> HIDE DEF step
      <4> QED BY <1>0, <1>4
    <3>4. g[i] = step[<<i, g[i - 1]>>]
      BY <3>1, <3>3
    <3> QED BY <3>2, <3>4
  <2>3. 0..n \subseteq K
    <3> HIDE DEF K
    <3> QED BY <1>0, <2>1, <2>2, IntervalInduction
  <2> QED BY <2>3
<1>6. /\ g \in [0..n -> Nat] /\ g[0] = 0
      /\ \A i \in 1..n : g[i] = g[i - 1] + digits[i] * Tens(n)[n - i]
  <2> HIDE DEF n, step
  <2> QED BY <1>0, <1>4, <1>5
<1> QED BY <1>6 DEF g

\* What was parsed of some digits is their sum, in units of the place of the last
\* of them, or that sum is too large.
Stands(n, sum, place) == IF n = Invalid THEN sum > MaxU64 * place ELSE sum = n * place

\* So it is with one digit more.
LEMMA DigitStep ==
  ASSUME NEW n \in {Invalid} \cup 0..MaxU64, NEW digit \in 0..9,
         NEW sum \in Nat, NEW place \in Nat, place >= 1,
         Stands(n, sum, 10 * place)
  PROVE  Stands(PushDigit(n, digit), sum + digit * place, place)
<1> USE WidthAssumption DEF Invalid, Stands
<1>0. digit * place \in Nat /\ MaxU64 * place \in Nat
  OBVIOUS
<1>1. CASE n = Invalid
  <2>1. PushDigit(n, digit) = Invalid
    BY <1>1 DEF PushDigit
  <2>2. MaxU64 * (10 * place) >= MaxU64 * place
    <3>1. MaxU64 * (10 * place) = 10 * (MaxU64 * place)
      OBVIOUS
    <3> QED BY <1>0, <3>1
  <2> QED BY <1>0, <1>1, <2>1, <2>2
<1>2. CASE n # Invalid
  <2>1. n \in Nat /\ n * 10 + digit \in Nat
    BY <1>2
  <2>2. sum + digit * place = (n * 10 + digit) * place
    BY <1>2, <2>1
  <2>3. CASE n * 10 + digit <= MaxU64
    <3>1. PushDigit(n, digit) = n * 10 + digit
      BY <1>2, <2>1, <2>3 DEF PushDigit
    <3> QED BY <2>1, <2>2, <3>1
  <2>4. CASE n * 10 + digit > MaxU64
    <3>1. PushDigit(n, digit) = Invalid
      BY <2>4 DEF PushDigit
    <3>2. (n * 10 + digit) * place > MaxU64 * place
      BY <2>1, <2>4
    <3> QED BY <2>2, <3>1, <3>2
  <2> QED BY <2>1, <2>3, <2>4
<1> QED BY <1>1, <1>2

\* str::parse::<u64> gives the number the digits stand for, and fails exactly
\* when it does not fit: no digit overflows before the number does.
LEMMA ParseIsNumber ==
  ASSUME NEW digits \in Seq(0..9)
  PROVE  /\ Number(digits) \in Nat
         /\ ParseU64(digits) = IF Number(digits) <= MaxU64 THEN Number(digits) ELSE Invalid
<1> DEFINE n == Len(digits)
           p == ParsedPrefixes(digits)
           s == PlaceSums(digits)
           t == Tens(n)
           K == {i \in 0..n : Stands(p[i], s[i], t[n - i])}
<1>0. n \in Nat
  OBVIOUS
<1>1. /\ p \in [0..n -> {Invalid} \cup 0..MaxU64] /\ p[0] = 0
      /\ \A i \in 1..n : p[i] = PushDigit(p[i - 1], digits[i])
  BY Parsed_Unfold
<1>2. /\ s \in [0..n -> Nat] /\ s[0] = 0
      /\ \A i \in 1..n : s[i] = s[i - 1] + digits[i] * t[n - i]
  BY PlaceSums_Unfold
<1>3. t \in [0..n -> Nat] /\ t[0] = 1 /\ \A i \in 1..n : t[i] = 10 * t[i - 1]
  BY <1>0, Tens_Unfold
<1>4. \A i \in 1..n : digits[i] \in 0..9
  BY DigitAt
<1> HIDE DEF n, p, s, t
<1>5. \A i \in 0..n : t[i] >= 1
  <2> DEFINE L == {i \in 0..n : t[i] >= 1}
  <2>1. 0 \in L
    BY <1>0, <1>3
  <2>2. ASSUME NEW i \in 1..n, i - 1 \in L PROVE i \in L
    <3>1. t[i] = 10 * t[i - 1] /\ t[i - 1] \in Nat /\ t[i - 1] >= 1
      BY <1>0, <1>3, <2>2
    <3> QED BY <1>0, <3>1
  <2>3. 0..n \subseteq L
    <3> HIDE DEF L
    <3> QED BY <1>0, <2>1, <2>2, IntervalInduction
  <2> QED BY <2>3
<1>6. 0 \in K
  BY <1>0, <1>1, <1>2, <1>3 DEF Invalid, Stands
<1>7. ASSUME NEW i \in 1..n, i - 1 \in K PROVE i \in K
  <2>1. n - i \in 0..n /\ n - (i - 1) = (n - i) + 1 /\ (n - i) + 1 \in 1..n /\ i \in 0..n /\ i - 1 \in 0..n
    BY <1>0
  <2>2. t[n - (i - 1)] = 10 * t[n - i] /\ t[n - i] \in Nat /\ t[n - i] >= 1
    BY <1>3, <1>5, <2>1
  <2>3. Stands(p[i - 1], s[i - 1], 10 * t[n - i])
    BY <1>7, <2>2
  <2>4. /\ p[i - 1] \in {Invalid} \cup 0..MaxU64 /\ digits[i] \in 0..9 /\ s[i - 1] \in Nat
        /\ p[i] = PushDigit(p[i - 1], digits[i]) /\ s[i] = s[i - 1] + digits[i] * t[n - i]
    BY <1>1, <1>2, <1>4, <2>1
  <2>5. Stands(p[i], s[i], t[n - i])
    BY <2>2, <2>3, <2>4, DigitStep
  <2> QED BY <2>1, <2>5
<1>8. n \in K
  <2>1. 0..n \subseteq K
    <3> HIDE DEF K
    <3> QED BY <1>0, <1>6, <1>7, IntervalInduction
  <2> QED BY <1>0, <2>1
<1>9. /\ s[n] \in Nat /\ p[n] \in {Invalid} \cup 0..MaxU64
      /\ IF p[n] = Invalid THEN s[n] > MaxU64 ELSE s[n] = p[n]
  <2>1. n - n = 0 /\ n \in 0..n
    BY <1>0
  <2>2. MaxU64 * 1 = MaxU64 /\ (p[n] # Invalid => p[n] * 1 = p[n])
    BY <1>1, <2>1, WidthAssumption
  <2> QED BY <1>1, <1>2, <1>3, <1>8, <2>1, <2>2 DEF Stands
<1>10. p[n] = IF s[n] <= MaxU64 THEN s[n] ELSE Invalid
  BY <1>9, WidthAssumption
<1>11. Number(digits) = s[n] /\ ParseU64(digits) = p[n]
  BY DEF Number, ParseU64, n, p, s
<1> QED BY <1>9, <1>10, <1>11

\* parse_duration (cli.rs:115-147) is exact: a text of its grammar that fits a
\* u64 in seconds is that number of seconds, and every other text is refused.
THEOREM ParseIsExact ==
  ASSUME NEW text \in Texts
  PROVE  /\ Seconds(text) \in Nat
         /\ ParseDuration(text) = IF Meaningful(text) THEN Seconds(text) ELSE Invalid
<1> DEFINE num == Number(text.digits)
           n == ParseU64(text.digits)
<1>1. text.digits \in Seq(0..9) /\ text.unit \in {"", "s", "m", "h", "other"}
  BY DEF Texts
<1>2. num \in Nat /\ n = IF num <= MaxU64 THEN num ELSE Invalid
  BY <1>1, ParseIsNumber
<1>3. Seconds(text) = num * (CASE text.unit = "h" -> 3600 [] text.unit = "m" -> 60 [] OTHER -> 1)
  BY DEF Seconds
<1>4. ParseDuration(text) =
        IF text.digits = <<>> \/ n = Invalid THEN Invalid
        ELSE IF text.unit \in {"", "s"} THEN n
        ELSE IF text.unit \in DOMAIN UnitSeconds THEN CheckedMul(n, UnitSeconds[text.unit])
        ELSE Invalid
  BY DEF ParseDuration
<1> HIDE DEF num, n
<1> USE WidthAssumption DEF Invalid, Meaningful
<1>5. CASE text.unit \in {"", "s", "other"}
  <2>1. Seconds(text) = num
    <3>1. text.unit # "h" /\ text.unit # "m"
      BY <1>5
    <3>2. (CASE text.unit = "h" -> 3600 [] text.unit = "m" -> 60 [] OTHER -> 1) = 1
      BY <3>1
    <3>3. Seconds(text) = num * 1
      BY <1>3, <3>2
    <3> QED BY <1>2, <3>3
  <2>2. text.unit = "other" => text.unit \notin DOMAIN UnitSeconds
    BY DEF UnitSeconds
  <2> QED BY <1>2, <1>4, <1>5, <2>1, <2>2
<1>6. CASE text.unit = "m"
  <2>1. Seconds(text) = num * 60
    BY <1>2, <1>3, <1>6
  <2>2. text.unit \in DOMAIN UnitSeconds /\ UnitSeconds[text.unit] = 60
    BY <1>6 DEF UnitSeconds
  <2> QED BY <1>2, <1>4, <1>6, <2>1, <2>2 DEF CheckedMul
<1>7. CASE text.unit = "h"
  <2>1. Seconds(text) = num * 3600
    BY <1>2, <1>3, <1>7
  <2>2. text.unit \in DOMAIN UnitSeconds /\ UnitSeconds[text.unit] = 3600
    BY <1>7 DEF UnitSeconds
  <2> QED BY <1>2, <1>4, <1>7, <2>1, <2>2 DEF CheckedMul
<1> QED BY <1>1, <1>5, <1>6, <1>7

-----------------------------------------------------------------------------
(* Fixture.                                                                *)

Transitions == [at : Nat, state : Networks]

LEMMA EntryAt ==
  ASSUME NEW list \in Seq(Transitions), NEW i \in DOMAIN list
  PROVE  i \in Nat /\ i <= Len(list) /\ list[i].at \in Nat /\ list[i].state \in Networks
<1>1. i \in Nat /\ i <= Len(list) /\ list[i] \in Transitions
  OBVIOUS
<1> QED BY <1>1 DEF Transitions

\* Of the entries that are due there is one the lookup takes, and only one.
LEMMA LatestExists ==
  ASSUME NEW list \in Seq(Transitions), NEW due \in SUBSET DOMAIN list, due # {},
         NEW elapsed \in Nat, \A i \in due : list[i].at <= elapsed
  PROVE  \E i \in due : \A j \in due :
           list[j].at < list[i].at \/ (list[j].at = list[i].at /\ j <= i)
<1>1. \A i \in due : list[i].at \in Nat /\ i \in Nat /\ i <= Len(list)
  BY EntryAt
<1>2. PICK latest \in {list[i].at : i \in due} : \A n \in {list[i].at : i \in due} : n <= latest
  <2>1. {list[i].at : i \in due} \in SUBSET Nat /\ {list[i].at : i \in due} # {}
    BY <1>1
  <2>2. \A n \in {list[i].at : i \in due} : n <= elapsed
    OBVIOUS
  <2> QED BY <2>1, <2>2, Greatest
<1> DEFINE last == {i \in due : list[i].at = latest}
<1>3. PICK i \in last : \A j \in last : j <= i
  <2>1. last \in SUBSET Nat /\ last # {} /\ \A j \in last : j <= Len(list)
    BY <1>1, <1>2
  <2>2. Len(list) \in Nat
    OBVIOUS
  <2> HIDE DEF last
  <2> QED BY <2>1, <2>2, Greatest
<1>4. ASSUME NEW j \in due
      PROVE  list[j].at < list[i].at \/ (list[j].at = list[i].at /\ j <= i)
  <2>1. list[j].at <= latest /\ list[i].at = latest /\ list[j].at \in Nat /\ latest \in Nat
    BY <1>1, <1>2, <1>3
  <2>2. CASE list[j].at = latest
    BY <1>3, <2>1, <2>2
  <2>3. CASE list[j].at # latest
    BY <2>1, <2>3
  <2> QED BY <2>2, <2>3
<1> QED BY <1>3, <1>4

LEMMA LatestIs ==
  ASSUME NEW list \in Seq(Transitions), NEW due \in SUBSET DOMAIN list, NEW i \in due,
         \A j \in due : list[j].at < list[i].at \/ (list[j].at = list[i].at /\ j <= i)
  PROVE  Latest(list, due) = i
<1> DEFINE Is(k) == \A j \in due : list[j].at < list[k].at \/ (list[j].at = list[k].at /\ j <= k)
<1>1. ASSUME NEW k \in due, Is(k) PROVE k = i
  <2>1. list[i].at \in Nat /\ list[k].at \in Nat /\ i \in Nat /\ k \in Nat
    BY EntryAt
  <2>2. list[k].at < list[i].at \/ (list[k].at = list[i].at /\ k <= i)
    OBVIOUS
  <2>3. list[i].at < list[k].at \/ (list[i].at = list[k].at /\ i <= k)
    BY <1>1
  <2> QED BY <2>1, <2>2, <2>3
<1>2. i \in due /\ Is(i)
  OBVIOUS
<1>3. Latest(list, due) = CHOOSE k \in due : Is(k)
  BY Zenon DEF Latest
<1> HIDE DEF Is
<1> QED BY <1>1, <1>2, <1>3

LEMMA LastOf ==
  ASSUME NEW list \in Seq(Transitions), NEW now \in SUBSET DOMAIN list, now # {}
  PROVE  LET last == CHOOSE i \in now : \A j \in now : j <= i
         IN  last \in now /\ \A j \in now : j <= last
<1>1. now \in SUBSET Nat /\ Len(list) \in Nat /\ \A j \in now : j <= Len(list)
  OBVIOUS
<1>2. \E i \in now : \A j \in now : j <= i
  BY <1>1, Greatest
<1> QED BY <1>2

LEMMA SnapshotType ==
  ASSUME NEW list \in Seq(Transitions), NEW elapsed \in Nat
  PROVE  SnapshotAt(list, elapsed) \in Networks
<1> DEFINE due == {i \in DOMAIN list : list[i].at <= elapsed}
<1>1. CASE due = {}
  BY <1>1 DEF SnapshotAt, AllClear, Networks
<1>2. CASE due # {}
  <2>1. PICK i \in due : \A j \in due :
          list[j].at < list[i].at \/ (list[j].at = list[i].at /\ j <= i)
    BY <1>2, LatestExists
  <2>2. Latest(list, due) = i
    BY <2>1, LatestIs
  <2>3. list[i].state \in Networks
    BY EntryAt
  <2> QED BY <1>2, <2>2, <2>3 DEF SnapshotAt
<1> QED BY <1>1, <1>2

\* A moment later the lookup gives what the transitions of that moment, played
\* on what it gave before, give: in any order of the list, and with ties.
LEMMA SnapshotStep ==
  ASSUME NEW list \in Seq(Transitions), NEW moment \in Nat, NEW before,
         \/ moment = 0 /\ before = AllClear
         \/ moment # 0 /\ before = SnapshotAt(list, moment - 1)
  PROVE  SnapshotAt(list, moment) = Play(list, moment, before)
<1> DEFINE due == {i \in DOMAIN list : list[i].at <= moment}
           earlier == {i \in DOMAIN list : list[i].at <= moment - 1}
           now == {i \in DOMAIN list : list[i].at = moment}
           last == CHOOSE i \in now : \A j \in now : j <= i
<1>1. \A i \in DOMAIN list : list[i].at \in Nat
  BY EntryAt
<1>2. due = earlier \cup now /\ (moment = 0 => earlier = {})
  BY <1>1
<1>3. CASE now = {}
  <2>1. due = earlier
    BY <1>2, <1>3
  <2>2. Play(list, moment, before) = before
    BY <1>3 DEF Play
  <2>3. SnapshotAt(list, moment) = IF due = {} THEN AllClear ELSE list[Latest(list, due)].state
    BY DEF SnapshotAt
  <2>4. SnapshotAt(list, moment - 1) = IF earlier = {} THEN AllClear ELSE list[Latest(list, earlier)].state
    BY DEF SnapshotAt
  <2> HIDE DEF due, earlier
  <2> QED BY <1>2, <2>1, <2>2, <2>3, <2>4
<1>4. CASE now # {}
  <2>1. last \in now /\ \A j \in now : j <= last
    BY <1>4, LastOf
  <2>2. Play(list, moment, before) = list[last].state
    BY <1>4 DEF Play
  <2> HIDE DEF last
  <2>3. \A j \in due : list[j].at < list[last].at \/ (list[j].at = list[last].at /\ j <= last)
    BY <1>1, <1>2, <2>1
  <2>4. Latest(list, due) = last
    BY <1>2, <2>1, <2>3, LatestIs
  <2> QED BY <1>2, <2>1, <2>2, <2>4 DEF SnapshotAt
<1> QED BY <1>3, <1>4

-----------------------------------------------------------------------------
(* An invocation.                                                          *)

Pcs == {"args", "dispatch", "state", "handlers", "run", "lines", "set", "evaluating", "done"}

\* The durations were parsed, and none was refused.
Accepted ==
  /\ args.ask \in {"run", "check"}
  /\ config = Parsed
  /\ Invalid \notin {Parsed[i] : i \in DOMAIN Parsed}

\* What is true of the arguments and the code at each place.
PlaceInv ==
  /\ args \in Invocations /\ pc \in Pcs /\ opened \in BOOLEAN
  /\ pc = "args" => config = <<>>
  /\ pc \notin {"args", "done"} \/ config # <<>> => Accepted
  /\ (pc = "done" /\ config = <<>> /\ args.ask \in {"run", "check"}) =>
       Invalid \in {Parsed[i] : i \in DOMAIN Parsed}
  /\ pc \in {"args", "dispatch", "state"} => ~opened
  /\ pc \in {"handlers", "run", "lines", "set", "evaluating"} => opened
  /\ opened => config # <<>>
  /\ pc = "state" \/ opened => ~MissingCommand
  /\ pc \in {"handlers", "run"} => args.ask = "run"
  /\ pc \in {"lines", "set", "evaluating"} => args.ask = "check"
  /\ pc # "done" => code = NoCode
  /\ pc = "done" /\ ~opened => code = 4 \/ args.ask \in {"help", "version", "bare"}

\* What check has done with its predicates and on which networks.
CheckInv ==
  /\ pc = "state" \/ opened => predicates = BuildPredicates /\ composition = Composition
  /\ IF opened THEN network \in known ELSE known = {}
  /\ seen \subseteq known
  /\ pc \notin {"evaluating", "done"} \/ ~opened => at = 0 /\ result = "none"
  /\ result # "none" => seen # {}
  /\ pc = "evaluating" => at # 0 \/ result # "none"
  /\ (pc = "done" /\ args.ask = "check" /\ opened) =>
       result # "none" /\ code \in {0, 1} /\ (code = 0 <=> result = "pass")

\* The lines so far, each on a network there was.
LinesInv ==
  /\ lines \in Seq({"pass", "fail"})
  /\ lines # <<>> => opened
  /\ \A i \in DOMAIN lines :
       i \in DOMAIN predicates /\ \E net \in known : lines[i] = Outcome(predicates[i], net)
  /\ (opened /\ args.ask = "check" /\ args.explain /\ pc # "lines") => Len(lines) = Len(predicates)

\* A fixture that was loaded is one, and its reading is that of its replay.
FixtureInv ==
  /\ clock \in Nat
  /\ fixture # Unloadable =>
       IsSource(fixture) /\ fixture.form \in {"static", "sequence"} /\ opened
  /\ LookupIsReplay

CliInv == PlaceInv /\ IInv /\ CheckInv /\ LinesInv /\ FixtureInv

\* The arguments, and what dispatch makes of them, stay.
LEMMA ArgsStay ==
  ASSUME [CliNext]_allVars
  PROVE  /\ args' = args
         /\ Parsed' = Parsed /\ MissingCommand' = MissingCommand
         /\ BuildPredicates' = BuildPredicates /\ Composition' = Composition
<1>1. args' = args
  BY DEF CliNext, allVars, cliVars, ParseFails, ParseSucceeds, RefuseEmpty, Dispatch, OpenSystem,
         LoadFixture, Opened, OpenFails, InstallHandlers, RunReturns, ExplainLine, EvaluateSet,
         EvaluateMore, CheckReturns, SystemChanges, FixtureChanges, Observed
<1> QED BY <1>1 DEF Parsed, MissingCommand, BuildPredicates, Composition

\* A command has durations, those of the defaults at least.
LEMMA CommandHasDurations ==
  ASSUME args \in Invocations, args.ask \in {"run", "check"}
  PROVE  Parsed # <<>>
<1>1. args.durations \in Seq(Texts) /\ args.durations # <<>>
  BY InvocationAssumption
<1>2. 1 \in DOMAIN args.durations
  BY <1>1
<1>3. 1 \in DOMAIN Parsed
  BY <1>2 DEF Parsed
<1> QED BY <1>3

\* Where the invocation is tells what became of its arguments.
LEMMA PlaceStep == PlaceInv /\ [CliNext]_allVars => PlaceInv'
<1> SUFFICES ASSUME PlaceInv, [CliNext]_allVars PROVE PlaceInv'
  OBVIOUS
<1>0. /\ args' = args /\ Accepted' = (args.ask \in {"run", "check"} /\ config' = Parsed /\ Invalid \notin {Parsed[i] : i \in DOMAIN Parsed})
      /\ Parsed' = Parsed /\ MissingCommand' = MissingCommand
  BY ArgsStay DEF Accepted
<1>a. args.ask \in {"run", "check"} => Parsed # <<>>
  BY CommandHasDurations DEF PlaceInv
<1> USE <1>0, <1>a DEF PlaceInv, Accepted, Pcs, Goto, Exit, cliVars, NoCode
<1>1. CASE ParseFails
  BY <1>1 DEF ParseFails
<1>2. CASE ParseSucceeds
  BY <1>2 DEF ParseSucceeds
<1>3. CASE RefuseEmpty
  BY <1>3 DEF RefuseEmpty
<1>4. CASE Dispatch
  BY <1>4 DEF Dispatch
<1>5. CASE OpenSystem
  BY <1>5 DEF OpenSystem, Opened, AfterState
<1>6. CASE LoadFixture
  BY <1>6 DEF LoadFixture, Opened, AfterState
<1>7. CASE OpenFails
  BY <1>7 DEF OpenFails
<1>8. CASE InstallHandlers
  BY <1>8 DEF InstallHandlers
<1>9. CASE RunReturns
  BY <1>9 DEF RunReturns
<1>10. CASE ExplainLine
  BY <1>10 DEF ExplainLine
<1>11. CASE EvaluateSet
  BY <1>11 DEF EvaluateSet
<1>12. CASE EvaluateMore
  BY <1>12 DEF EvaluateMore
<1>13. CASE CheckReturns
  BY <1>13 DEF CheckReturns
<1>14. CASE SystemChanges
  BY <1>14 DEF SystemChanges, Observed
<1>15. CASE FixtureChanges
  BY <1>15 DEF FixtureChanges, Observed
<1>16. CASE UNCHANGED allVars
  BY <1>16 DEF allVars
<1> QED
  BY <1>1, <1>2, <1>3, <1>4, <1>5, <1>6, <1>7, <1>8, <1>9, <1>10, <1>11, <1>12, <1>13, <1>14, <1>15, <1>16 DEF CliNext

LEMMA ReadingType ==
  ASSUME NEW fix, IsSource(fix), fix.form \in {"static", "sequence"}, NEW elapsed \in Nat
  PROVE  Reading(fix, elapsed) \in Networks
<1>1. fix \notin {NoSource, NoPrefix, Unloadable}
  BY DEF NoSource, NoPrefix, Unloadable
<1>2. CASE fix.form = "static"
  BY <1>1, <1>2 DEF IsSource, Reading
<1>3. CASE fix.form = "sequence"
  <2>1. fix.list \in Seq(Transitions)
    BY <1>1, <1>3 DEF IsSource, Transitions
  <2> QED BY <1>3, <2>1, SnapshotType DEF Reading
<1> QED BY <1>2, <1>3

\* dispatch builds predicates of the flags there are.
LEMMA PredicatesType == BuildPredicates \in Seq(Flags) /\ Composition \in {"And", "Or"}
<1>1. "expensive" \in Flags /\ "low_data" \in Flags
  BY InvocationAssumption
<1>2. <<>> \in Seq(Flags) /\ <<"expensive">> \in Seq(Flags) /\ <<"low_data">> \in Seq(Flags)
  BY <1>1
<1> QED BY <1>2 DEF BuildPredicates, Composition

\* A step of the invocation is for the set a step of its own or, before it is
\* evaluated, one that builds it or opens the network.
LEMMA SetStep == CliInv /\ [CliNext]_allVars => IInv'
<1> SUFFICES ASSUME CliInv, [CliNext]_allVars PROVE IInv'
  OBVIOUS
<1>0. IInv /\ args \in Invocations
  BY DEF CliInv, PlaceInv
<1>a. [Next]_vars => IInv'
  BY <1>0, InvStep
<1> USE <1>0, <1>a DEF Next
<1>1. CASE ParseFails
  BY <1>1 DEF ParseFails
<1>2. CASE ParseSucceeds
  BY <1>2 DEF ParseSucceeds
<1>3. CASE RefuseEmpty
  BY <1>3 DEF RefuseEmpty
<1>4. CASE Dispatch
  <2>1. at = 0 /\ result = "none"
    BY <1>4 DEF Dispatch, Goto, CliInv, CheckInv
  <2>2. TypeOK'
    BY <1>4, <2>1, PredicatesType DEF Dispatch, IInv, TypeOK
  <2>3. LoopInv' /\ ResultJustified'
    BY <1>4, <2>1 DEF Dispatch, LoopInv, ResultJustified, Decisive, Otherwise
  <2> QED BY <2>2, <2>3 DEF IInv
<1>5. CASE OpenSystem
  <2>1. at = 0
    BY <1>5 DEF OpenSystem, CliInv, CheckInv
  <2>2. NetworkChanges
    BY <1>5, <2>1 DEF OpenSystem, Opened, NetworkChanges
  <2> QED BY <2>2
<1>6. CASE LoadFixture
  <2>1. at = 0
    BY <1>6 DEF LoadFixture, CliInv, CheckInv
  <2>2. network' \in Networks
    BY <1>6, InvocationAssumption, ReadingType DEF LoadFixture
  <2>3. NetworkChanges
    BY <1>6, <2>1, <2>2 DEF LoadFixture, Opened, NetworkChanges
  <2> QED BY <2>3
<1>7. CASE OpenFails
  BY <1>7 DEF OpenFails
<1>8. CASE InstallHandlers
  BY <1>8 DEF InstallHandlers
<1>9. CASE RunReturns
  BY <1>9 DEF RunReturns
<1>10. CASE ExplainLine
  BY <1>10 DEF ExplainLine
<1>11. CASE EvaluateSet
  BY <1>11 DEF EvaluateSet
<1>12. CASE EvaluateMore
  BY <1>12 DEF EvaluateMore
<1>13. CASE CheckReturns
  BY <1>13 DEF CheckReturns
<1>14. CASE SystemChanges
  BY <1>14 DEF SystemChanges, Observed
<1>15. CASE FixtureChanges
  BY <1>15 DEF FixtureChanges, Observed
<1>16. CASE UNCHANGED allVars
  BY <1>16 DEF allVars
<1> QED
  BY <1>1, <1>2, <1>3, <1>4, <1>5, <1>6, <1>7, <1>8, <1>9, <1>10, <1>11, <1>12, <1>13, <1>14, <1>15, <1>16 DEF CliNext

\* What check evaluates are the predicates of its flags, on networks there were.
LEMMA CheckStep == CliInv /\ [CliNext]_allVars => CheckInv'
<1> SUFFICES ASSUME CliInv, [CliNext]_allVars PROVE CheckInv'
  OBVIOUS
<1>a. /\ pc \in {"args", "dispatch", "state"} => ~opened
      /\ pc \in {"handlers", "run", "lines", "set", "evaluating"} => opened
      /\ pc \in Pcs /\ opened \in BOOLEAN
      /\ pc \in {"handlers", "run"} => args.ask = "run"
      /\ pc \in {"lines", "set", "evaluating"} => args.ask = "check"
  BY DEF CliInv, PlaceInv
<1>0. /\ CheckInv /\ at \in Nat /\ (at # 0 => result = "none" /\ network \in seen)
      /\ args' = args /\ BuildPredicates' = BuildPredicates /\ Composition' = Composition
  BY ArgsStay DEF CliInv, IInv, TypeOK
<1> USE <1>a, <1>0 DEF CheckInv, Goto, Exit, vars, setVars, cliVars
<1>1. CASE ParseFails
  BY <1>1 DEF ParseFails
<1>2. CASE ParseSucceeds
  BY <1>2 DEF ParseSucceeds
<1>3. CASE RefuseEmpty
  BY <1>3 DEF RefuseEmpty
<1>4. CASE Dispatch
  BY <1>4 DEF Dispatch
<1>5. CASE OpenSystem
  BY <1>5 DEF OpenSystem, Opened, AfterState
<1>6. CASE LoadFixture
  BY <1>6 DEF LoadFixture, Opened, AfterState
<1>7. CASE OpenFails
  BY <1>7 DEF OpenFails
<1>8. CASE InstallHandlers
  BY <1>8 DEF InstallHandlers
<1>9. CASE RunReturns
  BY <1>9 DEF RunReturns
<1>10. CASE ExplainLine
  BY <1>10 DEF ExplainLine
<1>11. CASE EvaluateSet
  BY <1>11 DEF EvaluateSet, Evaluate, Return, Otherwise
<1>12. CASE EvaluateMore
  BY <1>12 DEF EvaluateMore, EvaluateNext, Return, Decisive, Otherwise
<1>13. CASE CheckReturns
  BY <1>13 DEF CheckReturns
<1>14. CASE SystemChanges
  BY <1>14 DEF SystemChanges, Observed, NetworkChanges
<1>15. CASE FixtureChanges
  <2>1. opened
    BY <1>15 DEF FixtureChanges, ClockAdvances, CliInv, FixtureInv
  <2> QED BY <1>15, <2>1 DEF FixtureChanges, Observed, NetworkChanges
<1>16. CASE UNCHANGED allVars
  BY <1>16 DEF allVars
<1> QED
  BY <1>1, <1>2, <1>3, <1>4, <1>5, <1>6, <1>7, <1>8, <1>9, <1>10, <1>11, <1>12, <1>13, <1>14, <1>15, <1>16 DEF CliNext

\* Every line is of a predicate, in order, on a network there was.
LEMMA LinesStep == CliInv /\ [CliNext]_allVars => LinesInv'
<1> SUFFICES ASSUME CliInv, [CliNext]_allVars PROVE LinesInv'
  OBVIOUS
<1>a. /\ pc \in {"args", "dispatch", "state"} => ~opened
      /\ pc \in {"handlers", "run", "lines", "set", "evaluating"} => opened
      /\ pc \in Pcs /\ opened \in BOOLEAN
      /\ pc \in {"handlers", "run"} => args.ask = "run"
      /\ pc \in {"lines", "set", "evaluating"} => args.ask = "check"
  BY DEF CliInv, PlaceInv
<1>b. /\ LinesInv /\ predicates \in Seq(Flags) /\ (opened => network \in known)
      /\ args' = args
  BY ArgsStay DEF CliInv, IInv, TypeOK, CheckInv
<1> USE <1>a, <1>b DEF LinesInv, Goto, Exit, vars, setVars, cliVars, Outcome
<1>1. CASE ParseFails
  BY <1>1 DEF ParseFails
<1>2. CASE ParseSucceeds
  BY <1>2 DEF ParseSucceeds
<1>3. CASE RefuseEmpty
  BY <1>3 DEF RefuseEmpty
<1>4. CASE Dispatch
  BY <1>4 DEF Dispatch
<1>5. CASE OpenSystem
  BY <1>5 DEF OpenSystem, Opened, AfterState
<1>6. CASE LoadFixture
  BY <1>6 DEF LoadFixture, Opened, AfterState
<1>7. CASE OpenFails
  BY <1>7 DEF OpenFails
<1>8. CASE InstallHandlers
  BY <1>8 DEF InstallHandlers
<1>9. CASE RunReturns
  BY <1>9 DEF RunReturns
<1>10. CASE ExplainLine
  <2>1. CASE Len(lines) = Len(predicates)
    BY <1>10, <2>1 DEF ExplainLine
  <2>2. CASE Len(lines) # Len(predicates)
    <3>1. Len(lines) \in Nat /\ Len(predicates) \in Nat /\ Len(lines) + 1 \in DOMAIN predicates
      <4>1. Len(lines) # 0 => Len(lines) \in DOMAIN predicates
        OBVIOUS
      <4> QED BY <2>2, <4>1
    <3>2. lines' = Append(lines, Outcome(predicates[Len(lines) + 1], network))
      BY <1>10, <2>2 DEF ExplainLine
    <3>3. pc = "lines" /\ UNCHANGED <<pc, opened, known, network, predicates>>
      BY <1>10, <2>2 DEF ExplainLine
    <3>4. lines' \in Seq({"pass", "fail"})
      BY <3>2
    <3>5. ASSUME NEW i \in DOMAIN lines'
          PROVE  i \in DOMAIN predicates /\ \E net \in known : lines'[i] = Outcome(predicates[i], net)
      <4>1. CASE i \in DOMAIN lines
        <5>1. lines'[i] = lines[i]
          BY <3>2, <4>1
        <5> QED BY <4>1, <5>1
      <4>2. CASE i \notin DOMAIN lines
        <5>1. i = Len(lines) + 1 /\ lines'[i] = Outcome(predicates[i], network)
          BY <3>2, <4>2
        <5>2. network \in known
          BY <3>3
        <5> QED BY <3>1, <5>1, <5>2
      <4> QED BY <4>1, <4>2
    <3> QED BY <3>3, <3>4, <3>5
  <2> QED BY <2>1, <2>2
<1>11. CASE EvaluateSet
  BY <1>11 DEF EvaluateSet, Evaluate
<1>12. CASE EvaluateMore
  BY <1>12 DEF EvaluateMore, EvaluateNext
<1>13. CASE CheckReturns
  BY <1>13 DEF CheckReturns
<1>14. CASE SystemChanges
  BY <1>14 DEF SystemChanges, Observed, NetworkChanges
<1>15. CASE FixtureChanges
  BY <1>15 DEF FixtureChanges, Observed, NetworkChanges
<1>16. CASE UNCHANGED allVars
  BY <1>16 DEF allVars
<1> QED
  BY <1>1, <1>2, <1>3, <1>4, <1>5, <1>6, <1>7, <1>8, <1>9, <1>10, <1>11, <1>12, <1>13, <1>14, <1>15, <1>16 DEF CliNext

\* Looking a snapshot up and playing the fixture forward stay the same thing.
LEMMA FixtureStep == CliInv /\ [CliNext]_allVars => FixtureInv'
<1> SUFFICES ASSUME CliInv, [CliNext]_allVars PROVE FixtureInv'
  OBVIOUS
<1>a. FixtureInv /\ args \in Invocations /\ (pc = "state" => ~opened)
  BY DEF CliInv, PlaceInv
<1>b. UNCHANGED <<fixtureVars, opened>> => FixtureInv'
  BY <1>a DEF FixtureInv, fixtureVars, LookupIsReplay
<1> USE <1>a, <1>b DEF cliVars
<1>1. CASE ParseFails
  BY <1>1 DEF ParseFails
<1>2. CASE ParseSucceeds
  BY <1>2 DEF ParseSucceeds
<1>3. CASE RefuseEmpty
  BY <1>3 DEF RefuseEmpty
<1>4. CASE Dispatch
  BY <1>4 DEF Dispatch
<1>5. CASE OpenSystem
  <2>1. fixture = Unloadable /\ UNCHANGED fixtureVars
    BY <1>5 DEF OpenSystem, FixtureInv
  <2> QED BY <2>1 DEF FixtureInv, fixtureVars, LookupIsReplay
<1>6. CASE LoadFixture
  <2> DEFINE fix == args.source
  <2>1. /\ IsSource(fix) /\ fix.form \in {"static", "sequence"}
        /\ fixture' = fix /\ clock' = 0 /\ replayed' = Apply(fix, 0, AllClear) /\ opened' = TRUE
    BY <1>6, InvocationAssumption DEF LoadFixture, Load, Opened
  <2>2. Reading(fix, 0) = Apply(fix, 0, AllClear)
    <3>1. CASE fix.form = "static"
      BY <3>1 DEF Reading, Apply
    <3>2. CASE fix.form = "sequence"
      <4>1. fix.list \in Seq(Transitions)
        BY <2>1, <3>2 DEF IsSource, NoSource, NoPrefix, Unloadable, Transitions
      <4>2. SnapshotAt(fix.list, 0) = Play(fix.list, 0, AllClear)
        BY <4>1, SnapshotStep
      <4> QED BY <3>2, <4>2 DEF Reading, Apply
    <3> QED BY <2>1, <3>1, <3>2
  <2> HIDE DEF fix
  <2> QED BY <2>1, <2>2 DEF FixtureInv, LookupIsReplay
<1>7. CASE OpenFails
  BY <1>7 DEF OpenFails
<1>8. CASE InstallHandlers
  BY <1>8 DEF InstallHandlers
<1>9. CASE RunReturns
  BY <1>9 DEF RunReturns
<1>10. CASE ExplainLine
  BY <1>10 DEF ExplainLine
<1>11. CASE EvaluateSet
  BY <1>11 DEF EvaluateSet
<1>12. CASE EvaluateMore
  BY <1>12 DEF EvaluateMore
<1>13. CASE CheckReturns
  BY <1>13 DEF CheckReturns
<1>14. CASE SystemChanges
  BY <1>14 DEF SystemChanges, Observed
<1>15. CASE FixtureChanges
  <2>1. /\ fixture # Unloadable /\ fixture' = fixture /\ clock' = clock + 1
        /\ replayed' = Apply(fixture, clock + 1, replayed) /\ opened' = opened
    BY <1>15 DEF FixtureChanges, ClockAdvances, Observed
  <2>2. /\ IsSource(fixture) /\ fixture.form \in {"static", "sequence"} /\ opened
        /\ clock \in Nat /\ Reading(fixture, clock) = replayed
    BY <2>1 DEF FixtureInv, LookupIsReplay
  <2>3. Reading(fixture, clock + 1) = Apply(fixture, clock + 1, replayed)
    <3>1. CASE fixture.form = "static"
      BY <3>1 DEF Reading, Apply
    <3>2. CASE fixture.form = "sequence"
      <4>1. fixture.list \in Seq(Transitions)
        BY <2>2, <3>2 DEF IsSource, NoSource, NoPrefix, Unloadable, Transitions
      <4>2. replayed = SnapshotAt(fixture.list, clock) /\ clock + 1 \in Nat /\ (clock + 1) - 1 = clock
            /\ clock + 1 # 0
        BY <2>2, <3>2 DEF Reading
      <4>3. SnapshotAt(fixture.list, clock + 1) = Play(fixture.list, clock + 1, replayed)
        BY <4>1, <4>2, SnapshotStep
      <4> QED BY <3>2, <4>3 DEF Reading, Apply
    <3> QED BY <2>2, <3>1, <3>2
  <2>4. Reading(fixture', clock') = replayed' /\ clock' \in Nat
    BY <2>1, <2>2, <2>3
  <2> QED BY <2>1, <2>2, <2>4 DEF FixtureInv, LookupIsReplay
<1>16. CASE UNCHANGED allVars
  BY <1>16 DEF allVars
<1> QED
  BY <1>1, <1>2, <1>3, <1>4, <1>5, <1>6, <1>7, <1>8, <1>9, <1>10, <1>11, <1>12, <1>13, <1>14, <1>15, <1>16 DEF CliNext

LEMMA CliInitInv == CliInit => CliInv
<1> SUFFICES ASSUME CliInit PROVE CliInv
  OBVIOUS
<1>1. PlaceInv
  BY DEF CliInit, PlaceInv, Pcs, NoCode
<1>2. TypeOK
  <2>1. <<>> \in Seq(Flags) /\ AllClear \in Networks
    BY DEF AllClear, Networks
  <2> QED BY <2>1 DEF CliInit, TypeOK
<1>3. LoopInv /\ ResultJustified
  BY DEF CliInit, LoopInv, ResultJustified, Decisive, Otherwise
<1>4. CheckInv /\ LinesInv
  BY DEF CliInit, CheckInv, LinesInv
<1>5. FixtureInv
  BY DEF CliInit, FixtureInit, FixtureInv, LookupIsReplay
<1> QED BY <1>1, <1>2, <1>3, <1>4, <1>5 DEF CliInv, IInv

LEMMA CliInvariant == CliSpec => []CliInv
<1>1. CliInv /\ [CliNext]_allVars => CliInv'
  <2> SUFFICES ASSUME CliInv, [CliNext]_allVars PROVE CliInv'
    OBVIOUS
  <2>1. PlaceInv'
    BY PlaceStep DEF CliInv
  <2> QED BY <2>1, SetStep, CheckStep, LinesStep, FixtureStep DEF CliInv
<1> QED BY <1>1, CliInitInv, PTL DEF CliSpec

\* A text of the grammar that fits its width is accepted and every other refused.
LEMMA AcceptedMeaningful ==
  ASSUME args \in Invocations, NEW i \in DOMAIN args.durations
  PROVE  /\ Meaningful(args.durations[i]) => Parsed[i] = Seconds(args.durations[i]) /\ Parsed[i] # Invalid
         /\ ~Meaningful(args.durations[i]) => Parsed[i] = Invalid
<1>1. args.durations[i] \in Texts
  <2>1. args.durations \in Seq(Texts)
    BY InvocationAssumption
  <2> QED BY <2>1
<1>2. Parsed[i] = ParseDuration(args.durations[i])
  BY DEF Parsed
<1> QED BY <1>1, <1>2, ParseIsExact DEF Invalid

\* For every width of a u64, every number of durations and every text of each:
\* an invocation that goes on has each of them to the second, and one that is
\* refused for them has one that is no duration or does not fit.
THEOREM DurationsExact == CliSpec => []ParseFaithful
<1>1. CliInv => ParseFaithful
  <2> SUFFICES ASSUME PlaceInv PROVE ParseFaithful
    BY DEF CliInv
  <2>a. args \in Invocations /\ DOMAIN Parsed = DOMAIN args.durations
    BY DEF PlaceInv, Parsed
  <2>1. ASSUME config # <<>>, NEW i \in DOMAIN config
        PROVE  Meaningful(args.durations[i]) /\ config[i] = Seconds(args.durations[i])
    <3>1. config = Parsed /\ Parsed[i] # Invalid /\ i \in DOMAIN args.durations
      BY <2>1, <2>a DEF PlaceInv, Accepted
    <3> QED BY <2>a, <3>1, AcceptedMeaningful
  <2>2. ASSUME pc = "done", args.ask \in {"run", "check"}, config = <<>>
        PROVE  \E i \in DOMAIN args.durations : ~Meaningful(args.durations[i])
    <3>1. PICK i \in DOMAIN Parsed : Parsed[i] = Invalid
      BY <2>2 DEF PlaceInv
    <3> QED BY <2>a, <3>1, AcceptedMeaningful
  <2> QED BY <2>1, <2>2 DEF ParseFaithful
<1> QED BY <1>1, CliInvariant, PTL

\* Whatever is wrong with the arguments of whatever command line, no network
\* state was opened for it, and its code is 4.
THEOREM ArgumentsFirst == CliSpec => []ArgumentsDecide
<1>1. CliInv => ArgumentsDecide
  <2> SUFFICES ASSUME PlaceInv, CheckInv PROVE ArgumentsDecide
    BY DEF CliInv
  <2>1. (args.ask = "run" /\ ~args.command) => ~opened /\ code \in {NoCode, 4}
    BY DEF PlaceInv, MissingCommand
  <2>2. ASSUME NEW i \in DOMAIN args.durations, ~Meaningful(args.durations[i]) PROVE ~opened
    <3>1. Parsed[i] = Invalid /\ i \in DOMAIN Parsed
      BY <2>2, AcceptedMeaningful DEF PlaceInv, Parsed
    <3> QED BY <3>1 DEF PlaceInv, Accepted
  <2>3. (pc = "done" /\ args.ask = "check" /\ code = 4) => ~opened
    BY DEF CheckInv
  <2>4. (pc = "done" /\ ~opened) => code = 4 \/ args.ask \in {"help", "version", "bare"}
    BY DEF PlaceInv
  <2> QED BY <2>1, <2>2, <2>3, <2>4 DEF ArgumentsDecide
<1> QED BY <1>1, CliInvariant, PTL

\* The evaluation inside of check has what PredicateSet promises.
THEOREM CheckEvaluates == CliSpec => [](ResultJustified /\ StableVerdict)
<1>1. CliInv => ResultJustified /\ StableVerdict
  BY JustifiedIsVerdict DEF CliInv, IInv
<1> QED BY <1>1, CliInvariant, PTL

\* For every fixture, in any order and with any ties, and at every time: the
\* lookup is the replay.
THEOREM LookupReplays == CliSpec => []LookupIsReplay
<1>1. CliInv => LookupIsReplay
  BY DEF CliInv, FixtureInv
<1> QED BY <1>1, CliInvariant, PTL

\* The flags that were given, by the predicates they stand for.
Rejected == {f \in Flags : args[IF f = "expensive" THEN "reject_expensive" ELSE "reject_low_data"]}

\* dispatch builds a predicate for each flag given, once.
LEMMA PredicatesAreFlags ==
  ASSUME args \in Invocations
  PROVE  /\ \A i \in DOMAIN BuildPredicates : BuildPredicates[i] \in Rejected
         /\ \A f \in Rejected : \E i \in DOMAIN BuildPredicates : BuildPredicates[i] = f
         /\ Len(BuildPredicates) = Cardinality({f \in {"reject_expensive", "reject_low_data"} : args[f]})
<1> DEFINE names == {f \in {"reject_expensive", "reject_low_data"} : args[f]}
<1>1. Flags = {"expensive", "low_data"}
  BY InvocationAssumption
<1>2. Cardinality({}) = 0 /\ Cardinality({"reject_expensive"}) = 1 /\ Cardinality({"reject_low_data"}) = 1
  BY FS_EmptySet, FS_Singleton
<1>3. Cardinality({"reject_expensive", "reject_low_data"}) = 2
  <2>1. {"reject_expensive", "reject_low_data"} = {"reject_expensive"} \cup {"reject_low_data"}
    OBVIOUS
  <2>2. IsFiniteSet({"reject_expensive"})
    BY FS_Singleton
  <2>3. Cardinality({"reject_expensive"} \cup {"reject_low_data"}) = 1 + 1
    BY <1>2, <2>2, FS_AddElement
  <2> QED BY <2>1, <2>3
<1>4. CASE args.reject_expensive /\ args.reject_low_data
  <2>1. /\ Len(BuildPredicates) = 2 /\ DOMAIN BuildPredicates = {1, 2}
        /\ BuildPredicates[1] = "expensive" /\ BuildPredicates[2] = "low_data"
    <3> DEFINE both == <<"expensive">> \o <<"low_data">>
    <3>1. BuildPredicates = both
      BY <1>4 DEF BuildPredicates
    <3>2. Len(both) = 2 /\ DOMAIN both = 1..2 /\ both[1] = "expensive" /\ both[2] = "low_data"
      OBVIOUS
    <3> HIDE DEF both
    <3> QED BY <3>1, <3>2
  <2>2. Rejected = {"expensive", "low_data"} /\ names = {"reject_expensive", "reject_low_data"}
    BY <1>1, <1>4 DEF Rejected
  <2> HIDE DEF names
  <2> QED BY <1>3, <2>1, <2>2 DEF names
<1>5. CASE args.reject_expensive /\ ~args.reject_low_data
  <2>1. BuildPredicates = <<"expensive">>
    BY <1>5 DEF BuildPredicates
  <2>2. Rejected = {"expensive"} /\ names = {"reject_expensive"}
    BY <1>1, <1>5 DEF Rejected
  <2> QED BY <1>2, <2>1, <2>2
<1>6. CASE ~args.reject_expensive /\ args.reject_low_data
  <2>1. BuildPredicates = <<"low_data">>
    BY <1>6 DEF BuildPredicates
  <2>2. Rejected = {"low_data"} /\ names = {"reject_low_data"}
    BY <1>1, <1>6 DEF Rejected
  <2> QED BY <1>2, <2>1, <2>2
<1>7. CASE ~args.reject_expensive /\ ~args.reject_low_data
  <2>1. BuildPredicates = <<>>
    BY <1>7 DEF BuildPredicates
  <2>2. Rejected = {} /\ names = {}
    BY <1>1, <1>7 DEF Rejected
  <2> QED BY <1>2, <2>1, <2>2
<1> QED BY <1>4, <1>5, <1>6, <1>7

\* For every command line and however often the network changes between two
\* reads: the code of check is accounted for, flag by flag, by networks there
\* were since its state was opened.
THEOREM CheckIsJustified == CliSpec => []CheckJustified
<1>1. CliInv => CheckJustified
  <2> DEFINE Was(f, value) == \E net \in known : net[f] = value
             Passed == IF args.any THEN \E f \in Rejected : Was(f, FALSE) ELSE \A f \in Rejected : Was(f, FALSE)
             Failed == IF args.any THEN \A f \in Rejected : Was(f, TRUE) ELSE \E f \in Rejected : Was(f, TRUE)
  <2> SUFFICES ASSUME CliInv, pc = "done", args.ask = "check"
               PROVE  CASE code = 0 -> Passed [] code = 1 -> Failed [] OTHER -> code = 4
    BY Zenon DEF CheckJustified, Rejected
  <2> SUFFICES (code = 0 => Passed) /\ (code = 1 => Failed) /\ (code \in {0, 1} \/ code = 4)
    <3> HIDE DEF Passed, Failed
    <3> QED OBVIOUS
  <2>1. CASE ~opened
    BY <2>1 DEF CliInv, PlaceInv
  <2>2. CASE opened
    <3>1. /\ result # "none" /\ code \in {0, 1} /\ (code = 0 <=> result = "pass")
          /\ predicates = BuildPredicates /\ composition = Composition /\ seen \subseteq known
      BY <2>2 DEF CliInv, CheckInv
    <3>2. /\ \A i \in DOMAIN predicates : predicates[i] \in Rejected
          /\ \A f \in Rejected : \E i \in DOMAIN predicates : predicates[i] = f
      BY <3>1, PredicatesAreFlags DEF CliInv, PlaceInv
    <3>3. result \in {"pass", "fail"} /\ ResultJustified /\ seen \subseteq Networks
      BY <3>1 DEF CliInv, IInv, TypeOK
    <3>4. \A f \in Rejected, net \in seen :
            /\ Outcome(f, net) = "pass" => Was(f, FALSE)
            /\ Outcome(f, net) = "fail" => Was(f, TRUE)
      <4> SUFFICES ASSUME NEW f \in Rejected, NEW net \in seen
                   PROVE  /\ Outcome(f, net) = "pass" => Was(f, FALSE)
                          /\ Outcome(f, net) = "fail" => Was(f, TRUE)
        OBVIOUS
      <4>1. net \in known /\ net[f] \in BOOLEAN
        BY <3>1, <3>3 DEF Rejected, Networks
      <4> QED BY <4>1 DEF Outcome
    <3> HIDE DEF Was
    <3>5. CASE args.any
      <4>1. Decisive = "pass" /\ Otherwise = "fail"
        BY <3>1, <3>5 DEF Composition, Decisive, Otherwise
      <4>2. result = "pass" => \E f \in Rejected : Was(f, FALSE)
        BY <3>2, <3>4, <4>1, <3>3 DEF ResultJustified
      <4>3. result = "fail" => \A f \in Rejected : Was(f, TRUE)
        BY <3>2, <3>4, <4>1, <3>3 DEF ResultJustified
      <4>4. (result = "pass" => Passed) /\ (result = "fail" => Failed)
        BY <3>5, <4>2, <4>3, Zenon
      <4> HIDE DEF Passed, Failed
      <4> QED BY <3>1, <3>3, <4>4
    <3>6. CASE ~args.any
      <4>1. Decisive = "fail" /\ Otherwise = "pass"
        BY <3>1, <3>6 DEF Composition, Decisive, Otherwise
      <4>2. result = "pass" => \A f \in Rejected : Was(f, FALSE)
        BY <3>2, <3>4, <4>1, <3>3 DEF ResultJustified
      <4>3. result = "fail" => \E f \in Rejected : Was(f, TRUE)
        BY <3>2, <3>4, <4>1, <3>3 DEF ResultJustified
      <4>4. (result = "pass" => Passed) /\ (result = "fail" => Failed)
        BY <3>6, <4>2, <4>3, Zenon
      <4> HIDE DEF Passed, Failed
      <4> QED BY <3>1, <3>3, <4>4
    <3> QED BY <3>5, <3>6
  <2> QED BY <2>1, <2>2
<1> QED BY <1>1, CliInvariant, PTL

\* What --explain prints of each predicate and the code that check returns are
\* from different reads; on a network that did not change they say the same.
THEOREM ExplainIsFaithful == CliSpec => []ExplainAgrees
<1>1. CliInv => ExplainAgrees
  <2> SUFFICES ASSUME CliInv, pc = "done", args.ask = "check", args.explain, opened
               PROVE  /\ Len(lines) = Cardinality({f \in {"reject_expensive", "reject_low_data"} : args[f]})
                      /\ \A net \in known : known = {net} =>
                           IF args.any
                             THEN code = 0 <=> "pass" \in {lines[i] : i \in DOMAIN lines}
                             ELSE code = 0 <=> "fail" \notin {lines[i] : i \in DOMAIN lines}
    BY Zenon DEF ExplainAgrees
  <2>1. /\ result # "none" /\ code \in {0, 1} /\ (code = 0 <=> result = "pass")
        /\ predicates = BuildPredicates /\ composition = Composition
        /\ seen \subseteq known /\ seen # {} /\ network \in known
    BY DEF CliInv, CheckInv
  <2>2. /\ lines \in Seq({"pass", "fail"}) /\ Len(lines) = Len(predicates)
        /\ \A i \in DOMAIN lines : \E net \in known : lines[i] = Outcome(predicates[i], net)
    BY DEF CliInv, LinesInv
  <2>3. Len(lines) = Cardinality({f \in {"reject_expensive", "reject_low_data"} : args[f]})
    BY <2>1, <2>2, PredicatesAreFlags DEF CliInv, PlaceInv
  <2>4. ASSUME NEW net \in known, known = {net}
        PROVE  IF args.any
                 THEN code = 0 <=> "pass" \in {lines[i] : i \in DOMAIN lines}
                 ELSE code = 0 <=> "fail" \notin {lines[i] : i \in DOMAIN lines}
    <3>1. seen = {net} /\ net \in Networks
      BY <2>1, <2>4 DEF CliInv, IInv, TypeOK
    <3>2. result = "pass" <=> Verdict(net)
      BY <2>1, <3>1, JustifiedIsVerdict DEF CliInv, IInv, StableVerdict
    <3>3. DOMAIN lines = DOMAIN predicates
      BY <2>2 DEF CliInv, IInv, TypeOK
    <3>4. \A i \in DOMAIN lines : lines[i] = Outcome(predicates[i], net) /\ lines[i] \in {"pass", "fail"}
      BY <2>2, <2>4 DEF Outcome
    <3>5. CASE args.any
      BY <2>1, <3>2, <3>3, <3>4, <3>5 DEF Composition, Verdict
    <3>6. CASE ~args.any
      BY <2>1, <3>2, <3>3, <3>4, <3>6 DEF Composition, Verdict
    <3> QED BY <3>5, <3>6
  <2> QED BY <2>3, <2>4
<1> QED BY <1>1, CliInvariant, PTL
=============================================================================
