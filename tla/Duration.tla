------------------------------ MODULE Duration ------------------------------
(***************************************************************************)
(* parse_duration (src/cli.rs), the value parser of --grace, --poll and    *)
(* --debounce.  A text is what the split at its first non-digit makes of   *)
(* it: the digits before, and the unit after, of which only the names that *)
(* are units are told apart from "other".                                  *)
(***************************************************************************)
EXTENDS Integers, Sequences

CONSTANT MaxU64     \* the largest u64

ASSUME WidthAssumption == MaxU64 \in Nat

Texts == [digits : Seq(0..9), unit : {"", "s", "m", "h", "other"}]

Invalid == -1       \* parse_duration returns Err

\* str::parse::<u64>: each digit is a checked multiplication and addition.
PushDigit(n, digit) ==
  IF n = Invalid \/ n * 10 > MaxU64 \/ n * 10 + digit > MaxU64 THEN Invalid ELSE n * 10 + digit

\* parsed[i] is what the first i digits come to.
ParsedPrefixes(digits) ==
  LET parsed[i \in 0..Len(digits)] == IF i = 0 THEN 0 ELSE PushDigit(parsed[i - 1], digits[i])
  IN  parsed

ParseU64(digits) == ParsedPrefixes(digits)[Len(digits)]

\* Mutant of CheckedMul: the product wraps.
CheckedMul_Wrapping(n, factor) == (n * factor) % (MaxU64 + 1)

CheckedMul(n, factor) == IF n * factor > MaxU64 THEN Invalid ELSE n * factor

UnitSeconds == [m |-> 60, h |-> 3600]

ParseDuration(text) ==
  LET n == ParseU64(text.digits) IN
  IF text.digits = <<>> \/ n = Invalid THEN Invalid
  ELSE IF text.unit \in {"", "s"} THEN n
  ELSE IF text.unit \in DOMAIN UnitSeconds THEN CheckedMul(n, UnitSeconds[text.unit])
  ELSE Invalid

-----------------------------------------------------------------------------
(* What a duration text means, in unbounded arithmetic.                    *)

\* The powers of ten up to the n-th.
Tens(n) == LET tens[i \in 0..n] == IF i = 0 THEN 1 ELSE 10 * tens[i - 1] IN tens

\* Each digit counts for its place; sums[i] is the sum over the first i.
PlaceSums(digits) ==
  LET sums[i \in 0..Len(digits)] ==
        IF i = 0 THEN 0 ELSE sums[i - 1] + digits[i] * Tens(Len(digits))[Len(digits) - i]
  IN  sums

Number(digits) == PlaceSums(digits)[Len(digits)]

Seconds(text) ==
  Number(text.digits) * (CASE text.unit = "h" -> 3600 [] text.unit = "m" -> 60 [] OTHER -> 1)

Meaningful(text) == text.digits # <<>> /\ text.unit # "other" /\ Seconds(text) <= MaxU64
=============================================================================
