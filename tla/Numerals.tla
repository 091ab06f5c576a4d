------------------------------ MODULE Numerals ------------------------------
(* int(), of the numbers that exports hold.                                *)
EXTENDS Text

CONSTANT NUMBERS

\* Decimal numerals differ, and none is empty.  The parsers meet 0, as a default, and 1 whatever
\* the export holds.
ASSUME NumbersAssumption ==
  /\ NUMBERS \subseteq Nat
  /\ {0, 1} \subseteq NUMBERS /\ ToString(0) = "0" /\ ToString(1) = "1"
  /\ \A m, n \in NUMBERS : ToString(m) # "" /\ (ToString(m) = ToString(n) => m = n)

NUMERALS == [s \in {ToString(n) : n \in NUMBERS} |-> CHOOSE n \in NUMBERS : ToString(n) = s]

\* Any other text raises ValueError.
IsInt(s) == s \in DOMAIN NUMERALS
=============================================================================
