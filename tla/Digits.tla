------------------------------- MODULE Digits -------------------------------
(* What a sequence of digits stands for.                                    *)
EXTENDS Integers, Sequences

\* The number that digits of a base are, the most significant first.
NumberOf(base, digits) ==
    LET n[k \in 0..Len(digits)] == IF k = 0 THEN 0 ELSE n[k - 1] * base + digits[k]
    IN  n[Len(digits)]
=============================================================================
