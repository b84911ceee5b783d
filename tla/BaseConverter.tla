--------------------------- MODULE BaseConverter ---------------------------
(* The conversion of numbers of any length between bases                    *)
(* (src/src/cross/src/BaseConverter.cpp), by which the plugin compares the  *)
(* hash of a block with its difficulty: hexadecimal to decimal.  A digit is *)
(* its number in the character set of its base; the characters are left     *)
(* out.                                                                     *)
EXTENDS Digits, FiniteSetsExt

CONSTANTS
    SourceBase, TargetBase      \* the sizes of sourceBaseSet_ and targetBaseSet_

ASSUME BaseAssumption == SourceBase \in Nat \ {0, 1} /\ TargetBase \in Nat \ {0, 1}

----------------------------------------------------------------------------
\* base2dec, in an unsigned int; divide calls it on numbers below
\* SourceBase * TargetBase only, which are never wrapped.
base2dec(base, digits) == NumberOf(base, digits)

dec2base(base, n) ==
    LET digits[m \in Nat] == IF m < base THEN <<m>> ELSE Append(digits[m \div base], m % base)
    IN  digits[n]

\* Mutant of Taken: the digits the remainder has are not counted.
TakenDigit(i, x, length) == i + 1

\* The digits divided next: those of the remainder so far and one more.
Taken(i, x, length) == i + 1 + Len(x) - length

\* A turn of the loop of divide, on what the one before left; once it breaks,
\* nothing changes any more.
Turn(i, left, length, base, y) ==
    LET j == Taken(i, left.x, length)
        n == base2dec(base, SubSeq(left.x, 1, j))
    IN  IF Len(left.x) < j THEN left
        ELSE [x        |-> dec2base(base, n % y) \o SubSeq(left.x, j + 1, Len(left.x)),
              quotient |-> Append(left.quotient, n \div y)]

\* What the first i turns leave.
Turns(base, x, y) ==
    LET turns[i \in 0..Len(x)] ==
            IF i = 0 THEN [x |-> x, quotient |-> <<>>]
            ELSE Turn(i - 1, turns[i - 1], Len(x), base, y)
    IN  turns

\* find_first_not_of, substr
StripZeros(s) ==
    LET others == {i \in DOMAIN s : s[i] # 0}
    IN  IF others = {} THEN <<>> ELSE SubSeq(s, Min(others), Len(s))

\* divide: the quotient, no digits when it is zero, and the remainder.
divide(base, x, y) ==
    LET done == Turns(base, x, y)[Len(x)]
    IN  [x |-> StripZeros(done.quotient), remainder |-> base2dec(base, done.x)]

\* The remainders of the do loop, last first.
Convert(x) ==
    LET remainders[v \in Seq(0..SourceBase - 1)] ==
            LET d == divide(SourceBase, v, TargetBase)
            IN  (IF d.x \in {<<>>, <<0>>} THEN <<>> ELSE remainders[d.x]) \o <<d.remainder>>
    IN  remainders[x]
=============================================================================
