------------------------------- MODULE Header -------------------------------
(* What verify_header does with the hexadecimal fields of a block header    *)
(* (src/src/cross/plugin/cross_plugin.cpp: headerHash, verifyBlockHeader):  *)
(* they are laid out as bytes, to be hashed, and the difficulty, which is   *)
(* one of them, is converted to decimal, to be compared.                    *)
EXTENDS Rlp, BaseConverter

CONSTANTS
    Lengths,        \* bound: lengths of the long fields tried
    FirstBytes,     \* bound: the two nibbles they start with
    MaxFields,      \* bound: fields of a header
    MaxDigits       \* bound: digits of a number

ASSUME FieldsAssumption ==
    /\ Lengths \subseteq Nat /\ FirstBytes \subseteq (0..15) \X (0..15)
    /\ MaxFields \in Nat /\ MaxDigits \in Nat
    /\ SourceBase = 16

VARIABLE fields     \* the fields of a header, in hexadecimal

\* Fields that start with two given nibbles and go on with 7s.
Field(b, n) == [i \in 1..n |-> IF i <= 2 THEN b[i] ELSE 7]
Samples == {Field(b, n) : b \in FirstBytes, n \in Lengths}

HeaderInit == fields = <<>>

\* A header of samples with one more field.
AddField ==
    /\ Len(fields) < MaxFields
    /\ \A i \in DOMAIN fields : fields[i] \in Samples
    /\ \E f \in Samples : fields' = Append(fields, f)

\* A header whose only field is a number with one more digit.
AddDigit ==
    /\ \/ fields = <<>>
       \/ Len(fields) = 1 /\ Len(fields[1]) < MaxDigits
    /\ \E d \in 0..SourceBase - 1 :
          fields' = IF fields = <<>> THEN << <<d>> >> ELSE << Append(fields[1], d) >>

HeaderNext == AddField \/ AddDigit

\* The fields short enough to be tried as numbers.
Numbers == {i \in DOMAIN fields : Len(fields[i]) <= MaxDigits}

\* Ethereum's decoder reads back from the bytes that are hashed the fields of
\* the header, each in its shortest form, and nothing else: two headers have
\* the same bytes only when they have the same fields.
Decodes ==
    LET list == Item(HeaderBytes(fields), 192)
    IN  /\ list.ok /\ list.rest = <<>>
        /\ Strings(list.payload) = [i \in DOMAIN fields |-> from_hex(fields[i])]

\* The converted digits stand for the same number, whatever leading zeros it
\* had, and have none themselves: the difficulty and the hash compare as the
\* numbers do.
SameNumber ==
    \A i \in Numbers :
        LET decimal == Convert(fields[i])
        IN  /\ NumberOf(TargetBase, decimal) = NumberOf(SourceBase, fields[i])
            /\ Len(decimal) > 1 => decimal[1] # 0
=============================================================================
