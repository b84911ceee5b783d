-------------------------------- MODULE Rlp --------------------------------
(* How the fields of an Ethereum block header are laid out before they are  *)
(* hashed (src/src/cross/include/RLP.hpp, from_hex of hex.hpp, headerHash   *)
(* of cross_plugin.cpp): recursive length prefix, a string for each field   *)
(* and a list for the header.  A hexadecimal string is a sequence of        *)
(* nibbles, a byte string a sequence of bytes.                              *)
EXTENDS Digits, SequencesExt

single_prefix_string_start_pos == 128
list_start_pos == 192
single_prefix_max_length == 55

Byte(n) == n % 256      \* a number stored in a char

----------------------------------------------------------------------------
\* from_hex: an odd string gets a leading zero.  Its characters are taken to be
\* hexadecimal digits, as those of a field are: any other would count as 0.
from_hex(h) ==
    LET even == IF Len(h) % 2 = 0 THEN h ELSE <<0>> \o h
    IN  [i \in 1..Len(even) \div 2 |-> even[2 * i - 1] * 16 + even[2 * i]]

\* The loops that write a length, most significant byte first.
LengthBytes(n) ==
    LET bytes[m \in Nat] == IF m = 0 THEN <<>> ELSE Append(bytes[m \div 256], m % 256)
    IN  bytes[n]

\* A length of more than 55 bytes is written after the prefix.
Prefix(start, n) ==
    IF n <= single_prefix_max_length THEN <<Byte(start + n)>>
    ELSE <<Byte(start + single_prefix_max_length + Len(LengthBytes(n)))>> \o LengthBytes(n)

\* Mutant of is_immediate_string: 0x80 stands for itself too.
is_immediate_string_to_80(s) == Len(s) = 1 /\ s[1] <= single_prefix_string_start_pos

is_immediate_string(s) == Len(s) = 1 /\ s[1] < single_prefix_string_start_pos

generate_string_header(s) ==
    IF is_immediate_string(s) THEN <<>> ELSE Prefix(single_prefix_string_start_pos, Len(s))

generate_array_header(s) == Prefix(list_start_pos, Len(s))

encode(h) == generate_string_header(from_hex(h)) \o from_hex(h)

\* headerHash, up to the hash: the fields, and in front of them the header of the list.
HeaderBytes(hs) ==
    LET result == FlattenSeq([i \in DOMAIN hs |-> encode(hs[i])])
    IN  generate_array_header(result) \o result

----------------------------------------------------------------------------
(* The reference: the decoder of the Ethereum Yellow Paper, appendix B,     *)
(* which refuses anything but the shortest encoding.                        *)

Broken == [ok |-> FALSE, payload |-> <<>>, rest |-> <<>>]
Cut(s, from, n) ==
    IF from + n - 1 > Len(s) THEN Broken
    ELSE [ok |-> TRUE, payload |-> SubSeq(s, from, from + n - 1), rest |-> SubSeq(s, from + n, Len(s))]

\* The item of s whose prefix counts from start: 128 for strings, 192 for lists.
Item(s, start) ==
    LET size == s[1] - start - 55
        length == NumberOf(256, SubSeq(s, 2, 1 + size))
        item == Cut(s, 2, s[1] - start)
    IN  IF s = <<>> THEN Broken
        ELSE IF s[1] < start THEN IF start = 128 THEN Cut(s, 1, 1) ELSE Broken
        ELSE IF s[1] >= start + 64 THEN Broken
        ELSE IF size <= 0
        THEN IF start = 128 /\ Len(item.payload) = 1 /\ item.payload[1] < 128 THEN Broken ELSE item
        ELSE IF Len(s) < 1 + size \/ s[2] = 0 \/ length <= 55 THEN Broken
        ELSE Cut(s, 2 + size, length)

\* The strings of s, or <<-1>> at the end where s is none.
Strings(s) ==
    LET items[n \in 0..Len(s)] ==   \* the strings of the last n bytes of s
            LET first == Item(SubSeq(s, Len(s) - n + 1, Len(s)), 128)
            IN  IF n = 0 THEN <<>>
                ELSE IF ~first.ok THEN << <<-1>> >>
                ELSE <<first.payload>> \o items[Len(first.rest)]
    IN  items[Len(s)]

=============================================================================
