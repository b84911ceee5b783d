------------------------------- MODULE Values -------------------------------
(* Values on their way between JavaScript and the chain                     *)
(* (src/src/base/js_value.cpp, Table::get_index): the rows a contract       *)
(* stores and reads, and the key it finds them by.  A value is the tree of  *)
(* its nodes: the path of a node, the positions that lead to it, gives its  *)
(* type and what it holds.  js_value and fc_value go through the elements   *)
(* of arrays and objects and convert each by itself; the sorts of numbers   *)
(* are what they confuse.  A Number holds parts of one, as fine as doubles  *)
(* are; what C++ leaves undefined in a cast may give any integer.           *)
(* The serializer between a variant and the bytes of a row is external.     *)
EXTENDS Integers, Sequences

CONSTANTS
    Half,       \* half as many as there are integers of a width, 2^63 in the code
    MaxDepth,   \* bound: nesting of arrays and objects
    Grain,      \* the parts of one that Numbers are counted in, 2^1074 in the code
    Doubles     \* bound: the Numbers; NaN and the infinities are like any out of range

ASSUME ValuesAssumption ==
    Half \in Nat \ {0} /\ MaxDepth \in Nat /\ Grain \in Nat \ {0} /\ Doubles \subseteq Int

Unsigned(n) == n % (2 * Half)
Signed(n) == ((n + Half) % (2 * Half)) - Half
Width(type) == IF type = "int64" THEN -Half..Half - 1 ELSE 0..2 * Half - 1

\* A cast of a double drops the fraction, and is undefined for a number out of range.
Trunc(d) == IF d >= 0 THEN d \div Grain ELSE -((-d) \div Grain)
Cast(d, type) == IF Trunc(d) \in Width(type) THEN {Trunc(d)} ELSE Width(type)

\* What js_value makes of each type of a variant; both kinds of integers become BigInts.
JsType == [null |-> "null", int64 |-> "bigint", uint64 |-> "bigint", double |-> "number",
           bool |-> "boolean", string |-> "string", blob |-> "buffer",
           array |-> "array", object |-> "object"]

\* What fc_value makes of each type of a JavaScript value.
VariantType == [undefined |-> "null", null |-> "null", bigint |-> "int64", number |-> "double",
                boolean |-> "bool", string |-> "string", buffer |-> "blob",
                array |-> "array", object |-> "object"]

js_value(var) ==
    [p \in DOMAIN var |-> [type |-> JsType[var[p].type], holds |-> var[p].holds]]

\* Mutant of FromBigInt: a number out of range becomes the nearest in range.
FromBigIntNearest(n) == IF n >= Half THEN Half - 1 ELSE IF n < -Half THEN -Half ELSE n

\* BigInt::Int64Value keeps the low bits.
FromBigInt(n) == Signed(n)

fc_value(x) ==
    [p \in DOMAIN x |->
        [type  |-> VariantType[x[p].type],
         holds |-> IF x[p].type = "bigint" THEN FromBigInt(x[p].holds) ELSE x[p].holds]]

\* get_index: the primary keys a number may stand for.
get_index(x) ==
    IF x[<<>>].type = "number" THEN Cast(x[<<>>].holds, "uint64") ELSE {Unsigned(x[<<>>].holds)}

\* The serializer writes an integer with the width of its field, casts a double
\* to the type of the field, and reads an integer with the type of the field.
Integral == {"int64", "uint64"}
Bytes(node, type) ==
    IF node.type \in Integral THEN {Unsigned(node.holds)}
    ELSE IF node.type = "double" /\ type \in Integral THEN {Unsigned(n) : n \in Cast(node.holds, type)}
    ELSE {node}
Row(var, fields) == [p \in DOMAIN var |-> Bytes(var[p], fields[p].type)]
Leaf(type, n) == [p \in {<<>>} |-> [type |-> type, holds |-> n]]
ReadInteger(type, n) == Leaf(type, IF type = "int64" THEN Signed(n) ELSE n)

----------------------------------------------------------------------------
VARIABLES
    value,      \* a value of the chain
    depth       \* how deeply it is nested
valueVars == <<value, depth>>

ValueInit == value = Leaf("null", 0) /\ depth = 0

Scalar ==
    /\ depth = 0 /\ value = Leaf("null", 0)
    /\ \/ \E type \in Integral, n \in 0..2 * Half - 1 : value' = ReadInteger(type, n)
       \/ \E d \in Doubles : value' = Leaf("double", d)
       \/ \E type \in {"string", "blob", "bool"} : value' = Leaf(type, 1)
    /\ UNCHANGED depth

\* An array or an object of n values like this one.
Copies(type, n) ==
    [p \in {<<>>} \cup {<<c[1]>> \o c[2] : c \in (1..n) \X DOMAIN value} |->
        IF p = <<>> THEN [type |-> type, holds |-> 0] ELSE value[Tail(p)]]

Nest ==
    /\ depth < MaxDepth /\ depth' = depth + 1
    /\ \E type \in {"array", "object"}, n \in 0..2 : value' = Copies(type, n)

ValueNext == Scalar \/ Nest

----------------------------------------------------------------------------
\* The keys a contract may give for the number of a node in a field: a BigInt,
\* in or out of range, and a Number whose whole part fits the field and a key.
KeysOf(node, type) ==
    IF node.type \in Integral THEN {Leaf("bigint", node.holds + turn) : turn \in {0, 2 * Half}}
    ELSE IF node.type = "double" /\ Trunc(node.holds) \in Width(type) \cap Width("uint64")
         THEN {Leaf("number", node.holds)}
    ELSE {}

\* A row that a contract reads and stores again keeps its bytes, although an
\* unsigned integer comes back as a signed one; and the key that is read from a
\* row is the one the row was stored under, which the index and the serializer
\* make of the given number each in its own way.  A Number out of range is
\* excepted: either cast is undefined.
RowKept ==
    /\ Row(fc_value(js_value(value)), value) = Row(value, value)
    /\ \A p \in DOMAIN value, type \in Integral : \A key \in KeysOf(value[p], type) :
         \A id \in get_index(key), word \in Bytes(fc_value(key)[<<>>], type) :
             get_index(js_value(ReadInteger(type, word))) = {id}
=============================================================================
