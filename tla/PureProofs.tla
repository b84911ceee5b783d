----------------------------- MODULE PureProofs -----------------------------
(* What is proved of the modules without a state of their own, for every    *)
(* size of a word, every name of a table, every base, and header fields of   *)
(* any number and any length: the theorems are about the Spec of MCPure.     *)
EXTENDS MCPure, TLAPS, WellFoundedInduction, SequenceTheorems

----------------------------------------------------------------------------
(* Minimality of the natural numbers gives induction over sets of them, and *)
(* that what is defined by recursion exists.  The theorems of the library about *)
(* induction and recursion take operators, which the provers cannot instantiate. *)

\* A set of natural numbers that is not empty has a least one.
LEMMA Least ==
    ASSUME NEW S \in SUBSET Nat, S # {}
    PROVE  \E n \in S : \A k \in S : n <= k
<1> DEFINE R == OpToRel(<, Nat)
<1>1. \E n \in S : \A k \in S : ~ (<<k, n>> \in R)
  <2>1. IsWellFoundedOn(R, Nat)
    BY NatLessThanWellFounded
  <2> HIDE DEF R
  <2> QED
    BY <2>1, WFMin
<1>2. PICK n \in S : \A k \in S : ~ (<<k, n>> \in R)
  BY <1>1
<1>3. \A k \in S : ~ (k < n)
  BY <1>2 DEF OpToRel
<1> QED
  BY <1>3

\* A set with 0 and the successor of each of its numbers has them all.
LEMMA Induction ==
    ASSUME NEW P, 0 \in P, \A n \in Nat : n \in P => n + 1 \in P
    PROVE  Nat \subseteq P
<1> SUFFICES ASSUME Nat \ P # {} PROVE FALSE
  OBVIOUS
<1>1. PICK n \in Nat \ P : \A k \in Nat \ P : n <= k
  BY Least
<1>2. n # 0 /\ n - 1 \in Nat /\ ~(n <= n - 1)
  BY <1>1
<1>3. n - 1 \in P
  BY <1>1, <1>2
<1>4. (n - 1) + 1 \in P
  BY <1>2, <1>3
<1> QED
  BY <1>1, <1>4

\* F[x][g], the value at x, depends only on the values of g at points that m
\* puts below x.
WellFounded(S, T, m, F) ==
    /\ T # {} /\ m \in [S -> Nat] /\ F \in [S -> [[S -> T] -> T]]
    /\ \A x \in S, g, h \in [S -> T] : (\A y \in S : m[y] < m[x] => g[y] = h[y]) => F[x][g] = F[x][h]

Solvable(S, T, F) == \E f \in [S -> T] : \A x \in S : f[x] = F[x][f]

\* A function is defined by values that depend on values at lower points only.
LEMMA Recursion ==
    ASSUME NEW S, NEW T, NEW m, NEW F, WellFounded(S, T, m, F)
    PROVE  Solvable(S, T, F)
<1> USE DEF WellFounded
<1> DEFINE Upto(n, g) == \A x \in S : m[x] < n => g[x] = F[x][g]
           Agree(n, g, h) == \A x \in S : m[x] < n => g[x] = h[x]
<1>1. ASSUME NEW n \in Nat, NEW k \in Nat, n <= k, NEW g \in [S -> T],
             NEW h \in [S -> T], Upto(n, g), Upto(k, h)
      PROVE  Agree(n, g, h)
  <2> DEFINE D == {d \in Nat : \E x \in S : m[x] = d /\ d < n /\ g[x] # h[x]}
  <2> SUFFICES ASSUME D # {} PROVE FALSE
    OBVIOUS
  <2>1. PICK d \in D : \A e \in D : d <= e
    BY Least
  <2>2. PICK x \in S : m[x] = d /\ d < n /\ g[x] # h[x]
    BY <2>1
  <2>3. \A y \in S : m[y] < m[x] => g[y] = h[y]
    BY <2>1, <2>2
  <2>4. F[x][g] = F[x][h]
    BY <2>3
  <2> QED
    BY <1>1, <2>2, <2>4
<1>2. \A n \in Nat : \E g \in [S -> T] : Upto(n, g)
  <2> DEFINE P == {n \in Nat : \E g \in [S -> T] : Upto(n, g)}
  <2>1. 0 \in P
    <3>1. PICK t \in T : TRUE
      OBVIOUS
    <3>2. [x \in S |-> t] \in [S -> T] /\ Upto(0, [x \in S |-> t])
      OBVIOUS
    <3> QED
      BY <3>2
  <2>2. ASSUME NEW n \in Nat, n \in P
        PROVE  n + 1 \in P
    <3>1. PICK g \in [S -> T] : Upto(n, g)
      BY <2>2
    <3> DEFINE h == [x \in S |-> F[x][g]]
    <3>2. h \in [S -> T]
      OBVIOUS
    <3>3. ASSUME NEW x \in S, m[x] < n + 1
          PROVE  h[x] = F[x][h]
      <4>1. \A y \in S : m[y] < m[x] => m[y] < n
        BY <3>3
      <4>2. \A y \in S : m[y] < m[x] => h[y] = g[y]
        BY <3>1, <4>1
      <4> HIDE DEF h
      <4>3. F[x][h] = F[x][g]
        BY <3>2, <4>2
      <4> QED
        BY <4>3 DEF h
    <3>4. Upto(n + 1, h)
      BY <3>3
    <3> HIDE DEF h, Upto
    <3> QED
      BY <3>2, <3>4
  <2> HIDE DEF P, Upto
  <2>3. Nat \subseteq P
    BY <2>1, <2>2, Induction
  <2> QED
    BY <2>3 DEF P
<1> DEFINE G(x) == CHOOSE g \in [S -> T] : Upto(m[x] + 1, g)
           f == [x \in S |-> G(x)[x]]
<1>3. ASSUME NEW x \in S PROVE G(x) \in [S -> T] /\ Upto(m[x] + 1, G(x))
  <2> HIDE DEF Upto
  <2> QED
    BY <1>2
<1>4. f \in [S -> T]
  <2> HIDE DEF G
  <2> QED
    BY <1>3
<1>5. ASSUME NEW x \in S PROVE f[x] = F[x][f]
  <2>1. ASSUME NEW y \in S, m[y] < m[x] PROVE f[y] = G(x)[y]
    <3>1. m[y] + 1 <= m[x] + 1 /\ m[y] + 1 \in Nat /\ m[x] + 1 \in Nat /\ m[y] < m[y] + 1
      BY <2>1
    <3>2. G(x) \in [S -> T] /\ G(y) \in [S -> T] /\ Upto(m[x] + 1, G(x)) /\ Upto(m[y] + 1, G(y))
      BY <1>3
    <3>3. \A z \in S : m[z] < m[y] + 1 => G(y)[z] = G(x)[z]
      <4>1. PICK i \in Nat, j \in Nat : i = m[y] + 1 /\ j = m[x] + 1
        BY <3>1
      <4>2. PICK g \in [S -> T], h \in [S -> T] : g = G(y) /\ h = G(x)
        BY <3>2
      <4>3. i <= j /\ Upto(i, g) /\ Upto(j, h)
        BY <3>1, <3>2, <4>1, <4>2
      <4>4. Agree(i, g, h)
        <5> HIDE DEF Upto, Agree
        <5> QED
          BY <1>1, <4>3
      <4> QED
        BY <4>1, <4>2, <4>4
    <3>4. G(y)[y] = G(x)[y]
      BY <3>1, <3>3
    <3> QED
      BY <3>4
  <2>2. F[x][f] = F[x][G(x)]
    <3> HIDE DEF f, G
    <3> QED
      BY <1>3, <1>4, <2>1
  <2>3. G(x)[x] = F[x][G(x)]
    <3>1. m[x] < m[x] + 1
      OBVIOUS
    <3> HIDE DEF G
    <3> QED
      BY <1>3, <3>1
  <2> HIDE DEF G
  <2> QED
    BY <2>2, <2>3
<1> HIDE DEF f
<1> QED
  BY <1>4, <1>5 DEF Solvable

\* A loop that computes the state after turn k from the one before.
IsLoop(l, T, t, F) == l \in Nat /\ t \in T /\ F \in [1..l -> [T -> T]]

Runs(l, T, t, F) == \E f \in [0..l -> T] : f[0] = t /\ \A k \in 1..l : f[k] = F[k][f[k - 1]]

\* What a loop computes turn by turn is a function.
LEMMA Loop ==
    ASSUME NEW l, NEW T, NEW t, NEW F, IsLoop(l, T, t, F)
    PROVE  Runs(l, T, t, F)
<1> USE DEF IsLoop
<1> DEFINE S == 0..l
           m == [k \in S |-> k]
           E == [k \in S |-> [g \in [S -> T] |-> IF k = 0 THEN t ELSE F[k][g[k - 1]]]]
<1>1. m \in [S -> Nat] /\ T # {}
  OBVIOUS
<1>2. \A k \in S, g \in [S -> T] : (IF k = 0 THEN t ELSE F[k][g[k - 1]]) \in T
  <2> TAKE k \in S, g \in [S -> T]
  <2>1. CASE k # 0
    <3>1. k \in 1..l /\ k - 1 \in S
      BY <2>1
    <3> QED
      BY <3>1
  <2> QED
    BY <2>1
<1>3. E \in [S -> [[S -> T] -> T]]
  <2> HIDE DEF S
  <2> QED
    BY <1>2
<1>4. ASSUME NEW k \in S, NEW g \in [S -> T], NEW h \in [S -> T], \A y \in S : m[y] < m[k] => g[y] = h[y]
      PROVE  E[k][g] = E[k][h]
  <2>1. CASE k # 0
    <3>1. k \in 1..l /\ k - 1 \in S /\ k - 1 < k
      BY <2>1
    <3> QED
      BY <1>4, <3>1
  <2> QED
    BY <2>1
<1>5. WellFounded(S, T, m, E)
  <2> HIDE DEF S, m, E
  <2> QED
    BY <1>1, <1>3, <1>4 DEF WellFounded
<1>6. PICK f \in [S -> T] : \A k \in S : f[k] = E[k][f]
  <2> HIDE DEF S, m, E
  <2> QED
    BY <1>5, Recursion DEF Solvable
<1>7. f[0] = t /\ \A k \in 1..l : f[k] = F[k][f[k - 1]]
  BY <1>6
<1> QED
  BY <1>6, <1>7 DEF Runs

----------------------------------------------------------------------------
(* TableHandle: the tables of the indexes.                                 *)

\* The positions up to 15 fit in the bits below the names, each in its own way.
LEMMA LowBits ==
    /\ \A i \in 0..15 : Bits(i) \subseteq 0..3
    /\ \A i, j \in 0..15 : Bits(i) = Bits(j) => i = j
<1> DEFINE At(k, i) == (i \div <<1, 2, 4, 8, 16>>[k + 1]) % 2
<1>1. \A i \in 0..15 : /\ At(0, i) = i % 2 /\ At(1, i) = (i \div 2) % 2
                       /\ At(2, i) = (i \div 4) % 2 /\ At(3, i) = (i \div 8) % 2
                       /\ At(4, i) = (i \div 16) % 2
  OBVIOUS
<1>2. ASSUME NEW i \in 0..15, NEW k \in 0..4
      PROVE  k \in Bits(i) <=> At(k, i) = 1
  BY DEF Bits
<1>3. ASSUME NEW i \in 0..15
      PROVE  Bits(i) \subseteq 0..3
  <2>1. At(4, i) = 0
    BY <1>1
  <2>2. 4 \notin Bits(i)
    BY <1>2, <2>1
  <2>3. Bits(i) \subseteq 0..4
    BY DEF Bits
  <2> QED
    BY <2>2, <2>3
<1>4. ASSUME NEW i \in 0..15, NEW j \in 0..15, Bits(i) = Bits(j)
      PROVE  i = j
  <2>1. \A k \in {0, 1, 2, 3} : At(k, i) = 1 <=> At(k, j) = 1
    BY <1>2, <1>4
  <2>2. /\ i % 2 = 1 <=> j % 2 = 1
        /\ (i \div 2) % 2 = 1 <=> (j \div 2) % 2 = 1
        /\ (i \div 4) % 2 = 1 <=> (j \div 4) % 2 = 1
        /\ (i \div 8) % 2 = 1 <=> (j \div 8) % 2 = 1
    BY <1>1, <2>1
  <2> QED
    BY <2>2
<1> QED
  BY <1>3, <1>4

Names == SUBSET (4..63)
Positions == 0..15

\* Two indexes that keep their entries in one table are one.
LEMMA TablesAreApart ==
    \A m, n \in Names : \A i, j \in Positions :
        IndexTable(m, i) = IndexTable(n, j) => m = n /\ i = j
<1> SUFFICES ASSUME NEW m \in SUBSET (4..63), NEW n \in SUBSET (4..63), NEW i \in 0..15, NEW j \in 0..15,
                    IndexTable(m, i) = IndexTable(n, j)
             PROVE  m = n /\ i = j
  BY DEF Names, Positions
<1>1. Bits(i) \subseteq 0..3 /\ Bits(j) \subseteq 0..3
  BY LowBits
<1>2. m = (m \cup Bits(i)) \cap (4..63) /\ n = (n \cup Bits(j)) \cap (4..63)
  <2>1. \A k \in 0..3 : k \notin 4..63
    OBVIOUS
  <2> QED
    BY <1>1, <2>1
<1>3. Bits(i) = (m \cup Bits(i)) \cap (0..3) /\ Bits(j) = (n \cup Bits(j)) \cap (0..3)
  BY <1>1
<1>4. m = n /\ Bits(i) = Bits(j)
  BY <1>2, <1>3 DEF IndexTable
<1> QED
  BY <1>4, LowBits

\* The indexes of the declarations the code accepts keep their entries in
\* tables of their own, and their keys have one to four words.
LEMMA AcceptedApart ==
    ASSUME NEW options, options \in Seq(Options), Opens(options)
    PROVE  /\ \A i \in DOMAIN options : get_table({}, options)[i].words \in 1..4
           /\ \A m, n \in Names, i, j \in DOMAIN options :
                  get_table(m, options)[i].table = get_table(n, options)[j].table => m = n /\ i = j
<1>1. PICK l \in Nat : l = Len(options) /\ DOMAIN options = 1..l
  OBVIOUS
<1>2. l <= 16
  BY <1>1 DEF Opens, MaxIndexes
<1>3. ASSUME NEW i \in DOMAIN options
      PROVE  get_table({}, options)[i].words \in 1..4
  <2>1. options[i].size \in 1..256 /\ options[i].size % 64 = 0
    BY DEF Opens, Accepts
  <2>2. \A z \in 1..256 : z % 64 = 0 => z \div 64 \in 1..4
    OBVIOUS
  <2> QED
    BY <2>1, <2>2 DEF get_table
<1>4. ASSUME NEW m \in Names, NEW n \in Names, NEW i \in DOMAIN options, NEW j \in DOMAIN options,
             get_table(m, options)[i].table = get_table(n, options)[j].table
      PROVE  m = n /\ i = j
  <2>1. i - 1 \in 0..15 /\ j - 1 \in 0..15 /\ i \in Nat /\ j \in Nat
    <3>1. i \in 1..l /\ j \in 1..l
      BY <1>1
    <3>2. \A k \in 1..l : k - 1 \in 0..15 /\ k \in Nat
      BY <1>2
    <3> QED
      BY <3>1, <3>2
  <2>2. IndexTable(m, i - 1) = IndexTable(n, j - 1)
    BY <1>4 DEF get_table
  <2>3. m = n /\ i - 1 = j - 1
    <3>1. PICK a \in 0..15, b \in 0..15 : a = i - 1 /\ b = j - 1
      BY <2>1
    <3>2. a \in Positions /\ b \in Positions
      BY DEF Positions
    <3>3. IndexTable(m, a) = IndexTable(n, b)
      BY <2>2, <3>1
    <3>4. m = n /\ a = b
      BY <3>2, <3>3, TablesAreApart
    <3> QED
      BY <3>1, <3>4
  <2> QED
    BY <2>1, <2>3
<1> QED
  BY <1>3, <1>4

TableTypeOK == declared \in Seq(Options)

\* No two indexes that contracts have open keep their entries in one table,
\* for any tables with at most twelve characters: the position takes the bits
\* below the name (Table::set_index, Index::name).  With a thirteenth character
\* two indexes may share a table.
THEOREM IndexesApart == Spec => []ShortNamesApart
<1>1. Init => TableTypeOK
  BY DEF Init, TableInit, TableTypeOK
<1>2. TableTypeOK /\ [Next]_<<fields, valueVars, declared>> => TableTypeOK'
  <2> SUFFICES ASSUME TableTypeOK, [Next]_<<fields, valueVars, declared>> PROVE TableTypeOK'
    OBVIOUS
  <2>1. CASE TableNext
    BY <2>1 DEF TableNext, Declare, TableTypeOK
  <2>2. CASE UNCHANGED declared
    BY <2>2 DEF TableTypeOK
  <2> QED
    BY <2>1, <2>2 DEF Next
<1>3. TableTypeOK => ShortNamesApart
  <2> SUFFICES ASSUME TableTypeOK, Opens(declared) PROVE
               /\ \A i \in DOMAIN declared : get_table({}, declared)[i].words \in 1..4
               /\ Apart({n \in TableNames : n \subseteq 4..63})
    BY DEF ShortNamesApart
  <2>1. /\ \A i \in DOMAIN declared : get_table({}, declared)[i].words \in 1..4
        /\ \A m, n \in Names, i, j \in DOMAIN declared :
               get_table(m, declared)[i].table = get_table(n, declared)[j].table => m = n /\ i = j
    BY AcceptedApart DEF TableTypeOK
  <2>2. {n \in TableNames : n \subseteq 4..63} \subseteq Names
    BY DEF Names
  <2> QED
    BY <2>1, <2>2 DEF Apart
<1> QED
  BY <1>1, <1>2, <1>3, PTL DEF Spec

----------------------------------------------------------------------------
(* Values: a row that is read and written back.                            *)

\* Reading a word as a signed number, and adding whole turns, leaves the word.
LEMMA SignedKeeps ==
    ASSUME NEW n \in Int
    PROVE  Signed(n) \in Int /\ Unsigned(n) \in Int /\ Unsigned(Signed(n)) = Unsigned(n)
           /\ Unsigned(Unsigned(n)) = Unsigned(n) /\ Unsigned(n + 2 * Half) = Unsigned(n)
<1> DEFINE w == 2 * Half
<1>1. w \in Nat /\ w > 0 /\ Half \in Nat /\ w = 2 * Half
  BY ValuesAssumption
<1> HIDE DEF w
<1>2. \A x \in Int : x = w * (x \div w) + (x % w) /\ x % w \in 0..w - 1 /\ x \div w \in Int
  BY <1>1
<1>3. \A q \in Int, r \in 0..w - 1 : (w * q + r) % w = r
  BY <1>1
<1>4. PICK q \in Int, r \in 0..w - 1 : n = w * q + r /\ n % w = r
  BY <1>2
<1>5. PICK p \in Int, s \in 0..w - 1 : n + Half = w * p + s /\ (n + Half) % w = s
  BY <1>1, <1>2
<1>6. s - Half = w * (q - p) + r
  BY <1>1, <1>4, <1>5
<1>7. (s - Half) % w = r
  BY <1>1, <1>3, <1>6
<1>8. (n + w) % w = r
  <2>1. n + w = w * (q + 1) + r
    BY <1>1, <1>4
  <2> QED
    BY <1>3, <2>1
<1>9. r % w = r
  <2>1. r = w * 0 + r
    BY <1>1
  <2> QED
    BY <1>3, <2>1
<1> QED
  BY <1>1, <1>4, <1>5, <1>7, <1>8, <1>9 DEF Signed, Unsigned, w

Nodes == [type : {"null", "int64", "uint64", "double", "bool", "string", "blob", "array", "object"}, holds : Int]

ValueTypeOK == <<>> \in DOMAIN value /\ value \in [DOMAIN value -> Nodes] /\ DOMAIN value \subseteq Seq(Nat)

\* Conversion to JavaScript and back leaves the row.
LEMMA RowOf ==
    ASSUME NEW v, v \in [DOMAIN v -> Nodes]
    PROVE  Row(fc_value(js_value(v)), v) = Row(v, v)
<1> DEFINE J(x) == [type |-> JsType[x.type], holds |-> x.holds]
           C(x) == [type |-> VariantType[x.type], holds |-> IF x.type = "bigint" THEN FromBigInt(x.holds) ELSE x.holds]
<1>1. ASSUME NEW x \in Nodes PROVE Bytes(C(J(x)), x.type) = Bytes(x, x.type)
  <2>1. CASE x.type \in Integral
    <3>1. C(J(x)) = [type |-> "int64", holds |-> Signed(x.holds)]
      BY <2>1 DEF Nodes, JsType, VariantType, FromBigInt, Integral
    <3>2. Unsigned(Signed(x.holds)) = Unsigned(x.holds)
      BY SignedKeeps DEF Nodes
    <3> QED
      BY <2>1, <3>1, <3>2 DEF Bytes, Integral
  <2>2. CASE x.type \notin Integral
    <3>1. C(J(x)) = x
      BY <2>2 DEF Nodes, JsType, VariantType, Integral
    <3> QED
      BY <3>1
  <2> QED
    BY <2>1, <2>2
<1>2. js_value(v) = [p \in DOMAIN v |-> J(v[p])]
  BY DEF js_value
<1>3. fc_value(js_value(v)) = [p \in DOMAIN v |-> C(J(v[p]))]
  BY <1>2 DEF fc_value
<1> HIDE DEF C, J
<1>4. Row(fc_value(js_value(v)), v) = [p \in DOMAIN v |-> Bytes(C(J(v[p])), v[p].type)]
  BY <1>3 DEF Row
<1>5. Row(v, v) = [p \in DOMAIN v |-> Bytes(v[p], v[p].type)]
  BY DEF Row
<1> QED
  BY <1>1, <1>4, <1>5

\* The key that is read from a word of a row, whatever the type of the field.
LEMMA KeyOfWord ==
    ASSUME NEW u \in Int, NEW type \in Integral
    PROVE  get_index(js_value(ReadInteger(type, u))) = {Unsigned(u)}
<1>1. js_value(ReadInteger(type, u)) = Leaf("bigint", IF type = "int64" THEN Signed(u) ELSE u)
  BY DEF js_value, ReadInteger, Leaf, JsType, Integral
<1>2. get_index(js_value(ReadInteger(type, u))) = {IF type = "int64" THEN Unsigned(Signed(u)) ELSE Unsigned(u)}
  BY <1>1 DEF get_index, Leaf
<1> QED
  BY <1>2, SignedKeeps

\* A key that was read from a row finds what it found, if it was a BigInt.
LEMMA BigIntKey ==
    ASSUME NEW n \in Int, NEW type \in Integral, NEW id \in get_index(Leaf("bigint", n)),
           NEW word \in Bytes(fc_value(Leaf("bigint", n))[<<>>], type)
    PROVE  get_index(js_value(ReadInteger(type, word))) = {id}
<1>1. id = Unsigned(n)
  BY DEF get_index, Leaf
<1>2. fc_value(Leaf("bigint", n))[<<>>] = [type |-> "int64", holds |-> Signed(n)]
  BY DEF fc_value, Leaf, VariantType, FromBigInt
<1>3. word = Unsigned(Signed(n))
  BY <1>2 DEF Bytes, Integral
<1>4. word \in Int /\ Unsigned(word) = Unsigned(n) /\ word = Unsigned(n)
  BY <1>3, SignedKeeps
<1> QED
  BY <1>1, <1>4, KeyOfWord

\* A whole part that fits a word is the word.
LEMMA WordOf ==
    ASSUME NEW n \in Width("uint64")
    PROVE  n \in Int /\ Unsigned(n) = n
<1> DEFINE w == 2 * Half
<1>1. w \in Nat /\ w > 0 /\ w = 2 * Half
  BY ValuesAssumption
<1>2. n \in 0..w - 1
  BY DEF Width
<1> HIDE DEF w
<1>3. n % w = n
  BY <1>1, <1>2
<1> QED
  BY <1>1, <1>2, <1>3 DEF Unsigned

\* And likewise if it was a Number whose whole part fits the field and a key:
\* both casts give that part.
LEMMA NumberKey ==
    ASSUME NEW d \in Int, NEW type \in Integral, Trunc(d) \in Width(type), Trunc(d) \in Width("uint64"),
           NEW id \in get_index(Leaf("number", d)),
           NEW word \in Bytes(fc_value(Leaf("number", d))[<<>>], type)
    PROVE  get_index(js_value(ReadInteger(type, word))) = {id}
<1>1. id = Trunc(d)
  BY DEF get_index, Leaf, Cast
<1>2. fc_value(Leaf("number", d))[<<>>] = [type |-> "double", holds |-> d]
  BY DEF fc_value, Leaf, VariantType
<1>3. word = Unsigned(Trunc(d))
  BY <1>2 DEF Bytes, Integral, Cast
<1>4. word \in Int /\ word = Trunc(d) /\ Unsigned(word) = word
  BY <1>3, WordOf
<1> QED
  BY <1>1, <1>4, KeyOfWord

\* An element put in front of a sequence is taken off again.
LEMMA ConsTail ==
    ASSUME NEW i \in Nat, NEW q \in Seq(Nat)
    PROVE  <<i>> \o q \in Seq(Nat) /\ Tail(<<i>> \o q) = q
<1>1. <<i>> \in Seq(Nat) /\ Len(<<i>>) = 1
  OBVIOUS
<1>0. <<i>> \o q \in Seq(Nat)
  BY <1>1, ConcatProperties
<1>2. PICK p \in Seq(Nat) : p = <<i>> \o q
  BY <1>0
<1>3. Len(p) = 1 + Len(q) /\ \A k \in 1..Len(q) : p[k + 1] = q[k]
  BY <1>1, <1>2
<1>4. Tail(p) \in Seq(Nat) /\ Len(Tail(p)) = Len(q) /\ \A k \in 1..Len(q) : Tail(p)[k] = q[k]
  BY <1>3
<1>5. Tail(p) = q
  BY <1>4, SeqEqual
<1> QED
  BY <1>2, <1>5

\* Copies of a value under a new node are a value again.
LEMMA CopiesAreNodes ==
    ASSUME ValueTypeOK, NEW type \in {"array", "object"}, NEW n \in Nat, value' = Copies(type, n)
    PROVE  ValueTypeOK'
<1> DEFINE D == {<<>>} \cup {<<c[1]>> \o c[2] : c \in (1..n) \X DOMAIN value}
           N(p) == IF p = <<>> THEN [type |-> type, holds |-> 0] ELSE value[Tail(p)]
<1>1. value' = [p \in D |-> N(p)]
  BY DEF Copies
<1>2. ASSUME NEW p \in D PROVE N(p) \in Nodes /\ p \in Seq(Nat)
  <2>1. CASE p = <<>>
    BY <2>1 DEF Nodes
  <2>2. CASE p # <<>>
    <3>1. PICK i \in 1..n, q \in DOMAIN value : p = <<i>> \o q
      <4>1. PICK c \in (1..n) \X DOMAIN value : p = <<c[1]>> \o c[2]
        BY <2>2
      <4>2. c[1] \in 1..n /\ c[2] \in DOMAIN value
        OBVIOUS
      <4> QED
        BY <4>1, <4>2
    <3>2. q \in Seq(Nat) /\ Tail(p) = q /\ p \in Seq(Nat)
      <4>1. DOMAIN value \subseteq Seq(Nat)
        BY DEF ValueTypeOK
      <4>2. q \in Seq(Nat) /\ i \in Nat
        BY <4>1
      <4>3. Tail(<<i>> \o q) = q /\ <<i>> \o q \in Seq(Nat)
        BY <4>2, ConsTail
      <4> QED
        BY <3>1, <4>2, <4>3
    <3>3. value[q] \in Nodes
      BY DEF ValueTypeOK
    <3> QED
      BY <2>2, <3>2, <3>3
  <2> QED
    BY <2>1, <2>2
<1> HIDE DEF N
<1>3. <<>> \in D
  OBVIOUS
<1> HIDE DEF D
<1>4. DOMAIN value' = D /\ \A p \in D : value'[p] \in Nodes /\ p \in Seq(Nat)
  BY <1>1, <1>2
<1> QED
  BY <1>1, <1>3, <1>4 DEF ValueTypeOK

\* A row that JavaScript reads and writes back is the same row, and the key read
\* from it is the one it was stored under, for every width of the integers,
\* every depth of a value and every Number that both casts are defined for
\* (js_value, fc_value, Table::get_index).
THEOREM RowsAreKept == Spec => []RowKept
<1>1. Init => ValueTypeOK
  BY DEF Init, ValueInit, Leaf, ValueTypeOK, Nodes
<1>2. ValueTypeOK /\ [Next]_<<fields, valueVars, declared>> => ValueTypeOK'
  <2> SUFFICES ASSUME ValueTypeOK, [Next]_<<fields, valueVars, declared>> PROVE ValueTypeOK'
    OBVIOUS
  <2>1. ASSUME Scalar PROVE ValueTypeOK'
    <3>1. PICK type \in {"int64", "uint64", "double", "string", "blob", "bool"}, n \in Int : value' = Leaf(type, n)
      <4>1. \A n \in 0..2 * Half - 1 : n \in Int /\ Signed(n) \in Int
        BY SignedKeeps, ValuesAssumption
      <4>2. Doubles \subseteq Int
        BY ValuesAssumption
      <4> QED
        BY <2>1, <4>1, <4>2 DEF Scalar, ReadInteger, Integral
    <3> QED
      BY <3>1 DEF Leaf, ValueTypeOK, Nodes
  <2>2. ASSUME Nest PROVE ValueTypeOK'
    <3>1. PICK type \in {"array", "object"}, n \in 0..2 : value' = Copies(type, n)
      BY <2>2 DEF Nest
    <3> QED
      BY <3>1, CopiesAreNodes
  <2>3. CASE UNCHANGED value
    BY <2>3 DEF ValueTypeOK
  <2> QED
    BY <2>1, <2>2, <2>3 DEF Next, ValueNext, valueVars
<1>3. ValueTypeOK => RowKept
  <2> SUFFICES ASSUME ValueTypeOK PROVE RowKept
    OBVIOUS
  <2>1. Row(fc_value(js_value(value)), value) = Row(value, value)
    BY RowOf DEF ValueTypeOK
  <2>2. ASSUME NEW p \in DOMAIN value, NEW type \in Integral, NEW key \in KeysOf(value[p], type),
               NEW id \in get_index(key), NEW word \in Bytes(fc_value(key)[<<>>], type)
        PROVE  get_index(js_value(ReadInteger(type, word))) = {id}
    <3>1. PICK h \in Int : h = value[p].holds
      BY DEF ValueTypeOK, Nodes
    <3>2. CASE value[p].type \in Integral
      <4>1. PICK turn \in {0, 2 * Half} : key = Leaf("bigint", h + turn)
        BY <3>1, <3>2 DEF KeysOf
      <4>2. turn \in Int
        BY ValuesAssumption
      <4>3. PICK n \in Int : n = h + turn
        BY <3>1, <4>2
      <4>4. key = Leaf("bigint", n)
        BY <4>1, <4>3
      <4> QED
        BY <4>4, BigIntKey
    <3>3. CASE value[p].type \notin Integral
      <4>1. key = Leaf("number", h) /\ Trunc(h) \in Width(type) /\ Trunc(h) \in Width("uint64")
        BY <3>1, <3>3 DEF KeysOf
      <4> QED
        BY <4>1, NumberKey
    <3> QED
      BY <3>2, <3>3
  <2> QED
    BY <2>1, <2>2 DEF RowKept
<1> QED
  BY <1>1, <1>2, <1>3, PTL DEF Spec

----------------------------------------------------------------------------
(* Digits and BaseConverter: the number that digits stand for.             *)

\* n[k] is the number that the first k of l digits are.
PartNumbers(base, s, l, n) ==
    /\ n \in [0..l -> Nat]
    /\ NumberOf(base, s) = n[l] /\ n[0] = 0
    /\ \A k \in 1..l : n[k] = n[k - 1] * base + s[k]

\* NumberOf is computed digit by digit.
LEMMA NumberOfDef ==
    ASSUME NEW base \in Nat, NEW s \in Seq(Nat)
    PROVE  \E n : PartNumbers(base, s, Len(s), n)
<1>0. PICK l \in Nat : l = Len(s)
  OBVIOUS
<1> DEFINE n[k \in 0..l] == IF k = 0 THEN 0 ELSE n[k - 1] * base + s[k]
           F == [k \in 1..l |-> [v \in Nat |-> v * base + s[k]]]
<1>1. l \in Nat /\ \A k \in 1..l : s[k] \in Nat
  BY <1>0
<1>2. NumberOf(base, s) = n[l]
  BY <1>0 DEF NumberOf
<1>3. F \in [1..l -> [Nat -> Nat]]
  BY <1>1
<1>4. PICK f \in [0..l -> Nat] : f[0] = 0 /\ \A k \in 1..l : f[k] = F[k][f[k - 1]]
  <2> HIDE DEF F
  <2>1. IsLoop(l, Nat, 0, F)
    BY <1>1, <1>3 DEF IsLoop
  <2>2. Runs(l, Nat, 0, F)
    BY <2>1, Loop
  <2> QED
    BY <2>2 DEF Runs
<1>5. ASSUME NEW k \in 1..l PROVE k - 1 \in 0..l /\ f[k] = f[k - 1] * base + s[k]
  <2>1. k - 1 \in 0..l /\ f[k - 1] \in Nat
    BY <1>1, <1>4
  <2>2. f[k] = F[k][f[k - 1]]
    BY <1>4
  <2> QED
    BY <2>1, <2>2
<1>6. f = [k \in 0..l |-> IF k = 0 THEN 0 ELSE f[k - 1] * base + s[k]]
  BY <1>1, <1>4, <1>5
<1>7. n = [k \in 0..l |-> IF k = 0 THEN 0 ELSE n[k - 1] * base + s[k]]
  BY <1>6
<1> HIDE DEF n
<1>8. \A k \in 0..l : n[k] = f[k]
  <2> DEFINE P == {k \in Nat : k \in 0..l => n[k] = f[k]}
  <2>1. 0 \in P
    BY <1>1, <1>4, <1>7
  <2>2. ASSUME NEW k \in Nat, k \in P PROVE k + 1 \in P
    <3>1. CASE k + 1 \in 0..l
      <4>1. k \in 0..l /\ k + 1 \in 1..l /\ (k + 1) - 1 = k /\ k + 1 # 0
        BY <1>1, <3>1
      <4>2. n[k + 1] = n[k] * base + s[k + 1]
        BY <1>7, <4>1
      <4>3. f[k + 1] = f[k] * base + s[k + 1]
        BY <1>5, <4>1
      <4> QED
        BY <2>2, <4>1, <4>2, <4>3
    <3> QED
      BY <3>1
  <2> HIDE DEF P
  <2>3. Nat \subseteq P
    BY <2>1, <2>2, Induction
  <2> QED
    BY <1>1, <2>3 DEF P
<1>9. n = f
  BY <1>4, <1>7, <1>8
<1> HIDE DEF F
<1> QED
  BY <1>0, <1>2, <1>4, <1>5, <1>9 DEF PartNumbers

\* A sequence of digits is one of naturals.
LEMMA DigitsAreNaturals ==
    ASSUME NEW b \in Nat, NEW s \in Seq(0..b - 1)
    PROVE  s \in Seq(Nat)
<1>1. Len(s) \in Nat /\ \A i \in 1..Len(s) : s[i] \in Nat
  OBVIOUS
<1> QED
  BY <1>1

\* Digits stand for a natural number.
LEMMA NumberIsNatural ==
    ASSUME NEW base \in Nat, NEW s \in Seq(Nat)
    PROVE  NumberOf(base, s) \in Nat
<1>1. PICK n : PartNumbers(base, s, Len(s), n)
  BY NumberOfDef
<1>2. Len(s) \in 0..Len(s)
  OBVIOUS
<1> QED
  BY <1>1, <1>2 DEF PartNumbers

\* No digits stand for 0.
LEMMA NumberOfEmpty ==
    ASSUME NEW base \in Nat
    PROVE  NumberOf(base, <<>>) = 0
<1>0. <<>> \in Seq(Nat) /\ Len(<<>>) = 0
  OBVIOUS
<1>1. PICK s \in Seq(Nat) : s = <<>> /\ Len(s) = 0
  BY <1>0
<1>2. PICK n : PartNumbers(base, s, Len(s), n)
  BY NumberOfDef
<1> QED
  BY <1>1, <1>2 DEF PartNumbers

\* What a digit more does to the number.
LEMMA NumberOfAppend ==
    ASSUME NEW base \in Nat, NEW s \in Seq(Nat), NEW d \in Nat
    PROVE  NumberOf(base, Append(s, d)) = NumberOf(base, s) * base + d
<1>0. /\ Append(s, d) \in Seq(Nat) /\ Len(Append(s, d)) = Len(s) + 1 /\ Len(s) \in Nat
      /\ Append(s, d)[Len(s) + 1] = d /\ \A k \in 1..Len(s) : Append(s, d)[k] = s[k]
  OBVIOUS
<1>1. PICK l \in Nat, t \in Seq(Nat) : /\ l = Len(s) /\ t = Append(s, d) /\ Len(t) = l + 1
                                       /\ t[l + 1] = d /\ \A k \in 1..l : t[k] = s[k]
  BY <1>0
<1>2. PICK n : PartNumbers(base, s, l, n)
  BY <1>1, NumberOfDef
<1>3. PICK p : PartNumbers(base, t, l + 1, p)
  BY <1>1, NumberOfDef
<1> USE DEF PartNumbers
<1> DEFINE P == {k \in Nat : k <= l => p[k] = n[k]}
<1>4. 0 \in P
  BY <1>2, <1>3
<1>5. ASSUME NEW k \in Nat, k \in P PROVE k + 1 \in P
  <2>1. CASE k + 1 <= l
    <3>1. k + 1 \in 1..l /\ k + 1 \in 1..l + 1 /\ (k + 1) - 1 = k /\ k <= l
      BY <2>1
    <3>2. n[k + 1] = n[k] * base + s[k + 1] /\ p[k + 1] = p[k] * base + t[k + 1]
      BY <1>2, <1>3, <3>1
    <3> QED
      BY <1>1, <1>5, <3>1, <3>2
  <2> QED
    BY <2>1
<1>6. p[l] = n[l]
  <2> HIDE DEF P
  <2>1. Nat \subseteq P
    BY <1>4, <1>5, Induction
  <2> QED
    BY <2>1 DEF P
<1>7. p[l + 1] = p[l] * base + t[l + 1]
  <2>1. l + 1 \in 1..l + 1 /\ (l + 1) - 1 = l
    OBVIOUS
  <2> QED
    BY <1>3, <2>1
<1> QED
  BY <1>1, <1>2, <1>3, <1>6, <1>7

\* Zeros in front of a number do not change it.
LEMMA LeadingZeros ==
    ASSUME NEW base \in Nat, NEW s \in Seq(Nat), NEW t \in Seq(Nat), NEW z \in Nat,
           Len(s) = z + Len(t), \A k \in 1..z : s[k] = 0, \A k \in 1..Len(t) : t[k] = s[z + k]
    PROVE  NumberOf(base, s) = NumberOf(base, t)
<1>1. PICK l \in Nat, m \in Nat : m = Len(t) /\ l = Len(s) /\ l = z + m
  OBVIOUS
<1>2. PICK n : PartNumbers(base, s, l, n)
  BY <1>1, NumberOfDef
<1>3. PICK p : PartNumbers(base, t, m, p)
  BY <1>1, NumberOfDef
<1> USE DEF PartNumbers
<1> DEFINE P == {k \in Nat : k <= z => n[k] = 0}
           Q == {k \in Nat : k <= m => n[z + k] = p[k]}
<1>4. n[z] = 0
  <2>1. 0 \in P
    BY <1>2
  <2>2. ASSUME NEW k \in Nat, k \in P PROVE k + 1 \in P
    <3>1. CASE k + 1 <= z
      <4>1. k + 1 \in 1..z /\ k + 1 \in 1..l /\ (k + 1) - 1 = k /\ k <= z
        BY <1>1, <3>1
      <4>2. n[k + 1] = n[k] * base + s[k + 1] /\ s[k + 1] = 0 /\ n[k] = 0
        BY <1>2, <2>2, <4>1
      <4> QED
        BY <4>2
    <3> QED
      BY <3>1
  <2> HIDE DEF P
  <2>3. Nat \subseteq P
    BY <2>1, <2>2, Induction
  <2> QED
    BY <2>3 DEF P
<1>5. n[z + m] = p[m]
  <2>1. 0 \in Q
    BY <1>3, <1>4
  <2>2. ASSUME NEW k \in Nat, k \in Q PROVE k + 1 \in Q
    <3>1. CASE k + 1 <= m
      <4>1. k + 1 \in 1..m /\ z + (k + 1) \in 1..l /\ (z + (k + 1)) - 1 = z + k /\ (k + 1) - 1 = k /\ k <= m
        BY <1>1, <3>1
      <4>2. n[z + (k + 1)] = n[z + k] * base + s[z + (k + 1)] /\ p[k + 1] = p[k] * base + t[k + 1]
        BY <1>2, <1>3, <4>1
      <4>3. t[k + 1] = s[z + (k + 1)]
        BY <1>1, <4>1
      <4> QED
        BY <2>2, <4>1, <4>2, <4>3
    <3> QED
      BY <3>1
  <2> HIDE DEF Q
  <2>3. Nat \subseteq Q
    BY <2>1, <2>2, Induction
  <2> QED
    BY <2>3 DEF Q
<1> QED
  BY <1>1, <1>2, <1>3, <1>5

\* A number without leading zeros is not zero.
LEMMA NumberIsPositive ==
    ASSUME NEW base \in Nat \ {0}, NEW s \in Seq(Nat), s # <<>>, s[1] # 0
    PROVE  NumberOf(base, s) >= 1
<1>1. PICK l \in Nat : l = Len(s) /\ l >= 1 /\ s[1] \in Nat /\ \A k \in 1..l : s[k] \in Nat
  OBVIOUS
<1>2. PICK n : PartNumbers(base, s, l, n)
  BY <1>1, NumberOfDef
<1> USE DEF PartNumbers
<1> DEFINE P == {k \in Nat : k + 1 <= l => n[k + 1] >= 1}
<1>3. 0 \in P
  <2>1. 1 \in 1..l /\ 1 - 1 = 0
    BY <1>1
  <2>2. n[1] = n[0] * base + s[1]
    BY <1>2, <2>1
  <2> QED
    BY <1>1, <1>2, <2>2
<1>4. ASSUME NEW k \in Nat, k \in P PROVE k + 1 \in P
  <2>1. CASE (k + 1) + 1 <= l
    <3>1. (k + 1) + 1 \in 1..l /\ ((k + 1) + 1) - 1 = k + 1 /\ k + 1 <= l /\ k + 1 \in 0..l
      BY <2>1
    <3>2. n[(k + 1) + 1] = n[k + 1] * base + s[(k + 1) + 1]
      BY <1>2, <3>1
    <3>3. n[k + 1] >= 1 /\ n[k + 1] \in Nat /\ s[(k + 1) + 1] \in Nat
      BY <1>1, <1>2, <1>4, <3>1
    <3>4. n[k + 1] * base >= 1
      <4>1. \A a \in Nat, b \in Nat : a >= 1 /\ b >= 1 => a * b >= 1
        OBVIOUS
      <4>2. base \in Nat /\ base >= 1
        OBVIOUS
      <4> QED
        BY <3>3, <4>1, <4>2
    <3> QED
      BY <3>2, <3>3, <3>4
  <2> QED
    BY <2>1
<1> HIDE DEF P
<1>5. Nat \subseteq P
  BY <1>3, <1>4, Induction
<1>6. l - 1 \in P /\ (l - 1) + 1 = l
  BY <1>1, <1>5
<1> QED
  BY <1>2, <1>6 DEF P

\* The digits of a number, the most significant first, without a leading zero
\* unless it has one digit.
IsShortest(base, s, n) ==
    /\ s \in Seq(0..base - 1) /\ s # <<>> /\ NumberOf(base, s) = n
    /\ s[1] = 0 => Len(s) = 1

\* A number in its shortest form, and a digit more.
LEMMA AppendShortest ==
    ASSUME NEW base \in Nat \ {0, 1}, NEW s, NEW n \in Nat,
           NEW d \in 0..base - 1, n >= 1, IsShortest(base, s, n)
    PROVE  IsShortest(base, Append(s, d), n * base + d)
<1>1. s \in Seq(0..base - 1) /\ s # <<>> /\ s \in Seq(Nat) /\ d \in Nat /\ base \in Nat /\ NumberOf(base, s) = n
  BY DigitsAreNaturals DEF IsShortest
<1>2. NumberOf(base, Append(s, d)) = n * base + d
  BY <1>1, NumberOfAppend
<1>3. s[1] # 0
  <2> SUFFICES ASSUME s[1] = 0 PROVE FALSE
    OBVIOUS
  <2>1. Len(s) = 1 /\ s = Append(<<>>, 0) /\ <<>> \in Seq(Nat)
    BY <1>1 DEF IsShortest
  <2>2. NumberOf(base, Append(<<>>, 0)) = NumberOf(base, <<>>) * base + 0
    BY <2>1, NumberOfAppend
  <2>3. NumberOf(base, Append(<<>>, 0)) = 0
    BY <2>2, NumberOfEmpty
  <2> QED
    BY <1>1, <2>1, <2>3
<1>4. Append(s, d) \in Seq(0..base - 1) /\ Append(s, d) # <<>> /\ Append(s, d)[1] = s[1]
  BY <1>1
<1> QED
  BY <1>2, <1>3, <1>4 DEF IsShortest

\* dec2base is what its loop computes: the last digit behind the others.
LEMMA Dec2baseDef ==
    ASSUME NEW base \in Nat \ {0, 1}, NEW n \in Nat
    PROVE  dec2base(base, n) = IF n < base THEN <<n>> ELSE Append(dec2base(base, n \div base), n % base)
<1> DEFINE T == Seq(Nat)
           m == [k \in Nat |-> k]
           F == [k \in Nat |-> [g \in [Nat -> T] |-> IF k < base THEN <<k>> ELSE Append(g[k \div base], k % base)]]
           digits[k \in Nat] == IF k < base THEN <<k>> ELSE Append(digits[k \div base], k % base)
<1>1. \A k \in Nat : k \div base \in Nat /\ k % base \in Nat /\ (~ (k < base) => k \div base < k)
  OBVIOUS
<1>2. m \in [Nat -> Nat] /\ T # {}
  <2>1. <<>> \in T
    OBVIOUS
  <2> QED
    BY <2>1
<1>3. F \in [Nat -> [[Nat -> T] -> T]]
  <2>1. ASSUME NEW k \in Nat, NEW g \in [Nat -> T]
        PROVE  (IF k < base THEN <<k>> ELSE Append(g[k \div base], k % base)) \in T
    <3>1. k \div base \in Nat /\ k % base \in Nat
      BY <1>1
    <3>2. PICK s \in Seq(Nat), d \in Nat : s = g[k \div base] /\ d = k % base
      BY <3>1
    <3>3. <<k>> \in Seq(Nat) /\ Append(s, d) \in Seq(Nat)
      OBVIOUS
    <3> QED
      BY <3>2, <3>3
  <2> HIDE DEF T
  <2> QED
    BY <2>1
<1>4. ASSUME NEW k \in Nat, NEW g \in [Nat -> T], NEW h \in [Nat -> T], \A y \in Nat : m[y] < m[k]
             => g[y] = h[y]
      PROVE  F[k][g] = F[k][h]
  BY <1>1, <1>4
<1>5. WellFounded(Nat, T, m, F)
  <2> HIDE DEF m, F, T
  <2> QED
    BY <1>2, <1>3, <1>4 DEF WellFounded
<1>6. PICK f \in [Nat -> T] : \A k \in Nat : f[k] = F[k][f]
  <2> HIDE DEF m, F, T
  <2>1. Solvable(Nat, T, F)
    BY <1>5, Recursion
  <2> QED
    BY <2>1 DEF Solvable
<1>7. \A k \in Nat : f[k] = IF k < base THEN <<k>> ELSE Append(f[k \div base], k % base)
  BY <1>6
<1> HIDE DEF F, T
<1>8. f = [k \in Nat |-> IF k < base THEN <<k>> ELSE Append(f[k \div base], k % base)]
  BY <1>6, <1>7
<1>9. digits = [k \in Nat |-> IF k < base THEN <<k>> ELSE Append(digits[k \div base], k % base)]
  BY <1>8
<1>10. \A k \in Nat : dec2base(base, k) = digits[k]
  BY DEF dec2base
<1> HIDE DEF digits
<1>11. digits[n] = IF n < base THEN <<n>> ELSE Append(digits[n \div base], n % base)
  BY <1>9
<1> QED
  BY <1>1, <1>10, <1>11

\* dec2base writes a number in its shortest form.
LEMMA Dec2base ==
    ASSUME NEW base \in Nat \ {0, 1}, NEW n \in Nat
    PROVE  IsShortest(base, dec2base(base, n), n)
<1> DEFINE B == {k \in Nat : ~ IsShortest(base, dec2base(base, k), k)}
<1> SUFFICES ASSUME B # {} PROVE FALSE
  OBVIOUS
<1>1. PICK k \in B : \A j \in B : k <= j
  BY Least
<1>2. CASE k < base
  <2>1. dec2base(base, k) = <<k>> /\ k \in 0..base - 1
    BY <1>1, <1>2, Dec2baseDef
  <2>2. <<k>> = Append(<<>>, k) /\ <<>> \in Seq(Nat) /\ <<k>> \in Seq(0..base - 1) /\ <<k>> # <<>>
        /\ Len(<<k>>) = 1
    BY <2>1
  <2>3. NumberOf(base, <<k>>) = NumberOf(base, <<>>) * base + k
    BY <2>2, NumberOfAppend
  <2>4. NumberOf(base, <<k>>) = k
    BY <2>3, NumberOfEmpty
  <2>5. IsShortest(base, <<k>>, k)
    BY <2>2, <2>4 DEF IsShortest
  <2> QED
    BY <2>1, <2>5
<1>3. CASE ~ (k < base)
  <2>1. /\ k \div base \in Nat /\ k \div base < k /\ k \div base >= 1 /\ k % base \in 0..base - 1
        /\ k = (k \div base) * base + (k % base)
    BY <1>3
  <2>2. dec2base(base, k) = Append(dec2base(base, k \div base), k % base)
    BY <1>1, <1>3, Dec2baseDef
  <2>3. IsShortest(base, dec2base(base, k \div base), k \div base)
    BY <1>1, <2>1
  <2>4. PICK q, d, s : /\ q = k \div base /\ d = k % base /\ s = dec2base(base, k \div base)
                       /\ q \in Nat /\ d \in 0..base - 1 /\ q >= 1 /\ k = q * base + d
    BY <2>1
  <2>5. IsShortest(base, Append(s, d), q * base + d)
    BY <2>3, <2>4, AppendShortest
  <2> QED
    BY <2>2, <2>4, <2>5
<1> QED
  BY <1>2, <1>3

\* The number stays, the leading zeros go.
LEMMA Stripped ==
    ASSUME NEW base \in Nat \ {0, 1}, NEW s \in Seq(0..base - 1)
    PROVE  /\ StripZeros(s) \in Seq(0..base - 1)
           /\ NumberOf(base, StripZeros(s)) = NumberOf(base, s)
           /\ StripZeros(s) # <<>> => StripZeros(s)[1] # 0
<1> DEFINE others == {i \in DOMAIN s : s[i] # 0}
<1>1. PICK l \in Nat : l = Len(s) /\ DOMAIN s = 1..l /\ \A i \in 1..l : s[i] \in 0..base - 1
  OBVIOUS
<1>2. s \in Seq(Nat) /\ base \in Nat
  BY DigitsAreNaturals
<1>3. CASE others = {}
  <2>1. StripZeros(s) = <<>>
    BY <1>3 DEF StripZeros
  <2>2. <<>> \in Seq(0..base - 1) /\ <<>> \in Seq(Nat) /\ Len(<<>>) = 0
    OBVIOUS
  <2>3. PICK t \in Seq(Nat) : t = <<>> /\ Len(t) = 0
    BY <2>2
  <2>4. Len(s) = l + Len(t) /\ (\A k \in 1..l : s[k] = 0) /\ \A k \in 1..Len(t) : t[k] = s[l + k]
    BY <1>1, <1>3, <2>3
  <2>5. NumberOf(base, s) = NumberOf(base, t)
    BY <1>2, <2>4, LeadingZeros
  <2> QED
    BY <2>1, <2>2, <2>3, <2>5
<1>4. CASE others # {}
  <2>1. PICK f \in others : f = Min(others) /\ \A j \in others : f <= j
    <3>1. others \in SUBSET Nat
      BY <1>1
    <3>2. \E f \in others : \A j \in others : f <= j
      <4> HIDE DEF others
      <4> QED
        BY <1>4, <3>1, Least
    <3> HIDE DEF others
    <3> QED
      BY <3>2 DEF Min
  <2>2. StripZeros(s) = SubSeq(s, f, l)
    BY <1>1, <1>4, <2>1 DEF StripZeros
  <2>3. f \in 1..l /\ s[f] # 0 /\ f \in Int /\ l \in Int
    BY <1>1, <2>1
  <2>4. PICK t \in Seq(0..base - 1) : t = SubSeq(s, f, l) /\ Len(t) = l - f + 1
                                      /\ \A i \in 1..l - f + 1 : t[i] = s[f + i - 1]
    <3>1. \A i \in f..l : s[i] \in 0..base - 1
      BY <1>1, <2>3
    <3>2. /\ SubSeq(s, f, l) \in Seq(0..base - 1) /\ Len(SubSeq(s, f, l)) = l - f + 1
          /\ \A i \in 1..l - f + 1 : SubSeq(s, f, l)[i] = s[f + i - 1]
      BY <2>3, <3>1, SubSeqProperties
    <3> QED
      BY <3>2
  <2>5. t \in Seq(Nat)
    BY DigitsAreNaturals
  <2>6. t[1] = s[f] /\ t # <<>>
    <3>1. 1 \in 1..l - f + 1 /\ f + 1 - 1 = f
      BY <2>3
    <3>2. Len(t) # 0
      BY <2>3, <2>4
    <3> QED
      BY <2>4, <3>1, <3>2
  <2>7. PICK z \in Nat : z = f - 1
    BY <2>3
  <2>8. Len(s) = z + Len(t) /\ \A k \in 1..Len(t) : t[k] = s[z + k]
    BY <1>1, <2>3, <2>4, <2>7
  <2>9. \A k \in 1..z : s[k] = 0
    <3> TAKE k \in 1..z
    <3>1. k \in DOMAIN s /\ ~ (f <= k)
      BY <1>1, <2>3, <2>7
    <3> QED
      BY <2>1, <3>1
  <2>10. NumberOf(base, s) = NumberOf(base, t)
    BY <1>2, <2>5, <2>8, <2>9, LeadingZeros
  <2> QED
    BY <2>2, <2>3, <2>4, <2>6, <2>10
<1> QED
  BY <1>3, <1>4

\* A part of a sequence is known by its elements.
LEMMA PartIs ==
    ASSUME NEW S, NEW x \in Seq(S), NEW m \in Int, NEW n \in Int, NEW t \in Seq(S),
           1 <= m, n <= Len(x), Len(t) = n - m + 1, \A i \in 1..Len(t) : t[i] = x[m + i - 1]
    PROVE  SubSeq(x, m, n) = t
<1>1. \A i \in m..n : x[i] \in S
  OBVIOUS
<1>2. /\ SubSeq(x, m, n) \in Seq(S) /\ Len(SubSeq(x, m, n)) = IF m <= n THEN n - m + 1 ELSE 0
      /\ \A i \in 1..n - m + 1 : SubSeq(x, m, n)[i] = x[m + i - 1]
  BY <1>1, SubSeqProperties
<1>3. Len(SubSeq(x, m, n)) = Len(t) /\ \A i \in 1..Len(t) : SubSeq(x, m, n)[i] = t[i]
  BY <1>2
<1> QED
  BY <1>2, <1>3, SeqEqual

\* Concatenated sequences are found again.
LEMMA ConcatParts ==
    ASSUME NEW S, NEW r \in Seq(S), NEW s \in Seq(S)
    PROVE  /\ r \o s \in Seq(S) /\ Len(r \o s) = Len(r) + Len(s)
           /\ SubSeq(r \o s, 1, Len(r)) = r
           /\ SubSeq(r \o s, Len(r) + 1, Len(r) + Len(s)) = s
<1>0. PICK k, l : k = Len(r) /\ l = Len(s) /\ k \in Nat /\ l \in Nat
  OBVIOUS
<1> DEFINE x == r \o s
<1>1. /\ x \in Seq(S) /\ Len(x) = k + l
      /\ \A i \in 1..k : x[i] = r[i]
      /\ \A i \in 1..l : x[k + i] = s[i]
  <2>1. x \in Seq(S) /\ Len(x) = k + l
    BY <1>0, ConcatProperties
  <2>2. \A i \in 1..k : x[i] = r[i]
    BY <1>0
  <2>3. \A i \in 1..l : x[k + i] = s[i]
    BY <1>0
  <2> QED
    BY <2>1, <2>2, <2>3
<1> HIDE DEF x
<1>2. SubSeq(x, 1, k) = r
  <2>1. k = k - 1 + 1 /\ k <= Len(x) /\ \A i \in 1..k : 1 + i - 1 = i
    BY <1>0, <1>1
  <2> QED
    BY <1>0, <1>1, <2>1, PartIs
<1>3. SubSeq(x, k + 1, k + l) = s
  <2>1. PICK m, n : m = k + 1 /\ n = k + l /\ m \in Int /\ n \in Int
    BY <1>0, <1>1
  <2>2. 1 <= m /\ n <= Len(x) /\ Len(s) = n - m + 1 /\ \A i \in 1..Len(s) : m + i - 1 = k + i
    BY <1>0, <1>1, <2>1
  <2>3. \A i \in 1..Len(s) : s[i] = x[m + i - 1]
    BY <1>0, <1>1, <2>2
  <2>4. SubSeq(x, m, n) = s
    BY <1>1, <2>1, <2>2, <2>3, PartIs
  <2> QED
    BY <2>1, <2>4
<1> QED
  BY <1>0, <1>1, <1>2, <1>3 DEF x

\* x consists of the k elements of r and of those of the l of s after the first i.
IsRest(r, s, k, i, l, x) ==
    /\ r \in Seq(Nat) /\ s \in Seq(Nat) /\ k \in Nat /\ i \in Nat /\ l \in Nat
    /\ k = Len(r) /\ l = Len(s) /\ i < l /\ x = r \o SubSeq(s, i + 1, l)

Splits(r, s, k, i, l, x) ==
    /\ Len(x) = k + (l - i)
    /\ SubSeq(x, 1, k + 1) = Append(r, s[i + 1])
    /\ SubSeq(x, k + 2, Len(x)) = SubSeq(s, i + 2, l)

\* Where r ends and the rest of s starts.
LEMMA SplitAt ==
    ASSUME NEW r, NEW s, NEW k, NEW i, NEW l, NEW x, IsRest(r, s, k, i, l, x)
    PROVE  Splits(r, s, k, i, l, x)
<1> USE DEF IsRest, Splits
<1>1. PICK u \in Seq(Nat) : u = SubSeq(s, i + 1, l) /\ Len(u) = l - i /\ \A j \in 1..l - i : u[j] = s[i + j]
  <2>1. SubSeq(s, i + 1, l) \in Seq(Nat) /\ Len(SubSeq(s, i + 1, l)) = l - i
    OBVIOUS
  <2>2. \A j \in 1..l - i : SubSeq(s, i + 1, l)[j] = s[i + j]
    OBVIOUS
  <2> QED
    BY <2>1, <2>2
<1>2. PICK w \in Seq(Nat) : w = SubSeq(s, i + 2, l) /\ Len(w) = l - i - 1
                            /\ \A j \in 1..l - i - 1 : w[j] = s[i + 1 + j]
  <2>1. SubSeq(s, i + 2, l) \in Seq(Nat) /\ Len(SubSeq(s, i + 2, l)) = l - i - 1
    <3>0. i + 2 \in Int /\ l \in Int /\ \A j \in i + 2..l : s[j] \in Nat
      OBVIOUS
    <3>1. PICK m : m = i + 2 /\ m \in Int /\ l \in Int /\ \A j \in m..l : s[j] \in Nat
      BY <3>0
    <3>2. (IF m <= l THEN l - m + 1 ELSE 0) = l - i - 1
      BY <3>1
    <3>3. SubSeq(s, m, l) \in Seq(Nat) /\ Len(SubSeq(s, m, l)) = IF m <= l THEN l - m + 1 ELSE 0
      BY <3>1, SubSeqProperties
    <3> QED
      BY <3>1, <3>2, <3>3
  <2>2. \A j \in 1..l - i - 1 : SubSeq(s, i + 2, l)[j] = s[i + 1 + j]
    <3> TAKE j \in 1..l - i - 1
    <3>1. SubSeq(s, i + 2, l)[j] = s[(i + 2) + j - 1] /\ (i + 2) + j - 1 = i + 1 + j
      OBVIOUS
    <3> QED
      BY <3>1
  <2> QED
    BY <2>1, <2>2
<1>3. PICK a \in Seq(Nat) : a = Append(r, s[i + 1]) /\ Len(a) = k + 1 /\ a[k + 1] = s[i + 1]
                            /\ \A j \in 1..k : a[j] = r[j]
  <2>1. s[i + 1] \in Nat
    OBVIOUS
  <2>2. /\ Append(r, s[i + 1]) \in Seq(Nat) /\ Len(Append(r, s[i + 1])) = k + 1
        /\ Append(r, s[i + 1])[k + 1] = s[i + 1] /\ \A j \in 1..k : Append(r, s[i + 1])[j] = r[j]
    BY <2>1
  <2> QED
    BY <2>2
<1>4. x \in Seq(Nat) /\ Len(x) = k + (l - i)
  BY <1>1
<1>5. \A j \in 1..k : x[j] = r[j]
  BY <1>1
<1>6. \A j \in 1..l - i : x[k + j] = s[i + j]
  <2> TAKE j \in 1..l - i
  <2>0. k + j \in 1..k + (l - i) /\ ~ (k + j <= k) /\ (k + j) - k = j
    OBVIOUS
  <2>1. PICK t : t = k + j /\ t \in 1..k + (l - i) /\ ~ (t <= k) /\ t - k = j
    BY <2>0
  <2>2. x[t] = IF t <= Len(r) THEN r[t] ELSE u[t - Len(r)]
    BY <1>1, <2>1, ConcatProperties
  <2> QED
    BY <1>1, <2>1, <2>2
<1>7. SubSeq(x, 1, k + 1) = a
  <2>1. \A j \in 1..k + 1 : a[j] = x[j]
    <3> TAKE j \in 1..k + 1
    <3>1. CASE j = k + 1
      <4>1. 1 \in 1..l - i
        OBVIOUS
      <4> QED
        BY <1>3, <1>6, <3>1, <4>1
    <3>2. CASE j # k + 1
      BY <1>3, <1>5, <3>2
    <3> QED
      BY <3>1, <3>2
  <2>2. PICK n : n = k + 1 /\ n \in Int
    OBVIOUS
  <2>3. n <= Len(x) /\ Len(a) = n - 1 + 1
    BY <1>3, <1>4, <2>2
  <2>4. \A j \in 1..Len(a) : a[j] = x[1 + j - 1]
    BY <1>3, <2>1
  <2>5. PICK m : m = 1 /\ m \in Int /\ 1 <= m
    OBVIOUS
  <2>6. SubSeq(x, m, n) = a
    <3> HIDE DEF IsRest, Splits
    <3> QED
      BY <1>4, <2>2, <2>3, <2>4, <2>5, PartIs
  <2> QED
    BY <2>2, <2>5, <2>6
<1>8. SubSeq(x, k + 2, Len(x)) = w
  <2>1. PICK m, n : m = k + 2 /\ n = k + (l - i) /\ n = Len(x) /\ m \in Int /\ n \in Int
    BY <1>4
  <2>2. 1 <= m /\ n <= Len(x) /\ Len(w) = n - m + 1
    <3>1. 1 <= m /\ l - i - 1 = n - m + 1 /\ n <= n
      BY <2>1
    <3> QED
      BY <1>2, <2>1, <3>1
  <2>3. \A j \in 1..Len(w) : w[j] = x[m + j - 1]
    <3> TAKE j \in 1..Len(w)
    <3>1. j + 1 \in 1..l - i /\ j \in 1..l - i - 1 /\ m + j - 1 = k + (j + 1) /\ i + (j + 1) = i + 1 + j
      BY <1>2, <2>1
    <3> QED
      BY <1>2, <1>6, <3>1
  <2>4. SubSeq(x, m, n) = w
    BY <1>4, <2>1, <2>2, <2>3, PartIs
  <2> QED
    BY <2>1, <2>4
<1> QED
  BY <1>2, <1>3, <1>4, <1>7, <1>8

\* A digit c more after the remainder a of a division by y, whose quotient is b.
IsStep(base, y, a, b, c, o) ==
    /\ base \in Nat \ {0, 1} /\ y \in Nat \ {0} /\ a \in 0..y - 1 /\ b \in Nat /\ c \in 0..base - 1
    /\ o = a * base + c

\* Division of a digit more: the new digit of the quotient and the remainder.
LEMMA TurnNumbers ==
    ASSUME NEW base, NEW y, NEW a, NEW b, NEW c, NEW o, IsStep(base, y, a, b, c, o)
    PROVE  /\ o \in Nat /\ o \div y \in 0..base - 1 /\ o % y \in 0..y - 1
           /\ (b * base + (o \div y)) * y + (o % y) = (b * y + a) * base + c
<1> USE DEF IsStep
<1>1. a * base \in Nat /\ o \in Nat /\ base \in Nat /\ y \in Nat /\ y > 0
  OBVIOUS
<1>2. PICK d \in Nat, e \in 0..y - 1 : d = o \div y /\ e = o % y /\ o = y * d + e
  BY <1>1
<1>3. (a + 1) * base <= y * base
  <2>1. \A p, q, z \in Nat : p <= q => p * z <= q * z
    OBVIOUS
  <2> QED
    BY <1>1, <2>1
<1>4. o < y * base
  <2>1. (a + 1) * base = a * base + base /\ c < base
    BY <1>1
  <2> QED
    BY <1>1, <1>3, <2>1
<1>5. d < base
  <2>1. \A p, q, z \in Nat : p >= q => z * p >= z * q
    OBVIOUS
  <2>2. d >= base => y * d >= y * base
    BY <1>1, <2>1
  <2>3. y * d <= o /\ y * d \in Nat /\ y * base \in Nat
    BY <1>1, <1>2
  <2> QED
    BY <1>1, <1>4, <2>2, <2>3
<1>6. (b * base + d) * y + e = (b * y + a) * base + c
  <2>1. (b * base + d) * y = b * base * y + y * d /\ (b * y + a) * base = b * base * y + a * base
    BY <1>1
  <2> QED
    BY <1>1, <1>2, <2>1
<1> QED
  BY <1>1, <1>2, <1>5, <1>6

\* What i turns leave: the digits of a remainder, of which r are those that
\* count, in front of the digits not yet divided.
Lefts == [x : Seq(Nat), quotient : Seq(Nat)]

IsDivided(base, s, y, i, left, r) ==
    /\ left \in Lefts
    /\ r \in Seq(Nat) /\ NumberOf(base, r) < y
    /\ left.x = r \o SubSeq(s, i + 1, Len(s))
    /\ left.quotient \in Seq(0..base - 1)
    /\ NumberOf(base, left.quotient) * y + NumberOf(base, r) = NumberOf(base, SubSeq(s, 1, i))

Divided(base, s, y, i, left) == \E r : IsDivided(base, s, y, i, left, r)

\* A turn of the loop of divide divides one digit more.
LEMMA TurnDivides ==
    ASSUME NEW base \in Nat \ {0, 1}, NEW y \in Nat \ {0}, NEW s \in Seq(Nat), s \in Seq(0..base - 1),
           NEW i \in Nat, i < Len(s), NEW left, Divided(base, s, y, i, left)
    PROVE  Divided(base, s, y, i + 1, Turn(i, left, Len(s), base, y))
<1>1. PICK r : IsDivided(base, s, y, i, left, r)
  BY DEF Divided
<1>2. PICK l, k, c : l = Len(s) /\ k = Len(r) /\ c = s[i + 1] /\ l \in Nat /\ k \in Nat /\ c \in 0..base - 1
                     /\ c \in Nat
  <2>0. r \in Seq(Nat)
    BY <1>1 DEF IsDivided
  <2>1. Len(s) \in Nat /\ Len(r) \in Nat /\ s[i + 1] \in 0..base - 1 /\ s[i + 1] \in Nat
    <3>1. i + 1 \in 1..Len(s)
      OBVIOUS
    <3>2. s[i + 1] \in 0..base - 1 /\ s[i + 1] \in Nat
      BY <3>1
    <3> QED
      BY <2>0, <3>2, LenProperties
  <2> QED
    BY <2>1
<1>3. PICK q \in Seq(Nat) : q = left.quotient /\ q \in Seq(0..base - 1)
  BY <1>1, DigitsAreNaturals DEF IsDivided
<1>4. r \in Seq(Nat) /\ base \in Nat
  BY <1>1 DEF IsDivided
<1> DEFINE x == left.x
           j == Taken(i, x, l)
           w == SubSeq(s, i + 2, l)
<1>5. Len(x) = k + (l - i) /\ SubSeq(x, 1, k + 1) = Append(r, c) /\ SubSeq(x, k + 2, Len(x)) = w
  <2>1. x = r \o SubSeq(s, i + 1, l) /\ i < l
    BY <1>1, <1>2 DEF IsDivided
  <2> HIDE DEF x
  <2>2. IsRest(r, s, k, i, l, x)
    BY <1>2, <1>4, <2>1 DEF IsRest
  <2>3. Splits(r, s, k, i, l, x)
    BY <2>2, SplitAt
  <2> QED
    BY <1>2, <2>3 DEF Splits
<1>6. j = k + 1 /\ ~ (Len(x) < j) /\ j + 1 = k + 2
  <2> HIDE DEF x, w
  <2> QED
    BY <1>2, <1>5 DEF Taken
<1>7. PICK a, b, m, o :
        /\ a = NumberOf(base, r) /\ b = NumberOf(base, q) /\ m = NumberOf(base, SubSeq(s, 1, i))
        /\ o = NumberOf(base, Append(r, c)) /\ o = a * base + c /\ b * y + a = m
        /\ a \in 0..y - 1 /\ b \in Nat /\ m \in Nat
  <2>1. NumberOf(base, r) \in Nat /\ NumberOf(base, q) \in Nat
    BY <1>3, <1>4, NumberIsNatural
  <2>2. NumberOf(base, Append(r, c)) = NumberOf(base, r) * base + c
    BY <1>2, <1>4, NumberOfAppend
  <2>3. NumberOf(base, r) < y /\ NumberOf(base, q) * y + NumberOf(base, r) = NumberOf(base, SubSeq(s, 1, i))
    BY <1>1, <1>3 DEF IsDivided
  <2>4. PICK a, b : a = NumberOf(base, r) /\ b = NumberOf(base, q) /\ a \in 0..y - 1 /\ b \in Nat
    BY <2>1, <2>3
  <2>5. b * y + a \in Nat
    <3>1. \A p, z \in Nat : p * z \in Nat
      OBVIOUS
    <3>2. b * y \in Nat /\ a \in Nat
      BY <2>1, <2>4, <3>1
    <3> QED
      BY <3>2
  <2> QED
    BY <2>2, <2>3, <2>4, <2>5
<1>8. NumberOf(base, SubSeq(s, 1, i + 1)) = m * base + c
  <2>1. SubSeq(s, 1, i + 1) = Append(SubSeq(s, 1, i), c) /\ SubSeq(s, 1, i) \in Seq(Nat)
    BY <1>2
  <2>2. PICK t : t = SubSeq(s, 1, i) /\ t \in Seq(Nat)
    BY <2>1
  <2>3. NumberOf(base, Append(t, c)) = NumberOf(base, t) * base + c
    BY <1>2, <1>4, <2>2, NumberOfAppend
  <2> QED
    BY <1>7, <2>1, <2>2, <2>3
<1>9. PICK d, e : /\ d = o \div y /\ e = o % y /\ (b * base + d) * y + e = m * base + c
                  /\ d \in 0..base - 1 /\ d \in Nat /\ e \in 0..y - 1 /\ e \in Nat
  <2>1. o \div y \in 0..base - 1 /\ o % y \in 0..y - 1
        /\ (b * base + (o \div y)) * y + (o % y) = (b * y + a) * base + c
    <3>1. IsStep(base, y, a, b, c, o)
      BY <1>2, <1>7 DEF IsStep
    <3> QED
      BY <3>1, TurnNumbers
  <2>2. \A z \in Nat \ {0} : \A g \in 0..z - 1 : g \in Nat
    OBVIOUS
  <2>3. o \div y \in Nat /\ o % y \in Nat
    BY <2>1, <2>2
  <2> QED
    BY <1>7, <2>1, <2>3
<1> DEFINE r2 == dec2base(base, e)
           q2 == Append(q, d)
<1>10. IsShortest(base, r2, e)
  BY <1>9, Dec2base
<1>11. Turn(i, left, Len(s), base, y) = [x |-> r2 \o w, quotient |-> q2]
  <2>1. SubSeq(x, 1, j) = Append(r, c) /\ SubSeq(x, j + 1, Len(x)) = w
    BY <1>5, <1>6
  <2>2. /\ base2dec(base, SubSeq(x, 1, Taken(i, x, Len(s)))) = o
        /\ ~ (Len(x) < Taken(i, x, Len(s))) /\ SubSeq(x, Taken(i, x, Len(s)) + 1, Len(x)) = w
    BY <1>2, <1>6, <1>7, <2>1 DEF base2dec
  <2> HIDE DEF w
  <2> QED
    BY <1>3, <1>9, <2>2 DEF Turn
<1>12. NumberOf(base, q2) * y + e = m * base + c
  <2>1. NumberOf(base, q2) = b * base + d
    BY <1>3, <1>4, <1>7, <1>9, NumberOfAppend
  <2> QED
    BY <1>9, <2>1
<1>13. q2 \in Seq(0..base - 1)
  BY <1>3, <1>9
<1>14. r2 \in Seq(Nat) /\ NumberOf(base, r2) = e /\ e < y
  BY <1>4, <1>9, <1>10, DigitsAreNaturals DEF IsShortest
<1>15. w = SubSeq(s, (i + 1) + 1, Len(s))
  <2>1. (i + 1) + 1 = i + 2
    OBVIOUS
  <2> QED
    BY <1>2, <2>1
<1>16. w \in Seq(Nat) /\ q2 \in Seq(Nat)
  <2>1. w \in Seq(Nat)
    <3>1. i + 2 \in Int /\ l \in Int
      BY <1>2
    <3>2. \A t \in i + 2..l : s[t] \in Nat
      <4> TAKE t \in i + 2..l
      <4>1. t \in 1..Len(s)
        BY <1>2
      <4> QED
        BY <4>1
    <3> QED
      BY <3>1, <3>2, SubSeqProperties
  <2>2. q2 \in Seq(Nat)
    BY <1>3, <1>9, AppendProperties
  <2> QED
    BY <2>1, <2>2
<1> HIDE DEF r2, q2, w
<1>17. r2 \o w \in Seq(Nat)
  BY <1>14, <1>16
<1>18. IsDivided(base, s, y, i + 1, [x |-> r2 \o w, quotient |-> q2], r2)
  BY <1>8, <1>12, <1>13, <1>14, <1>15, <1>16, <1>17 DEF IsDivided, Lefts
<1> QED
  BY <1>11, <1>18 DEF Divided

\* All turns divide all digits.
LEMMA TurnsDivide ==
    ASSUME NEW base \in Nat \ {0, 1}, NEW y \in Nat \ {0}, NEW s \in Seq(0..base - 1)
    PROVE  Divided(base, s, y, Len(s), Turns(base, s, y)[Len(s)])
<1>1. PICK l : l = Len(s) /\ l \in Nat /\ s \in Seq(Nat) /\ base \in Nat
  BY DigitsAreNaturals
<1> DEFINE start == [x |-> s, quotient |-> <<>>]
           Fine(i, left) == Divided(base, s, y, i, left)
           Next1(i, left) == Turn(i, left, l, base, y)
           turns[i \in 0..l] == IF i = 0 THEN start ELSE Next1(i - 1, turns[i - 1])
           F == [k \in 1..l |-> [left \in Lefts |-> IF Fine(k - 1, left) THEN Next1(k - 1, left) ELSE left]]
<1>2. Turns(base, s, y) = turns
  BY <1>1 DEF Turns
<1>3. start \in Lefts /\ Fine(0, start)
  <2>1. <<>> \in Seq(Nat) /\ <<>> \in Seq(0..base - 1) /\ NumberOf(base, <<>>) = 0
    BY <1>1, NumberOfEmpty
  <2>2. start \in Lefts
    BY <1>1, <2>1 DEF Lefts
  <2>3. SubSeq(s, 1, 0) = <<>> /\ SubSeq(s, 0 + 1, Len(s)) = s /\ <<>> \o s = s
    BY <1>1
  <2>4. NumberOf(base, start.quotient) * y + NumberOf(base, <<>>) = NumberOf(base, SubSeq(s, 1, 0)) /\ 0 < y
    <3>1. start.quotient = <<>> /\ 0 * y + 0 = 0 /\ 0 < y
      OBVIOUS
    <3> HIDE DEF start
    <3> QED
      BY <2>1, <2>3, <3>1
  <2>5. IsDivided(base, s, y, 0, start, <<>>)
    BY <2>1, <2>2, <2>3, <2>4 DEF IsDivided
  <2> QED
    BY <2>2, <2>5 DEF Divided
<1>4. ASSUME NEW k \in 1..l, NEW left, Fine(k - 1, left)
      PROVE  Fine(k, Next1(k - 1, left)) /\ Next1(k - 1, left) \in Lefts
  <2>1. PICK i : i = k - 1 /\ i \in Nat /\ i < Len(s) /\ i + 1 = k
    BY <1>1
  <2>2. Divided(base, s, y, i + 1, Turn(i, left, Len(s), base, y))
    BY <1>1, <1>4, <2>1, TurnDivides
  <2>3. Fine(k, Next1(k - 1, left))
    BY <1>1, <2>1, <2>2
  <2> QED
    BY <2>3 DEF Divided, IsDivided
<1> HIDE DEF start, Fine, Next1
<1>5. F \in [1..l -> [Lefts -> Lefts]]
  BY <1>4
<1>6. PICK f \in [0..l -> Lefts] : f[0] = start /\ \A k \in 1..l : f[k] = F[k][f[k - 1]]
  <2> HIDE DEF F
  <2>1. IsLoop(l, Lefts, start, F)
    BY <1>1, <1>3, <1>5 DEF IsLoop
  <2>2. Runs(l, Lefts, start, F)
    BY <2>1, Loop
  <2> QED
    BY <2>2 DEF Runs
<1>7. \A k \in 1..l : k - 1 \in 0..l
      /\ f[k] = IF Fine(k - 1, f[k - 1]) THEN Next1(k - 1, f[k - 1]) ELSE f[k - 1]
  <2> TAKE k \in 1..l
  <2>1. k - 1 \in 0..l
    BY <1>1
  <2> QED
    BY <1>6, <2>1
<1> DEFINE P == {k \in Nat : k <= l => Fine(k, f[k])}
<1>8. \A k \in 0..l : Fine(k, f[k])
  <2>1. 0 \in P
    BY <1>3, <1>6
  <2>2. ASSUME NEW k \in Nat, k \in P PROVE k + 1 \in P
    <3>1. CASE k + 1 <= l
      <4>1. PICK j : j = k + 1 /\ j \in 1..l /\ j - 1 = k /\ k <= l
        BY <1>1, <3>1
      <4>2. f[j] = Next1(j - 1, f[j - 1]) /\ Fine(j - 1, f[j - 1])
        BY <1>7, <2>2, <4>1
      <4>3. Fine(j, f[j])
        BY <1>4, <4>1, <4>2
      <4> QED
        BY <4>1, <4>3
    <3> QED
      BY <3>1
  <2> HIDE DEF P
  <2>3. Nat \subseteq P
    BY <2>1, <2>2, Induction
  <2> QED
    BY <1>1, <2>3 DEF P
<1>9. f = [k \in 0..l |-> IF k = 0 THEN start ELSE Next1(k - 1, f[k - 1])]
  <2>1. \A k \in 0..l : f[k] = IF k = 0 THEN start ELSE Next1(k - 1, f[k - 1])
    <3> TAKE k \in 0..l
    <3>1. CASE k # 0
      <4>1. k \in 1..l
        BY <1>1, <3>1
      <4> QED
        BY <1>7, <1>8, <3>1, <4>1
    <3> QED
      BY <1>6, <3>1
  <2> QED
    BY <1>6, <2>1
<1>10. turns = [k \in 0..l |-> IF k = 0 THEN start ELSE Next1(k - 1, turns[k - 1])]
  BY <1>9
<1> HIDE DEF turns
<1>11. \A k \in 0..l : Fine(k, turns[k])
  <2> DEFINE Q == {k \in Nat : k <= l => Fine(k, turns[k])}
  <2>1. 0 \in Q
    BY <1>1, <1>3, <1>10
  <2>2. ASSUME NEW k \in Nat, k \in Q PROVE k + 1 \in Q
    <3>1. CASE k + 1 <= l
      <4>1. PICK j : j = k + 1 /\ j \in 1..l /\ j \in 0..l /\ j # 0 /\ j - 1 = k /\ k <= l
        BY <1>1, <3>1
      <4>2. turns[j] = Next1(j - 1, turns[j - 1]) /\ Fine(j - 1, turns[j - 1])
        BY <1>10, <2>2, <4>1
      <4>3. Fine(j, turns[j])
        BY <1>4, <4>1, <4>2
      <4> QED
        BY <4>1, <4>3
    <3> QED
      BY <3>1
  <2> HIDE DEF Q
  <2>3. Nat \subseteq Q
    BY <2>1, <2>2, Induction
  <2> QED
    BY <1>1, <2>3 DEF Q
<1>12. Fine(l, turns[l])
  BY <1>1, <1>11
<1> QED
  BY <1>1, <1>2, <1>12 DEF Fine

\* The quotient has the digits that it needs and no more; it is smaller than
\* the number, unless that is zero and there is none.
LEMMA Divides ==
    ASSUME NEW base \in Nat \ {0, 1}, NEW y \in Nat \ {0}, NEW s \in Seq(0..base - 1)
    PROVE  LET d == divide(base, s, y)
           IN  /\ d.x \in Seq(0..base - 1) /\ (d.x # <<>> => d.x[1] # 0)
               /\ d.remainder \in 0..y - 1
               /\ NumberOf(base, d.x) * y + d.remainder = NumberOf(base, s)
<1> DEFINE l == Len(s)
           left == Turns(base, s, y)[l]
<1>1. PICK r : IsDivided(base, s, y, l, left, r)
  BY TurnsDivide DEF Divided
<1> HIDE DEF left
<1>2. s \in Seq(Nat) /\ base \in Nat /\ SubSeq(s, 1, l) = s
  BY DigitsAreNaturals
<1>3. left.x = r
  <2>1. SubSeq(s, l + 1, l) = <<>> /\ r \o <<>> = r
    BY <1>1, <1>2 DEF IsDivided
  <2> QED
    BY <1>1, <2>1 DEF IsDivided
<1>4. divide(base, s, y) = [x |-> StripZeros(left.quotient), remainder |-> NumberOf(base, r)]
  BY <1>3 DEF divide, base2dec, left
<1>5. PICK q : q = left.quotient /\ q \in Seq(0..base - 1)
  BY <1>1 DEF IsDivided
<1>6. /\ StripZeros(q) \in Seq(0..base - 1)
      /\ NumberOf(base, StripZeros(q)) = NumberOf(base, q)
      /\ StripZeros(q) # <<>> => StripZeros(q)[1] # 0
  BY <1>5, Stripped
<1>7. NumberOf(base, r) \in 0..y - 1 /\ NumberOf(base, q) * y + NumberOf(base, r) = NumberOf(base, s)
  <2>1. r \in Seq(Nat) /\ NumberOf(base, r) < y
    BY <1>1 DEF IsDivided
  <2>2. NumberOf(base, r) \in Nat
    BY <1>2, <2>1, NumberIsNatural
  <2>3. NumberOf(base, r) \in 0..y - 1
    BY <2>1, <2>2
  <2>4. NumberOf(base, left.quotient) * y + NumberOf(base, r) = NumberOf(base, SubSeq(s, 1, l))
    BY <1>1 DEF IsDivided
  <2> QED
    BY <1>2, <1>5, <2>3, <2>4
<1> QED
  BY <1>4, <1>5, <1>6, <1>7

Hexadecimal == Seq(0..SourceBase - 1)
Halved(v) == divide(SourceBase, v, TargetBase).x
Last0(v) == divide(SourceBase, v, TargetBase).remainder
Value(v) == NumberOf(SourceBase, v)

\* A division by the target base: the last digit, and a smaller number.
LEMMA ConvertStep ==
    ASSUME NEW v \in Hexadecimal
    PROVE  /\ Value(v) \in Nat /\ Last0(v) \in 0..TargetBase - 1
           /\ Halved(v) \in {<<>>, <<0>>} => Value(v) = Last0(v)
           /\ Halved(v) \notin {<<>>, <<0>>} =>
                /\ Halved(v) \in Hexadecimal /\ Value(Halved(v)) \in Nat /\ Value(Halved(v)) >= 1
                /\ Value(Halved(v)) < Value(v) /\ Value(v) = Value(Halved(v)) * TargetBase + Last0(v)
<1> DEFINE base == SourceBase
           y == TargetBase
           h == Halved(v)
<1>1. base \in Nat \ {0, 1} /\ y \in Nat \ {0, 1} /\ base \in Nat /\ base \in Nat \ {0}
  BY BaseAssumption
<1>2. /\ h \in Seq(0..base - 1) /\ (h # <<>> => h[1] # 0)
      /\ Last0(v) \in 0..y - 1 /\ NumberOf(base, h) * y + Last0(v) = NumberOf(base, v)
  <2>1. v \in Seq(0..base - 1) /\ y \in Nat \ {0}
    BY <1>1 DEF Hexadecimal
  <2> HIDE DEF base, y
  <2> QED
    BY <1>1, <2>1, Divides DEF Halved, Last0, base, y
<1> HIDE DEF h
<1>3. h \in Seq(Nat) /\ v \in Seq(Nat)
  BY <1>1, <1>2, DigitsAreNaturals DEF Hexadecimal
<1>4. NumberOf(base, h) \in Nat /\ NumberOf(base, v) \in Nat
  BY <1>1, <1>3, NumberIsNatural
<1>5. CASE h \in {<<>>, <<0>>}
  <2>1. h = <<>>
    BY <1>2, <1>5
  <2>2. NumberOf(base, h) = 0
    BY <1>1, <2>1, NumberOfEmpty
  <2> QED
    BY <1>1, <1>2, <1>4, <1>5, <2>2 DEF Value, h
<1>6. CASE h \notin {<<>>, <<0>>}
  <2>1. h # <<>> /\ h[1] # 0
    BY <1>2, <1>6
  <2>2. NumberOf(base, h) >= 1
    BY <1>1, <1>3, <2>1, NumberIsPositive
  <2>3. NumberOf(base, h) < NumberOf(base, v)
    <3>1. PICK a, b, c, z : a = NumberOf(base, h) /\ b = NumberOf(base, v) /\ c = Last0(v) /\ z = y
      OBVIOUS
    <3>2. a \in Nat /\ b \in Nat /\ c \in Nat /\ z \in Nat /\ z >= 2 /\ a >= 1 /\ a * z + c = b
      BY <1>1, <1>2, <1>4, <2>2, <3>1
    <3>3. a * z >= a * 2
      BY <3>2
    <3> QED
      BY <3>1, <3>2, <3>3
  <2> QED
    BY <1>2, <1>4, <1>6, <2>2, <2>3 DEF Value, Hexadecimal, h
<1> QED
  BY <1>5, <1>6 DEF h

\* Convert is what its loop computes: the last digit behind the others.
LEMMA ConvertDef ==
    ASSUME NEW v \in Hexadecimal
    PROVE  Convert(v) = (IF Halved(v) \in {<<>>, <<0>>} THEN <<>> ELSE Convert(Halved(v))) \o <<Last0(v)>>
<1> DEFINE D == Hexadecimal
           T == Seq(Nat)
           Small(u) == Halved(u) \in {<<>>, <<0>>}
           m == [u \in D |-> Value(u)]
           E(u, g) == (IF Small(u) THEN <<>> ELSE g[Halved(u)]) \o <<Last0(u)>>
           F == [u \in D |-> [g \in [D -> T] |-> E(u, g)]]
           remainders[u \in D] == E(u, remainders)
<1>1. \A u \in D : Value(u) \in Nat /\ Last0(u) \in Nat /\ (~ Small(u) => Halved(u) \in D
      /\ Value(Halved(u)) < Value(u))
  <2>1. \A a \in 0..TargetBase - 1 : a \in Nat
    BY BaseAssumption
  <2> QED
    BY <2>1, ConvertStep
<1>2. m \in [D -> Nat] /\ T # {}
  <2>1. <<>> \in T
    OBVIOUS
  <2> QED
    BY <1>1, <2>1
<1>3. ASSUME NEW u \in D, NEW g \in [D -> T] PROVE E(u, g) \in T
  <2>1. PICK s \in Seq(Nat) : s = IF Small(u) THEN <<>> ELSE g[Halved(u)]
    <3>1. (IF Small(u) THEN <<>> ELSE g[Halved(u)]) \in T
      <4>1. <<>> \in T /\ (~ Small(u) => g[Halved(u)] \in T)
        BY <1>1
      <4> HIDE DEF T, Small
      <4> QED
        BY <4>1
    <3> QED
      BY <3>1
  <2>2. <<Last0(u)>> \in Seq(Nat)
    BY <1>1
  <2> QED
    BY <2>1, <2>2
<1>4. F \in [D -> [[D -> T] -> T]]
  <2> HIDE DEF E, T, D
  <2> QED
    BY <1>3
<1>5. ASSUME NEW u \in D, NEW g \in [D -> T], NEW h \in [D -> T], \A z \in D : m[z] < m[u] => g[z] = h[z]
      PROVE  F[u][g] = F[u][h]
  <2> HIDE DEF Small, D, T
  <2> QED
    BY <1>1, <1>5
<1>6. PICK f \in [D -> T] : \A u \in D : f[u] = F[u][f]
  <2> HIDE DEF F, m, D, T
  <2>1. WellFounded(D, T, m, F)
    BY <1>2, <1>4, <1>5 DEF WellFounded
  <2>2. Solvable(D, T, F)
    BY <2>1, Recursion
  <2> QED
    BY <2>2 DEF Solvable
<1> HIDE DEF D, T
<1>7. \A u \in D : f[u] = E(u, f)
  <2> HIDE DEF E
  <2> QED
    BY <1>6
<1>8. f = [u \in D |-> E(u, f)]
  <2> HIDE DEF E
  <2> QED
    BY <1>6, <1>7
<1>9. remainders = [u \in D |-> E(u, remainders)]
  BY <1>8
<1>10. \A u \in D : Convert(u) = remainders[u]
  BY DEF Convert, D, Hexadecimal, Halved, Last0
<1> HIDE DEF remainders
<1>11. remainders[v] = (IF Small(v) THEN <<>> ELSE remainders[Halved(v)]) \o <<Last0(v)>>
  BY <1>9 DEF D
<1>12. ~ Small(v) => Convert(Halved(v)) = remainders[Halved(v)]
  <2> HIDE DEF Small
  <2> QED
    BY <1>1, <1>10 DEF D
<1> QED
  BY <1>10, <1>11, <1>12 DEF D

\* Convert writes the number in its shortest form.
LEMMA Converts ==
    ASSUME NEW v \in Hexadecimal
    PROVE  IsShortest(TargetBase, Convert(v), Value(v))
<1> DEFINE Bad(u) == ~ IsShortest(TargetBase, Convert(u), Value(u))
           B == {Value(u) : u \in {w \in Hexadecimal : Bad(w)}}
<1>1. ASSUME NEW u \in Hexadecimal, Bad(u) PROVE FALSE
  <2>1. PICK n \in B : \A k \in B : n <= k
    <3>1. Value(u) \in B
      BY <1>1
    <3>2. B \in SUBSET Nat
      BY ConvertStep
    <3> HIDE DEF B
    <3> QED
      BY <3>1, <3>2, Least
  <2>2. PICK w \in Hexadecimal : Bad(w) /\ n = Value(w)
    BY <2>1
  <2>3. TargetBase \in Nat \ {0, 1} /\ Last0(w) \in 0..TargetBase - 1 /\ Last0(w) \in Nat /\ Value(w) \in Nat
    <3>1. \A a \in 0..TargetBase - 1 : a \in Nat
      BY BaseAssumption
    <3> QED
      BY <3>1, BaseAssumption, ConvertStep
  <2>4. CASE Halved(w) \in {<<>>, <<0>>}
    <3>1. Convert(w) = <<>> \o <<Last0(w)>> /\ Value(w) = Last0(w)
      BY <2>4, ConvertDef, ConvertStep
    <3>2. /\ <<>> \in Seq(Nat) /\ Append(<<>>, Last0(w)) = <<>> \o <<Last0(w)>>
          /\ <<>> \o <<Last0(w)>> = <<Last0(w)>> /\ <<Last0(w)>> \in Seq(0..TargetBase - 1)
          /\ <<Last0(w)>> # <<>> /\ Len(<<Last0(w)>>) = 1
      BY <2>3
    <3>3. NumberOf(TargetBase, Append(<<>>, Last0(w))) = NumberOf(TargetBase, <<>>) * TargetBase + Last0(w)
      BY <2>3, <3>2, NumberOfAppend
    <3>4. NumberOf(TargetBase, <<>>) = 0
      BY <2>3, NumberOfEmpty
    <3>5. NumberOf(TargetBase, <<Last0(w)>>) = Last0(w)
      BY <2>3, <3>2, <3>3, <3>4
    <3>6. IsShortest(TargetBase, <<Last0(w)>>, Last0(w))
      BY <3>2, <3>5 DEF IsShortest
    <3>7. ~ Bad(w)
      BY <3>1, <3>2, <3>6
    <3> QED
      BY <2>2, <3>7
  <2>5. CASE Halved(w) \notin {<<>>, <<0>>}
    <3>1. /\ Halved(w) \in Hexadecimal /\ Value(Halved(w)) \in Nat /\ Value(Halved(w)) >= 1
          /\ Value(Halved(w)) < Value(w) /\ Value(w) = Value(Halved(w)) * TargetBase + Last0(w)
      BY <2>5, ConvertStep
    <3>2. ~ Bad(Halved(w))
      <4> SUFFICES ASSUME Bad(Halved(w)) PROVE FALSE
        OBVIOUS
      <4>1. Value(Halved(w)) \in B
        BY <3>1
      <4>2. n <= Value(Halved(w)) /\ n = Value(w)
        BY <2>1, <2>2, <4>1
      <4> HIDE DEF Bad, B
      <4> QED
        BY <2>3, <3>1, <4>2
    <3>3. PICK s, k, d : s = Convert(Halved(w)) /\ k = Value(Halved(w)) /\ d = Last0(w)
      OBVIOUS
    <3>4. IsShortest(TargetBase, s, k) /\ s \in Seq(Nat)
      BY <2>3, <3>2, <3>3, DigitsAreNaturals DEF IsShortest
    <3>5. Convert(w) = s \o <<d>>
      BY <2>5, <3>3, ConvertDef
    <3>6. s \o <<d>> = Append(s, d)
      BY <2>3, <3>3, <3>4, AppendIsConcat
    <3>7. IsShortest(TargetBase, Append(s, d), k * TargetBase + d)
      BY <2>3, <3>1, <3>3, <3>4, AppendShortest
    <3>8. ~ Bad(w)
      BY <3>1, <3>3, <3>5, <3>6, <3>7
    <3> QED
      BY <2>2, <3>8
  <2> QED
    BY <2>4, <2>5
<1> QED
  BY <1>1

FieldsTypeOK == fields \in Seq(Seq(0..15))

\* Fields are sequences of hexadecimal digits.
LEMMA FieldsTyped == Spec => []FieldsTypeOK
<1>1. Init => FieldsTypeOK
  BY DEF Init, HeaderInit, FieldsTypeOK
<1>2. FieldsTypeOK /\ [Next]_<<fields, valueVars, declared>> => FieldsTypeOK'
  <2> SUFFICES ASSUME FieldsTypeOK, [Next]_<<fields, valueVars, declared>> PROVE FieldsTypeOK'
    OBVIOUS
  <2>1. CASE AddField
    <3>1. PICK b \in FirstBytes, n \in Lengths : fields' = Append(fields, Field(b, n))
      BY <2>1 DEF AddField, Samples
    <3>2. n \in Nat /\ b[1] \in 0..15 /\ b[2] \in 0..15
      BY FieldsAssumption
    <3>3. \A i \in 1..n : (IF i <= 2 THEN b[i] ELSE 7) \in 0..15
      <4> TAKE i \in 1..n
      <4>1. i <= 2 => i = 1 \/ i = 2
        BY <3>2
      <4> QED
        BY <3>2, <4>1
    <3>4. Field(b, n) \in Seq(0..15)
      BY <3>2, <3>3 DEF Field
    <3> QED
      BY <3>1, <3>4 DEF FieldsTypeOK
  <2>2. CASE AddDigit
    <3>1. PICK d \in 0..15 : fields' = IF fields = <<>> THEN << <<d>> >> ELSE << Append(fields[1], d) >>
      <4>1. 0..SourceBase - 1 = 0..15
        BY FieldsAssumption
      <4> QED
        BY <2>2, <4>1 DEF AddDigit
    <3>2. CASE fields = <<>>
      <4>1. <<d>> \in Seq(0..15)
        OBVIOUS
      <4> QED
        BY <3>1, <3>2, <4>1 DEF FieldsTypeOK
    <3>3. CASE fields # <<>>
      <4>1. fields[1] \in Seq(0..15)
        BY <3>3 DEF FieldsTypeOK
      <4>2. Append(fields[1], d) \in Seq(0..15)
        BY <4>1
      <4> QED
        BY <3>1, <3>3, <4>2 DEF FieldsTypeOK
    <3> QED
      BY <3>2, <3>3
  <2>3. CASE UNCHANGED fields
    BY <2>3 DEF FieldsTypeOK
  <2> QED
    BY <2>1, <2>2, <2>3 DEF Next, HeaderNext
<1> QED
  BY <1>1, <1>2, PTL DEF Spec

\* The decimal digits of a field stand for the number its hexadecimal ones
\* stand for, whatever its length, and have no leading zero (BaseConverter,
\* Convert and divide).
THEOREM SameNumbers == Spec => []SameNumber
<1>1. FieldsTypeOK => SameNumber
  <2> SUFFICES ASSUME FieldsTypeOK, NEW i \in DOMAIN fields
               PROVE  LET decimal == Convert(fields[i])
                      IN  /\ NumberOf(TargetBase, decimal) = NumberOf(SourceBase, fields[i])
                          /\ Len(decimal) > 1 => decimal[1] # 0
    BY DEF SameNumber, Numbers
  <2>1. fields[i] \in Hexadecimal
    BY FieldsAssumption DEF FieldsTypeOK, Hexadecimal
  <2>2. IsShortest(TargetBase, Convert(fields[i]), Value(fields[i]))
    BY <2>1, Converts
  <2>3. PICK c : c = Convert(fields[i])
    OBVIOUS
  <2>4. c \in Seq(0..TargetBase - 1) /\ NumberOf(TargetBase, c) = NumberOf(SourceBase, fields[i])
        /\ (c[1] = 0 => Len(c) = 1)
    BY <2>2, <2>3 DEF IsShortest, Value
  <2>5. Len(c) > 1 => c[1] # 0
    <3>1. Len(c) = 1 => ~ (Len(c) > 1)
      OBVIOUS
    <3> QED
      BY <2>4, <3>1
  <2> QED
    BY <2>3, <2>4, <2>5
<1> QED
  BY <1>1, FieldsTyped, PTL

----------------------------------------------------------------------------
(* Rlp: the bytes of a header, and what the decoder finds in them.         *)

\* from_hex makes bytes.
LEMMA FromHexIsNaturals ==
    ASSUME NEW h \in Seq(0..15)
    PROVE  from_hex(h) \in Seq(Nat)
<1> DEFINE even == IF Len(h) % 2 = 0 THEN h ELSE <<0>> \o h
<1>1. PICK e : e = even /\ e \in Seq(0..15) /\ Len(e) % 2 = 0
  <2>1. CASE Len(h) % 2 = 0
    BY <2>1
  <2>2. CASE Len(h) % 2 # 0
    <3>1. <<0>> \o h \in Seq(0..15) /\ Len(<<0>> \o h) = 1 + Len(h) /\ Len(h) \in Nat
      OBVIOUS
    <3>2. (1 + Len(h)) % 2 = 0
      BY <2>2, <3>1
    <3> QED
      BY <2>2, <3>1, <3>2
  <2> QED
    BY <2>1, <2>2
<1>2. PICK l : l = Len(e) \div 2 /\ l \in Nat /\ \A i \in 1..l : 2 * i - 1 \in 1..Len(e) /\ 2 * i \in 1..Len(e)
  <2>1. PICK m : m = Len(e) /\ m \in Nat
    BY <1>1
  <2>2. m \div 2 \in Nat /\ \A i \in 1..m \div 2 : 2 * i - 1 \in 1..m /\ 2 * i \in 1..m
    BY <2>1
  <2> QED
    BY <2>1, <2>2
<1>3. \A i \in 1..l : e[2 * i - 1] * 16 + e[2 * i] \in Nat
  <2> TAKE i \in 1..l
  <2>1. 2 * i - 1 \in 1..Len(e) /\ 2 * i \in 1..Len(e)
    BY <1>2
  <2>2. PICK a, b : a = 2 * i - 1 /\ b = 2 * i /\ a \in 1..Len(e) /\ b \in 1..Len(e)
    BY <2>1
  <2>3. e[a] \in 0..15 /\ e[b] \in 0..15
    <3>1. e \in Seq(0..15)
      BY <1>1
    <3>2. \A j \in 1..Len(e) : e[j] \in 0..15
      BY <3>1
    <3> QED
      BY <2>2, <3>2
  <2>4. \A c, d \in 0..15 : c * 16 + d \in Nat
    OBVIOUS
  <2>5. e[a] * 16 + e[b] \in Nat
    BY <2>3, <2>4
  <2> QED
    BY <2>2, <2>5
<1>4. from_hex(h) = [i \in 1..l |-> e[2 * i - 1] * 16 + e[2 * i]]
  <2> HIDE DEF even
  <2> QED
    BY <1>1, <1>2 DEF from_hex, even
<1> QED
  BY <1>2, <1>3, <1>4

\* LengthBytes is what its loop computes.
LEMMA LengthBytesDef ==
    ASSUME NEW n \in Nat
    PROVE  LengthBytes(n) = IF n = 0 THEN <<>> ELSE Append(LengthBytes(n \div 256), n % 256)
<1> DEFINE T == Seq(Nat)
           m == [k \in Nat |-> k]
           E(k, g) == IF k = 0 THEN <<>> ELSE Append(g[k \div 256], k % 256)
           F == [k \in Nat |-> [g \in [Nat -> T] |-> E(k, g)]]
           bytes[k \in Nat] == E(k, bytes)
<1>1. \A k \in Nat : k \div 256 \in Nat /\ k % 256 \in Nat /\ (k # 0 => k \div 256 < k)
  OBVIOUS
<1>2. m \in [Nat -> Nat] /\ T # {}
  <2>1. <<>> \in T
    OBVIOUS
  <2> QED
    BY <2>1
<1>3. ASSUME NEW k \in Nat, NEW g \in [Nat -> T] PROVE E(k, g) \in T
  <2>1. PICK s, d : s = g[k \div 256] /\ d = k % 256 /\ s \in Seq(Nat) /\ d \in Nat
    BY <1>1
  <2>2. Append(s, d) \in T /\ <<>> \in T
    BY <2>1
  <2> QED
    BY <2>1, <2>2
<1>4. F \in [Nat -> [[Nat -> T] -> T]]
  <2> HIDE DEF T, E
  <2> QED
    BY <1>3
<1>5. ASSUME NEW k \in Nat, NEW g \in [Nat -> T], NEW h \in [Nat -> T], \A y \in Nat : m[y] < m[k]
             => g[y] = h[y]
      PROVE  F[k][g] = F[k][h]
  BY <1>1, <1>5
<1>6. PICK f \in [Nat -> T] : \A k \in Nat : f[k] = F[k][f]
  <2> HIDE DEF m, F, T
  <2>1. WellFounded(Nat, T, m, F)
    BY <1>2, <1>4, <1>5 DEF WellFounded
  <2>2. Solvable(Nat, T, F)
    BY <2>1, Recursion
  <2> QED
    BY <2>2 DEF Solvable
<1>7. \A k \in Nat : f[k] = E(k, f)
  <2> HIDE DEF E
  <2> QED
    BY <1>6
<1>8. f = [k \in Nat |-> E(k, f)]
  <2> HIDE DEF E, T
  <2> QED
    BY <1>6, <1>7
<1>9. bytes = [k \in Nat |-> E(k, bytes)]
  <2> HIDE DEF E, F, T, m
  <2> QED
    BY <1>8
<1>10. \A k \in Nat : LengthBytes(k) = bytes[k]
  BY DEF LengthBytes
<1> HIDE DEF bytes
<1>11. bytes[n] = E(n, bytes)
  BY <1>9
<1> QED
  BY <1>1, <1>10, <1>11

\* The bytes of a length: its digits, as few as there can be.
LEMMA LengthBytesAre ==
    ASSUME NEW n \in Nat
    PROVE  /\ LengthBytes(n) \in Seq(Nat) /\ NumberOf(256, LengthBytes(n)) = n
           /\ n # 0 => LengthBytes(n) # <<>> /\ LengthBytes(n)[1] # 0
<1> DEFINE Fine(k) == /\ LengthBytes(k) \in Seq(Nat) /\ NumberOf(256, LengthBytes(k)) = k
                      /\ k # 0 => LengthBytes(k) # <<>> /\ LengthBytes(k)[1] # 0
           B == {k \in Nat : ~ Fine(k)}
<1> SUFFICES ASSUME B # {} PROVE FALSE
  OBVIOUS
<1>1. PICK k \in B : \A j \in B : k <= j
  <2> HIDE DEF Fine
  <2> QED
    BY Least
<1>2. CASE k = 0
  <2>1. LengthBytes(0) = <<>> /\ <<>> \in Seq(Nat)
    BY LengthBytesDef
  <2>2. NumberOf(256, <<>>) = 0
    BY NumberOfEmpty
  <2> QED
    BY <1>1, <1>2, <2>1, <2>2
<1>3. CASE k # 0
  <2>1. PICK q, d : /\ q = k \div 256 /\ d = k % 256 /\ q \in Nat /\ d \in Nat /\ q < k /\ k = q * 256 + d
                    /\ q = 0 => d # 0
    <3>1. k \div 256 \in Nat /\ k % 256 \in Nat /\ k \div 256 < k /\ k = (k \div 256) * 256 + (k % 256)
      BY <1>3
    <3> QED
      BY <1>3, <3>1
  <2>2. LengthBytes(k) = Append(LengthBytes(q), d)
    BY <1>3, <2>1, LengthBytesDef
  <2>3. Fine(q)
    <3>1. ~ (k <= q)
      BY <2>1
    <3> HIDE DEF Fine
    <3> QED
      BY <1>1, <2>1, <3>1
  <2>4. PICK s : s = LengthBytes(q) /\ s \in Seq(Nat) /\ NumberOf(256, s) = q /\ (q # 0 => s # <<>> /\ s[1] # 0)
    BY <2>3
  <2>5. NumberOf(256, Append(s, d)) = q * 256 + d
    BY <2>1, <2>4, NumberOfAppend
  <2>6. Append(s, d) \in Seq(Nat) /\ Append(s, d) # <<>> /\ Append(s, d)[1] # 0
    <3>1. CASE q = 0
      <4>1. s = <<>>
        BY <2>4, <3>1, LengthBytesDef
      <4> QED
        BY <2>1, <3>1, <4>1
    <3>2. CASE q # 0
      BY <2>1, <2>4, <3>2
    <3> QED
      BY <3>1, <3>2
  <2>7. LengthBytes(k) = Append(s, d) /\ NumberOf(256, LengthBytes(k)) = k
    BY <2>1, <2>2, <2>4, <2>5
  <2>8. Fine(k)
    BY <2>6, <2>7
  <2> QED
    BY <1>1, <2>8
<1> QED
  BY <1>2, <1>3

\* Lengths that a size of 64 bits holds have at most eight bytes.
Size == {n \in Nat : n < 4294967296 * 4294967296}

\* A length of 64 bits has at most eight bytes: with the byte in front of them it
\* stays below the 64 first bytes of a kind.
LEMMA EightBytes ==
    ASSUME NEW n \in Size
    PROVE  Len(LengthBytes(n)) <= 8
<1> DEFINE Fits(k, l) == \A i \in Nat : i < l => Len(LengthBytes(i)) <= k
<1>1. Fits(0, 1)
  BY LengthBytesDef
<1>2. ASSUME NEW k \in Nat, NEW l \in Nat, Fits(k, l)
      PROVE  Fits(k + 1, 256 * l)
  <2> SUFFICES ASSUME NEW i \in Nat, i < 256 * l PROVE Len(LengthBytes(i)) <= k + 1
    OBVIOUS
  <2>1. CASE i = 0
    <3>1. LengthBytes(0) = <<>> /\ Len(<<>>) = 0
      BY LengthBytesDef
    <3> QED
      BY <2>1, <3>1
  <2>2. CASE i # 0
    <3>1. i \div 256 \in Nat /\ i \div 256 < l /\ i % 256 \in Nat
      OBVIOUS
    <3>2. PICK s : s = LengthBytes(i \div 256) /\ s \in Seq(Nat) /\ Len(s) <= k
      BY <1>2, <3>1, LengthBytesAre
    <3>3. LengthBytes(i) = Append(s, i % 256)
      BY <2>2, <3>2, LengthBytesDef
    <3>4. Len(Append(s, i % 256)) = Len(s) + 1
      BY <3>1, <3>2
    <3> QED
      BY <3>2, <3>3, <3>4
  <2> QED
    BY <2>1, <2>2
<1> HIDE DEF Fits
<1>3. Fits(1, 256) /\ Fits(2, 65536) /\ Fits(3, 16777216) /\ Fits(4, 4294967296)
  <2>1. Fits(0 + 1, 256 * 1)
    BY <1>1, <1>2
  <2>2. Fits(1 + 1, 256 * 256)
    BY <1>2, <2>1
  <2>3. Fits(2 + 1, 256 * 65536)
    BY <1>2, <2>2
  <2>4. Fits(3 + 1, 256 * 16777216)
    BY <1>2, <2>3
  <2> QED
    BY <2>1, <2>2, <2>3, <2>4
<1>4. PICK m \in Nat : m = 4294967296
  OBVIOUS
<1>5. Fits(8, m * m)
  <2>1. Fits(4 + 1, 256 * m)
    BY <1>2, <1>3, <1>4
  <2>2. Fits(5 + 1, 256 * (256 * m))
    BY <1>2, <2>1
  <2>3. Fits(6 + 1, 256 * (65536 * m))
    BY <1>2, <2>2
  <2>4. Fits(7 + 1, 256 * (16777216 * m))
    BY <1>2, <2>3
  <2>5. 256 * (16777216 * m) = m * m
    BY <1>4
  <2> QED
    BY <2>4, <2>5
<1> QED
  BY <1>4, <1>5 DEF Fits, Size

\* x is a, s and t, one after the other.
Parts(x, a, s, t) ==
    /\ x \in Seq(Nat) /\ a \in Seq(Nat) /\ s \in Seq(Nat) /\ t \in Seq(Nat)
    /\ Len(x) = Len(a) + Len(s) + Len(t)
    /\ \A i \in 1..Len(a) : x[i] = a[i]
    /\ \A i \in 1..Len(s) : x[Len(a) + i] = s[i]
    /\ \A i \in 1..Len(t) : x[Len(a) + Len(s) + i] = t[i]

Found(s, t) == [ok |-> TRUE, payload |-> s, rest |-> t]

\* What is cut out behind a is s, and t is left.
LEMMA CutParts ==
    ASSUME NEW x, NEW a, NEW s, NEW t, Parts(x, a, s, t)
    PROVE  Cut(x, Len(a) + 1, Len(s)) = Found(s, t)
<1> USE DEF Parts
<1>0. a \in Seq(Nat) /\ s \in Seq(Nat) /\ t \in Seq(Nat)
  OBVIOUS
<1>1. PICK k, l, m : k = Len(a) /\ l = Len(s) /\ m = Len(t) /\ k \in Nat /\ l \in Nat /\ m \in Nat
  <2>1. Len(a) \in Nat /\ Len(s) \in Nat /\ Len(t) \in Nat
    BY <1>0, LenProperties
  <2> HIDE DEF Parts
  <2> QED
    BY <2>1
<1>2. PICK b, c, d, e : b = k + 1 /\ c = k + l /\ d = k + l + 1 /\ e = Len(x) /\ b \in Int /\ c \in Int
                        /\ d \in Int /\ e \in Int /\ e = k + l + m
  BY <1>1
<1>3. SubSeq(x, b, c) = s
  <2>1. 1 <= b /\ c <= Len(x) /\ Len(s) = c - b + 1
    BY <1>1, <1>2
  <2>2. \A i \in 1..Len(s) : s[i] = x[b + i - 1]
    <3> TAKE i \in 1..Len(s)
    <3>1. b + i - 1 = k + i
      BY <1>1, <1>2
    <3> QED
      BY <1>1, <3>1
  <2>3. x \in Seq(Nat) /\ s \in Seq(Nat)
    OBVIOUS
  <2> QED
    BY <1>2, <2>1, <2>2, <2>3, PartIs
<1>4. SubSeq(x, d, e) = t
  <2>1. 1 <= d /\ e <= Len(x) /\ Len(t) = e - d + 1
    BY <1>1, <1>2
  <2>2. \A i \in 1..Len(t) : t[i] = x[d + i - 1]
    <3> TAKE i \in 1..Len(t)
    <3>1. d + i - 1 = k + l + i
      BY <1>1, <1>2
    <3> QED
      BY <1>1, <3>1
  <2>3. x \in Seq(Nat) /\ t \in Seq(Nat)
    OBVIOUS
  <2> QED
    BY <1>2, <2>1, <2>2, <2>3, PartIs
<1>5. b + l - 1 = c /\ b + l = d /\ ~ (b + l - 1 > Len(x)) /\ Len(a) + 1 = b /\ Len(s) = l
  BY <1>1, <1>2
<1>6. Cut(x, b, l) = Found(s, t)
  BY <1>2, <1>3, <1>4, <1>5 DEF Cut, Found
<1> QED
  BY <1>5, <1>6

\* The length of what Item leaves.
LEMMA ItemShrinks ==
    ASSUME NEW s \in Seq(Nat), Item(s, 128).ok
    PROVE  Item(s, 128).rest \in Seq(Nat) /\ Len(Item(s, 128).rest) < Len(s)
           /\ Item(s, 128).payload \in Seq(Nat)
<1> DEFINE Shrinks(c) == c.ok => c.rest \in Seq(Nat) /\ Len(c.rest) < Len(s) /\ c.payload \in Seq(Nat)
<1>1. ASSUME NEW f \in Nat, NEW n \in Nat, f >= 1, f + n >= 2
      PROVE  Shrinks(Cut(s, f, n))
  <2> SUFFICES ASSUME Cut(s, f, n).ok
               PROVE  Cut(s, f, n).rest \in Seq(Nat) /\ Len(Cut(s, f, n).rest) < Len(s)
                      /\ Cut(s, f, n).payload \in Seq(Nat)
    OBVIOUS
  <2>1. PICK l, e, d : l = Len(s) /\ l \in Nat /\ e = f + n - 1 /\ e \in Int /\ d = f + n /\ d \in Int
    OBVIOUS
  <2>2. ~ (e > l) /\ Cut(s, f, n) = [ok |-> TRUE, payload |-> SubSeq(s, f, e), rest |-> SubSeq(s, d, l)]
    BY <1>1, <2>1 DEF Cut, Broken
  <2>3. \A i \in f..e : s[i] \in Nat
    BY <1>1, <2>1, <2>2
  <2>4. SubSeq(s, f, e) \in Seq(Nat)
    BY <2>1, <2>3, SubSeqProperties
  <2>5. \A i \in d..l : s[i] \in Nat
    BY <1>1, <2>1
  <2>6. SubSeq(s, d, l) \in Seq(Nat) /\ Len(SubSeq(s, d, l)) = IF d <= l THEN l - d + 1 ELSE 0
    BY <2>1, <2>5, SubSeqProperties
  <2>7. (IF d <= l THEN l - d + 1 ELSE 0) < l
    BY <1>1, <2>1, <2>2
  <2> QED
    BY <2>1, <2>2, <2>4, <2>6, <2>7
<1>2. s # <<>> /\ s[1] \in Nat
  <2>1. s # <<>>
    BY DEF Item, Broken
  <2> QED
    BY <2>1
<1> DEFINE z == s[1] - 128 - 55
           n == NumberOf(256, SubSeq(s, 2, 1 + z))
           p == s[1] - 128
           i == Cut(s, 2, p)
<1>3. Item(s, 128) = IF s[1] < 128 THEN Cut(s, 1, 1)
                     ELSE IF s[1] >= 192 THEN Broken
                     ELSE IF z <= 0 THEN (IF Len(i.payload) = 1 /\ i.payload[1] < 128 THEN Broken ELSE i)
                     ELSE IF Len(s) < 1 + z \/ s[2] = 0 \/ n <= 55 THEN Broken
                     ELSE Cut(s, 2 + z, n)
  BY <1>2 DEF Item
<1> HIDE DEF z, n, i, p
<1>4. ~ Broken.ok
  BY DEF Broken
<1>5. CASE s[1] < 128
  <2>1. Item(s, 128) = Cut(s, 1, 1)
    BY <1>3, <1>5
  <2>2. Shrinks(Cut(s, 1, 1))
    <3> HIDE DEF Shrinks
    <3> QED
      BY <1>1
  <2> QED
    BY <2>1, <2>2
<1>6. CASE ~ (s[1] < 128) /\ z <= 0
  <2>1. Item(s, 128) = i
    BY <1>3, <1>4, <1>6
  <2>2. p \in Nat
    BY <1>2, <1>6 DEF p
  <2>3. i = Cut(s, 2, p)
    BY DEF i
  <2>4. Shrinks(Cut(s, 2, p))
    <3> HIDE DEF Shrinks
    <3> QED
      BY <1>1, <2>2
  <2> QED
    BY <2>1, <2>3, <2>4
<1>7. CASE ~ (s[1] < 128) /\ ~ (z <= 0)
  <2>1. Item(s, 128) = Cut(s, 2 + z, n) /\ ~ (Len(s) < 1 + z)
    BY <1>3, <1>4, <1>7
  <2>2. z \in Nat /\ z > 0
    BY <1>2, <1>7 DEF z
  <2>3. n \in Nat
    <3>1. PICK u : u = SubSeq(s, 2, 1 + z) /\ u \in Seq(Nat)
      <4>1. PICK e : e = 1 + z /\ e \in Int /\ \A j \in 2..e : s[j] \in Nat
        BY <2>1, <2>2
      <4>2. SubSeq(s, 2, e) \in Seq(Nat)
        BY <4>1, SubSeqProperties
      <4> QED
        BY <4>1, <4>2
    <3>2. NumberOf(256, u) \in Nat
      <4>1. PICK base : base = 256 /\ base \in Nat
        OBVIOUS
      <4>2. NumberOf(base, u) \in Nat
        BY <3>1, <4>1, NumberIsNatural
      <4> QED
        BY <4>1, <4>2
    <3> QED
      BY <3>1, <3>2 DEF n
  <2>4. 2 + z \in Nat /\ 2 + z >= 1 /\ (2 + z) + n >= 2
    BY <2>2, <2>3
  <2>5. Shrinks(Cut(s, 2 + z, n))
    <3> HIDE DEF Shrinks
    <3> QED
      BY <1>1, <2>3, <2>4
  <2> QED
    BY <2>1, <2>5
<1> QED
  BY <1>5, <1>6, <1>7

\* A number in front of a sequence of numbers.
LEMMA ConsParts ==
    ASSUME NEW c \in Nat, NEW b \in Seq(Nat)
    PROVE  <<c>> \o b \in Seq(Nat) /\ Len(<<c>> \o b) = 1 + Len(b) /\ (<<c>> \o b)[1] = c
<1>1. <<c>> \in Seq(Nat) /\ Len(<<c>>) = 1 /\ <<c>>[1] = c
  OBVIOUS
<1>2. <<c>> \o b \in Seq(Nat) /\ Len(<<c>> \o b) = 1 + Len(b)
  BY <1>1
<1>3. (<<c>> \o b)[1] = c
  BY <1>1
<1> QED
  BY <1>2, <1>3

\* The elements behind the first.
LEMMA ConsElements ==
    ASSUME NEW Z, NEW s \in Z, NEW w \in Seq(Z), NEW j \in 1..Len(w)
    PROVE  (<<s>> \o w)[1 + j] = w[j]
OBVIOUS

\* The prefix of up to 55 bytes.
LEMMA ShortPrefix ==
    ASSUME NEW start \in {128, 192}, NEW n \in 0..55
    PROVE  Prefix(start, n) = <<start + n>> /\ <<start + n>> \in Seq(Nat)
<1>1. Byte(start + n) = start + n
  BY DEF Byte
<1>2. n <= single_prefix_max_length
  BY DEF single_prefix_max_length
<1> QED
  BY <1>1, <1>2 DEF Prefix

\* a is what is written before n bytes, more than 55: b are the digits of n, k of them.
LongHead(start, n, a, b, k) ==
    /\ b \in Seq(Nat) /\ NumberOf(256, b) = n /\ b[1] # 0
    /\ k \in Nat /\ k >= 1 /\ k <= 8 /\ k = Len(b)
    /\ a \in Seq(Nat) /\ Len(a) = 1 + k /\ a[1] = start + 55 + k /\ \A i \in 1..k : a[1 + i] = b[i]

\* The prefix of more than 55 bytes.
LEMMA LongPrefix ==
    ASSUME NEW start \in {128, 192}, NEW n \in Size, n > 55
    PROVE  \E b, k : LongHead(start, n, Prefix(start, n), b, k)
<1>1. n \in Nat /\ n # 0
  BY DEF Size
<1>2. PICK b : b = LengthBytes(n) /\ b \in Seq(Nat) /\ NumberOf(256, b) = n /\ b # <<>> /\ b[1] # 0
  BY <1>1, LengthBytesAre
<1>3. PICK k : k = Len(b) /\ k \in Nat /\ k >= 1 /\ k <= 8
  <2>1. Len(b) <= 8
    BY <1>2, EightBytes
  <2>2. Len(b) \in Nat /\ Len(b) # 0
    BY <1>2
  <2>3. Len(b) >= 1
    BY <2>2
  <2> QED
    BY <2>1, <2>2, <2>3
<1>4. PICK c : c = start + 55 + k /\ c \in Nat /\ c < 256
  <2>1. start \in Nat /\ start <= 192
    OBVIOUS
  <2>2. start + 55 + k \in Nat /\ start + 55 + k < 256
    BY <1>3, <2>1
  <2> QED
    BY <2>2
<1>5. Byte(c) = c
  <2>1. c % 256 = c
    BY <1>4
  <2> QED
    BY <2>1 DEF Byte
<1>6. Prefix(start, n) = <<c>> \o b
  <2>1. ~ (n <= single_prefix_max_length)
    BY <1>1 DEF single_prefix_max_length
  <2>2. start + single_prefix_max_length + Len(b) = c
    BY <1>3, <1>4 DEF single_prefix_max_length
  <2> QED
    BY <1>2, <1>5, <2>1, <2>2 DEF Prefix
<1> DEFINE a == <<c>> \o b
<1>7. a \in Seq(Nat) /\ Len(a) = 1 + k /\ a[1] = c /\ \A i \in 1..k : a[1 + i] = b[i]
  <2>1. c \in Nat
    BY <1>4
  <2>2. a \in Seq(Nat) /\ Len(a) = 1 + Len(b) /\ a[1] = c
    BY <1>2, <2>1, ConsParts
  <2>3. \A i \in 1..Len(b) : a[1 + i] = b[i]
    BY <1>2, <2>1, ConsElements
  <2> HIDE DEF a
  <2> QED
    BY <1>3, <2>2, <2>3
<1> HIDE DEF a
<1>8. LongHead(start, n, a, b, k)
  BY <1>2, <1>3, <1>4, <1>7 DEF LongHead
<1>9. Prefix(start, n) = a
  BY <1>6 DEF a
<1> QED
  BY <1>8, <1>9

\* Behind its prefix the decoder finds a string or a list.
LEMMA PrefixFound ==
    ASSUME NEW start \in {128, 192}, NEW x, NEW s,
           NEW t, Parts(x, Prefix(start, Len(s)), s, t), Len(s) \in Size,
           start = 128 => ~ (Len(s) = 1 /\ s[1] < 128)
    PROVE  Item(x, start) = Found(s, t)
<1>1. PICK n, a : n = Len(s) /\ n \in Nat /\ n \in Size /\ a = Prefix(start, n) /\ Parts(x, a, s, t)
  BY DEF Parts, Size
<1>2. x \in Seq(Nat) /\ s \in Seq(Nat) /\ a \in Seq(Nat) /\ Len(x) = Len(a) + n + Len(t) /\ Len(t) \in Nat
      /\ \A i \in 1..Len(a) : x[i] = a[i]
  <2>1. x \in Seq(Nat) /\ s \in Seq(Nat) /\ a \in Seq(Nat) /\ t \in Seq(Nat)
        /\ Len(x) = Len(a) + Len(s) + Len(t) /\ \A i \in 1..Len(a) : x[i] = a[i]
    BY <1>1 DEF Parts
  <2>2. Len(t) \in Nat
    BY <2>1, LenProperties
  <2> QED
    BY <1>1, <2>1, <2>2
<1>3. Cut(x, Len(a) + 1, n) = Found(s, t)
  BY <1>1, CutParts
<1>4. CASE n <= 55
  <2>1. a = <<start + n>>
    <3>0. n \in Nat
      BY <1>1
    <3>1. n \in 0..55
      BY <1>4, <3>0
    <3> QED
      BY <1>1, <3>1, ShortPrefix
  <2>2. Len(a) = 1 /\ a[1] = start + n /\ Len(a) + 1 = 2
    BY <2>1
  <2>3. PICK c : c = x[1] /\ c = start + n /\ c \in Nat
    <3>1. 1 \in 1..Len(a)
      BY <2>2
    <3>2. x[1] = start + n
      BY <1>2, <2>2, <3>1
    <3> QED
      BY <1>1, <3>2
  <2>4. c - start = n /\ c - start - 55 <= 0 /\ ~ (c < start) /\ ~ (c >= start + 64)
    BY <1>1, <1>4, <2>3
  <2>5. Cut(x, 2, c - start) = Found(s, t)
    BY <1>3, <2>2, <2>4
  <2>6. ~ (start = 128 /\ Len(Found(s, t).payload) = 1 /\ Found(s, t).payload[1] < 128)
    BY DEF Found
  <2>7. x # <<>>
    <3>1. Len(x) # 0
      BY <1>1, <1>2, <2>2
    <3> QED
      BY <1>2, <3>1
  <2> HIDE DEF Found
  <2> QED
    BY <2>3, <2>4, <2>5, <2>6, <2>7 DEF Item
<1>5. CASE ~ (n <= 55)
  <2>0. n \in Nat /\ n \in Size
    BY <1>1
  <2>1. PICK b, k : LongHead(start, n, a, b, k)
    <3>1. n > 55
      BY <1>5, <2>0
    <3>2. \E b, k : LongHead(start, n, Prefix(start, n), b, k)
      BY <2>0, <3>1, LongPrefix
    <3> QED
      BY <1>1, <3>2
  <2>2. k \in Nat /\ k >= 1 /\ k <= 8 /\ k = Len(b) /\ b \in Seq(Nat) /\ b[1] # 0 /\ NumberOf(256, b) = n
    BY <2>1 DEF LongHead
  <2>3. Len(a) = 1 + k /\ a[1] = start + 55 + k /\ \A i \in 1..k : a[1 + i] = b[i]
    BY <2>1 DEF LongHead
  <2>4. PICK c : c = x[1] /\ c = start + 55 + k
    <3>1. 1 \in 1..Len(a)
      BY <2>2, <2>3
    <3>2. x[1] = a[1]
      BY <1>2, <3>1
    <3> QED
      BY <2>3, <3>2
  <2>5. c - start - 55 = k /\ ~ (k <= 0) /\ ~ (c < start) /\ ~ (c >= start + 64) /\ 1 + k + 1 = 2 + k
    <3>1. start = 128 \/ start = 192
      OBVIOUS
    <3> QED
      BY <2>2, <2>4, <3>1
  <2>6. \A i \in 1..k : x[1 + i] = b[i]
    <3> SUFFICES ASSUME NEW i \in 1..k PROVE x[1 + i] = b[i]
      OBVIOUS
    <3>1. 1 + i \in 1..Len(a)
      BY <2>2, <2>3
    <3> QED
      BY <1>2, <2>3, <3>1
  <2>7. PICK e : e = 1 + k /\ e \in Int /\ e <= Len(x)
    <3>1. 1 + k <= 1 + k + n + Len(t) /\ 1 + k \in Int
      BY <1>2, <2>0, <2>2
    <3> QED
      BY <1>2, <2>3, <3>1
  <2>8. SubSeq(x, 2, e) = b
    <3>1. PICK m : m = 2 /\ m \in Int
      OBVIOUS
    <3>2. 1 <= m /\ Len(b) = e - m + 1
      BY <2>2, <2>7, <3>1
    <3>3. \A i \in 1..Len(b) : b[i] = x[m + i - 1]
      <4> SUFFICES ASSUME NEW i \in 1..k PROVE b[i] = x[m + i - 1]
        BY <2>2
      <4>1. m + i - 1 = 1 + i
        BY <2>2, <3>1
      <4> QED
        BY <2>6, <4>1
    <3>4. x \in Seq(Nat) /\ b \in Seq(Nat) /\ e \in Int /\ e <= Len(x)
      BY <1>2, <2>2, <2>7
    <3>5. SubSeq(x, m, e) = b
      BY <3>1, <3>2, <3>3, <3>4, PartIs
    <3> QED
      BY <3>1, <3>5
  <2>9. NumberOf(256, SubSeq(x, 2, 1 + k)) = n
    BY <2>2, <2>7, <2>8
  <2>10. x[2] # 0
    <3>1. 1 \in 1..k /\ 1 + 1 = 2
      BY <2>2
    <3> QED
      BY <2>2, <2>6, <3>1
  <2>11. ~ (Len(x) < 1 + k)
    <3>1. Len(x) \in Int
      BY <1>2, LenProperties
    <3> QED
      BY <2>7, <3>1
  <2>12. x # <<>>
    <3>1. Len(x) # 0
      BY <2>2, <2>7
    <3>2. Len(<<>>) = 0
      OBVIOUS
    <3> QED
      BY <3>1, <3>2
  <2>13. Cut(x, 2 + k, n) = Found(s, t)
    BY <1>3, <2>3, <2>5
  <2> HIDE DEF Found
  <2> QED
    BY <2>4, <2>5, <2>9, <2>10, <2>11, <2>12, <2>13, <1>5 DEF Item
<1> QED
  BY <1>4, <1>5

\* Behind what generate_string_header writes the decoder finds the string.
LEMMA StringFound ==
    ASSUME NEW x, NEW s, NEW t, Parts(x, generate_string_header(s), s, t), Len(s) \in Size
    PROVE  Item(x, 128) = Found(s, t)
<1>1. CASE ~ is_immediate_string(s)
  <2>1. Parts(x, Prefix(128, Len(s)), s, t)
    BY <1>1 DEF generate_string_header, single_prefix_string_start_pos
  <2>2. ~ (Len(s) = 1 /\ s[1] < 128)
    BY <1>1 DEF is_immediate_string, single_prefix_string_start_pos
  <2>3. 128 \in {128, 192}
    OBVIOUS
  <2> QED
    BY <2>1, <2>2, <2>3, PrefixFound
<1>2. CASE is_immediate_string(s)
  <2>1. Parts(x, <<>>, s, t)
    BY <1>2 DEF generate_string_header
  <2>2. Len(s) = 1 /\ s[1] < 128
    BY <1>2 DEF is_immediate_string, single_prefix_string_start_pos
  <2>3. Len(<<>>) + 1 = 1
    OBVIOUS
  <2>4. Cut(x, 1, 1) = Found(s, t)
    BY <2>1, <2>2, <2>3, CutParts
  <2>5. x # <<>> /\ x[1] = s[1]
    <3>1. /\ x \in Seq(Nat) /\ s \in Seq(Nat) /\ t \in Seq(Nat) /\ Len(x) = Len(<<>>) + Len(s) + Len(t)
          /\ \A i \in 1..Len(s) : x[Len(<<>>) + i] = s[i]
      BY <2>1 DEF Parts
    <3>2. x[0 + 1] = s[1]
      BY <2>2, <3>1
    <3>3. Len(x) # 0
      BY <2>2, <3>1
    <3> QED
      BY <3>1, <3>2, <3>3
  <2> QED
    BY <2>2, <2>4, <2>5 DEF Item
<1> QED
  BY <1>1, <1>2

\* A prefix is a sequence of bytes.
LEMMA PrefixIsNaturals ==
    ASSUME NEW start \in Nat, NEW n \in Nat
    PROVE  Prefix(start, n) \in Seq(Nat)
<1>1. \A k \in Nat : Byte(k) \in Nat
  BY DEF Byte
<1>2. CASE n <= single_prefix_max_length
  <2>1. Byte(start + n) \in Nat
    BY <1>1
  <2> QED
    BY <1>2, <2>1 DEF Prefix
<1>3. CASE ~ (n <= single_prefix_max_length)
  <2>1. PICK b : b = LengthBytes(n) /\ b \in Seq(Nat)
    BY LengthBytesAre
  <2>2. PICK c : c = Byte(start + single_prefix_max_length + Len(b)) /\ c \in Nat
    <3>1. start + single_prefix_max_length + Len(b) \in Nat
      BY <2>1 DEF single_prefix_max_length
    <3> QED
      BY <1>1, <3>1
  <2>3. <<c>> \o b \in Seq(Nat)
    BY <2>1, <2>2
  <2> QED
    BY <1>3, <2>1, <2>2, <2>3 DEF Prefix
<1> QED
  BY <1>2, <1>3

\* g[k] is what the first k of n sequences make, one after the other.
Joins(seqs, n, g) ==
    /\ g \in [0..n -> Seq(Nat)] /\ g[0] = <<>>
    /\ \A k \in 1..n : g[k] = g[k - 1] \o seqs[k]
    /\ FlattenSeq(seqs) = g[n]

\* FlattenSeq appends one sequence after the other.
LEMMA FlattenDef ==
    ASSUME NEW seqs \in Seq(Seq(Nat))
    PROVE  \E g : Joins(seqs, Len(seqs), g)
<1>0. PICK n : n = Len(seqs) /\ n \in Nat
  OBVIOUS
<1> DEFINE T == Seq(Nat)
           F == [k \in 1..n |-> [v \in T |-> v \o seqs[k]]]
           flatten[i \in 1..n] == IF i = 1 THEN seqs[i] ELSE flatten[i - 1] \o seqs[i]
<1>1. n \in Nat /\ \A k \in 1..n : seqs[k] \in Seq(Nat)
  BY <1>0
<1>2. F \in [1..n -> [T -> T]] /\ <<>> \in T
  BY <1>1
<1>3. PICK g : g \in [0..n -> T] /\ g[0] = <<>> /\ \A k \in 1..n : g[k] = F[k][g[k - 1]]
  <2> HIDE DEF F, T
  <2>1. IsLoop(n, T, <<>>, F)
    BY <1>1, <1>2 DEF IsLoop
  <2>2. Runs(n, T, <<>>, F)
    BY <2>1, Loop
  <2> QED
    BY <2>2 DEF Runs
<1>4. \A k \in 1..n : g[k] = g[k - 1] \o seqs[k] /\ k - 1 \in 0..n
  <2> SUFFICES ASSUME NEW k \in 1..n PROVE g[k] = g[k - 1] \o seqs[k] /\ k - 1 \in 0..n
    OBVIOUS
  <2>1. k - 1 \in 0..n
    BY <1>1
  <2>2. g[k - 1] \in T
    BY <1>3, <2>1
  <2> QED
    BY <1>3, <2>1, <2>2
<1> HIDE DEF F
<1>5. FlattenSeq(seqs) = g[n]
  <2>1. CASE n = 0
    <3>1. seqs = <<>>
      <4>1. Len(seqs) = 0
        BY <1>0, <2>1
      <4> QED
        BY <4>1
    <3> QED
      BY <1>0, <1>3, <2>1, <3>1 DEF FlattenSeq
  <2>2. CASE n # 0
    <3>1. FlattenSeq(seqs) = flatten[n]
      BY <1>0, <2>2 DEF FlattenSeq
    <3> DEFINE f == [k \in 1..n |-> g[k]]
    <3>2. \A k \in 1..n : f[k] = IF k = 1 THEN seqs[k] ELSE f[k - 1] \o seqs[k]
      <4> SUFFICES ASSUME NEW k \in 1..n PROVE f[k] = IF k = 1 THEN seqs[k] ELSE f[k - 1] \o seqs[k]
        OBVIOUS
      <4>1. CASE k = 1
        <5>0. 1 \in 1..n /\ 1 - 1 = 0
          BY <4>1
        <5>1. g[1] = <<>> \o seqs[1] /\ seqs[1] \in Seq(Nat)
          <6>1. g[1] = g[1 - 1] \o seqs[1] /\ seqs[1] \in Seq(Nat)
            BY <1>1, <1>4, <5>0
          <6> QED
            BY <1>3, <5>0, <6>1
        <5>2. <<>> \o seqs[1] = seqs[1]
          BY <5>1
        <5> QED
          BY <4>1, <5>1, <5>2
      <4>2. CASE k # 1
        <5>1. k - 1 \in 1..n
          BY <1>1, <4>2
        <5> QED
          BY <1>4, <4>2, <5>1
      <4> QED
        BY <4>1, <4>2
    <3>3. f = [k \in 1..n |-> IF k = 1 THEN seqs[k] ELSE f[k - 1] \o seqs[k]]
      <4> HIDE DEF f
      <4>1. f = [k \in 1..n |-> f[k]]
        BY DEF f
      <4> QED
        BY <3>2, <4>1
    <3> HIDE DEF f
    <3>4. flatten = [k \in 1..n |-> IF k = 1 THEN seqs[k] ELSE flatten[k - 1] \o seqs[k]]
      BY <3>3
    <3> HIDE DEF flatten
    <3> DEFINE P == {k \in Nat : k + 1 \in 1..n => flatten[k + 1] = g[k + 1]}
    <3>5. 0 \in P
      <4>1. 1 \in 1..n
        BY <1>1, <2>2
      <4>2. flatten[1] = seqs[1]
        BY <3>4, <4>1
      <4>3. f[1] = seqs[1]
        BY <3>2, <4>1
      <4>4. f[1] = g[1]
        BY <4>1 DEF f
      <4> QED
        BY <4>2, <4>3, <4>4
    <3>6. ASSUME NEW k \in Nat, k \in P PROVE k + 1 \in P
      <4>1. CASE (k + 1) + 1 \in 1..n
        <5>1. PICK i : i = (k + 1) + 1 /\ i \in 1..n /\ i - 1 = k + 1 /\ k + 1 \in 1..n /\ i # 1
          BY <1>1, <4>1
        <5>2. flatten[i] = flatten[i - 1] \o seqs[i]
          BY <3>4, <5>1
        <5>3. g[i] = g[i - 1] \o seqs[i]
          BY <1>4, <5>1
        <5>4. flatten[k + 1] = g[k + 1]
          BY <3>6, <5>1
        <5>5. flatten[(k + 1) + 1] = g[(k + 1) + 1]
          <6>1. flatten[i] = g[i]
            BY <5>1, <5>2, <5>3, <5>4
          <6> QED
            BY <5>1, <6>1
        <5> QED
          BY <5>5
      <4> QED
        BY <4>1
    <3>7. Nat \subseteq P
      <4> HIDE DEF P
      <4> QED
        BY <3>5, <3>6, Induction
    <3>8. PICK m : m = n - 1 /\ m \in Nat /\ m + 1 = n /\ n \in 1..n
      BY <1>1, <2>2
    <3>9. m \in P
      BY <3>7, <3>8
    <3> QED
      BY <3>1, <3>8, <3>9
  <2> QED
    BY <2>1, <2>2
<1> HIDE DEF flatten
<1> QED
  BY <1>0, <1>3, <1>4, <1>5 DEF Joins

\* p begins with u.
Begins(p, u) ==
    /\ p \in Seq(Nat) /\ u \in Seq(Nat) /\ Len(u) <= Len(p)
    /\ \A i \in 1..Len(u) : p[i] = u[i]

Behind(p, u) == SubSeq(p, Len(u) + 1, Len(p))

IsJoined(u, e, v) == u \in Seq(Nat) /\ e \in Seq(Nat) /\ v = u \o e

Joined(u, e, v) ==
    /\ u \in Seq(Nat) /\ e \in Seq(Nat) /\ v \in Seq(Nat) /\ Len(v) = Len(u) + Len(e)
    /\ \A i \in 1..Len(u) : v[i] = u[i]
    /\ \A i \in 1..Len(e) : v[Len(u) + i] = e[i]

\* The parts of a concatenation.
LEMMA JoinedParts ==
    ASSUME NEW u, NEW e, NEW v, IsJoined(u, e, v)
    PROVE  Joined(u, e, v)
<1>1. u \in Seq(Nat) /\ e \in Seq(Nat) /\ v = u \o e
  BY DEF IsJoined
<1>2. \A i \in 1..Len(u) : (u \o e)[i] = u[i]
  BY <1>1
<1>3. \A i \in 1..Len(e) : (u \o e)[Len(u) + i] = e[i]
  BY <1>1
<1>4. u \o e \in Seq(Nat) /\ Len(u \o e) = Len(u) + Len(e)
  BY <1>1
<1> QED
  BY <1>1, <1>2, <1>3, <1>4 DEF Joined

\* x is p without u.
Without(p, u, x) ==
    /\ x \in Seq(Nat) /\ Len(x) = Len(p) - Len(u)
    /\ \A i \in 1..Len(p) - Len(u) : x[i] = p[Len(u) + i]

\* What is behind u.
LEMMA BehindIs ==
    ASSUME NEW p, NEW u, Begins(p, u)
    PROVE  Without(p, u, Behind(p, u))
<1>1. PICK k, l : k = Len(u) /\ l = Len(p) /\ k \in Nat /\ l \in Nat /\ k <= l
  BY DEF Begins
<1>2. PICK b : b = k + 1 /\ b \in Int /\ \A i \in b..l : p[i] \in Nat
  <2>1. \A i \in k + 1..l : p[i] \in Nat
    BY <1>1 DEF Begins
  <2> QED
    BY <1>1, <2>1
<1>3. /\ SubSeq(p, b, l) \in Seq(Nat) /\ Len(SubSeq(p, b, l)) = IF b <= l THEN l - b + 1 ELSE 0
      /\ \A i \in 1..l - b + 1 : SubSeq(p, b, l)[i] = p[b + i - 1]
  BY <1>1, <1>2, SubSeqProperties
<1>4. (IF b <= l THEN l - b + 1 ELSE 0) = l - k /\ l - b + 1 = l - k /\ \A i \in 1..l - k : b + i - 1 = k + i
  BY <1>1, <1>2
<1> QED
  BY <1>1, <1>2, <1>3, <1>4 DEF Behind, Without

\* What begins with u and e begins with u.
LEMMA BeginsLess ==
    ASSUME NEW p, NEW u, NEW e, NEW v, IsJoined(u, e, v), Begins(p, v)
    PROVE  Begins(p, u)
<1>1. /\ u \in Seq(Nat) /\ e \in Seq(Nat) /\ Len(v) = Len(u) + Len(e) /\ \A i \in 1..Len(u) : v[i] = u[i]
  BY JoinedParts DEF Joined
<1>2. p \in Seq(Nat) /\ Len(v) <= Len(p) /\ \A i \in 1..Len(v) : p[i] = v[i]
  BY DEF Begins
<1>3. PICK k, l, m, n : k = Len(u) /\ l = Len(e) /\ m = Len(v) /\ n = Len(p) /\ k \in Nat /\ l \in Nat
                        /\ n \in Nat /\ m = k + l /\ m <= n
  <2>1. Len(u) \in Nat /\ Len(e) \in Nat /\ Len(p) \in Nat
    BY <1>1, <1>2, LenProperties
  <2> QED
    BY <1>1, <1>2, <2>1
<1>4. k <= n /\ \A i \in 1..k : i \in 1..m
  BY <1>3
<1> QED
  BY <1>1, <1>2, <1>3, <1>4 DEF Begins

\* Behind u, p continues with a, s and what is behind all three.
LEMMA BehindParts ==
    ASSUME NEW p, NEW u, NEW a, NEW s, NEW e, NEW v, IsJoined(a, s, e), IsJoined(u, e, v), Begins(p, v)
    PROVE  Parts(Behind(p, u), a, s, Behind(p, v))
<1>1. /\ a \in Seq(Nat) /\ s \in Seq(Nat) /\ Len(e) = Len(a) + Len(s)
      /\ \A i \in 1..Len(a) : e[i] = a[i]
      /\ \A i \in 1..Len(s) : e[Len(a) + i] = s[i]
  <2>1. Joined(a, s, e)
    BY JoinedParts
  <2> QED
    BY <2>1 DEF Joined
<1>2. /\ u \in Seq(Nat) /\ e \in Seq(Nat) /\ v \in Seq(Nat) /\ Len(v) = Len(u) + Len(e)
      /\ \A i \in 1..Len(e) : v[Len(u) + i] = e[i]
  BY JoinedParts DEF Joined
<1>3. p \in Seq(Nat) /\ Len(v) <= Len(p) /\ \A i \in 1..Len(v) : p[i] = v[i]
  BY DEF Begins
<1>4. PICK h, l, k, n : /\ h = Len(a) /\ l = Len(s) /\ k = Len(u) /\ n = Len(p)
                        /\ h \in Nat /\ l \in Nat /\ k \in Nat /\ n \in Nat
  <2>1. Len(a) \in Nat /\ Len(s) \in Nat /\ Len(u) \in Nat /\ Len(p) \in Nat
    BY <1>1, <1>2, <1>3, LenProperties
  <2> QED
    BY <2>1
<1>5. Len(e) = h + l /\ Len(v) = k + (h + l) /\ k + (h + l) <= n
  BY <1>1, <1>2, <1>3, <1>4
<1>6. PICK x, t : x = Behind(p, u) /\ t = Behind(p, v)
  OBVIOUS
<1>7. x \in Seq(Nat) /\ Len(x) = n - k /\ \A i \in 1..n - k : x[i] = p[k + i]
  <2>1. Begins(p, u)
    BY BeginsLess
  <2> QED
    <3>1. Without(p, u, x)
      BY <1>6, <2>1, BehindIs
    <3> QED
      BY <1>4, <3>1 DEF Without
<1>8. t \in Seq(Nat) /\ Len(t) = n - (k + (h + l))
      /\ \A i \in 1..n - (k + (h + l)) : t[i] = p[(k + (h + l)) + i]
  <2>1. Without(p, v, t)
    BY <1>6, BehindIs
  <2> QED
    BY <1>4, <1>5, <2>1 DEF Without
<1>9. \A i \in 1..h + l : x[i] = e[i]
  <2> SUFFICES ASSUME NEW i \in 1..h + l PROVE x[i] = e[i]
    OBVIOUS
  <2>1. i \in 1..n - k /\ k + i \in 1..k + (h + l)
    BY <1>4, <1>5
  <2>2. x[i] = p[k + i] /\ p[k + i] = v[k + i]
    BY <1>3, <1>5, <1>7, <2>1
  <2>3. v[k + i] = e[i]
    BY <1>2, <1>4, <1>5
  <2> QED
    BY <2>2, <2>3
<1>10. \A i \in 1..h : x[i] = a[i]
  <2> SUFFICES ASSUME NEW i \in 1..h PROVE x[i] = a[i]
    OBVIOUS
  <2>1. i \in 1..h + l
    BY <1>4
  <2> QED
    BY <1>1, <1>4, <1>9, <2>1
<1>11. \A i \in 1..l : x[h + i] = s[i]
  <2> SUFFICES ASSUME NEW i \in 1..l PROVE x[h + i] = s[i]
    OBVIOUS
  <2>1. h + i \in 1..h + l
    BY <1>4
  <2> QED
    BY <1>1, <1>4, <1>9, <2>1
<1>12. Len(x) = h + l + Len(t)
  BY <1>4, <1>7, <1>8
<1>13. \A i \in 1..Len(t) : x[h + l + i] = t[i]
  <2> SUFFICES ASSUME NEW i \in 1..n - (k + (h + l)) PROVE x[h + l + i] = t[i]
    BY <1>8
  <2>1. h + l + i \in 1..n - k /\ k + (h + l + i) = (k + (h + l)) + i
    BY <1>4, <1>5
  <2>2. x[h + l + i] = p[k + (h + l + i)]
    BY <1>7, <2>1
  <2> QED
    BY <1>8, <2>1, <2>2
<1> QED
  BY <1>1, <1>4, <1>6, <1>7, <1>8, <1>10, <1>11, <1>12, <1>13 DEF Parts

\* The last n of l elements of s.
Ending(s, n, l) == SubSeq(s, l - n + 1, l)

\* items[n] are the strings of the last n of the l bytes of s.
Reads(s, l, items) ==
    /\ Strings(s) = items[l] /\ items[0] = <<>>
    /\ \A n \in 1..l :
          items[n] = LET first == Item(Ending(s, n, l), 128)
                     IN  IF ~first.ok THEN << <<-1>> >> ELSE <<first.payload>> \o items[Len(first.rest)]

\* Strings takes one item after the other off the bytes.
LEMMA StringsDef ==
    ASSUME NEW s \in Seq(Nat)
    PROVE  \E items : Reads(s, Len(s), items)
<1>0. PICK l : l = Len(s) /\ l \in Nat
  OBVIOUS
<1> DEFINE S == 0..l
           T == Seq(Seq(Int))
           m == [n \in S |-> n]
           I(n) == Item(Ending(s, n, l), 128)
           E(n, g) == IF n = 0 THEN <<>>
                      ELSE IF ~I(n).ok THEN << <<-1>> >>
                      ELSE <<I(n).payload>> \o g[Len(I(n).rest)]
           F == [n \in S |-> [g \in [S -> T] |-> E(n, g)]]
           items[n \in S] == E(n, items)
<1>1. ASSUME NEW n \in S, n # 0, I(n).ok
      PROVE  Len(I(n).rest) \in S /\ Len(I(n).rest) < n /\ I(n).payload \in Seq(Nat)
  <2>1. PICK x : x = Ending(s, n, l) /\ x \in Seq(Nat) /\ Len(x) = n
    <3>1. PICK b : b = l - n + 1 /\ b \in Int /\ \A i \in b..l : s[i] \in Nat
      <4>1. l - n + 1 \in Int /\ \A i \in l - n + 1..l : i \in 1..l
        BY <1>0, <1>1
      <4>2. \A i \in l - n + 1..l : s[i] \in Nat
        BY <1>0, <4>1
      <4> QED
        BY <4>1, <4>2
    <3>2. SubSeq(s, b, l) \in Seq(Nat) /\ Len(SubSeq(s, b, l)) = IF b <= l THEN l - b + 1 ELSE 0
      BY <1>0, <3>1, SubSeqProperties
    <3>3. (IF b <= l THEN l - b + 1 ELSE 0) = n
      BY <1>0, <1>1, <3>1
    <3> QED
      BY <3>1, <3>2, <3>3 DEF Ending
  <2>2. Item(x, 128).rest \in Seq(Nat) /\ Len(Item(x, 128).rest) < Len(x) /\ Item(x, 128).payload \in Seq(Nat)
    BY <1>1, <2>1, ItemShrinks
  <2>3. PICK k : k = Len(Item(x, 128).rest) /\ k \in Nat /\ k < n
    <3>1. Len(Item(x, 128).rest) \in Nat
      BY <2>2
    <3> QED
      BY <2>1, <2>2, <3>1
  <2>4. k \in S
    BY <1>0, <2>3
  <2> HIDE DEF S
  <2> QED
    BY <2>1, <2>2, <2>3, <2>4
<1> HIDE DEF I
<1>2. m \in [S -> Nat] /\ T # {}
  <2>1. <<>> \in T
    OBVIOUS
  <2>2. \A n \in S : n \in Nat
    BY <1>0
  <2> HIDE DEF T, S
  <2> QED
    BY <2>1, <2>2
<1>3. ASSUME NEW n \in S, NEW g \in [S -> T] PROVE E(n, g) \in T
  <2>1. <<>> \in T /\ << <<-1>> >> \in T
    OBVIOUS
  <2>2. ASSUME n # 0, I(n).ok PROVE <<I(n).payload>> \o g[Len(I(n).rest)] \in T
    <3>1. Len(I(n).rest) \in S /\ I(n).payload \in Seq(Nat)
      BY <1>1, <2>2
    <3>2. I(n).payload \in Seq(Int)
      BY <3>1
    <3>3. PICK a, b : a = I(n).payload /\ b = g[Len(I(n).rest)] /\ a \in Seq(Int) /\ b \in Seq(Seq(Int))
      BY <3>1, <3>2
    <3>4. PICK Z : Z = Seq(Int)
      OBVIOUS
    <3>5. <<a>> \in Seq(Z) /\ b \in Seq(Z)
      BY <3>3, <3>4
    <3>6. <<a>> \o b \in Seq(Z)
      BY <3>5, ConcatProperties
    <3> QED
      BY <3>3, <3>4, <3>6
  <2> QED
    BY <2>1, <2>2
<1>4. F \in [S -> [[S -> T] -> T]]
  <2> HIDE DEF S, T, E
  <2> QED
    BY <1>3
<1>5. ASSUME NEW n \in S, NEW g \in [S -> T], NEW h \in [S -> T], \A y \in S : m[y] < m[n] => g[y] = h[y]
      PROVE  F[n][g] = F[n][h]
  <2>1. ASSUME n # 0, I(n).ok PROVE g[Len(I(n).rest)] = h[Len(I(n).rest)]
    <3>1. Len(I(n).rest) \in S /\ Len(I(n).rest) < n
      BY <1>1, <2>1
    <3> QED
      BY <1>5, <3>1
  <2>2. E(n, g) = E(n, h)
    BY <2>1
  <2> HIDE DEF S, T, E
  <2> QED
    BY <2>2
<1>6. PICK f : f \in [S -> T] /\ \A n \in S : f[n] = F[n][f]
  <2> HIDE DEF m, F, T, S
  <2>1. WellFounded(S, T, m, F)
    BY <1>2, <1>4, <1>5 DEF WellFounded
  <2>2. Solvable(S, T, F)
    BY <2>1, Recursion
  <2> QED
    BY <2>2 DEF Solvable
<1> HIDE DEF S, T
<1>7. \A n \in S : f[n] = E(n, f)
  <2> HIDE DEF E
  <2> QED
    BY <1>6
<1>8. f = [n \in S |-> E(n, f)]
  <2> HIDE DEF E
  <2> QED
    BY <1>6, <1>7
<1>9. items = [n \in S |-> E(n, items)]
  BY <1>8
<1>10. Strings(s) = items[l]
  BY <1>0 DEF Strings, I, Ending, S
<1> HIDE DEF items
<1>11. items[0] = <<>>
  <2>1. 0 \in S
    BY <1>0 DEF S
  <2> QED
    BY <1>9, <2>1
<1>12. \A n \in 1..l : items[n] = IF ~I(n).ok THEN << <<-1>> >> ELSE <<I(n).payload>> \o items[Len(I(n).rest)]
  <2>1. \A n \in 1..l : n \in S /\ n # 0
    BY <1>0 DEF S
  <2> QED
    BY <1>9, <2>1
<1> QED
  BY <1>0, <1>10, <1>11, <1>12 DEF Reads, I

\* The strings ss in their encodings es: what is g[n] in the end.
Encoded(ss, n, es, g) ==
    /\ n \in Nat /\ ss \in Seq(Seq(Nat)) /\ Len(ss) = n /\ g \in [0..n -> Seq(Nat)] /\ g[0] = <<>>
    /\ \A k \in 1..n : IsJoined(generate_string_header(ss[k]), ss[k], es[k]) /\ IsJoined(g[k - 1], es[k], g[k])

\* The encoding of all strings begins with that of the first k.
LEMMA AllBegin ==
    ASSUME NEW ss, NEW n, NEW es, NEW g, Encoded(ss, n, es, g)
    PROVE  \A k \in 0..n : Begins(g[n], g[k])
<1> USE DEF Encoded
<1> DEFINE P == {k \in Nat : k <= n => Begins(g[n], g[n - k])}
<1>1. 0 \in P
  <2>1. n \in 0..n /\ n - 0 = n
    OBVIOUS
  <2>2. g[n] \in Seq(Nat)
    BY <2>1
  <2>3. Begins(g[n], g[n])
    BY <2>2 DEF Begins
  <2> HIDE DEF Encoded
  <2> QED
    BY <2>1, <2>3
<1>2. ASSUME NEW k \in Nat, k \in P PROVE k + 1 \in P
  <2> SUFFICES ASSUME k + 1 <= n PROVE Begins(g[n], g[n - (k + 1)])
    OBVIOUS
  <2>0. n - k \in 1..n /\ (n - k) - 1 = n - (k + 1) /\ k <= n
    OBVIOUS
  <2>1. PICK i : i = n - k /\ i \in 1..n /\ i - 1 = n - (k + 1) /\ k <= n
    BY <2>0
  <2>2. IsJoined(g[i - 1], es[i], g[i])
    BY <2>1
  <2>3. Begins(g[n], g[i])
    BY <1>2, <2>1
  <2>4. PICK p, u, e, v : p = g[n] /\ u = g[i - 1] /\ e = es[i] /\ v = g[i]
    OBVIOUS
  <2>5. Begins(p, u)
    BY <2>2, <2>3, <2>4, BeginsLess
  <2> QED
    BY <2>1, <2>4, <2>5
<1>3. Nat \subseteq P
  <2> HIDE DEF P
  <2> QED
    BY <1>1, <1>2, Induction
<1> SUFFICES ASSUME NEW k \in 0..n PROVE Begins(g[n], g[k])
  OBVIOUS
<1>4. n - k \in Nat /\ n - k <= n /\ n - (n - k) = k
  OBVIOUS
<1> QED
  BY <1>3, <1>4

\* The decoder finds the strings again.
LEMMA StringsFound ==
    ASSUME NEW ss, NEW n, NEW es, NEW g, Encoded(ss, n, es, g), Len(g[n]) \in Size
    PROVE  Strings(g[n]) = ss
<1> USE DEF Encoded
<1>1. PICK p, l : p = g[n] /\ p \in Seq(Nat) /\ l = Len(p) /\ l \in Nat /\ l \in Size
  <2>1. n \in 0..n
    OBVIOUS
  <2>2. g[n] \in Seq(Nat)
    BY <2>1
  <2>3. Len(g[n]) \in Nat
    BY <2>2, LenProperties
  <2> HIDE DEF Encoded
  <2> QED
    BY <2>2, <2>3
<1>2. PICK items : Reads(p, l, items)
  BY <1>1, StringsDef
<1>3. \A k \in 0..n : Begins(p, g[k])
  BY <1>1, AllBegin
<1> DEFINE At(k) == l - Len(g[k])
           Left(k) == /\ items[At(k)] \in Seq(Seq(Nat)) /\ Len(items[At(k)]) = n - k
                      /\ \A j \in 1..n - k : items[At(k)][j] = ss[k + j]
           P == {k \in Nat : k <= n => Left(n - k)}
<1>4. 0 \in P
  <2>1. n - 0 = n /\ At(n) = 0
    BY <1>1
  <2>2. items[0] = <<>>
    BY <1>2 DEF Reads
  <2>3. <<>> \in Seq(Seq(Nat)) /\ Len(<<>>) = 0
    OBVIOUS
  <2>4. n - n = 0 /\ 1..0 = {}
    OBVIOUS
  <2>5. Left(n)
    BY <2>1, <2>2, <2>3, <2>4
  <2> HIDE DEF Left
  <2> QED
    BY <2>1, <2>5
<1>5. ASSUME NEW k \in Nat, k \in P PROVE k + 1 \in P
  <2> SUFFICES ASSUME k + 1 <= n PROVE Left(n - (k + 1))
    <3> HIDE DEF Left
    <3> QED
      OBVIOUS
  <2>0. n \in Nat
    OBVIOUS
  <2>1. PICK i : i = n - k /\ i \in 1..n /\ i - 1 = n - (k + 1) /\ k <= n /\ i - 1 \in 0..n /\ i \in 0..n
    <3>1. n - k \in 1..n /\ (n - k) - 1 = n - (k + 1) /\ k <= n /\ (n - k) - 1 \in 0..n /\ n - k \in 0..n
      BY <2>0
    <3> HIDE DEF Encoded
    <3> QED
      BY <3>1
  <2>2. PICK u, v, e, s, h : u = g[i - 1] /\ v = g[i] /\ e = es[i] /\ s = ss[i] /\ h = generate_string_header(s)
    OBVIOUS
  <2>3. IsJoined(h, s, e) /\ IsJoined(u, e, v) /\ Begins(p, u) /\ Begins(p, v)
    BY <1>3, <2>1, <2>2
  <2>4. Parts(Behind(p, u), h, s, Behind(p, v))
    BY <2>3, BehindParts
  <2>5. Without(p, u, Behind(p, u)) /\ Without(p, v, Behind(p, v))
    BY <2>3, BehindIs
  <2>6. PICK a, b : a = Len(Behind(p, u)) /\ b = Len(Behind(p, v)) /\ a \in Nat /\ b \in Nat
    <3>1. Behind(p, u) \in Seq(Nat) /\ Behind(p, v) \in Seq(Nat)
      BY <2>5 DEF Without
    <3>2. Len(Behind(p, u)) \in Nat /\ Len(Behind(p, v)) \in Nat
      BY <3>1, LenProperties
    <3> QED
      BY <3>2
  <2>7. a = At(i - 1) /\ b = At(i)
    BY <1>1, <2>2, <2>5, <2>6 DEF Without
  <2>8. s \in Seq(Nat) /\ h \in Seq(Nat) /\ Len(s) \in Nat /\ Len(h) \in Nat
    <3>1. s \in Seq(Nat) /\ h \in Seq(Nat)
      BY <2>3 DEF IsJoined
    <3> QED
      BY <3>1, LenProperties
  <2>9. a = Len(h) + Len(s) + b
    BY <2>4, <2>6 DEF Parts
  <2>10. a <= l
    <3>1. Len(u) \in Nat
      <4>1. u \in Seq(Nat)
        BY <2>3 DEF Begins
      <4> QED
        BY <4>1, LenProperties
    <3>2. a = l - Len(u)
      BY <2>2, <2>7
    <3> HIDE DEF Encoded
    <3> QED
      BY <1>1, <3>1, <3>2
  <2>11. Len(s) \in Size
    <3>1. Len(s) <= l
      BY <1>1, <2>6, <2>8, <2>9, <2>10
    <3> QED
      BY <1>1, <2>8, <3>1 DEF Size
  <2>12. Item(Behind(p, u), 128) = Found(s, Behind(p, v))
    BY <2>2, <2>4, <2>11, StringFound
  <2>13. a # 0
    <3>1. CASE is_immediate_string(s)
      <4>1. Len(s) = 1
        BY <3>1 DEF is_immediate_string
      <4> QED
        BY <2>6, <2>8, <2>9, <4>1
    <3>2. CASE ~ is_immediate_string(s)
      <4>1. h = Prefix(128, Len(s))
        BY <2>2, <3>2 DEF generate_string_header, single_prefix_string_start_pos
      <4>2. h # <<>>
        <5>1. CASE Len(s) <= 55
          <6>1. h = <<Byte(128 + Len(s))>>
            BY <4>1, <5>1 DEF Prefix, single_prefix_max_length
          <6> QED
            BY <6>1
        <5>2. CASE ~ (Len(s) <= 55)
          <6>1. PICK d, w : d = Byte(128 + single_prefix_max_length + Len(LengthBytes(Len(s))))
                            /\ w = LengthBytes(Len(s))
            OBVIOUS
          <6>2. h = <<d>> \o w
            BY <4>1, <5>2, <6>1 DEF Prefix, single_prefix_max_length
          <6>3. w \in Seq(Nat) /\ d \in Nat
            <7>1. w \in Seq(Nat)
              BY <2>8, <6>1, LengthBytesAre
            <7>2. 128 + single_prefix_max_length + Len(w) \in Nat
              BY <7>1 DEF single_prefix_max_length
            <7>3. \A z \in Nat : Byte(z) \in Nat
              BY DEF Byte
            <7>4. d = Byte(128 + single_prefix_max_length + Len(w))
              BY <6>1
            <7> QED
              BY <7>1, <7>2, <7>3, <7>4
          <6>4. Len(<<d>> \o w) = 1 + Len(w) /\ Len(w) \in Nat
            BY <6>3
          <6> QED
            BY <6>2, <6>4
        <5> QED
          BY <5>1, <5>2
      <4>3. Len(h) # 0
        BY <2>8, <4>2
      <4> QED
        BY <2>6, <2>8, <2>9, <4>3
    <3> QED
      BY <3>1, <3>2
  <2>14. a \in 1..l /\ Ending(p, a, l) = Behind(p, u)
    <3>1. a \in 1..l
      BY <1>1, <2>6, <2>10, <2>13
    <3>2. l - a + 1 = Len(u) + 1
      <4>1. u \in Seq(Nat)
        BY <2>3 DEF Begins
      <4>2. Len(u) \in Nat
        BY <4>1, LenProperties
      <4> QED
        BY <1>1, <2>2, <2>7, <4>2
    <3> QED
      BY <1>1, <3>1, <3>2 DEF Ending, Behind
  <2>15. items[a] = <<s>> \o items[b]
    <3>1. Item(Ending(p, a, l), 128) = Found(s, Behind(p, v))
      BY <2>12, <2>14
    <3>2. /\ Found(s, Behind(p, v)).ok /\ Found(s, Behind(p, v)).payload = s
          /\ Found(s, Behind(p, v)).rest = Behind(p, v)
      BY DEF Found
    <3>3. items[a] = LET first == Item(Ending(p, a, l), 128)
                     IN  IF ~first.ok THEN << <<-1>> >> ELSE <<first.payload>> \o items[Len(first.rest)]
      BY <1>2, <2>14 DEF Reads
    <3>4. PICK f : f = Found(s, Behind(p, v)) /\ f.ok /\ f.payload = s /\ f.rest = Behind(p, v)
      BY <3>2
    <3>5. items[a] = IF ~f.ok THEN << <<-1>> >> ELSE <<f.payload>> \o items[Len(f.rest)]
      BY <3>1, <3>3, <3>4
    <3> QED
      BY <2>6, <3>4, <3>5
  <2>16. Left(i)
    BY <1>5, <2>1
  <2>17. PICK w, m : /\ w = items[b] /\ m = n - i /\ m \in Nat /\ w \in Seq(Seq(Nat)) /\ Len(w) = m
                     /\ \A j \in 1..m : w[j] = ss[i + j]
    <3>1. n - i \in Nat
      BY <2>0, <2>1
    <3> HIDE DEF Encoded
    <3> QED
      BY <2>7, <2>16, <3>1
  <2>18. PICK y : y = <<s>> \o w /\ y \in Seq(Seq(Nat)) /\ Len(y) = 1 + m /\ y[1] = s
                  /\ \A j \in 1..m : y[1 + j] = w[j]
    <3>1. PICK Z : Z = Seq(Nat)
      OBVIOUS
    <3>2. <<s>> \in Seq(Z) /\ w \in Seq(Z) /\ Len(<<s>>) = 1 /\ <<s>>[1] = s
      BY <2>8, <2>17, <3>1
    <3>3. <<s>> \o w \in Seq(Z) /\ Len(<<s>> \o w) = 1 + m
      <4>1. PICK f : f = <<s>> /\ f \in Seq(Z) /\ Len(f) = 1
        BY <3>2
      <4>2. f \o w \in Seq(Z) /\ Len(f \o w) = Len(f) + Len(w)
        BY <3>2, <4>1, ConcatProperties
      <4>3. Len(w) = m
        BY <2>17
      <4> QED
        BY <4>1, <4>2, <4>3
    <3>4. (<<s>> \o w)[1] = s
      BY <2>17, <3>2
    <3>5. \A j \in 1..m : (<<s>> \o w)[1 + j] = w[j]
      <4> SUFFICES ASSUME NEW j \in 1..m PROVE (<<s>> \o w)[1 + j] = w[j]
        OBVIOUS
      <4>1. s \in Z /\ w \in Seq(Z) /\ j \in 1..Len(w)
        BY <2>8, <2>17, <3>1
      <4> QED
        BY <4>1, ConsElements
    <3> HIDE DEF Encoded
    <3> QED
      BY <3>1, <3>3, <3>4, <3>5
  <2>19. \A j \in 1..n - (i - 1) : y[j] = ss[(i - 1) + j]
    <3> SUFFICES ASSUME NEW j \in 1..n - (i - 1) PROVE y[j] = ss[(i - 1) + j]
      OBVIOUS
    <3>1. CASE j = 1
      <4>1. (i - 1) + j = i
        BY <2>1, <3>1
      <4> QED
        BY <2>2, <2>18, <3>1, <4>1
    <3>2. CASE j # 1
      <4>1. PICK d : d = j - 1 /\ d \in 1..m /\ 1 + d = j /\ i + d = (i - 1) + j
        <5>1. i \in Nat /\ m = n - i
          BY <2>0, <2>1, <2>17
        <5>2. j - 1 \in 1..m /\ 1 + (j - 1) = j /\ i + (j - 1) = (i - 1) + j
          BY <2>0, <3>2, <5>1
        <5> HIDE DEF Encoded
        <5> QED
          BY <5>2
      <4>2. y[1 + d] = w[d] /\ w[d] = ss[i + d]
        BY <2>17, <2>18, <4>1
      <4> QED
        BY <4>1, <4>2
    <3> QED
      BY <3>1, <3>2
  <2>20. items[At(i - 1)] = y /\ Len(y) = n - (i - 1)
    <3>1. Len(y) = n - (i - 1)
      <4>1. i \in Nat /\ m = n - i
        BY <2>0, <2>1, <2>17
      <4>2. 1 + m = n - (i - 1)
        BY <2>0, <4>1
      <4> QED
        BY <2>18, <4>2
    <3> QED
      BY <2>7, <2>15, <2>17, <2>18, <3>1
  <2>21. Left(i - 1)
    BY <2>18, <2>19, <2>20
  <2> HIDE DEF Left
  <2> QED
    BY <2>1, <2>21
<1>6. n \in P
  <2>1. Nat \subseteq P
    <3> HIDE DEF P
    <3> QED
      BY <1>4, <1>5, Induction
  <2> QED
    BY <2>1
<1>7. n <= n /\ n - n = 0
  OBVIOUS
<1>8. Left(0)
  <2> HIDE DEF Left
  <2> QED
    BY <1>6, <1>7
<1>9. At(0) = l
  <2>1. Len(g[0]) = 0
    OBVIOUS
  <2> QED
    BY <1>1, <2>1
<1>10. PICK w : w = Strings(p) /\ w \in Seq(Seq(Nat)) /\ Len(w) = n /\ \A j \in 1..n : w[j] = ss[j]
  <2>1. Strings(p) = items[l]
    BY <1>2 DEF Reads
  <2>2. n \in Nat
    OBVIOUS
  <2>3. n - 0 = n /\ \A j \in 1..n : 0 + j = j
    BY <2>2
  <2>4. items[l] \in Seq(Seq(Nat)) /\ Len(items[l]) = n - 0 /\ \A j \in 1..n - 0 : items[l][j] = ss[0 + j]
    BY <1>8, <1>9
  <2> HIDE DEF Encoded, At, Left
  <2> QED
    BY <2>1, <2>3, <2>4
<1>11. w = ss
  <2>1. ss \in Seq(Seq(Nat)) /\ Len(ss) = n
    OBVIOUS
  <2> HIDE DEF Encoded
  <2> QED
    BY <1>10, <2>1, SeqEqual
<1> QED
  BY <1>1, <1>10, <1>11

\* The bytes of a header of fewer than 2^64 bytes, which is what a length can count.
Fits == Len(FlattenSeq([i \in DOMAIN fields |-> encode(fields[i])])) \in Size

\* The decoder of the Yellow Paper reads back from the bytes that headerHash
\* hashes the fields, however many and however long: each in its shortest form,
\* and nothing else.
THEOREM HeaderDecodes == Spec => [](Fits => Decodes)
<1>1. FieldsTypeOK /\ Fits => Decodes
  <2> SUFFICES ASSUME FieldsTypeOK, Fits PROVE Decodes
    OBVIOUS
  <2> DEFINE D == DOMAIN fields
             S == [i \in D |-> from_hex(fields[i])]
             E == [i \in D |-> encode(fields[i])]
  <2>1. PICK n : n \in Nat /\ n = Len(fields) /\ D = 1..n /\ \A k \in 1..n : fields[k] \in Seq(0..15)
    BY DEF FieldsTypeOK
  <2>2. \A k \in 1..n : from_hex(fields[k]) \in Seq(Nat)
        /\ generate_string_header(from_hex(fields[k])) \in Seq(Nat)
    <3> SUFFICES ASSUME NEW k \in 1..n
                 PROVE  from_hex(fields[k]) \in Seq(Nat)
                        /\ generate_string_header(from_hex(fields[k])) \in Seq(Nat)
      OBVIOUS
    <3>1. PICK s : s = from_hex(fields[k]) /\ s \in Seq(Nat)
      BY <2>1, FromHexIsNaturals
    <3>2. Len(s) \in Nat /\ 128 \in Nat
      BY <3>1
    <3>3. Prefix(128, Len(s)) \in Seq(Nat) /\ <<>> \in Seq(Nat)
      BY <3>2, PrefixIsNaturals
    <3>4. generate_string_header(s) \in Seq(Nat)
      BY <3>3 DEF generate_string_header, single_prefix_string_start_pos
    <3> QED
      BY <3>1, <3>4
  <2>3. \A k \in 1..n : S[k] = from_hex(fields[k]) /\ E[k] = generate_string_header(S[k]) \o S[k]
    BY <2>1 DEF encode
  <2>4. \A k \in 1..n : IsJoined(generate_string_header(S[k]), S[k], E[k]) /\ E[k] \in Seq(Nat)
    <3> HIDE DEF S, E
    <3>1. \A k \in 1..n : IsJoined(generate_string_header(S[k]), S[k], E[k])
      BY <2>2, <2>3 DEF IsJoined
    <3> QED
      BY <3>1, JoinedParts DEF Joined
  <2>5. S \in Seq(Seq(Nat)) /\ Len(S) = n /\ E \in Seq(Seq(Nat)) /\ Len(E) = n
    <3>1. S = [i \in 1..n |-> S[i]] /\ E = [i \in 1..n |-> E[i]]
      BY <2>1
    <3>2. \A k \in 1..n : S[k] \in Seq(Nat) /\ E[k] \in Seq(Nat)
      BY <2>2, <2>3, <2>4
    <3> HIDE DEF S, E
    <3>3. S \in [1..n -> Seq(Nat)] /\ E \in [1..n -> Seq(Nat)]
      BY <3>1, <3>2
    <3>4. PICK Z : Z = Seq(Nat)
      OBVIOUS
    <3>5. S \in [1..n -> Z] /\ E \in [1..n -> Z] /\ n \in Nat
      BY <2>1, <3>3, <3>4
    <3>6. S \in Seq(Z) /\ E \in Seq(Z) /\ Len(S) = n /\ Len(E) = n
      BY <3>5
    <3> QED
      BY <3>4, <3>6
  <2>6. PICK g : Joins(E, n, g)
    <3> HIDE DEF E
    <3> QED
      BY <2>5, FlattenDef
  <2>7. \A k \in 1..n : IsJoined(g[k - 1], E[k], g[k])
    <3>1. \A k \in 1..n : k - 1 \in 0..n
      BY <2>1
    <3> HIDE DEF E
    <3> QED
      BY <2>4, <2>6, <3>1 DEF Joins, IsJoined
  <2>8. Encoded(S, n, E, g)
    <3> HIDE DEF S, E
    <3> QED
      BY <2>1, <2>4, <2>5, <2>6, <2>7 DEF Encoded, Joins
  <2>9. PICK p : p = FlattenSeq(E) /\ p = g[n] /\ p \in Seq(Nat) /\ Len(p) \in Size
    <3>1. Len(FlattenSeq(E)) \in Size
      BY DEF Fits
    <3>2. n \in 0..n
      BY <2>1
    <3> HIDE DEF E
    <3> QED
      BY <2>6, <3>1, <3>2 DEF Joins
  <2>10. Strings(p) = S
    <3> HIDE DEF S, E
    <3> QED
      BY <2>8, <2>9, StringsFound
  <2>11. PICK h, x : h = Prefix(192, Len(p)) /\ x = HeaderBytes(fields) /\ x = h \o p
    BY <2>9 DEF HeaderBytes, generate_array_header, list_start_pos
  <2>12. IsJoined(h, p, x)
    <3>1. Len(p) \in Nat /\ 192 \in Nat
      BY <2>9
    <3>2. h \in Seq(Nat)
      BY <2>11, <3>1, PrefixIsNaturals
    <3> QED
      BY <2>9, <2>11, <3>2 DEF IsJoined
  <2>13. Parts(x, h, p, <<>>)
    <3>1. Joined(h, p, x)
      BY <2>12, JoinedParts
    <3>2. Len(h) \in Nat /\ Len(p) \in Nat
      BY <3>1, LenProperties DEF Joined
    <3>3. <<>> \in Seq(Nat) /\ Len(<<>>) = 0 /\ 1..0 = {}
      OBVIOUS
    <3>4. Len(x) = Len(h) + Len(p) + 0
      BY <3>1, <3>2 DEF Joined
    <3> QED
      BY <3>1, <3>3, <3>4 DEF Joined, Parts
  <2>14. Item(x, 192) = Found(p, <<>>)
    <3>1. 192 \in {128, 192} /\ (192 = 128 => ~ (Len(p) = 1 /\ p[1] < 128))
      OBVIOUS
    <3>2. Parts(x, Prefix(192, Len(p)), p, <<>>) /\ Len(p) \in Size
      BY <2>9, <2>11, <2>13
    <3> QED
      BY <3>1, <3>2, PrefixFound
  <2> HIDE DEF S
  <2> QED
    BY <2>10, <2>11, <2>14 DEF Decodes, Found, S
<1> QED
  BY <1>1, FieldsTyped, PTL

=============================================================================
