-------------------------- MODULE SignLoopProofs --------------------------
(* Theorems about the loop that signs (SignLoop), for every size of the     *)
(* pages, every set of permissions and every bound on blocks, rows and      *)
(* troubles: what was pushed is not undone by a fork, but for rows of a     *)
(* block in the second half of a second, and a pass that no exception ends  *)
(* leaves no row out.                                                       *)
EXTENDS SignLoop, TLAPS, FiniteSetTheorems, WellFoundedInduction

Rows == [digest : Nat, born : Nat, signed : Nat, gone : Nat]
Passes == [pass : SUBSET Nat, failed : SUBSET Nat, ever : SUBSET [digest : Nat, born : Nat]]

TypeOK ==
    /\ rows \in Seq(Rows)
    /\ head \in Nat /\ irr \in Nat /\ irr <= head
    /\ active \in BOOLEAN /\ perm \in Permissions \cup {"none"}
    /\ armed \in BOOLEAN /\ checked \in BOOLEAN /\ scanning \in BOOLEAN
    /\ asked \in Permissions \cup {"none"}
    /\ lower \in Nat
    /\ sent \subseteq Nat \X Nat
    /\ pushed \in Passes
    /\ made \in 0..MaxRows /\ troubles \in 0..MaxTroubles

\* Rows are born in the order of their keys, and nothing is later than the
\* head block.
InTime ==
    /\ \A p \in DOMAIN rows : /\ rows[p].born <= head
                              /\ rows[p].signed <= head
                              /\ rows[p].gone <= head
    /\ \A p, q \in DOMAIN rows : p <= q => rows[p].born <= rows[q].born

\* What was pushed is at most one slot above the last irreversible block, which
\* only moves up; the row is there, and its block irreversible, so that every
\* fork keeps it, if the block came in the first half of a second.
Final ==
    \A r \in pushed.ever :
        /\ r.born <= irr + 1
        /\ r.born = Second(r.born) =>
             /\ r.born <= irr
             /\ \E p \in DOMAIN rows : rows[p].digest = r.digest /\ rows[p].born = r.born

\* While a pass runs, every row that is due before the next page was tried.
Tried(p, record) == rows[p].digest \in record.pass \cup record.failed
Covered == scanning => \A p \in Pool : p < lower /\ Eligible(p) => Tried(p, pushed)

----------------------------------------------------------------------------
\* A finite set of numbers that is not empty has a last element: the least of
\* the sets of the numbers above an element is empty.
LEMMA HasLast ==
    ASSUME NEW S \in SUBSET Nat, IsFiniteSet(S), S # {}
    PROVE  \E p \in S : \A q \in S : q <= p
<1> DEFINE Above(p) == {q \in S : q > p}
           T == {Above(p) : p \in S}
           R == StrictSubsetOrdering(S)
           F == FiniteSubsetsOf(S)
<1>1. IsWellFoundedOn(R, F)
  BY FS_StrictSubsetOrderingWellFounded
<1>2. T \subseteq F
  BY FS_Subset DEF FiniteSubsetsOf
<1>3. T # {}
  OBVIOUS
<1>4. \E X \in T : \A Y \in T : ~ (<<Y, X>> \in R)
  <2> HIDE DEF T, R, F
  <2> QED
    BY <1>1, <1>2, <1>3, WFMin
<1>5. PICK p \in S : \A Y \in T : ~ (<<Y, Above(p)>> \in R)
  BY <1>4
<1>6. ASSUME NEW q \in S, q > p
      PROVE  FALSE
  <2>1. \A x \in S : x \in Nat
    OBVIOUS
  <2>2. \A x \in S : x > q => x > p
    BY <1>6, <2>1
  <2>3. q \in Above(p) /\ q \notin Above(q)
    BY <1>6, <2>1
  <2>4. Above(q) \subseteq Above(p) /\ Above(q) # Above(p)
    BY <2>2, <2>3
  <2>5. Above(q) \in SUBSET S /\ Above(p) \in SUBSET S
    OBVIOUS
  <2>6. <<Above(q), Above(p)>> \in R
    BY <2>4, <2>5 DEF StrictSubsetOrdering
  <2>7. Above(q) \in T
    OBVIOUS
  <2> QED
    BY <1>5, <2>6, <2>7
<1>7. \A q \in S : q <= p
  BY <1>6
<1> QED
  BY <1>7

LEMMA LastIsLast ==
    ASSUME NEW S \in SUBSET Nat, IsFiniteSet(S), NEW n \in Nat
    PROVE  /\ LastOf(S, n) \in Nat
           /\ S = {} => LastOf(S, n) = n
           /\ S # {} => LastOf(S, n) \in S
<1>1. CASE S = {}
  BY <1>1 DEF LastOf
<1>2. CASE S # {}
  <2>1. \E p \in S : \A q \in S : q <= p
    BY <1>2, HasLast
  <2>2. LastOf(S, n) \in S
    BY <1>2, <2>1 DEF LastOf
  <2> QED
    BY <1>2, <2>2
<1> QED
  BY <1>1, <1>2

\* A set of the first numbers that has no gap is what its size says.
LEMMA FirstOnes ==
    ASSUME NEW n \in Nat, NEW S \in SUBSET (1..n),
           \A p, q \in 1..n : p <= q /\ q \in S => p \in S
    PROVE  Cardinality(S) \in 0..n /\ S = 1..Cardinality(S)
<1> DEFINE c == Cardinality(S)
<1>1. IsFiniteSet(1..n) /\ Cardinality(1..n) = n
  BY FS_Interval
<1>2. IsFiniteSet(S) /\ c <= n
  BY <1>1, FS_Subset
<1>3. c \in Nat
  BY <1>2, FS_CardinalityType
<1>4. IsFiniteSet(1..c) /\ Cardinality(1..c) = c
  BY <1>3, FS_Interval
<1>5. S \subseteq 1..c
  <2> SUFFICES ASSUME NEW q \in S PROVE q \in 1..c
    OBVIOUS
  <2>1. q \in 1..n /\ 1..q \subseteq S
    OBVIOUS
  <2>2. Cardinality(1..q) = q
    BY <2>1, FS_Interval
  <2>3. q <= c
    BY <1>2, <2>1, <2>2, FS_Subset
  <2> QED
    BY <1>3, <2>1, <2>3
<1>6. S = 1..c
  BY <1>4, <1>5, FS_Subset
<1> QED
  BY <1>2, <1>3, <1>6

LEMMA RowFields ==
    ASSUME TypeOK, NEW p \in DOMAIN rows
    PROVE  /\ p \in Nat /\ p > 0
           /\ rows[p] \in Rows
           /\ rows[p].digest \in Nat /\ rows[p].born \in Nat
           /\ rows[p].signed \in Nat /\ rows[p].gone \in Nat
<1>1. rows[p] \in Rows /\ p \in 1..Len(rows)
  BY DEF TypeOK
<1> QED
  BY <1>1 DEF Rows

LEMMA PoolIsFinite ==
    ASSUME TypeOK
    PROVE  Pool \subseteq 1..Len(rows) /\ Pool \in SUBSET Nat /\ IsFiniteSet(Pool)
<1>1. DOMAIN rows = 1..Len(rows) /\ Len(rows) \in Nat
  BY DEF TypeOK
<1>2. Pool \subseteq 1..Len(rows)
  BY <1>1 DEF Pool
<1>3. IsFiniteSet(1..Len(rows))
  BY <1>1, FS_Interval
<1>4. Pool \in SUBSET (1..Len(rows)) /\ Pool \in SUBSET Nat
  BY <1>1, <1>2
<1>5. IsFiniteSet(Pool)
  BY <1>3, <1>4, FS_Subset
<1> QED
  BY <1>2, <1>4, <1>5

\* A page has no gap: what lies between its first key and one of its rows is
\* in it.
LEMMA PageHasNoGap ==
    ASSUME TypeOK, NEW n \in Nat, NEW a \in Nat, NEW q \in RowsFrom(a, n),
           NEW p \in Pool, a <= p, p <= q
    PROVE  p \in RowsFrom(a, n)
<1> DEFINE Before(x) == {r \in Pool : a <= r /\ r < x}
<1>1. Pool \in SUBSET Nat /\ IsFiniteSet(Pool)
  BY PoolIsFinite
<1>2. q \in Pool /\ Cardinality(Before(q)) < n
  BY DEF RowsFrom
<1>3. Before(p) \subseteq Before(q)
  <2>1. \A x \in Pool : x \in Nat
    BY <1>1
  <2>2. \A x \in Pool : x < p => x < q
    BY <1>2, <2>1
  <2> QED
    BY <2>2
<1>4. IsFiniteSet(Before(q))
  BY <1>1, FS_Subset
<1>5. Cardinality(Before(p)) <= Cardinality(Before(q)) /\ IsFiniteSet(Before(p))
  BY <1>3, <1>4, FS_Subset
<1>6. Cardinality(Before(p)) \in Nat /\ Cardinality(Before(q)) \in Nat
  BY <1>4, <1>5, FS_CardinalityType
<1>7. Cardinality(Before(p)) < n
  BY <1>2, <1>5, <1>6
<1> QED
  BY <1>7 DEF RowsFrom

\* The second a slot is in begins with it or with the slot before.
LEMMA SecondIs ==
    ASSUME NEW n \in Nat
    PROVE  Second(n) \in Nat /\ Second(n) <= n /\ n <= Second(n) + 1
<1>1. n % 2 \in 0..1 /\ n % 2 <= n
  OBVIOUS
<1> QED
  BY <1>1 DEF Second

\* What fill_action and push_action do for rows of the pool.
LEMMA PushedRows ==
    ASSUME TypeOK, NEW S \in SUBSET Pool, NEW failed \in SUBSET Due(S), Push(S, failed)
    PROVE  /\ sent' \subseteq Nat \X Nat
           /\ pushed' \in Passes
           /\ \A r \in pushed'.ever \ pushed.ever :
                  \E p \in DOMAIN rows : /\ rows[p].digest = r.digest /\ rows[p].born = r.born
                                         /\ Second(rows[p].born) <= irr
           /\ pushed.pass \subseteq pushed'.pass /\ pushed.failed \subseteq pushed'.failed
           /\ \A p \in S : Eligible(p) => Tried(p, pushed')
<1> DEFINE due == Due(S) \ failed
           pairs == {<<p, rows[p].digest>> : p \in due}
           new == {[digest |-> rows[p].digest, born |-> rows[p].born] : p \in due}
<1>1. /\ sent' = sent \cup pairs
      /\ pushed' = [pass |-> pushed.pass \cup Digests(due), failed |-> pushed.failed \cup Digests(failed),
                    ever |-> pushed.ever \cup new]
  BY DEF Push, Pushed
<1>2. \A p \in Due(S) : p \in DOMAIN rows /\ Second(rows[p].born) <= irr
  BY DEF Pool, Due, Eligible
<1>3. \A p \in Due(S) : p \in Nat /\ rows[p].digest \in Nat /\ rows[p].born \in Nat
  BY <1>2, RowFields
<1>4. Digests(due) \subseteq Nat /\ Digests(failed) \subseteq Nat
  BY <1>3 DEF Digests
<1>5. pairs \subseteq Nat \X Nat /\ new \subseteq [digest : Nat, born : Nat]
  BY <1>3
<1>6. /\ pushed.pass \subseteq Nat /\ pushed.failed \subseteq Nat
      /\ pushed.ever \subseteq [digest : Nat, born : Nat] /\ sent \subseteq Nat \X Nat
  BY DEF TypeOK, Passes
<1>7. \A r \in new : \E p \in DOMAIN rows : /\ rows[p].digest = r.digest /\ rows[p].born = r.born
                                            /\ Second(rows[p].born) <= irr
  BY <1>2
<1>8. \A p \in S : Eligible(p) => rows[p].digest \in Digests(due) \cup Digests(failed)
  BY DEF Digests, Due
<1> HIDE DEF due, pairs, new
<1>9. pushed' \in Passes
  BY <1>1, <1>4, <1>5, <1>6 DEF Passes
<1> QED
  BY <1>1, <1>5, <1>6, <1>7, <1>8, <1>9 DEF Tried

\* What a fork to t leaves: the rows born by then, the first ones, without the
\* signatures and erasures that came later.
LEMMA ForkKeeps ==
    ASSUME TypeOK, InTime, NEW t \in Nat, Fork(t)
    PROVE  /\ rows' \in Seq(Rows) /\ Len(rows') <= Len(rows)
           /\ \A p \in DOMAIN rows : rows[p].born <= t <=> p \in DOMAIN rows'
           /\ \A p \in DOMAIN rows' : /\ p \in DOMAIN rows
                                      /\ rows'[p].digest = rows[p].digest
                                      /\ rows'[p].born = rows[p].born
                                      /\ rows'[p].signed <= t /\ rows'[p].gone <= t
<1> DEFINE n == Len(rows)
           S == {p \in DOMAIN rows : rows[p].born <= t}
           c == Cardinality(S)
           undo(when) == IF when > t THEN Never ELSE when
           row(p) == [digest |-> rows[p].digest, born |-> rows[p].born,
                      signed |-> undo(rows[p].signed), gone |-> undo(rows[p].gone)]
<1>1. n \in Nat /\ DOMAIN rows = 1..n
  BY DEF TypeOK
<1>2. \A p \in 1..n : rows[p] \in Rows /\ rows[p].born \in Nat
  BY <1>1, RowFields
<1>3. \A p, q \in 1..n : p <= q /\ q \in S => p \in S
  BY <1>1, <1>2 DEF InTime
<1>4. c \in 0..n /\ S = 1..c
  <2>1. S \in SUBSET (1..n)
    BY <1>1
  <2> HIDE DEF S, n
  <2> QED
    BY <1>1, <1>3, <2>1, FirstOnes
<1>5. rows' = [p \in 1..c |-> row(p)]
  BY DEF Fork
<1>6. ASSUME NEW p \in 1..c
      PROVE  /\ row(p) \in Rows
             /\ row(p).digest = rows[p].digest /\ row(p).born = rows[p].born
             /\ row(p).signed <= t /\ row(p).gone <= t
  <2>1. p \in 1..n /\ rows[p] \in Rows
    BY <1>1, <1>2, <1>4
  <2>2. \A when \in Nat : undo(when) \in Nat /\ undo(when) <= t
    BY DEF Never
  <2> HIDE DEF undo
  <2> QED
    BY <2>1, <2>2 DEF Rows
<1> HIDE DEF row, S, c
<1>7. rows' \in Seq(Rows) /\ Len(rows') = c /\ DOMAIN rows' = 1..c
  BY <1>4, <1>5, <1>6
<1>8. \A p \in 1..c : rows'[p] = row(p)
  BY <1>5
<1>9. \A p \in DOMAIN rows : rows[p].born <= t <=> p \in S
  BY DEF S
<1> QED
  BY <1>1, <1>4, <1>6, <1>7, <1>8, <1>9


----------------------------------------------------------------------------
\* Type correctness, and the order of the rows, which is what a fork relies on
\* when it takes the last ones away.
THEOREM TypeCorrect == Spec => [](TypeOK /\ InTime)
<1>1. Init => TypeOK /\ InTime
  <2> SUFFICES ASSUME Init PROVE TypeOK /\ InTime
    OBVIOUS
  <2>1. rows \in Seq(Rows) /\ DOMAIN rows = {}
    BY DEF Init
  <2>2. perm \in Permissions \cup {"none"}
    BY PermissionAssumption DEF Init
  <2>3. made \in 0..MaxRows /\ troubles \in 0..MaxTroubles
    BY LoopBounds DEF Init
  <2>4. pushed \in Passes
    BY DEF Init, Passes
  <2>5. InTime
    BY <2>1 DEF InTime
  <2>6. head = 1 /\ irr = 1 /\ lower = 0 /\ asked = "none" /\ sent = {}
    BY DEF Init
  <2>7. active \in BOOLEAN /\ armed \in BOOLEAN /\ checked \in BOOLEAN /\ scanning \in BOOLEAN
    BY Zenon DEF Init
  <2> QED
    BY <2>1, <2>2, <2>3, <2>4, <2>5, <2>6, <2>7 DEF TypeOK
<1>2. TypeOK /\ InTime /\ [Next]_vars => TypeOK' /\ InTime'
  <2> SUFFICES ASSUME TypeOK, InTime, [Next]_vars
               PROVE  TypeOK' /\ InTime'
    OBVIOUS
  <2>1. CASE Tick
    <3>1. pushed' \in Passes
      BY <2>1 DEF Tick, TypeOK, Passes
    <3>2. TypeOK'
      BY <2>1, <3>1 DEF Tick, TypeOK, chain, bounds
    <3> QED
      BY <2>1, <3>2 DEF Tick, InTime, chain
  <2>2. CASE Page
    <3>0. PICK n \in 1..Limit : \E failed \in SUBSET Due(RowsFrom(lower, n)) :
              /\ failed # {} => troubles < MaxTroubles
              /\ troubles' = IF failed = {} THEN troubles ELSE troubles + 1
              /\ Push(RowsFrom(lower, n), failed)
              /\ lower' = LastOf(RowsFrom(lower, n), lower)
              /\ scanning' \in BOOLEAN
      BY <2>2 DEF Page
    <3>1. PICK failed \in SUBSET Due(RowsFrom(lower, n)) :
              /\ failed # {} => troubles < MaxTroubles
              /\ troubles' = IF failed = {} THEN troubles ELSE troubles + 1
              /\ Push(RowsFrom(lower, n), failed)
              /\ lower' = LastOf(RowsFrom(lower, n), lower)
              /\ scanning' \in BOOLEAN
      BY <3>0
    <3>2. RowsFrom(lower, n) \in SUBSET Pool
      BY DEF RowsFrom
    <3>3. sent' \subseteq Nat \X Nat /\ pushed' \in Passes
      BY <3>1, <3>2, PushedRows
    <3>4. RowsFrom(lower, n) \in SUBSET Nat /\ IsFiniteSet(RowsFrom(lower, n))
      BY <3>2, PoolIsFinite, FS_Subset
    <3>5. lower' \in Nat
      BY <3>1, <3>4, LastIsLast DEF TypeOK
    <3>6. troubles' \in 0..MaxTroubles
      BY <3>1, LoopBounds DEF TypeOK
    <3>7. UNCHANGED <<chain, armed, checked, asked, made>>
      BY <2>2 DEF Page
    <3> QED
      BY <3>1, <3>3, <3>5, <3>6, <3>7 DEF TypeOK, InTime, chain
  <2>3. CASE PageThrows
    <3>0. PICK n \in 0..Limit : \E failed \in SUBSET Due(RowsFrom(lower, n)) : Push(RowsFrom(lower, n), failed)
      BY <2>3 DEF PageThrows
    <3>1. PICK failed \in SUBSET Due(RowsFrom(lower, n)) : Push(RowsFrom(lower, n), failed)
      BY <3>0
    <3>2. RowsFrom(lower, n) \in SUBSET Pool
      BY DEF RowsFrom
    <3>3. sent' \subseteq Nat \X Nat /\ pushed' \in Passes
      BY <3>1, <3>2, PushedRows
    <3>4. troubles' \in 0..MaxTroubles
      BY <2>3, LoopBounds DEF PageThrows, TypeOK
    <3> QED
      BY <2>3, <3>3, <3>4 DEF PageThrows, TypeOK, InTime, chain
  <2>4. ASSUME NEW x \in sent, Apply(x)
        PROVE  TypeOK' /\ InTime'
    <3>1. rows' = rows \/ \E p \in DOMAIN rows : rows' = [rows EXCEPT ![p].signed = head]
      BY <2>4 DEF Apply
    <3>2. ASSUME NEW p \in DOMAIN rows, rows' = [rows EXCEPT ![p].signed = head]
          PROVE  rows' \in Seq(Rows) /\ InTime'
      <4>1. rows[p] \in Rows /\ head \in Nat
        BY RowFields DEF TypeOK
      <4>2. [rows[p] EXCEPT !.signed = head] \in Rows
        BY <4>1 DEF Rows
      <4>3. rows' = [rows EXCEPT ![p] = [rows[p] EXCEPT !.signed = head]]
        BY <3>2
      <4>4. rows' \in Seq(Rows)
        BY <4>2, <4>3 DEF TypeOK
      <4>5. DOMAIN rows' = DOMAIN rows /\ head' = head
        BY <2>4, <3>2 DEF Apply
      <4>6. \A q \in DOMAIN rows : /\ rows'[q].born = rows[q].born
                                   /\ rows'[q].gone = rows[q].gone
                                   /\ rows'[q].signed \in {rows[q].signed, head}
        <5> SUFFICES ASSUME NEW q \in DOMAIN rows
                     PROVE  /\ rows'[q].born = rows[q].born
                            /\ rows'[q].gone = rows[q].gone
                            /\ rows'[q].signed \in {rows[q].signed, head}
          OBVIOUS
        <5>1. CASE q = p
          BY <4>1, <4>3, <5>1 DEF Rows
        <5>2. CASE q # p
          BY <4>3, <5>2
        <5> QED
          BY <5>1, <5>2
      <4> QED
        BY <4>1, <4>4, <4>5, <4>6 DEF InTime
    <3>3. rows' \in Seq(Rows) /\ InTime'
      BY <2>4, <3>1, <3>2 DEF Apply, TypeOK, InTime
    <3> QED
      BY <2>4, <3>3 DEF Apply, TypeOK, loop, bounds
  <2>5. ASSUME NEW x \in sent, Lose(x)
        PROVE  TypeOK' /\ InTime'
    <3>1. troubles' \in 0..MaxTroubles
      BY <2>5, LoopBounds DEF Lose, TypeOK
    <3> QED
      BY <2>5, <3>1 DEF Lose, TypeOK, InTime, chain, loop
  <2>6. CASE AddRow
    <3> DEFINE r == [digest |-> made, born |-> head, signed |-> Never, gone |-> Never]
    <3>1. r \in Rows /\ r.born = head /\ r.signed = 0 /\ r.gone = 0
      BY DEF Rows, TypeOK, Never
    <3>2. rows' = Append(rows, r) /\ head' = head
      BY <2>6 DEF AddRow
    <3> HIDE DEF r
    <3>3. /\ rows' \in Seq(Rows) /\ Len(rows') = Len(rows) + 1
          /\ \A p \in 1..Len(rows) : rows'[p] = rows[p]
          /\ rows'[Len(rows) + 1] = r
      BY <3>1, <3>2 DEF TypeOK
    <3>4. made' \in 0..MaxRows
      BY <2>6, LoopBounds DEF AddRow, TypeOK
    <3>5. TypeOK'
      BY <2>6, <3>3, <3>4 DEF AddRow, TypeOK, loop
    <3>6. DOMAIN rows = 1..Len(rows) /\ DOMAIN rows' = 1..(Len(rows) + 1) /\ Len(rows) \in Nat
      BY <3>3 DEF TypeOK
    <3>7. head \in Nat /\ \A p \in DOMAIN rows : rows[p].born \in Nat
      BY RowFields DEF TypeOK
    <3>8. InTime'
      <4>1. \A p \in DOMAIN rows' : \/ p \in DOMAIN rows /\ rows'[p] = rows[p]
                                    \/ p = Len(rows) + 1 /\ rows'[p] = r
        <5>1. \A n \in Nat : \A p \in 1..(n + 1) : p \in 1..n \/ p = n + 1
          OBVIOUS
        <5>2. \A p \in DOMAIN rows' : p \in DOMAIN rows \/ p = Len(rows) + 1
          BY <3>6, <5>1
        <5> QED
          BY <3>3, <3>6, <5>2
      <4>2. \A p \in DOMAIN rows' : /\ rows'[p].born <= head
                                    /\ rows'[p].signed <= head
                                    /\ rows'[p].gone <= head
        BY <3>1, <3>7, <4>1 DEF InTime
      <4>3. ASSUME NEW p \in DOMAIN rows', NEW q \in DOMAIN rows', p <= q
            PROVE  rows'[p].born <= rows'[q].born
        <5>1. CASE q = Len(rows) + 1
          BY <3>1, <3>3, <4>2, <5>1
        <5>2. CASE q # Len(rows) + 1
          <6>1. p \in DOMAIN rows /\ q \in DOMAIN rows
            BY <3>6, <4>3, <5>2
          <6> QED
            BY <3>3, <3>6, <4>3, <6>1 DEF InTime
        <5> QED
          BY <5>1, <5>2
      <4> QED
        BY <3>2, <4>2, <4>3 DEF InTime
    <3> QED
      BY <3>5, <3>8
  <2>7. CASE NewBlock
    <3>1. head' \in Nat /\ head <= head' /\ irr <= head' /\ rows' = rows
      BY <2>7 DEF NewBlock, TypeOK
    <3>2. \A p \in DOMAIN rows : /\ rows[p].born \in Nat /\ rows[p].signed \in Nat
                                 /\ rows[p].gone \in Nat
      BY RowFields
    <3>3. InTime'
      BY <3>1, <3>2 DEF InTime, TypeOK
    <3> QED
      BY <2>7, <3>1, <3>3 DEF NewBlock, TypeOK, loop, bounds
  <2>8. CASE AdvanceLib
    <3>1. irr' \in Nat /\ irr' <= head /\ head' = head
      BY <2>8 DEF AdvanceLib, TypeOK
    <3> QED
      BY <2>8, <3>1 DEF AdvanceLib, TypeOK, InTime, loop, bounds
  <2>9. CASE Reschedule
    <3>1. troubles' \in 0..MaxTroubles
      BY <2>9, LoopBounds DEF Reschedule, TypeOK
    <3> QED
      BY <2>9, <3>1 DEF Reschedule, TypeOK, InTime, loop
  <2>10. CASE ChangePermission
    <3>1. troubles' \in 0..MaxTroubles
      BY <2>10, LoopBounds DEF ChangePermission, TypeOK
    <3> QED
      BY <2>10, <3>1 DEF ChangePermission, TypeOK, InTime, loop
  <2>11. ASSUME NEW p \in DOMAIN rows, EraseRow(p)
         PROVE  TypeOK' /\ InTime'
    <3>1. rows[p] \in Rows /\ head \in Nat
      BY RowFields DEF TypeOK
    <3>2. [rows[p] EXCEPT !.gone = head] \in Rows
      BY <3>1 DEF Rows
    <3>3. rows' = [rows EXCEPT ![p] = [rows[p] EXCEPT !.gone = head]]
      BY <2>11 DEF EraseRow
    <3>4. rows' \in Seq(Rows)
      BY <3>2, <3>3 DEF TypeOK
    <3>5. DOMAIN rows' = DOMAIN rows /\ head' = head
      BY <2>11, <3>3 DEF EraseRow
    <3>6. \A q \in DOMAIN rows : /\ rows'[q].born = rows[q].born
                                 /\ rows'[q].signed = rows[q].signed
                                 /\ rows'[q].gone \in {rows[q].gone, head}
      <4> SUFFICES ASSUME NEW q \in DOMAIN rows
                   PROVE  /\ rows'[q].born = rows[q].born
                          /\ rows'[q].signed = rows[q].signed
                          /\ rows'[q].gone \in {rows[q].gone, head}
        OBVIOUS
      <4>1. CASE q = p
        BY <3>1, <3>3, <4>1 DEF Rows
      <4>2. CASE q # p
        BY <3>3, <4>2
      <4> QED
        BY <4>1, <4>2
    <3>7. InTime'
      BY <3>1, <3>5, <3>6 DEF InTime
    <3> QED
      BY <2>11, <3>4, <3>7 DEF EraseRow, TypeOK, loop, bounds
  <2>12. ASSUME NEW t \in 1..MaxTime, Fork(t)
         PROVE  TypeOK' /\ InTime'
    <3>1. t \in Nat /\ irr <= t /\ head' = t /\ troubles' \in 0..MaxTroubles
      BY <2>12, TimeAssumption, LoopBounds DEF Fork, TypeOK
    <3>2. /\ rows' \in Seq(Rows)
          /\ \A p \in DOMAIN rows : rows[p].born <= t <=> p \in DOMAIN rows'
          /\ \A p \in DOMAIN rows' : /\ p \in DOMAIN rows
                                     /\ rows'[p].born = rows[p].born
                                     /\ rows'[p].signed <= t /\ rows'[p].gone <= t
      BY <2>12, <3>1, ForkKeeps
    <3>3. InTime'
      BY <3>1, <3>2 DEF InTime
    <3> QED
      BY <2>12, <3>1, <3>2, <3>3 DEF Fork, TypeOK, loop
  <2>13. CASE UNCHANGED vars
    BY <2>13 DEF vars, chain, loop, bounds, TypeOK, InTime
  <2> QED
    BY <2>1, <2>2, <2>3, <2>4, <2>5, <2>6, <2>7, <2>8, <2>9, <2>10, <2>11, <2>12, <2>13
    DEF Next
<1> QED
  BY <1>1, <1>2, PTL DEF Spec

\* What is at most one block ahead of the irreversible one stays so when the
\* irreversible block advances.
LEMMA StaysBelow ==
    \A i, j \in Nat : i < j => \A b \in Nat : /\ b <= i => b <= j
                                              /\ b <= i + 1 => b <= j + 1
OBVIOUS

\* What was pushed stays pushable, or was one slot too early: the second of its
\* row begins at or before the last irreversible block, below which no fork
\* reaches, and the block of the row comes one slot later at most.
THEOREM PushedIsIrreversible == Spec => []Final
<1>1. Init => Final
  BY DEF Init, Final
<1>2. TypeOK /\ InTime /\ Final /\ [Next]_vars => Final'
  <2> SUFFICES ASSUME TypeOK, InTime, Final, [Next]_vars
               PROVE  Final'
    OBVIOUS
  <2>1. ASSUME NEW S \in SUBSET Pool, NEW failed \in SUBSET Due(S), Push(S, failed), UNCHANGED chain
        PROVE  Final'
    <3>1. ASSUME NEW r \in pushed'.ever, r \notin pushed.ever
          PROVE  /\ r.born <= irr + 1
                 /\ r.born = Second(r.born) =>
                      /\ r.born <= irr
                      /\ \E p \in DOMAIN rows : rows[p].digest = r.digest /\ rows[p].born = r.born
      <4>1. PICK p \in DOMAIN rows : /\ rows[p].digest = r.digest /\ rows[p].born = r.born
                                    /\ Second(rows[p].born) <= irr
        BY <2>1, <3>1, PushedRows
      <4>2. rows[p].born \in Nat /\ irr \in Nat
        BY RowFields DEF TypeOK
      <4>3. Second(rows[p].born) \in Nat /\ rows[p].born <= Second(rows[p].born) + 1
        BY <4>2, SecondIs
      <4>4. r.born <= irr + 1
        BY <4>1, <4>2, <4>3
      <4> QED
        BY <4>1, <4>4
    <3> QED
      BY <2>1, <3>1 DEF Final, chain
  <2>2. CASE Page \/ PageThrows
    <3>1. \A n : RowsFrom(lower, n) \in SUBSET Pool
      BY DEF RowsFrom
    <3>2. PICK n : \E failed \in SUBSET Due(RowsFrom(lower, n)) : Push(RowsFrom(lower, n), failed)
      BY <2>2 DEF Page, PageThrows
    <3>3. PICK failed \in SUBSET Due(RowsFrom(lower, n)) : Push(RowsFrom(lower, n), failed)
      BY <3>2
    <3>4. UNCHANGED chain
      BY <2>2 DEF Page, PageThrows
    <3> QED
      BY <2>1, <3>1, <3>3, <3>4
  <2>3. CASE Tick
    <3>1. pushed'.ever = pushed.ever /\ UNCHANGED chain
      BY <2>3 DEF Tick, TypeOK, Passes
    <3> QED
      BY <3>1 DEF Final, chain
  <2>4. ASSUME NEW x \in sent, Apply(x) \/ Lose(x)
        PROVE  Final'
    <3>1. DOMAIN rows' = DOMAIN rows /\ irr' = irr /\ pushed' = pushed
      BY <2>4 DEF Apply, Lose, chain
    <3>2. \A p \in DOMAIN rows : rows'[p].digest = rows[p].digest /\ rows'[p].born = rows[p].born
      <4> SUFFICES ASSUME NEW p \in DOMAIN rows
                   PROVE  rows'[p].digest = rows[p].digest /\ rows'[p].born = rows[p].born
        OBVIOUS
      <4>1. rows[p] \in Rows
        BY RowFields
      <4> QED
        BY <2>4, <4>1 DEF Apply, Lose, chain, Rows
    <3> QED
      BY <3>1, <3>2 DEF Final
  <2>5. CASE AddRow
    <3> DEFINE r == [digest |-> made, born |-> head, signed |-> Never, gone |-> Never]
    <3>1. rows' = Append(rows, r) /\ irr' = irr /\ pushed' = pushed
      BY <2>5 DEF AddRow
    <3> HIDE DEF r
    <3>2. \A p \in DOMAIN rows : p \in DOMAIN rows' /\ rows'[p] = rows[p]
      BY <3>1 DEF TypeOK
    <3> QED
      BY <3>1, <3>2 DEF Final
  <2>6. CASE NewBlock \/ Reschedule \/ ChangePermission \/ UNCHANGED vars
    BY <2>6 DEF NewBlock, Reschedule, ChangePermission, vars, chain, Final
  <2>7. CASE AdvanceLib
    <3>1. irr' \in Nat /\ irr < irr' /\ rows' = rows /\ pushed' = pushed
      BY <2>7 DEF AdvanceLib, TypeOK
    <3>2. \A b \in Nat : (b <= irr => b <= irr') /\ (b <= irr + 1 => b <= irr' + 1)
      <4>1. irr \in Nat
        BY DEF TypeOK
      <4> QED
        BY ONLY <4>1, <3>1, StaysBelow
    <3>3. \A r \in pushed.ever : r.born \in Nat
      BY DEF TypeOK, Passes
    <3> QED
      BY <3>1, <3>2, <3>3 DEF Final
  <2>8. ASSUME NEW p \in DOMAIN rows, EraseRow(p)
        PROVE  Final'
    <3>1. DOMAIN rows' = DOMAIN rows /\ irr' = irr /\ pushed' = pushed
      BY <2>8 DEF EraseRow
    <3>2. \A q \in DOMAIN rows : rows'[q].digest = rows[q].digest /\ rows'[q].born = rows[q].born
      <4> SUFFICES ASSUME NEW q \in DOMAIN rows
                   PROVE  rows'[q].digest = rows[q].digest /\ rows'[q].born = rows[q].born
        OBVIOUS
      <4>1. rows[q] \in Rows
        BY RowFields
      <4> QED
        BY <2>8, <4>1 DEF EraseRow, Rows
    <3> QED
      BY <3>1, <3>2 DEF Final
  <2>9. ASSUME NEW t \in 1..MaxTime, Fork(t)
        PROVE  Final'
    <3>1. t \in Nat /\ irr <= t /\ irr' = irr /\ pushed' = pushed /\ irr \in Nat
      BY <2>9, TimeAssumption DEF Fork, TypeOK
    <3>2. /\ \A p \in DOMAIN rows : rows[p].born <= t <=> p \in DOMAIN rows'
          /\ \A p \in DOMAIN rows' : /\ rows'[p].digest = rows[p].digest
                                     /\ rows'[p].born = rows[p].born
      BY <2>9, <3>1, ForkKeeps
    <3>3. \A p \in DOMAIN rows : rows[p].born <= irr => rows[p].born <= t
      BY <3>1, RowFields
    <3>4. ASSUME NEW r \in pushed.ever, r.born <= irr,
                 NEW p \in DOMAIN rows, rows[p].digest = r.digest, rows[p].born = r.born
          PROVE  p \in DOMAIN rows' /\ rows'[p].digest = r.digest /\ rows'[p].born = r.born
      BY <3>2, <3>3, <3>4
    <3> QED
      BY <3>1, <3>4 DEF Final
  <2> QED
    BY <2>2, <2>3, <2>4, <2>5, <2>6, <2>7, <2>8, <2>9 DEF Next
<1> QED
  BY <1>1, <1>2, TypeCorrect, PTL DEF Spec

\* A signature is never given away for an event that a fork can undo, unless
\* the event came in the second half of a second.
THEOREM SignaturesAreFinal == Spec => []SignedIsFinal
<1>1. Final => SignedIsFinal
  BY DEF Final, SignedIsFinal, Digests
<1> QED
  BY <1>1, PushedIsIrreversible, PTL

----------------------------------------------------------------------------
\* While a pass runs the loop holds the main thread: the chain stands still,
\* and every step but a page or an exception waits.
LEMMA OnlyPages ==
    ASSUME [Next]_vars, scanning
    PROVE  Page \/ PageThrows \/ UNCHANGED vars
BY DEF Next, Tick, Apply, Lose, AddRow, EraseRow, NewBlock, AdvanceLib, Fork, Reschedule,
  ChangePermission

\* Of the rows that are due, those below the next page's first were tried, and
\* all of them when there is no next page.
LEMMA PageCovers ==
    ASSUME TypeOK, Covered, Page, NEW p \in Pool, Eligible(p),
           p < lower' \/ ~scanning'
    PROVE  Tried(p, pushed')
<1>0. PICK n \in 1..Limit :
         LET page == RowsFrom(lower, n)
         IN  /\ \E failed \in SUBSET Due(page) : Push(page, failed)
             /\ lower' = LastOf(page, lower)
             /\ scanning' = \E q \in Pool : q >= lower /\ q \notin page
  BY DEF Page
<1>1. PICK failed \in SUBSET Due(RowsFrom(lower, n)) :
         LET page == RowsFrom(lower, n)
         IN  /\ Push(page, failed)
             /\ lower' = LastOf(page, lower)
             /\ scanning' = \E q \in Pool : q >= lower /\ q \notin page
  BY <1>0
<1> DEFINE page == RowsFrom(lower, n)
<1>2. page \in SUBSET Pool
  BY DEF RowsFrom
<1>3. /\ pushed.pass \subseteq pushed'.pass /\ pushed.failed \subseteq pushed'.failed
      /\ \A q \in page : Eligible(q) => Tried(q, pushed')
  BY <1>1, <1>2, PushedRows
<1>4. Pool \in SUBSET Nat /\ p \in Nat /\ lower \in Nat /\ n \in Nat
  BY PoolIsFinite, PageAssumption DEF TypeOK
<1>5. CASE p < lower
  BY <1>3, <1>5 DEF Covered, Page, Tried
<1>6. CASE p >= lower /\ ~scanning'
  BY <1>1, <1>3, <1>6
<1>7. CASE p >= lower /\ p < lower'
  <2>1. page \in SUBSET Nat /\ IsFiniteSet(page)
    BY <1>2, PoolIsFinite, FS_Subset
  <2>2. page = {} => lower' = lower
    BY <1>1, <1>4, <2>1, LastIsLast
  <2>3. page # {}
    BY <1>4, <1>7, <2>2
  <2>4. lower' \in page /\ lower' \in Nat
    BY <1>1, <1>4, <2>1, <2>3, LastIsLast
  <2>5. p <= lower' /\ lower <= p
    BY <1>4, <1>7, <2>4
  <2>6. p \in page
    BY <1>4, <2>4, <2>5, PageHasNoGap
  <2> QED
    BY <1>3, <2>6
<1> QED
  BY <1>4, <1>5, <1>6, <1>7

\* The pages of a pass leave no gap between them.
THEOREM NoGapBetweenPages == Spec => []Covered
<1>1. Init => Covered
  BY DEF Init, Covered
<1>2. TypeOK /\ Covered /\ [Next]_vars => Covered'
  <2> SUFFICES ASSUME TypeOK, Covered, [Next]_vars, scanning',
                      NEW p \in Pool', p < lower', Eligible(p)'
               PROVE  Tried(p, pushed)'
    BY DEF Covered
  <2>1. CASE scanning
    <3>1. UNCHANGED chain
      BY <2>1, OnlyPages DEF Page, PageThrows, vars
    <3>2. p \in Pool /\ Eligible(p)
      BY <3>1 DEF chain, Pool, InPool, Eligible
    <3>3. Page \/ UNCHANGED vars
      BY <2>1, OnlyPages DEF PageThrows
    <3> QED
      BY <2>1, <3>1, <3>2, <3>3, PageCovers DEF chain, vars, loop, Covered, Tried
  <2>2. CASE ~scanning
    <3>1. Tick
      BY <2>2 DEF Next, Page, PageThrows, Apply, Lose, AddRow, EraseRow, NewBlock,
        AdvanceLib, Fork, Reschedule, ChangePermission, loop, vars
    <3>2. lower' = 0 /\ rows' = rows
      BY <3>1 DEF Tick, chain
    <3>3. p \in Nat
      BY <3>2, PoolIsFinite DEF Pool, InPool
    <3> QED
      BY <3>2, <3>3
  <2> QED
    BY <2>1, <2>2
<1> QED
  BY <1>1, <1>2, TypeCorrect, PTL DEF Spec

\* A pass that no exception ends has pushed every row that was due when it ended,
\* but those that fill_action dropped, whatever number of rows its pages had.
THEOREM PassLeavesNoneOut == Spec => PassCovers
<1>1. TypeOK /\ Covered /\ [Next]_vars
        => [Page /\ ~scanning' =>
              \A p \in Due(Pool) : rows[p].digest \in pushed'.pass \cup pushed'.failed]_vars
  <2> SUFFICES ASSUME TypeOK, Covered, Page, ~scanning', NEW p \in Due(Pool)
               PROVE  Tried(p, pushed')
    BY DEF Tried
  <2>1. p \in Pool /\ Eligible(p)
    BY DEF Due
  <2> QED
    BY <2>1, PageCovers
<1> QED
  BY <1>1, TypeCorrect, NoGapBetweenPages, PTL DEF Spec, PassCovers
=============================================================================
