-------------------------- MODULE MultiIndexProofs --------------------------
(* Theorems about the database a contract sees (MultiIndex), for any        *)
(* accounts, tables, keys, indexes and slots.  MaxPid is the key a search   *)
(* answers with when it finds nothing: the theorems about what is there say *)
(* so where they need that no row has it.  An iterator that strayed (see    *)
(* StaysInTable) writes to another table than its own; what rests on its    *)
(* table is proved as long as none has.                                     *)
EXTENDS MultiIndex, TLAPS, FiniteSetTheorems, WellFoundedInduction

Dbs ==
    [rows  : [Tables -> [Pids -> Vals \cup {None}]],
     sec   : [Tables -> [Idx -> [Pids -> Keys \cup {None}]]],
     cache : Seq(Objects \cup {None}),
     ends  : Seq(Tables)]

\* An action that an error undoes goes back to the database it began with,
\* whose cache is empty; between actions there is no iterator.
TypeOK ==
    /\ db \in Dbs
    /\ catches \in BOOLEAN /\ strayed \in BOOLEAN /\ running \in BOOLEAN
    /\ itrs \in [Slots -> Iterators \cup {None}]
    /\ running /\ ~catches => saved \in Dbs /\ saved.cache = <<>>
    /\ ~running => db.cache = <<>> /\ \A s \in Slots : itrs[s] = None

\* The row or the entry an object of the cache is on; the action has used the
\* table of the row.
Backed(d, o) ==
    IF o.idx = Primary THEN d.rows[o.tab][o.pid] # None /\ \E k \in DOMAIN d.ends : d.ends[k] = o.tab
    ELSE d.sec[o.tab][o.idx][o.pid] # None

\* What the cache holds is there, at one place.
Cached(d) ==
    \A k \in 1..Len(d.cache) : d.cache[k] # None =>
        /\ Backed(d, d.cache[k])
        /\ \A l \in 1..Len(d.cache) : d.cache[l] = d.cache[k] => l = k

\* The place of an iterator is that of the row it was loaded with, until the
\* row is removed; a place on an index is one of its index.
Placed(d, it, astray) ==
    /\ it.itr # 0 /\ it.idxItr # 0
    /\ it.itr > 0 =>
         /\ it.itr <= Len(d.cache)
         /\ d.cache[it.itr] # None => LET o == d.cache[it.itr]
                                      IN  o.idx = Primary /\ o.pid = it.pid /\ (astray \/ o.tab = it.tab)
    /\ it.idxItr # -1 => it.idx \in Idx
    /\ it.idxItr > 0 =>
         /\ it.idxItr <= Len(d.cache)
         /\ d.cache[it.idxItr] # None => LET o == d.cache[it.idxItr] IN o.idx = it.idx /\ o.tab = it.tab

InPlace ==
    /\ Cached(db)
    /\ \A s \in Slots : itrs[s] # None => Placed(db, itrs[s], strayed)

\* IndexMatchesRows of one database.
Matches(d) ==
    \A t \in Tables, i \in Idx, p \in Pids :
        d.sec[t][i][p] = IF d.rows[t][p] = None THEN None ELSE d.rows[t][p][i]

\* The database matches, and the one an error goes back to.
Synced == ~catches /\ ~strayed => Matches(db) /\ (running => Matches(saved))

----------------------------------------------------------------------------
(* The first and the last of the rows and of the entries.                   *)

\* A finite set that a relation orders has a first element.
LEMMA HasFirst ==
    ASSUME NEW S, IsFiniteSet(S), S # {}, NEW R,
           \A p \in S : <<p, p>> \notin R,
           \A p, q, r \in S : <<p, q>> \in R /\ <<q, r>> \in R => <<p, r>> \in R,
           \A p, q \in S : p # q => <<p, q>> \in R \/ <<q, p>> \in R
    PROVE  \E p \in S : \A q \in S \ {p} : <<p, q>> \in R
<1> DEFINE Under(p) == {q \in S : <<q, p>> \in R}
           T == {Under(p) : p \in S}
           O == StrictSubsetOrdering(S)
           F == FiniteSubsetsOf(S)
<1>1. IsWellFoundedOn(O, F)
  BY FS_StrictSubsetOrderingWellFounded
<1>2. T \subseteq F
  BY FS_Subset DEF FiniteSubsetsOf
<1>3. T # {}
  <2>1. PICK p \in S : TRUE
    OBVIOUS
  <2>2. Under(p) \in T
    OBVIOUS
  <2> QED
    BY <2>2
<1>4. \E X \in T : \A Y \in T : ~ (<<Y, X>> \in O)
  <2> HIDE DEF T, O, F
  <2> QED
    BY <1>1, <1>2, <1>3, WFMin
<1>5. PICK p \in S : \A Y \in T : ~ (<<Y, Under(p)>> \in O)
  BY <1>4
<1>6. ASSUME NEW q \in S, <<q, p>> \in R
      PROVE  FALSE
  <2>1. \A x \in S : <<x, q>> \in R => <<x, p>> \in R
    BY <1>6
  <2>2. q \in Under(p) /\ q \notin Under(q)
    BY <1>6
  <2>3. Under(q) \subseteq Under(p) /\ Under(q) # Under(p)
    BY <2>1, <2>2
  <2>4. Under(q) \in SUBSET S /\ Under(p) \in SUBSET S
    OBVIOUS
  <2>5. <<Under(q), Under(p)>> \in O
    BY <2>3, <2>4 DEF StrictSubsetOrdering
  <2>6. Under(q) \in T
    OBVIOUS
  <2> QED
    BY <1>5, <2>5, <2>6
<1>7. \A q \in S \ {p} : <<p, q>> \in R
  BY <1>6
<1> QED
  BY <1>7

LEMMA PidsAre == IsFiniteSet(Pids) /\ MaxPid \in Nat /\ \A p \in Pids : p \in Nat /\ p <= MaxPid
<1>1. MaxPid \in Nat /\ Pids \subseteq 0..MaxPid
  BY PidsAssumption
<1>2. IsFiniteSet(0..MaxPid)
  BY <1>1, FS_Interval
<1>3. IsFiniteSet(Pids)
  BY <1>1, <1>2, FS_Subset
<1> QED
  BY <1>1, <1>3

LEMMA LeastIs ==
    ASSUME NEW S \in SUBSET Pids, S # {}
    PROVE  Least(S) \in S /\ \A q \in S : Least(S) <= q
<1> DEFINE R == {x \in S \X S : x[1] < x[2]}
<1>1. IsFiniteSet(S) /\ \A p \in S : p \in Nat
  BY PidsAre, FS_Subset
<1>2. \A p, q \in S : <<p, q>> \in R <=> p < q
  OBVIOUS
<1> HIDE DEF R
<1>3. /\ \A p \in S : <<p, p>> \notin R
      /\ \A p, q, r \in S : <<p, q>> \in R /\ <<q, r>> \in R => <<p, r>> \in R
      /\ \A p, q \in S : p # q => <<p, q>> \in R \/ <<q, p>> \in R
  BY <1>1, <1>2
<1>4. PICK p \in S : \A q \in S \ {p} : <<p, q>> \in R
  BY <1>1, <1>3, HasFirst
<1>5. \A q \in S : p <= q
  <2> SUFFICES ASSUME NEW q \in S, q # p PROVE p <= q
    BY <1>1
  <2>1. p < q
    BY <1>2, <1>4
  <2> QED
    BY <1>1, <2>1
<1> QED
  BY <1>5 DEF Least

LEMMA GreatestIs ==
    ASSUME NEW S \in SUBSET Pids, S # {}
    PROVE  Greatest(S) \in S /\ \A q \in S : Greatest(S) >= q
<1> DEFINE R == {x \in S \X S : x[2] < x[1]}
<1>1. IsFiniteSet(S) /\ \A p \in S : p \in Nat
  BY PidsAre, FS_Subset
<1>2. \A p, q \in S : <<p, q>> \in R <=> q < p
  OBVIOUS
<1> HIDE DEF R
<1>3. /\ \A p \in S : <<p, p>> \notin R
      /\ \A p, q, r \in S : <<p, q>> \in R /\ <<q, r>> \in R => <<p, r>> \in R
      /\ \A p, q \in S : p # q => <<p, q>> \in R \/ <<q, p>> \in R
  BY <1>1, <1>2
<1>4. PICK p \in S : \A q \in S \ {p} : <<p, q>> \in R
  BY <1>1, <1>3, HasFirst
<1>5. \A q \in S : p >= q
  <2> SUFFICES ASSUME NEW q \in S, q # p PROVE p >= q
    BY <1>1
  <2>1. q < p
    BY <1>2, <1>4
  <2> QED
    BY <1>1, <2>1
<1> QED
  BY <1>5 DEF Greatest

\* The parts of a database.
LEMMA DbParts ==
    ASSUME NEW d \in Dbs
    PROVE  /\ d.rows \in [Tables -> [Pids -> Vals \cup {None}]]
           /\ d.sec \in [Tables -> [Idx -> [Pids -> Keys \cup {None}]]]
           /\ d.cache \in Seq(Objects \cup {None}) /\ d.ends \in Seq(Tables)
BY DEF Dbs

\* An index orders the entries.
LEMMA BelowOrders ==
    ASSUME NEW d \in Dbs, NEW t \in Tables, NEW i \in Idx
    PROVE  /\ \A p \in EntriesOf(d, t, i) : ~ Below(d, t, i, p, p)
           /\ \A p, q, r \in EntriesOf(d, t, i) :
                Below(d, t, i, p, q) /\ Below(d, t, i, q, r) => Below(d, t, i, p, r)
           /\ \A p, q \in EntriesOf(d, t, i) :
                p # q => Below(d, t, i, p, q) \/ Below(d, t, i, q, p)
<1> DEFINE E == EntriesOf(d, t, i)
           k == d.sec[t][i]
<1>1. \A p \in E : p \in Nat /\ k[p] \in Nat
  <2> SUFFICES ASSUME NEW p \in E PROVE p \in Nat /\ k[p] \in Nat
    OBVIOUS
  <2>1. p \in Pids /\ k[p] # None
    BY DEF EntriesOf
  <2>2. k[p] \in Keys \cup {None}
    BY <2>1, DbParts
  <2> QED
    BY <2>1, <2>2, PidsAre, KeysAssumption
<1>2. \A p, q \in E : Below(d, t, i, p, q) <=> k[p] < k[q] \/ (k[p] = k[q] /\ p < q)
  BY DEF Below
<1> HIDE DEF E, k
<1>3. /\ \A p \in E : ~ Below(d, t, i, p, p)
      /\ \A p, q, r \in E : Below(d, t, i, p, q) /\ Below(d, t, i, q, r) => Below(d, t, i, p, r)
      /\ \A p, q \in E : p # q => Below(d, t, i, p, q) \/ Below(d, t, i, q, p)
  BY <1>1, <1>2
<1> QED
  BY <1>3 DEF E

LEMMA FirstEntry ==
    ASSUME NEW d \in Dbs, NEW t \in Tables, NEW i \in Idx,
           NEW E \in SUBSET EntriesOf(d, t, i), E # {}
    PROVE  \E p \in E : \A q \in E \ {p} : Below(d, t, i, p, q)
<1> DEFINE R == {x \in E \X E : Below(d, t, i, x[1], x[2])}
<1>1. IsFiniteSet(E)
  BY PidsAre, FS_Subset DEF EntriesOf
<1>2. \A p, q \in E : <<p, q>> \in R <=> Below(d, t, i, p, q)
  OBVIOUS
<1> HIDE DEF R
<1>3. /\ \A p \in E : <<p, p>> \notin R
      /\ \A p, q, r \in E : <<p, q>> \in R /\ <<q, r>> \in R => <<p, r>> \in R
      /\ \A p, q \in E : p # q => <<p, q>> \in R \/ <<q, p>> \in R
  BY <1>2, BelowOrders
<1>4. PICK p \in E : \A q \in E \ {p} : <<p, q>> \in R
  BY <1>1, <1>3, HasFirst
<1> QED
  BY <1>2, <1>4

LEMMA FinalEntry ==
    ASSUME NEW d \in Dbs, NEW t \in Tables, NEW i \in Idx,
           NEW E \in SUBSET EntriesOf(d, t, i), E # {}
    PROVE  \E p \in E : \A q \in E \ {p} : Below(d, t, i, q, p)
<1> DEFINE R == {x \in E \X E : Below(d, t, i, x[2], x[1])}
<1>1. IsFiniteSet(E)
  BY PidsAre, FS_Subset DEF EntriesOf
<1>2. \A p, q \in E : <<p, q>> \in R <=> Below(d, t, i, q, p)
  OBVIOUS
<1> HIDE DEF R
<1>3. /\ \A p \in E : <<p, p>> \notin R
      /\ \A p, q, r \in E : <<p, q>> \in R /\ <<q, r>> \in R => <<p, r>> \in R
      /\ \A p, q \in E : p # q => <<p, q>> \in R \/ <<q, p>> \in R
  BY <1>2, BelowOrders
<1>4. PICK p \in E : \A q \in E \ {p} : <<p, q>> \in R
  BY <1>1, <1>3, HasFirst
<1> QED
  BY <1>2, <1>4

----------------------------------------------------------------------------
(* What a call that reads does to the cache, and what it answers.           *)

\* Database e is d after reading: the cache has grown.
Grows(d, e) ==
    /\ e \in Dbs /\ e.rows = d.rows /\ e.sec = d.sec
    /\ Len(d.cache) <= Len(e.cache)
    /\ \A k \in 1..Len(d.cache) : e.cache[k] = d.cache[k]

\* The answer r of a search for those in E in table t, by index i.
Found(d, r, t, i, E) ==
    /\ Grows(d, r.db) /\ Cached(r.db)
    /\ r.itr \in Int /\ r.itr # 0 /\ r.pid \in Nat
    /\ E = {} => r.itr < 0 /\ r.pid = MaxPid
    /\ E # {} => /\ r.itr > 0 /\ r.itr <= Len(r.db.cache)
                 /\ r.db.cache[r.itr] = Object(t, i, r.pid)
                 /\ r.pid \in E

LEMMA NoObject == /\ None \notin Vals /\ None # BadKey /\ None \notin Keys /\ None \notin Objects /\ None \notin Iterators
BY NoneAssumption

LEMMA GrowsSame == ASSUME NEW d \in Dbs PROVE Grows(d, d)
<1>1. Len(d.cache) \in Nat
  BY DbParts
<1> QED
  BY <1>1 DEF Grows

LEMMA GrowsFurther ==
    ASSUME NEW d \in Dbs, NEW e, NEW f, Grows(d, e), Grows(e, f)
    PROVE  Grows(d, f)
<1>1. Len(d.cache) \in Nat /\ Len(e.cache) \in Nat /\ Len(f.cache) \in Nat
  BY DbParts DEF Grows
<1>2. \A k \in 1..Len(d.cache) : k \in 1..Len(e.cache)
  BY <1>1 DEF Grows
<1> QED
  BY <1>1, <1>2 DEF Grows

LEMMA TouchDoes ==
    ASSUME NEW d \in Dbs, NEW t \in Tables, NEW c, c = Touch(d, t)
    PROVE  /\ c \in Dbs /\ c.rows = d.rows /\ c.sec = d.sec /\ c.cache = d.cache
           /\ Grows(d, c) /\ (Cached(d) => Cached(c))
           /\ EndOf(c, t) \in Int /\ EndOf(c, t) < -1
           /\ -1 - EndOf(c, t) \in DOMAIN c.ends /\ TableOfEnd(c, EndOf(c, t)) = t
<1>1. d.ends \in Seq(Tables)
  BY DbParts
<1>2. /\ c \in Dbs /\ c.rows = d.rows /\ c.sec = d.sec /\ c.cache = d.cache
      /\ \A x : (\E k \in DOMAIN d.ends : d.ends[k] = x) => \E k \in DOMAIN c.ends : c.ends[k] = x
      /\ \E k \in DOMAIN c.ends : c.ends[k] = t
  <2>1. CASE \E k \in DOMAIN d.ends : d.ends[k] = t
    BY <2>1 DEF Touch
  <2>2. CASE ~ \E k \in DOMAIN d.ends : d.ends[k] = t
    <3>1. c = [d EXCEPT !.ends = Append(d.ends, t)]
      BY <2>2 DEF Touch
    <3>2. Append(d.ends, t) \in Seq(Tables)
      BY <1>1
    <3>3. c \in Dbs /\ c.rows = d.rows /\ c.sec = d.sec /\ c.cache = d.cache /\ c.ends = Append(d.ends, t)
      BY <3>1, <3>2 DEF Dbs
    <3>4. Len(d.ends) + 1 \in DOMAIN Append(d.ends, t) /\ Append(d.ends, t)[Len(d.ends) + 1] = t
      BY <1>1
    <3>5. \A k \in DOMAIN d.ends : k \in DOMAIN Append(d.ends, t) /\ Append(d.ends, t)[k] = d.ends[k]
      BY <1>1
    <3> QED
      BY <3>3, <3>4, <3>5
  <2> QED
    BY <2>1, <2>2
<1>3. PICK k : k = CHOOSE n \in DOMAIN c.ends : c.ends[n] = t
  OBVIOUS
<1>4. k \in DOMAIN c.ends /\ c.ends[k] = t
  BY <1>2, <1>3
<1>5. k \in 1..Len(c.ends) /\ Len(c.ends) \in Nat
  BY <1>2, <1>4, DbParts
<1>6. EndOf(c, t) = -1 - k
  BY <1>3 DEF EndOf
<1>7. -1 - (-1 - k) = k
  BY <1>5
<1>8. Grows(d, c)
  BY <1>2, DbParts DEF Grows
<1>9. ASSUME Cached(d) PROVE Cached(c)
  <2>1. \A x : Backed(d, x) => Backed(c, x)
    BY <1>2 DEF Backed
  <2> QED
    BY <1>2, <1>9, <2>1 DEF Cached
<1> QED
  BY <1>2, <1>4, <1>5, <1>6, <1>7, <1>8, <1>9 DEF TableOfEnd

LEMMA CacheDoes ==
    ASSUME NEW d \in Dbs, NEW o \in Objects, Cached(d), Backed(d, o), NEW c, c = Cache(d, o)
    PROVE  /\ Grows(d, c) /\ Cached(c) /\ c.ends = d.ends
           /\ PlaceOf(c, o) \in 1..Len(c.cache) /\ c.cache[PlaceOf(c, o)] = o
<1>1. d.cache \in Seq(Objects \cup {None}) /\ Len(d.cache) \in Nat
  BY DbParts
<1>2. DOMAIN d.cache = 1..Len(d.cache) /\ o # None
  BY <1>1, NoObject
<1>3. /\ Grows(d, c) /\ Cached(c) /\ c.ends = d.ends
      /\ \E k \in 1..Len(c.cache) : c.cache[k] = o
  <2>1. CASE \E k \in DOMAIN d.cache : d.cache[k] = o
    <3>1. c = d
      BY <2>1 DEF Cache
    <3> QED
      BY <1>2, <2>1, <3>1, GrowsSame
  <2>2. CASE ~ \E k \in DOMAIN d.cache : d.cache[k] = o
    <3>1. c = [d EXCEPT !.cache = Append(d.cache, o)]
      BY <2>2 DEF Cache
    <3>2. Append(d.cache, o) \in Seq(Objects \cup {None})
      BY <1>1
    <3>3. /\ c \in Dbs /\ c.rows = d.rows /\ c.sec = d.sec /\ c.ends = d.ends
          /\ c.cache = Append(d.cache, o)
      BY <3>1, <3>2 DEF Dbs
    <3>4. /\ Len(c.cache) = Len(d.cache) + 1 /\ c.cache[Len(d.cache) + 1] = o
          /\ \A k \in 1..Len(d.cache) : c.cache[k] = d.cache[k]
      BY <1>1, <3>3
    <3>5. \A k \in 1..Len(c.cache) : k \in 1..Len(d.cache) \/ k = Len(d.cache) + 1
      BY <1>1, <3>4
    <3>6. Grows(d, c)
      BY <1>1, <3>3, <3>4 DEF Grows
    <3>7. \A x : Backed(c, x) <=> Backed(d, x)
      BY <3>3 DEF Backed
    <3>8. \A k \in 1..Len(d.cache) : d.cache[k] # o
      BY <1>2, <2>2
    <3>9. Cached(c)
      <4> SUFFICES ASSUME NEW k \in 1..Len(c.cache), c.cache[k] # None
                   PROVE  /\ Backed(c, c.cache[k])
                          /\ \A l \in 1..Len(c.cache) : c.cache[l] = c.cache[k] => l = k
        BY DEF Cached
      <4>1. CASE k \in 1..Len(d.cache)
        <5>1. c.cache[k] = d.cache[k] /\ d.cache[k] # o
          BY <3>4, <3>8, <4>1
        <5>2. Backed(c, c.cache[k])
          BY <3>7, <4>1, <5>1 DEF Cached
        <5>3. ASSUME NEW l \in 1..Len(c.cache), c.cache[l] = c.cache[k] PROVE l = k
          <6>1. l \in 1..Len(d.cache)
            BY <3>4, <3>5, <5>1, <5>3
          <6> QED
            BY <3>4, <4>1, <5>1, <5>3, <6>1 DEF Cached
        <5> QED
          BY <5>2, <5>3
      <4>2. CASE k = Len(d.cache) + 1
        <5>1. \A l \in 1..Len(c.cache) : c.cache[l] = o => l = k
          BY <3>4, <3>5, <3>8, <4>2
        <5> QED
          BY <3>4, <3>7, <4>2, <5>1
      <4> QED
        BY <3>5, <4>1, <4>2
    <3>10. Len(d.cache) + 1 \in 1..Len(c.cache)
      BY <1>1, <3>4
    <3> QED
      BY <3>3, <3>4, <3>6, <3>9, <3>10
  <2> QED
    BY <2>1, <2>2
<1>4. DOMAIN c.cache = 1..Len(c.cache)
  BY <1>3, DbParts DEF Grows
<1>5. PlaceOf(c, o) \in 1..Len(c.cache) /\ c.cache[PlaceOf(c, o)] = o
  BY <1>3, <1>4 DEF PlaceOf
<1> QED
  BY <1>3, <1>5

\* A search that finds nothing, and one that finds an object that is there.
LEMMA MissedIs ==
    ASSUME NEW d \in Dbs, NEW c, Grows(d, c), Cached(c), NEW x \in Int, x < 0, NEW t, NEW i
    PROVE  Found(d, Missed(c, x), t, i, {})
<1>1. Missed(c, x).db = c /\ Missed(c, x).itr = x /\ Missed(c, x).pid = MaxPid
  BY DEF Missed
<1> QED
  BY <1>1, PidsAre DEF Found

LEMMA HitIs ==
    ASSUME NEW d \in Dbs, NEW c, Grows(d, c), Cached(c),
           NEW t \in Tables, NEW i \in Idx \cup {Primary}, NEW p \in Pids, Backed(c, Object(t, i, p)),
           NEW E, p \in E, NEW h, h = Hit(c, Object(t, i, p))
    PROVE  Found(d, h, t, i, E) /\ h.pid = p
<1> DEFINE o == Object(t, i, p)
           e == Cache(c, o)
<1>1. o \in Objects /\ o.pid = p
  BY DEF Object, Objects
<1>2. c \in Dbs
  BY DEF Grows
<1>3. /\ Grows(c, e) /\ Cached(e)
      /\ PlaceOf(e, o) \in 1..Len(e.cache) /\ e.cache[PlaceOf(e, o)] = o
  BY <1>1, <1>2, CacheDoes
<1>4. h = [db |-> e, itr |-> PlaceOf(e, o), pid |-> o.pid]
  BY DEF Hit
<1>5. h.db = e /\ h.itr = PlaceOf(e, o) /\ h.pid = p
  BY <1>1, <1>4
<1>6. Grows(d, e)
  BY <1>3, GrowsFurther
<1>7. Len(e.cache) \in Nat
  BY <1>3, DbParts DEF Grows
<1>8. h.itr \in Int /\ h.itr # 0 /\ h.itr > 0 /\ h.itr <= Len(h.db.cache)
  BY <1>3, <1>5, <1>7
<1>9. h.db.cache[h.itr] = Object(t, i, h.pid)
  BY <1>3, <1>5
<1> QED
  BY <1>3, <1>5, <1>6, <1>8, <1>9, PidsAre DEF Found

\* The searches.
LEMMA SearchFinds ==
    ASSUME NEW d \in Dbs, Cached(d), NEW t \in Tables, NEW S \in SUBSET RowsOf(d, t),
           NEW r, r = Search(d, t, S)
    PROVE  /\ Found(d, r, t, Primary, S)
           /\ S # {} => r.pid = Least(S) /\ \A q \in S : r.pid <= q
<1>1. CASE ~TableExists(d, t)
  <2>1. r = Missed(d, -1)
    BY <1>1 DEF Search
  <2>2. S = {}
    BY <1>1 DEF TableExists
  <2>3. Found(d, Missed(d, -1), t, Primary, {})
    BY GrowsSame, MissedIs
  <2> QED
    BY <2>1, <2>2, <2>3
<1>2. CASE TableExists(d, t)
  <2> DEFINE c == Touch(d, t)
  <2>1. /\ c \in Dbs /\ c.rows = d.rows
        /\ Grows(d, c) /\ Cached(c)
        /\ EndOf(c, t) \in Int /\ EndOf(c, t) < -1
        /\ -1 - EndOf(c, t) \in DOMAIN c.ends /\ TableOfEnd(c, EndOf(c, t)) = t
    BY TouchDoes
  <2>2. r = IF S = {} THEN Missed(c, EndOf(c, t)) ELSE Hit(c, Object(t, Primary, Least(S)))
    BY <1>2 DEF Search
  <2> HIDE DEF c
  <2>3. CASE S = {}
    <3>1. Found(d, Missed(c, EndOf(c, t)), t, Primary, {})
      BY <2>1, MissedIs
    <3> QED
      BY <2>2, <2>3, <3>1
  <2>4. CASE S # {}
    <3>1. S \in SUBSET Pids
      BY DEF RowsOf
    <3>2. Least(S) \in S /\ \A q \in S : Least(S) <= q
      BY <2>4, <3>1, LeastIs
    <3>3. Least(S) \in Pids /\ c.rows[t][Least(S)] # None
      BY <2>1, <3>2 DEF RowsOf
    <3>4. \E k \in DOMAIN c.ends : c.ends[k] = t
      BY <2>1 DEF TableOfEnd
    <3>5. Backed(c, Object(t, Primary, Least(S)))
      BY <3>3, <3>4 DEF Backed, Object
    <3>6. r = Hit(c, Object(t, Primary, Least(S)))
      BY <2>2, <2>4
    <3>7. Found(d, r, t, Primary, S) /\ r.pid = Least(S)
      BY <2>1, <3>2, <3>3, <3>5, <3>6, HitIs
    <3> QED
      BY <3>2, <3>7
  <2> QED
    BY <2>3, <2>4
<1> QED
  BY <1>1, <1>2

LEMMA EntryBacked ==
    ASSUME NEW d \in Dbs, NEW t \in Tables, NEW i \in Idx, NEW p \in EntriesOf(d, t, i)
    PROVE  p \in Pids /\ Backed(d, Object(t, i, p))
<1>1. i # Primary
  BY IdxAssumption DEF Primary
<1> QED
  BY <1>1 DEF Backed, Object, EntriesOf

LEMMA SearchIndexFinds ==
    ASSUME NEW d \in Dbs, Cached(d), NEW t \in Tables, NEW i \in Idx, NEW E \in SUBSET EntriesOf(d, t, i),
           NEW r, r = SearchIndex(d, t, i, E)
    PROVE  /\ Found(d, r, t, i, E)
           /\ E # {} => \A q \in E \ {r.pid} : Below(d, t, i, r.pid, q)
<1>1. Grows(d, d)
  BY GrowsSame
<1>2. CASE E = {}
  <2>1. PICK x : x = IF IndexExists(d, t, i) THEN -2 ELSE -1
    OBVIOUS
  <2>2. r = Missed(d, x)
    BY <1>2, <2>1 DEF SearchIndex
  <2>3. x \in Int /\ x < 0
    BY <2>1
  <2>4. Found(d, Missed(d, x), t, i, {})
    BY <1>1, <2>3, MissedIs
  <2> QED
    BY <1>2, <2>2, <2>4
<1>3. CASE E # {}
  <2>1. PICK f : f = CHOOSE p \in E : \A q \in E \ {p} : Below(d, t, i, p, q)
    OBVIOUS
  <2>2. \E p \in E : \A q \in E \ {p} : Below(d, t, i, p, q)
    BY <1>3, FirstEntry
  <2>3. f \in E /\ \A q \in E \ {f} : Below(d, t, i, f, q)
    BY <2>1, <2>2
  <2>4. f \in Pids /\ Backed(d, Object(t, i, f))
    BY <2>3, EntryBacked
  <2>5. r = Hit(d, Object(t, i, f))
    BY <1>3, <2>1 DEF SearchIndex
  <2>6. Found(d, r, t, i, E) /\ r.pid = f
    BY <1>1, <2>3, <2>4, <2>5, HitIs
  <2> QED
    BY <2>3, <2>6
<1> QED
  BY <1>2, <1>3

LEMMA LastEntryFinds ==
    ASSUME NEW d \in Dbs, Cached(d), NEW t \in Tables, NEW i \in Idx, NEW E \in SUBSET EntriesOf(d, t, i),
           NEW r, r = LastEntry(d, t, i, E)
    PROVE  Found(d, r, t, i, E)
<1>1. Grows(d, d)
  BY GrowsSame
<1>2. CASE E = {}
  <2>1. r = Missed(d, -1)
    BY <1>2 DEF LastEntry
  <2>2. Found(d, Missed(d, -1), t, i, {})
    BY <1>1, MissedIs
  <2> QED
    BY <1>2, <2>1, <2>2
<1>3. CASE E # {}
  <2>1. PICK f : f = CHOOSE p \in E : \A q \in E \ {p} : Below(d, t, i, q, p)
    OBVIOUS
  <2>2. \E p \in E : \A q \in E \ {p} : Below(d, t, i, q, p)
    BY <1>3, FinalEntry
  <2>3. f \in E
    BY <2>1, <2>2
  <2>4. f \in Pids /\ Backed(d, Object(t, i, f))
    BY <2>3, EntryBacked
  <2>5. r = Hit(d, Object(t, i, f))
    BY <1>3, <2>1 DEF LastEntry
  <2> QED
    BY <1>1, <2>3, <2>4, <2>5, HitIs
<1> QED
  BY <1>2, <1>3

\* The calls that walk the rows, from a place of the cache and from an end.
LEMMA ValidIs ==
    ASSUME NEW d \in Dbs, NEW x, Valid(d, x)
    PROVE  /\ x \in 1..Len(d.cache) /\ x \in Int /\ x > 0 /\ x <= Len(d.cache)
           /\ d.cache[x] # None /\ d.cache[x] \in Objects
           /\ d.cache[x].tab \in Tables /\ d.cache[x].idx \in Idx \cup {Primary} /\ d.cache[x].pid \in Pids
<1>1. d.cache \in Seq(Objects \cup {None}) /\ Len(d.cache) \in Nat
  BY DbParts
<1>2. x \in 1..Len(d.cache) /\ d.cache[x] # None
  BY <1>1 DEF Valid
<1>3. d.cache[x] \in Objects
  BY <1>1, <1>2
<1>4. x \in Int /\ x > 0 /\ x <= Len(d.cache)
  BY <1>1, <1>2
<1> QED
  BY <1>2, <1>3, <1>4 DEF Objects

LEMMA NextRowFinds ==
    ASSUME NEW d \in Dbs, Cached(d), NEW x \in Int, x < -1 \/ (Valid(d, x) /\ d.cache[x].idx = Primary),
           NEW r, r = NextRow(d, x)
    PROVE  \E t, S : Found(d, r, t, Primary, S)
<1>1. Grows(d, d)
  BY GrowsSame
<1>2. CASE x < -1
  <2>1. r = Missed(d, -1)
    BY <1>2 DEF NextRow
  <2>2. Found(d, Missed(d, -1), None, Primary, {})
    BY <1>1, MissedIs
  <2> QED
    BY <2>1, <2>2
<1>3. CASE ~(x < -1) /\ Valid(d, x) /\ d.cache[x].idx = Primary
  <2> DEFINE t == d.cache[x].tab
             S == {p \in RowsOf(d, t) : p > d.cache[x].pid}
  <2>1. /\ x \in 1..Len(d.cache) /\ d.cache[x] # None /\ t \in Tables
    BY <1>3, ValidIs
  <2>2. \E k \in DOMAIN d.ends : d.ends[k] = t
    BY <1>3, <2>1 DEF Cached, Backed
  <2>3. r = IF S = {} THEN Missed(d, EndOf(d, t)) ELSE Hit(d, Object(t, Primary, Least(S)))
    BY <1>3 DEF NextRow
  <2>4. S \in SUBSET Pids /\ S \in SUBSET RowsOf(d, t)
    BY DEF RowsOf
  <2> HIDE DEF t, S
  <2>5. CASE S = {}
    <3>1. d = Touch(d, t)
      BY <2>2 DEF Touch
    <3>2. EndOf(d, t) \in Int /\ EndOf(d, t) < -1
      BY <2>1, <3>1, TouchDoes
    <3>3. EndOf(d, t) < 0
      BY <3>2
    <3>4. Found(d, Missed(d, EndOf(d, t)), t, Primary, {})
      BY <1>1, <3>2, <3>3, MissedIs
    <3>5. r = Missed(d, EndOf(d, t))
      BY <2>3, <2>5
    <3> QED
      BY <3>4, <3>5
  <2>6. CASE S # {}
    <3>1. Least(S) \in S
      BY <2>4, <2>6, LeastIs
    <3>2. Least(S) \in Pids /\ d.rows[t][Least(S)] # None
      BY <2>4, <3>1 DEF RowsOf
    <3>3. Backed(d, Object(t, Primary, Least(S)))
      BY <2>2, <3>2 DEF Backed, Object
    <3>4. r = Hit(d, Object(t, Primary, Least(S)))
      BY <2>3, <2>6
    <3>5. Found(d, r, t, Primary, S)
      BY <1>1, <2>1, <3>1, <3>2, <3>3, <3>4, HitIs
    <3> QED
      BY <3>5
  <2> QED
    BY <2>5, <2>6
<1> QED
  BY <1>2, <1>3

\* From an end, the last row of the table of that end.
LEMMA PreviousRowFinds ==
    ASSUME NEW d \in Dbs, Cached(d), NEW x \in Int,
           (x < -1 /\ -1 - x \in DOMAIN d.ends) \/ (Valid(d, x) /\ d.cache[x].idx = Primary),
           NEW r, r = PreviousRow(d, x)
    PROVE  /\ \E t, S : Found(d, r, t, Primary, S)
           /\ x < -1 => IF RowsOf(d, TableOfEnd(d, x)) = {} THEN r.itr = -1
                        ELSE r.itr > 0 /\ r.pid = Greatest(RowsOf(d, TableOfEnd(d, x)))
<1>1. Grows(d, d)
  BY GrowsSame
<1>2. PICK t : t = IF x < -1 THEN TableOfEnd(d, x) ELSE d.cache[x].tab
  OBVIOUS
<1>3. t \in Tables /\ \E k \in DOMAIN d.ends : d.ends[k] = t
  <2>1. CASE x < -1 /\ -1 - x \in DOMAIN d.ends
    <3>1. d.ends \in Seq(Tables)
      BY DbParts
    <3>2. t = d.ends[-1 - x]
      BY <1>2, <2>1 DEF TableOfEnd
    <3> QED
      BY <2>1, <3>1, <3>2
  <2>2. CASE Valid(d, x) /\ d.cache[x].idx = Primary
    <3>1. x \in 1..Len(d.cache) /\ x > 0 /\ d.cache[x] # None /\ d.cache[x].tab \in Tables
      BY <2>2, ValidIs
    <3>2. t = d.cache[x].tab
      BY <1>2, <3>1
    <3> QED
      BY <2>2, <3>1, <3>2 DEF Cached, Backed
  <2> QED
    BY <2>1, <2>2
<1>4. PICK S : S = {p \in RowsOf(d, t) : x < -1 \/ p < d.cache[x].pid}
  OBVIOUS
<1>5. r = IF S = {} THEN Missed(d, -1) ELSE Hit(d, Object(t, Primary, Greatest(S)))
  BY <1>2, <1>4 DEF PreviousRow
<1>6. S \in SUBSET Pids
  BY <1>4 DEF RowsOf
<1>7. x < -1 => S = RowsOf(d, TableOfEnd(d, x))
  BY <1>2, <1>4
<1>8. CASE S = {}
  <2>1. Found(d, Missed(d, -1), t, Primary, {})
    BY <1>1, MissedIs
  <2>2. r = Missed(d, -1)
    BY <1>5, <1>8
  <2>3. r.itr = -1
    BY <2>2 DEF Missed
  <2> QED
    BY <1>7, <1>8, <2>1, <2>2, <2>3
<1>9. CASE S # {}
  <2>1. Greatest(S) \in S
    BY <1>6, <1>9, GreatestIs
  <2>2. Greatest(S) \in Pids /\ d.rows[t][Greatest(S)] # None
    BY <1>4, <2>1 DEF RowsOf
  <2>3. Backed(d, Object(t, Primary, Greatest(S)))
    BY <1>3, <2>2 DEF Backed, Object
  <2>4. r = Hit(d, Object(t, Primary, Greatest(S)))
    BY <1>5, <1>9
  <2>5. Found(d, r, t, Primary, S) /\ r.pid = Greatest(S)
    BY <1>1, <1>3, <2>1, <2>2, <2>3, <2>4, HitIs
  <2>6. r.itr > 0
    BY <1>9, <2>5 DEF Found
  <2> QED
    BY <1>7, <1>9, <2>5, <2>6
<1> QED
  BY <1>8, <1>9

----------------------------------------------------------------------------
(* The iterators that the reading calls answer.                             *)

\* A call on database d leaves e and answers the iterator it.
Shown(d, e, it) ==
    /\ Grows(d, e) /\ Cached(e) /\ it \in Iterators
    /\ \A astray \in BOOLEAN : (it.itr > 0 /\ e.cache[it.itr].tab # it.tab => astray) => Placed(e, it, astray)
    /\ MaxPid \notin Pids /\ Matches(d) => (IsEnd(it) <=> ~HasData(it))

\* An iterator on the primary key, at the place y that the search gave or, at
\* an end, another.
LEMMA RowIterator ==
    ASSUME NEW d \in Dbs, NEW t \in Tables, NEW r, NEW u, NEW S, Found(d, r, u, Primary, S),
           NEW p \in Nat, NEW y \in Int, y = r.itr \/ (r.itr < 0 /\ y = -2),
           NEW it, it = Iterator(r.db, t, y, p, Primary, -1)
    PROVE  Shown(d, r.db, it)
<1>1. Grows(d, r.db) /\ Cached(r.db) /\ r.itr \in Int /\ r.itr # 0
  BY DEF Found
<1>2. y # 0 /\ (y > 0 => y = r.itr)
  BY <1>1
<1>3. y > 0 => /\ y <= Len(r.db.cache) /\ r.db.cache[y] = Object(u, Primary, r.pid)
               /\ r.pid \in Nat
  <2> SUFFICES ASSUME y > 0
               PROVE  y <= Len(r.db.cache) /\ r.db.cache[y] = Object(u, Primary, r.pid) /\ r.pid \in Nat
    OBVIOUS
  <2>1. y = r.itr /\ S # {}
    BY <1>1, <1>2 DEF Found
  <2> QED
    BY <2>1 DEF Found
<1>4. PICK q : q = IF y > 0 THEN r.db.cache[y].pid ELSE p
  OBVIOUS
<1>5. it = [tab |-> t, itr |-> y, idx |-> Primary, idxItr |-> -1, pid |-> q]
  BY <1>4 DEF Iterator
<1>6. /\ it.tab = t /\ it.itr = y /\ it.idx = Primary /\ it.idxItr = -1 /\ it.pid = q
  BY <1>5
<1>7. q \in Nat
  BY <1>3, <1>4 DEF Object
<1>8. it \in Iterators
  BY <1>5, <1>7 DEF Iterators
<1>9. IsEnd(it) <=> ~HasData(it)
  BY <1>2, <1>6 DEF IsEnd, HasData
<1>10. ASSUME NEW astray \in BOOLEAN, it.itr > 0 /\ r.db.cache[it.itr].tab # it.tab => astray
       PROVE  Placed(r.db, it, astray)
  <2>1. it.itr # 0 /\ it.idxItr # 0 /\ it.idxItr = -1 /\ ~(it.idxItr > 0)
    BY <1>2, <1>6
  <2>2. it.itr > 0 => /\ it.itr <= Len(r.db.cache) /\ r.db.cache[it.itr].idx = Primary
                      /\ r.db.cache[it.itr].pid = it.pid
                      /\ (astray \/ r.db.cache[it.itr].tab = it.tab)
    BY <1>3, <1>4, <1>6, <1>10 DEF Object
  <2> QED
    BY <2>1, <2>2 DEF Placed
<1> QED
  BY <1>1, <1>8, <1>9, <1>10 DEF Shown

\* An iterator on an index: the row that the entry found leads to.
LEMMA EntryIterator ==
    ASSUME NEW d \in Dbs, NEW t \in Tables, NEW i \in Idx, NEW S \in SUBSET EntriesOf(d, t, i),
           NEW r, Found(d, r, t, i, S)
    PROVE  Shown(d, RowOf(r, t, i).db, RowOf(r, t, i).it)
<1> DEFINE P == RowsOf(r.db, t) \cap {r.pid}
           row == Search(r.db, t, P)
           it == RowOf(r, t, i).it
<1>1. /\ Grows(d, r.db) /\ Cached(r.db) /\ r.db \in Dbs /\ r.itr \in Int /\ r.itr # 0 /\ r.pid \in Nat
      /\ r.db.rows = d.rows
  BY DEF Found, Grows
<1>2. P \in SUBSET RowsOf(r.db, t)
  OBVIOUS
<1>3. Found(r.db, row, t, Primary, P)
  BY <1>1, <1>2, SearchFinds
<1>4. /\ Grows(r.db, row.db) /\ Cached(row.db) /\ row.itr \in Int /\ row.itr # 0
      /\ (row.itr > 0 <=> P # {})
  BY <1>3 DEF Found
<1>5. Grows(d, row.db)
  BY <1>1, <1>4, GrowsFurther
<1>6. RowOf(r, t, i) = [db |-> row.db, it |-> Iterator(row.db, t, row.itr, r.pid, i, r.itr)]
  BY DEF RowOf
<1>7. /\ RowOf(r, t, i).db = row.db /\ RowOf(r, t, i).it = it
      /\ it = Iterator(row.db, t, row.itr, r.pid, i, r.itr)
  BY <1>6
<1>8. PICK q : q = IF row.itr > 0 THEN row.db.cache[row.itr].pid ELSE r.pid
  OBVIOUS
<1>9. it = [tab |-> t, itr |-> row.itr, idx |-> i, idxItr |-> r.itr, pid |-> q]
  BY <1>7, <1>8 DEF Iterator
<1>10. row.itr > 0 => /\ row.itr <= Len(row.db.cache) /\ row.pid \in Nat
                      /\ row.db.cache[row.itr] = Object(t, Primary, row.pid)
  BY <1>3, <1>4 DEF Found
<1>11. r.itr > 0 => /\ r.itr <= Len(row.db.cache)
                    /\ row.db.cache[r.itr] = Object(t, i, r.pid) /\ r.pid \in S
  <2> SUFFICES ASSUME r.itr > 0
               PROVE  /\ r.itr <= Len(row.db.cache)
                      /\ row.db.cache[r.itr] = Object(t, i, r.pid) /\ r.pid \in S
    OBVIOUS
  <2>1. S # {}
    BY <1>1 DEF Found
  <2>2. r.itr <= Len(r.db.cache) /\ r.db.cache[r.itr] = Object(t, i, r.pid) /\ r.pid \in S
    BY <2>1 DEF Found
  <2>3. Len(r.db.cache) \in Nat /\ Len(row.db.cache) \in Nat
    BY <1>1, <1>4, DbParts DEF Grows
  <2>4. r.itr \in 1..Len(r.db.cache) /\ r.itr <= Len(row.db.cache)
    BY <1>1, <1>4, <2>2, <2>3 DEF Grows
  <2> QED
    BY <1>4, <2>2, <2>4 DEF Grows
<1> HIDE DEF P, row, it
<1>12. /\ it.tab = t /\ it.itr = row.itr /\ it.idx = i /\ it.idxItr = r.itr /\ it.pid = q
  BY <1>9
<1>13. q \in Nat
  BY <1>1, <1>8, <1>10 DEF Object
<1>14. it \in Iterators
  BY <1>1, <1>4, <1>9, <1>13 DEF Iterators
<1>15. ASSUME NEW astray \in BOOLEAN, it.itr > 0 /\ row.db.cache[it.itr].tab # it.tab => astray
       PROVE  Placed(row.db, it, astray)
  <2>1. it.itr # 0 /\ it.idxItr # 0 /\ it.idx \in Idx
    BY <1>1, <1>4, <1>12
  <2>2. it.itr > 0 => /\ it.itr <= Len(row.db.cache) /\ row.db.cache[it.itr].idx = Primary
                      /\ row.db.cache[it.itr].pid = it.pid /\ row.db.cache[it.itr].tab = it.tab
    BY <1>8, <1>10, <1>12 DEF Object
  <2>3. it.idxItr > 0 => /\ it.idxItr <= Len(row.db.cache) /\ row.db.cache[it.idxItr].idx = it.idx
                         /\ row.db.cache[it.idxItr].tab = it.tab
    BY <1>11, <1>12 DEF Object
  <2> QED
    BY <2>1, <2>2, <2>3 DEF Placed
<1>16. ASSUME MaxPid \notin Pids, Matches(d) PROVE IsEnd(it) <=> ~HasData(it)
  <2>1. CASE r.itr > 0
    <3>1. r.pid \in Pids /\ d.sec[t][i][r.pid] # None
      BY <1>11, <2>1 DEF EntriesOf
    <3>2. d.rows[t][r.pid] # None
      BY <1>16, <3>1 DEF Matches
    <3>3. r.pid \in P
      BY <1>1, <3>1, <3>2 DEF P, RowsOf
    <3>4. row.itr > 0
      BY <1>4, <3>3
    <3> QED
      BY <1>1, <1>4, <1>12, <2>1, <3>4 DEF IsEnd, HasData
  <2>2. CASE ~(r.itr > 0)
    <3>1. S = {}
      BY <1>1, <2>2 DEF Found
    <3>2. r.pid = MaxPid
      BY <3>1 DEF Found
    <3>3. P = {}
      BY <1>16, <3>2 DEF P, RowsOf
    <3>4. ~(row.itr > 0) /\ row.itr < 0 /\ r.itr < 0
      BY <1>1, <1>4, <2>2, <3>3
    <3> QED
      BY <1>12, <3>4 DEF IsEnd, HasData
  <2> QED
    BY <2>1, <2>2
<1> QED
  BY <1>4, <1>5, <1>7, <1>14, <1>15, <1>16 DEF Shown

----------------------------------------------------------------------------
(* What a call does to the rows, the entries and the cache.                 *)

\* A call given table h and key p leaves database e of d: objects are added to
\* the cache and taken out of their places, only the row of that key of a table
\* of the receiver changes, and no entry of another code.
Leaves(d, e, h, p, astray) ==
    /\ e \in Dbs /\ Cached(e)
    /\ Len(d.cache) <= Len(e.cache)
    /\ \A k \in 1..Len(d.cache) : e.cache[k] = d.cache[k] \/ e.cache[k] = None
    /\ \A t \in Tables, q \in Pids :
         e.rows[t][q] # d.rows[t][q] => t \notin Foreign /\ q = p /\ (astray \/ t = Home(h))
    /\ \A t \in Tables : e.sec[t] # d.sec[t] => t \notin Foreign

LEMMA GrowsLeaves ==
    ASSUME NEW d, NEW e, Grows(d, e), Cached(e), NEW h, NEW p, NEW astray
    PROVE  Leaves(d, e, h, p, astray)
BY DEF Grows, Leaves

LEMMA PlacedStays ==
    ASSUME NEW d \in Dbs, NEW e, NEW h, NEW p, NEW was \in BOOLEAN, NEW astray \in BOOLEAN,
           NEW far, Leaves(d, e, h, p, far), was => astray, NEW it \in Iterators, Placed(d, it, was)
    PROVE  Placed(e, it, astray)
<1>1. it.itr \in Int /\ it.idxItr \in Int
  BY DEF Iterators
<1>2. Len(d.cache) \in Nat /\ Len(e.cache) \in Nat /\ Len(d.cache) <= Len(e.cache)
  BY DbParts DEF Leaves
<1>3. \A k \in 1..Len(d.cache) : e.cache[k] # None => e.cache[k] = d.cache[k]
  BY DEF Leaves
<1>4. it.itr # 0 /\ it.idxItr # 0 /\ (it.idxItr # -1 => it.idx \in Idx)
  BY DEF Placed
<1>5. ASSUME it.itr > 0
      PROVE  /\ it.itr <= Len(e.cache)
             /\ e.cache[it.itr] # None => LET o == e.cache[it.itr]
                                          IN  o.idx = Primary /\ o.pid = it.pid /\ (astray \/ o.tab = it.tab)
  <2>1. it.itr <= Len(d.cache)
    BY <1>5 DEF Placed
  <2>2. it.itr \in 1..Len(d.cache) /\ it.itr <= Len(e.cache)
    BY <1>1, <1>2, <1>5, <2>1
  <2>3. e.cache[it.itr] # None => e.cache[it.itr] = d.cache[it.itr]
    BY <1>3, <2>2
  <2> QED
    BY <1>5, <2>2, <2>3 DEF Placed
<1>6. ASSUME it.idxItr > 0
      PROVE  /\ it.idxItr <= Len(e.cache)
             /\ e.cache[it.idxItr] # None => LET o == e.cache[it.idxItr] IN o.idx = it.idx /\ o.tab = it.tab
  <2>1. it.idxItr <= Len(d.cache)
    BY <1>6 DEF Placed
  <2>2. it.idxItr \in 1..Len(d.cache) /\ it.idxItr <= Len(e.cache)
    BY <1>1, <1>2, <1>6, <2>1
  <2>3. e.cache[it.idxItr] # None => e.cache[it.idxItr] = d.cache[it.idxItr]
    BY <1>3, <2>2
  <2> QED
    BY <1>6, <2>2, <2>3 DEF Placed
<1> QED
  BY <1>4, <1>5, <1>6 DEF Placed

\* What the cache holds is still there when no row and no entry has gone.
LEMMA CachedStays ==
    ASSUME NEW d \in Dbs, NEW e \in Dbs, Cached(d), e.cache = d.cache, e.ends = d.ends,
           \A t \in Tables, q \in Pids : d.rows[t][q] # None => e.rows[t][q] # None,
           \A t \in Tables, i \in Idx, q \in Pids : d.sec[t][i][q] # None => e.sec[t][i][q] # None
    PROVE  Cached(e)
<1>1. \A o \in Objects : Backed(d, o) => Backed(e, o)
  BY DEF Backed, Objects
<1>2. \A k \in 1..Len(d.cache) : d.cache[k] # None => d.cache[k] \in Objects
  BY DbParts
<1> QED
  BY <1>1, <1>2 DEF Cached

\* A row put, entries of key p put in the indexes in S of table t.
RowPut(d, t, p, v) == [d EXCEPT !.rows[t][p] = v]
EntriesPut(d, t, p, S, w) ==
    [d EXCEPT !.sec[t] = [i \in Idx |-> IF i \in S THEN [d.sec[t][i] EXCEPT ![p] = w[i]] ELSE d.sec[t][i]]]

LEMMA RowPutDoes ==
    ASSUME NEW d \in Dbs, NEW t \in Tables, NEW p \in Pids, NEW v \in Vals \cup {None},
           NEW e, e = RowPut(d, t, p, v)
    PROVE  /\ e \in Dbs /\ e.sec = d.sec /\ e.cache = d.cache /\ e.ends = d.ends
           /\ e.rows[t][p] = v
           /\ \A u \in Tables, q \in Pids : u # t \/ q # p => e.rows[u][q] = d.rows[u][q]
<1> DEFINE f == [d.rows EXCEPT ![t][p] = v]
<1>1. d.rows \in [Tables -> [Pids -> Vals \cup {None}]]
  BY DbParts
<1>2. f \in [Tables -> [Pids -> Vals \cup {None}]]
  BY <1>1
<1>3. e = [d EXCEPT !.rows = f]
  BY DEF RowPut, Dbs
<1>4. f[t][p] = v /\ \A u \in Tables, q \in Pids : u # t \/ q # p => f[u][q] = d.rows[u][q]
  BY <1>1
<1> HIDE DEF f
<1>5. e.rows = f /\ e.sec = d.sec /\ e.cache = d.cache /\ e.ends = d.ends /\ e \in Dbs
  BY <1>2, <1>3 DEF Dbs
<1> QED
  BY <1>4, <1>5

LEMMA EntriesPutDoes ==
    ASSUME NEW d \in Dbs, NEW t \in Tables, NEW p \in Pids, NEW S, NEW w,
           \A i \in Idx : i \in S => w[i] \in Keys \cup {None},
           NEW e, e = EntriesPut(d, t, p, S, w)
    PROVE  /\ e \in Dbs /\ e.rows = d.rows /\ e.cache = d.cache /\ e.ends = d.ends
           /\ \A u \in Tables : u # t => e.sec[u] = d.sec[u]
           /\ \A i \in Idx, q \in Pids : e.sec[t][i][q] = IF i \in S /\ q = p THEN w[i] ELSE d.sec[t][i][q]
<1> DEFINE f == [i \in Idx |-> IF i \in S THEN [d.sec[t][i] EXCEPT ![p] = w[i]] ELSE d.sec[t][i]]
           g == [d.sec EXCEPT ![t] = f]
<1>1. d.sec \in [Tables -> [Idx -> [Pids -> Keys \cup {None}]]]
  BY DbParts
<1>2. ASSUME NEW i \in Idx
      PROVE  /\ f[i] \in [Pids -> Keys \cup {None}]
             /\ \A q \in Pids : f[i][q] = IF i \in S /\ q = p THEN w[i] ELSE d.sec[t][i][q]
  <2>1. d.sec[t][i] \in [Pids -> Keys \cup {None}]
    BY <1>1
  <2>2. f[i] = IF i \in S THEN [d.sec[t][i] EXCEPT ![p] = w[i]] ELSE d.sec[t][i]
    OBVIOUS
  <2> QED
    BY <2>1, <2>2
<1>3. f \in [Idx -> [Pids -> Keys \cup {None}]]
  BY <1>2
<1>6. e = [d EXCEPT !.sec = g]
  BY DEF EntriesPut, Dbs
<1> HIDE DEF f
<1>4. g \in [Tables -> [Idx -> [Pids -> Keys \cup {None}]]]
  BY <1>1, <1>3
<1>5. g[t] = f /\ \A u \in Tables : u # t => g[u] = d.sec[u]
  BY <1>1
<1> HIDE DEF g
<1>7. e.sec = g /\ e.rows = d.rows /\ e.cache = d.cache /\ e.ends = d.ends /\ e \in Dbs
  BY <1>4, <1>6 DEF Dbs
<1> QED
  BY <1>2, <1>5, <1>7

LEMMA HomeIs == ASSUME NEW t \in Tables PROVE Home(t) \in Tables /\ Home(t) \notin Foreign
<1>1. PICK c \in Codes, n \in Names : t = <<c, n>>
  BY DEF Tables
<1>2. Home(t) = <<Receiver, n>>
  BY <1>1 DEF Home
<1>3. Home(t) \in Tables /\ Home(Home(t)) = Home(t)
  BY <1>2, ReceiverAssumption DEF Home, Tables
<1> QED
  BY <1>3 DEF Foreign

\* A loop that nothing blocks reaches every index, and reaches none it is blocked at.
LEMMA ReachedIs ==
    ASSUME NEW S \in SUBSET Idx
    PROVE  /\ S = {} => Reached(S) = Idx
           /\ \A i \in Idx : i \in Reached(S) => i \notin S
BY IdxAssumption DEF Reached

\* Database e is d with entries stored for row v under key p of table t.
Stored(d, e, t, p, v) ==
    /\ e \in Dbs /\ e.rows = d.rows /\ e.cache = d.cache /\ e.ends = d.ends
    /\ \A u \in Tables : u # t => e.sec[u] = d.sec[u]
    /\ \A i \in Idx, q \in Pids : q # p \/ d.sec[t][i][q] # None => e.sec[t][i][q] = d.sec[t][i][q]
    /\ StoreBlocked(d, t, p, v) = {} => \A i \in Idx : e.sec[t][i][p] = v[i]

LEMMA StoreDoes ==
    ASSUME NEW d \in Dbs, NEW t \in Tables, NEW p \in Pids, NEW v \in Vals,
           NEW e, e = StoreIndex(d, t, p, v)
    PROVE  Stored(d, e, t, p, v)
<1> DEFINE B == StoreBlocked(d, t, p, v)
           S == Reached(B)
<1>1. e = EntriesPut(d, t, p, S, v)
  BY DEF StoreIndex, EntriesPut
<1>2. B \in SUBSET Idx
  BY DEF StoreBlocked
<1>3. \A i \in Idx : i \in S => v[i] # BadKey /\ d.sec[t][i][p] = None
  BY <1>2, ReachedIs DEF StoreBlocked
<1>4. \A i \in Idx : i \in S => v[i] \in Keys \cup {None}
  BY <1>3 DEF Vals
<1>5. B = {} => S = Idx
  BY <1>2, ReachedIs
<1> HIDE DEF B, S
<1>6. /\ e \in Dbs /\ e.rows = d.rows /\ e.cache = d.cache /\ e.ends = d.ends
      /\ \A u \in Tables : u # t => e.sec[u] = d.sec[u]
      /\ \A i \in Idx, q \in Pids : e.sec[t][i][q] = IF i \in S /\ q = p THEN v[i] ELSE d.sec[t][i][q]
  BY <1>1, <1>4, EntriesPutDoes
<1> QED
  BY <1>3, <1>5, <1>6 DEF B, Stored

\* emplace stores the row, and as many of its entries as it can.
LEMMA EmplaceDoes ==
    ASSUME NEW d \in Dbs, Cached(d), NEW h \in Tables, NEW p \in Pids, NEW v \in Vals,
           NEW t, t = Home(h), d.rows[t][p] = None,
           NEW row, row = Hit(Touch(RowPut(d, t, p, v), t), Object(t, Primary, p)).db,
           NEW e, e = StoreIndex(row, t, p, v), NEW astray
    PROVE  /\ Leaves(d, e, h, p, astray)
           /\ StoreBlocked(d, t, p, v) = {} /\ Matches(d) => Matches(e)
<1> DEFINE put == RowPut(d, t, p, v)
           used == Touch(put, t)
           hit == Hit(used, Object(t, Primary, p))
<1>1. t \in Tables /\ t \notin Foreign
  BY HomeIs
<1>2. v \in Vals \cup {None} /\ v # None
  BY NoObject
<1>3. /\ put \in Dbs /\ put.sec = d.sec /\ put.cache = d.cache /\ put.ends = d.ends
      /\ put.rows[t][p] = v
      /\ \A u \in Tables, q \in Pids : u # t \/ q # p => put.rows[u][q] = d.rows[u][q]
  BY <1>1, <1>2, RowPutDoes
<1> HIDE DEF put
<1>4. Cached(put)
  <2>1. \A u \in Tables, q \in Pids : d.rows[u][q] # None => put.rows[u][q] # None
    BY <1>2, <1>3
  <2>2. \A u \in Tables, i \in Idx, q \in Pids : d.sec[u][i][q] # None => put.sec[u][i][q] # None
    BY <1>3
  <2> QED
    BY <1>3, <2>1, <2>2, CachedStays
<1>5. /\ used \in Dbs /\ used.rows = put.rows /\ used.sec = put.sec /\ used.cache = put.cache
      /\ Cached(used) /\ Grows(put, used)
      /\ -1 - EndOf(used, t) \in DOMAIN used.ends /\ TableOfEnd(used, EndOf(used, t)) = t
  BY <1>1, <1>3, <1>4, TouchDoes
<1>6. Backed(used, Object(t, Primary, p))
  <2>1. \E k \in DOMAIN used.ends : used.ends[k] = t
    BY <1>5 DEF TableOfEnd
  <2> QED
    BY <1>2, <1>3, <1>5, <2>1 DEF Backed, Object
<1> HIDE DEF used
<1>7. Found(put, hit, t, Primary, {p})
  BY <1>1, <1>3, <1>5, <1>6, HitIs
<1>8. row = hit.db
  BY DEF hit, used, put
<1>9. Grows(put, row) /\ Cached(row) /\ row \in Dbs /\ row.rows = put.rows /\ row.sec = d.sec
  BY <1>3, <1>7, <1>8 DEF Found, Grows
<1> HIDE DEF hit
<1>10. /\ e \in Dbs /\ e.rows = row.rows /\ e.cache = row.cache /\ e.ends = row.ends
       /\ \A u \in Tables : u # t => e.sec[u] = row.sec[u]
       /\ \A i \in Idx, q \in Pids : q # p \/ row.sec[t][i][q] # None => e.sec[t][i][q] = row.sec[t][i][q]
       /\ StoreBlocked(row, t, p, v) = {} => \A i \in Idx : e.sec[t][i][p] = v[i]
  <2>1. Stored(row, e, t, p, v)
    BY <1>1, <1>9, StoreDoes
  <2> QED
    BY <2>1 DEF Stored
<1>11. Cached(e)
  <2>1. \A u \in Tables, i \in Idx, q \in Pids : row.sec[u][i][q] # None => e.sec[u][i][q] # None
    BY <1>10
  <2> QED
    BY <1>9, <1>10, <2>1, CachedStays
<1>12. Leaves(d, e, h, p, astray)
  <2>1. Len(d.cache) <= Len(e.cache) /\ \A k \in 1..Len(d.cache) : e.cache[k] = d.cache[k]
    BY <1>3, <1>9, <1>10 DEF Grows
  <2>2. \A u \in Tables, q \in Pids : e.rows[u][q] # d.rows[u][q] => u = t /\ q = p
    BY <1>3, <1>9, <1>10
  <2>3. \A u \in Tables : e.sec[u] # d.sec[u] => u = t
    BY <1>9, <1>10
  <2> QED
    BY <1>1, <1>10, <1>11, <2>1, <2>2, <2>3 DEF Leaves
<1>13. ASSUME StoreBlocked(d, t, p, v) = {}, Matches(d) PROVE Matches(e)
  <2>1. StoreBlocked(row, t, p, v) = {}
    BY <1>9, <1>13 DEF StoreBlocked
  <2> SUFFICES ASSUME NEW u \in Tables, NEW i \in Idx, NEW q \in Pids
               PROVE  e.sec[u][i][q] = IF e.rows[u][q] = None THEN None ELSE e.rows[u][q][i]
    BY DEF Matches
  <2>2. CASE u = t /\ q = p
    BY <1>2, <1>3, <1>9, <1>10, <2>1, <2>2
  <2>3. CASE ~(u = t /\ q = p)
    <3>1. e.rows[u][q] = d.rows[u][q]
      BY <1>3, <1>9, <1>10, <2>3
    <3>2. e.sec[u][i][q] = d.sec[u][i][q]
      BY <1>9, <1>10, <2>3
    <3> QED
      BY <1>13, <3>1, <3>2 DEF Matches
  <2> QED
    BY <2>2, <2>3
<1> QED
  BY <1>12, <1>13

\* The row an iterator is on, when the contract may write it.
LEMMA HeldIs ==
    ASSUME NEW d \in Dbs, Cached(d), NEW it \in Iterators, NEW astray \in BOOLEAN,
           Placed(d, it, astray), Writable(d, it.itr), NEW o, o = d.cache[it.itr]
    PROVE  /\ o \in Objects /\ o.idx = Primary /\ o.tab \in Tables /\ o.tab \notin Foreign
           /\ it.tab \in Tables /\ it.pid \in Pids /\ o.pid = it.pid /\ (astray \/ o.tab = it.tab)
           /\ d.rows[o.tab][it.pid] # None
           /\ it.itr \in 1..Len(d.cache)
           /\ \A k \in 1..Len(d.cache) : d.cache[k] = o => k = it.itr
<1>1. Valid(d, it.itr) /\ o.tab \notin Foreign
  BY DEF Writable
<1>2. /\ it.itr \in 1..Len(d.cache) /\ it.itr > 0 /\ o # None /\ o \in Objects
      /\ o.tab \in Tables /\ o.pid \in Pids
  BY <1>1, ValidIs
<1>3. o.idx = Primary /\ o.pid = it.pid /\ (astray \/ o.tab = it.tab)
  BY <1>2 DEF Placed
<1>4. Backed(d, o) /\ \A k \in 1..Len(d.cache) : d.cache[k] = o => k = it.itr
  BY <1>2 DEF Cached
<1>5. d.rows[o.tab][o.pid] # None
  BY <1>3, <1>4 DEF Backed
<1>6. it.tab \in Tables
  BY DEF Iterators
<1> QED
  BY <1>1, <1>2, <1>3, <1>4, <1>5, <1>6

\* The entries of a table, point by point.
LEMMA SameEntries ==
    ASSUME NEW d \in Dbs, NEW e \in Dbs, NEW t \in Tables,
           \A i \in Idx, q \in Pids : e.sec[t][i][q] = d.sec[t][i][q]
    PROVE  e.sec[t] = d.sec[t]
<1>1. /\ d.sec[t] \in [Idx -> [Pids -> Keys \cup {None}]]
      /\ e.sec[t] \in [Idx -> [Pids -> Keys \cup {None}]]
  BY DbParts
<1>2. \A i \in Idx : e.sec[t][i] = d.sec[t][i]
  <2> SUFFICES ASSUME NEW i \in Idx PROVE e.sec[t][i] = d.sec[t][i]
    OBVIOUS
  <2>1. d.sec[t][i] \in [Pids -> Keys \cup {None}] /\ e.sec[t][i] \in [Pids -> Keys \cup {None}]
    BY <1>1
  <2> QED
    BY <2>1
<1> QED
  BY <1>1, <1>2

\* Database e is d with entries of key p updated in table t for row v.
Updated(d, e, t, p, v) ==
    /\ e \in Dbs /\ e.rows = d.rows /\ e.cache = d.cache /\ e.ends = d.ends
    /\ \A u \in Tables : u # t => e.sec[u] = d.sec[u]
    /\ \A i \in Idx, q \in Pids : q # p => e.sec[t][i][q] = d.sec[t][i][q]
    /\ \A i \in Idx : d.sec[t][i][p] # None => e.sec[t][i][p] # None
    /\ t \in Foreign => e.sec[t] = d.sec[t]
    /\ UpdateBlocked(d, t, p, v) = {} => \A i \in Idx : d.sec[t][i][p] # None => e.sec[t][i][p] = v[i]

LEMMA UpdateIndexDoes ==
    ASSUME NEW d \in Dbs, NEW t \in Tables, NEW p \in Pids, NEW v \in Vals,
           NEW e, e = UpdateIndex(d, t, p, v)
    PROVE  Updated(d, e, t, p, v)
<1> DEFINE B == UpdateBlocked(d, t, p, v)
           S == {i \in Idx : i \in Reached(B) /\ d.sec[t][i][p] # None}
           f == [i \in Idx |-> IF i \in Reached(B) /\ d.sec[t][i][p] # None
                               THEN [d.sec[t][i] EXCEPT ![p] = v[i]] ELSE d.sec[t][i]]
           g == [i \in Idx |-> IF i \in S THEN [d.sec[t][i] EXCEPT ![p] = v[i]] ELSE d.sec[t][i]]
<1>1. f = g
  OBVIOUS
<1>2. e = [d EXCEPT !.sec[t] = f]
  BY DEF UpdateIndex
<1>3. EntriesPut(d, t, p, S, v) = [d EXCEPT !.sec[t] = g]
  BY DEF EntriesPut
<1>4. e = EntriesPut(d, t, p, S, v)
  <2> HIDE DEF f, g, S
  <2> QED
    BY <1>1, <1>2, <1>3
<1>5. B \in SUBSET Idx
  BY DEF UpdateBlocked
<1>6. /\ \A i \in Idx : i \in S => i \notin B /\ d.sec[t][i][p] # None
      /\ B = {} => \A i \in Idx : d.sec[t][i][p] # None => i \in S
  BY <1>5, ReachedIs
<1>7. \A i \in Idx : i \in S => v[i] \in Keys /\ (t \in Foreign => v[i] = d.sec[t][i][p])
  BY <1>6 DEF UpdateBlocked, Vals
<1> HIDE DEF f, g, B, S
<1>8. /\ e \in Dbs /\ e.rows = d.rows /\ e.cache = d.cache /\ e.ends = d.ends
      /\ \A u \in Tables : u # t => e.sec[u] = d.sec[u]
      /\ \A i \in Idx, q \in Pids : e.sec[t][i][q] = IF i \in S /\ q = p THEN v[i] ELSE d.sec[t][i][q]
  <2>1. \A i \in Idx : i \in S => v[i] \in Keys \cup {None}
    BY <1>7
  <2> QED
    BY <1>4, <2>1, EntriesPutDoes
<1>9. ASSUME t \in Foreign PROVE e.sec[t] = d.sec[t]
  <2>1. \A i \in Idx, q \in Pids : e.sec[t][i][q] = d.sec[t][i][q]
    BY <1>7, <1>8, <1>9
  <2> QED
    BY <1>8, <2>1, SameEntries
<1>10. \A i \in Idx : d.sec[t][i][p] # None => e.sec[t][i][p] # None
  BY <1>7, <1>8, NoObject
<1>11. B = {} => \A i \in Idx : d.sec[t][i][p] # None => e.sec[t][i][p] = v[i]
  BY <1>6, <1>8
<1> QED
  BY <1>8, <1>9, <1>10, <1>11 DEF B, Updated

\* update writes row p of the table u the iterator is on, and as many of its
\* entries in table t, the iterator's own, as it can.
LEMMA UpdateDoes ==
    ASSUME NEW d \in Dbs, Cached(d), NEW u \in Tables, u \notin Foreign, NEW t \in Tables, NEW p \in Pids,
           d.rows[u][p] # None, NEW astray \in BOOLEAN, astray \/ u = t, NEW v \in Vals,
           NEW row, row = RowPut(d, u, p, v), NEW e, e = UpdateIndex(row, t, p, v)
    PROVE  /\ Leaves(d, e, t, p, astray)
           /\ UpdateBlocked(row, t, p, v) = {} /\ ~astray /\ Matches(d) => Matches(e)
<1>1. v \in Vals \cup {None} /\ v # None
  BY NoObject
<1>2. /\ row \in Dbs /\ row.sec = d.sec /\ row.cache = d.cache /\ row.ends = d.ends
      /\ row.rows[u][p] = v
      /\ \A x \in Tables, q \in Pids : x # u \/ q # p => row.rows[x][q] = d.rows[x][q]
  BY <1>1, RowPutDoes
<1>3. Updated(row, e, t, p, v)
  BY <1>2, UpdateIndexDoes
<1>4. /\ e \in Dbs /\ e.rows = row.rows /\ e.cache = row.cache /\ e.ends = row.ends
      /\ \A x \in Tables : x # t => e.sec[x] = row.sec[x]
      /\ \A i \in Idx, q \in Pids : q # p => e.sec[t][i][q] = row.sec[t][i][q]
      /\ \A i \in Idx : row.sec[t][i][p] # None => e.sec[t][i][p] # None
      /\ UpdateBlocked(row, t, p, v) = {} => \A i \in Idx : row.sec[t][i][p] # None => e.sec[t][i][p] = v[i]
  BY <1>3 DEF Updated
<1>5. t \in Foreign => e.sec[t] = row.sec[t]
  BY <1>3 DEF Updated
<1>6. Cached(e)
  <2>1. \A x \in Tables, q \in Pids : d.rows[x][q] # None => e.rows[x][q] # None
    BY <1>1, <1>2, <1>4
  <2>2. \A x \in Tables, i \in Idx, q \in Pids : d.sec[x][i][q] # None => e.sec[x][i][q] # None
    <3> SUFFICES ASSUME NEW x \in Tables, NEW i \in Idx, NEW q \in Pids, d.sec[x][i][q] # None
                 PROVE  e.sec[x][i][q] # None
      OBVIOUS
    <3>1. CASE x = t /\ q = p
      BY <1>2, <1>4, <3>1
    <3>2. CASE x # t \/ q # p
      BY <1>2, <1>4, <3>2
    <3> QED
      BY <3>1, <3>2
  <2> QED
    BY <1>2, <1>4, <2>1, <2>2, CachedStays
<1>7. Leaves(d, e, t, p, astray)
  <2>1. Len(d.cache) <= Len(e.cache) /\ \A k \in 1..Len(d.cache) : e.cache[k] = d.cache[k]
    BY <1>2, <1>4, DbParts
  <2>2. \A x \in Tables, q \in Pids :
          e.rows[x][q] # d.rows[x][q] => x \notin Foreign /\ q = p /\ (astray \/ x = Home(t))
    BY <1>2, <1>4 DEF Foreign
  <2>3. \A x \in Tables : e.sec[x] # d.sec[x] => x \notin Foreign
    BY <1>2, <1>4, <1>5
  <2> QED
    BY <1>4, <1>6, <2>1, <2>2, <2>3 DEF Leaves
<1>8. ASSUME UpdateBlocked(row, t, p, v) = {}, ~astray, Matches(d) PROVE Matches(e)
  <2>1. u = t
    BY <1>8
  <2> SUFFICES ASSUME NEW x \in Tables, NEW i \in Idx, NEW q \in Pids
               PROVE  e.sec[x][i][q] = IF e.rows[x][q] = None THEN None ELSE e.rows[x][q][i]
    BY DEF Matches
  <2>2. d.sec[x][i][q] = IF d.rows[x][q] = None THEN None ELSE d.rows[x][q][i]
    BY <1>8 DEF Matches
  <2>3. CASE x = t /\ q = p
    <3>1. d.rows[x][q] # None /\ d.rows[x][q] \in Vals
      BY <2>1, <2>3, DbParts
    <3>2. d.rows[x][q][i] # None
      BY <3>1, NoObject DEF Vals
    <3>3. d.sec[t][i][p] # None
      BY <2>2, <2>3, <3>1, <3>2
    <3>4. e.sec[t][i][p] = v[i]
      BY <1>2, <1>4, <1>8, <3>3
    <3> QED
      BY <1>1, <1>2, <1>4, <2>1, <2>3, <3>4
  <2>4. CASE ~(x = t /\ q = p)
    <3>1. e.rows[x][q] = d.rows[x][q]
      BY <1>2, <1>4, <2>1, <2>4
    <3>2. e.sec[x][i][q] = d.sec[x][i][q]
      BY <1>2, <1>4, <2>4
    <3> QED
      BY <2>2, <3>1, <3>2
  <2> QED
    BY <2>3, <2>4
<1> QED
  BY <1>7, <1>8

\* The row of key p of table u taken out, and its place x of the cache; entries
\* of key p taken out of the indexes in S of table t, and their places.
RowTaken(d, u, p, x) == [d EXCEPT !.rows[u][p] = None, !.cache[x] = None]
EntriesTaken(d, t, p, S) ==
    [d EXCEPT !.sec[t] = [i \in Idx |-> IF i \in S THEN [d.sec[t][i] EXCEPT ![p] = None] ELSE d.sec[t][i]],
              !.cache = [k \in DOMAIN @ |-> IF \E i \in S : @[k] = Object(t, i, p) THEN None ELSE @[k]]]

LEMMA RowTakenDoes ==
    ASSUME NEW d \in Dbs, NEW u \in Tables, NEW p \in Pids, NEW x \in 1..Len(d.cache),
           NEW e, e = RowTaken(d, u, p, x)
    PROVE  /\ e \in Dbs /\ e.sec = d.sec /\ e.ends = d.ends /\ e.rows[u][p] = None
           /\ \A y \in Tables, q \in Pids : y # u \/ q # p => e.rows[y][q] = d.rows[y][q]
           /\ Len(e.cache) = Len(d.cache) /\ e.cache[x] = None
           /\ \A k \in 1..Len(d.cache) : k # x => e.cache[k] = d.cache[k]
<1> DEFINE f == [d.rows EXCEPT ![u][p] = None]
           g == [d.cache EXCEPT ![x] = None]
<1>1. e = [rows |-> f, sec |-> d.sec, cache |-> g, ends |-> d.ends]
  BY DEF RowTaken, Dbs
<1>2. d.rows \in [Tables -> [Pids -> Vals \cup {None}]]
  BY DbParts
<1>3. f \in [Tables -> [Pids -> Vals \cup {None}]]
  BY <1>2
<1>4. f[u][p] = None /\ \A y \in Tables, q \in Pids : y # u \/ q # p => f[y][q] = d.rows[y][q]
  BY <1>2
<1>5. d.cache \in Seq(Objects \cup {None})
  BY DbParts
<1>6. /\ g \in Seq(Objects \cup {None}) /\ Len(g) = Len(d.cache) /\ g[x] = None
      /\ \A k \in 1..Len(d.cache) : k # x => g[k] = d.cache[k]
  BY <1>5
<1> HIDE DEF f, g
<1>7. e.rows = f /\ e.sec = d.sec /\ e.cache = g /\ e.ends = d.ends
  BY <1>1
<1>8. e \in Dbs
  BY <1>1, <1>3, <1>6, DbParts DEF Dbs
<1> QED
  BY <1>4, <1>6, <1>7, <1>8

LEMMA EntriesTakenDoes ==
    ASSUME NEW d \in Dbs, NEW t \in Tables, NEW p \in Pids, NEW S,
           NEW e, e = EntriesTaken(d, t, p, S)
    PROVE  /\ e \in Dbs /\ e.rows = d.rows /\ e.ends = d.ends
           /\ \A y \in Tables : y # t => e.sec[y] = d.sec[y]
           /\ \A i \in Idx, q \in Pids : e.sec[t][i][q] = IF i \in S /\ q = p THEN None ELSE d.sec[t][i][q]
           /\ Len(e.cache) = Len(d.cache)
           /\ \A k \in 1..Len(d.cache) :
                e.cache[k] = IF \E i \in S : d.cache[k] = Object(t, i, p) THEN None ELSE d.cache[k]
<1> DEFINE f == [i \in Idx |-> IF i \in S THEN [d.sec[t][i] EXCEPT ![p] = None] ELSE d.sec[t][i]]
           h == [d.sec EXCEPT ![t] = f]
           g == [k \in DOMAIN d.cache |-> IF \E i \in S : d.cache[k] = Object(t, i, p) THEN None ELSE d.cache[k]]
<1>1. e = [rows |-> d.rows, sec |-> h, cache |-> g, ends |-> d.ends]
  BY DEF EntriesTaken, Dbs
<1>2. d.sec \in [Tables -> [Idx -> [Pids -> Keys \cup {None}]]]
  BY DbParts
<1>3. ASSUME NEW i \in Idx
      PROVE  /\ f[i] \in [Pids -> Keys \cup {None}]
             /\ \A q \in Pids : f[i][q] = IF i \in S /\ q = p THEN None ELSE d.sec[t][i][q]
  <2>1. d.sec[t][i] \in [Pids -> Keys \cup {None}]
    BY <1>2
  <2>2. f[i] = IF i \in S THEN [d.sec[t][i] EXCEPT ![p] = None] ELSE d.sec[t][i]
    OBVIOUS
  <2> QED
    BY <2>1, <2>2
<1>4. f \in [Idx -> [Pids -> Keys \cup {None}]]
  BY <1>3
<1>5. h \in [Tables -> [Idx -> [Pids -> Keys \cup {None}]]]
  BY <1>2, <1>4
<1>6. h[t] = f /\ \A y \in Tables : y # t => h[y] = d.sec[y]
  BY <1>2
<1>7. d.cache \in Seq(Objects \cup {None}) /\ Len(d.cache) \in Nat /\ DOMAIN d.cache = 1..Len(d.cache)
  BY DbParts
<1>8. \A k \in 1..Len(d.cache) :
        /\ g[k] = IF \E i \in S : d.cache[k] = Object(t, i, p) THEN None ELSE d.cache[k]
        /\ g[k] \in Objects \cup {None}
  BY <1>7
<1>9. g \in Seq(Objects \cup {None}) /\ Len(g) = Len(d.cache)
  <2>1. g = [k \in 1..Len(d.cache) |-> g[k]]
    BY <1>7
  <2> QED
    BY <1>7, <1>8, <2>1
<1> HIDE DEF f, g, h
<1>10. e.rows = d.rows /\ e.sec = h /\ e.cache = g /\ e.ends = d.ends
  BY <1>1
<1>11. e \in Dbs
  BY <1>1, <1>5, <1>9, DbParts DEF Dbs
<1> QED
  BY <1>3, <1>6, <1>8, <1>9, <1>10, <1>11

\* Database e is d with entries of key p removed from table t, and their places.
Removed(d, e, t, p) ==
    /\ e \in Dbs /\ e.rows = d.rows /\ e.ends = d.ends
    /\ \A y \in Tables : y # t => e.sec[y] = d.sec[y]
    /\ \A i \in Idx, q \in Pids : q # p => e.sec[t][i][q] = d.sec[t][i][q]
    /\ \A i \in Idx : \/ e.sec[t][i][p] = d.sec[t][i][p]
                      \/ \A k \in 1..Len(d.cache) : e.cache[k] # Object(t, i, p)
    /\ Len(e.cache) = Len(d.cache)
    /\ \A k \in 1..Len(d.cache) : e.cache[k] = d.cache[k] \/ e.cache[k] = None
    /\ t \in Foreign => e.sec[t] = d.sec[t]
    /\ RemoveBlocked(d, t, p) = {} => \A i \in Idx : e.sec[t][i][p] = None

LEMMA RemoveIndexDoes ==
    ASSUME NEW d \in Dbs, NEW t \in Tables, NEW p \in Pids, NEW e, e = RemoveIndex(d, t, p)
    PROVE  Removed(d, e, t, p)
<1> DEFINE B == RemoveBlocked(d, t, p)
           S == Reached(B)
<1>1. e = EntriesTaken(d, t, p, S)
  BY DEF RemoveIndex, EntriesTaken
<1>2. B \in SUBSET Idx
  BY DEF RemoveBlocked
<1>3. /\ \A i \in Idx : i \in S => i \notin B
      /\ B = {} => S = Idx
  BY <1>2, ReachedIs
<1>4. t \in Foreign => \A i \in Idx : i \notin S
  BY <1>3 DEF RemoveBlocked
<1> HIDE DEF S
<1>5. /\ e \in Dbs /\ e.rows = d.rows /\ e.ends = d.ends
      /\ \A y \in Tables : y # t => e.sec[y] = d.sec[y]
      /\ \A i \in Idx, q \in Pids : e.sec[t][i][q] = IF i \in S /\ q = p THEN None ELSE d.sec[t][i][q]
      /\ Len(e.cache) = Len(d.cache)
      /\ \A k \in 1..Len(d.cache) :
           e.cache[k] = IF \E i \in S : d.cache[k] = Object(t, i, p) THEN None ELSE d.cache[k]
  BY <1>1, EntriesTakenDoes
<1> HIDE DEF B
<1>6. ASSUME NEW i \in Idx, e.sec[t][i][p] # d.sec[t][i][p], NEW k \in 1..Len(d.cache)
      PROVE  e.cache[k] # Object(t, i, p)
  <2>1. i \in S
    BY <1>5, <1>6
  <2>2. Object(t, i, p) # None
    BY NoObject DEF Object, Objects
  <2> QED
    BY <1>5, <2>1, <2>2
<1>7. ASSUME t \in Foreign PROVE e.sec[t] = d.sec[t]
  <2>1. \A i \in Idx, q \in Pids : e.sec[t][i][q] = d.sec[t][i][q]
    BY <1>4, <1>5, <1>7
  <2> QED
    BY <1>5, <2>1, SameEntries
<1>8. B = {} => \A i \in Idx : e.sec[t][i][p] = None
  BY <1>3, <1>5
<1> QED
  BY <1>5, <1>6, <1>7, <1>8 DEF B, Removed

\* remove takes out row p of the table u the iterator is on, with its place x,
\* and as many of its entries in table t, the iterator's own, as it can.
LEMMA RemoveDoes ==
    ASSUME NEW d \in Dbs, Cached(d), NEW u \in Tables, u \notin Foreign, NEW t \in Tables, NEW p \in Pids,
           NEW x \in 1..Len(d.cache), d.cache[x] = Object(u, Primary, p),
           d.rows[u][p] # None, NEW astray \in BOOLEAN, astray \/ u = t,
           NEW row, row = RowTaken(d, u, p, x), NEW e, e = RemoveIndex(row, t, p)
    PROVE  /\ Leaves(d, e, t, p, astray)
           /\ RemoveBlocked(row, t, p) = {} /\ ~astray /\ Matches(d) => Matches(e)
<1>1. /\ row \in Dbs /\ row.sec = d.sec /\ row.ends = d.ends /\ row.rows[u][p] = None
      /\ \A y \in Tables, q \in Pids : y # u \/ q # p => row.rows[y][q] = d.rows[y][q]
      /\ Len(row.cache) = Len(d.cache) /\ row.cache[x] = None
      /\ \A k \in 1..Len(d.cache) : k # x => row.cache[k] = d.cache[k]
  BY RowTakenDoes
<1>2. Removed(row, e, t, p)
  BY <1>1, RemoveIndexDoes
<1>3. /\ e \in Dbs /\ e.rows = row.rows /\ e.ends = row.ends
      /\ \A y \in Tables : y # t => e.sec[y] = row.sec[y]
      /\ \A i \in Idx, q \in Pids : q # p => e.sec[t][i][q] = row.sec[t][i][q]
      /\ \A i \in Idx : \/ e.sec[t][i][p] = row.sec[t][i][p]
                        \/ \A k \in 1..Len(row.cache) : e.cache[k] # Object(t, i, p)
      /\ Len(e.cache) = Len(row.cache)
      /\ \A k \in 1..Len(row.cache) : e.cache[k] = row.cache[k] \/ e.cache[k] = None
      /\ RemoveBlocked(row, t, p) = {} => \A i \in Idx : e.sec[t][i][p] = None
  BY <1>2 DEF Removed
<1>4. t \in Foreign => e.sec[t] = row.sec[t]
  BY <1>2 DEF Removed
<1>5. /\ Len(e.cache) = Len(d.cache) /\ Len(d.cache) \in Nat /\ e.cache[x] = None
      /\ \A k \in 1..Len(d.cache) : e.cache[k] = d.cache[k] \/ e.cache[k] = None
  <2>1. Len(d.cache) \in Nat
    BY DbParts
  <2>2. e.cache[x] = None
    BY <1>1, <1>3
  <2>3. \A k \in 1..Len(d.cache) : e.cache[k] = d.cache[k] \/ e.cache[k] = None
    BY <1>1, <1>3, <2>2
  <2> QED
    BY <1>1, <1>3, <2>1, <2>2, <2>3
<1>6. Cached(e)
  <2> SUFFICES ASSUME NEW k \in 1..Len(d.cache), e.cache[k] # None
               PROVE  /\ Backed(e, e.cache[k])
                      /\ \A l \in 1..Len(d.cache) : e.cache[l] = e.cache[k] => l = k
    BY <1>5 DEF Cached
  <2>1. e.cache[k] = d.cache[k] /\ d.cache[k] # None
    BY <1>5
  <2>2. PICK o \in Objects : o = d.cache[k]
    BY <2>1, DbParts
  <2>3. o.tab \in Tables /\ o.idx \in Idx \cup {Primary} /\ o.pid \in Pids /\ o = Object(o.tab, o.idx, o.pid)
    BY DEF Objects, Object
  <2>4. /\ Backed(d, o)
        /\ \A l \in 1..Len(d.cache) : d.cache[l] = o => l = k
    BY <2>1, <2>2 DEF Cached
  <2>5. \A l \in 1..Len(d.cache) : e.cache[l] = e.cache[k] => l = k
    BY <1>5, <2>1, <2>2, <2>4
  <2>6. CASE o.idx = Primary
    <3>1. d.rows[o.tab][o.pid] # None /\ \E m \in DOMAIN d.ends : d.ends[m] = o.tab
      BY <2>4, <2>6 DEF Backed
    <3>2. ~(o.tab = u /\ o.pid = p)
      <4> SUFFICES ASSUME o.tab = u, o.pid = p PROVE FALSE
        OBVIOUS
      <4>1. o = Object(u, Primary, p)
        BY <2>3, <2>6
      <4>2. x = k
        BY <2>4, <4>1
      <4> QED
        BY <1>5, <4>2
    <3>3. e.rows[o.tab][o.pid] # None
      BY <1>1, <1>3, <2>3, <3>1, <3>2
    <3>4. \E m \in DOMAIN e.ends : e.ends[m] = o.tab
      BY <1>1, <1>3, <3>1
    <3>5. Backed(e, o)
      BY <2>6, <3>3, <3>4 DEF Backed
    <3> QED
      BY <2>1, <2>2, <2>5, <3>5
  <2>7. CASE o.idx # Primary
    <3>1. o.idx \in Idx /\ d.sec[o.tab][o.idx][o.pid] # None
      BY <2>3, <2>4, <2>7 DEF Backed
    <3>2. PICK i \in Idx : i = o.idx
      BY <3>1
    <3>3. e.sec[o.tab][i][o.pid] = d.sec[o.tab][i][o.pid]
      <4>1. CASE o.tab = t /\ o.pid = p
        <5>1. e.cache[k] = Object(t, i, p)
          BY <2>1, <2>2, <2>3, <3>2, <4>1
        <5>2. k \in 1..Len(row.cache)
          BY <1>1
        <5>3. e.sec[t][i][p] = row.sec[t][i][p]
          BY <1>3, <5>1, <5>2
        <5> QED
          BY <1>1, <4>1, <5>3
      <4>2. CASE o.tab # t \/ o.pid # p
        BY <1>1, <1>3, <2>3, <4>2
      <4> QED
        BY <4>1, <4>2
    <3>4. Backed(e, o)
      BY <2>7, <3>1, <3>2, <3>3 DEF Backed
    <3> QED
      BY <2>1, <2>2, <2>5, <3>4
  <2> QED
    BY <2>6, <2>7
<1>7. Leaves(d, e, t, p, astray)
  <2>1. \A y \in Tables, q \in Pids :
          e.rows[y][q] # d.rows[y][q] => y \notin Foreign /\ q = p /\ (astray \/ y = Home(t))
    BY <1>1, <1>3 DEF Foreign
  <2>2. \A y \in Tables : e.sec[y] # d.sec[y] => y \notin Foreign
    BY <1>1, <1>3, <1>4
  <2>3. Len(d.cache) <= Len(e.cache)
    BY <1>5
  <2> QED
    BY <1>3, <1>5, <1>6, <2>1, <2>2, <2>3 DEF Leaves
<1>8. ASSUME RemoveBlocked(row, t, p) = {}, ~astray, Matches(d) PROVE Matches(e)
  <2>1. u = t
    BY <1>8
  <2> SUFFICES ASSUME NEW y \in Tables, NEW i \in Idx, NEW q \in Pids
               PROVE  e.sec[y][i][q] = IF e.rows[y][q] = None THEN None ELSE e.rows[y][q][i]
    BY DEF Matches
  <2>2. d.sec[y][i][q] = IF d.rows[y][q] = None THEN None ELSE d.rows[y][q][i]
    BY <1>8 DEF Matches
  <2>3. CASE y = t /\ q = p
    BY <1>1, <1>3, <1>8, <2>1, <2>3
  <2>4. CASE ~(y = t /\ q = p)
    <3>1. e.rows[y][q] = d.rows[y][q]
      BY <1>1, <1>3, <2>1, <2>4
    <3>2. e.sec[y][i][q] = d.sec[y][i][q]
      BY <1>1, <1>3, <2>4
    <3> QED
      BY <2>2, <3>1, <3>2
  <2> QED
    BY <2>3, <2>4
<1> QED
  BY <1>7, <1>8

----------------------------------------------------------------------------
(* The calls of the contract: each one throws, answers something or gives   *)
(* out an iterator.                                                         *)

Threw == \E d, t, p : Leaves(db, d, t, p, strayed) /\ Throws(d, t, p)

Answered ==
    \E d, what, t, p :
        /\ Leaves(db, d, t, p, strayed)
        /\ Matches(db) /\ ~strayed => Matches(d)
        /\ Answers(d, what, t, p)
        /\ UNCHANGED itrs

Gave == \E s, d, it : s \in Slots /\ Shown(db, d, it) /\ Gives(s, d, it)

LEMMA GrowsMatches == ASSUME NEW d, NEW e, Grows(d, e), Matches(d) PROVE Matches(e)
BY DEF Grows, Matches

LEMMA ThrewAsIs ==
    ASSUME db \in Dbs, Cached(db), NEW t, NEW p, Throws(db, t, p)
    PROVE  Threw
<1>1. Leaves(db, db, t, p, strayed)
  BY GrowsSame, GrowsLeaves
<1> QED
  BY <1>1 DEF Threw

LEMMA AnsweredGrown ==
    ASSUME NEW d, Grows(db, d), Cached(d), NEW what, NEW t, NEW p, Answers(d, what, t, p), UNCHANGED itrs
    PROVE  Answered
<1>1. Leaves(db, d, t, p, strayed)
  BY GrowsLeaves
<1>2. Matches(db) /\ ~strayed => Matches(d)
  BY GrowsMatches
<1> QED
  BY <1>1, <1>2 DEF Answered

LEMMA GaveRow ==
    ASSUME db \in Dbs, NEW s \in Slots, NEW t \in Tables, NEW r, NEW u, NEW S, Found(db, r, u, Primary, S),
           NEW p \in Nat, NEW y \in Int, y = r.itr \/ (r.itr < 0 /\ y = -2),
           Gives(s, r.db, Iterator(r.db, t, y, p, Primary, -1))
    PROVE  Gave
<1>1. PICK it : it = Iterator(r.db, t, y, p, Primary, -1)
  OBVIOUS
<1>2. Shown(db, r.db, it)
  BY <1>1, RowIterator
<1> QED
  BY <1>1, <1>2 DEF Gave

LEMMA GaveRowOf ==
    ASSUME db \in Dbs, NEW s \in Slots, NEW t \in Tables, NEW i \in Idx, NEW S \in SUBSET EntriesOf(db, t, i),
           NEW r, Found(db, r, t, i, S), GivesRowOf(s, r, t, i)
    PROVE  Gave
<1>1. Shown(db, RowOf(r, t, i).db, RowOf(r, t, i).it)
  BY EntryIterator
<1> QED
  BY <1>1 DEF Gave, GivesRowOf

LEMMA FindCall ==
    ASSUME db \in Dbs, Cached(db), NEW s \in Slots, NEW t \in Tables, NEW p \in Pids, Find(s, t, p)
    PROVE  Gave
<1>1. PICK r : r = Search(db, t, RowsOf(db, t) \cap {p})
  OBVIOUS
<1>2. Found(db, r, t, Primary, RowsOf(db, t) \cap {p})
  BY <1>1, SearchFinds
<1>3. Gives(s, r.db, Iterator(r.db, t, r.itr, p, Primary, -1))
  BY <1>1 DEF Find
<1>4. r.itr \in Int /\ p \in Nat
  BY <1>2, PidsAre DEF Found
<1> QED
  BY <1>2, <1>3, <1>4, GaveRow

LEMMA BoundCall ==
    ASSUME db \in Dbs, Cached(db), NEW s \in Slots, NEW t \in Tables, NEW p \in Pids \cup {MaxPid + 1},
           Bound(s, t, p)
    PROVE  Gave
<1> DEFINE S == {q \in RowsOf(db, t) : q >= p}
<1>1. PICK r : r = Search(db, t, S)
  OBVIOUS
<1>2. Found(db, r, t, Primary, S)
  BY <1>1, SearchFinds
<1>3. PICK y : y = AtEnd(r.itr)
  OBVIOUS
<1>4. Gives(s, r.db, Iterator(r.db, t, y, p, Primary, -1))
  BY <1>1, <1>3 DEF Bound
<1>5. r.itr \in Int
  BY <1>2 DEF Found
<1>6. y \in Int /\ (y = r.itr \/ (r.itr < 0 /\ y = -2))
  BY <1>3, <1>5 DEF AtEnd
<1>7. p \in Nat
  BY PidsAre
<1> HIDE DEF S
<1> QED
  BY <1>2, <1>4, <1>6, <1>7, GaveRow

LEMMA IndexCalls ==
    ASSUME db \in Dbs, Cached(db), NEW s \in Slots, NEW t \in Tables, NEW i \in Idx, NEW k \in Keys,
           IndexFind(s, t, i, k) \/ IndexLowerbound(s, t, i, k) \/ IndexUpperbound(s, t, i, k)
    PROVE  Gave
<1>1. PICK S \in SUBSET EntriesOf(db, t, i) : GivesRowOf(s, SearchIndex(db, t, i, S), t, i)
  <2>1. CASE IndexFind(s, t, i, k)
    <3> DEFINE S == {p \in EntriesOf(db, t, i) : db.sec[t][i][p] = k}
    <3>1. GivesRowOf(s, SearchIndex(db, t, i, S), t, i)
      BY <2>1 DEF IndexFind, IndexSearch
    <3> QED
      BY <3>1
  <2>2. CASE IndexLowerbound(s, t, i, k)
    <3> DEFINE S == {p \in EntriesOf(db, t, i) : db.sec[t][i][p] >= k}
    <3>1. GivesRowOf(s, SearchIndex(db, t, i, S), t, i)
      BY <2>2 DEF IndexLowerbound, IndexSearch
    <3> QED
      BY <3>1
  <2>3. CASE IndexUpperbound(s, t, i, k)
    <3> DEFINE S == {p \in EntriesOf(db, t, i) : db.sec[t][i][p] > k}
    <3>1. GivesRowOf(s, SearchIndex(db, t, i, S), t, i)
      BY <2>3 DEF IndexUpperbound, IndexSearch
    <3> QED
      BY <3>1
  <2> QED
    BY <2>1, <2>2, <2>3
<1>2. PICK r : r = SearchIndex(db, t, i, S)
  OBVIOUS
<1>3. Found(db, r, t, i, S)
  BY <1>2, SearchIndexFinds
<1> QED
  BY <1>1, <1>2, <1>3, GaveRowOf

\* An iterator the contract holds.
LEMMA Held ==
    ASSUME TypeOK, InPlace, NEW s \in Slots, itrs[s] # None, NEW it, it = itrs[s]
    PROVE  /\ db \in Dbs /\ Cached(db) /\ strayed \in BOOLEAN
           /\ it \in Iterators /\ Placed(db, it, strayed)
           /\ it.tab \in Tables /\ it.itr \in Int /\ it.idxItr \in Int /\ it.pid \in Nat
<1>1. db \in Dbs /\ Cached(db) /\ strayed \in BOOLEAN /\ it \in Iterators
  BY DEF TypeOK, InPlace
<1>2. Placed(db, it, strayed)
  BY DEF InPlace
<1> QED
  BY <1>1, <1>2 DEF Iterators

\* Where an iterator is on the primary key and on an index, when it is there.
LEMMA OnRow ==
    ASSUME db \in Dbs, NEW it \in Iterators, Placed(db, it, strayed), Valid(db, it.itr)
    PROVE  db.cache[it.itr].idx = Primary
<1>1. it.itr > 0 /\ db.cache[it.itr] # None
  BY ValidIs
<1> QED
  BY <1>1 DEF Placed

LEMMA OnEntry ==
    ASSUME db \in Dbs, NEW it \in Iterators, Placed(db, it, strayed), Valid(db, it.idxItr)
    PROVE  /\ it.idx \in Idx /\ db.cache[it.idxItr].idx = it.idx /\ db.cache[it.idxItr].tab = it.tab
           /\ db.cache[it.idxItr].pid \in Pids
<1>1. it.idxItr > 0 /\ db.cache[it.idxItr] # None /\ db.cache[it.idxItr].pid \in Pids
  BY ValidIs
<1>2. it.idxItr # -1
  BY <1>1
<1> QED
  BY <1>1, <1>2 DEF Placed

LEMMA FirstOfFinds ==
    ASSUME db \in Dbs, Cached(db), NEW it \in Iterators, Placed(db, it, strayed)
    PROVE  Grows(db, FirstOf(it).db) /\ Cached(FirstOf(it).db)
<1>1. PICK r : r = IF it.idxItr = -1 THEN Search(db, it.tab, RowsOf(db, it.tab))
                   ELSE SearchIndex(db, it.tab, it.idx, EntriesOf(db, it.tab, it.idx))
  OBVIOUS
<1>2. FirstOf(it).db = r.db
  BY <1>1 DEF FirstOf
<1>3. it.tab \in Tables
  BY DEF Iterators
<1>4. CASE it.idxItr = -1
  <2>1. r = Search(db, it.tab, RowsOf(db, it.tab))
    BY <1>1, <1>4
  <2>2. Found(db, r, it.tab, Primary, RowsOf(db, it.tab))
    BY <1>3, <2>1, SearchFinds
  <2> QED
    BY <1>2, <2>2 DEF Found
<1>5. CASE it.idxItr # -1
  <2>1. r = SearchIndex(db, it.tab, it.idx, EntriesOf(db, it.tab, it.idx))
    BY <1>1, <1>5
  <2>2. it.idx \in Idx
    BY <1>5 DEF Placed
  <2>3. Found(db, r, it.tab, it.idx, EntriesOf(db, it.tab, it.idx))
    BY <1>3, <2>1, <2>2, SearchIndexFinds
  <2> QED
    BY <1>2, <2>3 DEF Found
<1> QED
  BY <1>4, <1>5

LEMMA IsBeginCall ==
    ASSUME TypeOK, InPlace, NEW s \in Slots, IsBegin(s)
    PROVE  Answered
<1>1. PICK it : it = itrs[s]
  OBVIOUS
<1>2. PICK d : d = FirstOf(it).db
  OBVIOUS
<1>3. itrs[s] # None /\ Answers(d, "read", it.tab, it.pid) /\ UNCHANGED itrs
  BY <1>1, <1>2 DEF IsBegin
<1>4. db \in Dbs /\ Cached(db) /\ it \in Iterators /\ Placed(db, it, strayed)
  BY <1>1, <1>3, Held
<1>5. Grows(db, d) /\ Cached(d)
  BY <1>2, <1>4, FirstOfFinds
<1> QED
  BY <1>3, <1>5, AnsweredGrown

LEMMA NextCall ==
    ASSUME TypeOK, InPlace, NEW s \in Slots, Next1(s)
    PROVE  Threw \/ Gave
<1>1. PICK it : it = itrs[s]
  OBVIOUS
<1>2. itrs[s] # None
  BY DEF Next1
<1>3. /\ db \in Dbs /\ Cached(db) /\ it \in Iterators /\ Placed(db, it, strayed)
      /\ it.tab \in Tables /\ it.itr \in Int /\ it.idxItr \in Int
  BY <1>1, <1>2, Held
<1>4. CASE it.idxItr = -1
  <2>1. PICK r : r = NextRow(db, it.itr)
    OBVIOUS
  <2>2. IF it.itr < -1 \/ Valid(db, it.itr)
        THEN Gives(s, r.db, Iterator(r.db, it.tab, r.itr, r.pid, Primary, -1))
        ELSE Throws(db, it.tab, it.pid)
    BY <1>1, <1>4, <2>1 DEF Next1
  <2>3. CASE it.itr < -1 \/ Valid(db, it.itr)
    <3>1. it.itr < -1 \/ (Valid(db, it.itr) /\ db.cache[it.itr].idx = Primary)
      BY <1>3, <2>3, OnRow
    <3>2. PICK t, S : Found(db, r, t, Primary, S)
      BY <1>3, <2>1, <3>1, NextRowFinds
    <3>3. r.itr \in Int /\ r.pid \in Nat
      BY <3>2 DEF Found
    <3>4. Gives(s, r.db, Iterator(r.db, it.tab, r.itr, r.pid, Primary, -1))
      BY <2>2, <2>3
    <3>5. Gave
      BY <1>3, <3>2, <3>3, <3>4, GaveRow
    <3> QED
      BY <3>5
  <2>4. CASE ~(it.itr < -1 \/ Valid(db, it.itr))
    BY <1>3, <2>2, <2>4, ThrewAsIs
  <2> QED
    BY <2>3, <2>4
<1>5. CASE it.idxItr # -1
  <2>1. PICK o : o = db.cache[it.idxItr]
    OBVIOUS
  <2>2. PICK S : S = {p \in EntriesOf(db, o.tab, o.idx) : Below(db, o.tab, o.idx, o.pid, p)}
    OBVIOUS
  <2>3. PICK r : r = IF it.idxItr < -1 THEN Missed(db, -1) ELSE SearchIndex(db, o.tab, o.idx, S)
    OBVIOUS
  <2>4. IF it.idxItr < -1 \/ Valid(db, it.idxItr) THEN GivesRowOf(s, r, it.tab, it.idx)
        ELSE Throws(db, it.tab, it.pid)
    BY <1>1, <1>5, <2>1, <2>2, <2>3 DEF Next1
  <2>5. it.idx \in Idx
    BY <1>3, <1>5 DEF Placed
  <2>6. CASE it.idxItr < -1
    <3>1. r = Missed(db, -1)
      BY <2>3, <2>6
    <3>2. Found(db, r, it.tab, it.idx, {})
      BY <1>3, <3>1, GrowsSame, MissedIs
    <3>3. GivesRowOf(s, r, it.tab, it.idx)
      BY <2>4, <2>6
    <3>4. {} \in SUBSET EntriesOf(db, it.tab, it.idx)
      OBVIOUS
    <3>5. Gave
      BY <1>3, <2>5, <3>2, <3>3, <3>4, GaveRowOf
    <3> QED
      BY <3>5
  <2>7. CASE ~(it.idxItr < -1) /\ Valid(db, it.idxItr)
    <3>1. o.idx = it.idx /\ o.tab = it.tab
      BY <1>3, <2>1, <2>7, OnEntry
    <3>2. r = SearchIndex(db, it.tab, it.idx, S) /\ S \in SUBSET EntriesOf(db, it.tab, it.idx)
      BY <2>2, <2>3, <2>7, <3>1
    <3>3. Found(db, r, it.tab, it.idx, S)
      BY <1>3, <2>5, <3>2, SearchIndexFinds
    <3>4. GivesRowOf(s, r, it.tab, it.idx)
      BY <2>4, <2>7
    <3>5. Gave
      BY <1>3, <2>5, <3>2, <3>3, <3>4, GaveRowOf
    <3> QED
      BY <3>5
  <2>8. CASE ~(it.idxItr < -1 \/ Valid(db, it.idxItr))
    BY <1>3, <2>4, <2>8, ThrewAsIs
  <2> QED
    BY <2>6, <2>7, <2>8
<1> QED
  BY <1>4, <1>5

LEMMA PreviousCall ==
    ASSUME TypeOK, InPlace, NEW s \in Slots, Previous(s)
    PROVE  Threw \/ Gave
<1>1. PICK it : it = itrs[s]
  OBVIOUS
<1>2. itrs[s] # None
  BY DEF Previous
<1>3. /\ db \in Dbs /\ Cached(db) /\ it \in Iterators /\ Placed(db, it, strayed)
      /\ it.tab \in Tables /\ it.itr \in Int /\ it.idxItr \in Int
  BY <1>1, <1>2, Held
<1>4. CASE it.idxItr = -1
  <2>1. PICK r : r = PreviousRow(db, it.itr)
    OBVIOUS
  <2>2. IF (it.itr < -1 /\ -1 - it.itr \in DOMAIN db.ends) \/ Valid(db, it.itr)
        THEN Gives(s, r.db, Iterator(r.db, it.tab, r.itr, r.pid, Primary, -1))
        ELSE Throws(db, it.tab, it.pid)
    BY <1>1, <1>4, <2>1 DEF Previous
  <2>3. CASE (it.itr < -1 /\ -1 - it.itr \in DOMAIN db.ends) \/ Valid(db, it.itr)
    <3>1. (it.itr < -1 /\ -1 - it.itr \in DOMAIN db.ends) \/ (Valid(db, it.itr) /\ db.cache[it.itr].idx = Primary)
      BY <1>3, <2>3, OnRow
    <3>2. PICK t, S : Found(db, r, t, Primary, S)
      BY <1>3, <2>1, <3>1, PreviousRowFinds
    <3>3. r.itr \in Int /\ r.pid \in Nat
      BY <3>2 DEF Found
    <3>4. Gives(s, r.db, Iterator(r.db, it.tab, r.itr, r.pid, Primary, -1))
      BY <2>2, <2>3
    <3>5. Gave
      BY <1>3, <3>2, <3>3, <3>4, GaveRow
    <3> QED
      BY <3>5
  <2>4. CASE ~((it.itr < -1 /\ -1 - it.itr \in DOMAIN db.ends) \/ Valid(db, it.itr))
    BY <1>3, <2>2, <2>4, ThrewAsIs
  <2> QED
    BY <2>3, <2>4
<1>5. CASE it.idxItr # -1
  <2>1. PICK o : o = db.cache[it.idxItr]
    OBVIOUS
  <2>2. PICK S : S = {p \in EntriesOf(db, o.tab, o.idx) : Below(db, o.tab, o.idx, p, o.pid)}
    OBVIOUS
  <2>3. PICK r : r = IF it.idxItr < -1 THEN LastEntry(db, it.tab, it.idx, EntriesOf(db, it.tab, it.idx))
                     ELSE LastEntry(db, o.tab, o.idx, S)
    OBVIOUS
  <2>4. IF it.idxItr < -1 \/ Valid(db, it.idxItr) THEN GivesRowOf(s, r, it.tab, it.idx)
        ELSE Throws(db, it.tab, it.pid)
    BY <1>1, <1>5, <2>1, <2>2, <2>3 DEF Previous
  <2>5. it.idx \in Idx
    BY <1>3, <1>5 DEF Placed
  <2>6. CASE it.idxItr < -1
    <3>1. r = LastEntry(db, it.tab, it.idx, EntriesOf(db, it.tab, it.idx))
      BY <2>3, <2>6
    <3>2. Found(db, r, it.tab, it.idx, EntriesOf(db, it.tab, it.idx))
      BY <1>3, <2>5, <3>1, LastEntryFinds
    <3>3. GivesRowOf(s, r, it.tab, it.idx)
      BY <2>4, <2>6
    <3>4. Gave
      BY <1>3, <2>5, <3>2, <3>3, GaveRowOf
    <3> QED
      BY <3>4
  <2>7. CASE ~(it.idxItr < -1) /\ Valid(db, it.idxItr)
    <3>1. o.idx = it.idx /\ o.tab = it.tab
      BY <1>3, <2>1, <2>7, OnEntry
    <3>2. r = LastEntry(db, it.tab, it.idx, S) /\ S \in SUBSET EntriesOf(db, it.tab, it.idx)
      BY <2>2, <2>3, <2>7, <3>1
    <3>3. Found(db, r, it.tab, it.idx, S)
      BY <1>3, <2>5, <3>2, LastEntryFinds
    <3>4. GivesRowOf(s, r, it.tab, it.idx)
      BY <2>4, <2>7
    <3>5. Gave
      BY <1>3, <2>5, <3>2, <3>3, <3>4, GaveRowOf
    <3> QED
      BY <3>5
  <2>8. CASE ~(it.idxItr < -1 \/ Valid(db, it.idxItr))
    BY <1>3, <2>4, <2>8, ThrewAsIs
  <2> QED
    BY <2>6, <2>7, <2>8
<1> QED
  BY <1>4, <1>5

\* What get_primary_key searches: the end of the table, and the row before it.
LEMMA EndFinds ==
    ASSUME db \in Dbs, Cached(db), NEW t \in Tables, NEW e, e = Search(db, t, {}), NEW r, r = PreviousRow(e.db, e.itr)
    PROVE  /\ Grows(db, e.db) /\ Cached(e.db)
           /\ e.itr = -1 => RowsOf(db, t) = {}
           /\ e.itr # -1 => /\ Grows(db, r.db) /\ Cached(r.db)
                            /\ IF RowsOf(db, t) = {} THEN r.itr = -1
                               ELSE r.itr > 0 /\ r.pid = Greatest(RowsOf(db, t))
<1>1. {} \in SUBSET RowsOf(db, t)
  OBVIOUS
<1>2. Found(db, e, t, Primary, {})
  BY <1>1, SearchFinds
<1>3. Grows(db, e.db) /\ Cached(e.db)
  BY <1>2 DEF Found
<1>4. CASE ~TableExists(db, t)
  <2>1. e = Missed(db, -1)
    BY <1>4 DEF Search
  <2>2. e.itr = -1
    BY <2>1 DEF Missed
  <2>3. RowsOf(db, t) = {}
    BY <1>4 DEF TableExists
  <2> QED
    BY <1>3, <2>2, <2>3
<1>5. CASE TableExists(db, t)
  <2>1. PICK c : c = Touch(db, t)
    OBVIOUS
  <2>2. /\ c \in Dbs /\ c.rows = db.rows /\ Cached(c)
        /\ EndOf(c, t) \in Int /\ EndOf(c, t) < -1
        /\ -1 - EndOf(c, t) \in DOMAIN c.ends /\ TableOfEnd(c, EndOf(c, t)) = t
    BY <2>1, TouchDoes
  <2>3. e = Missed(c, EndOf(c, t))
    BY <1>5, <2>1 DEF Search
  <2>4. e.db = c /\ e.itr = EndOf(c, t)
    BY <2>3 DEF Missed
  <2>5. PICK x \in Int : x = EndOf(c, t)
    BY <2>2
  <2>6. r = PreviousRow(c, x) /\ x < -1 /\ -1 - x \in DOMAIN c.ends /\ TableOfEnd(c, x) = t
    BY <2>2, <2>4, <2>5
  <2>7. /\ \E y, S : Found(c, r, y, Primary, S)
        /\ x < -1 => IF RowsOf(c, TableOfEnd(c, x)) = {} THEN r.itr = -1
                     ELSE r.itr > 0 /\ r.pid = Greatest(RowsOf(c, TableOfEnd(c, x)))
    BY <2>2, <2>6, PreviousRowFinds
  <2>8. Grows(c, r.db) /\ Cached(r.db)
    BY <2>7 DEF Found
  <2>9. Grows(db, r.db)
    BY <1>3, <2>4, <2>8, GrowsFurther
  <2>10. RowsOf(c, t) = RowsOf(db, t)
    BY <2>2 DEF RowsOf
  <2>11. e.itr # -1
    BY <2>2, <2>4
  <2> QED
    BY <1>3, <2>6, <2>7, <2>8, <2>9, <2>10, <2>11
<1> QED
  BY <1>4, <1>5

LEMMA GetPrimaryKeyCall ==
    ASSUME db \in Dbs, Cached(db), NEW t \in Tables, GetPrimaryKey(t)
    PROVE  Answered
<1>1. PICK e : e = Search(db, t, {})
  OBVIOUS
<1>2. PICK r : r = PreviousRow(e.db, e.itr)
  OBVIOUS
<1>3. /\ IF e.itr = -1 THEN Answers(e.db, "key", t, 0)
         ELSE Answers(r.db, "key", t, IF r.itr = -1 THEN 0 ELSE (r.pid + 1) % (MaxPid + 1))
      /\ UNCHANGED itrs
  BY <1>1, <1>2 DEF GetPrimaryKey, EndItr
<1>4. /\ Grows(db, e.db) /\ Cached(e.db)
      /\ e.itr # -1 => Grows(db, r.db) /\ Cached(r.db)
  BY <1>1, <1>2, EndFinds
<1>5. CASE e.itr = -1
  BY <1>3, <1>4, <1>5, AnsweredGrown
<1>6. CASE e.itr # -1
  BY <1>3, <1>4, <1>6, AnsweredGrown
<1> QED
  BY <1>5, <1>6

LEMMA EmplaceCall ==
    ASSUME db \in Dbs, Cached(db), NEW h \in Tables, NEW p \in Pids, NEW v \in Vals, Emplace(h, p, v)
    PROVE  Threw \/ Answered
<1>1. PICK t : t = Home(h)
  OBVIOUS
<1>2. PICK row : row = Hit(Touch(RowPut(db, t, p, v), t), Object(t, Primary, p)).db
  OBVIOUS
<1>3. PICK e : e = StoreIndex(row, t, p, v)
  OBVIOUS
<1>4. IF db.rows[t][p] # None THEN Throws(db, h, p)
      ELSE IF StoreBlocked(db, t, p, v) # {} THEN Throws(e, h, p)
      ELSE Answers(e, "write", h, p) /\ UNCHANGED itrs
  BY <1>1, <1>2, <1>3 DEF Emplace, Target, RowPut
<1>5. CASE db.rows[t][p] # None
  BY <1>4, <1>5, ThrewAsIs
<1>6. CASE db.rows[t][p] = None
  <2>1. /\ Leaves(db, e, h, p, strayed)
        /\ StoreBlocked(db, t, p, v) = {} /\ Matches(db) => Matches(e)
    BY <1>1, <1>2, <1>3, <1>6, EmplaceDoes
  <2>2. CASE StoreBlocked(db, t, p, v) # {}
    BY <1>4, <1>6, <2>1, <2>2 DEF Threw
  <2>3. CASE StoreBlocked(db, t, p, v) = {}
    BY <1>4, <1>6, <2>1, <2>3 DEF Answered
  <2> QED
    BY <2>2, <2>3
<1> QED
  BY <1>5, <1>6

LEMMA UpdateCall ==
    ASSUME TypeOK, InPlace, NEW s \in Slots, NEW v \in Vals, Update(s, v)
    PROVE  Threw \/ Answered
<1>1. PICK it : it = itrs[s]
  OBVIOUS
<1>2. itrs[s] # None
  BY DEF Update
<1>3. /\ db \in Dbs /\ Cached(db) /\ it \in Iterators /\ Placed(db, it, strayed) /\ strayed \in BOOLEAN
      /\ it.tab \in Tables
  BY <1>1, <1>2, Held
<1>4. PICK o : o = db.cache[it.itr]
  OBVIOUS
<1>5. PICK row : row = RowPut(db, o.tab, o.pid, v)
  OBVIOUS
<1>6. PICK e : e = UpdateIndex(row, it.tab, it.pid, v)
  OBVIOUS
<1>7. IF ~Writable(db, it.itr) THEN Throws(db, it.tab, it.pid)
      ELSE IF UpdateBlocked(row, it.tab, it.pid, v) # {} THEN Throws(e, it.tab, it.pid)
      ELSE Answers(e, "write", it.tab, it.pid) /\ UNCHANGED itrs
  BY <1>1, <1>4, <1>5, <1>6 DEF Update, RowPut
<1>8. CASE ~Writable(db, it.itr)
  BY <1>3, <1>7, <1>8, ThrewAsIs
<1>9. CASE Writable(db, it.itr)
  <2>1. /\ o.tab \in Tables /\ o.tab \notin Foreign /\ it.pid \in Pids /\ o.pid = it.pid
        /\ strayed \/ o.tab = it.tab
        /\ db.rows[o.tab][it.pid] # None
    BY <1>3, <1>4, <1>9, HeldIs
  <2>2. row = RowPut(db, o.tab, it.pid, v)
    BY <1>5, <2>1
  <2>3. /\ Leaves(db, e, it.tab, it.pid, strayed)
        /\ UpdateBlocked(row, it.tab, it.pid, v) = {} /\ ~strayed /\ Matches(db) => Matches(e)
    BY <1>3, <1>6, <2>1, <2>2, UpdateDoes
  <2>4. CASE UpdateBlocked(row, it.tab, it.pid, v) # {}
    BY <1>7, <1>9, <2>3, <2>4 DEF Threw
  <2>5. CASE UpdateBlocked(row, it.tab, it.pid, v) = {}
    BY <1>7, <1>9, <2>3, <2>5 DEF Answered
  <2> QED
    BY <2>4, <2>5
<1> QED
  BY <1>8, <1>9

LEMMA RemoveCall ==
    ASSUME TypeOK, InPlace, NEW s \in Slots, Remove(s)
    PROVE  Threw \/ Answered
<1>1. PICK it : it = itrs[s]
  OBVIOUS
<1>2. itrs[s] # None
  BY DEF Remove
<1>3. /\ db \in Dbs /\ Cached(db) /\ it \in Iterators /\ Placed(db, it, strayed) /\ strayed \in BOOLEAN
      /\ it.tab \in Tables
  BY <1>1, <1>2, Held
<1>4. PICK o : o = db.cache[it.itr]
  OBVIOUS
<1>5. PICK row : row = RowTaken(db, o.tab, o.pid, it.itr)
  OBVIOUS
<1>6. PICK e : e = RemoveIndex(row, it.tab, it.pid)
  OBVIOUS
<1>7. IF ~Writable(db, it.itr) THEN Throws(db, it.tab, it.pid)
      ELSE IF RemoveBlocked(row, it.tab, it.pid) # {} THEN Throws(e, it.tab, it.pid)
      ELSE Answers(e, "write", it.tab, it.pid) /\ UNCHANGED itrs
  BY <1>1, <1>4, <1>5, <1>6 DEF Remove, RowTaken
<1>8. CASE ~Writable(db, it.itr)
  BY <1>3, <1>7, <1>8, ThrewAsIs
<1>9. CASE Writable(db, it.itr)
  <2>1. /\ o \in Objects /\ o.idx = Primary /\ o.tab \in Tables /\ o.tab \notin Foreign
        /\ it.pid \in Pids /\ o.pid = it.pid
        /\ strayed \/ o.tab = it.tab
        /\ db.rows[o.tab][it.pid] # None
        /\ it.itr \in 1..Len(db.cache)
    BY <1>3, <1>4, <1>9, HeldIs
  <2>2. db.cache[it.itr] = Object(o.tab, Primary, it.pid)
    BY <1>4, <2>1 DEF Object, Objects
  <2>3. row = RowTaken(db, o.tab, it.pid, it.itr)
    BY <1>5, <2>1
  <2>4. /\ Leaves(db, e, it.tab, it.pid, strayed)
        /\ RemoveBlocked(row, it.tab, it.pid) = {} /\ ~strayed /\ Matches(db) => Matches(e)
    BY <1>3, <1>6, <2>1, <2>2, <2>3, RemoveDoes
  <2>5. CASE RemoveBlocked(row, it.tab, it.pid) # {}
    BY <1>7, <1>9, <2>4, <2>5 DEF Threw
  <2>6. CASE RemoveBlocked(row, it.tab, it.pid) = {}
    BY <1>7, <1>9, <2>4, <2>6 DEF Answered
  <2> QED
    BY <2>5, <2>6
<1> QED
  BY <1>8, <1>9

LEMMA EachCall ==
    ASSUME TypeOK, InPlace, Next
    PROVE  StartAction \/ EndAction \/ (running /\ (Threw \/ Answered \/ Gave))
<1>1. db \in Dbs /\ Cached(db)
  BY DEF TypeOK, InPlace
<1>2. CASE StartAction \/ EndAction
  BY <1>2
<1>3. ASSUME NEW t \in Tables, NEW p \in Pids, NEW v \in Vals, Emplace(t, p, v)
      PROVE  running /\ (Threw \/ Answered)
  BY <1>1, <1>3, EmplaceCall DEF Emplace, InAction
<1>4. ASSUME NEW t \in Tables, GetPrimaryKey(t)
      PROVE  running /\ Answered
  BY <1>1, <1>4, GetPrimaryKeyCall DEF GetPrimaryKey, InAction
<1>5. ASSUME NEW s \in Slots, NEW t \in Tables, NEW p \in Pids, Find(s, t, p)
      PROVE  running /\ Gave
  BY <1>1, <1>5, FindCall DEF Find, InAction
<1>6. ASSUME NEW s \in Slots, NEW t \in Tables, NEW p \in Pids \cup {MaxPid + 1}, Bound(s, t, p)
      PROVE  running /\ Gave
  BY <1>1, <1>6, BoundCall DEF Bound, InAction
<1>7. ASSUME NEW s \in Slots, NEW t \in Tables, NEW i \in Idx, NEW k \in Keys,
             IndexFind(s, t, i, k) \/ IndexLowerbound(s, t, i, k) \/ IndexUpperbound(s, t, i, k)
      PROVE  running /\ Gave
  <2>1. running
    BY <1>7 DEF IndexFind, IndexLowerbound, IndexUpperbound, IndexSearch, InAction
  <2> QED
    BY <1>1, <1>7, <2>1, IndexCalls
<1>8. ASSUME NEW s \in Slots, Next1(s) PROVE running /\ (Threw \/ Gave)
  BY <1>8, NextCall DEF Next1, InAction
<1>9. ASSUME NEW s \in Slots, Previous(s) PROVE running /\ (Threw \/ Gave)
  BY <1>9, PreviousCall DEF Previous, InAction
<1>10. ASSUME NEW s \in Slots, Remove(s) PROVE running /\ (Threw \/ Answered)
  BY <1>10, RemoveCall DEF Remove, InAction
<1>11. ASSUME NEW s \in Slots, IsBegin(s) PROVE running /\ Answered
  BY <1>11, IsBeginCall DEF IsBegin, InAction
<1>12. ASSUME NEW s \in Slots, NEW v \in Vals, Update(s, v) PROVE running /\ (Threw \/ Answered)
  BY <1>12, UpdateCall DEF Update, InAction
<1> QED
  BY <1>2, <1>3, <1>4, <1>5, <1>6, <1>7, <1>8, <1>9, <1>10, <1>11, <1>12 DEF Next

----------------------------------------------------------------------------
(* What holds of every step.                                                *)

LEMMA FirstDbIs ==
    /\ FirstDb \in Dbs /\ FirstDb.cache = <<>>
    /\ Matches(FirstDb)
<1> DEFINE Has(t, p) == t \in Foreign /\ p = Least(Pids)
           z == [i \in Idx |-> 0]
           f == [t \in Tables |-> [p \in Pids |-> IF Has(t, p) THEN z ELSE None]]
           g == [t \in Tables |-> [i \in Idx |-> [p \in Pids |-> IF Has(t, p) THEN 0 ELSE None]]]
<1>1. FirstDb = [rows |-> f, sec |-> g, cache |-> <<>>, ends |-> <<>>]
  BY DEF FirstDb
<1>2. z \in Vals /\ \A i \in Idx : z[i] = 0
  BY KeysAssumption DEF Vals
<1>3. z # None
  BY <1>2, NoObject
<1> HIDE DEF z, Has
<1>4. f \in [Tables -> [Pids -> Vals \cup {None}]]
  BY <1>2
<1>5. g \in [Tables -> [Idx -> [Pids -> Keys \cup {None}]]]
  BY KeysAssumption
<1>6. \A t \in Tables, i \in Idx, p \in Pids :
        /\ f[t][p] = IF Has(t, p) THEN z ELSE None
        /\ g[t][i][p] = IF Has(t, p) THEN 0 ELSE None
  OBVIOUS
<1> HIDE DEF f, g
<1>7. FirstDb.rows = f /\ FirstDb.sec = g /\ FirstDb.cache = <<>>
  BY <1>1
<1>8. FirstDb \in Dbs
  BY <1>1, <1>4, <1>5 DEF Dbs
<1>9. Matches(FirstDb)
  BY <1>2, <1>3, <1>6, <1>7 DEF Matches
<1> QED
  BY <1>7, <1>8, <1>9

LEMMA EmptyCached == ASSUME NEW d, d.cache = <<>> PROVE Cached(d)
BY DEF Cached

LEMMA StartHolds == Init => TypeOK /\ InPlace /\ Synced
<1> SUFFICES ASSUME Init PROVE TypeOK /\ InPlace /\ Synced
  OBVIOUS
<1>1. /\ db = FirstDb /\ saved = None /\ catches \in BOOLEAN /\ strayed = FALSE /\ running = FALSE
      /\ itrs = [s \in Slots |-> None]
  BY DEF Init
<1>2. db \in Dbs /\ db.cache = <<>> /\ Matches(db)
  BY <1>1, FirstDbIs
<1>3. itrs \in [Slots -> Iterators \cup {None}] /\ \A s \in Slots : itrs[s] = None
  BY <1>1
<1>4. Cached(db)
  BY <1>2, EmptyCached
<1>5. TypeOK
  BY <1>1, <1>2, <1>3 DEF TypeOK
<1>6. InPlace
  BY <1>3, <1>4 DEF InPlace
<1>7. Synced
  BY <1>1, <1>2 DEF Synced
<1> QED
  BY <1>5, <1>6, <1>7

LEMMA GaveKeeps ==
    ASSUME TypeOK, InPlace, Synced, running, Gave
    PROVE  TypeOK' /\ InPlace' /\ Synced'
<1>1. PICK s, d, it : s \in Slots /\ Shown(db, d, it) /\ Gives(s, d, it)
  BY DEF Gave
<1>2. /\ db' = d /\ itrs' = [itrs EXCEPT ![s] = it]
      /\ strayed' = (strayed \/ (it.itr > 0 /\ d.cache[it.itr].tab # it.tab))
      /\ saved' = saved /\ catches' = catches /\ running' = running
  BY <1>1 DEF Gives, Returns
<1>3. PICK astray \in BOOLEAN : astray = strayed'
  BY <1>2
<1>4. (strayed => astray) /\ (it.itr > 0 /\ d.cache[it.itr].tab # it.tab => astray)
  BY <1>2, <1>3
<1>5. Grows(db, d) /\ Cached(d) /\ it \in Iterators /\ Placed(d, it, astray)
  BY <1>1, <1>4 DEF Shown
<1>6. db \in Dbs /\ strayed \in BOOLEAN /\ itrs \in [Slots -> Iterators \cup {None}]
  BY DEF TypeOK
<1>7. \A q \in Slots : itrs'[q] = IF q = s THEN it ELSE itrs[q]
  BY <1>2, <1>6
<1>8. TypeOK'
  <2>1. db' \in Dbs
    BY <1>2, <1>5 DEF Grows
  <2>2. itrs' \in [Slots -> Iterators \cup {None}]
    BY <1>2, <1>5, <1>6
  <2>3. strayed' \in BOOLEAN
    BY <1>3
  <2> QED
    BY <1>2, <2>1, <2>2, <2>3 DEF TypeOK
<1>9. InPlace'
  <2>1. ASSUME NEW q \in Slots, itrs'[q] # None
        PROVE  Placed(d, itrs'[q], astray)
    <3>1. CASE q = s
      BY <1>5, <1>7, <3>1
    <3>2. CASE q # s
      <4>1. itrs'[q] = itrs[q] /\ itrs[q] # None
        BY <1>7, <2>1, <3>2
      <4>2. itrs[q] \in Iterators /\ Placed(db, itrs[q], strayed)
        BY <1>6, <4>1 DEF InPlace
      <4>3. Leaves(db, d, None, None, strayed)
        BY <1>5, GrowsLeaves
      <4>4. Placed(d, itrs[q], astray)
        BY <1>4, <1>6, <4>2, <4>3, PlacedStays
      <4> QED
        BY <4>1, <4>4
    <3> QED
      BY <3>1, <3>2
  <2> QED
    BY <1>2, <1>3, <1>5, <2>1 DEF InPlace
<1>10. Synced'
  <2> SUFFICES ASSUME ~catches', ~strayed' PROVE Matches(db') /\ (running' => Matches(saved'))
    BY DEF Synced
  <2>1. Matches(db) /\ Matches(saved)
    BY <1>2 DEF Synced
  <2>2. Matches(d)
    BY <1>5, <2>1, GrowsMatches
  <2> QED
    BY <1>2, <2>1, <2>2
<1> QED
  BY <1>8, <1>9, <1>10

LEMMA LeftInPlace ==
    ASSUME TypeOK, InPlace, NEW d, NEW h, NEW p, Leaves(db, d, h, p, strayed)
    PROVE  Cached(d) /\ \A q \in Slots : itrs[q] # None => Placed(d, itrs[q], strayed)
<1>1. db \in Dbs /\ strayed \in BOOLEAN /\ itrs \in [Slots -> Iterators \cup {None}]
  BY DEF TypeOK
<1>2. ASSUME NEW q \in Slots, itrs[q] # None
      PROVE  Placed(d, itrs[q], strayed)
  <2>1. itrs[q] \in Iterators /\ Placed(db, itrs[q], strayed)
    BY <1>1, <1>2 DEF InPlace
  <2> QED
    BY <1>1, <2>1, PlacedStays
<1>3. Cached(d)
  BY DEF Leaves
<1> QED
  BY <1>2, <1>3

LEMMA AnsweredKeeps ==
    ASSUME TypeOK, InPlace, Synced, running, Answered
    PROVE  TypeOK' /\ InPlace' /\ Synced'
<1>1. PICK d, what, t, p :
        /\ Leaves(db, d, t, p, strayed)
        /\ Matches(db) /\ ~strayed => Matches(d)
        /\ Answers(d, what, t, p)
        /\ UNCHANGED itrs
  BY DEF Answered
<1>2. /\ db' = d /\ itrs' = itrs /\ strayed' = strayed
      /\ saved' = saved /\ catches' = catches /\ running' = running
  BY <1>1 DEF Answers, Returns
<1>3. TypeOK'
  BY <1>1, <1>2 DEF TypeOK, Leaves
<1>4. InPlace'
  BY <1>1, <1>2, LeftInPlace DEF InPlace
<1>5. Synced'
  BY <1>1, <1>2 DEF Synced
<1> QED
  BY <1>3, <1>4, <1>5

LEMMA ThrewKeeps ==
    ASSUME TypeOK, InPlace, Synced, running, Threw
    PROVE  TypeOK' /\ InPlace' /\ Synced'
<1>1. PICK d, t, p : Leaves(db, d, t, p, strayed) /\ Throws(d, t, p)
  BY DEF Threw
<1>2. strayed' = strayed /\ catches' = catches
  BY <1>1 DEF Throws
<1>3. CASE catches
  <2>1. db' = d /\ itrs' = itrs /\ saved' = saved /\ running' = running
    BY <1>1, <1>3 DEF Throws
  <2>2. TypeOK'
    BY <1>1, <1>2, <1>3, <2>1 DEF TypeOK, Leaves
  <2>3. InPlace'
    BY <1>1, <1>2, <2>1, LeftInPlace DEF InPlace
  <2>4. Synced'
    BY <1>2, <1>3 DEF Synced
  <2> QED
    BY <2>2, <2>3, <2>4
<1>4. CASE ~catches
  <2>1. db' = saved /\ itrs' = [s \in Slots |-> None] /\ running' = FALSE
    BY <1>1, <1>4 DEF Throws
  <2>2. saved \in Dbs /\ saved.cache = <<>>
    BY <1>4 DEF TypeOK
  <2>3. itrs' \in [Slots -> Iterators \cup {None}] /\ \A s \in Slots : itrs'[s] = None
    BY <2>1
  <2>4. TypeOK'
    BY <1>2, <2>1, <2>2, <2>3 DEF TypeOK
  <2>5. InPlace'
    BY <2>1, <2>2, <2>3, EmptyCached DEF InPlace
  <2>6. Synced'
    BY <1>2, <2>1 DEF Synced
  <2> QED
    BY <2>4, <2>5, <2>6
<1> QED
  BY <1>3, <1>4

LEMMA ActionKeeps ==
    ASSUME TypeOK, InPlace, Synced, StartAction \/ EndAction
    PROVE  TypeOK' /\ InPlace' /\ Synced'
<1>1. CASE StartAction
  <2>1. /\ ~running /\ running' = TRUE /\ db' = db /\ catches' = catches /\ strayed' = strayed /\ itrs' = itrs
        /\ saved' = IF catches THEN None ELSE db
    BY <1>1 DEF StartAction
  <2>2. TypeOK'
    BY <2>1 DEF TypeOK
  <2>3. InPlace'
    BY <2>1 DEF InPlace
  <2>4. Synced'
    BY <2>1 DEF Synced
  <2> QED
    BY <2>2, <2>3, <2>4
<1>2. CASE EndAction
  <2>1. /\ running' = FALSE /\ catches' = catches /\ strayed' = strayed
        /\ db' = NotRunning(db) /\ itrs' = [s \in Slots |-> None]
    BY <1>2 DEF EndAction
  <2>2. db \in Dbs
    BY DEF TypeOK
  <2>3. db' \in Dbs /\ db'.cache = <<>> /\ db'.rows = db.rows /\ db'.sec = db.sec
    <3>1. db' = [rows |-> db.rows, sec |-> db.sec, cache |-> <<>>, ends |-> <<>>]
      BY <2>1, <2>2 DEF NotRunning, Dbs
    <3>2. <<>> \in Seq(Objects \cup {None}) /\ <<>> \in Seq(Tables)
      OBVIOUS
    <3> QED
      BY <2>2, <3>1, <3>2, DbParts DEF Dbs
  <2>4. itrs' \in [Slots -> Iterators \cup {None}] /\ \A s \in Slots : itrs'[s] = None
    BY <2>1
  <2>5. TypeOK'
    BY <2>1, <2>3, <2>4 DEF TypeOK
  <2>6. InPlace'
    BY <2>3, <2>4, EmptyCached DEF InPlace
  <2>7. Matches(db) => Matches(db')
    BY <2>3 DEF Matches
  <2>8. Synced'
    BY <2>1, <2>7 DEF Synced
  <2> QED
    BY <2>5, <2>6, <2>8
<1> QED
  BY <1>1, <1>2

\* The inductive invariant: the types, the places of the iterators in the cache
\* of the action, and rows and entries that match.
LEMMA Inductive == Spec => [](TypeOK /\ InPlace /\ Synced)
<1>1. Init => TypeOK /\ InPlace /\ Synced
  BY StartHolds
<1>2. TypeOK /\ InPlace /\ Synced /\ [Next]_vars => (TypeOK /\ InPlace /\ Synced)'
  <2> SUFFICES ASSUME TypeOK, InPlace, Synced, [Next]_vars
               PROVE  TypeOK' /\ InPlace' /\ Synced'
    OBVIOUS
  <2>1. CASE Next
    BY <2>1, EachCall, ActionKeeps, ThrewKeeps, AnsweredKeeps, GaveKeeps
  <2>2. CASE UNCHANGED vars
    BY <2>2 DEF vars, TypeOK, InPlace, Synced
  <2> QED
    BY <2>1, <2>2
<1> QED
  BY <1>1, <1>2, PTL DEF Spec

----------------------------------------------------------------------------
(* Theorems.                                                                *)

\* The database, the cache of the action and the iterators of the contract
\* keep their types, and an error goes back to a database with an empty cache
\* (apply_context).
THEOREM TypeCorrect == Spec => []TypeOK
BY Inductive, PTL

\* The place an iterator holds is, as long as the row is there, the place of
\* the row it was loaded with, and of an entry of its own index; and the cache
\* holds no row or entry that is gone, and none twice (DBIterator.cpp, and the
\* iterator cache of apply_context as DBIterator.cpp relies on it).
THEOREM IteratorsInPlace == Spec => []InPlace
BY Inductive, PTL

\* Every row has exactly one entry in every index, under the key its data
\* gives, and there is no other entry (store_index, update_index,
\* remove_index).
THEOREM RowsHaveEntries == Spec => []IndexMatchesRows
<1>1. Synced => IndexMatchesRows
  BY DEF Synced, Matches, IndexMatchesRows
<1> QED
  BY <1>1, Inductive, PTL

\* An iterator is at its end exactly when it has no data, if no row has the key
\* 2^64 - 1 that stands for none (is_end).
THEOREM EndIsEnd == ASSUME MaxPid \notin Pids PROVE Spec => []EndMeansNoData
<1>1. Init => EndMeansNoData
  <2> SUFFICES ASSUME Init PROVE EndMeansNoData
    OBVIOUS
  <2>1. \A s \in Slots : itrs[s] = None
    BY DEF Init
  <2> QED
    BY <2>1 DEF EndMeansNoData
<1>2. TypeOK /\ InPlace /\ Synced /\ EndMeansNoData /\ [Next]_vars => EndMeansNoData'
  <2> SUFFICES ASSUME TypeOK, InPlace, Synced, EndMeansNoData, [Next]_vars,
                      ~catches', ~strayed', NEW s \in Slots, itrs'[s] # None
               PROVE  IsEnd(itrs'[s]) <=> ~HasData(itrs'[s])
    BY DEF EndMeansNoData
  <2>1. ASSUME itrs'[s] = itrs[s], catches' = catches, strayed => strayed'
        PROVE  IsEnd(itrs'[s]) <=> ~HasData(itrs'[s])
    BY <2>1 DEF EndMeansNoData
  <2>2. CASE StartAction
    BY <2>1, <2>2 DEF StartAction
  <2>3. CASE EndAction
    BY <2>3 DEF EndAction
  <2>4. CASE Threw
    <3>1. PICK d, t, p : Throws(d, t, p)
      BY <2>4 DEF Threw
    <3>2. CASE catches
      BY <2>1, <3>1, <3>2 DEF Throws
    <3>3. CASE ~catches
      BY <3>1, <3>3 DEF Throws
    <3> QED
      BY <3>2, <3>3
  <2>5. CASE Answered
    BY <2>1, <2>5 DEF Answered, Answers, Returns
  <2>6. CASE Gave
    <3>1. PICK q, d, it : q \in Slots /\ Shown(db, d, it) /\ Gives(q, d, it)
      BY <2>6 DEF Gave
    <3>2. /\ itrs' = [itrs EXCEPT ![q] = it] /\ catches' = catches
          /\ strayed' = (strayed \/ (it.itr > 0 /\ d.cache[it.itr].tab # it.tab))
      BY <3>1 DEF Gives, Returns
    <3>3. ~catches /\ ~strayed
      BY <3>2
    <3>4. itrs'[s] = IF s = q THEN it ELSE itrs[s]
      BY <3>2 DEF TypeOK
    <3>5. IsEnd(it) <=> ~HasData(it)
      BY <3>1, <3>3 DEF Shown, Synced
    <3>6. CASE s = q
      BY <3>4, <3>5, <3>6
    <3>7. CASE s # q
      <4>1. itrs'[s] = itrs[s] /\ catches' = catches /\ (strayed => strayed')
        BY <3>2, <3>3, <3>4, <3>7
      <4> QED
        BY <2>1, <4>1
    <3> QED
      BY <3>6, <3>7
  <2>7. CASE UNCHANGED vars
    BY <2>1, <2>7 DEF vars
  <2> QED
    BY <2>2, <2>3, <2>4, <2>5, <2>6, <2>7, EachCall
<1> QED
  BY <1>1, <1>2, Inductive, PTL DEF Spec

\* A call changes no row but the one it was given, in the receiver's table of
\* that name unless an iterator strayed, and no row or entry of another code
\* (emplace, update, remove; db_store_i64, db_update_i64, db_remove_i64).
THEOREM OwnRow == Spec => WritesOwnRow
<1>1. ASSUME TypeOK, InPlace, [Next]_vars, running, running', NEW t \in Tables
      PROVE  /\ \A p \in Pids : db'.rows[t][p] # db.rows[t][p] =>
                   t \notin Foreign /\ p = last'.pid /\ (strayed \/ t = Home(last'.tab))
             /\ db'.sec[t] # db.sec[t] => t \notin Foreign
  <2>1. ASSUME NEW d, NEW h, NEW x, Leaves(db, d, h, x, strayed), db' = d, last'.tab = h, last'.pid = x
        PROVE  /\ \A p \in Pids : db'.rows[t][p] # db.rows[t][p] =>
                     t \notin Foreign /\ p = last'.pid /\ (strayed \/ t = Home(last'.tab))
               /\ db'.sec[t] # db.sec[t] => t \notin Foreign
    BY <2>1 DEF Leaves
  <2>2. ASSUME db'.rows = db.rows, db'.sec = db.sec
        PROVE  /\ \A p \in Pids : db'.rows[t][p] # db.rows[t][p] =>
                     t \notin Foreign /\ p = last'.pid /\ (strayed \/ t = Home(last'.tab))
               /\ db'.sec[t] # db.sec[t] => t \notin Foreign
    BY <2>2
  <2>3. CASE StartAction \/ EndAction
    BY <1>1, <2>3 DEF StartAction, EndAction
  <2>4. CASE Threw
    <3>1. PICK d, h, p : Leaves(db, d, h, p, strayed) /\ Throws(d, h, p)
      BY <2>4 DEF Threw
    <3>2. catches
      BY <1>1, <3>1 DEF Throws
    <3>3. db' = d /\ last'.tab = h /\ last'.pid = p
      BY <3>1, <3>2 DEF Throws, Called
    <3> QED
      BY <2>1, <3>1, <3>3
  <2>5. CASE Answered
    <3>1. PICK d, what, h, p : Leaves(db, d, h, p, strayed) /\ Answers(d, what, h, p)
      BY <2>5 DEF Answered
    <3>2. db' = d /\ last'.tab = h /\ last'.pid = p
      BY <3>1 DEF Answers, Returns, Called
    <3> QED
      BY <2>1, <3>1, <3>2
  <2>6. CASE Gave
    <3>1. PICK s, d, it : s \in Slots /\ Shown(db, d, it) /\ Gives(s, d, it)
      BY <2>6 DEF Gave
    <3>2. db' = d /\ d.rows = db.rows /\ d.sec = db.sec
      BY <3>1 DEF Gives, Returns, Shown, Grows
    <3> QED
      BY <2>2, <3>2
  <2>7. CASE UNCHANGED vars
    BY <2>2, <2>7 DEF vars
  <2> QED
    BY <1>1, <2>3, <2>4, <2>5, <2>6, <2>7, EachCall
<1>2. TypeOK /\ InPlace /\ [Next]_vars =>
        [running /\ running' => \A t \in Tables :
           /\ \A p \in Pids : db'.rows[t][p] # db.rows[t][p] =>
                 t \notin Foreign /\ p = last'.pid /\ (strayed \/ t = Home(last'.tab))
           /\ db'.sec[t] # db.sec[t] => t \notin Foreign]_vars
  BY <1>1
<1> QED
  BY <1>2, Inductive, PTL DEF Spec, WritesOwnRow

LEMMA OnlyGetPrimaryKey ==
    ASSUME Next, last'.call = "key"
    PROVE  \E t \in Tables : GetPrimaryKey(t)
<1>1. ASSUME NEW d, NEW t, NEW p, Throws(d, t, p) PROVE FALSE
  BY <1>1 DEF Throws, Called
<1>2. ASSUME NEW d, NEW what, NEW t, NEW p, Answers(d, what, t, p), what # "key" PROVE FALSE
  BY <1>2 DEF Answers, Returns, Called
<1>3. ASSUME NEW s, NEW d, NEW it, Gives(s, d, it) PROVE FALSE
  BY <1>3 DEF Gives, Returns, Called
<1>4. CASE StartAction \/ EndAction
  BY <1>4 DEF StartAction, EndAction, Called
<1>5. ASSUME NEW t \in Tables, NEW p \in Pids, NEW v \in Vals, Emplace(t, p, v) PROVE FALSE
  BY <1>1, <1>2, <1>5 DEF Emplace
<1>6. ASSUME NEW s \in Slots, NEW t \in Tables, NEW p \in Pids, Find(s, t, p) PROVE FALSE
  BY <1>3, <1>6 DEF Find
<1>7. ASSUME NEW s \in Slots, NEW t \in Tables, NEW p \in Pids \cup {MaxPid + 1}, Bound(s, t, p) PROVE FALSE
  BY <1>3, <1>7 DEF Bound
<1>8. ASSUME NEW s \in Slots, NEW t \in Tables, NEW i \in Idx, NEW k \in Keys,
             IndexFind(s, t, i, k) \/ IndexLowerbound(s, t, i, k) \/ IndexUpperbound(s, t, i, k)
      PROVE  FALSE
  BY <1>3, <1>8 DEF IndexFind, IndexLowerbound, IndexUpperbound, IndexSearch, GivesRowOf
<1>9. ASSUME NEW s \in Slots, Next1(s) PROVE FALSE
  BY <1>1, <1>3, <1>9 DEF Next1, GivesRowOf
<1>10. ASSUME NEW s \in Slots, Previous(s) PROVE FALSE
  BY <1>1, <1>3, <1>10 DEF Previous, GivesRowOf
<1>11. ASSUME NEW s \in Slots, Remove(s) PROVE FALSE
  BY <1>1, <1>2, <1>11 DEF Remove
<1>12. ASSUME NEW s \in Slots, IsBegin(s) PROVE FALSE
  BY <1>2, <1>12 DEF IsBegin
<1>13. ASSUME NEW s \in Slots, NEW v \in Vals, Update(s, v) PROVE FALSE
  BY <1>1, <1>2, <1>13 DEF Update
<1> QED
  BY <1>4, <1>5, <1>6, <1>7, <1>8, <1>9, <1>10, <1>11, <1>12, <1>13 DEF Next

\* The key get_primary_key gives out is above every key in use, if none is the
\* last there is.
THEOREM KeyIsFresh == ASSUME MaxPid \notin Pids PROVE Spec => FreshKey
<1>1. ASSUME TypeOK, InPlace, Next, last'.call = "key", NEW p \in RowsOf(db, last'.tab)
      PROVE  p < last'.pid
  <2>1. PICK t \in Tables : GetPrimaryKey(t)
    BY <1>1, OnlyGetPrimaryKey
  <2>2. PICK e : e = Search(db, t, {})
    OBVIOUS
  <2>3. PICK r : r = PreviousRow(e.db, e.itr)
    OBVIOUS
  <2>4. IF e.itr = -1 THEN Answers(e.db, "key", t, 0)
        ELSE Answers(r.db, "key", t, IF r.itr = -1 THEN 0 ELSE (r.pid + 1) % (MaxPid + 1))
    BY <2>1, <2>2, <2>3 DEF GetPrimaryKey, EndItr
  <2>5. last'.tab = t
    BY <2>4 DEF Answers, Returns, Called
  <2>6. p \in RowsOf(db, t)
    BY <1>1, <2>5
  <2>7. db \in Dbs /\ Cached(db)
    BY <1>1 DEF TypeOK, InPlace
  <2>8. e.itr # -1 /\ r.itr > 0 /\ r.pid = Greatest(RowsOf(db, t))
    BY <2>2, <2>3, <2>6, <2>7, EndFinds
  <2>9. RowsOf(db, t) \in SUBSET Pids /\ RowsOf(db, t) # {}
    BY <2>6 DEF RowsOf
  <2>10. r.pid \in Pids /\ r.pid >= p
    BY <2>6, <2>8, <2>9, GreatestIs
  <2>11. r.pid \in Nat /\ p \in Nat /\ MaxPid \in Nat /\ r.pid <= MaxPid /\ r.pid # MaxPid
    <3>1. p \in Pids
      BY <2>6, <2>9
    <3>2. r.pid # MaxPid
      BY <2>10
    <3> QED
      BY <2>10, <3>1, <3>2, PidsAre
  <2>12. r.itr # -1
    BY <2>8
  <2>13. last'.pid = (r.pid + 1) % (MaxPid + 1)
    BY <2>4, <2>8, <2>12 DEF Answers, Returns, Called
  <2>14. r.pid + 1 \in 0..MaxPid
    BY <2>11
  <2>15. (r.pid + 1) % (MaxPid + 1) = r.pid + 1
    BY <2>11, <2>14
  <2> QED
    BY <2>10, <2>11, <2>13, <2>15
<1>2. TypeOK /\ InPlace /\ [Next]_vars =>
        [last'.call = "key" => \A p \in RowsOf(db, last'.tab) : p < last'.pid]_vars
  BY <1>1
<1> QED
  BY <1>2, Inductive, PTL DEF Spec, FreshKey

\* A search leads to place x exactly when the cache holds there what it found.
LeadsTo(d, r, t, i, S, x) ==
    (r.itr = x) <=> (S # {} /\ d.cache[x] = Object(t, i, r.pid))

LEMMA FoundAt ==
    ASSUME NEW d \in Dbs, NEW t \in Tables, NEW i \in Idx \cup {Primary}, NEW S \in SUBSET Pids,
           NEW r, Found(d, r, t, i, S), NEW x \in 1..Len(d.cache)
    PROVE  LeadsTo(d, r, t, i, S, x)
<1>1. Grows(d, r.db) /\ Cached(r.db) /\ r.itr \in Int
  BY DEF Found
<1>2. Len(d.cache) \in Nat /\ Len(r.db.cache) \in Nat
  BY <1>1, DbParts DEF Grows
<1>3. x \in 1..Len(r.db.cache) /\ r.db.cache[x] = d.cache[x]
  BY <1>1, <1>2 DEF Grows
<1>4. ASSUME r.itr = x PROVE S # {} /\ d.cache[x] = Object(t, i, r.pid)
  <2>1. S # {}
    BY <1>2, <1>4 DEF Found
  <2> QED
    BY <1>3, <1>4, <2>1 DEF Found
<1>5. ASSUME S # {}, d.cache[x] = Object(t, i, r.pid) PROVE r.itr = x
  <2>1. r.itr > 0 /\ r.itr <= Len(r.db.cache) /\ r.db.cache[r.itr] = Object(t, i, r.pid) /\ r.pid \in S
    BY <1>5 DEF Found
  <2>2. r.itr \in 1..Len(r.db.cache)
    BY <1>1, <1>2, <2>1
  <2>3. r.db.cache[x] = r.db.cache[r.itr]
    BY <1>3, <1>5, <2>1
  <2>4. Object(t, i, r.pid) \in Objects
    BY <2>1 DEF Object, Objects
  <2>5. r.db.cache[x] # None
    BY <1>3, <1>5, <2>4, NoObject
  <2> QED
    BY <1>1, <1>3, <2>2, <2>3, <2>5 DEF Cached
<1> QED
  BY <1>4, <1>5 DEF LeadsTo

\* is_begin says yes for an iterator on the first row of its table or the first
\* entry of its index, and for no other that is or was on a row.
THEOREM FirstIsFirst == Spec => []BeginIsFirst
<1>1. ASSUME TypeOK, InPlace, NEW s \in Slots, itrs[s] # None,
             NEW it, it = itrs[s], NEW x, x = (IF it.idxItr = -1 THEN it.itr ELSE it.idxItr), x > 0,
             NEW o, o = db.cache[x]
      PROVE  FirstOf(it).same <=>
               /\ Valid(db, x)
               /\ o.tab = it.tab
               /\ IF it.idxItr = -1 THEN \A p \in RowsOf(db, o.tab) : o.pid <= p
                  ELSE \A p \in EntriesOf(db, o.tab, o.idx) \ {o.pid} : Below(db, o.tab, o.idx, o.pid, p)
  <2>1. /\ db \in Dbs /\ Cached(db) /\ it \in Iterators /\ Placed(db, it, strayed)
        /\ it.tab \in Tables /\ it.itr \in Int /\ it.idxItr \in Int
    BY <1>1, Held
  <2>2. x \in 1..Len(db.cache) /\ (Valid(db, x) <=> db.cache[x] # None)
    <3>1. Len(db.cache) \in Nat /\ DOMAIN db.cache = 1..Len(db.cache)
      BY <2>1, DbParts
    <3>2. x \in Int /\ x <= Len(db.cache)
      BY <1>1, <2>1 DEF Placed
    <3> QED
      BY <1>1, <3>1, <3>2 DEF Valid
  <2>3. CASE it.idxItr = -1
    <3>1. PICK r : r = Search(db, it.tab, RowsOf(db, it.tab))
      OBVIOUS
    <3>2. FirstOf(it).same <=> r.itr = x
      BY <1>1, <2>3, <3>1 DEF FirstOf
    <3>3. PICK S : S = RowsOf(db, it.tab)
      OBVIOUS
    <3>4. S \in SUBSET Pids
      BY <3>3 DEF RowsOf
    <3>5. Found(db, r, it.tab, Primary, S) /\ (S # {} => \A q \in S : r.pid <= q)
      BY <2>1, <3>1, <3>3, SearchFinds
    <3>6. r.itr = x <=> S # {} /\ o = Object(it.tab, Primary, r.pid)
      <4>1. Primary \in Idx \cup {Primary}
        OBVIOUS
      <4>2. db \in Dbs /\ it.tab \in Tables /\ x \in 1..Len(db.cache)
        BY <2>1, <2>2
      <4>3. LeadsTo(db, r, it.tab, Primary, S, x)
        BY <3>4, <3>5, <4>1, <4>2, FoundAt
      <4> QED
        BY <1>1, <4>3 DEF LeadsTo
    <3>7. ASSUME S # {}, o = Object(it.tab, Primary, r.pid)
          PROVE  Valid(db, x) /\ o.tab = it.tab /\ \A p \in RowsOf(db, o.tab) : o.pid <= p
      <4>1. o.tab = it.tab /\ o.pid = r.pid
        BY <3>7 DEF Object
      <4>2. o \in Objects
        BY <2>1, <3>4, <3>5, <3>7 DEF Found, Object, Objects
      <4>3. Valid(db, x)
        BY <1>1, <2>2, <4>2, NoObject
      <4> QED
        BY <3>3, <3>5, <3>7, <4>1, <4>3
    <3>8. ASSUME Valid(db, x), o.tab = it.tab, \A p \in RowsOf(db, o.tab) : o.pid <= p
          PROVE  S # {} /\ o = Object(it.tab, Primary, r.pid)
      <4>1. o \in Objects /\ o # None /\ o.pid \in Pids
        BY <1>1, <2>1, <3>8, ValidIs
      <4>2. o.idx = Primary
        BY <1>1, <2>1, <2>3, <3>8, OnRow
      <4>3. Backed(db, o)
        BY <1>1, <2>1, <2>2, <4>1 DEF Cached
      <4>4. o.pid \in S
        BY <3>3, <3>8, <4>1, <4>2, <4>3 DEF Backed, RowsOf
      <4>5. r.pid \in S /\ r.pid <= o.pid
        BY <3>5, <4>4 DEF Found
      <4>6. o.pid <= r.pid
        BY <3>3, <3>8, <4>5
      <4>7. o.pid = r.pid
        BY <3>4, <4>4, <4>5, <4>6, PidsAre
      <4>8. o = Object(it.tab, Primary, r.pid)
        BY <3>8, <4>1, <4>2, <4>7 DEF Object, Objects
      <4> QED
        BY <4>4, <4>8
    <3> QED
      BY <2>3, <3>2, <3>6, <3>7, <3>8
  <2>4. CASE it.idxItr # -1
    <3>1. PICK i : i = it.idx
      OBVIOUS
    <3>2. i \in Idx
      BY <2>1, <2>4, <3>1 DEF Placed
    <3>3. PICK S : S = EntriesOf(db, it.tab, i)
      OBVIOUS
    <3>4. S \in SUBSET Pids
      BY <3>3 DEF EntriesOf
    <3>5. PICK r : r = SearchIndex(db, it.tab, i, S)
      OBVIOUS
    <3>6. FirstOf(it).same <=> r.itr = x
      BY <1>1, <2>4, <3>1, <3>3, <3>5 DEF FirstOf
    <3>7. Found(db, r, it.tab, i, S) /\ (S # {} => \A q \in S \ {r.pid} : Below(db, it.tab, i, r.pid, q))
      BY <2>1, <3>2, <3>3, <3>5, SearchIndexFinds
    <3>8. r.itr = x <=> S # {} /\ o = Object(it.tab, i, r.pid)
      <4>1. i \in Idx \cup {Primary}
        BY <3>2
      <4>2. db \in Dbs /\ it.tab \in Tables /\ x \in 1..Len(db.cache)
        BY <2>1, <2>2
      <4>3. LeadsTo(db, r, it.tab, i, S, x)
        BY <3>4, <3>7, <4>1, <4>2, FoundAt
      <4> QED
        BY <1>1, <4>3 DEF LeadsTo
    <3>9. ASSUME S # {}, o = Object(it.tab, i, r.pid)
          PROVE  /\ Valid(db, x) /\ o.tab = it.tab
                 /\ \A p \in EntriesOf(db, o.tab, o.idx) \ {o.pid} : Below(db, o.tab, o.idx, o.pid, p)
      <4>1. o.tab = it.tab /\ o.idx = i /\ o.pid = r.pid
        BY <3>9 DEF Object
      <4>2. o \in Objects
        BY <2>1, <3>2, <3>4, <3>7, <3>9 DEF Found, Object, Objects
      <4>3. Valid(db, x)
        BY <1>1, <2>2, <4>2, NoObject
      <4> QED
        BY <3>3, <3>7, <3>9, <4>1, <4>3
    <3>10. ASSUME Valid(db, x), o.tab = it.tab,
                  \A p \in EntriesOf(db, o.tab, o.idx) \ {o.pid} : Below(db, o.tab, o.idx, o.pid, p)
           PROVE  S # {} /\ o = Object(it.tab, i, r.pid)
      <4>1. o \in Objects /\ o # None /\ o.pid \in Pids
        BY <1>1, <2>1, <3>10, ValidIs
      <4>2. o.idx = i
        BY <1>1, <2>1, <2>4, <3>1, <3>10, OnEntry
      <4>3. Backed(db, o)
        BY <1>1, <2>1, <2>2, <4>1 DEF Cached
      <4>4. i # Primary
        BY <3>2, IdxAssumption DEF Primary
      <4>5. o.pid \in S
        BY <3>3, <3>10, <4>1, <4>2, <4>3, <4>4 DEF Backed, EntriesOf
      <4>6. r.pid \in S
        BY <3>7, <4>5 DEF Found
      <4>7. o.pid = r.pid
        <5> SUFFICES ASSUME o.pid # r.pid PROVE FALSE
          OBVIOUS
        <5>1. Below(db, it.tab, i, r.pid, o.pid)
          BY <3>7, <4>5
        <5>2. Below(db, it.tab, i, o.pid, r.pid)
          BY <3>3, <3>10, <4>2, <4>6
        <5>3. Below(db, it.tab, i, o.pid, o.pid)
          BY <2>1, <3>2, <3>3, <4>5, <4>6, <5>1, <5>2, BelowOrders
        <5> QED
          BY <2>1, <3>2, <3>3, <4>5, <5>3, BelowOrders
      <4>8. o = Object(it.tab, i, r.pid)
        BY <3>10, <4>1, <4>2, <4>7 DEF Object, Objects
      <4> QED
        BY <4>5, <4>8
    <3> QED
      BY <2>4, <3>6, <3>8, <3>9, <3>10
  <2> QED
    BY <2>3, <2>4
<1>2. TypeOK /\ InPlace => BeginIsFirst
  BY <1>1 DEF BeginIsFirst
<1> QED
  BY <1>2, Inductive, PTL
=============================================================================
