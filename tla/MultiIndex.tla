---------------------------- MODULE MultiIndex ----------------------------
(* The database a contract sees: tables with a primary key, secondary       *)
(* indexes and iterators (src/src/js_contract/src/Table.cpp, Index.cpp,     *)
(* DBIterator.cpp).  The db_* and idx* calls of apply_context are external. *)
(* They give out iterators: the place of an object in a cache the action    *)
(* starts empty (from 1 here, from 0 in the code), -1 for no table, and -2, *)
(* -3, ... for the end of the first, second, ... table the action has used. *)
(* A contract reads the tables of every code and writes those of its own.   *)
EXTENDS Integers, Sequences, FiniteSets, TLC

CONSTANTS
    Codes,          \* the accounts whose tables the contract opens
    Receiver,       \* the account the action runs for
    Names,          \* the tables of the contract's ABI, each with one scope
    Pids,           \* the primary keys in use
    MaxPid,         \* the largest primary key, 2^64 - 1 in the code
    Idx,            \* the secondary indexes of every table, numbered from 0
    Keys,           \* the keys of an index
    BadKey,         \* the index function of the contract throws for this row
    None,           \* no row, no data
    Slots,          \* bound: iterators the contract holds at a time
    MaxCalls,       \* bound: calls of one action
    MaxCatching     \* bound: calls of one action of a contract that catches errors

ASSUME ReceiverAssumption == Receiver \in Codes
ASSUME PidsAssumption == MaxPid \in Nat /\ Pids \subseteq 0..MaxPid
ASSUME IdxAssumption == Idx \subseteq Nat /\ \A i \in Idx : 0..i \subseteq Idx
ASSUME KeysAssumption == Keys \subseteq Nat /\ 0 \in Keys /\ BadKey \notin Keys
ASSUME CallsAssumption == MaxCalls \in Nat /\ MaxCatching \in Nat

Vals == [Idx -> Keys \cup {BadKey}]     \* a row, as far as the indexes tell rows apart

\* get_table: a handle names its table by code, scope and name; what is stored
\* through it goes to the receiver's table of that scope and name.
Tables == Codes \X Names
Home(t) == <<Receiver, t[2]>>
Foreign == {t \in Tables : Home(t) # t}

Primary == -1       \* the index number of an iterator that walks the primary key

\* What an iterator may be on, and the iterators.
Objects == [tab : Tables, idx : Idx \cup {Primary}, pid : Pids]
Iterators == [tab : Tables, itr : Int, idx : Idx \cup {Primary}, idxItr : Int, pid : Nat]

ASSUME NoneAssumption == None \notin Vals \cup Keys \cup {BadKey} \cup Objects \cup Iterators

VARIABLES
    db,         \* rows and index rows of the contract, and the iterator cache of the action
    saved,      \* the rows and index rows the action started with, if an error undoes it
    catches,    \* the contract catches the errors of the calls
    strayed,    \* history: previous has answered a row of another table than its iterator's
    itrs,       \* the DBIterator in each slot of the contract
    running,    \* an action of the contract runs
    calls,      \* calls this action has made
    last        \* history: the last call

vars == <<db, saved, catches, strayed, itrs, running, calls, last>>

Object(t, i, p) == [tab |-> t, idx |-> i, pid |-> p]

RowsOf(d, t) == {p \in Pids : d.rows[t][p] # None}
EntriesOf(d, t, i) == {p \in Pids : d.sec[t][i][p] # None}

\* Index 0 has the name of its table, so they are one table of the chain.
TableExists(d, t) == RowsOf(d, t) # {} \/ (0 \in Idx /\ EntriesOf(d, t, 0) # {})
IndexExists(d, t, i) == IF i = 0 THEN TableExists(d, t) ELSE EntriesOf(d, t, i) # {}

----------------------------------------------------------------------------
(* apply_context *)

\* The table gets its end iterator when the action first uses it.
Touch(d, t) == IF \E k \in DOMAIN d.ends : d.ends[k] = t THEN d ELSE [d EXCEPT !.ends = Append(@, t)]
EndOf(d, t) == -1 - (CHOOSE k \in DOMAIN d.ends : d.ends[k] = t)
TableOfEnd(d, itr) == d.ends[-1 - itr]

Cache(d, o) == IF \E k \in DOMAIN d.cache : d.cache[k] = o THEN d ELSE [d EXCEPT !.cache = Append(@, o)]
PlaceOf(d, o) == CHOOSE k \in DOMAIN d.cache : d.cache[k] = o

\* Mutant of Missed: the primary key stays 0 when an index finds nothing.
MissedAtZero(d, itr) == [db |-> d, itr |-> itr, pid |-> 0]

\* What a search answers: an iterator, and the cache it leaves; the primary
\* key is -1, which is MaxPid in 64 bits, when it finds nothing.
Missed(d, itr) == [db |-> d, itr |-> itr, pid |-> MaxPid]
Hit(d, o) == LET c == Cache(d, o) IN [db |-> c, itr |-> PlaceOf(c, o), pid |-> o.pid]

Least(S) == CHOOSE p \in S : \A q \in S : p <= q
Greatest(S) == CHOOSE p \in S : \A q \in S : p >= q

\* db_find_i64, db_lowerbound_i64, db_upperbound_i64, db_end_i64: the first of the rows.
Search(d, t, rows) ==
    IF ~TableExists(d, t) THEN Missed(d, -1)
    ELSE LET c == Touch(d, t)
         IN  IF rows = {} THEN Missed(c, EndOf(c, t)) ELSE Hit(c, Object(t, Primary, Least(rows)))

Valid(d, itr) == itr \in DOMAIN d.cache /\ d.cache[itr] # None

\* db_next_i64
NextRow(d, itr) ==
    LET o == d.cache[itr]
        after == {p \in RowsOf(d, o.tab) : p > o.pid}
    IN  IF itr < -1 THEN Missed(d, -1)
        ELSE IF after = {} THEN Missed(d, EndOf(d, o.tab))
        ELSE Hit(d, Object(o.tab, Primary, Least(after)))

\* db_previous_i64
PreviousRow(d, itr) ==
    LET t == IF itr < -1 THEN TableOfEnd(d, itr) ELSE d.cache[itr].tab
        before == {p \in RowsOf(d, t) : itr < -1 \/ p < d.cache[itr].pid}
    IN  IF before = {} THEN Missed(d, -1) ELSE Hit(d, Object(t, Primary, Greatest(before)))

\* An index orders its entries by key, then by primary key.
Below(d, t, i, p, q) ==
    LET k == d.sec[t][i]
    IN  k[p] < k[q] \/ (k[p] = k[q] /\ p < q)

\* The idx calls: the first of the entries.  The end of an index is -2: the
\* iterator that holds it knows its index.
SearchIndex(d, t, i, entries) ==
    IF entries = {} THEN Missed(d, IF IndexExists(d, t, i) THEN -2 ELSE -1)
    ELSE Hit(d, Object(t, i, CHOOSE p \in entries : \A q \in entries \ {p} : Below(d, t, i, p, q)))

----------------------------------------------------------------------------
(* Calls *)

\* A DBIterator: its table, its place on the primary key, the primary key it
\* was loaded with, and, when it came from an index, its place on that index.
\* It has data when it is on a row.
Iterator(d, t, itr, pid, i, idxItr) ==
    [tab |-> t, itr |-> itr, idx |-> i, idxItr |-> idxItr, pid |-> IF itr > 0 THEN d.cache[itr].pid ELSE pid]
HasData(it) == it.itr > 0

\* what a call did or answered, the table it named, and the primary key
Called(what, t, p) == [call |-> what, tab |-> t, pid |-> p]

InAction == running /\ calls < IF catches THEN MaxCatching ELSE MaxCalls

\* A call throws, leaving the database as d: the contract goes on when it
\* catches the error, else the transaction is undone.
Throws(d, t, p) ==
    /\ last' = Called("threw", t, p)
    /\ UNCHANGED <<catches, strayed>>
    /\ IF catches
       THEN db' = d /\ calls' = calls + 1 /\ UNCHANGED <<saved, itrs, running>>
       ELSE /\ db' = saved /\ saved' = None
            /\ itrs' = [s \in Slots |-> None]
            /\ calls' = 0
            /\ running' = FALSE

Returns(d, what, t, p) ==
    /\ db' = d
    /\ last' = Called(what, t, p)
    /\ calls' = calls + 1
    /\ UNCHANGED <<saved, catches, running>>

\* A call that answers no iterator.
Answers(d, what, t, p) == Returns(d, what, t, p) /\ UNCHANGED strayed

\* A call answers an iterator, put in slot s.
Gives(s, d, it) ==
    /\ Returns(d, "read", it.tab, it.pid)
    /\ itrs' = [itrs EXCEPT ![s] = it]
    /\ strayed' = (strayed \/ (it.itr > 0 /\ d.cache[it.itr].tab # it.tab))

\* begin, end, lowerbound and upperbound make -2 of any end iterator.
AtEnd(itr) == IF itr < 0 THEN -2 ELSE itr

\* find
Find(s, t, p) ==
    LET r == Search(db, t, RowsOf(db, t) \cap {p})
    IN  InAction /\ Gives(s, r.db, Iterator(r.db, t, r.itr, p, Primary, -1))

\* begin, lowerbound, upperbound and end: the first row from p on, MaxPid + 1 for end.
Bound(s, t, p) ==
    LET r == Search(db, t, {q \in RowsOf(db, t) : q >= p})
    IN  InAction /\ Gives(s, r.db, Iterator(r.db, t, AtEnd(r.itr), p, Primary, -1))

\* Table::get(id, idx_itr, idx): the row of an index entry, none for the end.
RowOf(r, t, i) ==
    LET row == Search(r.db, t, RowsOf(r.db, t) \cap {r.pid})
    IN  [db |-> row.db, it |-> Iterator(row.db, t, row.itr, r.pid, i, r.itr)]

GivesRowOf(s, r, t, i) == Gives(s, RowOf(r, t, i).db, RowOf(r, t, i).it)

\* find, lowerbound and upperbound of an index: rel tells a key from the sought one.
IndexSearch(s, t, i, rel(_)) ==
    /\ InAction
    /\ GivesRowOf(s, SearchIndex(db, t, i, {p \in EntriesOf(db, t, i) : rel(db.sec[t][i][p])}), t, i)

IndexFind(s, t, i, k) == IndexSearch(s, t, i, LAMBDA e : e = k)
IndexLowerbound(s, t, i, k) == IndexSearch(s, t, i, LAMBDA e : e >= k)
IndexUpperbound(s, t, i, k) == IndexSearch(s, t, i, LAMBDA e : e > k)

\* is_end
IsEnd(it) == IF it.idxItr = -1 THEN it.itr < 0 ELSE it.idxItr < 0

\* Mutant of FirstOf: the first row of the table, whatever the iterator walks.
FirstOfRows(it) ==
    LET r == Search(db, it.tab, RowsOf(db, it.tab)) IN [db |-> r.db, same |-> r.itr = it.itr]

\* The iterator is where a search from key 0 leads, whatever the end it is at.
FirstOf(it) ==
    LET r == IF it.idxItr = -1 THEN Search(db, it.tab, RowsOf(db, it.tab))
             ELSE SearchIndex(db, it.tab, it.idx, EntriesOf(db, it.tab, it.idx))
    IN  [db |-> r.db, same |-> r.itr = IF it.idxItr = -1 THEN it.itr ELSE it.idxItr]

\* is_begin
IsBegin(s) ==
    /\ InAction /\ itrs[s] # None
    /\ Answers(FirstOf(itrs[s]).db, "read", itrs[s].tab, itrs[s].pid)
    /\ UNCHANGED itrs

\* next
Next1(s) ==
    LET it == itrs[s]
        o == db.cache[it.idxItr]
        r == IF it.idxItr = -1 THEN NextRow(db, it.itr)
             ELSE IF it.idxItr < -1 THEN Missed(db, -1)
             ELSE SearchIndex(db, o.tab, o.idx, {p \in EntriesOf(db, o.tab, o.idx) :
                                                 Below(db, o.tab, o.idx, o.pid, p)})
        from == IF it.idxItr = -1 THEN it.itr ELSE it.idxItr
    IN  /\ InAction /\ it # None
        /\ IF from < -1 \/ Valid(db, from)
           THEN IF it.idxItr = -1 THEN Gives(s, r.db, Iterator(r.db, it.tab, r.itr, r.pid, Primary, -1))
                                  ELSE GivesRowOf(s, r, it.tab, it.idx)
           ELSE Throws(db, it.tab, it.pid)

\* The last of the entries of an index; -1 when there is none.
LastEntry(d, t, i, entries) ==
    IF entries = {} THEN Missed(d, -1)
    ELSE Hit(d, Object(t, i, CHOOSE p \in entries : \A q \in entries \ {p} : Below(d, t, i, q, p)))

\* previous
Previous(s) ==
    LET it == itrs[s]
        o == db.cache[it.idxItr]
        r == IF it.idxItr = -1 THEN PreviousRow(db, it.itr)
             ELSE IF it.idxItr < -1 THEN LastEntry(db, it.tab, it.idx, EntriesOf(db, it.tab, it.idx))
             ELSE LastEntry(db, o.tab, o.idx, {p \in EntriesOf(db, o.tab, o.idx) :
                                               Below(db, o.tab, o.idx, p, o.pid)})
        from == IF it.idxItr = -1 THEN it.itr ELSE it.idxItr
        known == IF it.idxItr = -1 THEN -1 - from \in DOMAIN db.ends ELSE TRUE
    IN  /\ InAction /\ it # None
        /\ IF (from < -1 /\ known) \/ Valid(db, from)
           THEN IF it.idxItr = -1 THEN Gives(s, r.db, Iterator(r.db, it.tab, r.itr, r.pid, Primary, -1))
                                  ELSE GivesRowOf(s, r, it.tab, it.idx)
           ELSE Throws(db, it.tab, it.pid)

----------------------------------------------------------------------------
(* Calls that write *)

\* The indexes that a loop over all of them reaches when it stops at those in S.
Reached(S) == {i \in Idx : \A j \in S : i < j}

\* store_index: an entry for each index, up to one that throws.
StoreBlocked(d, t, p, v) == {i \in Idx : v[i] = BadKey \/ d.sec[t][i][p] # None}
StoreIndex(d, t, p, v) ==
    [d EXCEPT !.sec[t] = [i \in Idx |->
        IF i \in Reached(StoreBlocked(d, t, p, v)) THEN [d.sec[t][i] EXCEPT ![p] = v[i]] ELSE d.sec[t][i]]]

\* Mutant of Target: the row goes to the table the handle names.
TargetNamed(h) == h

\* db_store_i64 and the idx store calls take no code: the receiver's table.
Target(h) == Home(h)

\* emplace
Emplace(h, p, v) ==
    LET t == Target(h)
        row == Hit(Touch([db EXCEPT !.rows[t][p] = v], t), Object(t, Primary, p)).db
        all == StoreIndex(row, t, p, v)
    IN  /\ InAction
        /\ IF db.rows[t][p] # None THEN Throws(db, h, p)
           ELSE IF StoreBlocked(db, t, p, v) # {} THEN Throws(all, h, p)
           ELSE Answers(all, "write", h, p) /\ UNCHANGED itrs

\* update_index: find_primary leaves the old key 0 when there is no entry; a
\* changed entry of another code is refused.
UpdateBlocked(d, t, p, v) ==
    {i \in Idx : \/ v[i] = BadKey
                 \/ d.sec[t][i][p] = None /\ v[i] # 0
                 \/ t \in Foreign /\ d.sec[t][i][p] # v[i]}
UpdateIndex(d, t, p, v) ==
    [d EXCEPT !.sec[t] = [i \in Idx |->
        IF i \in Reached(UpdateBlocked(d, t, p, v)) /\ d.sec[t][i][p] # None
        THEN [d.sec[t][i] EXCEPT ![p] = v[i]] ELSE d.sec[t][i]]]

\* db_update_i64 and db_remove_i64 want a row of the receiver in the cache.
Writable(d, itr) == Valid(d, itr) /\ d.cache[itr].tab \notin Foreign

\* data.x = ...; update
Update(s, v) ==
    LET it == itrs[s]
        o == db.cache[it.itr]
        row == [db EXCEPT !.rows[o.tab][o.pid] = v]
        all == UpdateIndex(row, it.tab, it.pid, v)
    IN  /\ InAction /\ it # None
        /\ IF ~Writable(db, it.itr) THEN Throws(db, it.tab, it.pid)
           ELSE IF UpdateBlocked(row, it.tab, it.pid, v) # {} THEN Throws(all, it.tab, it.pid)
           ELSE Answers(all, "write", it.tab, it.pid) /\ UNCHANGED itrs

\* remove_index: find_primary answers no entry or one of another code, and remove throws.
RemoveBlocked(d, t, p) == {i \in Idx : d.sec[t][i][p] = None \/ t \in Foreign}

\* Mutant of RemoveIndex: the entries stay.
RemoveIndexNot(d, t, p) == d

RemoveIndex(d, t, p) ==
    LET done == Reached(RemoveBlocked(d, t, p))
    IN  [d EXCEPT !.sec[t] = [i \in Idx |->
                      IF i \in done THEN [d.sec[t][i] EXCEPT ![p] = None] ELSE d.sec[t][i]],
                  !.cache = [k \in DOMAIN @ |->
                      IF \E i \in done : @[k] = Object(t, i, p) THEN None ELSE @[k]]]

\* remove
Remove(s) ==
    LET it == itrs[s]
        o == db.cache[it.itr]
        row == [db EXCEPT !.rows[o.tab][o.pid] = None, !.cache[it.itr] = None]
        all == RemoveIndex(row, it.tab, it.pid)
    IN  /\ InAction /\ it # None
        /\ IF ~Writable(db, it.itr) THEN Throws(db, it.tab, it.pid)
           ELSE IF RemoveBlocked(row, it.tab, it.pid) # {} THEN Throws(all, it.tab, it.pid)
           ELSE Answers(all, "write", it.tab, it.pid) /\ UNCHANGED itrs

\* Mutant of EndItr: the iterator that end() gives out.
EndItrClamped(itr) == AtEnd(itr)

\* The end iterator get_primary_key goes back from is db_end_i64's own.
EndItr(itr) == itr

\* get_primary_key: one more than the last, in 64 bits.
GetPrimaryKey(t) ==
    LET e == Search(db, t, {})
        r == PreviousRow(e.db, EndItr(e.itr))
    IN  /\ InAction
        /\ IF e.itr = -1 THEN Answers(e.db, "key", t, 0)
           ELSE Answers(r.db, "key", t, IF r.itr = -1 THEN 0 ELSE (r.pid + 1) % (MaxPid + 1))
        /\ UNCHANGED itrs

----------------------------------------------------------------------------
(* Actions of the contract *)

\* The receiver's tables are empty; each of another code's has one row, under key 0.
FirstDb ==
    LET Has(t, p) == t \in Foreign /\ p = Least(Pids)
    IN  [rows  |-> [t \in Tables |-> [p \in Pids |-> IF Has(t, p) THEN [i \in Idx |-> 0] ELSE None]],
         sec   |-> [t \in Tables |-> [i \in Idx |-> [p \in Pids |-> IF Has(t, p) THEN 0 ELSE None]]],
         cache |-> <<>>, ends |-> <<>>]

NotRunning(d) == [d EXCEPT !.cache = <<>>, !.ends = <<>>]

Init ==
    /\ db = FirstDb
    /\ saved = None
    /\ catches \in BOOLEAN
    /\ strayed = FALSE
    /\ itrs = [s \in Slots |-> None]
    /\ running = FALSE
    /\ calls = 0
    /\ last = Called("none", None, MaxPid)

\* The chain applies an action: a new apply_context, an empty cache.
StartAction ==
    /\ ~running
    /\ running' = TRUE
    /\ saved' = IF catches THEN None ELSE db
    /\ calls' = 0
    /\ last' = Called("none", None, MaxPid)
    /\ UNCHANGED <<db, catches, strayed, itrs>>

EndAction ==
    /\ running
    /\ running' = FALSE
    /\ db' = NotRunning(db)
    /\ saved' = None
    /\ itrs' = [s \in Slots |-> None]
    /\ calls' = 0
    /\ last' = Called("none", None, MaxPid)
    /\ UNCHANGED <<catches, strayed>>

Next ==
    \/ StartAction \/ EndAction
    \/ \E t \in Tables, p \in Pids, v \in Vals : Emplace(t, p, v)
    \/ \E t \in Tables : GetPrimaryKey(t)
    \/ \E s \in Slots, t \in Tables, p \in Pids : Find(s, t, p)
    \/ \E s \in Slots, t \in Tables, p \in Pids \cup {MaxPid + 1} : Bound(s, t, p)
    \/ \E s \in Slots, t \in Tables, i \in Idx, k \in Keys :
         IndexFind(s, t, i, k) \/ IndexLowerbound(s, t, i, k) \/ IndexUpperbound(s, t, i, k)
    \/ \E s \in Slots : Next1(s) \/ Previous(s) \/ Remove(s) \/ IsBegin(s)
    \/ \E s \in Slots, v \in Vals : Update(s, v)

Spec == Init /\ [][Next]_vars

\* For TLC: the slots are interchangeable, and no action reads the history of
\* the last call, which only action properties look at.
SlotSymmetry == Permutations(Slots)
WithoutLast == <<db, saved, catches, strayed, itrs, running, calls>>

----------------------------------------------------------------------------
(* Properties *)

\* Every row has exactly one entry in every index, under the key its data
\* gives, and no index has an entry without its row: whatever iterators the
\* contract updates and removes rows through, old ones included, if it lets
\* the first error end the action and no iterator has left its table.
IndexMatchesRows ==
    ~catches /\ ~strayed => \A t \in Tables, i \in Idx, p \in Pids :
        db.sec[t][i][p] = IF db.rows[t][p] = None THEN None ELSE db.rows[t][p][i]

\* An iterator is at the end exactly when it has no data, on the primary key
\* (the place of the row decides) and on an index (the place of the entry), as
\* long as rows and entries match.
EndMeansNoData ==
    ~catches /\ ~strayed => \A s \in Slots : itrs[s] # None => (IsEnd(itrs[s]) <=> ~HasData(itrs[s]))

\* A call changes no row but the one it was given, the row emplaced or the row
\* the iterator was loaded with, in the receiver's table of that name (of
\* another name only through an iterator that strayed); the rows and entries of
\* another code stay as they are.
WritesOwnRow ==
    [][running /\ running' => \A t \in Tables :
         /\ \A p \in Pids : db'.rows[t][p] # db.rows[t][p] =>
               t \notin Foreign /\ p = last'.pid /\ (strayed \/ t = Home(last'.tab))
         /\ db'.sec[t] # db.sec[t] => t \notin Foreign]_vars

\* The key get_primary_key gives out is above every key in use, whichever
\* tables the action has used before.
FreshKey ==
    [][last'.call = "key" => \A p \in RowsOf(db, last'.tab) : p < last'.pid]_vars

\* is_begin says yes for an iterator on the first row of its table, or the
\* first entry of its index, and for no other that is on a row or was on one
\* that is gone.
BeginIsFirst ==
    \A s \in Slots : itrs[s] # None =>
        LET it == itrs[s]
            place == IF it.idxItr = -1 THEN it.itr ELSE it.idxItr
            o == db.cache[place]
        IN  place > 0 => (FirstOf(it).same <=>
               /\ Valid(db, place)
               /\ o.tab = it.tab
               /\ IF it.idxItr = -1 THEN \A p \in RowsOf(db, o.tab) : o.pid <= p
                  ELSE \A p \in EntriesOf(db, o.tab, o.idx) \ {o.pid} : Below(db, o.tab, o.idx, o.pid, p))

\* previous stays in the table of the iterator: end().previous() is the last
\* row of the table end() was called on.
StaysInTable ==
    \A s \in Slots : itrs[s] # None /\ Valid(db, itrs[s].itr) => db.cache[itrs[s].itr].tab = itrs[s].tab
=============================================================================
