----------------------------- MODULE SignLoop -----------------------------
(* The loop that signs the digests of the cross-chain contract              *)
(* (src/src/cross/plugin/cross_plugin.cpp: handle_action_loop,              *)
(* do_init_check, handle_sign_action, push_action).  Once a second a        *)
(* producer node reads the signpool table page by page and pushes a         *)
(* transaction for each row that waits for its signature.  The loop holds   *)
(* the main thread, so the chain moves only between two passes.  The chain  *)
(* and the contract are external: rows appear with a block, go away with    *)
(* their block in a fork, take signatures, and are erased.                  *)
(*                                                                          *)
(* Times are slots of half a second, in which blocks come; the contract is  *)
(* taken to write the time of the block into a row in whole seconds, which  *)
(* the loop multiplies by 1000000.                                          *)
EXTENDS Integers, Sequences, FiniteSets

CONSTANTS
    Limit,          \* p.limit, 500 in the code
    Permissions,    \* the permissions that may carry the key of the producer
    StartTime,      \* _start_time
    MaxTime,        \* bound: slots
    MaxRows,        \* bound: rows of the pool
    MaxTroubles     \* bound: forks, changes of the schedule or of the permission,
                    \* pages with rows that are dropped, passes an exception ends,
                    \* and transactions lost

ASSUME PageAssumption == Limit \in Nat \ {0}
ASSUME TimeAssumption == StartTime \in Nat /\ MaxTime \in Nat
ASSUME PermissionAssumption == Permissions # {} /\ "none" \notin Permissions
ASSUME LoopBounds == {MaxRows, MaxTroubles} \subseteq Nat

VARIABLES
    rows,       \* the signpool table, by primary key: digest, time of its block, of our signature, of its erasure
    head, irr,  \* time of the head block and of the last irreversible block
    active,     \* the producer is scheduled with a key the node has
    perm,       \* the permission that carries the key
    armed,      \* the timer is set
    checked,    \* init_check
    asked,      \* sign_permission
    scanning,   \* handle_sign_action runs
    lower,      \* p.lower_bound
    sent,       \* pushed transactions the chain has not yet taken: row and digest
    pushed,     \* history: the digests pushed and those dropped in this pass, the rows pushed in all passes
    made, troubles

chain == <<rows, head, irr, active, perm>>
loop == <<armed, checked, asked, scanning, lower>>
bounds == <<made, troubles>>
vars == <<chain, loop, sent, pushed, bounds>>

Never == 0      \* blocks have times from 1

\* The start of the second a slot is in.
Second(slot) == slot - (slot % 2)

InPool(p) == rows[p].gone = Never
Pool == {p \in DOMAIN rows : InPool(p)}

\* Mutant of Eligible: rows of reversible blocks are signed too.
EligibleAtOnce(p) == InPool(p) /\ rows[p].signed = Never

\* need_sign, and the second of the row has begun by the last irreversible block.
Eligible(p) == InPool(p) /\ Second(rows[p].born) <= irr /\ rows[p].signed = Never
Due(S) == {p \in S : Eligible(p)}

----------------------------------------------------------------------------
(* The loop *)

\* Mutant of Tick: the timer is set when the handler is done, and not on the
\* early return.
TickArmsLate ==
    /\ armed /\ ~scanning
    /\ LET passes == head >= StartTime /\ perm # "none"
       IN  /\ armed' = (checked \/ passes)
           /\ checked' = (checked \/ passes)
           /\ asked' = IF ~checked /\ passes THEN perm ELSE asked
           /\ scanning' = (checked' /\ active)
    /\ lower' = 0
    /\ pushed' = [pushed EXCEPT !.pass = {}, !.failed = {}]
    /\ UNCHANGED <<chain, sent, bounds>>

\* handle_action_loop, do_init_check, get_valid_private_key: the timer fires,
\* is set again first, and a pass begins.
Tick ==
    /\ armed /\ ~scanning
    /\ armed' = TRUE
    /\ LET passes == head >= StartTime /\ perm # "none"
       IN  /\ checked' = (checked \/ passes)
           /\ asked' = IF ~checked /\ passes THEN perm ELSE asked
           /\ scanning' = (checked' /\ active)
    /\ lower' = 0
    /\ pushed' = [pushed EXCEPT !.pass = {}, !.failed = {}]
    /\ UNCHANGED <<chain, sent, bounds>>

Digests(S) == {rows[p].digest : p \in S}

\* What is known of a pass once the rows of S are pushed and those of failed dropped.
Pushed(S, failed) ==
    [pass |-> pushed.pass \cup Digests(S), failed |-> pushed.failed \cup Digests(failed),
     ever |-> pushed.ever \cup {[digest |-> rows[p].digest, born |-> rows[p].born] : p \in S}]

\* Mutant of Push: the first row that is not due ends the page.
PushUntilNotDue(S, failed) ==
    LET due == {p \in S : \A q \in S : q <= p => Eligible(q)} \ failed
    IN  sent' = sent \cup {<<p, rows[p].digest>> : p \in due} /\ pushed' = Pushed(due, failed)

\* Mutant of Push: a digest that was pushed once is not pushed again.
PushOnce(S, failed) ==
    LET due == {p \in Due(S) \ failed : \A r \in pushed.ever : r.digest # rows[p].digest}
    IN  sent' = sent \cup {<<p, rows[p].digest>> : p \in due} /\ pushed' = Pushed(due, failed)

\* fill_action and push_action for the rows of S that are due: whatever
\* fill_action throws is logged, and the row is dropped.  There is always a
\* producer, since it is that of the key.
Push(S, failed) ==
    LET due == Due(S) \ failed
    IN  sent' = sent \cup {<<p, rows[p].digest>> : p \in due} /\ pushed' = Pushed(due, failed)

\* The first n rows of the pool from p on.
RowsFrom(p, n) == {q \in Pool : q >= p /\ Cardinality({r \in Pool : p <= r /\ r < q}) < n}

LastOf(S, default) == IF S = {} THEN default ELSE CHOOSE p \in S : \A q \in S : q <= p

\* One turn of the do loop of handle_sign_action: get_table_rows answers a
\* page, and the next page starts at its last row.  A page may be cut short by
\* time, but is taken to reach beyond the row it starts with when there are more.
Page ==
    /\ scanning
    /\ \E n \in 1..Limit :
        LET page == RowsFrom(lower, n)
            more == \E q \in Pool : q >= lower /\ q \notin page
        IN  /\ more => \E q \in page : q > lower
            /\ \E failed \in SUBSET Due(page) :
                  /\ failed # {} => troubles < MaxTroubles
                  /\ troubles' = IF failed = {} THEN troubles ELSE troubles + 1
                  /\ Push(page, failed)
            /\ lower' = LastOf(page, lower)
            /\ scanning' = more
    /\ UNCHANGED <<chain, armed, checked, asked, made>>

\* An exception ends the pass after some rows of a page; catch (...).
PageThrows ==
    /\ scanning /\ troubles < MaxTroubles
    /\ \E n \in 0..Limit : \E failed \in SUBSET Due(RowsFrom(lower, n)) :
          Push(RowsFrom(lower, n), failed)
    /\ scanning' = FALSE
    /\ troubles' = troubles + 1
    /\ UNCHANGED <<chain, armed, checked, asked, lower, made>>

----------------------------------------------------------------------------
(* The chain and the contract, between two passes *)

\* The chain takes a transaction; the contract takes a signature of the row's
\* digest by the right permission, and refuses any other.
Apply(x) ==
    /\ ~scanning /\ x \in sent
    /\ sent' = sent \ {x}
    /\ LET p == x[1]
           good == /\ p \in DOMAIN rows /\ asked = perm
                   /\ InPool(p) /\ rows[p].digest = x[2] /\ rows[p].signed = Never
       IN  rows' = IF good THEN [rows EXCEPT ![p].signed = head] ELSE rows
    /\ UNCHANGED <<head, irr, active, perm, loop, pushed, bounds>>

Lose(x) ==
    /\ ~scanning /\ x \in sent /\ troubles < MaxTroubles
    /\ sent' = sent \ {x}
    /\ troubles' = troubles + 1
    /\ UNCHANGED <<chain, loop, pushed, made>>

AddRow ==
    /\ ~scanning /\ made < MaxRows
    /\ rows' = Append(rows, [digest |-> made, born |-> head, signed |-> Never, gone |-> Never])
    /\ made' = made + 1
    /\ UNCHANGED <<head, irr, active, perm, loop, sent, pushed, troubles>>

EraseRow(p) ==
    /\ ~scanning /\ p \in Pool
    /\ rows' = [rows EXCEPT ![p].gone = head]
    /\ UNCHANGED <<head, irr, active, perm, loop, sent, pushed, bounds>>

NewBlock ==
    /\ ~scanning /\ head < MaxTime
    /\ head' = head + 1
    /\ UNCHANGED <<rows, irr, active, perm, loop, sent, pushed, bounds>>

AdvanceLib ==
    /\ ~scanning /\ irr < head
    /\ irr' \in irr + 1..head
    /\ UNCHANGED <<rows, head, active, perm, loop, sent, pushed, bounds>>

\* The blocks after t, not yet irreversible, are undone: of the rows, which are
\* born in order, the first stay.
Fork(t) ==
    /\ ~scanning /\ troubles < MaxTroubles
    /\ t \in irr..head - 1
    /\ head' = t
    /\ rows' = LET kept == Cardinality({p \in DOMAIN rows : rows[p].born <= t})
                   undo(when) == IF when > t THEN Never ELSE when
               IN  [p \in 1..kept |->
                      [digest |-> rows[p].digest, born |-> rows[p].born,
                       signed |-> undo(rows[p].signed), gone |-> undo(rows[p].gone)]]
    /\ troubles' = troubles + 1
    /\ UNCHANGED <<irr, active, perm, loop, sent, pushed, made>>

Reschedule ==
    /\ ~scanning /\ troubles < MaxTroubles
    /\ active' = ~active
    /\ troubles' = troubles + 1
    /\ UNCHANGED <<rows, head, irr, perm, loop, sent, pushed, made>>

ChangePermission ==
    /\ ~scanning /\ troubles < MaxTroubles
    /\ perm' \in (Permissions \cup {"none"}) \ {perm}
    /\ troubles' = troubles + 1
    /\ UNCHANGED <<rows, head, irr, active, loop, sent, pushed, made>>

----------------------------------------------------------------------------
\* The permissions are alike: it is enough that one of them carries the key
\* at first, or none.
Init ==
    /\ rows = <<>>
    /\ head = 1 /\ irr = 1
    /\ active \in BOOLEAN
    /\ perm \in {CHOOSE p \in Permissions : TRUE, "none"}
    /\ armed = TRUE
    /\ checked = FALSE
    /\ asked = "none"
    /\ scanning = FALSE
    /\ lower = 0
    /\ sent = {}
    /\ pushed = [pass |-> {}, failed |-> {}, ever |-> {}]
    /\ made = 0 /\ troubles = 0

Next ==
    \/ Tick \/ Page \/ PageThrows
    \/ \E x \in sent : Apply(x) \/ Lose(x)
    \/ AddRow \/ NewBlock \/ AdvanceLib \/ Reschedule \/ ChangePermission
    \/ \E p \in DOMAIN rows : EraseRow(p)
    \/ \E t \in 1..MaxTime : Fork(t)

Spec == Init /\ [][Next]_vars

\* The timer fires, a pass runs on, and the chain takes what it was pushed:
\* strongly, since the timer leaves it a second between two passes.
FairSpec ==
    /\ Spec /\ WF_vars(Tick) /\ WF_vars(Page)
    /\ \A p \in 1..MaxRows : SF_vars(\E x \in sent : x[1] = p /\ Apply(x))

----------------------------------------------------------------------------
(* Properties *)

\* A signature is never given away for an event a fork can undo: the row of
\* every digest ever pushed stays in the chain, unless its block came in the
\* second half of a second.  Such a row is dated back to the first half, and
\* signed while the block is one slot above the last irreversible one.
SignedIsFinal ==
    \A r \in pushed.ever :
        /\ r.born <= irr + 1
        /\ r.born = Second(r.born) => r.digest \in Digests(DOMAIN rows)

\* A pass that no exception ends has tried every row that is due, whatever the
\* size of its pages: all are pushed but those that fill_action dropped.
PassCovers ==
    [][Page /\ ~scanning' =>
         \A p \in Due(Pool) : rows[p].digest \in pushed'.pass \cup pushed'.failed]_vars

\* The permission do_init_check chose is, or can still become, the one that
\* carries the key: it is chosen once.
Permitted == perm # "none" /\ (checked => asked = perm)

\* A row that is due is signed in the end, or stops being due, as long as
\* the producer is scheduled and its key has the permission: after lost
\* transactions, rows that were dropped, passes ended by exceptions, forks that
\* undo a signature, and a permission that was taken away and given back.
EventuallySigned ==
    \A p \in 1..MaxRows :
        (p \in DOMAIN rows /\ Eligible(p)) ~>
            (p \notin DOMAIN rows \/ ~Eligible(p) \/ ~active \/ ~Permitted \/ head < StartTime)
=============================================================================
