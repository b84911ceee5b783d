------------------------------ MODULE Emitter ------------------------------
(* The emitter plugin (src/src/plugin/emitter_plugin.cpp): the hand-over of *)
(* chain events from the chain thread, which stashes them, to the fiber of  *)
(* the main JavaScript isolate, which emits them to the listeners.          *)
(*                                                                          *)
(* An event waits in two places: a row of the chain database, which         *)
(* survives a restart and is rolled back with the chain's undo sessions,    *)
(* and an in-memory queue, which neither survives nor rolls back.  Two      *)
(* semaphores pace the two sides: s_emitter counts the queued events and    *)
(* s_emitter_db the free places.  The payload of an event is a stamp, the   *)
(* number of events offered so far, so that no two events are equal.        *)
EXTENDS Integers, Sequences, FiniteSets

CONSTANTS
    MaxDbSize,      \* MAX_DB_SIZE: places for events not yet emitted
    DbCanFail,      \* whether creating a row may fail (the database is full)
    MaxEvents,      \* bound: events offered to the plugin
    MaxSessions,    \* bound: depth of the chain database's undo stack
    MaxRestarts     \* bound: restarts of the process

ASSUME MaxDbSizeAssumption == MaxDbSize \in Nat \ {0}
ASSUME DbCanFailAssumption == DbCanFail \in BOOLEAN
ASSUME BoundsAssumption == /\ MaxEvents \in Nat
                           /\ MaxSessions \in Nat
                           /\ MaxRestarts \in Nat

VARIABLES
    rows,       \* event_cache_index: the durable events
    applied,    \* history: the stamps stashed by the chain state as it is now
    undo,       \* undo stack of the chain database, oldest session first
    queue,      \* event_cache_queue
    tokens,     \* count of s_emitter
    slots,      \* count of s_emitter_db
    emitted,    \* emitted_id
    mem,        \* mem_id
    hpc,        \* where js_handler is
    hand,       \* obj of js_handler: the event popped and not yet recorded
    cpc,        \* where the chain thread is in stash_data
    arg,        \* the event stash_data was called with
    quitting,   \* app().is_quiting()
    jsError,    \* g_js_error
    offered,    \* history: events offered so far
    delivered,  \* history: what this process handed to the listeners, in order
    seen,       \* history: what any process handed to the listeners
    restarts

chainVars == <<cpc, arg, offered>>
handlerVars == <<hpc, hand, emitted, jsError, delivered, seen>>
storeVars == <<rows, applied, undo>>
vars == <<rows, applied, undo, queue, tokens, slots, emitted, mem, hpc, hand,
          cpc, arg, quitting, jsError, offered, delivered, seen, restarts>>

Stamps == 1..MaxEvents
Events == [pid : Int, data : Stamps]

Snapshot == [rows |-> rows, applied |-> applied]

\* Mutant of InPidOrder: the rows are read in the order of another index.
InAnyOrder(R) ==
    {q \in [1..Cardinality(R) -> R] : \A r \in R : \E i \in DOMAIN q : q[i] = r}

\* The rows of R in the order of the by_pid index.
InPidOrder(R) ==
    {q \in [1..Cardinality(R) -> R] :
        /\ \A r \in R : \E i \in 1..Cardinality(R) : q[i] = r
        /\ \A i, j \in 1..Cardinality(R) : i < j => q[i].pid < q[j].pid}

----------------------------------------------------------------------------
\* Mutant of Initialize: the kept events count as emitted.
InitializeCaughtUp(R) ==
    /\ queue' \in InPidOrder(R)
    /\ tokens' = Len(queue')
    /\ slots' = MaxDbSize - Cardinality(R)
    /\ emitted' = IF R = {} THEN -1 ELSE queue'[Len(queue')].pid
    /\ mem' = emitted'
    /\ jsError' = FALSE
    /\ hpc' = "check" /\ hand' = <<>>
    /\ cpc' = "idle" /\ quitting' = FALSE

\* Mutant of Initialize: the identifiers go on from the first row.
InitializeFirstPid(R) ==
    /\ queue' \in InPidOrder(R)
    /\ tokens' = Len(queue')
    /\ slots' = IF MaxDbSize > Cardinality(R) THEN MaxDbSize - Cardinality(R) ELSE 0
    /\ emitted' = IF R = {} THEN -1 ELSE queue'[1].pid - 1
    /\ mem' = IF R = {} THEN -1 ELSE queue'[1].pid
    /\ jsError' = FALSE
    /\ hpc' = "check" /\ hand' = <<>>
    /\ cpc' = "idle" /\ quitting' = FALSE

\* plugin_initialize: everything that is in memory is derived from the rows R.
Initialize(R) ==
    /\ queue' \in InPidOrder(R)
    /\ tokens' = Len(queue')
    /\ slots' = IF MaxDbSize > Cardinality(R) THEN MaxDbSize - Cardinality(R) ELSE 0
    /\ emitted' = IF R = {} THEN -1 ELSE queue'[1].pid - 1
    /\ mem' = IF R = {} THEN -1 ELSE queue'[Len(queue')].pid
    /\ jsError' = FALSE
    /\ hpc' = "check" /\ hand' = <<>>
    /\ cpc' = "idle" /\ quitting' = FALSE

Init ==
    /\ rows = {} /\ applied = {} /\ undo = <<>>
    /\ queue = <<>> /\ tokens = 0 /\ slots = MaxDbSize
    /\ emitted = -1 /\ mem = -1 /\ jsError = FALSE
    /\ hpc = "check" /\ hand = <<>> /\ cpc = "idle" /\ arg = 0
    /\ quitting = FALSE
    /\ offered = 0 /\ delivered = <<>> /\ seen = {} /\ restarts = 0

----------------------------------------------------------------------------
(* The chain thread: applied_event and stash_data.                          *)

\* A signal of the chain reaches applied_event, which packs the event.
Offer ==
    /\ cpc = "idle" /\ offered < MaxEvents
    /\ offered' = offered + 1
    /\ arg' = offered'
    /\ cpc' = "wait"
    /\ UNCHANGED <<storeVars, queue, tokens, slots, mem, quitting, handlerVars, restarts>>

\* Packing throws (the ABI of an action cannot be read): the event is gone
\* and the application is told to quit.
PackFails ==
    /\ cpc = "idle" /\ offered < MaxEvents
    /\ offered' = offered + 1
    /\ quitting' = TRUE
    /\ UNCHANGED <<storeVars, queue, tokens, slots, mem, cpc, arg, handlerVars, restarts>>

\* Mutant of WaitSlot: the count is taken without waiting for it.
WaitSlotNot ==
    /\ cpc = "wait"
    /\ slots' = slots - 1
    /\ cpc' = "store"
    /\ UNCHANGED <<storeVars, queue, tokens, mem, arg, offered, quitting, handlerVars, restarts>>

\* s_emitter_db->Wait(): blocks the chain thread until a place is free.
WaitSlot ==
    /\ cpc = "wait" /\ slots > 0
    /\ slots' = slots - 1
    /\ cpc' = "store"
    /\ UNCHANGED <<storeVars, queue, tokens, mem, arg, offered, quitting, handlerVars, restarts>>

\* Mutants of Prunable: off by one, either way.
PrunableLate(r) == r.pid < emitted
PrunableEarly(r) == r.pid <= emitted + 1

\* A row the pruning loop removes: emitted_id is read again for every row.
Prunable(r) == r.pid <= emitted

PruneRow ==
    /\ cpc = "store"
    /\ \E r \in rows :
        /\ \A s \in rows : r.pid <= s.pid
        /\ Prunable(r)
        /\ rows' = rows \ {r}
    /\ UNCHANGED <<applied, undo, queue, tokens, slots, mem, chainVars, quitting,
                   handlerVars, restarts>>

CreateRow ==
    /\ cpc = "store"
    /\ \A r \in rows : ~Prunable(r)
    /\ mem' = mem + 1
    /\ \A r \in rows : r.pid # mem'
    /\ rows' = rows \cup {[pid |-> mem', data |-> arg]}
    /\ applied' = applied \cup {arg}
    /\ cpc' = "enqueue"
    /\ UNCHANGED <<undo, queue, tokens, slots, arg, offered, quitting, handlerVars, restarts>>

\* db.create throws (the database is full, before or after mem_id was
\* incremented; or by_pid has the identifier already): no row, the place is
\* not given back, the rows pruned so far stay pruned, the application quits.
CreateFails ==
    /\ DbCanFail \/ \E r \in rows : r.pid = mem + 1
    /\ cpc = "store"
    /\ \A r \in rows : ~Prunable(r)
    /\ mem' \in {mem, mem + 1}
    /\ quitting' = TRUE
    /\ cpc' = "idle"
    /\ UNCHANGED <<storeVars, queue, tokens, slots, arg, offered, handlerVars, restarts>>

Enqueue ==
    /\ cpc = "enqueue"
    /\ queue' = Append(queue, [pid |-> mem, data |-> arg])
    /\ cpc' = "post"
    /\ UNCHANGED <<storeVars, tokens, slots, mem, arg, offered, quitting, handlerVars, restarts>>

\* Mutant of PostEvent: the semaphore is posted twice.
PostTwice ==
    /\ cpc = "post"
    /\ tokens' = tokens + 2
    /\ cpc' = "idle"
    /\ UNCHANGED <<storeVars, queue, slots, mem, arg, offered, quitting, handlerVars, restarts>>

\* Mutant of PostEvent: the handler is not woken.
PostNothing ==
    /\ cpc = "post"
    /\ cpc' = "idle"
    /\ UNCHANGED <<storeVars, queue, tokens, slots, mem, arg, offered, quitting, handlerVars, restarts>>

PostEvent ==
    /\ cpc = "post"
    /\ tokens' = tokens + 1
    /\ cpc' = "idle"
    /\ UNCHANGED <<storeVars, queue, slots, mem, arg, offered, quitting, handlerVars, restarts>>

Stash == WaitSlot \/ PruneRow \/ CreateRow \/ CreateFails \/ Enqueue \/ PostEvent

----------------------------------------------------------------------------
(* The chain database (chainbase, external): undo sessions of transactions  *)
(* and blocks.  Rolling back restores the rows, never the memory.           *)

StartSession ==
    /\ cpc = "idle" /\ Len(undo) < MaxSessions
    /\ undo' = Append(undo, Snapshot)
    /\ UNCHANGED <<rows, applied, queue, tokens, slots, mem, chainVars, quitting,
                   handlerVars, restarts>>

\* A failed transaction, an aborted pending block, a block of a lost fork.
UndoSession ==
    /\ cpc = "idle" /\ undo # <<>>
    /\ rows' = undo[Len(undo)].rows
    /\ applied' = undo[Len(undo)].applied
    /\ undo' = SubSeq(undo, 1, Len(undo) - 1)
    /\ UNCHANGED <<queue, tokens, slots, mem, chainVars, quitting, handlerVars, restarts>>

\* A block becomes irreversible: the oldest snapshot is no longer kept.
CommitSession ==
    /\ cpc = "idle" /\ undo # <<>>
    /\ undo' = Tail(undo)
    /\ UNCHANGED <<rows, applied, queue, tokens, slots, mem, chainVars, quitting,
                   handlerVars, restarts>>

----------------------------------------------------------------------------
(* The fiber of js_handler.                                                 *)

\* The loop condition sees the application quitting.
Leave ==
    /\ hpc = "check" /\ quitting
    /\ hpc' = "done"
    /\ UNCHANGED <<storeVars, queue, tokens, slots, mem, chainVars, quitting,
                   hand, emitted, jsError, delivered, seen, restarts>>

\* s_emitter.trywait() fails: the fiber blocks, and will not look at the
\* quitting flag again before it has popped an event.
Block ==
    /\ hpc = "check" /\ ~quitting /\ tokens = 0
    /\ hpc' = "wait"
    /\ UNCHANGED <<storeVars, queue, tokens, slots, mem, chainVars, quitting,
                   hand, emitted, jsError, delivered, seen, restarts>>

TakeToken ==
    /\ hpc \in {"check", "wait"} /\ tokens > 0
    /\ hpc = "check" => ~quitting
    /\ tokens' = tokens - 1
    /\ hpc' = "pop"
    /\ UNCHANGED <<storeVars, queue, slots, mem, chainVars, quitting,
                   hand, emitted, jsError, delivered, seen, restarts>>

\* front() and pop() under the queue's lock; undefined on an empty queue.
Pop ==
    /\ hpc = "pop" /\ queue # <<>>
    /\ hand' = <<Head(queue)>>
    /\ queue' = Tail(queue)
    /\ hpc' = "emit"
    /\ UNCHANGED <<storeVars, tokens, slots, mem, chainVars, quitting,
                   emitted, jsError, delivered, seen, restarts>>

\* _emit runs the listeners to the end.
Emit ==
    /\ hpc = "emit"
    /\ delivered' = Append(delivered, hand[1].data)
    /\ seen' = seen \cup {hand[1].data}
    /\ hpc' = "record"
    /\ UNCHANGED <<storeVars, queue, tokens, slots, mem, chainVars, quitting,
                   hand, emitted, jsError, restarts>>

\* A listener throws: the loop is left without recording the event.
EmitFails ==
    /\ hpc = "emit"
    /\ jsError' = TRUE /\ quitting' = TRUE
    /\ hpc' = "done"
    /\ UNCHANGED <<storeVars, queue, tokens, slots, mem, chainVars,
                   hand, emitted, delivered, seen, restarts>>

Record ==
    /\ hpc = "record"
    /\ emitted' = hand[1].pid
    /\ hand' = <<>>
    /\ hpc' = "release"
    /\ UNCHANGED <<storeVars, queue, tokens, slots, mem, chainVars, quitting,
                   jsError, delivered, seen, restarts>>

\* Mutant of ReleaseSlot: the place is not given back.
ReleaseNothing ==
    /\ hpc = "release"
    /\ hpc' = "check"
    /\ UNCHANGED <<storeVars, queue, tokens, slots, mem, chainVars, quitting,
                   hand, emitted, jsError, delivered, seen, restarts>>

ReleaseSlot ==
    /\ hpc = "release"
    /\ slots' = slots + 1
    /\ hpc' = "check"
    /\ UNCHANGED <<storeVars, queue, tokens, mem, chainVars, quitting,
                   hand, emitted, jsError, delivered, seen, restarts>>

Handle == Leave \/ Block \/ TakeToken \/ Pop \/ Emit \/ EmitFails \/ Record \/ ReleaseSlot

----------------------------------------------------------------------------
(* The process.                                                             *)

\* The application is asked to quit from outside (chain.stop, a signal).
Quit ==
    /\ ~quitting /\ cpc # "stopped"
    /\ quitting' = TRUE
    /\ UNCHANGED <<storeVars, queue, tokens, slots, mem, chainVars, handlerVars, restarts>>

\* Mutant of Shutdown: the chain thread waits for the fiber to end first.
ShutdownJoins ==
    /\ quitting /\ cpc = "idle" /\ hpc = "done"
    /\ cpc' = "stopped"
    /\ UNCHANGED <<storeVars, queue, tokens, slots, mem, arg, offered, quitting,
                   handlerVars, restarts>>

\* The chain thread leaves its loop between two signals: plugin_shutdown.
Shutdown ==
    /\ quitting /\ cpc = "idle"
    /\ cpc' = "stopped"
    /\ UNCHANGED <<storeVars, queue, tokens, slots, mem, arg, offered, quitting,
                   handlerVars, restarts>>

\* A new process opens the database; the JavaScript side of the old one may
\* have been anywhere when it ended.
Restart ==
    /\ cpc = "stopped" /\ restarts < MaxRestarts
    /\ restarts' = restarts + 1
    /\ Initialize(rows)
    /\ arg' = 0 /\ delivered' = <<>>
    /\ UNCHANGED <<storeVars, offered, seen>>

Next ==
    \/ Offer \/ PackFails \/ Stash
    \/ StartSession \/ UndoSession \/ CommitSession
    \/ Handle
    \/ Quit \/ Shutdown \/ Restart

Spec == Init /\ [][Next]_vars

\* The chain thread and the fiber keep running while they can; listeners
\* return, and the environment owes nothing.
Fairness == WF_vars(Stash) /\ WF_vars(Handle) /\ WF_vars(Shutdown)
FairSpec == Spec /\ Fairness

----------------------------------------------------------------------------
(* Properties.                                                              *)

Bit(b) == IF b THEN 1 ELSE 0
Data(q) == [i \in 1..Len(q) |-> q[i].data]

\* The variables have their types: stamps are 1..MaxEvents, identifiers are
\* integers from -1 (the counters of the code are int64_t).
TypeOK ==
    /\ rows \subseteq Events /\ applied \subseteq Stamps
    /\ undo \in Seq([rows : SUBSET Events, applied : SUBSET Stamps])
    /\ queue \in Seq(Events) /\ hand \in Seq(Events) /\ Len(hand) <= 1
    /\ tokens \in Nat /\ slots \in Nat
    /\ emitted \in Int /\ mem \in Int
    /\ hpc \in {"check", "wait", "pop", "emit", "record", "release", "done"}
    /\ cpc \in {"idle", "wait", "store", "enqueue", "post", "stopped"}
    /\ arg \in 0..MaxEvents /\ offered \in 0..MaxEvents
    /\ cpc \in {"wait", "store", "enqueue", "post"} => arg \in Stamps
    /\ quitting \in BOOLEAN /\ jsError \in BOOLEAN
    /\ delivered \in Seq(Stamps) /\ seen \subseteq Stamps
    /\ restarts \in 0..MaxRestarts

\* s_emitter counts the queued events exactly, but for the event whose post
\* is still to come and the token whose event is still to be popped: so the
\* handler never calls front() on an empty queue (js_handler, lines 171-174).
TokenAccounting ==
    /\ tokens + Bit(hpc = "pop") + Bit(cpc = "post") = Len(queue)
    /\ hpc = "pop" => queue # <<>>

\* Until the application quits, every place is free or taken by one event:
\* being stashed, queued, or in the handler's hands.  Failures only leak
\* places, never make one twice.
SlotAccounting ==
    LET taken == Len(queue) + Bit(hpc \in {"emit", "record", "release"})
                            + Bit(cpc \in {"store", "enqueue"})
    IN  /\ slots + taken <= MaxDbSize
        /\ ~quitting => slots + taken = MaxDbSize

\* While the application runs, the chain thread waiting for a place and the
\* handler waiting for an event never wait for one another.
NoMutualWait ==
    ~quitting => ~(cpc = "wait" /\ slots = 0 /\ hpc \in {"check", "wait"} /\ tokens = 0)

\* MAX_DB_SIZE bounds the table although rows are removed only lazily, at the
\* next stash, and come back when a session is rolled back.
RowsBounded == Cardinality(rows) <= MaxDbSize

\* Event r will reach the listeners of this process: it is queued, in the
\* handler's hands, or about to be queued.
OnItsWay(r) ==
    \/ \E i \in 1..Len(queue) : queue[i] = r
    \/ hand = <<r>>
    \/ cpc = "enqueue" /\ r = [pid |-> mem, data |-> arg]

\* Every row not yet delivered is on its way to the listeners in this process:
\* no roll-back, restart or failed stash leaves a row that nobody will emit.
NoRowForgotten == \A r \in rows : r.data \notin seen => OnItsWay(r)

\* At least once, across restarts, failing listeners and roll-backs: an event
\* stashed by a transaction that is still applied was delivered or is durable.
AtLeastOnce ==
    \A d \in applied : d \in seen \/ \E r \in rows : r.data = d

\* The index by_pid is ordered_unique (line 48): when a row is created, no
\* row has its identifier yet.
FreshPid ==
    (cpc = "store" /\ \A r \in rows : ~Prunable(r)) => \A r \in rows : r.pid # mem + 1

\* The pruning loop removes only rows whose events were delivered.
PruneOnlyDelivered ==
    [][cpc = "store" => \A r \in rows \ rows' : r.data \in seen]_vars

\* An event whose stash began is delivered, unless the application quits.
StashedIsDelivered ==
    \A d \in Stamps : (cpc = "wait" /\ arg = d) ~> (d \in seen \/ quitting)

\* The chain thread waits for places that nobody will give back.
ChainStuck ==
    cpc = "wait" /\ slots = 0 /\ (hpc = "done" \/ (hpc = "wait" /\ tokens = 0))

\* Quitting ends with the chain thread stopped, except in the one way the
\* code leaves open: it waits in stash_data, all places are taken, and the
\* handler is gone or waits for an event.
ShutdownCompletes == quitting ~> (cpc = "stopped" \/ ChainStuck)

----------------------------------------------------------------------------
(* Refinement: the plugin is a bounded FIFO channel that keeps what is in   *)
(* its rows.  A row is kept once its event is queued.                       *)

InHand == IF hpc = "record" THEN <<>> ELSE Data(hand)
DataOf(R) == {r.data : r \in R}
KeptNow == DataOf(rows) \ (IF cpc = "enqueue" THEN {arg} ELSE {})
SavedNow == [i \in 1..Len(undo) |-> DataOf(undo[i].rows)]
BufNow == InHand \o Data(queue)
Channel == INSTANCE EventChannel WITH
    Capacity <- MaxDbSize,
    kept     <- KeptNow,
    saved    <- SavedNow,
    buf      <- BufNow,
    out      <- delivered,
    opened   <- restarts

\* Every step of the plugin is a step of the channel or leaves it alone: events
\* reach the listeners once in a process and in the order of the chain's
\* signals, and a new process goes on with those the chain state still has.
ImplementsChannel == Channel!CSpec

=============================================================================
