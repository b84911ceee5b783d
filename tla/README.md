# TLA+ models of FIBOS

FIBOS is a nodeos whose chain runs in a C++ thread beside a JavaScript (fibjs)
isolate, whose contracts are JavaScript modules, and which carries a plugin
that verifies Ethereum headers and signs cross-chain events. This directory
holds TLA+ specifications of the parts of `src/src` that keep state, the TLC
configurations that check them, and TLAPS proofs about every part that is
modelled: each invariant the runs check, and each action property, is proved for
all values of the constants, some under a hypothesis that section 5 names.

Paths below are relative to `src/`. "External" code is code the sources call
but do not contain (appbase, chainbase, nodeos' chain and plugins, the cross
contract): it is modelled only as far as the sources here depend on it.

## 1. The system

| Part | Source | State | Operations | Module |
|---|---|---|---|---|
| Emitter plugin, hand-over of events | `src/plugin/emitter_plugin.cpp` 30-228, 283-338 | rows of `event_cache_index`, in-memory queue, two semaphores, `emitted_id`, `mem_id` | `applied_event`, `stash_data`, `js_handler`, initialize, shutdown | `Emitter`, `EventChannel`, `EmitterProofs` |
| Emitter plugin, signals of the chain | same file, 246-267, 327-330 | `s_last_irreversible_block` | `on_accepted_block`, `on_applied_transaction`, `plugin_startup` | `BlockEvents`, `EventStream`, `EventStreamProofs` |
| Cross plugin, window of epoch caches | `src/cross/plugin/cross_plugin.cpp` | `cache_vec`, `lower_epoch`, `is_generating`, the epoch row | `start_epoch`, `generate_epoch`, `verifyBlockHeader`, `on_accepted_block`, start | `EpochCache`, `EpochProofs` |
| Cross plugin, signing loop | same file | timer, `init_check`, `sign_permission`, table `signpool` | `handle_action_loop`, `do_init_check`, `handle_sign_action`, `push_action` | `SignLoop`, `SignLoopProofs` |
| Cross plugin, fields of a header | `RLP.hpp`, `hex.hpp`, `BaseConverter.cpp` | none | `RLP::encode`, `from_hex`, `headerHash`, `Convert` | `Digits`, `Rlp`, `BaseConverter`, `Header`, `MCPure`, `PureProofs` |
| Contract database | `src/js_contract/src/Table.cpp`, `Index.cpp`, `DBIterator.cpp` | rows, index rows, the action's iterator cache, iterators the contract holds | `emplace`, `update`, `remove`, `find`, `lowerbound`, `upperbound`, `begin`, `end`, `next`, `previous`, `is_begin`, `is_end`, `get_primary_key` | `MultiIndex`, `MultiIndexProofs` |
| Handles of tables | `Table.cpp` 47-110, 504-568, `Index.h` | none (built anew for each handle) | `get_table`, `set_index`, `Index::name` | `TableHandle`, `MCPure`, `PureProofs` |
| Values between JavaScript and the chain | `src/base/js_value.cpp`, `Table::get_index` | none | `js_value`, `fc_value` | `Values`, `MCPure`, `PureProofs` |
| Contract execution | `src/js_contract/src/js_module.cpp`, `src/patch/eosio/contract_interface.cpp` | cached modules with their ABI and `m_state`; row of `db.state` | `get_contract_module`, `apply`, `load_state`, `save_state`, eviction | `JsModule`, `JsModuleProofs` |
| Life of the node, `chain.post` | `src/base/app.cpp`, `src/base/post.cpp` | started, stopped, quitting, place of the chain thread, posted calls | `start`, `stop`, `chain_main`, `emit_event`, `post` | `Node`, `NodeProofs` |

The parts interact as follows.

* Two threads matter: the **chain thread** (`chain_main`) and the **JavaScript
  thread**, which runs fibers one at a time. The chain thread calls plugin
  signals, contract modules and url handlers; it reaches the JavaScript
  thread with functions that it queues there and does not wait for
  (`Isolate::sync` with `emit_event`), and through the emitter's queue, which it
  waits for only when it is full. JavaScript reaches the chain thread with
  `chain.post`, whose fiber waits for the answer while others run.
* The emitter plugin stashes events in the **chain database**, so its rows take
  part in the chain's undo sessions while its memory does not.
* Actions of the cross contract call `start_epoch` and `verifyBlockHeader` in
  the chain thread; caches are computed by **detached threads**. One mutex
  protects the window and is released while a cache is computed or used.
* The signing loop runs on the main loop's timer, between the other work of
  the chain thread, and reaches the contract only by pushing transactions.
* Contracts run in the chain thread, one action at a time; a contract module
  is shared by all accounts with the same code and outlives undone transactions.

What is hard here, and what the properties are for: the interleaving of
chain thread and fiber around two semaphores; memory that is not rolled back
with the database (emitter, epoch window, module cache); recovery from the rows
alone; detached threads and the mutex they release; pages, lost transactions
and forks under the signing loop; iterators that outlive what they point to;
an order of start, stop, errors and events nobody wrote a test for. The list,
line by line, is `hazards` in `PROJECT.json`.

What makes each part correct, in a sentence: the emitter delivers every event
of the applied chain at least once, in order, without the threads blocking each
other; listeners hear of every block, of none before its parent, and of
irreversible blocks in order and without gaps; the
window is aligned with `lower_epoch`, bounded, and does not lose the cache in
use; signatures are given for irreversible events only, up to the block the
seconds of a row's time cannot tell, and in the end for all
that are due; rows and index rows agree; an action sees its own account's state
and ABI; the node ends with one `close` event and answers a posted call;
the bytes that are hashed determine the header; a row survives being read and
stored, and no two indexes of tables with short names share their entries.

Not modelled:

* `hashimoto`, `gencache`, keccak, BLS, key conversion: stateless numeric code
  or calls into libraries. `InfInt.h` and the prime tables are third-party.
* `action`, `trans`, `crypto`, `console` of contracts, `chain.cpp`, the other
  patches of nodeos, the generated `include/ifs`: they forward or change names,
  and keep no state. `js_variant` is not used.
* `load`, which appends to the arguments that `initialize` reads once, and
  `is_dirty`, which reads the state files.
* What is not this program's: of the C and C++ under `src/`, about 8,000 lines
  are FIBOS' own; the rest (about 148,000 lines, chiefly `vender/gmp` with its
  assembler, tests and tuning programs) is vendored. A share of all lines
  that is covered by these models says little for that reason.

## 2. The modules

Every module says in its header what it models; names follow the code where
TLA+ allows. Definitions preceded by "Mutant of" are plausible bugs, none
of them used by the specification: each property is violated when a definition
is replaced by one of its mutants (`mutants` in `PROJECT.json`).

**Emitter.** `rows`, `queue`, `tokens` (`s_emitter`), `slots`
(`s_emitter_db`), `emitted`, `mem` are the code's variables; `cpc` and `hpc`
are the places of the chain thread in `stash_data` and of the fiber in
`js_handler`. Each call that the other thread can observe is a step: waiting
for a place, each turn of the pruning loop (which reads `emitted_id` afresh),
creating the row, queueing, posting; taking the token, popping, emitting,
recording, giving the place back. `StartSession`, `UndoSession`, `CommitSession`
are chainbase's undo stack; they happen only while the chain thread is not in
`stash_data`. `CreateFails` is `db.create` throwing, which may happen before or
after the generator lambda increments `mem_id`; with `DbCanFail` false it only happens
when the identifier is taken. `EmitFails` is a listener that throws.
`Restart` follows a `Shutdown`: a process that is killed leaves chainbase's
file dirty, and nodeos does not open it again without a replay. The fiber of the
ended process may have been anywhere. `applied`, `offered`, `delivered`, `seen`
are history.

**EventChannel** is what the emitter promises: a bounded FIFO channel that keeps
events for the next process. `Put` accepts an event with a new stamp and keeps
it, `Get` hands out the oldest, `Forget` drops the oldest kept event once it was
delivered, `Save`, `RollBack`, `Commit` are the sessions of the chain, in which
what is kept takes part and what is on its way does not, and `Reopen` is a new
process, which starts with what is kept. `Emitter!ImplementsChannel` maps `kept`
to the rows (`KeptNow`, without one that is created and not queued yet: `Put` is
`Enqueue`), `saved` to the rows of the undo stack (`SavedNow`), `buf` to the event in hand
(until it is emitted) followed by the queue (`BufNow`), `out` to what this process
delivered, `seen` to what any process delivered, `opened` to the number of
restarts.

**BlockEvents.** The signals of the chain and the events that
`on_accepted_block` and `on_applied_transaction` make of them: `todo` is the rest of the
calls of `applied_event` in the signal at hand. For an accepted block these are the
made-up event of block 1, the block, and every block that became irreversible and can
be fetched: the block log has every block from `oldest` on, so the numbers that
the `while` loop skips are the first ones (`Unfetchable`). The chain builds a block
on its head or aborts it, accepts it, switches forks, and makes blocks
irreversible. A process may start from its head, from a replay (signals come
before `plugin_startup`), or from a snapshot (older blocks cannot be fetched). The
module has actions and no specification of its own.

**EventStream** composes the two: the chain's signals of `BlockEvents` go into
`EventChannel`, whose sessions are those of the chain, one for each block that can be
taken back and one for the block being built. `told` is what the listeners
were told, whatever process told it. Since `Emitter` implements `EventChannel`, this is
the plugin from end to end without the steps of its threads.

**EpochCache.** A cache is named by its epoch. `thread[t]` is where a
thread is in `generate_epoch`: before its first lock, or computing with the
mutex released; `Continue` is the loop from its condition to the next unlock.
`LookUp` and `Verify` are the two halves of a verification, between which the
mutex is free and the raw pointer is used. `StartEpoch` follows whatever the
verification said, as in the callbacks. Arithmetic is modulo `Modulus`.
`Verify` on a freed cache may answer anything, and without a cache it rejects: the
code answers the same `false` to an epoch that was not generated yet and to a
header whose check failed. `CommitRow`, `RollBackRow` are
the chain state the epoch row lives in. `low` is history: this process was asked for a
window that would begin at 0, which stands for no window, or below.

**SignLoop.** `Tick` is `handle_action_loop` up to the scan: the timer is armed
first, `do_init_check` runs once, the key is looked up. `Page` is a turn of the
`do` loop; the next page starts at the last row of this one, and some rows may be
dropped, as `fill_action` does with whatever it throws. Times are slots of half a
second, in which blocks come; the time in a row counts seconds, and so the loop
compares the start of the second (`Second`). That the contract writes the time of
the block there is an assumption on what is external. Pushed
transactions are a set `sent` that the chain applies in any order, loses, or
refuses. Erased rows and taken signatures carry their block's time, so that
`Fork` undoes them with their blocks. One of two permissions carries the key, and
`ChangePermission` moves it.

**MultiIndex.** `db` holds rows, index rows and the iterator cache of the
action. An iterator is a record with the fields of `DBIterator`. `apply_context`'s
calls are external and modelled with their numbering; the index classes of the
key sizes only forward to them. The numbering is: places in the cache, -1, and
-2, -3, ... for the ends of the tables in order of first use. A handle names a code and
a table: reading goes to that code's table, `emplace` to the receiver's (`Target`),
and `update` and `remove` of another code's row throw. Index 0 has the
name of its table and so shares the table's existence. Calls that fail half-way
leave what they did; `catches` is whether the contract goes on or lets the
action be undone. `strayed` is history: `previous` has answered a row of another
table (finding 2), and what is done through such an iterator is not promised anything.

**JsModule.** `cache[c]` is the module of code `c` with the ABI, the
`abi_sequence` and the `m_state` it holds; `db` is what the chain undoes.
`Apply`, then `ReadState`/`WriteState` in the top level or in the
handler, then `SaveState`, `NoHandler` or an exception.

**Node.** `chain` is the place of the chain thread in `chain_main`. At a place
in `Emitting` it queues an event in `jobs` and goes on; the JavaScript thread
begins the queued events in order (`begun`), each in a fiber of its own
(`running`), and a fiber that waits for `chain.post` (`caller`, `post`) lets
others run. A listener may never return. `Outcomes` is what a url handler may do when it
is called: call back and return, call back and throw (the `catch` then answers
a second time), throw, keep the callback for later (`CallBack`), or give up for good
(`GiveUp`): the functions of the connection it is given, `handle_exception`,
`send_busy_response` and `send_response`, are empty.

**Values.** `js_value` and `fc_value` on values nested to a depth, `get_index`
on keys, with the serializer of rows (external) between them: integers are
written with the width of their field and read with its type. A Number is counted in
parts of 1/`Grain`; a cast of it drops the fraction, and gives any integer of the type
when it is out of range, where C++ leaves it undefined. A value is the tree
of its nodes, a function from paths; the code's recursion over the elements of
arrays and objects, which converts each by itself, is then one function.

**TableHandle.** What `set_index` accepts, how many indexes `get_table` allows,
and in which table of the chain each keeps its entries. A name is the set of the bits of its number, so that `Index::name`,
which sets the lowest ones to the position, is a union; the lowest four bits are those
of a thirteenth character.

**Rlp, BaseConverter, Header, Digits.** Operators for the encoding of fields
and the conversion of hexadecimal numbers; `Header` feeds them the fields of a
header one by one and compares with a decoder written from the Ethereum Yellow
Paper and with the value of the digits (`Digits`). The loops of the code are
recursive functions: one turn of `divide` is `Turn`, and `Turns` is what the first
turns leave.

**MCPure** explores `Header`, `Values` and `TableHandle` in one run, one at a
time, since none of them has a state that another could change.

## 3. The runs

| Run | Constants that matter | What it shows |
|---|---|---|
| `emitter` | capacity 2, 4 events, 2 undo sessions, 2 restarts, database takes every event | `TokenAccounting`, `SlotAccounting`, `NoMutualWait`, `RowsBounded`, `NoRowForgotten`, `AtLeastOnce`, `FreshPid`, `PruneOnlyDelivered`, `ImplementsChannel` |
| `emitter_failures` | capacity 1, 3 events, 1 session, 1 restart, creating a row may throw; with fairness | `StashedIsDelivered`, `ShutdownCompletes`; what the first part of `EmitterProofs` states is proved for this case too, what the second states does not hold in it (section 5) |
| `event_stream` | blocks 1..4, capacity 2, one fork, one transaction, one restart | `IrreversibleInOrder`, `NoIrreversibleSkipped`, `ChainIsTold`, `ParentBeforeChild` |
| `epoch_warm` | window of 3, 2 generator threads, epochs 0, 1, 3, 4, 5, modulus 16, one restart | `Aligned`, `Bounded`, `RejectsOnlyOutside`, `Served` |
| `epoch_cold` | the same with epochs 2..6, and the process may start without the epoch row | `InitializedOnce` fails (finding 1) |
| `sign_loop` | 2 rows, pages of 1 or 2, 3 slots, 2 permissions, 2 troubles (forks, lost transactions, pages with rows that are dropped, exceptions, reschedulings, changes of the permission) | `SignedIsFinal`, `PassCovers`, `EventuallySigned` |
| `multi_index` | a table of the contract and one of another code, 2 keys, 1 index, 2 iterators, 4 calls an action, or 3 when errors are caught | `IndexMatchesRows`, `EndMeansNoData`, `WritesOwnRow`, `FreshKey`, `BeginIsFirst` |
| `multi_index_end` | 2 tables, 1 key | `StaysInTable` fails (finding 2) |
| `js_module` | 2 accounts with one code, 2 values, 1 undone transaction | `StateIsOwn`, `StateIsKept` |
| `js_module_shared` | 2 accounts, one code, 2 ABIs | `AbiIsReceivers` fails (finding 3) |
| `node` | 2 posted calls; with fairness | `CloseIsLast`, `QuitEnds`, `PostIsAnswered` |
| `pure` | two fields with lengths around 55 and 255 bytes; all numbers of up to 4 hex digits; integers of 4 bits, Numbers in halves on both sides of every range, values nested twice; 6 tables, 2 of them with 13 characters, up to 18 declared indexes | `Decodes`, `SameNumber`, `RowKept`, `ShortNamesApart` |

Why the bounds are enough.

* *Emitter.* Capacity 2 lets one event be stored while another waits for a
  place; four events go twice round the capacity, so pruning, full queue and
  reuse of places happen; two sessions give a transaction inside a block; two
  restarts let a roll-back follow a recovery and be recovered from again. The
  proofs in section 5 remove the bounds for the properties they cover.
* *EventStream.* Four blocks let the irreversible block jump by more than one
  between two signals, before and after a fork and a restart; capacity 2 lets a
  signal of two or three events meet a full channel; one fork gives two blocks
  of one number, the first of which was told, is on its way, or is forgotten.
* *EpochCache.* A window of 3 with `UpdatePos` 2 is the smallest where the three
  positions differ (the code has 5 and 2). Two workers show that two are never
  at work unless the chain thread is one of them. Modulus 16 is above every
  window the epochs reach, as 2^64 is. A header of epoch 1 asks for a window
  that begins at 0, and one of epoch 0 for one that wraps.
* *SignLoop.* Two rows and pages of one or two give a first page that time cuts short
  and a second one that starts with a row already seen, as well as full pages. Three slots
  have a block of either half of a second, and one behind. With two troubles a
  second pass fails as the first did, each in its own way. A page with more to come is taken to
  reach beyond the row it starts with: `get_table_rows` may cut a page short by
  time, and a page of that one row would make the loop ask for it for ever.
* *MultiIndex.* Four calls suffice to find, remove, emplace again and use the
  old iterator, and to use the tables of two codes in either order. The two
  iterators are interchangeable (SYMMETRY), and the history of the last call,
  which no action reads and only action properties look at, is left out of the
  VIEW. `MaxPid` (2^64 - 1) is never a key in the runs: it is the key `idx`
  searches answer with when they find nothing, and an index would then answer
  that row at its end. With one index the loops over the indexes have one turn;
  their order is modelled.
* *Node.* One call from a `load` listener and one from elsewhere, at every
  moment.
* *Pure.* Every prefix form, odd and even lengths, first bytes on both sides of
  0x80; four digits give carries over several digits of the remainder. Four bits
  have every relation of signed and unsigned, in and out of range, that 64 have
  (`Half` is 8 in the run, 2^63 in the code).
  The Numbers lie on both sides of every limit of the two types, with and without a fraction.
  Four of the six tables leave the lowest four bits free and differ in the next, two
  use them; 18 indexes pass the limit of 16.

`CHECK_DEADLOCK FALSE` is set where a behaviour ends because its bounds are
used up or because the process has stopped.

## 4. Fairness

* *Emitter* (`emitter_failures`): weak fairness of the chain thread inside
  `stash_data`, of the fiber, and of `Shutdown`. Both threads are scheduled by
  the system, a listener is assumed to return, and the environment owes no
  event, no quit and no restart. `ShutdownCompletes` excludes the one state the
  code leaves open: the chain thread waits for a place that a handler which has
  left, or waits for an event, will not give back.
* *EpochCache*: `gencache` terminates and threads are scheduled (weak fairness
  of `Generate`, `Verify`, `Restored`). No fairness is asked of the chain:
  `Served` speaks of an epoch that is asked for again and again.
* *SignLoop*: the timer fires and a pass runs on (weak); the chain takes a
  pushed transaction of a row if it could again and again (strong), because
  applying happens only between two passes, and the timer leaves a second
  between them. `EventuallySigned` holds for a producer that stays scheduled
  while the key has the permission the first check found, or none was found yet:
  `sign_permission` is asked for only once, so a key that moves to another
  permission does not sign until the next start.
* *Node*: both threads run on; `initialize` and `startup` return or throw, and a url
  handler that kept the callback calls back or gives up in the end. That it
  calls back cannot be assumed: a handler that turns to its connection reaches
  empty functions, and the fiber that posted the call waits for ever.
  `PostIsAnswered` excepts it. Nothing is assumed of listeners, which may wait for ever, nor does
  `exec` have to throw. `QuitEnds` and `PostIsAnswered` need that the chain
  thread does not wait for listeners.

## 5. What is proved

Eight modules hold theorems. Each `EXTENDS` the module it is about and assumes
only the assumptions on its constants; four groups of theorems have one more
hypothesis each, named below with what fails without it. Every inductive
invariant was checked by TLC on the run's instance before it was proved.

**EmitterProofs**: every capacity, number of events, sessions and
restarts, whether or not the database can fail.

| Theorem | Statement | Rests on |
|---|---|---|
| `HandHeld` | the fiber holds exactly one event while it emits and records it | itself inductive |
| `TypeCorrect` | `TypeOK`, and the rows of the table and of every snapshot are finitely many | `HandHeld` |
| `TokensMatch` | `TokenAccounting`: the fiber never pops an empty queue | `TypeCorrect` |
| `PlacesSuffice` | until the application quits no place is missing | `TypeCorrect` |
| `NeverMutualWait` | `NoMutualWait` | `TokensMatch`, `PlacesSuffice` |
| `OrderKept` | identifiers increase from `emitted_id` over hand and queue to `mem_id` | `TypeCorrect`, `HandHeld` |
| `NothingForgotten` | `Kept` and `Durable` | all of the above |
| `EventsAtLeastOnce`, `RowsOnTheirWay` | `AtLeastOnce`, `NoRowForgotten` | `NothingForgotten` |
| `PruningIsSafe` | `PruneOnlyDelivered` | `OrderKept`, `NothingForgotten` |

The argument for at-least-once. `AtLeastOnce` alone is not inductive: undoing a
session replaces the table by a snapshot, so each snapshot has to satisfy it for
its own chain state (`Durable`). A snapshot's rows may already be
delivered and pruned, or not be delivered, and then the process must still be
going to deliver them: so an undelivered row of an older snapshot is in every
later one and in the table (`Kept`), and an undelivered row of the table is in
hand, queued or about to be queued (`NoRowForgotten`). That pruning keeps this
needs the order: a row on its way has an identifier above `emitted_id`
(`Ordered`), so what the loop removes was delivered (lemmas `SeenOrAhead`,
`PrunedWereSeen`). A restart rebuilds the queue from the rows in the order of
their identifiers, a choice that exists because the rows are finitely many
(`FiniteRows`, lemma `InPidOrderSeq`). `NoMutualWait` is arithmetic on top of
the two accounts: with no free place and no token, some event would be nowhere.

The second part of **EmitterProofs**: the same, under `~DbCanFail`.

| Theorem | Statement |
|---|---|
| `IdentifiersFollowEvents` | `Consistent`, `Newest`, `Windows` |
| `IdentifiersAreFresh` | `FreshPid` |
| `PlacesAndRows` | `Pending`, `SlotsHeld`, `Bounded` |
| `TableIsBounded`, `PlacesAreExact` | `RowsBounded`, `SlotAccounting` |
| `PluginIsChannel` | `ImplementsChannel`: the plugin refines `EventChannel` |

Identifiers are taken anew from the last row at a restart, so that freshness rests on the
snapshots: the rows that a roll-back brings back must be older than what
is created now. `Windows` says that the snapshots and the table are successive
positions of one window that slides over the events, and that the window is empty
only where every older one is. Identifiers and stamps are then ordered alike in
everything that exists (`Consistent`). The bound on the table is that of places: a row
not yet recorded as emitted is on its way (`Pending`), and what is on its way
takes a place (`SlotsHeld`). The refinement has one lemma per step: `EnqueuePuts`,
`EmitGets`, `PruneForgets`, `SessionSaves`, `SessionRollsBack`, `SessionCommits`,
`RestartReopens`, and `OthersStutter` for the rest.

Why `~DbCanFail`: with it TRUE TLC finds each of these properties violated. A create
that fails after pruning leaves an empty table whose snapshots have rows; after
a restart `mem_id` begins again, and a roll-back brings the old rows back.

**EventStreamProofs**: every chain, capacity and number of forks,
transactions and restarts.

| Theorem | Statement | Inductive invariant |
|---|---|---|
| `ChainHolds` | types; `oldest`, `lastIrr`, `lib`, `head` are in order | `Types`, `Numbers` |
| `ChannelHolds`, `TypeCorrect` | one session per block that can be undone; what it keeps was told or is on its way (`TypeOK`) | `Streams`, `Sessions` |
| `IrreversibleBlocksInOrder` | `IrreversibleInOrder` | `InOrder`: also of `todo`, and up to `s_last_irreversible_block` |
| `IrreversibleBlocksComplete` | `NoIrreversibleSkipped` | itself, with the above |
| `ChainIsComplete` | `ChainIsTold` | with `SnapshotsTold`: each session has told the chain that ended where it began |
| `ParentsAreTold` | `ParentBeforeChild` | `ParentsFirst` |

A fork brings the head back to where a session began, and the channel back to what the
session had kept; so what is claimed of the present is an invariant of every
session, for its own head (`SnapshotsTold`). `ParentsFirst` follows an event through all
the places it may be in: what an event needs was told, or precedes it in the
same place, be that the signal at hand, the buffer, what is kept, or what any
session kept. When a block is accepted its needs are in place because the
chain up to the head was told or will be (`AcceptFollows`, from `ChainIsTold`),
and when an event is told nothing smaller is left in the buffer. Since
`PluginIsChannel` replaces the channel by the plugin, these hold of the plugin
while the database takes every event.

**EpochProofs**: every window, modulus, set of epochs and number of threads.

| Theorem | Statement |
|---|---|
| `TypeCorrect`, `WindowIsBounded` | `TypeOK`, `Bounded`, with or without the epoch row at the start |
| `RowsAreStarts` | the epoch row asks for a window of epochs there are, or one that counts as too low |
| `WindowHolds` | `~low => Window` |
| `EntriesAreAligned`, `EpochsAreDistinct`, `RejectedIsOutside` | `Aligned`, no epoch twice, `RejectsOnlyOutside` |

`Window` says that there is one generator (`OneGenerator`: the chain thread counts, though it
does not look at `is_generating`), that a process fills its window before it runs and so
never starts it again (`Phases`), that the generator computes the epoch that
follows the window, for a target some request knows (`Jobs`), that the entries
follow one another (`Span`), and that the raw pointer of a verification is to the
cache of the epoch asked for, whose place in the window is at most passed
(`Held`). All but the first two theorems assume `~Cold`: a process that starts
without the row may have two generators, which is finding 1.

**SignLoopProofs**: every number of rows, size of pages, set of
permissions and number of troubles.

| Theorem | Statement |
|---|---|
| `TypeCorrect` | types; rows are born in the order of their keys, nothing is later than the head (`InTime`) |
| `PushedIsIrreversible` | `Final`: the row of every pushed digest was born at most one slot above the irreversible block, and at or below it, and still there, if it was born in the first half of a second |
| `SignaturesAreFinal` | `SignedIsFinal` |
| `NoGapBetweenPages` | `Covered`: every row due before the next page was pushed or dropped in this pass |
| `PassLeavesNoneOut` | `PassCovers` |

A fork keeps the rows that were born up to the irreversible block, which are the first ones,
under the keys they have (`ForkKeeps`, `FirstOnes`). That a page has a last row
(`HasLast`) is a fact about finite sets of numbers, proved from the
well-foundedness of strict inclusion. The slot of `Final` comes from `SecondIs`: a second
begins at most one slot before the block.

**MultiIndexProofs**: every set of accounts, tables, primary keys, indexes, secondary
keys and iterators, and any number of calls in an action.

| Theorem | Statement | Rests on |
|---|---|---|
| `TypeCorrect`, `IteratorsInPlace` | `TypeOK`, `InPlace` | `Inductive` |
| `RowsHaveEntries` | `IndexMatchesRows` | `Synced` |
| `EndIsEnd` (`MaxPid` not a key) | `EndMeansNoData` | `InPlace`, `Synced` |
| `OwnRow` | `WritesOwnRow` | `InPlace` |
| `KeyIsFresh` (`MaxPid` not a key) | `FreshKey` | `InPlace` |
| `FirstIsFirst` | `BeginIsFirst` | `InPlace` |

None of the properties is inductive: each depends on what an iterator's numbers point
to after rows were removed and stored again through other iterators. The
invariant of lemma `Inductive` is `TypeOK /\ InPlace /\ Synced`. `InPlace` says that the
cache of the action holds only rows and entries that are there, each at one
place, and that the table of a cached row has an end (`Cached`); and that the
place an iterator keeps, unless emptied, is that of the row it was loaded with, and for an
index that of an entry of its own index and table (`Placed`). A place is never
used again for another object, and that is what makes it safe to hold on to.
`Synced` says `IndexMatchesRows` of the database and of the one an error goes back to
(`saved`): the calls leave what they did before they threw, so while an action runs
the second is what carries the claim over the error. An iterator that strayed (finding
2) keeps a row's key but not its table, hence the parameter of `Placed`; `OwnRow`
and `FirstIsFirst` hold of those iterators too.

Each operation has a lemma that says what it does to the database (`StoreDoes`, `UpdateDoes`,
`RemoveDoes`, `SearchFinds`, ...) and one that classifies the call (`FindCall`,
`NextCall`, ...) as one that threw, that answered without an iterator, or that gave one
(`EachCall`); the invariant is then proved once for each class, with one lemma more for
`emplace`, `update` and `remove`. First and last rows are taken with CHOOSE from sets of
numbers, and that they exist (`HasFirst`, `LeastIs`, `GreatestIs`) is proved from
well-foundedness.

Why `MaxPid \notin Pids` in two theorems: an index search that finds nothing answers
with the key 2^64 - 1, and the iterator then loads the row of that key if there is one, so that
it has data at its end; and `get_primary_key` answers 0 after the row of that key. TLC
finds both properties violated with `Pids = {0, 7}` and `MaxPid = 7`. A contract
meets this only by storing a row under that very key.

**JsModuleProofs**: every set of accounts, contracts and values. `TypeCorrect`
(with `ModuleInUse`: the module of a running action stays in the cache, and
`IdleIsCommitted`), `StateOfAccount` (`StateIsOwn`), `OnlyWritesChange`
(`StateIsKept`). A module's `m_state` may be that of another account or of an
undone transaction until `apply` has set it; `StateIsSet` and `UndoneIsIdle` are
the two lemmas that say it is set in time.

**NodeProofs**: any set of posted calls. `TypeCorrect`, `CloseComesLast` (`CloseIsLast`) from `PlaceDecides`: the
place of the chain thread decides which events were emitted, in which order,
whether a listener has begun with them or not.

**PureProofs**: every size of a word, every set of names, every base to convert to, any
number of header fields of any length, any nesting of values. The theorems are about `Spec` of
`MCPure`.

| Theorem | Statement |
|---|---|
| `IndexesApart` | `ShortNamesApart` |
| `RowsAreKept` | `RowKept` |
| `SameNumbers` | `SameNumber` |
| `HeaderDecodes` (`Fits`) | `Decodes` |

These are claims about what loops and recursion compute, so they are proved by
induction over data. The induction and recursion theorems of the library take an operator
as a parameter, which the provers cannot instantiate; its `WFMin`, that a relation which is
well-founded has minimal elements, takes only sets. From it come `Least` (a set
of natural numbers has a least one), `Induction` (over a *set* of numbers),
and `Recursion`: if the value at a point depends only on the values at points that
a measure puts below it, a function with these values exists. `Loop` is its case for
a counter. What each recursive definition of the model computes is then a lemma of its own
(`NumberOfDef`, `Dec2baseDef`, `ConvertDef`, `LengthBytesDef`, `FlattenDef`,
`StringsDef`, and `TurnsDivide` for the loop of `divide`).

* `IndexesApart`: names of at most twelve characters leave the bits 0 to 3 free, the positions of at most 16
  indexes fit into them, each in its own way (`LowBits`), so that the table of an
  index gives back both (`TablesAreApart`).
* `RowsAreKept`: reading a word as signed or unsigned changes it by a multiple of `2 * Half`
  only (`SignedKeeps`), and conversion works node by node (`RowOf`). A Number that fits the
  field and a key is cast to the same word by both (`NumberKey`); of a BigInt both
  keep the low bits (`BigIntKey`).
* `SameNumbers`: the loop invariant of `divide` is `IsDivided`: after `i` turns the
  quotient times `y` plus the remainder is the number of the first `i` digits, the
  remainder is below `y`, and its digits stand in front of those not yet divided.
  `Taken`, which counts how many more or fewer digits the remainder has than the digit it
  replaced, must find the border between the two (`SplitAt`). `Convert` then ends
  because the number gets smaller (`ConvertStep`), and its digits are the shortest
  of that number (`IsShortest`).
* `HeaderDecodes`: behind a prefix the decoder finds what was encoded, whichever of
  the forms the prefix has (`PrefixFound`, `StringFound`): the bytes of the length are few
  enough for the prefix to stay within its 64 first bytes (`EightBytes`), they are the
  shortest (`LengthBytesAre`), and a byte below 0x80 is never given a prefix. Then, from
  the last field to the first, what is behind the first `k` fields decodes to the others
  (`BehindParts`, `StringsFound`).

`Fits` says that the encoded fields together have fewer than 2^64 bytes, which
holds of anything whose length a `size_t` counts. From 2^64 on the length would take nine bytes
and the first byte of a list would be 0x100, for which there is no byte.

Only model-checked: liveness (section 4), which is out of reach of the prover, and
the properties `StashedIsDelivered`, `ShutdownCompletes`, `Served`,
`EventuallySigned`, `QuitEnds` and `PostIsAnswered` with it. The three violated
properties of section 6 are TLC's as well.

## 6. Findings

1. `epoch_cold`: the first accepted block restores the window in the chain
   thread whenever the window is empty and the epoch row exists, without looking
   at `is_generating`. If an action has written the row just before and started
   a detached thread, both fill the window and an epoch is cached twice, one
   position off from then on; the comment says the window is initialised once.
2. `multi_index_end`: `end()` makes -2 of any end iterator. -2 is the end of the
   first table the action used, so `end().previous()` of the second table
   answers a row of the first. An update through that iterator changes the row
   of the first table and the entries of the second.
3. `js_module_shared`: the module cache is keyed by the hash of the code and
   refreshed by `abi_sequence`, so that two accounts with the same code and as
   many `setabi` actions share the ABI of whoever ran first. The same line lets
   a module made under a `setabi` that was undone live on.

Not a finding but a limit of what is claimed: with `DbCanFail`, what the
second part of `EmitterProofs` proves does not hold. A store that fails has already pruned,
and may leave an empty table whose snapshots are not empty. `mem_id` is read from the
last row at a restart, and a later roll-back brings rows back that have higher
identifiers: the next `db.create` then throws, and the application quits.

## 7. Limits and plan

Abstractions to keep in mind:

* The pruning loop of `stash_data` advances an iterator after its row was
  removed; the model takes the next row, which relies on chainbase leaving the
  links of a freed node intact.
* `PostIsAnswered` excludes nodes that quit: calls in the queue are then never
  answered.
* `NoIrreversibleSkipped` speaks of one process: blocks that become irreversible
  after the last signal of a process and before `plugin_startup` of the next
  have no event.
* `Aligned`, `RejectsOnlyOutside` and `Served` except a process that was asked for a
  window that would begin at 0 or below (headers of the first epochs, which
  `init_eth_epoch` refuses only for epoch 0): a start of 0 is taken for "no
  window" and replaced by the next request while the caches stay, a wrapped
  start that was saved makes the next process restore nothing, and generation
  may go on without end. The tables of sizes (`datasetSizes`, `cacheSizes`) end
  at `maxEpoch`; the models stay far below it.
* `IndexMatchesRows` and `EndMeansNoData` are claimed for contracts that let the
  first error end the action: the calls do not undo what they did before they
  threw. Both also except actions in which an iterator has strayed (finding 2), and
  `WritesOwnRow` allows such an iterator to write in another table of the receiver.
* `EndMeansNoData` and `FreshKey` are checked and proved for tables without a row
  under the key 2^64 - 1, which stands for "none" (section 5).
* `ShortNamesApart` speaks of tables whose names have at most twelve characters. The
  thirteenth character of a table is where `Index::name` puts the position of
  an index: the first index of the table with a thirteenth character `1`
  keeps its entries in the table of the second index of the table without it. `set_index` refuses
  "table names with a length greater than 12" (`Table.cpp` 514-515), but looks at the name
  of the index, which names no table of the chain; the name of the table is never checked.
* `RejectsOnlyOutside` takes a valid header of an epoch that was asked for and not
  generated yet for rejected, as the code does: the contract cannot tell this from
  a header that failed its check.
* `SignedIsFinal` excepts a row whose block came in the second half of a second. It is
  dated back by one slot and may be signed while its block can be undone.
* `PassCovers` counts a row that `fill_action` dropped as tried. A row that is dropped in
  every pass is never signed; `EventuallySigned` bounds how often that happens.
* A posted call may be answered twice, by a handler that calls back and then throws
  (`post.cpp` 77-86). The model has this; nothing is claimed of it, since only a
  handler of nodeos' plugins, which are not here, can do it.
* `ReadState` leaves out `js_module.cpp` 82-90: in transactions of the main net's past,
  listed by id, one account's state is given another value of `from_here` than its
  row has. `StateIsOwn` does not speak of those.
* `from_hex` is modelled on hexadecimal digits. The code takes any other character
  for 0 (`hex.hpp` 14), so that `Decodes` says nothing of fields that are not
  hexadecimal.
* `RowKept` excepts Numbers out of range, of which the two casts may make different
  keys, and leaves out keys given as strings, which are names. `new
  Boolean(false)` is not told from `true` by `fc_value`, as `BooleanValue` of an
  object is true.
* `aggregateBlsKey` compresses a point nobody wrote when no key is selected; BLS
  is not modelled.
* `Decodes` reads fields as byte strings; that the number 0 must be passed as an
  empty string is up to the contract.
* Two nodes may answer a verification differently, since each window depends on
  what its process has generated. One process cannot show that.

What is left:

1. *Model*: `load` and `is_dirty` in `Node`.
2. *Prove*: that `SignLoop` and `EpochCache` implement an abstract service (a set of
   signed rows, a window that slides) has not been stated; their properties
   are proved directly.
