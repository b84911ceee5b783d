----------------------------- MODULE JsModule -----------------------------
(* How a contract runs (src/src/js_contract/src/js_module.cpp: apply,       *)
(* load_state, save_state; src/src/patch/eosio/contract_interface.cpp:      *)
(* get_contract_module).  A module object is cached for each code, whatever *)
(* the account, and lives on when the chain undoes a transaction.  It holds *)
(* the ABI it was made with and, during an action, db.state.  The chain is  *)
(* external: it sets code and ABI, and runs transactions, one at a time,    *)
(* that commit or are undone (they failed, or ran speculatively).           *)
EXTENDS Integers

CONSTANTS
    Accounts,
    Codes,          \* the contracts
    Abis,           \* the ABIs
    Values,         \* values of db.state
    Unencodable,    \* a value of db.state that JSON cannot encode
    None,           \* no code, no module, no state
    MaxAbis,        \* bound: setabi actions of an account
    MaxUndone       \* bound: transactions undone

ASSUME NoneAssumption == None \notin Codes \cup Abis \cup Values \cup {Unencodable}
ASSUME BoundsAssumption == MaxAbis \in Nat /\ MaxUndone \in Nat

VARIABLES
    db,         \* for each account: code, abi, abi_sequence, and the row of its state
    saved,      \* db before the transaction that runs
    cache,      \* wasm_instantiation_cache: the module of each code
    phase,      \* what runs: nothing, a transaction, the top level of a module, a handler
    frame,      \* the action that runs: its receiver, whether it is the receiver's own and
                \* no notification, and the history of its ABI and of writes to db.state
    undone

vars == <<db, saved, cache, phase, frame, undone>>

NoFrame == [receiver |-> None, own |-> FALSE, abi |-> None, wrote |-> FALSE]

Module == cache[db.code[frame.receiver]]
State == Module.state       \* m_state

----------------------------------------------------------------------------
(* Transactions *)

StartTransaction ==
    /\ phase = "idle"
    /\ phase' = "transaction"
    /\ saved' = db
    /\ UNCHANGED <<db, cache, frame, undone>>

Commit ==
    /\ phase = "transaction"
    /\ phase' = "idle"
    /\ saved' = db
    /\ UNCHANGED <<db, cache, frame, undone>>

Undone ==
    /\ undone < MaxUndone
    /\ phase' = "idle"
    /\ db' = saved
    /\ undone' = undone + 1
    /\ frame' = NoFrame
    /\ UNCHANGED <<saved, cache>>

Undo == phase = "transaction" /\ Undone

SetCode(a, c) ==
    /\ phase = "transaction"
    /\ c # db.code[a]
    /\ db' = [db EXCEPT !.code[a] = c]
    /\ UNCHANGED <<saved, cache, phase, frame, undone>>

SetAbi(a, x) ==
    /\ phase = "transaction" /\ db.sequence[a] < MaxAbis
    /\ db' = [db EXCEPT !.abi[a] = x, !.sequence[a] = @ + 1]
    /\ UNCHANGED <<saved, cache, phase, frame, undone>>

\* current_lib evicts the module of a code no account has any more.
Evict(c) ==
    /\ phase = "idle" /\ cache[c] # None
    /\ \A a \in Accounts : db.code[a] # c
    /\ cache' = [cache EXCEPT ![c] = None]
    /\ UNCHANGED <<db, saved, phase, frame, undone>>

----------------------------------------------------------------------------
(* An action *)

\* get_contract_module: a module made for another abi_sequence is made again.
GetModule(a) ==
    LET old == cache[db.code[a]]
    IN  IF old # None /\ old.sequence = db.sequence[a] THEN old
        ELSE [abi |-> db.abi[a], sequence |-> db.sequence[a], state |-> None]

\* Mutant of Apply: the state the last action left is kept.
ApplyKeepsState(a, b) ==
    /\ phase = "transaction" /\ db.code[a] # None
    /\ cache' = [cache EXCEPT ![db.code[a]] = GetModule(a)]
    /\ phase' = "module"
    /\ frame' = [receiver |-> a, own |-> (a = b), wrote |-> FALSE,
                 abi |-> IF a = b THEN GetModule(a).abi ELSE db.abi[b]]
    /\ UNCHANGED <<db, saved, undone>>

\* apply, up to the call of require, for the account a and an action of b: the
\* module's ABI decodes an action of its own, the ABI of b any other.
Apply(a, b) ==
    /\ phase = "transaction" /\ db.code[a] # None
    /\ cache' = [cache EXCEPT ![db.code[a]] = [GetModule(a) EXCEPT !.state = None]]
    /\ phase' = "module"
    /\ frame' = [receiver |-> a, own |-> (a = b), wrote |-> FALSE,
                 abi |-> IF a = b THEN GetModule(a).abi ELSE db.abi[b]]
    /\ UNCHANGED <<db, saved, undone>>

Running == phase \in {"module", "handler"}

SetState(v) == cache' = [cache EXCEPT ![db.code[frame.receiver]].state = v]

\* The contract reads db.state: load_state reads the row of the receiver once.
\* What it writes into the state of one account of the main net, in the
\* transactions of its past that are listed by id (js_module.cpp:82-90), is left
\* out: in those, the action sees another value of from_here than its row has.
ReadState ==
    /\ Running
    /\ State = None /\ db.state[frame.receiver] # None
    /\ SetState(db.state[frame.receiver])
    /\ UNCHANGED <<db, saved, phase, frame, undone>>

\* The contract assigns db.state, or changes the object it has read.
WriteState(v) ==
    /\ Running
    /\ SetState(v)
    /\ frame' = [frame EXCEPT !.wrote = TRUE]
    /\ UNCHANGED <<db, saved, phase, undone>>

\* The function for the action is called.
CallHandler ==
    /\ phase = "module"
    /\ phase' = "handler"
    /\ UNCHANGED <<db, saved, cache, frame, undone>>

\* A notification the module has no on_ function for: return, nothing saved.
NoHandler ==
    /\ phase = "module" /\ ~frame.own
    /\ phase' = "transaction"
    /\ frame' = NoFrame
    /\ UNCHANGED <<db, saved, cache, undone>>

\* Mutant of SaveState: a state the action has not touched is saved as none.
SaveStateAlways ==
    /\ phase = "handler" /\ State # Unencodable
    /\ SetState(None)
    /\ db' = [db EXCEPT !.state[frame.receiver] = State]
    /\ phase' = "transaction"
    /\ frame' = NoFrame
    /\ UNCHANGED <<saved, undone>>

\* The function returns: save_state.
SaveState ==
    /\ phase = "handler" /\ State # Unencodable
    /\ SetState(None)
    /\ db' = IF State = None THEN db ELSE [db EXCEPT !.state[frame.receiver] = State]
    /\ phase' = "transaction"
    /\ frame' = NoFrame
    /\ UNCHANGED <<saved, undone>>

\* save_state resets m_state before it finds that the value does not encode.
SaveThrows ==
    /\ phase = "handler" /\ State = Unencodable
    /\ undone < MaxUndone
    /\ SetState(None)
    /\ phase' = "idle"
    /\ db' = saved
    /\ undone' = undone + 1
    /\ frame' = NoFrame
    /\ UNCHANGED saved

\* The contract throws or runs out of time, or has no function for the action.
Throw == Running /\ Undone

----------------------------------------------------------------------------
\* New accounts have neither code nor ABI.
Init ==
    /\ db = [code |-> [a \in Accounts |-> None], abi |-> [a \in Accounts |-> None],
             sequence |-> [a \in Accounts |-> 0], state |-> [a \in Accounts |-> None]]
    /\ saved = db
    /\ cache = [c \in Codes |-> None]
    /\ phase = "idle"
    /\ frame = NoFrame
    /\ undone = 0

Next ==
    \/ StartTransaction \/ Commit \/ Undo
    \/ \E a \in Accounts : \/ \E c \in Codes \cup {None} : SetCode(a, c)
                           \/ \E x \in Abis : SetAbi(a, x)
                           \/ \E b \in Accounts : Apply(a, b)
    \/ \E c \in Codes : Evict(c)
    \/ ReadState \/ (\E v \in Values \cup {Unencodable} : WriteState(v))
    \/ CallHandler \/ NoHandler \/ SaveState \/ SaveThrows \/ Throw

Spec == Init /\ [][Next]_vars

----------------------------------------------------------------------------
(* Properties *)

\* The state an action sees is the one its account last saved, until the
\* action writes it: not that of another account with the same code, not that
\* of an action that failed or was a notification without a function.
StateIsOwn == Running /\ ~frame.wrote => State \in {None, db.state[frame.receiver]}

\* A committed state is never lost: the row becomes the state its account's
\* action wrote and that can be encoded, or what it was before the transaction;
\* an action that does not write db.state leaves it, whether it reads it,
\* throws, or does neither.
StateIsKept ==
    [][\A a \in Accounts : db'.state[a] # db.state[a] =>
         \/ frame.receiver = a /\ frame.wrote /\ db'.state[a] = State /\ State # Unencodable
         \/ db'.state[a] = saved.state[a]]_vars

\* An action of an account is decoded with the ABI the account has.
AbiIsReceivers == Running /\ frame.own => frame.abi = db.abi[frame.receiver]
=============================================================================
