-------------------------- MODULE JsModuleProofs --------------------------
(* Theorems about the execution of a contract (JsModule), for every set of  *)
(* accounts, contracts and values.  What a module holds outlives an action  *)
(* and a transaction that is undone; what is proved is that an action sees  *)
(* the state of its own account all the same, and that only a write of its  *)
(* own changes the row.                                                     *)
EXTENDS JsModule, TLAPS

Databases ==
    [code : [Accounts -> Codes \cup {None}], abi : [Accounts -> Abis \cup {None}],
     sequence : [Accounts -> Nat], state : [Accounts -> Values \cup {None}]]

Modules ==
    [abi : Abis \cup {None}, sequence : Nat, state : Values \cup {Unencodable, None}]

Frames ==
    [receiver : Accounts \cup {None}, own : BOOLEAN, abi : Abis \cup {None}, wrote : BOOLEAN]

\* While an action runs, its account has a code, and the module of that code
\* is in the cache: nothing evicts or replaces it under the action.
ModuleInUse ==
    Running => /\ frame.receiver \in Accounts
               /\ db.code[frame.receiver] \in Codes
               /\ Module \in Modules

\* Between two transactions the database is the one the last commit left.
IdleIsCommitted == phase = "idle" => db = saved

TypeOK ==
    /\ db \in Databases /\ saved \in Databases
    /\ cache \in [Codes -> Modules \cup {None}]
    /\ phase \in {"idle", "transaction", "module", "handler"}
    /\ frame \in Frames
    /\ undone \in 0..MaxUndone

----------------------------------------------------------------------------
\* What get_contract_module answers is a module, cached or made.
LEMMA ModuleIsMade ==
    ASSUME TypeOK, NEW a \in Accounts, db.code[a] # None
    PROVE  GetModule(a) \in Modules /\ db.code[a] \in Codes
<1>1. db.code[a] \in Codes /\ db.abi[a] \in Abis \cup {None} /\ db.sequence[a] \in Nat
  BY DEF TypeOK, Databases
<1>2. cache[db.code[a]] \in Modules \cup {None}
  BY <1>1 DEF TypeOK
<1> QED
  BY <1>1, <1>2 DEF GetModule, Modules

\* Setting m_state keeps the module a module and leaves the other modules alone.
LEMMA StateIsSet ==
    ASSUME TypeOK, ModuleInUse, Running, NEW v \in Values \cup {Unencodable, None}, SetState(v)
    PROVE  /\ cache' \in [Codes -> Modules \cup {None}]
           /\ cache'[db.code[frame.receiver]] \in Modules
           /\ cache'[db.code[frame.receiver]].state = v
<1> DEFINE c == db.code[frame.receiver]
           m == [cache[c] EXCEPT !.state = v]
<1>1. c \in Codes /\ cache[c] \in Modules
  BY DEF ModuleInUse, Module
<1>2. m \in Modules /\ m.state = v
  BY <1>1 DEF Modules
<1>3. cache' = [cache EXCEPT ![c] = m]
  BY DEF SetState
<1> HIDE DEF c, m
<1>4. cache \in [Codes -> Modules \cup {None}]
  BY DEF TypeOK
<1>5. cache'[c] = m /\ cache' \in [Codes -> Modules \cup {None}]
  BY <1>1, <1>2, <1>3, <1>4
<1> QED
  BY <1>2, <1>5 DEF c

\* An undone transaction leaves the database of the last commit and no action.
LEMMA UndoneIsIdle ==
    ASSUME TypeOK, Undone
    PROVE  TypeOK' /\ ModuleInUse' /\ IdleIsCommitted'
<1>1. NoFrame \in Frames
  BY DEF NoFrame, Frames
<1>2. undone' \in 0..MaxUndone
  BY BoundsAssumption DEF TypeOK, Undone
<1>3. TypeOK'
  BY <1>1, <1>2 DEF TypeOK, Undone
<1> QED
  BY <1>3 DEF Undone, ModuleInUse, Running, IdleIsCommitted

----------------------------------------------------------------------------
\* Type correctness, with the two facts the rest needs: the module of the
\* running action stays cached, and nothing uncommitted is left when none runs.
THEOREM TypeCorrect == Spec => [](TypeOK /\ ModuleInUse /\ IdleIsCommitted)
<1>1. Init => TypeOK /\ ModuleInUse /\ IdleIsCommitted
  <2> SUFFICES ASSUME Init PROVE TypeOK /\ ModuleInUse /\ IdleIsCommitted
    OBVIOUS
  <2>1. db \in Databases /\ saved \in Databases
    BY DEF Init, Databases
  <2>2. frame \in Frames
    BY DEF Init, NoFrame, Frames
  <2>3. undone \in 0..MaxUndone
    BY BoundsAssumption DEF Init
  <2> QED
    BY <2>1, <2>2, <2>3 DEF Init, TypeOK, ModuleInUse, Running, IdleIsCommitted
<1>2. TypeOK /\ ModuleInUse /\ IdleIsCommitted /\ [Next]_vars
        => TypeOK' /\ ModuleInUse' /\ IdleIsCommitted'
  <2> SUFFICES ASSUME TypeOK, ModuleInUse, IdleIsCommitted, [Next]_vars
               PROVE  TypeOK' /\ ModuleInUse' /\ IdleIsCommitted'
    OBVIOUS
  <2>1. CASE StartTransaction
    BY <2>1 DEF StartTransaction, TypeOK, ModuleInUse, Running, IdleIsCommitted
  <2>2. CASE Commit
    BY <2>2 DEF Commit, TypeOK, ModuleInUse, Running, IdleIsCommitted
  <2>3. CASE Undo
    BY <2>3, UndoneIsIdle DEF Undo
  <2>4. ASSUME NEW a \in Accounts, NEW c \in Codes \cup {None}, SetCode(a, c)
        PROVE  TypeOK' /\ ModuleInUse' /\ IdleIsCommitted'
    <3>1. db' \in Databases
      BY <2>4 DEF SetCode, TypeOK, Databases
    <3> QED
      BY <2>4, <3>1 DEF SetCode, TypeOK, ModuleInUse, Running, IdleIsCommitted
  <2>5. ASSUME NEW a \in Accounts, NEW x \in Abis, SetAbi(a, x)
        PROVE  TypeOK' /\ ModuleInUse' /\ IdleIsCommitted'
    <3>1. db \in Databases /\ db' = [db EXCEPT !.abi[a] = x, !.sequence[a] = @ + 1]
      BY <2>5 DEF SetAbi, TypeOK
    <3>2. [db.abi EXCEPT ![a] = x] \in [Accounts -> Abis \cup {None}]
      BY <3>1 DEF Databases
    <3>3. [db.sequence EXCEPT ![a] = @ + 1] \in [Accounts -> Nat]
      BY <3>1 DEF Databases
    <3>4. db' \in Databases
      BY <3>1, <3>2, <3>3 DEF Databases
    <3> QED
      BY <2>5, <3>4 DEF SetAbi, TypeOK, ModuleInUse, Running, IdleIsCommitted
  <2>6. ASSUME NEW a \in Accounts, NEW b \in Accounts, Apply(a, b)
        PROVE  TypeOK' /\ ModuleInUse' /\ IdleIsCommitted'
    <3> DEFINE m == [GetModule(a) EXCEPT !.state = None]
               c == db.code[a]
    <3>1. GetModule(a) \in Modules /\ c \in Codes
      BY <2>6, ModuleIsMade DEF Apply
    <3>2. m \in Modules
      BY <3>1 DEF Modules
    <3>3. cache' = [cache EXCEPT ![c] = m]
      BY <2>6 DEF Apply
    <3>4. frame' \in Frames /\ frame'.receiver = a
      <4>1. db.abi[b] \in Abis \cup {None} /\ GetModule(a).abi \in Abis \cup {None}
        BY <3>1 DEF TypeOK, Databases, Modules
      <4> QED
        BY <2>6, <4>1 DEF Apply, Frames
    <3> HIDE DEF m, c
    <3>5. cache' \in [Codes -> Modules \cup {None}] /\ cache'[c] \in Modules
      BY <3>1, <3>2, <3>3 DEF TypeOK
    <3>6. db' = db /\ saved' = saved /\ undone' = undone /\ phase' = "module"
      BY <2>6 DEF Apply
    <3>7. TypeOK'
      BY <3>4, <3>5, <3>6 DEF TypeOK
    <3> QED
      BY <3>1, <3>4, <3>5, <3>6, <3>7 DEF ModuleInUse, Module, IdleIsCommitted, c
  <2>7. ASSUME NEW c \in Codes, Evict(c)
        PROVE  TypeOK' /\ ModuleInUse' /\ IdleIsCommitted'
    BY <2>7 DEF Evict, TypeOK, ModuleInUse, Running, IdleIsCommitted
  <2>8. CASE ReadState
    <3>1. Running /\ SetState(db.state[frame.receiver])
      BY <2>8 DEF ReadState
    <3>2. db.state[frame.receiver] \in Values \cup {Unencodable, None}
      BY <3>1 DEF TypeOK, Databases, ModuleInUse
    <3>3. cache' \in [Codes -> Modules \cup {None}] /\ cache'[db.code[frame.receiver]] \in Modules
      BY <3>1, <3>2, StateIsSet
    <3> QED
      BY <2>8, <3>3 DEF ReadState, TypeOK, ModuleInUse, Module, Running, IdleIsCommitted
  <2>9. ASSUME NEW v \in Values \cup {Unencodable}, WriteState(v)
        PROVE  TypeOK' /\ ModuleInUse' /\ IdleIsCommitted'
    <3>1. cache' \in [Codes -> Modules \cup {None}] /\ cache'[db.code[frame.receiver]] \in Modules
      BY <2>9, StateIsSet DEF WriteState
    <3>2. frame' \in Frames /\ frame'.receiver = frame.receiver
      BY <2>9 DEF WriteState, TypeOK, Frames
    <3> QED
      BY <2>9, <3>1, <3>2 DEF WriteState, TypeOK, ModuleInUse, Module, Running, IdleIsCommitted
  <2>10. CASE CallHandler
    BY <2>10 DEF CallHandler, TypeOK, ModuleInUse, Module, Running, IdleIsCommitted
  <2>11. CASE NoHandler
    BY <2>11 DEF NoHandler, NoFrame, Frames, TypeOK, ModuleInUse, Running, IdleIsCommitted
  <2>12. CASE SaveState
    <3>1. Running
      BY <2>12 DEF SaveState, Running
    <3>2. cache' \in [Codes -> Modules \cup {None}]
      BY <2>12, <3>1, StateIsSet DEF SaveState
    <3>3. db' \in Databases
      <4>1. State \in Values \cup {None}
        BY <2>12, <3>1 DEF SaveState, ModuleInUse, State, Modules
      <4> QED
        BY <2>12, <4>1 DEF SaveState, TypeOK, Databases
    <3>4. NoFrame \in Frames
      BY DEF NoFrame, Frames
    <3> QED
      BY <2>12, <3>2, <3>3, <3>4 DEF SaveState, TypeOK, ModuleInUse, Running, IdleIsCommitted
  <2>13. CASE SaveThrows
    <3>1. Running
      BY <2>13 DEF SaveThrows, Running
    <3>2. cache' \in [Codes -> Modules \cup {None}]
      BY <2>13, <3>1, StateIsSet DEF SaveThrows
    <3>3. undone' \in 0..MaxUndone
      BY <2>13, BoundsAssumption DEF SaveThrows, TypeOK
    <3>4. NoFrame \in Frames
      BY DEF NoFrame, Frames
    <3> QED
      BY <2>13, <3>2, <3>3, <3>4 DEF SaveThrows, TypeOK, ModuleInUse, Running, IdleIsCommitted
  <2>14. CASE Throw
    BY <2>14, UndoneIsIdle DEF Throw
  <2>15. CASE UNCHANGED vars
    BY <2>15 DEF vars, TypeOK, ModuleInUse, Module, Running, IdleIsCommitted
  <2> QED
    BY <2>1, <2>2, <2>3, <2>4, <2>5, <2>6, <2>7, <2>8, <2>9, <2>10, <2>11, <2>12, <2>13,
       <2>14, <2>15 DEF Next
<1> QED
  BY <1>1, <1>2, PTL DEF Spec

\* The state an action sees is its account's own, although the module is shared
\* by every account of the code and keeps what an undone action left in it.
THEOREM StateOfAccount == Spec => []StateIsOwn
<1>1. Init => StateIsOwn
  BY DEF Init, StateIsOwn, Running
<1>2. TypeOK /\ ModuleInUse /\ StateIsOwn /\ [Next]_vars => StateIsOwn'
  <2> SUFFICES ASSUME TypeOK, ModuleInUse, StateIsOwn, [Next]_vars, Running'
               PROVE  ~frame'.wrote => State' \in {None, db'.state[frame'.receiver]}
    BY DEF StateIsOwn
  <2>1. ASSUME NEW a \in Accounts, NEW b \in Accounts, Apply(a, b)
        PROVE  State' = None
    <3> DEFINE m == [GetModule(a) EXCEPT !.state = None]
               c == db.code[a]
    <3>1. GetModule(a) \in Modules /\ c \in Codes
      BY <2>1, ModuleIsMade DEF Apply
    <3>2. m.state = None
      BY <3>1 DEF Modules
    <3>3. cache' = [cache EXCEPT ![c] = m] /\ db' = db /\ frame'.receiver = a
      BY <2>1 DEF Apply
    <3> HIDE DEF m
    <3>4. cache'[c] = m
      BY <3>1, <3>3 DEF TypeOK
    <3> QED
      BY <3>2, <3>3, <3>4 DEF State, Module
  <2>2. CASE ReadState
    <3>1. Running /\ SetState(db.state[frame.receiver])
      BY <2>2 DEF ReadState
    <3>2. db.state[frame.receiver] \in Values \cup {Unencodable, None}
      BY <3>1 DEF TypeOK, Databases, ModuleInUse
    <3>3. cache'[db.code[frame.receiver]].state = db.state[frame.receiver]
      BY <3>1, <3>2, StateIsSet
    <3> QED
      BY <2>2, <3>3 DEF ReadState, State, Module
  <2>3. ASSUME NEW v \in Values \cup {Unencodable}, WriteState(v)
        PROVE  frame'.wrote
    BY <2>3 DEF WriteState, TypeOK, Frames
  <2>4. CASE CallHandler
    BY <2>4 DEF CallHandler, StateIsOwn, State, Module, Running
  <2>5. CASE UNCHANGED vars
    BY <2>5 DEF vars, StateIsOwn, State, Module, Running
  <2>6. CASE StartTransaction \/ Commit \/ Undo \/ NoHandler \/ SaveState \/ SaveThrows \/ Throw
    BY <2>6 DEF StartTransaction, Commit, Undo, NoHandler, SaveState, SaveThrows, Throw,
      Undone, Running
  <2>7. ASSUME NEW a \in Accounts,
               \/ \E c \in Codes \cup {None} : SetCode(a, c)
               \/ \E x \in Abis : SetAbi(a, x)
        PROVE  FALSE
    BY <2>7 DEF SetCode, SetAbi, Running
  <2>8. ASSUME NEW c \in Codes, Evict(c)
        PROVE  FALSE
    BY <2>8 DEF Evict, Running
  <2> QED
    BY <2>1, <2>2, <2>3, <2>4, <2>5, <2>6, <2>7, <2>8 DEF Next
<1> QED
  BY <1>1, <1>2, TypeCorrect, PTL DEF Spec

\* A row of db.state changes only into what its account's own action wrote and
\* save_state could encode, or back into what the last commit left.
THEOREM OnlyWritesChange == Spec => StateIsKept
<1> DEFINE Kept(a) ==
      \/ frame.receiver = a /\ frame.wrote /\ db'.state[a] = State /\ State # Unencodable
      \/ db'.state[a] = saved.state[a]
<1>1. TypeOK /\ ModuleInUse /\ StateIsOwn /\ [Next]_vars
        => [\A a \in Accounts : db'.state[a] # db.state[a] => Kept(a)]_vars
  <2> SUFFICES ASSUME TypeOK, ModuleInUse, StateIsOwn, [Next]_vars,
                      NEW a \in Accounts, db'.state[a] # db.state[a]
               PROVE  Kept(a)
    OBVIOUS
  <2>1. CASE SaveState
    <3>1. Running /\ State # Unencodable /\ State # None
      BY <2>1 DEF SaveState, Running
    <3>2. db' = [db EXCEPT !.state[frame.receiver] = State]
      BY <2>1, <3>1 DEF SaveState
    <3>3. a = frame.receiver /\ db'.state[a] = State
      BY <3>1, <3>2 DEF TypeOK, Databases, ModuleInUse
    <3>4. frame.wrote
      BY <3>1, <3>3 DEF StateIsOwn
    <3> QED
      BY <3>1, <3>3, <3>4
  <2>2. CASE Undo \/ Throw \/ SaveThrows
    BY <2>2 DEF Undo, Throw, SaveThrows, Undone
  <2>3. db'.state = db.state \/ SaveState \/ Undo \/ Throw \/ SaveThrows
    BY DEF Next, StartTransaction, Commit, SetCode, SetAbi, Evict, Apply, ReadState,
      WriteState, CallHandler, NoHandler, vars, TypeOK, Databases
  <2> QED
    BY <2>1, <2>2, <2>3
<1> QED
  BY <1>1, TypeCorrect, StateOfAccount, PTL DEF Spec, StateIsKept
=============================================================================
