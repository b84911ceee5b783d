--------------------------- MODULE EmitterProofs ---------------------------
(* What is proved of the emitter plugin for every number of places, events, *)
(* sessions and restarts, and whether or not the database can fail.         *)
EXTENDS Emitter, FiniteSetTheorems, SequenceTheorems, TLAPS

\* The kept rows are finitely many, now and in every snapshot.
FiniteRows ==
    /\ IsFiniteSet(rows)
    /\ \A i \in 1..Len(undo) : IsFiniteSet(undo[i].rows)

\* The handler holds an event while it emits and records it.
HandInUse ==
    /\ hpc \in {"emit", "record"} => Len(hand) = 1
    /\ hpc \notin {"emit", "record", "done"} => hand = <<>>

\* Failures leak places, but none is missing while the application runs.
SlotsSuffice ==
    ~quitting =>
        slots + Len(queue) + Bit(hpc \in {"emit", "record", "release"})
              + Bit(cpc \in {"store", "enqueue"}) >= MaxDbSize

\* Identifiers increase along the way of the events, from emitted_id over the
\* handler's event and the queue to the row just created, and end at mem_id.
Ordered ==
    /\ emitted <= mem
    /\ \A i \in 1..Len(queue) : emitted < queue[i].pid /\ queue[i].pid <= mem
    /\ \A i, j \in 1..Len(queue) : i < j => queue[i].pid < queue[j].pid
    /\ hand # <<>> =>
        /\ emitted < hand[1].pid /\ hand[1].pid <= mem
        /\ \A i \in 1..Len(queue) : hand[1].pid < queue[i].pid
    /\ cpc = "enqueue" =>
        /\ emitted < mem
        /\ \A i \in 1..Len(queue) : queue[i].pid < mem
        /\ hand # <<>> => hand[1].pid < mem

\* The event being recorded was emitted; undelivered rows are on their way,
\* and a later snapshot, or the table, still has those of an earlier one.
Kept ==
    /\ hpc = "record" => hand[1].data \in seen
    /\ NoRowForgotten
    /\ \A i \in 1..Len(undo) : \A r \in undo[i].rows : r.data \notin seen => r \in rows
    /\ \A i, j \in 1..Len(undo) : i < j =>
        \A r \in undo[i].rows : r.data \notin seen => r \in undo[j].rows

\* AtLeastOnce of the chain state and of every state it may be rolled back to.
Durable ==
    /\ AtLeastOnce
    /\ \A i \in 1..Len(undo) : \A d \in undo[i].applied :
        d \in seen \/ \E r \in undo[i].rows : r.data = d

----------------------------------------------------------------------------
\* The fields of an event, and the parts of the typed sequences the actions use.
LEMMA EventFields ==
    /\ \A e \in Events : e.pid \in Int /\ e.data \in Stamps
    /\ \A p \in Int, d \in Stamps : [pid |-> p, data |-> d] \in Events
BY DEF Events

LEMMA EmptyIsSeq == ASSUME NEW S PROVE <<>> \in Seq(S) /\ Len(<<>>) = 0
OBVIOUS

LEMMA HeldEvent ==
    ASSUME TypeOK, HandInUse, hpc \in {"emit", "record"}
    PROVE  hand[1] \in Events /\ hand = <<hand[1]>>
BY DEF TypeOK, HandInUse

\* Reading a finite set of events in the order of their identifiers yields a
\* sequence of those events, as long as there are events.
LEMMA InPidOrderSeq ==
    ASSUME NEW R \in SUBSET Events, IsFiniteSet(R), NEW q \in InPidOrder(R)
    PROVE  /\ q \in Seq(Events)
           /\ Len(q) = Cardinality(R)
           /\ Cardinality(R) \in Nat
           /\ R # {} => Len(q) >= 1
           /\ \A i \in 1..Len(q) : q[i] \in R
           /\ \A r \in R : \E i \in 1..Len(q) : q[i] = r
           /\ \A i, j \in 1..Len(q) : i < j => q[i].pid < q[j].pid
<1>1. Cardinality(R) \in Nat
  BY FS_CardinalityType
<1>2. /\ q \in [1..Cardinality(R) -> R]
      /\ \A r \in R : \E i \in 1..Cardinality(R) : q[i] = r
      /\ \A i, j \in 1..Cardinality(R) : i < j => q[i].pid < q[j].pid
  BY DEF InPidOrder
<1>3. q \in Seq(R) /\ Len(q) = Cardinality(R)
  BY <1>1, <1>2
<1>4. q \in Seq(Events)
  BY <1>1, <1>2
<1>5. R # {} => Len(q) >= 1
  BY <1>1, <1>2, <1>3
<1> QED
  BY <1>1, <1>2, <1>3, <1>4, <1>5

\* The handler holds exactly one event while it emits and records it.
THEOREM HandHeld == Spec => []HandInUse
<1>1. Init => HandInUse
  BY DEF Init, HandInUse
<1>2. HandInUse /\ [Next]_vars => HandInUse'
  <2> SUFFICES ASSUME HandInUse, [Next]_vars
               PROVE  HandInUse'
    OBVIOUS
  <2>1. CASE Offer
    BY <2>1 DEF HandInUse, Offer, storeVars, handlerVars, chainVars
  <2>2. CASE PackFails
    BY <2>2 DEF HandInUse, PackFails, storeVars, handlerVars, chainVars
  <2>3. CASE WaitSlot
    BY <2>3 DEF HandInUse, WaitSlot, storeVars, handlerVars, chainVars
  <2>4. CASE PruneRow
    BY <2>4 DEF HandInUse, PruneRow, storeVars, handlerVars, chainVars
  <2>5. CASE CreateRow
    BY <2>5 DEF HandInUse, CreateRow, storeVars, handlerVars, chainVars
  <2>6. CASE CreateFails
    BY <2>6 DEF HandInUse, CreateFails, storeVars, handlerVars, chainVars
  <2>7. CASE Enqueue
    BY <2>7 DEF HandInUse, Enqueue, storeVars, handlerVars, chainVars
  <2>8. CASE PostEvent
    BY <2>8 DEF HandInUse, PostEvent, storeVars, handlerVars, chainVars
  <2>9. CASE StartSession
    BY <2>9 DEF HandInUse, StartSession, storeVars, handlerVars, chainVars
  <2>10. CASE UndoSession
    BY <2>10 DEF HandInUse, UndoSession, storeVars, handlerVars, chainVars
  <2>11. CASE CommitSession
    BY <2>11 DEF HandInUse, CommitSession, storeVars, handlerVars, chainVars
  <2>12. CASE Leave \/ Block \/ TakeToken
    BY <2>12 DEF HandInUse, Leave, Block, TakeToken, storeVars, handlerVars, chainVars
  <2>13. CASE Pop
    BY <2>13 DEF HandInUse, Pop, storeVars, handlerVars, chainVars
  <2>14. CASE Emit
    BY <2>14 DEF HandInUse, Emit, storeVars, handlerVars, chainVars
  <2>15. CASE EmitFails \/ Record \/ ReleaseSlot
    BY <2>15 DEF HandInUse, EmitFails, Record, ReleaseSlot, storeVars, handlerVars, chainVars
  <2>16. CASE Quit \/ Shutdown
    BY <2>16 DEF HandInUse, Quit, Shutdown, storeVars, handlerVars, chainVars
  <2>17. CASE Restart
    BY <2>17 DEF HandInUse, Restart, Initialize
  <2>18. CASE UNCHANGED vars
    BY <2>18 DEF HandInUse, vars
  <2> QED
    BY <2>1, <2>2, <2>3, <2>4, <2>5, <2>6, <2>7, <2>8, <2>9, <2>10,
       <2>11, <2>12, <2>13, <2>14, <2>15, <2>16, <2>17, <2>18
    DEF Next, Stash, Handle
<1> QED
  BY <1>1, <1>2, PTL DEF Spec

\* The variables have their types, and the table and every snapshot of it
\* stay finite.
THEOREM TypeCorrect == Spec => [](TypeOK /\ FiniteRows)
<1>1. Init => TypeOK /\ FiniteRows
  <2> SUFFICES ASSUME Init PROVE TypeOK /\ FiniteRows
    OBVIOUS
  <2>1. /\ undo \in Seq([rows : SUBSET Events, applied : SUBSET Stamps])
        /\ queue \in Seq(Events) /\ hand \in Seq(Events) /\ Len(hand) <= 1
        /\ delivered \in Seq(Stamps) /\ Len(undo) = 0
    BY EmptyIsSeq DEF Init
  <2>2. TypeOK
    <3>1. /\ rows \subseteq Events /\ applied \subseteq Stamps /\ seen \subseteq Stamps
          /\ tokens \in Nat /\ slots \in Nat /\ emitted \in Int /\ mem \in Int
      BY MaxDbSizeAssumption DEF Init
    <3>2. /\ hpc = "check" /\ cpc = "idle" /\ quitting = FALSE /\ jsError = FALSE
          /\ arg \in 0..MaxEvents /\ offered \in 0..MaxEvents /\ restarts \in 0..MaxRestarts
      BY BoundsAssumption DEF Init
    <3> QED
      BY <2>1, <3>1, <3>2 DEF TypeOK
  <2>3. FiniteRows
    BY <2>1, FS_EmptySet DEF Init, FiniteRows
  <2> QED
    BY <2>2, <2>3
<1>2. TypeOK /\ FiniteRows /\ HandInUse /\ [Next]_vars => TypeOK' /\ FiniteRows'
  <2> SUFFICES ASSUME TypeOK, FiniteRows, HandInUse, [Next]_vars
               PROVE  TypeOK' /\ FiniteRows'
    OBVIOUS
  <2> USE MaxDbSizeAssumption, BoundsAssumption
  <2>1. CASE Offer
    <3>1. TypeOK'
      BY <2>1 DEF TypeOK, Offer, Stamps, storeVars, handlerVars, chainVars
    <3>2. FiniteRows'
      BY <2>1 DEF FiniteRows, Offer, storeVars, handlerVars, chainVars
    <3> QED
      BY <3>1, <3>2
  <2>2. CASE PackFails
    <3>1. TypeOK'
      BY <2>2 DEF TypeOK, PackFails, storeVars, handlerVars, chainVars
    <3>2. FiniteRows'
      BY <2>2 DEF FiniteRows, PackFails, storeVars, handlerVars, chainVars
    <3> QED
      BY <3>1, <3>2
  <2>3. CASE WaitSlot
    <3>1. TypeOK'
      BY <2>3 DEF TypeOK, WaitSlot, storeVars, handlerVars, chainVars
    <3>2. FiniteRows'
      BY <2>3 DEF FiniteRows, WaitSlot, storeVars, handlerVars, chainVars
    <3> QED
      BY <3>1, <3>2
  <2>4. CASE PruneRow
    <3>1. TypeOK'
      BY <2>4 DEF TypeOK, PruneRow, storeVars, handlerVars, chainVars
    <3>2. FiniteRows'
      BY <2>4, FS_Subset DEF FiniteRows, TypeOK, PruneRow
    <3> QED
      BY <3>1, <3>2
  <2>5. CASE CreateRow
    <3>1. TypeOK'
      <4>1. [pid |-> mem', data |-> arg] \in Events
        BY <2>5, EventFields DEF TypeOK, CreateRow
      <4>2. mem' \in Int /\ rows' \subseteq Events /\ applied' \subseteq Stamps
        BY <2>5, <4>1 DEF TypeOK, CreateRow
      <4> QED
        BY <2>5, <4>2 DEF TypeOK, CreateRow, storeVars, handlerVars, chainVars
    <3>2. FiniteRows'
      BY <2>5, FS_AddElement DEF FiniteRows, TypeOK, CreateRow
    <3> QED
      BY <3>1, <3>2
  <2>6. CASE CreateFails
    <3>1. TypeOK'
      BY <2>6 DEF TypeOK, CreateFails, storeVars, handlerVars, chainVars
    <3>2. FiniteRows'
      BY <2>6 DEF FiniteRows, CreateFails, storeVars, handlerVars, chainVars
    <3> QED
      BY <3>1, <3>2
  <2>7. CASE Enqueue
    <3>1. TypeOK'
      <4>1. [pid |-> mem, data |-> arg] \in Events
        BY <2>7, EventFields DEF TypeOK, Enqueue
      <4>2. queue' \in Seq(Events)
        BY <2>7, <4>1 DEF TypeOK, Enqueue
      <4> QED
        BY <2>7, <4>2 DEF TypeOK, Enqueue, storeVars, handlerVars, chainVars
    <3>2. FiniteRows'
      BY <2>7 DEF FiniteRows, Enqueue, storeVars, handlerVars, chainVars
    <3> QED
      BY <3>1, <3>2
  <2>8. CASE PostEvent
    <3>1. TypeOK'
      BY <2>8 DEF TypeOK, PostEvent, storeVars, handlerVars, chainVars
    <3>2. FiniteRows'
      BY <2>8 DEF FiniteRows, PostEvent, storeVars, handlerVars, chainVars
    <3> QED
      BY <3>1, <3>2
  <2>9. CASE StartSession
    <3>1. TypeOK'
      BY <2>9 DEF TypeOK, StartSession, Snapshot, handlerVars, chainVars
    <3>2. FiniteRows'
      BY <2>9 DEF FiniteRows, TypeOK, StartSession, Snapshot
    <3> QED
      BY <3>1, <3>2
  <2>10. CASE UndoSession
    <3>1. TypeOK'
      <4>1. /\ undo[Len(undo)].rows \subseteq Events
            /\ undo[Len(undo)].applied \subseteq Stamps
            /\ undo' \in Seq([rows : SUBSET Events, applied : SUBSET Stamps])
        <5> DEFINE T == [rows : SUBSET Events, applied : SUBSET Stamps]
        <5>1. undo \in Seq(T) /\ undo # <<>> /\ undo' = SubSeq(undo, 1, Len(undo) - 1)
          BY <2>10 DEF TypeOK, UndoSession
        <5>2. undo[Len(undo)] \in T /\ undo' \in Seq(T)
          <6> HIDE DEF T
          <6>1. Len(undo) \in 1..Len(undo) /\ Len(undo) \in Nat \ {0}
            BY <5>1
          <6> QED
            BY <5>1, <6>1
        <5> QED
          BY <5>2
      <4> QED
        BY <2>10, <4>1 DEF TypeOK, UndoSession, handlerVars, chainVars
    <3>2. FiniteRows'
      BY <2>10 DEF FiniteRows, TypeOK, UndoSession
    <3> QED
      BY <3>1, <3>2
  <2>11. CASE CommitSession
    <3>1. TypeOK'
      BY <2>11 DEF TypeOK, CommitSession, storeVars, handlerVars, chainVars
    <3>2. FiniteRows'
      BY <2>11 DEF FiniteRows, TypeOK, CommitSession
    <3> QED
      BY <3>1, <3>2
  <2>12. CASE Leave \/ Block \/ TakeToken
    <3>1. TypeOK'
      BY <2>12 DEF TypeOK, Leave, Block, TakeToken, storeVars, handlerVars, chainVars
    <3>2. FiniteRows'
      BY <2>12 DEF FiniteRows, Leave, Block, TakeToken, storeVars, handlerVars, chainVars
    <3> QED
      BY <3>1, <3>2
  <2>13. CASE Pop
    <3>1. TypeOK'
      BY <2>13 DEF TypeOK, Pop, storeVars, handlerVars, chainVars
    <3>2. FiniteRows'
      BY <2>13 DEF FiniteRows, Pop, storeVars, handlerVars, chainVars
    <3> QED
      BY <3>1, <3>2
  <2>14. CASE Emit
    <3>1. TypeOK'
      <4>1. hand[1].data \in Stamps
        BY <2>14, HeldEvent, EventFields DEF Emit
      <4> QED
        BY <2>14, <4>1 DEF TypeOK, Emit, storeVars, chainVars
    <3>2. FiniteRows'
      BY <2>14 DEF FiniteRows, Emit, storeVars, handlerVars, chainVars
    <3> QED
      BY <3>1, <3>2
  <2>15. CASE EmitFails \/ Record \/ ReleaseSlot
    <3>1. TypeOK'
      <4>1. Record => hand[1].pid \in Int
        BY HeldEvent, EventFields DEF Record
      <4> QED
        <5>1. CASE EmitFails
          BY <5>1 DEF TypeOK, EmitFails, storeVars, chainVars
        <5>2. CASE Record
          BY <5>2, <4>1, EmptyIsSeq DEF TypeOK, Record, storeVars, chainVars
        <5>3. CASE ReleaseSlot
          BY <5>3 DEF TypeOK, ReleaseSlot, storeVars, chainVars
        <5> QED
          BY <2>15, <5>1, <5>2, <5>3
    <3>2. FiniteRows'
      BY <2>15 DEF FiniteRows, EmitFails, Record, ReleaseSlot, storeVars, handlerVars, chainVars
    <3> QED
      BY <3>1, <3>2
  <2>16. CASE Quit \/ Shutdown
    <3>1. TypeOK'
      BY <2>16 DEF TypeOK, Quit, Shutdown, storeVars, handlerVars, chainVars
    <3>2. FiniteRows'
      BY <2>16 DEF FiniteRows, Quit, Shutdown, storeVars, handlerVars, chainVars
    <3> QED
      BY <3>1, <3>2
  <2>17. CASE Restart
    <3>1. TypeOK'
      <4>1. /\ rows \in SUBSET Events /\ IsFiniteSet(rows)
            /\ queue' \in InPidOrder(rows)
        BY <2>17 DEF Restart, Initialize, TypeOK, FiniteRows
      <4>2. /\ queue' \in Seq(Events) /\ Len(queue') = Cardinality(rows)
            /\ Cardinality(rows) \in Nat
            /\ rows # {} => Len(queue') >= 1
        BY <4>1, InPidOrderSeq
      <4>3. rows # {} => queue'[1].pid \in Int /\ queue'[Len(queue')].pid \in Int
        BY <4>2, EventFields
      <4>4. emitted' \in Int /\ mem' \in Int
        BY <2>17, <4>3 DEF Restart, Initialize
      <4>5. tokens' \in Nat /\ slots' \in Nat
        BY <2>17, <4>2 DEF Restart, Initialize
      <4>6. /\ rows' = rows /\ applied' = applied /\ undo' = undo
            /\ hpc' = "check" /\ hand' = <<>> /\ cpc' = "idle" /\ arg' = 0
            /\ quitting' = FALSE /\ jsError' = FALSE
            /\ offered' = offered /\ seen' = seen /\ delivered' = <<>>
            /\ restarts' = restarts + 1 /\ restarts < MaxRestarts
        BY <2>17 DEF Restart, Initialize, storeVars
      <4> HIDE <2>17
      <4> QED
        <5>1. delivered' \in Seq(Stamps) /\ hand' \in Seq(Events) /\ Len(hand') <= 1
          BY <4>6, EmptyIsSeq
        <5>2. arg' \in 0..MaxEvents /\ restarts' \in 0..MaxRestarts
          BY <4>6 DEF TypeOK
        <5> QED
          BY <4>2, <4>4, <4>5, <4>6, <5>1, <5>2 DEF TypeOK
    <3>2. FiniteRows'
      BY <2>17 DEF FiniteRows, TypeOK, Restart, storeVars
    <3> QED
      BY <3>1, <3>2
  <2>18. CASE UNCHANGED vars
    BY <2>18 DEF TypeOK, FiniteRows, vars
  <2> QED
    BY <2>1, <2>2, <2>3, <2>4, <2>5, <2>6, <2>7, <2>8, <2>9, <2>10,
       <2>11, <2>12, <2>13, <2>14, <2>15, <2>16, <2>17, <2>18
    DEF Next, Stash, Handle
<1> QED
  BY <1>1, <1>2, HandHeld, PTL DEF Spec


\* The tokens of s_emitter match the queue whatever the interleaving of the
\* two threads: the handler never pops an empty queue.
THEOREM TokensMatch == Spec => []TokenAccounting
<1>1. Init => TokenAccounting
  BY EmptyIsSeq DEF Init, TokenAccounting, Bit
<1>2. TokenAccounting /\ TypeOK /\ FiniteRows /\ [Next]_vars => TokenAccounting'
  <2> SUFFICES ASSUME TokenAccounting, TypeOK, FiniteRows, [Next]_vars
               PROVE  TokenAccounting'
    OBVIOUS
  <2>1. CASE Offer
    BY <2>1 DEF TokenAccounting, Bit, TypeOK, Offer, storeVars, handlerVars, chainVars
  <2>2. CASE PackFails
    BY <2>2 DEF TokenAccounting, Bit, TypeOK, PackFails, storeVars, handlerVars, chainVars
  <2>3. CASE WaitSlot
    BY <2>3 DEF TokenAccounting, Bit, TypeOK, WaitSlot, storeVars, handlerVars, chainVars
  <2>4. CASE PruneRow
    BY <2>4 DEF TokenAccounting, Bit, TypeOK, PruneRow, storeVars, handlerVars, chainVars
  <2>5. CASE CreateRow
    BY <2>5 DEF TokenAccounting, Bit, TypeOK, CreateRow, storeVars, handlerVars, chainVars
  <2>6. CASE CreateFails
    BY <2>6 DEF TokenAccounting, Bit, TypeOK, CreateFails, storeVars, handlerVars, chainVars
  <2>7. CASE Enqueue
    <3>1. queue \in Seq(Events) /\ queue' = Append(queue, [pid |-> mem, data |-> arg])
      BY <2>7 DEF TypeOK, Enqueue
    <3>2. Len(queue') = Len(queue) + 1 /\ queue' # <<>>
      BY <3>1
    <3> QED
      BY <2>7, <3>2 DEF TokenAccounting, Bit, TypeOK, Enqueue, handlerVars
  <2>8. CASE PostEvent
    BY <2>8 DEF TokenAccounting, Bit, TypeOK, PostEvent, storeVars, handlerVars, chainVars
  <2>9. CASE StartSession
    BY <2>9 DEF TokenAccounting, Bit, TypeOK, StartSession, storeVars, handlerVars, chainVars
  <2>10. CASE UndoSession
    BY <2>10 DEF TokenAccounting, Bit, TypeOK, UndoSession, storeVars, handlerVars, chainVars
  <2>11. CASE CommitSession
    BY <2>11 DEF TokenAccounting, Bit, TypeOK, CommitSession, storeVars, handlerVars, chainVars
  <2>12. CASE Leave \/ Block \/ TakeToken
    BY <2>12 DEF TokenAccounting, Bit, TypeOK, Leave, Block, TakeToken, storeVars, handlerVars, chainVars
  <2>13. CASE Pop
    <3>1. Len(queue') = Len(queue) - 1 /\ queue \in Seq(Events)
      BY <2>13 DEF TypeOK, Pop
    <3> QED
      BY <2>13, <3>1 DEF TokenAccounting, Bit, TypeOK, Pop, chainVars
  <2>14. CASE Emit
    BY <2>14 DEF TokenAccounting, Bit, TypeOK, Emit, storeVars, handlerVars, chainVars
  <2>15. CASE EmitFails \/ Record \/ ReleaseSlot
    <3>1. CASE EmitFails
      BY <3>1 DEF TokenAccounting, Bit, TypeOK, EmitFails, chainVars
    <3>2. CASE Record
      BY <3>2 DEF TokenAccounting, Bit, TypeOK, Record, chainVars
    <3>3. CASE ReleaseSlot
      BY <3>3 DEF TokenAccounting, Bit, TypeOK, ReleaseSlot, chainVars
    <3> QED
      BY <2>15, <3>1, <3>2, <3>3
  <2>16. CASE Quit \/ Shutdown
    BY <2>16 DEF TokenAccounting, Bit, TypeOK, Quit, Shutdown, storeVars, handlerVars, chainVars
  <2>17. CASE Restart
    <3>1. queue' \in Seq(Events)
      BY <2>17, InPidOrderSeq DEF Restart, Initialize, TypeOK, FiniteRows
    <3> QED
      BY <2>17, <3>1 DEF TokenAccounting, Bit, Restart, Initialize
  <2>18. CASE UNCHANGED vars
    BY <2>18 DEF TokenAccounting, Bit, TypeOK, vars
  <2> QED
    BY <2>1, <2>2, <2>3, <2>4, <2>5, <2>6, <2>7, <2>8, <2>9, <2>10,
       <2>11, <2>12, <2>13, <2>14, <2>15, <2>16, <2>17, <2>18
    DEF Next, Stash, Handle
<1> QED
  BY <1>1, <1>2, TypeCorrect, PTL DEF Spec

\* While the application runs, no place is missing: each is free, or taken by
\* an event being stashed, queued or in the handler's hands.
THEOREM PlacesSuffice == Spec => []SlotsSuffice
<1>1. Init => SlotsSuffice
  BY MaxDbSizeAssumption, EmptyIsSeq DEF Init, SlotsSuffice, Bit
<1>2. SlotsSuffice /\ TypeOK /\ FiniteRows /\ [Next]_vars => SlotsSuffice'
  <2> SUFFICES ASSUME SlotsSuffice, TypeOK, FiniteRows, [Next]_vars
               PROVE  SlotsSuffice'
    OBVIOUS
  <2> USE MaxDbSizeAssumption
  <2>1. CASE Offer
    BY <2>1 DEF SlotsSuffice, Bit, TypeOK, Offer, storeVars, handlerVars, chainVars
  <2>2. CASE PackFails
    BY <2>2 DEF SlotsSuffice, Bit, TypeOK, PackFails, storeVars, handlerVars, chainVars
  <2>3. CASE WaitSlot
    BY <2>3 DEF SlotsSuffice, Bit, TypeOK, WaitSlot, storeVars, handlerVars, chainVars
  <2>4. CASE PruneRow
    BY <2>4 DEF SlotsSuffice, Bit, TypeOK, PruneRow, storeVars, handlerVars, chainVars
  <2>5. CASE CreateRow
    BY <2>5 DEF SlotsSuffice, Bit, TypeOK, CreateRow, storeVars, handlerVars, chainVars
  <2>6. CASE CreateFails
    BY <2>6 DEF SlotsSuffice, Bit, TypeOK, CreateFails, storeVars, handlerVars, chainVars
  <2>7. CASE Enqueue
    <3>1. queue \in Seq(Events) /\ queue' = Append(queue, [pid |-> mem, data |-> arg])
      BY <2>7 DEF TypeOK, Enqueue
    <3>2. Len(queue') = Len(queue) + 1 /\ queue' # <<>>
      BY <3>1
    <3> QED
      BY <2>7, <3>2 DEF SlotsSuffice, Bit, TypeOK, Enqueue, handlerVars
  <2>8. CASE PostEvent
    BY <2>8 DEF SlotsSuffice, Bit, TypeOK, PostEvent, storeVars, handlerVars, chainVars
  <2>9. CASE StartSession
    BY <2>9 DEF SlotsSuffice, Bit, TypeOK, StartSession, storeVars, handlerVars, chainVars
  <2>10. CASE UndoSession
    BY <2>10 DEF SlotsSuffice, Bit, TypeOK, UndoSession, storeVars, handlerVars, chainVars
  <2>11. CASE CommitSession
    BY <2>11 DEF SlotsSuffice, Bit, TypeOK, CommitSession, storeVars, handlerVars, chainVars
  <2>12. CASE Leave \/ Block \/ TakeToken
    BY <2>12 DEF SlotsSuffice, Bit, TypeOK, Leave, Block, TakeToken, storeVars, handlerVars, chainVars
  <2>13. CASE Pop
    <3>1. Len(queue') = Len(queue) - 1 /\ queue \in Seq(Events)
      BY <2>13 DEF TypeOK, Pop
    <3> QED
      BY <2>13, <3>1 DEF SlotsSuffice, Bit, TypeOK, Pop, chainVars
  <2>14. CASE Emit
    BY <2>14 DEF SlotsSuffice, Bit, TypeOK, Emit, storeVars, handlerVars, chainVars
  <2>15. CASE EmitFails \/ Record \/ ReleaseSlot
    <3>1. CASE EmitFails
      BY <3>1 DEF SlotsSuffice, Bit, TypeOK, EmitFails, chainVars
    <3>2. CASE Record
      BY <3>2 DEF SlotsSuffice, Bit, TypeOK, Record, chainVars
    <3>3. CASE ReleaseSlot
      BY <3>3 DEF SlotsSuffice, Bit, TypeOK, ReleaseSlot, chainVars
    <3> QED
      BY <2>15, <3>1, <3>2, <3>3
  <2>16. CASE Quit \/ Shutdown
    BY <2>16 DEF SlotsSuffice, Bit, TypeOK, Quit, Shutdown, storeVars, handlerVars, chainVars
  <2>17. CASE Restart
    <3>1. queue' \in Seq(Events) /\ Len(queue') = Cardinality(rows) /\ Cardinality(rows) \in Nat
      BY <2>17, InPidOrderSeq DEF Restart, Initialize, TypeOK, FiniteRows
    <3>2. slots' + Len(queue') >= MaxDbSize
      BY <2>17, <3>1 DEF Restart, Initialize
    <3>3. hpc' = "check" /\ cpc' = "idle" /\ slots' \in Nat
      BY <2>17, <3>1 DEF Restart, Initialize
    <3> QED
      BY <3>1, <3>2, <3>3 DEF SlotsSuffice, Bit
  <2>18. CASE UNCHANGED vars
    BY <2>18 DEF SlotsSuffice, Bit, TypeOK, vars
  <2> QED
    BY <2>1, <2>2, <2>3, <2>4, <2>5, <2>6, <2>7, <2>8, <2>9, <2>10,
       <2>11, <2>12, <2>13, <2>14, <2>15, <2>16, <2>17, <2>18
    DEF Next, Stash, Handle
<1> QED
  BY <1>1, <1>2, TypeCorrect, PTL DEF Spec

\* The two threads never wait for one another while the application runs: with
\* no place free and no token posted, an event would have to be nowhere.
THEOREM NeverMutualWait == Spec => []NoMutualWait
<1>1. TypeOK /\ TokenAccounting /\ SlotsSuffice => NoMutualWait
  BY MaxDbSizeAssumption DEF TypeOK, TokenAccounting, SlotsSuffice, NoMutualWait, Bit
<1> QED
  BY <1>1, TypeCorrect, TokensMatch, PlacesSuffice, PTL

\* The order of the identifiers survives every interleaving, roll-back and
\* restart, although roll-backs bring rows back behind the counters.
THEOREM OrderKept == Spec => []Ordered
<1>1. Init => Ordered
  BY EmptyIsSeq DEF Init, Ordered
<1>2. Ordered /\ TypeOK /\ FiniteRows /\ HandInUse /\ [Next]_vars => Ordered'
  <2> SUFFICES ASSUME Ordered, TypeOK, FiniteRows, HandInUse, [Next]_vars
               PROVE  Ordered'
    OBVIOUS
  <2>1. CASE Offer
    BY <2>1 DEF Ordered, Offer, storeVars, handlerVars, chainVars
  <2>2. CASE PackFails
    BY <2>2 DEF Ordered, PackFails, storeVars, handlerVars, chainVars
  <2>3. CASE WaitSlot
    BY <2>3 DEF Ordered, WaitSlot, storeVars, handlerVars, chainVars
  <2>4. CASE PruneRow
    BY <2>4 DEF Ordered, PruneRow, storeVars, handlerVars, chainVars
  <2>5. CASE CreateRow
    BY <2>5, EventFields DEF Ordered, TypeOK, CreateRow, handlerVars
  <2>6. CASE CreateFails
    BY <2>6, EventFields DEF Ordered, TypeOK, CreateFails, handlerVars
  <2>7. CASE Enqueue
    <3>1. /\ queue \in Seq(Events) /\ queue' = Append(queue, [pid |-> mem, data |-> arg])
          /\ mem \in Int /\ arg \in Stamps /\ mem' = mem /\ cpc' = "post"
          /\ cpc = "enqueue" /\ hand' = hand /\ emitted' = emitted
      BY <2>7 DEF TypeOK, Enqueue, handlerVars
    <3>2. /\ Len(queue') = Len(queue) + 1 /\ queue'[Len(queue')].pid = mem
          /\ \A i \in 1..Len(queue) : queue'[i] = queue[i]
          /\ Len(queue) \in Nat
      BY <3>1
    <3>3. \A i \in 1..Len(queue') : i \in 1..Len(queue) \/ i = Len(queue')
      BY <3>2
    <3> QED
      BY <3>1, <3>2, <3>3 DEF Ordered
  <2>8. CASE PostEvent
    BY <2>8 DEF Ordered, PostEvent, storeVars, handlerVars, chainVars
  <2>9. CASE StartSession
    BY <2>9 DEF Ordered, StartSession, storeVars, handlerVars, chainVars
  <2>10. CASE UndoSession
    BY <2>10 DEF Ordered, UndoSession, storeVars, handlerVars, chainVars
  <2>11. CASE CommitSession
    BY <2>11 DEF Ordered, CommitSession, storeVars, handlerVars, chainVars
  <2>12. CASE Leave \/ Block \/ TakeToken
    BY <2>12 DEF Ordered, Leave, Block, TakeToken, storeVars, handlerVars, chainVars
  <2>13. CASE Pop
    <3>1. /\ queue \in Seq(Events) /\ queue' = Tail(queue) /\ queue # <<>>
          /\ hand' = <<queue[1]>> /\ hand'[1] = queue[1] /\ hand = <<>>
          /\ cpc' = cpc /\ mem' = mem /\ emitted' = emitted
      BY <2>13 DEF TypeOK, HandInUse, Pop, chainVars
    <3>2. /\ Len(queue) \in Nat \ {0} /\ Len(queue') = Len(queue) - 1
          /\ \A i \in 1..Len(queue') : queue'[i] = queue[i + 1]
      BY <3>1
    <3>3. 1 \in 1..Len(queue) /\ \A i \in 1..Len(queue') : i + 1 \in 1..Len(queue) /\ 1 < i + 1
      BY <3>2
    <3> QED
      BY <3>1, <3>2, <3>3 DEF Ordered
  <2>14. CASE Emit
    BY <2>14 DEF Ordered, Emit, storeVars, handlerVars, chainVars
  <2>15. CASE EmitFails \/ Record \/ ReleaseSlot
    <3>1. Record => hand[1].pid \in Int
      BY HeldEvent, EventFields DEF Record
    <3> QED
      BY <2>15, <3>1 DEF Ordered, TypeOK, HandInUse, EmitFails, Record, ReleaseSlot, chainVars
  <2>16. CASE Quit \/ Shutdown
    BY <2>16 DEF Ordered, Quit, Shutdown, storeVars, handlerVars, chainVars
  <2>17. CASE Restart
    <3>1. /\ queue' \in Seq(Events) /\ Len(queue') \in Nat
          /\ rows # {} => Len(queue') >= 1
          /\ rows = {} => Len(queue') = 0
          /\ \A i, j \in 1..Len(queue') : i < j => queue'[i].pid < queue'[j].pid
      <4>1. /\ rows \in SUBSET Events /\ IsFiniteSet(rows)
            /\ queue' \in InPidOrder(rows)
        BY <2>17 DEF Restart, Initialize, TypeOK, FiniteRows
      <4>2. rows = {} => Cardinality(rows) = 0
        BY FS_EmptySet
      <4> QED
        BY <4>1, <4>2, InPidOrderSeq
    <3>2. \A i \in 1..Len(queue') : queue'[i].pid \in Int
      BY <3>1, EventFields
    <3>3. /\ hand' = <<>> /\ cpc' = "idle"
          /\ rows = {} => emitted' = -1 /\ mem' = -1
          /\ rows # {} => emitted' = queue'[1].pid - 1 /\ mem' = queue'[Len(queue')].pid
      BY <2>17 DEF Restart, Initialize
    <3>4. CASE rows = {}
      BY <3>1, <3>3, <3>4 DEF Ordered
    <3>5. CASE rows # {}
      <4>1. 1 \in 1..Len(queue') /\ Len(queue') \in 1..Len(queue')
        BY <3>1, <3>5
      <4>2. \A i \in 1..Len(queue') : queue'[1].pid <= queue'[i].pid /\ queue'[i].pid <= queue'[Len(queue')].pid
        BY <3>1, <3>2, <4>1
      <4> QED
        BY <3>1, <3>2, <3>3, <3>5, <4>1, <4>2 DEF Ordered
    <3> QED
      BY <3>4, <3>5
  <2>18. CASE UNCHANGED vars
    BY <2>18 DEF Ordered, vars
  <2> QED
    BY <2>1, <2>2, <2>3, <2>4, <2>5, <2>6, <2>7, <2>8, <2>9, <2>10,
       <2>11, <2>12, <2>13, <2>14, <2>15, <2>16, <2>17, <2>18
    DEF Next, Stash, Handle
<1> QED
  BY <1>1, <1>2, TypeCorrect, HandHeld, PTL DEF Spec

\* Rolling back pops the newest snapshot.
LEMMA UndoPops ==
    ASSUME TypeOK, UndoSession
    PROVE  /\ Len(undo) \in Nat \ {0} /\ Len(undo') = Len(undo) - 1
           /\ rows' = undo[Len(undo)].rows /\ applied' = undo[Len(undo)].applied
           /\ Len(undo) \in 1..Len(undo)
           /\ \A i \in 1..Len(undo') :
                undo'[i] = undo[i] /\ i \in 1..Len(undo) /\ i < Len(undo)
<1> DEFINE T == [rows : SUBSET Events, applied : SUBSET Stamps]
<1>1. /\ undo \in Seq(T) /\ undo # <<>> /\ undo' = SubSeq(undo, 1, Len(undo) - 1)
      /\ rows' = undo[Len(undo)].rows /\ applied' = undo[Len(undo)].applied
  BY DEF TypeOK, UndoSession
<1> HIDE DEF T
<1>2. Len(undo) \in Nat \ {0}
  BY <1>1
<1>3. /\ Len(undo') = Len(undo) - 1
      /\ \A i \in 1..Len(undo') : undo'[i] = undo[i]
  <2> DEFINE n == Len(undo) - 1
  <2>1. n \in Nat /\ 1 \in Int /\ n \in Int /\ n - 1 + 1 = n /\ (IF 1 <= n THEN n ELSE 0) = n
    BY <1>2
  <2>2. \A i \in 1..n : undo[i] \in T
    BY <1>1, <1>2
  <2>3. undo' = SubSeq(undo, 1, n)
    BY <1>1
  <2> HIDE DEF n
  <2>4. /\ Len(SubSeq(undo, 1, n)) = IF 1 <= n THEN n - 1 + 1 ELSE 0
        /\ \A i \in 1..(n - 1 + 1) : SubSeq(undo, 1, n)[i] = undo[1 + i - 1]
    BY <2>1, <2>2, SubSeqProperties
  <2>5. Len(undo') = n
    BY <2>1, <2>3, <2>4
  <2>6. \A i \in 1..n : undo'[i] = undo[i]
    BY <2>1, <2>3, <2>4
  <2> QED
    BY <2>5, <2>6 DEF n
<1> QED
  BY <1>1, <1>2, <1>3

\* Rows up to emitted_id were delivered: what is on its way is above it.
LEMMA SeenOrAhead ==
    ASSUME TypeOK, Ordered, Kept, NEW r \in rows, r.pid <= emitted
    PROVE  r.data \in seen
<1>1. r.pid \in Int /\ emitted \in Int /\ r \in Events
  BY EventFields DEF TypeOK
<1>2. CASE \E i \in 1..Len(queue) : queue[i] = r
  BY <1>1, <1>2 DEF Ordered
<1>3. CASE hand = <<r>>
  <2>1. hand # <<>> /\ hand[1] = r
    BY <1>3
  <2> QED
    BY <1>1, <2>1 DEF Ordered
<1>4. CASE cpc = "enqueue" /\ r = [pid |-> mem, data |-> arg]
  BY <1>1, <1>4 DEF Ordered, TypeOK
<1> QED
  BY <1>2, <1>3, <1>4 DEF Kept, NoRowForgotten, OnItsWay

\* Rows are pruned only after their events were delivered, in every
\* interleaving of the pruning loop with the handler.
LEMMA PrunedWereSeen ==
    ASSUME TypeOK, Ordered, Kept, PruneRow
    PROVE  \A r \in rows : r \in rows' \/ r.data \in seen
BY SeenOrAhead DEF PruneRow, Prunable

\* Undelivered rows are kept and on their way, whatever is rolled back, failing
\* or restarted.
THEOREM NothingForgotten == Spec => [](Kept /\ Durable)
<1>1. Init => Kept /\ Durable
  BY EmptyIsSeq DEF Init, Kept, Durable, NoRowForgotten, AtLeastOnce
<1>2. Kept /\ Durable /\ TypeOK /\ FiniteRows /\ HandInUse /\ Ordered /\ [Next]_vars => Kept' /\ Durable'
  <2> SUFFICES ASSUME Kept, Durable, TypeOK, FiniteRows, HandInUse, Ordered, [Next]_vars
               PROVE  Kept' /\ Durable'
    OBVIOUS
  <2>1. CASE Offer
    <3>1. Kept'
      BY <2>1 DEF Kept, NoRowForgotten, OnItsWay, Offer, storeVars, handlerVars, chainVars
    <3>2. Durable'
      BY <2>1 DEF Durable, AtLeastOnce, Offer, storeVars, handlerVars, chainVars
    <3> QED
      BY <3>1, <3>2
  <2>2. CASE PackFails
    <3>1. Kept'
      BY <2>2 DEF Kept, NoRowForgotten, OnItsWay, PackFails, storeVars, handlerVars, chainVars
    <3>2. Durable'
      BY <2>2 DEF Durable, AtLeastOnce, PackFails, storeVars, handlerVars, chainVars
    <3> QED
      BY <3>1, <3>2
  <2>3. CASE WaitSlot
    <3>1. Kept'
      BY <2>3 DEF Kept, NoRowForgotten, OnItsWay, WaitSlot, storeVars, handlerVars, chainVars
    <3>2. Durable'
      BY <2>3 DEF Durable, AtLeastOnce, WaitSlot, storeVars, handlerVars, chainVars
    <3> QED
      BY <3>1, <3>2
  <2>4. CASE PruneRow
    <3>1. Kept'
      BY <2>4, PrunedWereSeen DEF Kept, NoRowForgotten, OnItsWay, PruneRow, handlerVars, chainVars
    <3>2. Durable'
      BY <2>4, PrunedWereSeen DEF Durable, AtLeastOnce, PruneRow, handlerVars
    <3> QED
      BY <3>1, <3>2
  <2>5. CASE CreateRow
    <3>1. Kept'
      <4>1. \A r : OnItsWay(r) => OnItsWay(r)'
        BY <2>5 DEF OnItsWay, CreateRow, handlerVars
      <4>2. \A r : r = [pid |-> mem', data |-> arg'] => OnItsWay(r)'
        BY <2>5 DEF OnItsWay, CreateRow
      <4>3. /\ rows' = rows \cup {[pid |-> mem', data |-> arg']} /\ undo' = undo
            /\ hpc' = hpc /\ hand' = hand /\ seen' = seen
        BY <2>5 DEF CreateRow, handlerVars
      <4>4. NoRowForgotten'
        BY <4>1, <4>2, <4>3 DEF Kept, NoRowForgotten
      <4> QED
        BY <4>3, <4>4 DEF Kept
    <3>2. Durable'
      <4>1. /\ rows' = rows \cup {[pid |-> mem', data |-> arg]} /\ undo' = undo
            /\ applied' = applied \cup {arg} /\ seen' = seen
        BY <2>5 DEF CreateRow, handlerVars
      <4>2. \E r \in rows' : r.data = arg
        <5>1. [pid |-> mem', data |-> arg].data = arg
          OBVIOUS
        <5> QED
          BY <4>1, <5>1
      <4>3. AtLeastOnce'
        BY <4>1, <4>2 DEF Durable, AtLeastOnce
      <4> QED
        BY <4>1, <4>3 DEF Durable
    <3> QED
      BY <3>1, <3>2
  <2>6. CASE CreateFails
    <3>1. Kept'
      BY <2>6 DEF Kept, NoRowForgotten, OnItsWay, CreateFails, storeVars, handlerVars, chainVars
    <3>2. Durable'
      BY <2>6 DEF Durable, AtLeastOnce, CreateFails, storeVars, handlerVars, chainVars
    <3> QED
      BY <3>1, <3>2
  <2>7. CASE Enqueue
    <3>1. Kept'
      <4>1. /\ queue \in Seq(Events) /\ queue' = Append(queue, [pid |-> mem, data |-> arg])
            /\ mem' = mem /\ arg' = arg /\ hand' = hand
        BY <2>7 DEF TypeOK, Enqueue, handlerVars
      <4>2. /\ Len(queue') = Len(queue) + 1 /\ queue'[Len(queue')] = [pid |-> mem, data |-> arg]
            /\ \A i \in 1..Len(queue) : queue'[i] = queue[i] /\ i \in 1..Len(queue')
            /\ Len(queue') \in 1..Len(queue')
        BY <4>1
      <4>3. \A r : OnItsWay(r) => OnItsWay(r)'
        BY <4>1, <4>2 DEF OnItsWay
      <4> QED
        BY <2>7, <4>3 DEF Kept, NoRowForgotten, Enqueue, handlerVars, storeVars
    <3>2. Durable'
      BY <2>7 DEF Durable, AtLeastOnce, Enqueue, storeVars, handlerVars, chainVars
    <3> QED
      BY <3>1, <3>2
  <2>8. CASE PostEvent
    <3>1. Kept'
      BY <2>8 DEF Kept, NoRowForgotten, OnItsWay, PostEvent, storeVars, handlerVars, chainVars
    <3>2. Durable'
      BY <2>8 DEF Durable, AtLeastOnce, PostEvent, storeVars, handlerVars, chainVars
    <3> QED
      BY <3>1, <3>2
  <2>9. CASE StartSession
    <3>1. Kept'
      <4>1. /\ Len(undo') = Len(undo) + 1 /\ Len(undo) \in Nat
            /\ undo'[Len(undo')].rows = rows
            /\ \A i \in 1..Len(undo) : undo'[i] = undo[i]
        BY <2>9 DEF TypeOK, StartSession, Snapshot
      <4>2. \A i \in 1..Len(undo') : i \in 1..Len(undo) \/ i = Len(undo')
        BY <4>1
      <4>3. \A r : OnItsWay(r) => OnItsWay(r)'
        BY <2>9 DEF OnItsWay, StartSession, handlerVars, chainVars
      <4> QED
        BY <2>9, <4>1, <4>2, <4>3 DEF Kept, NoRowForgotten, StartSession, handlerVars
    <3>2. Durable'
      <4>1. /\ Len(undo') = Len(undo) + 1 /\ Len(undo) \in Nat
            /\ undo'[Len(undo')].rows = rows /\ undo'[Len(undo')].applied = applied
            /\ \A i \in 1..Len(undo) : undo'[i] = undo[i]
        BY <2>9 DEF TypeOK, StartSession, Snapshot
      <4>2. \A i \in 1..Len(undo') : i \in 1..Len(undo) \/ i = Len(undo')
        BY <4>1
      <4> QED
        BY <2>9, <4>1, <4>2 DEF Durable, AtLeastOnce, StartSession, handlerVars
    <3> QED
      BY <3>1, <3>2
  <2>10. CASE UndoSession
    <3>1. Kept'
      <4>1. /\ Len(undo) \in Nat \ {0} /\ Len(undo') = Len(undo) - 1
            /\ rows' = undo[Len(undo)].rows
            /\ \A i \in 1..Len(undo') : undo'[i] = undo[i] /\ i \in 1..Len(undo) /\ i < Len(undo)
            /\ Len(undo) \in 1..Len(undo)
        BY <2>10, UndoPops
      <4>2. \A r : OnItsWay(r) => OnItsWay(r)'
        BY <2>10 DEF OnItsWay, UndoSession, handlerVars, chainVars
      <4> QED
        BY <2>10, <4>1, <4>2 DEF Kept, NoRowForgotten, UndoSession, handlerVars
    <3>2. Durable'
      <4>1. /\ Len(undo') = Len(undo) - 1 /\ Len(undo) \in 1..Len(undo)
            /\ \A i \in 1..Len(undo') : undo'[i] = undo[i] /\ i \in 1..Len(undo)
        BY <2>10, UndoPops
      <4> QED
        BY <2>10, <4>1 DEF Durable, AtLeastOnce, UndoSession, handlerVars
    <3> QED
      BY <3>1, <3>2
  <2>11. CASE CommitSession
    <3>1. Kept'
      <4>1. /\ Len(undo) \in Nat \ {0} /\ Len(undo') = Len(undo) - 1
            /\ \A i \in 1..Len(undo') : undo'[i] = undo[i + 1] /\ i + 1 \in 1..Len(undo)
        BY <2>11 DEF TypeOK, CommitSession
      <4>2. \A i, j \in 1..Len(undo') : i < j => i + 1 < j + 1
        BY <4>1
      <4>3. \A r : OnItsWay(r) => OnItsWay(r)'
        BY <2>11 DEF OnItsWay, CommitSession, handlerVars, chainVars
      <4> QED
        BY <2>11, <4>1, <4>2, <4>3 DEF Kept, NoRowForgotten, CommitSession, handlerVars
    <3>2. Durable'
      <4>1. \A i \in 1..Len(undo') : undo'[i] = undo[i + 1] /\ i + 1 \in 1..Len(undo)
        BY <2>11 DEF TypeOK, CommitSession
      <4> QED
        BY <2>11, <4>1 DEF Durable, AtLeastOnce, CommitSession, handlerVars
    <3> QED
      BY <3>1, <3>2
  <2>12. CASE Leave \/ Block \/ TakeToken
    <3>1. Kept'
      BY <2>12 DEF Kept, NoRowForgotten, OnItsWay, Leave, Block, TakeToken, storeVars, handlerVars, chainVars
    <3>2. Durable'
      BY <2>12 DEF Durable, AtLeastOnce, Leave, Block, TakeToken, storeVars, handlerVars, chainVars
    <3> QED
      BY <3>1, <3>2
  <2>13. CASE Pop
    <3>1. Kept'
      <4>1. /\ queue \in Seq(Events) /\ queue' = Tail(queue) /\ queue # <<>> /\ hand = <<>>
            /\ hand' = <<queue[1]>> /\ cpc' = cpc /\ mem' = mem /\ arg' = arg
        BY <2>13 DEF TypeOK, HandInUse, Pop, chainVars
      <4>2. /\ Len(queue) \in Nat \ {0} /\ Len(queue') = Len(queue) - 1
            /\ \A i \in 1..Len(queue') : queue'[i] = queue[i + 1]
        BY <4>1
      <4>3. \A i \in 1..Len(queue) : i = 1 \/ (i - 1 \in 1..Len(queue') /\ queue'[i - 1] = queue[i])
        BY <4>2
      <4>4. \A r : OnItsWay(r) => OnItsWay(r)'
        BY <4>1, <4>3 DEF OnItsWay
      <4> QED
        BY <2>13, <4>4 DEF Kept, NoRowForgotten, Pop, storeVars
    <3>2. Durable'
      BY <2>13 DEF Durable, AtLeastOnce, Pop, storeVars, handlerVars, chainVars
    <3> QED
      BY <3>1, <3>2
  <2>14. CASE Emit
    <3>1. Kept'
      <4>1. \A r : OnItsWay(r) => OnItsWay(r)'
        BY <2>14 DEF OnItsWay, Emit, chainVars
      <4> QED
        BY <2>14, <4>1 DEF Kept, NoRowForgotten, Emit, storeVars
    <3>2. Durable'
      BY <2>14 DEF Durable, AtLeastOnce, Emit, storeVars, handlerVars, chainVars
    <3> QED
      BY <3>1, <3>2
  <2>15. CASE EmitFails \/ Record \/ ReleaseSlot
    <3>1. Kept'
      <4>1. CASE EmitFails \/ ReleaseSlot
        <5>1. \A r : OnItsWay(r) => OnItsWay(r)'
          BY <4>1 DEF OnItsWay, EmitFails, ReleaseSlot, chainVars
        <5> QED
          BY <4>1, <5>1 DEF Kept, NoRowForgotten, EmitFails, ReleaseSlot, storeVars
      <4>2. CASE Record
        <5>1. \A r : OnItsWay(r) => OnItsWay(r)' \/ r = hand[1]
          BY <4>2, HeldEvent DEF OnItsWay, Record, chainVars
        <5> QED
          BY <4>2, <5>1 DEF Kept, NoRowForgotten, Record, storeVars
      <4> QED
        BY <2>15, <4>1, <4>2
    <3>2. Durable'
      BY <2>15 DEF Durable, AtLeastOnce, EmitFails, Record, ReleaseSlot, storeVars, handlerVars, chainVars
    <3> QED
      BY <3>1, <3>2
  <2>16. CASE Quit \/ Shutdown
    <3>1. Kept'
      BY <2>16 DEF Kept, NoRowForgotten, OnItsWay, Quit, Shutdown, storeVars, handlerVars, chainVars
    <3>2. Durable'
      BY <2>16 DEF Durable, AtLeastOnce, Quit, Shutdown, storeVars, handlerVars, chainVars
    <3> QED
      BY <3>1, <3>2
  <2>17. CASE Restart
    <3>1. Kept'
      <4>1. /\ rows \in SUBSET Events /\ IsFiniteSet(rows)
            /\ queue' \in InPidOrder(rows)
        BY <2>17 DEF Restart, Initialize, TypeOK, FiniteRows
      <4>2. \A r \in rows : \E i \in 1..Len(queue') : queue'[i] = r
        BY <4>1, InPidOrderSeq
      <4> QED
        BY <2>17, <4>2 DEF Kept, NoRowForgotten, OnItsWay, Restart, Initialize, storeVars
    <3>2. Durable'
      BY <2>17 DEF Durable, AtLeastOnce, Restart, storeVars
    <3> QED
      BY <3>1, <3>2
  <2>18. CASE UNCHANGED vars
    BY <2>18 DEF Kept, NoRowForgotten, OnItsWay, Durable, AtLeastOnce, vars
  <2> QED
    BY <2>1, <2>2, <2>3, <2>4, <2>5, <2>6, <2>7, <2>8, <2>9, <2>10,
       <2>11, <2>12, <2>13, <2>14, <2>15, <2>16, <2>17, <2>18
    DEF Next, Stash, Handle
<1> QED
  BY <1>1, <1>2, TypeCorrect, HandHeld, OrderKept, PTL DEF Spec

\* At least once: an event stashed by a transaction that is still applied was
\* delivered, or is a row that this process or the next one will deliver.
THEOREM EventsAtLeastOnce == Spec => []AtLeastOnce
<1>1. Kept /\ Durable => AtLeastOnce
  BY DEF Durable
<1> QED
  BY <1>1, NothingForgotten, PTL

\* Every row of the table is on its way to the sink: a stored event is in the
\* queue or the consumer's hand, or the session that holds it is still open.
THEOREM RowsOnTheirWay == Spec => []NoRowForgotten
<1>1. Kept /\ Durable => NoRowForgotten
  BY DEF Kept
<1> QED
  BY <1>1, NothingForgotten, PTL

\* The pruning loop of stash_data removes only rows whose events were delivered.
THEOREM PruningIsSafe == Spec => PruneOnlyDelivered
<1>1. TypeOK /\ Ordered /\ Kept /\ [Next]_vars
        => [cpc = "store" => \A r \in rows \ rows' : r.data \in seen]_vars
  <2> SUFFICES ASSUME TypeOK, Ordered, Kept, [Next]_vars, cpc = "store",
                      NEW r \in rows \ rows'
               PROVE  r.data \in seen
    OBVIOUS
  <2>1. CASE PruneRow
    BY <2>1, PrunedWereSeen
  <2>2. CASE ~PruneRow
    <3>1. rows \subseteq rows'
      BY <2>2 DEF Next, vars, Stash, Handle, Offer, PackFails, WaitSlot, CreateRow,
        CreateFails, Enqueue, PostEvent, StartSession, UndoSession, CommitSession, Leave,
        Block, TakeToken, Pop, Emit, EmitFails, Record, ReleaseSlot, Quit, Shutdown,
        Restart, storeVars
    <3> QED
      BY <3>1
  <2> QED
    BY <2>1, <2>2
<1> QED
  BY <1>1, TypeCorrect, OrderKept, NothingForgotten, PTL DEF Spec, PruneOnlyDelivered

----------------------------------------------------------------------------
(* While the chain database does not fail: places and rows stay bounded,    *)
(* identifiers are fresh, and the plugin implements the bounded channel of  *)
(* EventChannel.                                                            *)

\* The events that still exist: in the table, in a snapshot of it, in the
\* queue or in the handler's hands.
Live ==
    {r \in Events : \/ r \in rows
                    \/ \E i \in 1..Len(undo) : r \in undo[i].rows
                    \/ \E i \in 1..Len(queue) : queue[i] = r
                    \/ hand = <<r>>}

\* Two events are ordered alike by their identifiers and by their stamps.
Alike(r, s) ==
    /\ r.pid < s.pid <=> r.data < s.data
    /\ r.pid = s.pid => r.data = s.data

\* Identifiers follow the order of the events, in everything that exists.
Consistent ==
    /\ \A r, s \in Live : Alike(r, s)
    /\ \A r \in Live : r.pid <= mem /\ r.data <= offered

\* The event being stashed is newer than all others.
Newest ==
    /\ \A d \in seen : d <= offered
    /\ cpc \in {"wait", "store", "enqueue"} => arg = offered /\ \A d \in seen : d < arg
    /\ cpc \in {"wait", "store"} => \A r \in Live : r.data < arg
    /\ cpc = "enqueue" => [pid |-> mem, data |-> arg] \in rows

\* Table S follows from table R by dropping the oldest rows and adding newer ones.
Later(R, S) ==
    /\ \A r \in R : r \in S \/ \A s \in S : r.pid < s.pid
    /\ \A s \in S : s \in R \/ \A r \in R : r.pid < s.pid

\* The snapshots and the table are later and later states of one sliding
\* window, which is only empty for good or in the middle of a stash.
Windows ==
    /\ \A i, j \in 1..Len(undo) : i < j => Later(undo[i].rows, undo[j].rows)
    /\ \A i, j \in 1..Len(undo) : i < j /\ undo[j].rows = {} => undo[i].rows = {}
    /\ \A i \in 1..Len(undo) : Later(undo[i].rows, rows)
    /\ rows = {} /\ cpc # "store" => \A i \in 1..Len(undo) : undo[i].rows = {}

\* Rows not yet recorded as emitted are on their way, and a snapshot has no
\* others that the table lacks.
Pending ==
    /\ \A r \in rows : emitted < r.pid => OnItsWay(r)
    /\ \A i \in 1..Len(undo) : \A r \in undo[i].rows : r \in rows \/ r.pid <= emitted

\* No place is taken twice.  The handler whose listener threw keeps its place.
SlotsHeld ==
    slots + Len(queue) + Bit(hpc \in {"emit", "record", "release"} \/ hand # <<>>)
          + Bit(cpc \in {"store", "enqueue"}) <= MaxDbSize

\* RowsBounded of the table and of every snapshot.
Bounded ==
    /\ RowsBounded
    /\ \A i \in 1..Len(undo) : Cardinality(undo[i].rows) <= MaxDbSize

----------------------------------------------------------------------------
\* Everything that exists is an event with an identifier and a stamp.
LEMMA LiveFields == \A r \in Live : r \in Events /\ r.pid \in Int /\ r.data \in Nat
BY EventFields, BoundsAssumption DEF Live, Stamps

LEMMA SnapshotRows ==
    ASSUME TypeOK
    PROVE  \A i \in 1..Len(undo) : undo[i].rows \subseteq Events
<1> DEFINE T == [rows : SUBSET Events, applied : SUBSET Stamps]
<1>1. undo \in Seq(T)
  BY DEF TypeOK
<1>2. \A i \in 1..Len(undo) : undo[i] \in T
  <2> HIDE DEF T
  <2> QED
    BY <1>1
<1> QED
  BY <1>2

LEMMA HandIsOne ==
    ASSUME TypeOK, hand # <<>>
    PROVE  Len(hand) = 1 /\ hand[1] \in Events /\ hand = <<hand[1]>>
<1>1. hand \in Seq(Events)
  BY DEF TypeOK
<1>2. Len(hand) <= 1
  BY DEF TypeOK
<1>3. Len(hand) = 1
  <2>1. Len(hand) \in Nat \ {0}
    BY <1>1, EmptySeq
  <2>2. \A n \in Nat \ {0} : n <= 1 => n = 1
    OBVIOUS
  <2> QED
    BY <2>1, <2>2, <1>2
<1> QED
  BY <1>1, <1>3

\* Where an event may exist.
LEMMA LivePlaces ==
    ASSUME TypeOK
    PROVE  /\ \A r \in rows : r \in Live
           /\ \A i \in 1..Len(undo) : \A r \in undo[i].rows : r \in Live
           /\ \A i \in 1..Len(queue) : queue[i] \in Live
           /\ hand # <<>> => hand[1] \in Live
<1>1. \A i \in 1..Len(undo) : undo[i].rows \subseteq Events
  BY SnapshotRows
<1>2. \A i \in 1..Len(queue) : queue[i] \in Events
  BY DEF TypeOK
<1>3. hand # <<>> => hand[1] \in Events /\ hand = <<hand[1]>>
  BY HandIsOne
<1> QED
  BY <1>1, <1>2, <1>3 DEF Live, TypeOK

\* Only a stash creates an event: every other step moves or forgets those
\* that exist.
LEMMA NothingNew ==
    ASSUME TypeOK, FiniteRows, Newest, [Next]_vars, ~CreateRow
    PROVE  Live' \subseteq Live
<1>1. CASE UNCHANGED <<rows, undo, queue, hand>>
  BY <1>1 DEF Live
<1>2. CASE PruneRow
  BY <1>2 DEF Live, PruneRow, handlerVars
<1>3. CASE Enqueue
  <2>1. /\ queue \in Seq(Events) /\ queue' = Append(queue, [pid |-> mem, data |-> arg])
        /\ [pid |-> mem, data |-> arg] \in rows /\ [pid |-> mem, data |-> arg] \in Events
        /\ UNCHANGED <<rows, undo, hand>>
    BY <1>3 DEF TypeOK, Newest, Enqueue, handlerVars, storeVars
  <2>2. \A i \in 1..Len(queue') :
          queue'[i] = [pid |-> mem, data |-> arg] \/ (i \in 1..Len(queue) /\ queue'[i] = queue[i])
    BY <2>1
  <2> QED
    BY <2>1, <2>2 DEF Live
<1>4. CASE StartSession
  <2>1. /\ Len(undo') = Len(undo) + 1 /\ Len(undo) \in Nat
        /\ undo'[Len(undo')].rows = rows
        /\ \A i \in 1..Len(undo) : undo'[i] = undo[i]
        /\ UNCHANGED <<rows, queue, hand>>
    BY <1>4 DEF TypeOK, StartSession, Snapshot, handlerVars
  <2>2. \A i \in 1..Len(undo') : i \in 1..Len(undo) \/ i = Len(undo')
    BY <2>1
  <2> QED
    BY <2>1, <2>2 DEF Live
<1>5. CASE UndoSession
  BY <1>5, UndoPops DEF Live, UndoSession, handlerVars
<1>6. CASE CommitSession
  <2>1. /\ \A i \in 1..Len(undo') : undo'[i] = undo[i + 1] /\ i + 1 \in 1..Len(undo)
        /\ UNCHANGED <<rows, queue, hand>>
    BY <1>6 DEF TypeOK, CommitSession, handlerVars
  <2> QED
    BY <2>1 DEF Live
<1>7. CASE Pop
  <2>1. /\ queue \in Seq(Events) /\ queue' = Tail(queue) /\ queue # <<>>
        /\ hand' = <<queue[1]>> /\ UNCHANGED <<rows, undo>>
    BY <1>7 DEF TypeOK, Pop, storeVars
  <2>2. /\ 1 \in 1..Len(queue)
        /\ \A i \in 1..Len(queue') : queue'[i] = queue[i + 1] /\ i + 1 \in 1..Len(queue)
    BY <2>1
  <2>3. \A r : <<queue[1]>> = <<r>> => r = queue[1]
    OBVIOUS
  <2> QED
    BY <2>1, <2>2, <2>3 DEF Live
<1>8. CASE Record
  <2>1. hand' = <<>> /\ UNCHANGED <<rows, undo, queue>>
    BY <1>8 DEF Record, storeVars
  <2>2. \A r : <<>> # <<r>>
    OBVIOUS
  <2> QED
    BY <2>1, <2>2 DEF Live
<1>9. CASE Restart
  <2>1. /\ rows \in SUBSET Events /\ IsFiniteSet(rows)
        /\ queue' \in InPidOrder(rows) /\ hand' = <<>> /\ UNCHANGED <<rows, undo>>
    BY <1>9 DEF Restart, Initialize, TypeOK, FiniteRows, storeVars
  <2>2. \A i \in 1..Len(queue') : queue'[i] \in rows
    BY <2>1, InPidOrderSeq
  <2>3. \A r : <<>> # <<r>>
    OBVIOUS
  <2> QED
    BY <2>1, <2>2, <2>3 DEF Live
<1>10. CASE Offer \/ PackFails \/ WaitSlot \/ CreateFails \/ PostEvent
  BY <1>1, <1>10 DEF Offer, PackFails, WaitSlot, CreateFails, PostEvent, storeVars, handlerVars
<1>11. CASE Leave \/ Block \/ TakeToken \/ Emit \/ EmitFails \/ ReleaseSlot \/ Quit \/ Shutdown
  BY <1>1, <1>11 DEF Leave, Block, TakeToken, Emit, EmitFails, ReleaseSlot, Quit, Shutdown,
    storeVars, handlerVars
<1> QED
  BY <1>1, <1>2, <1>3, <1>4, <1>5, <1>6, <1>7, <1>8, <1>9, <1>10, <1>11
  DEF Next, Stash, Handle, vars

\* A stash creates one event, newer than all others.
LEMMA OneNew ==
    ASSUME TypeOK, CreateRow
    PROVE  Live' \subseteq Live \cup {[pid |-> mem', data |-> arg]}
BY DEF Live, CreateRow, handlerVars

\* The order survives a restart, which counts on from the newest row.
LEMMA ConsistentStep ==
    ASSUME TypeOK, FiniteRows, Consistent, Newest, Windows, [Next]_vars
    PROVE  Consistent'
<1>1. CASE CreateRow
  <2> DEFINE new == [pid |-> mem', data |-> arg]
  <2>1. /\ Live' \subseteq Live \cup {new} /\ mem' = mem + 1 /\ mem \in Int
        /\ arg = offered /\ offered' = offered /\ arg \in Nat
        /\ new.pid = mem + 1 /\ new.data = arg
    BY <1>1, OneNew, BoundsAssumption DEF CreateRow, Newest, TypeOK, Stamps
  <2>2. \A r \in Live : r.pid <= mem /\ r.data < arg /\ r.pid \in Int /\ r.data \in Nat
    BY <1>1, LiveFields DEF CreateRow, Newest, Consistent
  <2> HIDE DEF new
  <2>3. \A r \in Live : Alike(r, new) /\ Alike(new, r)
    BY <2>1, <2>2 DEF Alike
  <2>4. Alike(new, new)
    BY <2>1 DEF Alike
  <2> QED
    BY <2>1, <2>2, <2>3, <2>4 DEF Consistent
<1>2. CASE Restart
  <2>1. /\ rows \in SUBSET Events /\ IsFiniteSet(rows) /\ queue' \in InPidOrder(rows)
        /\ hand' = <<>> /\ cpc = "stopped" /\ offered' = offered /\ UNCHANGED <<rows, undo>>
        /\ rows = {} => mem' = -1
        /\ rows # {} => mem' = queue'[Len(queue')].pid
    BY <1>2 DEF Restart, Initialize, TypeOK, FiniteRows, storeVars
  <2>2. /\ Len(queue') \in Nat /\ rows # {} => Len(queue') >= 1
        /\ \A i \in 1..Len(queue') : queue'[i] \in rows
        /\ \A r \in rows : \E i \in 1..Len(queue') : queue'[i] = r
        /\ \A i, j \in 1..Len(queue') : i < j => queue'[i].pid < queue'[j].pid
    BY <2>1, InPidOrderSeq
  <2>3. Live' \subseteq Live
    <3>1. ~CreateRow
      BY <2>1 DEF CreateRow
    <3> QED
      BY <3>1, NothingNew
  <2>4. \A r \in rows : r.pid <= mem'
    <3> SUFFICES ASSUME NEW r \in rows PROVE r.pid <= mem'
      OBVIOUS
    <3>1. PICK i \in 1..Len(queue') : queue'[i] = r
      BY <2>2
    <3>2. Len(queue') \in 1..Len(queue') /\ (i < Len(queue') \/ i = Len(queue'))
      BY <2>2
    <3>3. r.pid \in Int /\ queue'[Len(queue')].pid \in Int
      BY <2>1, <2>2, <3>2, EventFields
    <3> QED
      BY <2>1, <2>2, <3>1, <3>2, <3>3
  <2>5. \A i \in 1..Len(undo) : \A r \in undo[i].rows : r.pid <= mem'
    <3> SUFFICES ASSUME NEW i \in 1..Len(undo), NEW r \in undo[i].rows PROVE r.pid <= mem'
      OBVIOUS
    <3>1. PICK s \in rows : TRUE
      BY <2>1 DEF Windows
    <3>2. r \in rows \/ r.pid < s.pid
      BY DEF Windows, Later
    <3>3. r.pid \in Int /\ s.pid \in Int /\ mem' \in Int
      BY <2>1, <2>2, <3>1, SnapshotRows, EventFields
    <3> QED
      BY <2>4, <3>2, <3>3
  <2>6. \A r \in Live' : r.pid <= mem'
    <3>1. \A r : <<>> # <<r>>
      OBVIOUS
    <3> QED
      BY <2>1, <2>2, <2>4, <2>5, <3>1 DEF Live
  <2> QED
    BY <2>1, <2>3, <2>6 DEF Consistent
<1>3. CASE ~CreateRow /\ ~Restart
  <2>1. Live' \subseteq Live
    BY <1>3, NothingNew
  <2>2. (mem' = mem \/ mem' = mem + 1) /\ (offered' = offered \/ offered' = offered + 1)
    BY <1>3 DEF Next, vars, Stash, Handle, Offer, PackFails, WaitSlot, PruneRow,
      CreateFails, Enqueue, PostEvent, StartSession, UndoSession, CommitSession, Leave,
      Block, TakeToken, Pop, Emit, EmitFails, Record, ReleaseSlot, Quit, Shutdown, chainVars
  <2>3. mem \in Int /\ offered \in Nat
    BY BoundsAssumption DEF TypeOK
  <2>4. \A r \in Live : r.pid <= mem' /\ r.data <= offered'
    BY <2>2, <2>3, LiveFields DEF Consistent
  <2> QED
    BY <2>1, <2>4 DEF Consistent
<1> QED
  BY <1>1, <1>2, <1>3

\* Stamps grow from stash to stash.
LEMMA NewestStep ==
    ASSUME TypeOK, FiniteRows, HandInUse, Ordered, Consistent, Newest, [Next]_vars
    PROVE  Newest'
<1>1. offered \in Nat /\ arg \in Nat /\ mem \in Int /\ \A d \in seen : d \in Nat
  BY BoundsAssumption DEF TypeOK, Stamps
<1>2. \A r \in Live : r.data <= offered /\ r.data \in Nat
  BY LiveFields DEF Consistent
<1>3. CASE CreateRow
  BY <1>3 DEF Newest, CreateRow, handlerVars
<1>4. CASE Emit
  <2>1. hand[1] \in Live /\ hand[1] \in Events /\ hand # <<>>
    BY <1>4, HeldEvent, LivePlaces, LiveFields DEF Emit, HandInUse
  <2>2. cpc \in {"wait", "store"} => hand[1].data < arg
    BY <2>1 DEF Newest
  <2>3. cpc = "enqueue" => hand[1].data < arg
    <3> SUFFICES ASSUME cpc = "enqueue" PROVE hand[1].data < arg
      OBVIOUS
    <3> DEFINE new == [pid |-> mem, data |-> arg]
    <3>1. new \in Live /\ new.pid = mem /\ new.data = arg
      BY LivePlaces DEF Newest
    <3>2. hand[1].pid < mem
      BY <2>1 DEF Ordered
    <3> HIDE DEF new
    <3> QED
      BY <2>1, <3>1, <3>2 DEF Consistent, Alike
  <2>4. Live' \subseteq Live
    <3>1. ~CreateRow
      BY <1>4 DEF Emit, CreateRow, chainVars, storeVars, handlerVars
    <3> QED
      BY <3>1, NothingNew
  <2>5. hand[1].data <= offered
    BY <1>2, <2>1
  <2>6. /\ seen' = seen \cup {hand[1].data}
        /\ UNCHANGED <<cpc, arg, offered, mem, rows>>
    BY <1>4 DEF Emit, chainVars, storeVars
  <2> QED
    BY <2>2, <2>3, <2>4, <2>5, <2>6 DEF Newest
<1>5. CASE Offer
  <2>1. Live' \subseteq Live /\ seen' = seen /\ cpc' = "wait"
        /\ offered' = offered + 1 /\ arg' = offered'
    <3>1. ~CreateRow
      BY <1>5 DEF Offer, CreateRow
    <3> QED
      BY <1>5, <3>1, NothingNew DEF Offer, handlerVars
  <2> QED
    BY <1>1, <1>2, <2>1 DEF Newest
<1>6. CASE PackFails
  BY <1>1, <1>6 DEF Newest, PackFails, handlerVars
<1>7. CASE Enqueue \/ CreateFails \/ PostEvent \/ Shutdown
  BY <1>7 DEF Newest, Enqueue, CreateFails, PostEvent, Shutdown, handlerVars
<1>8. CASE StartSession \/ UndoSession \/ CommitSession
  BY <1>8 DEF Newest, StartSession, UndoSession, CommitSession, handlerVars, chainVars
<1>9. CASE Restart
  BY <1>9 DEF Newest, Restart, Initialize
<1>10. CASE WaitSlot \/ PruneRow
  <2>1. Live' \subseteq Live
    <3>1. ~CreateRow
      BY <1>10 DEF WaitSlot, PruneRow, CreateRow, chainVars
    <3> QED
      BY <3>1, NothingNew
  <2> QED
    BY <1>10, <2>1 DEF Newest, WaitSlot, PruneRow, handlerVars, chainVars
<1>11. CASE \/ Leave \/ Block \/ TakeToken \/ Pop \/ EmitFails \/ Record \/ ReleaseSlot
            \/ Quit \/ UNCHANGED vars
  <2>1. UNCHANGED <<cpc, arg, offered, mem, rows, seen>>
    BY <1>11 DEF Leave, Block, TakeToken, Pop, EmitFails, Record, ReleaseSlot, Quit, vars,
      chainVars, storeVars, handlerVars
  <2>2. cpc \in {"wait", "store"} => Live' \subseteq Live
    <3>1. ~CreateRow
      BY <2>1 DEF CreateRow
    <3> QED
      BY <3>1, NothingNew
  <2> QED
    BY <2>1, <2>2 DEF Newest
<1> QED
  BY <1>3, <1>4, <1>5, <1>6, <1>7, <1>8, <1>9, <1>10, <1>11 DEF Next, Stash, Handle

\* Pruning takes the oldest row, a stash adds the newest, and a roll-back goes
\* to a window that is earlier, but not earlier than the older snapshots.
LEMMA WindowsStep ==
    ASSUME TypeOK, Consistent, Newest, Windows, [Next]_vars, ~DbCanFail
    PROVE  Windows'
<1>1. CASE UNCHANGED <<rows, undo>> /\ (cpc' = cpc \/ cpc' = "store" \/ cpc \notin {"store"})
  BY <1>1 DEF Windows
<1>2. CASE PruneRow
  <2> SUFFICES ASSUME NEW i \in 1..Len(undo) PROVE Later(undo[i].rows, rows')
    BY <1>2 DEF Windows, PruneRow, chainVars
  <2>1. PICK r \in rows : (\A s \in rows : r.pid <= s.pid) /\ rows' = rows \ {r}
    BY <1>2 DEF PruneRow
  <2>2. \A s \in rows : s # r => r.pid < s.pid
    <3> SUFFICES ASSUME NEW s \in rows, s # r PROVE r.pid < s.pid
      OBVIOUS
    <3>1. r \in Live /\ s \in Live /\ r \in Events /\ s \in Events
      BY LivePlaces, LiveFields
    <3>2. r.pid # s.pid
      <4>1. r.data = s.data /\ r.pid = s.pid => r = s
        BY <3>1 DEF Events
      <4> QED
        BY <3>1, <4>1 DEF Consistent, Alike
    <3> QED
      BY <2>1, <3>1, <3>2, EventFields
  <2> QED
    BY <2>1, <2>2 DEF Windows, Later
<1>3. CASE CreateRow
  <2> DEFINE new == [pid |-> mem', data |-> arg]
  <2>1. rows' = rows \cup {new} /\ new.pid = mem + 1 /\ mem \in Int /\ UNCHANGED undo
    BY <1>3 DEF CreateRow, TypeOK
  <2> HIDE DEF new
  <2>2. \A i \in 1..Len(undo) : \A r \in undo[i].rows : r.pid < new.pid
    <3> SUFFICES ASSUME NEW i \in 1..Len(undo), NEW r \in undo[i].rows PROVE r.pid < new.pid
      OBVIOUS
    <3>1. r \in Live
      BY LivePlaces
    <3> QED
      BY <2>1, <3>1, LiveFields DEF Consistent
  <2>3. \A i \in 1..Len(undo) : Later(undo[i].rows, rows')
    BY <2>1, <2>2 DEF Windows, Later
  <2>4. rows' # {}
    BY <2>1
  <2> QED
    BY <2>1, <2>3, <2>4 DEF Windows
<1>4. CASE CreateFails
  <2>1. \E r \in rows : r.pid = mem + 1
    BY <1>4 DEF CreateFails
  <2>2. \A r \in rows : r.pid <= mem /\ r.pid \in Int
    BY LivePlaces, LiveFields DEF Consistent
  <2> QED
    BY <2>1, <2>2 DEF TypeOK
<1>5. CASE StartSession
  <2>1. /\ Len(undo') = Len(undo) + 1 /\ Len(undo) \in Nat
        /\ undo'[Len(undo')].rows = rows /\ rows' = rows /\ cpc = "idle" /\ cpc' = "idle"
        /\ \A i \in 1..Len(undo) : undo'[i] = undo[i]
    BY <1>5 DEF TypeOK, StartSession, Snapshot, chainVars
  <2>2. \A i \in 1..Len(undo') : i \in 1..Len(undo) \/ i = Len(undo')
    BY <2>1
  <2>3. Later(rows, rows)
    BY DEF Later
  <2>4. \A i, j \in 1..Len(undo') : i < j => i \in 1..Len(undo)
    BY <2>1
  <2> QED
    BY <2>1, <2>2, <2>3, <2>4 DEF Windows
<1>6. CASE UndoSession
  <2>1. /\ Len(undo) \in 1..Len(undo) /\ rows' = undo[Len(undo)].rows
        /\ \A i \in 1..Len(undo') : undo'[i] = undo[i] /\ i \in 1..Len(undo) /\ i < Len(undo)
    BY <1>6, UndoPops
  <2> QED
    BY <2>1 DEF Windows
<1>7. CASE CommitSession
  <2>1. /\ Len(undo) \in Nat /\ Len(undo') = Len(undo) - 1
        /\ rows' = rows /\ cpc = "idle" /\ cpc' = "idle"
        /\ \A i \in 1..Len(undo') : undo'[i] = undo[i + 1] /\ i + 1 \in 1..Len(undo)
    BY <1>7 DEF TypeOK, CommitSession, chainVars
  <2>2. \A i, j \in 1..Len(undo') : i < j => i + 1 < j + 1
    BY <2>1
  <2> QED
    BY <2>1, <2>2 DEF Windows
<1>8. CASE Offer \/ PackFails \/ WaitSlot \/ Enqueue \/ PostEvent
  BY <1>1, <1>8 DEF Offer, PackFails, WaitSlot, Enqueue, PostEvent, storeVars
<1>9. CASE \/ Leave \/ Block \/ TakeToken \/ Pop \/ Emit \/ EmitFails \/ Record \/ ReleaseSlot
           \/ Quit \/ Shutdown \/ UNCHANGED vars
  BY <1>1, <1>9 DEF Leave, Block, TakeToken, Pop, Emit, EmitFails, Record, ReleaseSlot, Quit,
    Shutdown, vars, chainVars, storeVars
<1>10. CASE Restart
  BY <1>1, <1>10 DEF Restart, storeVars
<1> QED
  BY <1>2, <1>3, <1>4, <1>5, <1>6, <1>7, <1>8, <1>9, <1>10 DEF Next, Stash, Handle

\* While the database does not fail, identifiers and stamps agree in the table,
\* in every snapshot and on the way to the listeners, over restarts and
\* roll-backs, because the rows never all vanish before the snapshots do.
THEOREM IdentifiersFollowEvents ==
    ASSUME ~DbCanFail
    PROVE  Spec => [](Consistent /\ Newest /\ Windows)
<1>1. Init => Consistent /\ Newest /\ Windows
  <2> SUFFICES ASSUME Init PROVE Consistent /\ Newest /\ Windows
    OBVIOUS
  <2>1. Len(undo) = 0 /\ Len(queue) = 0 /\ \A r : hand # <<r>>
    BY DEF Init
  <2>2. Live = {}
    BY <2>1 DEF Live, Init
  <2> QED
    BY <2>1, <2>2 DEF Init, Consistent, Newest, Windows
<1>2. TypeOK /\ FiniteRows /\ HandInUse /\ Ordered /\ Consistent /\ Newest /\ Windows
        /\ [Next]_vars => Consistent' /\ Newest' /\ Windows'
  <2> SUFFICES ASSUME TypeOK, FiniteRows, HandInUse, Ordered,
                      Consistent, Newest, Windows, [Next]_vars
               PROVE  Consistent' /\ Newest' /\ Windows'
    OBVIOUS
  <2>1. Consistent'
    BY ConsistentStep
  <2>2. Newest'
    BY NewestStep
  <2>3. Windows'
    BY WindowsStep
  <2> QED
    BY <2>1, <2>2, <2>3
<1> QED
  BY <1>1, <1>2, TypeCorrect, HandHeld, OrderKept, PTL DEF Spec

\* A row is created with an identifier that no row has.
THEOREM IdentifiersAreFresh ==
    ASSUME ~DbCanFail
    PROVE  Spec => []FreshPid
<1>1. TypeOK /\ Consistent => FreshPid
  <2> SUFFICES ASSUME TypeOK, Consistent PROVE FreshPid
    OBVIOUS
  <2>1. \A r \in rows : r.pid <= mem /\ r.pid \in Int
    BY LivePlaces, LiveFields DEF Consistent
  <2> QED
    BY <2>1 DEF FreshPid, TypeOK
<1> QED
  BY <1>1, TypeCorrect, IdentifiersFollowEvents, PTL

\* An event stays on its way until it is recorded, or the process ends.
LEMMA StillOnItsWay ==
    ASSUME TypeOK, HandInUse, [Next]_vars, ~Restart, NEW r, OnItsWay(r)
    PROVE  OnItsWay(r)' \/ (Record /\ r = hand[1])
<1>1. CASE UNCHANGED <<queue, hand>> /\ cpc # "enqueue"
  BY <1>1 DEF OnItsWay
<1>2. CASE UNCHANGED <<queue, hand, cpc, arg, mem>>
  BY <1>2 DEF OnItsWay
<1>3. CASE Enqueue
  <2>1. /\ queue \in Seq(Events) /\ queue' = Append(queue, [pid |-> mem, data |-> arg])
        /\ hand' = hand
    BY <1>3 DEF TypeOK, Enqueue, handlerVars
  <2>2. /\ \A i \in 1..Len(queue) : queue'[i] = queue[i] /\ i \in 1..Len(queue')
        /\ Len(queue') \in 1..Len(queue')
        /\ queue'[Len(queue')] = [pid |-> mem, data |-> arg]
    BY <2>1
  <2> QED
    BY <2>1, <2>2 DEF OnItsWay
<1>4. CASE Pop
  <2>1. /\ queue \in Seq(Events) /\ queue' = Tail(queue) /\ queue # <<>> /\ hand = <<>>
        /\ hand' = <<queue[1]>> /\ cpc' = cpc /\ mem' = mem /\ arg' = arg
    BY <1>4 DEF TypeOK, HandInUse, Pop, chainVars
  <2>2. /\ Len(queue) \in Nat \ {0} /\ Len(queue') = Len(queue) - 1
        /\ \A i \in 1..Len(queue') : queue'[i] = queue[i + 1]
    BY <2>1
  <2>3. \A i \in 1..Len(queue) : i = 1 \/ (i - 1 \in 1..Len(queue') /\ queue'[i - 1] = queue[i])
    BY <2>2
  <2> QED
    BY <2>1, <2>3 DEF OnItsWay
<1>5. CASE Record
  BY <1>5, HeldEvent DEF OnItsWay, Record, chainVars
<1>6. CASE Offer \/ PackFails \/ WaitSlot \/ PruneRow \/ CreateRow \/ CreateFails \/ PostEvent
  BY <1>1, <1>6 DEF Offer, PackFails, WaitSlot, PruneRow, CreateRow, CreateFails, PostEvent,
    handlerVars, chainVars
<1>7. CASE StartSession \/ UndoSession \/ CommitSession \/ Shutdown
  BY <1>1, <1>7 DEF StartSession, UndoSession, CommitSession, Shutdown, handlerVars, chainVars
<1>8. CASE \/ Leave \/ Block \/ TakeToken \/ Emit \/ EmitFails \/ ReleaseSlot \/ Quit
           \/ UNCHANGED vars
  BY <1>2, <1>8 DEF Leave, Block, TakeToken, Emit, EmitFails, ReleaseSlot, Quit, vars,
    handlerVars, chainVars
<1> QED
  BY <1>3, <1>4, <1>5, <1>6, <1>7, <1>8 DEF Next, Stash, Handle

\* Rows come back by a roll-back, but only rows that are still on their way or
\* were recorded as emitted.
LEMMA PendingStep ==
    ASSUME TypeOK, FiniteRows, HandInUse, Ordered, Windows, Pending, [Next]_vars
    PROVE  Pending'
<1>1. \A i \in 1..Len(undo) : \A r \in undo[i].rows : r.pid \in Int
  BY SnapshotRows, EventFields
<1>2. emitted \in Int /\ mem \in Int /\ \A r \in rows : r.pid \in Int
  BY EventFields DEF TypeOK
<1>3. CASE PruneRow
  <2>1. /\ rows' \subseteq rows /\ \A r \in rows \ rows' : r.pid <= emitted
        /\ UNCHANGED <<undo, emitted>>
    BY <1>3 DEF PruneRow, Prunable, handlerVars
  <2>2. \A r \in rows : OnItsWay(r) => OnItsWay(r)'
    BY <1>3 DEF OnItsWay, PruneRow, chainVars, handlerVars
  <2> QED
    BY <2>1, <2>2 DEF Pending
<1>4. CASE CreateRow
  <2>1. /\ rows' = rows \cup {[pid |-> mem', data |-> arg']} /\ UNCHANGED <<undo, emitted>>
        /\ cpc' = "enqueue"
    BY <1>4 DEF CreateRow, handlerVars
  <2>2. \A r \in rows : OnItsWay(r) => OnItsWay(r)'
    BY <1>4 DEF OnItsWay, CreateRow, handlerVars
  <2>3. \A r : r = [pid |-> mem', data |-> arg'] => OnItsWay(r)'
    BY <2>1 DEF OnItsWay
  <2> QED
    BY <2>1, <2>2, <2>3 DEF Pending
<1>5. CASE Record
  <2>1. emitted' = hand[1].pid /\ UNCHANGED <<rows, undo>>
    BY <1>5 DEF Record, storeVars
  <2>2. hand[1] \in Events /\ hand[1].pid \in Int /\ Len(hand) = 1
    BY <1>5, HeldEvent, EventFields DEF Record, HandInUse
  <2>3. emitted < hand[1].pid
    <3>1. hand # <<>>
      BY <2>2
    <3> QED
      BY <3>1 DEF Ordered
  <2>4. \A r : OnItsWay(r) => OnItsWay(r)' \/ r = hand[1]
    BY <1>5, HeldEvent DEF OnItsWay, Record, chainVars
  <2> QED
    BY <1>1, <1>2, <2>1, <2>2, <2>3, <2>4 DEF Pending
<1>6. CASE Restart
  <2>1. /\ rows \in SUBSET Events /\ IsFiniteSet(rows) /\ queue' \in InPidOrder(rows)
        /\ cpc = "stopped" /\ UNCHANGED <<rows, undo>>
        /\ rows # {} => emitted' = queue'[1].pid - 1
    BY <1>6 DEF Restart, Initialize, TypeOK, FiniteRows, storeVars
  <2>2. /\ \A r \in rows : \E i \in 1..Len(queue') : queue'[i] = r
        /\ \A i \in 1..Len(queue') : queue'[i] \in rows
        /\ rows # {} => 1 \in 1..Len(queue')
    BY <2>1, InPidOrderSeq
  <2>3. \A r \in rows : OnItsWay(r)'
    BY <2>1, <2>2 DEF OnItsWay
  <2>4. ASSUME NEW i \in 1..Len(undo), NEW r \in undo[i].rows, r \notin rows
        PROVE  r.pid <= emitted'
    <3>1. rows # {}
      BY <2>1, <2>4 DEF Windows
    <3>2. r.pid < queue'[1].pid /\ queue'[1].pid \in Int
      BY <1>2, <2>2, <2>4, <3>1 DEF Windows, Later
    <3> QED
      BY <1>1, <2>1, <3>1, <3>2
  <2> QED
    BY <2>1, <2>3, <2>4 DEF Pending
<1>7. CASE UndoSession
  <2>1. /\ Len(undo) \in 1..Len(undo) /\ rows' = undo[Len(undo)].rows
        /\ \A i \in 1..Len(undo') : undo'[i] = undo[i] /\ i \in 1..Len(undo) /\ i < Len(undo)
    BY <1>7, UndoPops
  <2>2. emitted' = emitted /\ \A r : OnItsWay(r) => OnItsWay(r)'
    BY <1>7 DEF OnItsWay, UndoSession, handlerVars, chainVars
  <2>3. ASSUME NEW i \in 1..Len(undo), i < Len(undo), NEW r \in undo[i].rows
        PROVE  r \in rows' \/ r.pid <= emitted
    <3>1. CASE r \in rows /\ r \notin rows'
      <4>1. PICK s \in rows' : TRUE
        BY <2>1, <2>3 DEF Windows
      <4>2. r.pid < s.pid
        BY <2>1, <2>3, <3>1, <4>1 DEF Windows, Later
      <4>3. s.pid < r.pid
        BY <2>1, <3>1, <4>1 DEF Windows, Later
      <4> QED
        BY <1>1, <2>1, <2>3, <4>1, <4>2, <4>3
    <3> QED
      BY <2>3, <3>1 DEF Pending
  <2>4. \A r \in rows' : emitted' < r.pid => OnItsWay(r)'
    BY <1>1, <1>2, <2>1, <2>2 DEF Pending
  <2>5. \A i \in 1..Len(undo') : \A r \in undo'[i].rows : r \in rows' \/ r.pid <= emitted'
    BY <2>1, <2>2, <2>3
  <2> QED
    BY <2>4, <2>5 DEF Pending
<1>8. CASE StartSession
  <2>1. /\ Len(undo') = Len(undo) + 1 /\ Len(undo) \in Nat
        /\ undo'[Len(undo')].rows = rows /\ UNCHANGED <<rows, emitted>>
        /\ \A i \in 1..Len(undo) : undo'[i] = undo[i]
    BY <1>8 DEF TypeOK, StartSession, Snapshot, handlerVars
  <2>2. \A i \in 1..Len(undo') : i \in 1..Len(undo) \/ i = Len(undo')
    BY <2>1
  <2>3. \A r : OnItsWay(r) => OnItsWay(r)'
    BY <1>8 DEF OnItsWay, StartSession, handlerVars, chainVars
  <2> QED
    BY <2>1, <2>2, <2>3 DEF Pending
<1>9. CASE CommitSession
  <2>1. /\ \A i \in 1..Len(undo') : undo'[i] = undo[i + 1] /\ i + 1 \in 1..Len(undo)
        /\ UNCHANGED <<rows, emitted>>
    BY <1>9 DEF TypeOK, CommitSession, handlerVars
  <2>2. \A r : OnItsWay(r) => OnItsWay(r)'
    BY <1>9 DEF OnItsWay, CommitSession, handlerVars, chainVars
  <2> QED
    BY <2>1, <2>2 DEF Pending
<1>10. CASE UNCHANGED <<rows, undo, emitted>> /\ ~Record /\ ~Restart
  BY <1>10, StillOnItsWay DEF Pending
<1>11. CASE Offer \/ PackFails \/ WaitSlot \/ CreateFails \/ Enqueue \/ PostEvent
  BY <1>5, <1>6, <1>10, <1>11 DEF Offer, PackFails, WaitSlot, CreateFails, Enqueue, PostEvent,
    storeVars, handlerVars
<1>12. CASE \/ Leave \/ Block \/ TakeToken \/ Pop \/ Emit \/ EmitFails \/ ReleaseSlot
            \/ Quit \/ Shutdown \/ UNCHANGED vars
  BY <1>5, <1>6, <1>10, <1>12 DEF Leave, Block, TakeToken, Pop, Emit, EmitFails, ReleaseSlot,
    Quit, Shutdown, vars, storeVars, handlerVars
<1> QED
  BY <1>3, <1>4, <1>5, <1>6, <1>7, <1>8, <1>9, <1>11, <1>12 DEF Next, Stash, Handle

\* The events of a queue are not more than its length.
LEMMA QueueCount ==
    ASSUME NEW S, NEW q \in Seq(S)
    PROVE  LET Q == {q[i] : i \in 1..Len(q)}
           IN  IsFiniteSet(Q) /\ Cardinality(Q) <= Len(q) /\ Cardinality(Q) \in Nat
<1> DEFINE Q == {q[i] : i \in 1..Len(q)}
<1>1. Len(q) \in Nat /\ q \in [1..Len(q) -> Q]
  BY LenProperties
<1>2. q \in Surjection(1..Len(q), Q)
  BY <1>1 DEF Surjection
<1>3. IsFiniteSet(1..Len(q)) /\ Cardinality(1..Len(q)) = Len(q)
  BY <1>1, FS_Interval
<1> HIDE DEF Q
<1>4. IsFiniteSet(Q) /\ Cardinality(Q) <= Cardinality(1..Len(q))
  BY <1>2, <1>3, FS_Surjection
<1>5. IsFiniteSet(Q) /\ Cardinality(Q) <= Len(q) /\ Cardinality(Q) \in Nat
  BY <1>3, <1>4, FS_CardinalityType
<1> QED
  BY <1>5 DEF Q

\* When stash_data has pruned, the rows left are queued or in the handler's
\* hands, so there is a place for one more.
LEMMA RoomForOne ==
    ASSUME TypeOK, FiniteRows, Pending, SlotsHeld, CreateRow
    PROVE  IsFiniteSet(rows) /\ Cardinality(rows) \in Nat /\ Cardinality(rows) < MaxDbSize
<1> DEFINE Q == {queue[i] : i \in 1..Len(queue)}
<1>1. IsFiniteSet(Q) /\ Cardinality(Q) <= Len(queue) /\ Cardinality(Q) \in Nat
  BY QueueCount DEF TypeOK
<1>2. IsFiniteSet(rows) /\ Cardinality(rows) \in Nat
  BY FS_CardinalityType DEF FiniteRows
<1>3. \A r \in rows : OnItsWay(r)
  <2>1. \A r \in rows : ~(r.pid <= emitted) /\ r.pid \in Int /\ emitted \in Int
    BY EventFields DEF CreateRow, Prunable, TypeOK
  <2> QED
    BY <2>1 DEF Pending
<1>4. \A r \in rows : r \in Q \/ hand = <<r>>
  BY <1>3 DEF OnItsWay, CreateRow
<1>5. slots \in Nat /\ Len(queue) \in Nat /\ MaxDbSize \in Nat /\ cpc = "store"
  BY MaxDbSizeAssumption DEF TypeOK, CreateRow
<1>6. CASE hand = <<>>
  <2>1. rows \subseteq Q
    BY <1>4, <1>6
  <2>2. Cardinality(rows) <= Len(queue)
    BY <1>1, <1>2, <2>1, FS_Subset
  <2> QED
    BY <1>2, <1>5, <2>2 DEF SlotsHeld, Bit
<1>7. CASE hand # <<>>
  <2>1. rows \subseteq Q \cup {hand[1]}
    BY <1>4
  <2>2. IsFiniteSet(Q \cup {hand[1]}) /\ Cardinality(Q \cup {hand[1]}) <= Len(queue) + 1
    <3> HIDE DEF Q
    <3>1. /\ IsFiniteSet(Q \cup {hand[1]})
          /\ Cardinality(Q \cup {hand[1]}) =
                IF hand[1] \in Q THEN Cardinality(Q) ELSE Cardinality(Q) + 1
      BY <1>1, FS_AddElement
    <3> QED
      BY <1>1, <1>5, <3>1
  <2>3. Cardinality(rows) <= Cardinality(Q \cup {hand[1]})
    BY <2>1, <2>2, FS_Subset
  <2>4. Cardinality(Q \cup {hand[1]}) \in Nat
    BY <2>2, FS_CardinalityType
  <2>5. Cardinality(rows) <= Len(queue) + 1
    BY <1>2, <1>5, <2>2, <2>3, <2>4
  <2> QED
    BY <1>2, <1>5, <1>7, <2>5 DEF SlotsHeld, Bit
<1> QED
  BY <1>6, <1>7

\* Places are taken once, and a restart finds no more rows than places.
LEMMA SlotsStep ==
    ASSUME TypeOK, FiniteRows, HandInUse, Bounded, SlotsHeld, [Next]_vars
    PROVE  SlotsHeld'
<1>1. slots \in Nat /\ Len(queue) \in Nat /\ MaxDbSize \in Nat \ {0}
  BY MaxDbSizeAssumption DEF TypeOK
<1> USE DEF Bit
<1>2. CASE Offer \/ PackFails \/ WaitSlot \/ PruneRow \/ CreateRow \/ CreateFails \/ PostEvent
  BY <1>1, <1>2 DEF SlotsHeld, Offer, PackFails, WaitSlot, PruneRow, CreateRow, CreateFails,
    PostEvent, handlerVars, chainVars
<1>3. CASE Enqueue
  <2>1. Len(queue') = Len(queue) + 1
    BY <1>3 DEF TypeOK, Enqueue
  <2> QED
    BY <1>1, <1>3, <2>1 DEF SlotsHeld, Enqueue, handlerVars
<1>4. CASE StartSession \/ UndoSession \/ CommitSession \/ Shutdown
  BY <1>1, <1>4 DEF SlotsHeld, StartSession, UndoSession, CommitSession, Shutdown, handlerVars,
    chainVars
<1>5. CASE Leave \/ Block \/ TakeToken \/ Emit \/ EmitFails \/ Quit \/ UNCHANGED vars
  BY <1>1, <1>5 DEF SlotsHeld, Leave, Block, TakeToken, Emit, EmitFails, Quit, vars,
    handlerVars, chainVars
<1>6. CASE Pop
  <2>1. Len(queue') = Len(queue) - 1 /\ hand = <<>>
    BY <1>6 DEF TypeOK, HandInUse, Pop
  <2> QED
    BY <1>1, <1>6, <2>1 DEF SlotsHeld, Pop, chainVars
<1>7. CASE Record
  BY <1>1, <1>7 DEF SlotsHeld, Record, chainVars
<1>8. CASE ReleaseSlot
  <2>1. hand = <<>>
    BY <1>8 DEF HandInUse, ReleaseSlot
  <2> QED
    BY <1>1, <1>8, <2>1 DEF SlotsHeld, ReleaseSlot, chainVars
<1>9. CASE Restart
  <2>1. /\ rows \in SUBSET Events /\ IsFiniteSet(rows) /\ queue' \in InPidOrder(rows)
        /\ hand' = <<>> /\ hpc' = "check" /\ cpc' = "idle"
        /\ slots' = IF MaxDbSize > Cardinality(rows) THEN MaxDbSize - Cardinality(rows) ELSE 0
    BY <1>9 DEF Restart, Initialize, TypeOK, FiniteRows
  <2>2. Len(queue') = Cardinality(rows) /\ Cardinality(rows) \in Nat
    BY <2>1, InPidOrderSeq
  <2> QED
    BY <1>1, <2>1, <2>2 DEF SlotsHeld, Bounded, RowsBounded
<1> QED
  BY <1>2, <1>3, <1>4, <1>5, <1>6, <1>7, <1>8, <1>9 DEF Next, Stash, Handle

LEMMA BoundedStep ==
    ASSUME TypeOK, FiniteRows, Pending, SlotsHeld, Bounded, [Next]_vars
    PROVE  Bounded'
<1>1. CASE UNCHANGED <<rows, undo>>
  BY <1>1 DEF Bounded, RowsBounded
<1>2. CASE PruneRow
  <2>1. rows' \subseteq rows /\ UNCHANGED undo /\ IsFiniteSet(rows)
    BY <1>2 DEF PruneRow, FiniteRows
  <2>2. Cardinality(rows') <= Cardinality(rows) /\ Cardinality(rows) \in Nat /\ Cardinality(rows') \in Nat
    BY <2>1, FS_Subset, FS_CardinalityType
  <2> QED
    BY <2>1, <2>2, MaxDbSizeAssumption DEF Bounded, RowsBounded
<1>3. CASE CreateRow
  <2> DEFINE new == [pid |-> mem', data |-> arg]
  <2>1. rows' = rows \cup {new} /\ UNCHANGED undo
    BY <1>3 DEF CreateRow
  <2>2. Cardinality(rows) \in Nat /\ Cardinality(rows) < MaxDbSize /\ IsFiniteSet(rows)
    BY <1>3, RoomForOne
  <2> HIDE DEF new
  <2>3. Cardinality(rows') <= Cardinality(rows) + 1 /\ Cardinality(rows') \in Nat
    BY <2>1, <2>2, FS_AddElement, FS_CardinalityType
  <2> QED
    BY <2>1, <2>2, <2>3, MaxDbSizeAssumption DEF Bounded, RowsBounded
<1>4. CASE StartSession
  <2>1. /\ Len(undo') = Len(undo) + 1 /\ Len(undo) \in Nat
        /\ undo'[Len(undo')].rows = rows /\ UNCHANGED rows
        /\ \A i \in 1..Len(undo) : undo'[i] = undo[i]
    BY <1>4 DEF TypeOK, StartSession, Snapshot
  <2>2. \A i \in 1..Len(undo') : i \in 1..Len(undo) \/ i = Len(undo')
    BY <2>1
  <2> QED
    BY <2>1, <2>2 DEF Bounded, RowsBounded
<1>5. CASE UndoSession
  BY <1>5, UndoPops DEF Bounded, RowsBounded
<1>6. CASE CommitSession
  <2>1. /\ \A i \in 1..Len(undo') : undo'[i] = undo[i + 1] /\ i + 1 \in 1..Len(undo)
        /\ UNCHANGED rows
    BY <1>6 DEF TypeOK, CommitSession
  <2> QED
    BY <2>1 DEF Bounded, RowsBounded
<1>7. CASE Offer \/ PackFails \/ WaitSlot \/ CreateFails \/ Enqueue \/ PostEvent
  BY <1>1, <1>7 DEF Offer, PackFails, WaitSlot, CreateFails, Enqueue, PostEvent, storeVars
<1>8. CASE \/ Leave \/ Block \/ TakeToken \/ Pop \/ Emit \/ EmitFails \/ Record \/ ReleaseSlot
           \/ Quit \/ Shutdown \/ Restart \/ UNCHANGED vars
  BY <1>1, <1>8 DEF Leave, Block, TakeToken, Pop, Emit, EmitFails, Record, ReleaseSlot, Quit,
    Shutdown, Restart, vars, storeVars
<1> QED
  BY <1>2, <1>3, <1>4, <1>5, <1>6, <1>7, <1>8 DEF Next, Stash, Handle

\* While the database does not fail, what is not yet recorded is on its way,
\* no place is taken twice, and the table and its snapshots fit the places.
THEOREM PlacesAndRows ==
    ASSUME ~DbCanFail
    PROVE  Spec => [](Pending /\ SlotsHeld /\ Bounded)
<1>1. Init => Pending /\ SlotsHeld /\ Bounded
  <2> SUFFICES ASSUME Init PROVE Pending /\ SlotsHeld /\ Bounded
    OBVIOUS
  <2>1. Len(undo) = 0 /\ Len(queue) = 0 /\ Cardinality(rows) = 0
    BY FS_EmptySet DEF Init
  <2> QED
    BY <2>1, MaxDbSizeAssumption DEF Init, Pending, SlotsHeld, Bounded, RowsBounded, Bit
<1>2. TypeOK /\ FiniteRows /\ HandInUse /\ Ordered /\ Windows /\ Pending /\ SlotsHeld /\ Bounded
        /\ [Next]_vars => Pending' /\ SlotsHeld' /\ Bounded'
  <2> SUFFICES ASSUME TypeOK, FiniteRows, HandInUse, Ordered, Windows,
                      Pending, SlotsHeld, Bounded, [Next]_vars
               PROVE  Pending' /\ SlotsHeld' /\ Bounded'
    OBVIOUS
  <2>1. Pending'
    BY PendingStep
  <2>2. SlotsHeld'
    BY SlotsStep
  <2>3. Bounded'
    BY BoundedStep
  <2> QED
    BY <2>1, <2>2, <2>3
<1> QED
  BY <1>1, <1>2, TypeCorrect, HandHeld, OrderKept, IdentifiersFollowEvents, PTL DEF Spec

\* MAX_DB_SIZE bounds the table, although rows are removed lazily and come back
\* with roll-backs.
THEOREM TableIsBounded ==
    ASSUME ~DbCanFail
    PROVE  Spec => []RowsBounded
<1>1. Bounded => RowsBounded
  BY DEF Bounded
<1> QED
  BY <1>1, PlacesAndRows, PTL

\* Every place is free or taken by exactly one event, until the application
\* quits; then places may be missing, but none is taken twice.
THEOREM PlacesAreExact ==
    ASSUME ~DbCanFail
    PROVE  Spec => []SlotAccounting
<1>1. TypeOK /\ SlotsSuffice /\ SlotsHeld => SlotAccounting
  <2> SUFFICES ASSUME TypeOK, SlotsSuffice, SlotsHeld PROVE SlotAccounting
    OBVIOUS
  <2>1. slots \in Nat /\ Len(queue) \in Nat /\ MaxDbSize \in Nat
    BY MaxDbSizeAssumption DEF TypeOK
  <2> DEFINE inHand == Bit(hpc \in {"emit", "record", "release"})
             held == Bit(hpc \in {"emit", "record", "release"} \/ hand # <<>>)
             stashing == Bit(cpc \in {"store", "enqueue"})
  <2>2. inHand \in {0, 1} /\ held \in {0, 1} /\ stashing \in {0, 1} /\ inHand <= held
    BY DEF Bit
  <2>3. slots + Len(queue) + held + stashing <= MaxDbSize
    BY DEF SlotsHeld
  <2>4. ~quitting => slots + Len(queue) + inHand + stashing >= MaxDbSize
    BY DEF SlotsSuffice
  <2> HIDE DEF inHand, held, stashing
  <2>5. /\ slots + (Len(queue) + inHand + stashing) <= MaxDbSize
        /\ ~quitting => slots + (Len(queue) + inHand + stashing) = MaxDbSize
    BY <2>1, <2>2, <2>3, <2>4
  <2> QED
    BY <2>5 DEF SlotAccounting, inHand, stashing
<1> QED
  BY <1>1, TypeCorrect, PlacesSuffice, PlacesAndRows, PTL

----------------------------------------------------------------------------
(* The refinement of EventChannel.                                          *)

LEMMA SameCardinality == \A S : Channel!Cardinality(S) = Cardinality(S)
BY DEF Channel!Cardinality, Cardinality

\* The stamps of a sequence of events are a sequence of the same length.
LEMMA DataSeq ==
    ASSUME NEW q \in Seq(Events)
    PROVE  /\ Data(q) \in Seq(Stamps)
           /\ Len(Data(q)) = Len(q) /\ Len(q) \in Nat
           /\ \A i \in 1..Len(q) : Data(q)[i] = q[i].data
<1>1. Len(q) \in Nat /\ \A i \in 1..Len(q) : q[i].data \in Stamps
  BY EventFields
<1>2. Data(q) \in [1..Len(q) -> Stamps]
  BY <1>1 DEF Data
<1>3. Data(q) \in Seq(Stamps) /\ Len(Data(q)) = Len(q)
  BY <1>1, <1>2
<1> QED
  BY <1>1, <1>3 DEF Data

LEMMA DataOfNone == Data(<<>>) = <<>>
<1>1. <<>> \in Seq(Events) /\ Len(<<>>) = 0
  OBVIOUS
<1>2. Data(<<>>) \in Seq(Stamps) /\ Len(Data(<<>>)) = 0
  BY <1>1, DataSeq
<1> QED
  BY <1>2

LEMMA DataOfOne ==
    ASSUME NEW e \in Events
    PROVE  Data(<<e>>) = <<e.data>>
<1>1. <<e>> \in Seq(Events) /\ Len(<<e>>) = 1 /\ <<e>>[1] = e
  OBVIOUS
<1>2. Data(<<e>>) \in Seq(Stamps) /\ Len(Data(<<e>>)) = 1 /\ Data(<<e>>)[1] = e.data
  BY <1>1, DataSeq
<1> QED
  BY <1>2

\* Stamps follow events that are put into and taken out of a queue.
LEMMA DataOfAppend ==
    ASSUME NEW q \in Seq(Events), NEW e \in Events
    PROVE  Data(Append(q, e)) = Append(Data(q), e.data)
<1>1. /\ Append(q, e) \in Seq(Events) /\ Len(Append(q, e)) = Len(q) + 1 /\ Len(q) \in Nat
      /\ \A i \in 1..(Len(q) + 1) : Append(q, e)[i] = IF i = Len(q) + 1 THEN e ELSE q[i]
      /\ e.data \in Stamps
  BY EventFields
<1>2. /\ Data(q) \in Seq(Stamps) /\ Len(Data(q)) = Len(q)
      /\ \A i \in 1..Len(q) : Data(q)[i] = q[i].data
  BY DataSeq
<1>3. /\ Data(Append(q, e)) \in Seq(Stamps) /\ Len(Data(Append(q, e))) = Len(q) + 1
      /\ \A i \in 1..(Len(q) + 1) : Data(Append(q, e))[i] = Append(q, e)[i].data
  BY <1>1, DataSeq
<1>4. /\ Append(Data(q), e.data) \in Seq(Stamps) /\ Len(Append(Data(q), e.data)) = Len(q) + 1
      /\ \A i \in 1..(Len(q) + 1) :
            Append(Data(q), e.data)[i] = IF i = Len(q) + 1 THEN e.data ELSE Data(q)[i]
  BY <1>1, <1>2
<1>5. \A i \in 1..(Len(q) + 1) : Data(Append(q, e))[i] = Append(Data(q), e.data)[i]
  BY <1>1, <1>2, <1>3, <1>4
<1> QED
  BY <1>3, <1>4, <1>5, SeqEqual

LEMMA DataOfHead ==
    ASSUME NEW q \in Seq(Events), q # <<>>
    PROVE  /\ Data(<<Head(q)>>) \o Data(Tail(q)) = Data(q)
           /\ Tail(q) \in Seq(Events) /\ Head(q) \in Events
<1>1. /\ Tail(q) \in Seq(Events) /\ Len(Tail(q)) = Len(q) - 1 /\ Len(q) \in Nat \ {0}
      /\ \A i \in 1..Len(Tail(q)) : Tail(q)[i] = q[i + 1]
      /\ Head(q) \in Events /\ Head(q) = q[1]
  OBVIOUS
<1>2. /\ Data(q) \in Seq(Stamps) /\ Len(Data(q)) = Len(q)
      /\ \A i \in 1..Len(q) : Data(q)[i] = q[i].data
  BY DataSeq
<1>3. /\ Data(Tail(q)) \in Seq(Stamps) /\ Len(Data(Tail(q))) = Len(q) - 1
      /\ \A i \in 1..(Len(q) - 1) : Data(Tail(q))[i] = q[i + 1].data
  <2> DEFINE t == Tail(q)
  <2> HIDE DEF t
  <2>1. /\ t \in Seq(Events) /\ Len(t) = Len(q) - 1
        /\ \A i \in 1..(Len(q) - 1) : t[i] = q[i + 1]
    BY <1>1 DEF t
  <2>2. /\ Data(t) \in Seq(Stamps) /\ Len(Data(t)) = Len(t)
        /\ \A i \in 1..Len(t) : Data(t)[i] = t[i].data
    BY <2>1, DataSeq
  <2>3. /\ Data(t) \in Seq(Stamps) /\ Len(Data(t)) = Len(q) - 1
        /\ \A i \in 1..(Len(q) - 1) : Data(t)[i] = q[i + 1].data
    BY <2>1, <2>2
  <2> QED
    BY <2>3 DEF t
<1>4. Data(<<Head(q)>>) = <<q[1].data>> /\ q[1].data \in Stamps
  BY <1>1, DataOfOne, EventFields
<1> DEFINE one == <<q[1].data>>
<1>5. one \in Seq(Stamps) /\ Len(one) = 1 /\ one[1] = q[1].data
  BY <1>4
<1> HIDE DEF one
<1>6. /\ one \o Data(Tail(q)) \in Seq(Stamps) /\ Len(one \o Data(Tail(q))) = Len(q)
      /\ \A i \in 1..Len(q) : (one \o Data(Tail(q)))[i]
            = IF i = 1 THEN one[1] ELSE Data(Tail(q))[i - 1]
  <2> DEFINE rest == Data(Tail(q))
  <2> HIDE DEF rest
  <2>1. rest \in Seq(Stamps) /\ Len(rest) = Len(q) - 1 /\ Len(q) \in Nat
    BY <1>1, <1>3 DEF rest
  <2>2. /\ one \o rest \in Seq(Stamps) /\ Len(one \o rest) = Len(one) + Len(rest)
        /\ \A i \in 1..(Len(one) + Len(rest)) :
              (one \o rest)[i] = IF i <= Len(one) THEN one[i] ELSE rest[i - Len(one)]
    BY <1>5, <2>1, ConcatProperties
  <2>3. /\ one \o rest \in Seq(Stamps) /\ Len(one \o rest) = Len(q)
        /\ \A i \in 1..Len(q) : (one \o rest)[i] = IF i = 1 THEN one[1] ELSE rest[i - 1]
    BY <1>5, <2>1, <2>2
  <2> QED
    BY <2>3 DEF rest
<1>7. \A i \in 1..Len(q) : (one \o Data(Tail(q)))[i] = Data(q)[i]
  <2> SUFFICES ASSUME NEW i \in 1..Len(q)
               PROVE  (one \o Data(Tail(q)))[i] = Data(q)[i]
    OBVIOUS
  <2>1. CASE i = 1
    BY <1>2, <1>5, <1>6, <2>1
  <2>2. CASE i # 1
    <3>1. i - 1 \in 1..(Len(q) - 1) /\ (i - 1) + 1 = i
      BY <1>1, <2>2
    <3> QED
      BY <1>2, <1>3, <1>6, <2>2, <3>1
  <2> QED
    BY <2>1, <2>2
<1>8. one \o Data(Tail(q)) = Data(q)
  <2> DEFINE joined == one \o Data(Tail(q))
  <2> HIDE DEF joined
  <2>1. /\ joined \in Seq(Stamps) /\ Len(joined) = Len(Data(q))
        /\ \A i \in 1..Len(joined) : joined[i] = Data(q)[i]
    BY <1>2, <1>6, <1>7 DEF joined
  <2>2. joined = Data(q)
    BY <1>2, <2>1, SeqEqual
  <2> QED
    BY <2>2 DEF joined
<1> QED
  BY <1>1, <1>4, <1>8 DEF one

\* What is buffered: the handler's event until it is emitted, then the queue.
LEMMA BufferParts ==
    ASSUME TypeOK
    PROVE  /\ InHand \in Seq(Stamps) /\ Data(queue) \in Seq(Stamps)
           /\ Len(InHand) = IF hpc = "record" \/ hand = <<>> THEN 0 ELSE 1
           /\ Len(InHand) = 1 => InHand[1] = hand[1].data
           /\ BufNow \in Seq(Stamps) /\ Len(BufNow) = Len(InHand) + Len(queue)
           /\ \A i \in 1..Len(BufNow) :
                \/ hand # <<>> /\ BufNow[i] = hand[1].data
                \/ \E j \in 1..Len(queue) : BufNow[i] = queue[j].data
<1>1. /\ Data(queue) \in Seq(Stamps) /\ Len(Data(queue)) = Len(queue)
      /\ \A i \in 1..Len(queue) : Data(queue)[i] = queue[i].data
  BY DataSeq DEF TypeOK
<1>2. /\ Data(hand) \in Seq(Stamps) /\ Len(Data(hand)) = Len(hand)
      /\ \A i \in 1..Len(hand) : Data(hand)[i] = hand[i].data
  BY DataSeq DEF TypeOK
<1>3. hand # <<>> => Len(hand) = 1
  BY HandIsOne
<1>4. /\ InHand \in Seq(Stamps)
      /\ Len(InHand) = IF hpc = "record" \/ hand = <<>> THEN 0 ELSE 1
      /\ Len(InHand) = 1 => InHand[1] = hand[1].data /\ hand # <<>>
  <2>1. CASE hpc = "record"
    BY <2>1, EmptyIsSeq DEF InHand
  <2>2. CASE hpc # "record" /\ hand = <<>>
    <3>1. InHand = <<>>
      BY <2>2, DataOfNone DEF InHand
    <3> QED
      BY <2>2, <3>1, EmptyIsSeq
  <2>3. CASE hpc # "record" /\ hand # <<>>
    BY <1>2, <1>3, <2>3 DEF InHand
  <2> QED
    BY <2>1, <2>2, <2>3
<1>5. /\ BufNow \in Seq(Stamps) /\ Len(BufNow) = Len(InHand) + Len(Data(queue))
      /\ \A i \in 1..(Len(InHand) + Len(Data(queue))) :
            BufNow[i] = IF i <= Len(InHand) THEN InHand[i] ELSE Data(queue)[i - Len(InHand)]
  <2>1. \A s, t \in Seq(Stamps) :
          /\ s \o t \in Seq(Stamps) /\ Len(s \o t) = Len(s) + Len(t)
          /\ \A i \in 1..(Len(s) + Len(t)) :
                (s \o t)[i] = IF i <= Len(s) THEN s[i] ELSE t[i - Len(s)]
    BY ConcatProperties
  <2> QED
    BY <1>1, <1>4, <2>1 DEF BufNow
<1>6. ASSUME NEW i \in 1..Len(BufNow)
      PROVE  \/ hand # <<>> /\ BufNow[i] = hand[1].data
             \/ \E j \in 1..Len(queue) : BufNow[i] = queue[j].data
  <2>1. Len(InHand) \in {0, 1} /\ Len(queue) \in Nat
    BY <1>4 DEF TypeOK
  <2> DEFINE k == Len(InHand)
  <2>4. /\ i \in Int /\ 1 <= i /\ i <= k + Len(queue) /\ i \in 1..(k + Len(Data(queue)))
        /\ BufNow[i] = IF i <= k THEN InHand[i] ELSE Data(queue)[i - k]
    BY <1>1, <1>5, <2>1
  <2>2. CASE i <= Len(InHand)
    <3>1. k = 1 /\ i = 1
      <4> HIDE DEF k
      <4> QED
        BY <2>1, <2>2, <2>4 DEF k
    <3> QED
      BY <1>4, <2>4, <3>1
  <2>3. CASE ~(i <= Len(InHand))
    <3>1. i - Len(InHand) \in 1..Len(queue) /\ BufNow[i] = Data(queue)[i - Len(InHand)]
      BY <1>1, <1>5, <2>1, <2>3
    <3> QED
      BY <1>1, <3>1
  <2> QED
    BY <2>2, <2>3
<1> QED
  BY <1>1, <1>4, <1>5, <1>6

\* Events with different identifiers have different stamps, so a table has as
\* many stamps as rows.
LEMMA DataCount ==
    ASSUME NEW R \in SUBSET Events, IsFiniteSet(R),
           \A r, s \in R : r.data = s.data => r = s
    PROVE  /\ IsFiniteSet(DataOf(R)) /\ Cardinality(DataOf(R)) = Cardinality(R)
           /\ Cardinality(R) \in Nat
<1> DEFINE f == [r \in R |-> r.data]
<1>1. f \in Surjection(R, DataOf(R))
  BY DEF Surjection, DataOf
<1>2. f \in Injection(R, DataOf(R))
  BY DEF Injection, IsInjective, DataOf
<1> HIDE DEF f
<1> QED
  BY <1>1, <1>2, FS_Surjection, FS_CardinalityType

\* Rows with the same stamp are the same row.
LEMMA StampsAreUnique ==
    ASSUME TypeOK, Consistent
    PROVE  \A r, s \in rows : r.data = s.data => r = s
<1> SUFFICES ASSUME NEW r \in rows, NEW s \in rows, r.data = s.data
             PROVE  r = s
  OBVIOUS
<1>1. /\ r \in Live /\ s \in Live /\ r \in Events /\ s \in Events
      /\ r.pid \in Int /\ s.pid \in Int /\ r.data \in Nat /\ s.data \in Nat
  BY LivePlaces, LiveFields
<1>2. r.pid = s.pid
  BY <1>1 DEF Consistent, Alike
<1> QED
  BY <1>1, <1>2 DEF Events

\* Enqueueing puts the event into the channel.
LEMMA EnqueuePuts ==
    ASSUME TypeOK, FiniteRows, HandInUse, Ordered, Consistent, Newest, SlotsHeld, Bounded, Enqueue
    PROVE  arg \in Stamps /\ Channel!Put(arg)
<1> DEFINE new == [pid |-> mem, data |-> arg]
<1>1. /\ cpc = "enqueue" /\ cpc' = "post" /\ queue' = Append(queue, new)
      /\ UNCHANGED <<rows, undo, arg, hand, hpc, delivered, seen, restarts>>
      /\ arg \in Stamps /\ arg \in Nat /\ new \in Events /\ new \in rows /\ queue \in Seq(Events)
  BY EventFields, BoundsAssumption DEF Enqueue, TypeOK, Newest, handlerVars, storeVars, Stamps
<1>2. Len(BufNow) < MaxDbSize
  <2>1. Len(queue) \in Nat /\ slots \in Nat /\ MaxDbSize \in Nat
    BY MaxDbSizeAssumption DEF TypeOK
  <2>2. Len(BufNow) = Len(queue) \/ Len(BufNow) = Len(queue) + 1
    <3>1. Len(BufNow) = Len(InHand) + Len(queue) /\ (Len(InHand) = 0 \/ Len(InHand) = 1)
      BY BufferParts
    <3>2. CASE Len(InHand) = 0
      BY <2>1, <3>1, <3>2
    <3>3. CASE Len(InHand) = 1
      BY <2>1, <3>1, <3>3
    <3> QED
      BY <3>1, <3>2, <3>3
  <2>3. CASE hand = <<>>
    <3>1. slots + Len(queue) + 1 <= MaxDbSize
      BY <1>1, <2>1, <2>3 DEF SlotsHeld, Bit
    <3>2. Len(BufNow) = Len(queue)
      BY <2>1, <2>3, BufferParts
    <3> QED
      BY <2>1, <2>2, <3>1, <3>2
  <2>4. CASE hand # <<>>
    <3>1. slots + Len(queue) + 2 <= MaxDbSize
      BY <1>1, <2>1, <2>4 DEF SlotsHeld, Bit
    <3> QED
      BY <2>1, <2>2, <3>1
  <2> QED
    BY <2>3, <2>4
<1>3. Cardinality(KeptNow) < MaxDbSize
  <2>1. IsFiniteSet(DataOf(rows)) /\ Cardinality(DataOf(rows)) <= MaxDbSize /\ Cardinality(DataOf(rows)) \in Nat
    BY DataCount, StampsAreUnique DEF TypeOK, FiniteRows, Bounded, RowsBounded
  <2>2. arg \in DataOf(rows)
    BY <1>1 DEF DataOf
  <2>3. Cardinality(DataOf(rows) \ {arg}) = Cardinality(DataOf(rows)) - 1
    BY <2>1, <2>2, FS_RemoveElement
  <2> QED
    BY <1>1, <2>1, <2>3, MaxDbSizeAssumption DEF KeptNow
<1>4. \A r \in Live : r.pid < mem => r.data < arg
  BY <1>1, LivePlaces DEF Consistent, Alike
<1>5. \A e \in KeptNow : e < arg
  <2> SUFFICES ASSUME NEW r \in rows, r.data # arg PROVE r.data < arg
    BY <1>1 DEF KeptNow, DataOf
  <2>1. /\ r \in Live /\ new \in Live /\ r.pid <= mem /\ r.pid \in Int /\ mem \in Int
        /\ new.pid = mem /\ new.data = arg
    BY <1>1, LivePlaces, LiveFields DEF Consistent, TypeOK
  <2>2. r.pid # mem
    BY <2>1 DEF Consistent, Alike
  <2> QED
    BY <1>4, <2>1, <2>2
<1>6. \A i \in DOMAIN BufNow : BufNow[i] < arg
  <2>1. DOMAIN BufNow = 1..Len(BufNow)
    BY BufferParts
  <2>2. hand # <<>> => hand[1] \in Live /\ hand[1].data < arg
    BY <1>1, <1>4, LivePlaces DEF Ordered
  <2>3. \A j \in 1..Len(queue) : queue[j].data < arg
    BY <1>1, <1>4, LivePlaces DEF Ordered
  <2> QED
    BY <2>1, <2>2, <2>3, BufferParts
<1>7. \A d \in seen : d < arg
  BY <1>1 DEF Newest
<1>8. BufNow' = Append(BufNow, arg)
  <2>1. InHand' = InHand
    BY <1>1 DEF InHand
  <2>2. Data(queue)' = Append(Data(queue), arg)
    BY <1>1, DataOfAppend
  <2>3. InHand \in Seq(Stamps) /\ Data(queue) \in Seq(Stamps)
    BY BufferParts
  <2>4. \A s, t \in Seq(Stamps) : s \o Append(t, arg) = Append(s \o t, arg)
    BY <1>1
  <2> QED
    BY <2>1, <2>2, <2>3, <2>4 DEF BufNow
<1>9. KeptNow' = KeptNow \cup {arg}
  BY <1>1 DEF KeptNow, DataOf
<1>10. UNCHANGED <<SavedNow, delivered, seen, restarts>>
  BY <1>1 DEF SavedNow
<1> QED
  BY <1>1, <1>2, <1>3, <1>5, <1>6, <1>7, <1>8, <1>9, <1>10, SameCardinality DEF Channel!Put

\* Emitting gets the oldest event out of the channel.
LEMMA EmitGets ==
    ASSUME TypeOK, HandInUse, Emit
    PROVE  Channel!Get
<1>1. /\ hpc = "emit" /\ hpc' = "record" /\ hand[1] \in Events /\ hand = <<hand[1]>>
      /\ delivered' = Append(delivered, hand[1].data) /\ seen' = seen \cup {hand[1].data}
      /\ UNCHANGED <<rows, undo, queue, cpc, arg, restarts>>
  BY HeldEvent DEF Emit, chainVars, storeVars
<1>2. Data(queue) \in Seq(Stamps) /\ hand[1].data \in Stamps
  BY <1>1, BufferParts, EventFields
<1>3. BufNow = <<hand[1].data>> \o Data(queue)
  BY <1>1, DataOfOne DEF BufNow, InHand
<1>4. BufNow' = Data(queue)
  BY <1>1, <1>2, ConcatEmptySeq DEF BufNow, InHand
<1>5. \A q \in Seq(Stamps), d \in Stamps :
        <<d>> \o q # <<>> /\ Head(<<d>> \o q) = d /\ Tail(<<d>> \o q) = q
  <2> SUFFICES ASSUME NEW q \in Seq(Stamps), NEW d \in Stamps
               PROVE  <<d>> \o q # <<>> /\ Head(<<d>> \o q) = d /\ Tail(<<d>> \o q) = q
    OBVIOUS
  <2> DEFINE one == <<d>>
  <2>1. one \in Seq(Stamps) /\ Len(one) = 1 /\ one[1] = d
    OBVIOUS
  <2> HIDE DEF one
  <2>2. /\ one \o q \in Seq(Stamps) /\ Len(one \o q) = Len(q) + 1 /\ Len(q) \in Nat
        /\ \A i \in 1..(Len(q) + 1) : (one \o q)[i] = IF i <= 1 THEN one[i] ELSE q[i - 1]
    <3>1. /\ one \o q \in Seq(Stamps) /\ Len(one \o q) = Len(one) + Len(q)
          /\ \A i \in 1..(Len(one) + Len(q)) :
                (one \o q)[i] = IF i <= Len(one) THEN one[i] ELSE q[i - Len(one)]
      BY <2>1, ConcatProperties
    <3>2. Len(q) \in Nat /\ Len(one) + Len(q) = Len(q) + 1
      BY <2>1
    <3> QED
      BY <2>1, <3>1, <3>2
  <2>3. one \o q # <<>> /\ Head(one \o q) = d
    BY <2>1, <2>2
  <2>4. /\ Tail(one \o q) \in Seq(Stamps) /\ Len(Tail(one \o q)) = Len(q)
        /\ \A i \in 1..Len(q) : Tail(one \o q)[i] = (one \o q)[i + 1]
    BY <2>2, <2>3
  <2>5. \A i \in 1..Len(q) : Tail(one \o q)[i] = q[i]
    BY <2>2, <2>4
  <2>6. Tail(one \o q) = q
    BY <2>4, <2>5, SeqEqual
  <2> QED
    BY <2>3, <2>6 DEF one
<1>6. UNCHANGED <<KeptNow, SavedNow, restarts>>
  BY <1>1 DEF KeptNow, SavedNow
<1>7. BufNow # <<>> /\ Head(BufNow) = hand[1].data /\ BufNow' = Tail(BufNow)
  BY <1>2, <1>3, <1>4, <1>5
<1> QED
  BY <1>1, <1>6, <1>7 DEF Channel!Get

\* What each open session saved.
LEMMA SavedParts ==
    ASSUME TypeOK
    PROVE  /\ SavedNow \in Seq(SUBSET Stamps) /\ Len(SavedNow) = Len(undo) /\ Len(undo) \in Nat
           /\ \A i \in 1..Len(undo) : SavedNow[i] = DataOf(undo[i].rows)
<1>1. \A i \in 1..Len(undo) : DataOf(undo[i].rows) \in SUBSET Stamps
  BY SnapshotRows, EventFields DEF DataOf
<1>2. Len(undo) \in Nat
  BY DEF TypeOK
<1>3. SavedNow \in [1..Len(undo) -> SUBSET Stamps]
  BY <1>1 DEF SavedNow
<1>4. SavedNow \in Seq(SUBSET Stamps) /\ Len(SavedNow) = Len(undo)
  BY <1>2, <1>3
<1> QED
  BY <1>2, <1>4 DEF SavedNow

\* Pruning forgets the oldest event that is kept, which was delivered.
LEMMA PruneForgets ==
    ASSUME TypeOK, Ordered, Kept, Consistent, PruneRow
    PROVE  \E d \in Stamps : Channel!Forget(d)
<1>1. PICK r \in rows : (\A s \in rows : r.pid <= s.pid) /\ r.pid <= emitted /\ rows' = rows \ {r}
  BY DEF PruneRow, Prunable
<1>2. /\ cpc = "store" /\ cpc' = "store" /\ arg' = arg
      /\ UNCHANGED <<undo, queue, hand, hpc, delivered, seen, restarts>>
  BY DEF PruneRow, handlerVars, chainVars
<1>3. r.data \in Stamps /\ r.data \in seen
  BY <1>1, SeenOrAhead, EventFields DEF TypeOK
<1>4. KeptNow = DataOf(rows) /\ KeptNow' = DataOf(rows')
  BY <1>2 DEF KeptNow
<1>5. \A s \in rows : r.data <= s.data
  <2> SUFFICES ASSUME NEW s \in rows PROVE r.data <= s.data
    OBVIOUS
  <2>1. /\ r \in Live /\ s \in Live /\ r.pid \in Int /\ s.pid \in Int
        /\ r.data \in Nat /\ s.data \in Nat
    BY LivePlaces, LiveFields
  <2>2. s.data < r.data => s.pid < r.pid
    BY <2>1 DEF Consistent, Alike
  <2> QED
    BY <1>1, <2>1, <2>2
<1>6. DataOf(rows') = DataOf(rows) \ {r.data}
  <2>1. \A s \in rows : s.data = r.data => s = r
    BY StampsAreUnique
  <2> QED
    BY <1>1, <2>1 DEF DataOf
<1>7. UNCHANGED <<SavedNow, BufNow>>
  BY <1>2 DEF SavedNow, BufNow, InHand
<1>8. Channel!Forget(r.data)
  BY <1>1, <1>2, <1>3, <1>4, <1>5, <1>6, <1>7 DEF Channel!Forget, DataOf
<1> QED
  BY <1>3, <1>8

\* Sessions of the chain database save, roll back and commit what is kept.
LEMMA SessionSaves ==
    ASSUME TypeOK, StartSession
    PROVE  Channel!Save
<1>1. /\ cpc = "idle" /\ cpc' = "idle"
      /\ UNCHANGED <<rows, queue, hand, hpc, arg, delivered, seen, restarts>>
  BY DEF StartSession, handlerVars, chainVars
<1>2. /\ Len(undo') = Len(undo) + 1 /\ Len(undo) \in Nat
      /\ undo'[Len(undo')].rows = rows
      /\ \A i \in 1..Len(undo) : undo'[i] = undo[i]
  BY DEF TypeOK, StartSession, Snapshot
<1>3. KeptNow = DataOf(rows) /\ KeptNow \in SUBSET Stamps
  BY <1>1, EventFields DEF KeptNow, DataOf, TypeOK
<1>4. UNCHANGED <<KeptNow, BufNow>>
  BY <1>1 DEF KeptNow, BufNow, InHand
<1>5. /\ SavedNow \in Seq(SUBSET Stamps) /\ Len(SavedNow) = Len(undo)
      /\ \A i \in 1..Len(undo) : SavedNow[i] = DataOf(undo[i].rows)
  BY SavedParts
<1>6. \A i \in 1..(Len(undo) + 1) : DataOf(undo'[i].rows) =
        IF i = Len(undo) + 1 THEN KeptNow ELSE SavedNow[i]
  BY <1>2, <1>3, <1>5
<1>7. \A i \in 1..(Len(undo) + 1) : DataOf(undo'[i].rows) \in SUBSET Stamps
  BY <1>2, <1>3, <1>5, <1>6
<1>8. SavedNow' = [i \in 1..(Len(undo) + 1) |-> DataOf(undo'[i].rows)]
  BY <1>2 DEF SavedNow
<1>9. SavedNow' \in Seq(SUBSET Stamps) /\ Len(SavedNow') = Len(undo) + 1
  <2>1. SavedNow' \in [1..(Len(undo) + 1) -> SUBSET Stamps]
    BY <1>7, <1>8
  <2> QED
    BY <1>2, <2>1
<1>10. /\ Append(SavedNow, KeptNow) \in Seq(SUBSET Stamps)
       /\ Len(Append(SavedNow, KeptNow)) = Len(undo) + 1
       /\ \A i \in 1..(Len(undo) + 1) : Append(SavedNow, KeptNow)[i] =
            IF i = Len(undo) + 1 THEN KeptNow ELSE SavedNow[i]
  BY <1>2, <1>3, <1>5
<1>11. \A i \in 1..(Len(undo) + 1) : SavedNow'[i] = Append(SavedNow, KeptNow)[i]
  BY <1>6, <1>8, <1>10
<1>12. SavedNow' = Append(SavedNow, KeptNow)
  BY <1>9, <1>10, <1>11, SeqEqual
<1> QED
  BY <1>1, <1>4, <1>12 DEF Channel!Save

LEMMA SessionRollsBack ==
    ASSUME TypeOK, UndoSession
    PROVE  Channel!RollBack
<1>1. /\ cpc = "idle" /\ cpc' = "idle"
      /\ UNCHANGED <<queue, hand, hpc, arg, delivered, seen, restarts>>
  BY DEF UndoSession, handlerVars, chainVars
<1>2. /\ Len(undo) \in Nat \ {0} /\ Len(undo') = Len(undo) - 1
      /\ rows' = undo[Len(undo)].rows /\ Len(undo) \in 1..Len(undo)
      /\ \A i \in 1..Len(undo') : undo'[i] = undo[i] /\ i \in 1..Len(undo)
  BY UndoPops
<1>3. /\ SavedNow \in Seq(SUBSET Stamps) /\ Len(SavedNow) = Len(undo)
      /\ \A i \in 1..Len(undo) : SavedNow[i] = DataOf(undo[i].rows)
  BY SavedParts
<1>4. SavedNow # <<>> /\ KeptNow' = SavedNow[Len(SavedNow)] /\ UNCHANGED BufNow
  BY <1>1, <1>2, <1>3, EmptyIsSeq DEF KeptNow, BufNow, InHand
<1> DEFINE n == Len(undo) - 1
           popped == SubSeq(SavedNow, 1, n)
<1>5. n \in Nat /\ \A i \in 1..n : i \in 1..Len(undo)
  BY <1>2
<1>6. SavedNow' = [i \in 1..n |-> SavedNow[i]]
  BY <1>2, <1>3, <1>5 DEF SavedNow
<1>7. popped = [i \in 1..n |-> SavedNow[i]]
  <2> HIDE DEF n
  <2>1. \A i \in 1..n : SavedNow[i] \in SUBSET Stamps
    BY <1>3, <1>5
  <2>2. n - 1 + 1 = n /\ \A i \in 1..n : 1 + i - 1 = i
    BY <1>5
  <2>3. /\ popped \in Seq(SUBSET Stamps)
        /\ Len(popped) = IF 1 <= n THEN n - 1 + 1 ELSE 0
        /\ \A i \in 1..(n - 1 + 1) : popped[i] = SavedNow[1 + i - 1]
    BY <1>5, <2>1, SubSeqProperties
  <2>4. Len(popped) = n
    BY <1>5, <2>2, <2>3
  <2>5. DOMAIN popped = 1..n /\ popped = [i \in DOMAIN popped |-> popped[i]]
    BY <2>3, <2>4
  <2>6. \A i \in 1..n : popped[i] = SavedNow[i]
    BY <2>2, <2>3
  <2> HIDE DEF popped
  <2> QED
    BY <2>5, <2>6
<1>8. SavedNow' = SubSeq(SavedNow, 1, Len(SavedNow) - 1)
  BY <1>3, <1>6, <1>7
<1> QED
  BY <1>1, <1>4, <1>8 DEF Channel!RollBack

LEMMA SessionCommits ==
    ASSUME TypeOK, CommitSession
    PROVE  Channel!Commit
<1>1. /\ cpc = "idle" /\ cpc' = "idle"
      /\ UNCHANGED <<rows, queue, hand, hpc, arg, delivered, seen, restarts>>
  BY DEF CommitSession, handlerVars, chainVars
<1>2. /\ Len(undo) \in Nat \ {0} /\ Len(undo') = Len(undo) - 1
      /\ \A i \in 1..Len(undo') : undo'[i] = undo[i + 1] /\ i + 1 \in 1..Len(undo)
  BY DEF TypeOK, CommitSession
<1>3. /\ SavedNow \in Seq(SUBSET Stamps) /\ Len(SavedNow) = Len(undo)
      /\ \A i \in 1..Len(undo) : SavedNow[i] = DataOf(undo[i].rows)
  BY SavedParts
<1>4. UNCHANGED <<KeptNow, BufNow>> /\ SavedNow # <<>>
  BY <1>1, <1>2, <1>3, EmptyIsSeq DEF KeptNow, BufNow, InHand
<1>5. SavedNow' = [i \in 1..(Len(undo) - 1) |-> SavedNow[i + 1]]
  BY <1>2, <1>3 DEF SavedNow
<1>6. /\ Tail(SavedNow) \in Seq(SUBSET Stamps) /\ Len(Tail(SavedNow)) = Len(undo) - 1
      /\ \A i \in 1..(Len(undo) - 1) : Tail(SavedNow)[i] = SavedNow[i + 1]
  BY <1>2, <1>3, <1>4
<1>7. Tail(SavedNow) = [i \in 1..(Len(undo) - 1) |-> SavedNow[i + 1]]
  <2> DEFINE rest == Tail(SavedNow)
  <2> HIDE DEF rest
  <2>1. rest \in Seq(SUBSET Stamps) /\ Len(rest) = Len(undo) - 1
    BY <1>6 DEF rest
  <2>2. rest = [i \in 1..Len(rest) |-> rest[i]]
    BY <2>1
  <2>3. \A i \in 1..(Len(undo) - 1) : rest[i] = SavedNow[i + 1]
    BY <1>6 DEF rest
  <2>4. rest = [i \in 1..(Len(undo) - 1) |-> SavedNow[i + 1]]
    BY <2>1, <2>2, <2>3
  <2> QED
    BY <2>4 DEF rest
<1> QED
  BY <1>1, <1>4, <1>5, <1>7 DEF Channel!Commit

\* A new process reads the rows in the order of the events.
LEMMA RestartReopens ==
    ASSUME TypeOK, FiniteRows, Consistent, Bounded, Restart
    PROVE  Channel!Reopen
<1>1. /\ rows \in SUBSET Events /\ IsFiniteSet(rows) /\ queue' \in InPidOrder(rows)
      /\ hand' = <<>> /\ hpc' = "check" /\ cpc = "stopped" /\ cpc' = "idle"
      /\ delivered' = <<>> /\ restarts' = restarts + 1 /\ UNCHANGED <<rows, undo, seen>>
  BY DEF Restart, Initialize, TypeOK, FiniteRows, storeVars
<1>2. /\ queue' \in Seq(Events) /\ Len(queue') = Cardinality(rows) /\ Cardinality(rows) \in Nat
      /\ \A i \in 1..Len(queue') : queue'[i] \in rows
      /\ \A i, j \in 1..Len(queue') : i < j => queue'[i].pid < queue'[j].pid
  BY <1>1, InPidOrderSeq
<1>3. KeptNow = DataOf(rows) /\ KeptNow' = DataOf(rows) /\ SavedNow' = SavedNow
  BY <1>1 DEF KeptNow, SavedNow
<1>4. Cardinality(KeptNow) = Cardinality(rows) /\ Cardinality(rows) <= MaxDbSize
  BY <1>1, <1>3, DataCount, StampsAreUnique DEF Bounded, RowsBounded
<1>5. Data(queue') \in Seq(Stamps) /\ Len(Data(queue')) = Len(queue')
  BY <1>2, DataSeq
<1>6. BufNow' = Data(queue')
  <2>1. InHand' = <<>>
    BY <1>1, DataOfNone DEF InHand
  <2> QED
    BY <1>5, <2>1, ConcatEmptySeq DEF BufNow
<1>7. Data(queue') = [i \in 1..Cardinality(KeptNow) |-> queue'[i].data]
  BY <1>2, <1>4 DEF Data
<1>8. \A i \in 1..Cardinality(KeptNow) : queue'[i].data \in KeptNow
  BY <1>2, <1>3, <1>4 DEF DataOf
<1>9. ASSUME NEW i \in 1..Cardinality(KeptNow), NEW j \in 1..Cardinality(KeptNow), i < j
      PROVE  queue'[i].data < queue'[j].data
  <2>1. queue'[i] \in Live /\ queue'[j] \in Live /\ queue'[i].pid < queue'[j].pid
    BY <1>2, <1>4, <1>9, LivePlaces
  <2> QED
    BY <2>1 DEF Consistent, Alike
<1>10. BufNow' \in Channel!Listings(KeptNow)
  <2> DEFINE f == [i \in 1..Cardinality(KeptNow) |-> queue'[i].data]
  <2>1. f \in [1..Cardinality(KeptNow) -> KeptNow] /\ DOMAIN f = 1..Cardinality(KeptNow)
    BY <1>8
  <2>2. \A i, j \in DOMAIN f : i < j => f[i] < f[j]
    BY <1>9
  <2> HIDE DEF f
  <2>3. f \in Channel!Listings(KeptNow)
    BY <2>1, <2>2, SameCardinality DEF Channel!Listings
  <2> QED
    BY <1>6, <1>7, <2>3 DEF f
<1> QED
  BY <1>1, <1>3, <1>4, <1>10, SameCardinality DEF Channel!Reopen

\* The other steps are not steps of the channel: an event that is being stashed,
\* popped or recorded is where it was.
LEMMA OthersStutter ==
    ASSUME TypeOK, HandInUse, Newest, [Next]_vars,
           ~Enqueue, ~Emit, ~PruneRow, ~StartSession, ~UndoSession, ~CommitSession, ~Restart
    PROVE  UNCHANGED Channel!cvars
<1> SUFFICES UNCHANGED <<KeptNow, SavedNow, BufNow, delivered, seen, restarts>>
  BY DEF Channel!cvars
<1>1. CASE UNCHANGED <<rows, undo, queue, hand, hpc, cpc, arg, delivered, seen, restarts>>
  BY <1>1 DEF KeptNow, SavedNow, BufNow, InHand
<1>2. CASE /\ UNCHANGED <<rows, undo, queue, hand, hpc, delivered, seen, restarts>>
           /\ cpc # "enqueue" /\ cpc' # "enqueue"
  BY <1>2 DEF KeptNow, SavedNow, BufNow, InHand
<1>3. CASE CreateRow
  <2>1. /\ cpc = "store" /\ cpc' = "enqueue" /\ arg' = arg
        /\ rows' = rows \cup {[pid |-> mem', data |-> arg]}
        /\ UNCHANGED <<undo, queue, hand, hpc, delivered, seen, restarts>>
    BY <1>3 DEF CreateRow, handlerVars
  <2>2. \A r \in rows : r.data # arg
    <3>1. \A r \in rows : r \in Live /\ r.data \in Nat /\ r.data < arg
      BY <2>1, LivePlaces, LiveFields DEF Newest
    <3>2. arg \in Nat
      BY BoundsAssumption DEF TypeOK
    <3> QED
      BY <3>1, <3>2
  <2>3. DataOf(rows') = DataOf(rows) \cup {arg}
    <3> DEFINE new == [pid |-> mem', data |-> arg]
    <3>1. new.data = arg /\ rows' = rows \cup {new}
      BY <2>1
    <3> HIDE DEF new
    <3> QED
      BY <3>1 DEF DataOf
  <2>4. KeptNow' = KeptNow
    BY <2>1, <2>2, <2>3 DEF KeptNow, DataOf
  <2> QED
    BY <2>1, <2>4 DEF SavedNow, BufNow, InHand
<1>4. CASE Pop
  <2>1. /\ queue \in Seq(Events) /\ queue # <<>> /\ queue' = Tail(queue)
        /\ hand = <<>> /\ hand' = <<Head(queue)>> /\ hpc = "pop" /\ hpc' = "emit"
        /\ UNCHANGED <<rows, undo, cpc, arg, delivered, seen, restarts>>
    BY <1>4 DEF TypeOK, HandInUse, Pop, chainVars, storeVars
  <2>2. InHand = <<>> /\ InHand' = Data(<<Head(queue)>>)
    BY <2>1, DataOfNone DEF InHand
  <2>3. BufNow = Data(queue)
    BY <2>1, <2>2, DataSeq, ConcatEmptySeq DEF BufNow
  <2>4. BufNow' = Data(<<Head(queue)>>) \o Data(Tail(queue))
    BY <2>1, <2>2 DEF BufNow
  <2> QED
    BY <2>1, <2>3, <2>4, DataOfHead DEF KeptNow, SavedNow
<1>5. CASE Record
  <2>1. /\ hpc = "record" /\ hpc' = "release" /\ hand' = <<>>
        /\ UNCHANGED <<rows, undo, queue, cpc, arg, delivered, seen, restarts>>
    BY <1>5 DEF Record, chainVars, storeVars
  <2>2. InHand = <<>> /\ InHand' = <<>>
    BY <2>1, DataOfNone DEF InHand
  <2> QED
    BY <2>1, <2>2 DEF KeptNow, SavedNow, BufNow
<1>6. CASE Leave \/ Block \/ TakeToken \/ EmitFails \/ ReleaseSlot
  <2>1. /\ hpc # "record" /\ hpc' # "record"
        /\ UNCHANGED <<rows, undo, queue, hand, cpc, arg, delivered, seen, restarts>>
    BY <1>6 DEF Leave, Block, TakeToken, EmitFails, ReleaseSlot, chainVars, storeVars
  <2> QED
    BY <2>1 DEF KeptNow, SavedNow, BufNow, InHand
<1>7. CASE Offer \/ PackFails \/ WaitSlot \/ CreateFails \/ PostEvent \/ Shutdown
  BY <1>2, <1>7 DEF Offer, PackFails, WaitSlot, CreateFails, PostEvent, Shutdown,
    storeVars, handlerVars, chainVars, KeptNow, SavedNow, BufNow, InHand
<1>8. CASE Quit \/ UNCHANGED vars
  BY <1>1, <1>8 DEF Quit, vars, storeVars, handlerVars, chainVars
<1> QED
  BY <1>3, <1>4, <1>5, <1>6, <1>7, <1>8 DEF Next, Stash, Handle

\* While the database does not fail, every step of the plugin is a step of the
\* bounded channel or leaves it alone: events reach the listeners once in a
\* process and in the order of the chain's signals, and a new process goes on
\* with those the chain state still has.
THEOREM PluginIsChannel ==
    ASSUME ~DbCanFail
    PROVE  Spec => ImplementsChannel
<1>1. Init => Channel!CInit
  <2> SUFFICES ASSUME Init PROVE Channel!CInit
    OBVIOUS
  <2>1. Len(undo) = 0 /\ Len(queue) = 0 /\ queue = <<>> /\ hand = <<>>
    BY EmptyIsSeq DEF Init
  <2>2. KeptNow = {}
    BY DEF Init, KeptNow, DataOf
  <2>3. BufNow = <<>>
    <3>1. InHand = <<>> /\ Data(queue) = <<>>
      BY <2>1, DataOfNone DEF InHand
    <3>2. <<>> \o <<>> = <<>>
      BY EmptyIsSeq, ConcatEmptySeq
    <3> QED
      BY <3>1, <3>2 DEF BufNow
  <2>4. SavedNow = <<>>
    <3>1. SavedNow \in [1..0 -> {}]
      BY <2>1 DEF SavedNow
    <3>2. SavedNow \in Seq({}) /\ Len(SavedNow) = 0
      BY <3>1
    <3> QED
      BY <3>2
  <2> QED
    BY <2>2, <2>3, <2>4 DEF Init, Channel!CInit
<1>2. TypeOK /\ FiniteRows /\ HandInUse /\ Ordered /\ Kept /\ Consistent /\ Newest /\ SlotsHeld
        /\ Bounded /\ [Next]_vars => [Channel!CNext]_(Channel!cvars)
  <2> SUFFICES ASSUME TypeOK, FiniteRows, HandInUse, Ordered, Kept, Consistent, Newest,
                      SlotsHeld, Bounded, [Next]_vars
               PROVE  Channel!CNext \/ UNCHANGED Channel!cvars
    OBVIOUS
  <2>1. CASE Enqueue
    BY <2>1, EnqueuePuts DEF Channel!CNext
  <2>2. CASE Emit
    BY <2>2, EmitGets DEF Channel!CNext
  <2>3. CASE PruneRow
    BY <2>3, PruneForgets DEF Channel!CNext
  <2>4. CASE StartSession
    BY <2>4, SessionSaves DEF Channel!CNext
  <2>5. CASE UndoSession
    BY <2>5, SessionRollsBack DEF Channel!CNext
  <2>6. CASE CommitSession
    BY <2>6, SessionCommits DEF Channel!CNext
  <2>7. CASE Restart
    BY <2>7, RestartReopens DEF Channel!CNext
  <2> QED
    BY <2>1, <2>2, <2>3, <2>4, <2>5, <2>6, <2>7, OthersStutter
<1> QED
  BY <1>1, <1>2, TypeCorrect, HandHeld, OrderKept, NothingForgotten, IdentifiersFollowEvents,
     PlacesAndRows, PTL DEF Spec, ImplementsChannel, Channel!CSpec
=============================================================================
