------------------------- MODULE EventStreamProofs -------------------------
(* Theorems about what the listeners of the emitter plugin are told         *)
(* (EventStream), for every chain, every capacity and every number of       *)
(* forks, transactions and restarts.                                        *)
EXTENDS EventStream, TLAPS, FiniteSetTheorems, SequenceTheorems

Events == [type : {"block", "irreversible", "transaction"}, num : Nat, fork : Nat]

Types ==
    /\ blocks \in Seq(Nat) /\ pending \in BOOLEAN /\ ready \in BOOLEAN
    /\ lib \in Nat /\ oldest \in Nat /\ lastIrr \in Nat /\ origin \in Nat /\ since \in Nat
    /\ todo \in Seq(Events) /\ log \in Seq(Events) /\ first \in 0..Len(log)
    /\ forks \in Nat

\* The chain ends at its head, is irreversible up to lib, and was there up to
\* origin before the first event.
Numbers ==
    /\ 1 <= oldest /\ oldest <= lib /\ 1 <= origin /\ origin <= lib
    /\ lastIrr <= lib /\ lib <= head

----------------------------------------------------------------------------
\* The irreversible blocks of a signal: those after the last one emitted that
\* the block log has, one after the other.
LEMMA IrreversiblesAre ==
    ASSUME Types, Numbers, NEW b \in Seq(Nat), lib <= Len(b)
    PROVE  \E k \in Nat : /\ lastIrr <= k
                          /\ \A n \in Int : n > lastIrr /\ Fetchable(n) <=> n > k
                          /\ IrreversiblesOf(b) \in Seq(Events)
                          /\ Len(IrreversiblesOf(b)) = IF lib > k THEN lib - k ELSE 0
                          /\ \A i \in 1..Len(IrreversiblesOf(b)) :
                                IrreversiblesOf(b)[i] = IrreversibleOf(b, k + i)
<1>1. PICK k : k = Unfetchable(lastIrr)
  OBVIOUS
<1>2. lib \in Nat /\ oldest \in Nat /\ lastIrr \in Nat /\ 1 <= oldest /\ Len(b) \in Nat
  BY LenProperties DEF Types, Numbers
<1>3. k \in Nat /\ lastIrr <= k /\ \A n \in Int : n > lastIrr /\ Fetchable(n) <=> n > k
  BY <1>1, <1>2 DEF Unfetchable, Fetchable
<1>4. PICK m \in Nat : m = (IF lib > k THEN lib - k ELSE 0)
  <2>1. (IF lib > k THEN lib - k ELSE 0) \in Nat
    BY <1>2, <1>3
  <2> QED
    BY <2>1
<1>5. IrreversiblesOf(b) = [i \in 1..m |-> IrreversibleOf(b, k + i)]
  <2>1. NewlyIrreversible = [i \in 1..m |-> k + i]
    BY <1>1, <1>4 DEF NewlyIrreversible, After
  <2> QED
    BY <2>1 DEF IrreversiblesOf
<1>6. \A i \in 1..m : IrreversibleOf(b, k + i) \in Events
  <2> SUFFICES ASSUME NEW i \in 1..m PROVE IrreversibleOf(b, k + i) \in Events
    OBVIOUS
  <2>1. k + i \in 1..Len(b)
    BY <1>2, <1>3, <1>4
  <2>2. b[k + i] \in Nat /\ k + i \in Nat
    BY <1>2, <2>1
  <2> QED
    BY <2>2 DEF IrreversibleOf, Events
<1>7. IrreversiblesOf(b) \in Seq(Events) /\ Len(IrreversiblesOf(b)) = m
  BY <1>4, <1>5, <1>6
<1> QED
  BY <1>3, <1>4, <1>5, <1>7

\* The events of the signal of block Len(b): at most one block before it, the
\* block, and the irreversible blocks.
LEMMA EventsAre ==
    ASSUME Types, Numbers, NEW b \in Seq(Nat), lib <= Len(b), 1 <= Len(b)
    PROVE  \E k \in Nat, m \in 1..2 :
             /\ lastIrr <= k
             /\ \A n \in Int : n > lastIrr /\ Fetchable(n) <=> n > k
             /\ m = IF Len(b) = 2 THEN 2 ELSE 1
             /\ EventsOf(b) \in Seq(Events)
             /\ Len(EventsOf(b)) = m + (IF lib > k THEN lib - k ELSE 0)
             /\ EventsOf(b)[m] = BlockOf(b, Len(b))
             /\ m = 2 => EventsOf(b)[1] = BlockOf(b, 1)
             /\ \A i \in (m + 1)..Len(EventsOf(b)) : EventsOf(b)[i] = IrreversibleOf(b, k + i - m)
<1>1. PICK k \in Nat : /\ lastIrr <= k
                       /\ \A n \in Int : n > lastIrr /\ Fetchable(n) <=> n > k
                       /\ IrreversiblesOf(b) \in Seq(Events)
                       /\ Len(IrreversiblesOf(b)) = IF lib > k THEN lib - k ELSE 0
                       /\ \A i \in 1..Len(IrreversiblesOf(b)) :
                             IrreversiblesOf(b)[i] = IrreversibleOf(b, k + i)
  BY IrreversiblesAre
<1>2. Len(b) \in Nat /\ Len(b) \in 1..Len(b) /\ 1 \in 1..Len(b)
  BY LenProperties
<1>3. BlockOf(b, Len(b)) \in Events /\ BlockOf(b, 1) \in Events
  BY <1>2 DEF BlockOf, Events
<1>4. PICK m \in 1..2 : m = IF Len(b) = 2 THEN 2 ELSE 1
  OBVIOUS
<1>5. /\ BlocksOf(b) \in Seq(Events) /\ Len(BlocksOf(b)) = m
      /\ BlocksOf(b)[m] = BlockOf(b, Len(b))
      /\ m = 2 => BlocksOf(b)[1] = BlockOf(b, 1)
  <2>1. CASE Len(b) = 2
    BY <1>3, <1>4, <2>1 DEF BlocksOf
  <2>2. CASE Len(b) # 2
    BY <1>3, <1>4, <2>2 DEF BlocksOf
  <2> QED
    BY <2>1, <2>2
<1> DEFINE B == BlocksOf(b)
           I == IrreversiblesOf(b)
<1>6. /\ EventsOf(b) = B \o I
      /\ I \in Seq(Events) /\ B \in Seq(Events) /\ Len(B) = m /\ Len(I) \in Nat /\ m \in Nat
  BY <1>1, <1>5, LenProperties DEF EventsOf
<1>7. \A i \in 1..Len(I) : I[i] = IrreversibleOf(b, k + i)
  BY <1>1
<1>8. Len(I) = IF lib > k THEN lib - k ELSE 0
  BY <1>1
<1>9. /\ B[m] = BlockOf(b, Len(b))
      /\ m = 2 => B[1] = BlockOf(b, 1)
  BY <1>5
<1> HIDE DEF B, I
<1>10. EventsOf(b) \in Seq(Events) /\ Len(EventsOf(b)) = m + Len(I)
  BY <1>6
<1>11. \A i \in 1..m : EventsOf(b)[i] = B[i]
  BY <1>6
<1>12. \A i \in (m + 1)..(m + Len(I)) : EventsOf(b)[i] = I[i - m] /\ i - m \in 1..Len(I)
  BY <1>6
<1>13. \A i \in (m + 1)..(m + Len(I)) : EventsOf(b)[i] = IrreversibleOf(b, k + i - m)
  <2> SUFFICES ASSUME NEW i \in (m + 1)..(m + Len(I))
               PROVE  EventsOf(b)[i] = IrreversibleOf(b, k + i - m)
    OBVIOUS
  <2>1. EventsOf(b)[i] = IrreversibleOf(b, k + (i - m))
    BY <1>7, <1>12
  <2>2. k + (i - m) = k + i - m
    BY <1>6
  <2> QED
    BY <2>1, <2>2
<1>14. Len(EventsOf(b)) = m + (IF lib > k THEN lib - k ELSE 0)
  BY <1>8, <1>10
<1>15. EventsOf(b)[m] = BlockOf(b, Len(b)) /\ (m = 2 => EventsOf(b)[1] = BlockOf(b, 1))
  BY <1>6, <1>9, <1>11
<1>16. \A i \in (m + 1)..Len(EventsOf(b)) : EventsOf(b)[i] = IrreversibleOf(b, k + i - m)
  BY <1>10, <1>13
<1> QED
  <2> WITNESS k \in Nat, m \in 1..2
  <2> QED
    BY <1>1, <1>4, <1>10, <1>14, <1>15, <1>16

\* What the chain and the plugin's counters may be.
THEOREM ChainHolds == Spec => [](Types /\ Numbers)
<1>1. Init => Types /\ Numbers
  <2> SUFFICES ASSUME Init PROVE Types /\ Numbers
    OBVIOUS
  <2>1. /\ blocks = <<0>> /\ pending = FALSE /\ lib = 1 /\ oldest = 1 /\ lastIrr = 0
        /\ ready = FALSE /\ todo = <<>> /\ log = <<>> /\ first = 0 /\ origin = 1 /\ since = 0
        /\ forks = 0
    BY DEF Init, BlockInit
  <2>2. blocks \in Seq(Nat) /\ head = 1 /\ todo \in Seq(Events) /\ log \in Seq(Events) /\ Len(log) = 0
    BY <2>1 DEF head
  <2>3. pending \in BOOLEAN /\ ready \in BOOLEAN
    BY <2>1
  <2> QED
    BY <2>1, <2>2, <2>3 DEF Types, Numbers
<1>2. Types /\ Numbers /\ [Next]_vars => Types' /\ Numbers'
  <2> SUFFICES ASSUME Types, Numbers, [Next]_vars
               PROVE  Types' /\ Numbers'
    OBVIOUS
  <2> USE DEF Types, Numbers, head
  <2>1. CASE AcceptBlock
    <3> DEFINE b == Append(blocks, forks)
    <3>1. /\ blocks' = b /\ todo' = EventsOf(b) /\ pending' = FALSE
          /\ lastIrr' = (IF lib > lastIrr THEN lib ELSE lastIrr)
          /\ UNCHANGED <<lib, oldest, ready, log, first, origin, since, forks>>
      BY <2>1 DEF AcceptBlock, OnAcceptedBlock, past, counts
    <3>2. b \in Seq(Nat) /\ Len(b) = head + 1 /\ head \in Nat
      OBVIOUS
    <3> HIDE DEF b
    <3>3. EventsOf(b) \in Seq(Events)
      <4>1. lib <= Len(b) /\ 1 <= Len(b)
        BY <3>2
      <4> HIDE DEF Types, Numbers
      <4> QED
        BY <3>2, <4>1, EventsAre
    <3>4. pending' \in BOOLEAN
      BY <3>1
    <3>5. lastIrr' \in Nat /\ lastIrr' <= lib
      BY <3>1
    <3>6. Types'
      BY <3>1, <3>2, <3>3, <3>4, <3>5
    <3> QED
      BY <3>1, <3>2, <3>5, <3>6
  <2>2. CASE Startup
    BY <2>2 DEF Startup, PluginStartup, chain, counts
  <2>3. ASSUME NEW trace \in Traces, OnAppliedTransaction(trace)
        PROVE  Types' /\ Numbers'
    <3>1. Transaction \in Events
      BY DEF Transaction, Events
    <3>2. todo' \in Seq(Events)
      BY <2>3, <3>1 DEF OnAppliedTransaction
    <3> QED
      BY <2>3, <3>2 DEF OnAppliedTransaction, chain, past
  <2>4. CASE Applied
    <3>1. Head(todo) \in Events /\ Tail(todo) \in Seq(Events)
      BY <2>4 DEF Applied
    <3>2. log' \in Seq(Events) /\ Len(log') = Len(log) + 1 /\ todo' \in Seq(Events)
      BY <2>4, <3>1 DEF Applied
    <3> QED
      BY <2>4, <3>2 DEF Applied, chain, counts
  <2>5. CASE UNCHANGED blockVars
    BY <2>5 DEF blockVars, chain, past, counts
  <2>6. CASE StartBlock \/ AbortBlock
    BY <2>6 DEF StartBlock, AbortBlock, past, counts
  <2>7. CASE PopBlock
    <3>1. blocks' \in Seq(Nat) /\ Len(blocks') = head - 1
      BY <2>7 DEF PopBlock
    <3>2. /\ lib < head /\ forks' = forks + 1
          /\ UNCHANGED <<pending, lib, oldest, lastIrr, ready, todo, log, first, origin, since>>
      BY <2>7 DEF PopBlock, past
    <3> QED
      BY <3>1, <3>2
  <2>8. CASE AdvanceLib
    BY <2>8 DEF AdvanceLib, past, counts
  <2>9. CASE Restart
    <3>1. /\ lastIrr' = 0 /\ since' = 0 /\ ready' = FALSE /\ first' = Len(log)
          /\ UNCHANGED <<blocks, lib, oldest, origin, pending, todo, log, forks>>
      BY <2>9 DEF Restart, NewProcess
    <3>2. ready' \in BOOLEAN
      BY <3>1
    <3>3. first' \in 0..Len(log')
      <4>1. Len(log) \in Nat
        OBVIOUS
      <4> QED
        BY <3>1, <4>1
    <3> QED
      BY <3>1, <3>2, <3>3
  <2>10. CASE RestartAnew
    <3>1. /\ lastIrr' = 0 /\ since' = 0 /\ ready' = FALSE /\ first' = Len(log) /\ origin' = Len(blocks')
          /\ UNCHANGED <<pending, todo, log, forks>>
          /\ \/ blocks' = SubSeq(blocks, 1, 1) /\ lib' = 1 /\ oldest' = 1
             \/ blocks' = blocks /\ lib' = head /\ oldest' = head
      BY <2>10 DEF RestartAnew, NewProcess
    <3>2. SubSeq(blocks, 1, 1) \in Seq(Nat) /\ Len(SubSeq(blocks, 1, 1)) = 1
      OBVIOUS
    <3>3. /\ blocks' \in Seq(Nat) /\ Len(blocks') \in Nat /\ 1 <= Len(blocks')
          /\ lib' = Len(blocks') /\ oldest' = Len(blocks')
      <4>1. CASE blocks' = SubSeq(blocks, 1, 1) /\ lib' = 1 /\ oldest' = 1
        BY <3>2, <4>1
      <4>2. CASE blocks' = blocks /\ lib' = head /\ oldest' = head
        BY <4>2
      <4> QED
        BY <3>1, <4>1, <4>2
    <3>4. ready' \in BOOLEAN /\ first' \in 0..Len(log')
      <4>1. Len(log) \in Nat /\ first' = Len(log) /\ log' = log /\ ready' = FALSE
        BY <3>1
      <4>2. ready' \in BOOLEAN
        BY <4>1
      <4>3. first' \in 0..Len(log')
        BY <4>1
      <4> QED
        BY <4>2, <4>3
    <3>5. Types'
      BY <3>1, <3>3, <3>4
    <3> QED
      BY <3>1, <3>3, <3>5
  <2> QED
    BY <2>1, <2>2, <2>3, <2>4, <2>5, <2>6, <2>7, <2>8, <2>9, <2>10
    DEF Next, Quiet, Stash, Prune, Tell, Begin, TakeBack, MakeFinal, Resume, Anew, vars
<1> QED
  BY <1>1, <1>2, PTL DEF Spec

----------------------------------------------------------------------------
(* The order of the irreversible blocks.                                    *)

Irr(e) == e.type = "irreversible"

\* What is stashed and what the signal at hand will still stash are in order,
\* and s_last_irreversible_block is not behind them.
InOrder ==
    /\ IrreversibleInOrder
    /\ \A i, j \in 1..Len(todo) : i < j /\ Irr(todo[i]) /\ Irr(todo[j]) => todo[i].num < todo[j].num
    /\ \A i \in (first + 1)..Len(log) : Irr(log[i]) =>
         /\ log[i].num <= lastIrr
         /\ \A j \in 1..Len(todo) : Irr(todo[j]) => log[i].num < todo[j].num
    /\ \A j \in 1..Len(todo) : Irr(todo[j]) => todo[j].num <= lastIrr

\* The first event of the signal at hand moves to the end of the log.
LEMMA AppliedMoves ==
    ASSUME Types, Applied
    PROVE  /\ todo # <<>> /\ Len(todo) \in Nat /\ Len(todo) > 0 /\ Len(log) \in Nat
           /\ Len(log') = Len(log) + 1 /\ Len(todo') = Len(todo) - 1
           /\ \A i \in 1..Len(log) : log'[i] = log[i]
           /\ log'[Len(log) + 1] = todo[1]
           /\ \A j \in 1..(Len(todo) - 1) : todo'[j] = todo[j + 1]
           /\ todo[1] \in Events
BY DEF Types, Applied

\* The events of the signal of a block that is accepted.
LEMMA AcceptMakes ==
    ASSUME Types, Numbers, AcceptBlock
    PROVE  \E k \in Nat, m \in 1..2 :
             /\ lastIrr <= k /\ lastIrr' = (IF lib > lastIrr THEN lib ELSE lastIrr)
             /\ \A n \in Int : n > lastIrr /\ Fetchable(n) <=> n > k
             /\ m = IF head' = 2 THEN 2 ELSE 1
             /\ head \in Nat /\ head' = head + 1
             /\ \A n \in 1..head : blocks'[n] = blocks[n]
             /\ todo' \in Seq(Events)
             /\ Len(todo') = m + (IF lib > k THEN lib - k ELSE 0)
             /\ todo'[m] = Block(head)'
             /\ m = 2 => todo'[1] = Block(1)'
             /\ \A i \in (m + 1)..Len(todo') : todo'[i] = Irreversible(k + i - m)' /\ k + i - m \in (k + 1)..lib
<1>1. /\ blocks' = Append(blocks, forks) /\ todo' = EventsOf(blocks')
      /\ lastIrr' = (IF lib > lastIrr THEN lib ELSE lastIrr)
  BY DEF AcceptBlock, OnAcceptedBlock
<1>2. /\ blocks' \in Seq(Nat) /\ Len(blocks') = Len(blocks) + 1 /\ Len(blocks) \in Nat
      /\ \A n \in 1..Len(blocks) : blocks'[n] = blocks[n]
  BY <1>1 DEF Types
<1>3. lib <= Len(blocks') /\ 1 <= Len(blocks') /\ lib \in Nat
  BY <1>2 DEF Types, Numbers, head
<1>4. PICK k \in Nat, m \in 1..2 :
             /\ lastIrr <= k
             /\ \A n \in Int : n > lastIrr /\ Fetchable(n) <=> n > k
             /\ m = IF Len(blocks') = 2 THEN 2 ELSE 1
             /\ EventsOf(blocks') \in Seq(Events)
             /\ Len(EventsOf(blocks')) = m + (IF lib > k THEN lib - k ELSE 0)
             /\ EventsOf(blocks')[m] = BlockOf(blocks', Len(blocks'))
             /\ m = 2 => EventsOf(blocks')[1] = BlockOf(blocks', 1)
             /\ \A i \in (m + 1)..Len(EventsOf(blocks')) :
                   EventsOf(blocks')[i] = IrreversibleOf(blocks', k + i - m)
  BY <1>2, <1>3, EventsAre
<1>5. \A i \in (m + 1)..Len(todo') : k + i - m \in (k + 1)..lib
  BY <1>1, <1>3, <1>4
<1>6. \A i \in (m + 1)..Len(todo') : todo'[i] = Irreversible(k + i - m)'
  BY <1>1, <1>4 DEF Irreversible
<1>7. todo'[m] = Block(head)' /\ (m = 2 => todo'[1] = Block(1)')
  BY <1>1, <1>4 DEF Block, head
<1> QED
  <2> WITNESS k \in Nat, m \in 1..2
  <2> QED
    BY <1>1, <1>2, <1>4, <1>5, <1>6, <1>7 DEF head

\* The irreversible blocks of a process are stashed in the order of the chain.
THEOREM IrreversibleBlocksInOrder == Spec => []IrreversibleInOrder
<1>1. Init => InOrder
  <2> SUFFICES ASSUME Init PROVE InOrder
    OBVIOUS
  <2>1. Len(todo) = 0 /\ Len(log) = 0 /\ first = 0
    BY DEF Init, BlockInit
  <2> QED
    BY <2>1 DEF InOrder, IrreversibleInOrder
<1>2. Types /\ Numbers /\ InOrder /\ [Next]_vars => InOrder'
  <2> SUFFICES ASSUME Types, Numbers, InOrder, [Next]_vars
               PROVE  InOrder'
    OBVIOUS
  <2>0. /\ Len(log) \in Nat /\ first \in Nat /\ lib \in Nat /\ lastIrr \in Nat /\ lastIrr <= lib
        /\ \A i \in 1..Len(log) : log[i] \in Events /\ log[i].num \in Nat
    <3>1. \A e \in Events : e.num \in Nat
      BY DEF Events
    <3>2. log \in Seq(Events) /\ first \in 0..Len(log) /\ lib \in Nat /\ lastIrr \in Nat /\ lastIrr <= lib
      BY DEF Types, Numbers
    <3>3. Len(log) \in Nat /\ \A i \in 1..Len(log) : log[i] \in Events
      BY <3>2
    <3> QED
      BY <3>1, <3>2, <3>3
  <2>1. CASE AcceptBlock
    <3>1. PICK k \in Nat, m \in 1..2 :
             /\ lastIrr <= k /\ lastIrr' = (IF lib > lastIrr THEN lib ELSE lastIrr)
             /\ Len(todo') = m + (IF lib > k THEN lib - k ELSE 0)
             /\ todo'[m] = Block(head)'
             /\ m = 2 => todo'[1] = Block(1)'
             /\ \A i \in (m + 1)..Len(todo') : todo'[i] = Irreversible(k + i - m)' /\ k + i - m \in (k + 1)..lib
      BY <2>1, AcceptMakes
    <3>2. log' = log /\ first' = first /\ todo = <<>>
      BY <2>1 DEF AcceptBlock, past, Idle
    <3>3. \A i \in 1..Len(todo') : Irr(todo'[i]) => i > m
      BY <3>1 DEF Irr, Block, BlockOf
    <3>4. \A i \in (m + 1)..Len(todo') : todo'[i].num = k + i - m
      <4> SUFFICES ASSUME NEW i \in (m + 1)..Len(todo') PROVE todo'[i].num = k + i - m
        OBVIOUS
      <4>1. todo'[i] = Irreversible(k + i - m)'
        BY <3>1
      <4> QED
        BY <4>1 DEF Irreversible, IrreversibleOf
    <3>5. Len(todo') \in Nat
      BY <2>0, <3>1
    <3>6. \A i \in 1..Len(todo') : Irr(todo'[i]) => i \in (m + 1)..Len(todo')
      BY <3>3, <3>5
    <3>7. lastIrr <= lastIrr' /\ lastIrr' = lib
      BY <2>0, <3>1
    <3>8. \A i, j \in 1..Len(todo') : i < j /\ Irr(todo'[i]) /\ Irr(todo'[j]) => todo'[i].num < todo'[j].num
      BY <3>4, <3>6
    <3>9. \A j \in 1..Len(todo') : Irr(todo'[j]) => todo'[j].num \in (k + 1)..lib
      BY <3>1, <3>4, <3>6
    <3>10. \A i \in (first + 1)..Len(log) : i \in 1..Len(log)
      BY <2>0
    <3>11. \A i \in (first + 1)..Len(log) : Irr(log[i]) =>
              /\ log[i].num <= lastIrr'
              /\ \A j \in 1..Len(todo') : Irr(todo'[j]) => log[i].num < todo'[j].num
      <4> SUFFICES ASSUME NEW i \in (first + 1)..Len(log), Irr(log[i])
                   PROVE  /\ log[i].num <= lastIrr'
                          /\ \A j \in 1..Len(todo') : Irr(todo'[j]) => log[i].num < todo'[j].num
        OBVIOUS
      <4>1. log[i].num <= lastIrr
        BY DEF InOrder
      <4>2. log[i].num \in Nat /\ k \in Nat /\ lastIrr <= k
        BY <2>0, <3>1, <3>10
      <4>3. log[i].num <= lastIrr'
        BY <2>0, <3>7, <4>1, <4>2
      <4>4. \A j \in 1..Len(todo') : Irr(todo'[j]) => log[i].num < todo'[j].num
        BY <2>0, <3>9, <4>1, <4>2
      <4> QED
        BY <4>3, <4>4
    <3> QED
      BY <3>2, <3>7, <3>8, <3>9, <3>11, <2>0 DEF InOrder, IrreversibleInOrder
  <2>2. CASE Startup
    <3>1. lastIrr' = lib /\ log' = log /\ first' = first /\ todo' = todo /\ todo = <<>>
      BY <2>2 DEF Startup, PluginStartup, Idle
    <3>2. \A i \in (first + 1)..Len(log) : i \in 1..Len(log)
      BY <2>0
    <3> QED
      BY <2>0, <3>1, <3>2 DEF InOrder, IrreversibleInOrder
  <2>3. ASSUME NEW trace \in Traces, OnAppliedTransaction(trace)
        PROVE  InOrder'
    <3>1. /\ log' = log /\ first' = first /\ lastIrr' = lastIrr
          /\ \A j \in 1..Len(todo') : todo'[j] = Transaction
      BY <2>3 DEF OnAppliedTransaction, past
    <3>2. \A j \in 1..Len(todo') : ~Irr(todo'[j])
      BY <3>1 DEF Transaction, Irr
    <3> QED
      BY <3>1, <3>2 DEF InOrder, IrreversibleInOrder
  <2>4. CASE Applied
    <3>1. first' = first /\ lastIrr' = lastIrr
      BY <2>4 DEF Applied
    <3>2. /\ Len(todo) \in Nat /\ Len(todo) > 0
          /\ Len(log') = Len(log) + 1 /\ Len(todo') = Len(todo) - 1
          /\ \A i \in 1..Len(log) : log'[i] = log[i]
          /\ log'[Len(log) + 1] = todo[1]
          /\ \A j \in 1..(Len(todo) - 1) : todo'[j] = todo[j + 1]
      BY <2>4, AppliedMoves
    <3>3. \A j \in 1..Len(todo') : j + 1 \in 1..Len(todo) /\ todo'[j] = todo[j + 1]
      BY <3>2
    <3>4. \A i \in (first' + 1)..Len(log') : \/ i \in (first + 1)..Len(log) /\ i \in 1..Len(log) /\ log'[i] = log[i]
                                             \/ i = Len(log) + 1 /\ log'[i] = todo[1]
      BY <2>0, <3>1, <3>2
    <3>5. 1 \in 1..Len(todo)
      BY <3>2
    <3>6. IrreversibleInOrder'
      <4> SUFFICES ASSUME NEW i \in (first' + 1)..Len(log'), NEW j \in (first' + 1)..Len(log'),
                          i < j, Irr(log'[i]), Irr(log'[j])
                   PROVE  log'[i].num < log'[j].num
        BY DEF IrreversibleInOrder, Irr
      <4>1. i \in (first + 1)..Len(log) /\ log'[i] = log[i]
        BY <2>0, <3>2, <3>4
      <4>2. CASE j = Len(log) + 1 /\ log'[j] = todo[1]
        BY <3>5, <4>1, <4>2 DEF InOrder
      <4>3. CASE j \in (first + 1)..Len(log) /\ log'[j] = log[j]
        BY <4>1, <4>3 DEF InOrder, IrreversibleInOrder, Irr
      <4> QED
        BY <3>4, <4>2, <4>3
    <3>7. \A i, j \in 1..Len(todo') : i < j /\ Irr(todo'[i]) /\ Irr(todo'[j]) => todo'[i].num < todo'[j].num
      <4> SUFFICES ASSUME NEW i \in 1..Len(todo'), NEW j \in 1..Len(todo'), i < j,
                          Irr(todo'[i]), Irr(todo'[j])
                   PROVE  todo'[i].num < todo'[j].num
        OBVIOUS
      <4>1. i + 1 \in 1..Len(todo) /\ j + 1 \in 1..Len(todo) /\ i + 1 < j + 1
        BY <3>3
      <4>2. todo'[i] = todo[i + 1] /\ todo'[j] = todo[j + 1]
        BY <3>3
      <4> QED
        BY <4>1, <4>2 DEF InOrder
    <3>8. ASSUME NEW i \in (first' + 1)..Len(log'), Irr(log'[i])
          PROVE  /\ log'[i].num <= lastIrr'
                 /\ \A j \in 1..Len(todo') : Irr(todo'[j]) => log'[i].num < todo'[j].num
      <4>1. CASE i \in (first + 1)..Len(log) /\ log'[i] = log[i]
        BY <3>1, <3>3, <3>8, <4>1 DEF InOrder
      <4>2. CASE log'[i] = todo[1]
        <5>1. \A j \in 1..Len(todo') : j + 1 \in 1..Len(todo) /\ 1 < j + 1
          BY <3>3
        <5> QED
          BY <3>1, <3>3, <3>5, <3>8, <4>2, <5>1 DEF InOrder
      <4> QED
        BY <3>4, <4>1, <4>2
    <3>9. \A j \in 1..Len(todo') : Irr(todo'[j]) => todo'[j].num <= lastIrr'
      BY <3>1, <3>3 DEF InOrder
    <3> QED
      BY <3>6, <3>7, <3>8, <3>9 DEF InOrder
  <2>5. CASE UNCHANGED <<log, first, todo, lastIrr>>
    BY <2>5 DEF InOrder, IrreversibleInOrder
  <2>6. CASE NewProcess
    <3>1. first' = Len(log) /\ log' = log /\ todo' = todo /\ todo = <<>>
      BY <2>6 DEF NewProcess, Idle
    <3>2. Len(todo) = 0
      BY <3>1
    <3> QED
      BY <2>0, <3>1, <3>2 DEF InOrder, IrreversibleInOrder
  <2> QED
    BY <2>1, <2>2, <2>3, <2>4, <2>5, <2>6
    DEF Next, Quiet, Stash, Prune, Tell, Begin, TakeBack, MakeFinal, Resume, Anew, vars, blockVars,
        past, StartBlock, AbortBlock, PopBlock, AdvanceLib, Restart, RestartAnew
<1>3. InOrder => IrreversibleInOrder
  BY DEF InOrder
<1> QED
  BY <1>1, <1>2, <1>3, ChainHolds, PTL DEF Spec

----------------------------------------------------------------------------
(* The channel.                                                             *)

Stamps == 1..Len(log)

\* What is on its way is in the order it was stashed; the history of what was
\* told has each event that the channel counts as seen.
Streams ==
    /\ kept \subseteq Stamps /\ seen \subseteq Stamps
    /\ saved \in Seq(SUBSET Nat) /\ \A k \in 1..Len(saved) : saved[k] \subseteq Stamps
    /\ buf \in Seq(Nat) /\ \A i \in 1..Len(buf) : buf[i] \in Stamps
    /\ \A i, j \in 1..Len(buf) : i < j => buf[i] < buf[j]
    /\ out \in Seq(Nat) /\ ToSet(out) \subseteq seen
    /\ told \in Seq(Nat) /\ seen = ToSet(told)

\* There is a session for each block that can be taken back, and what a session
\* or the state of the chain keeps was seen, is in the later ones, and is on its way.
Sessions ==
    /\ Len(saved) = head - lib + (IF pending THEN 1 ELSE 0)
    /\ kept \subseteq seen \cup ToSet(buf)
    /\ \A k \in 1..Len(saved) : saved[k] \subseteq seen \cup kept
    /\ \A k, l \in 1..Len(saved) : k < l => saved[k] \subseteq seen \cup saved[l]

LEMMA ToSetIs ==
    ASSUME NEW S, NEW s \in Seq(S)
    PROVE  \A e : e \in ToSet(s) <=> \E i \in 1..Len(s) : e = s[i]
BY DEF ToSet

LEMMA SetOfAppend ==
    ASSUME NEW S, NEW s \in Seq(S), NEW e \in S
    PROVE  ToSet(Append(s, e)) = ToSet(s) \cup {e}
<1> DEFINE t == Append(s, e)
<1>1. /\ t \in Seq(S) /\ Len(t) = Len(s) + 1 /\ Len(s) \in Nat
      /\ t[Len(s) + 1] = e /\ \A i \in 1..Len(s) : t[i] = s[i]
  OBVIOUS
<1> HIDE DEF t
<1>2. \A i \in 1..Len(t) : i \in 1..Len(s) \/ i = Len(s) + 1
  BY <1>1
<1>3. 1..Len(s) \subseteq 1..Len(t) /\ Len(s) + 1 \in 1..Len(t)
  BY <1>1
<1>4. \A x : x \in ToSet(t) <=> x \in ToSet(s) \cup {e}
  <2>0. t \in Seq(S) /\ s \in Seq(S)
    BY <1>1
  <2>1. \A x : x \in ToSet(t) <=> \E i \in 1..Len(t) : x = t[i]
    BY <2>0, ToSetIs
  <2>2. \A x : x \in ToSet(s) <=> \E i \in 1..Len(s) : x = s[i]
    BY <2>0, ToSetIs
  <2> QED
    BY <1>1, <1>2, <1>3, <2>1, <2>2
<1>5. ToSet(t) = ToSet(s) \cup {e}
  BY <1>4
<1> QED
  BY <1>5 DEF t

LEMMA SetOfTail ==
    ASSUME NEW S, NEW s \in Seq(S), s # <<>>, NEW t, t = Tail(s)
    PROVE  ToSet(s) = {s[1]} \cup ToSet(t)
<1>1. /\ t \in Seq(S) /\ Len(t) = Len(s) - 1 /\ Len(s) \in Nat /\ Len(s) > 0
      /\ Head(s) = s[1] /\ s[1] \in S /\ \A i \in 1..(Len(s) - 1) : t[i] = s[i + 1]
  OBVIOUS
<1>2. \A i \in 1..Len(s) : i = 1 \/ (i - 1 \in 1..Len(t) /\ t[i - 1] = s[i])
  <2> SUFFICES ASSUME NEW i \in 1..Len(s), i # 1 PROVE i - 1 \in 1..Len(t) /\ t[i - 1] = s[i]
    OBVIOUS
  <2>1. i - 1 \in 1..(Len(s) - 1) /\ (i - 1) + 1 = i
    BY <1>1
  <2> QED
    BY <1>1, <2>1
<1>3. 1 \in 1..Len(s) /\ \A i \in 1..Len(t) : i + 1 \in 1..Len(s) /\ t[i] = s[i + 1]
  BY <1>1
<1>4. \A x : x \in ToSet(s) <=> x \in {s[1]} \cup ToSet(t)
  <2>0. t \in Seq(S) /\ s \in Seq(S)
    BY <1>1
  <2>1. \A x : x \in ToSet(t) <=> \E i \in 1..Len(t) : x = t[i]
    BY <2>0, ToSetIs
  <2>2. \A x : x \in ToSet(s) <=> \E i \in 1..Len(s) : x = s[i]
    BY <2>0, ToSetIs
  <2>3. ASSUME NEW x \in ToSet(s) PROVE x \in {s[1]} \cup ToSet(t)
    <3>1. PICK i \in 1..Len(s) : x = s[i]
      BY <2>2
    <3>2. CASE i = 1
      BY <3>1, <3>2
    <3>3. CASE i - 1 \in 1..Len(t) /\ t[i - 1] = s[i]
      BY <2>1, <3>1, <3>3
    <3> QED
      BY <1>2, <3>2, <3>3
  <2>4. s[1] \in ToSet(s) /\ ToSet(t) \subseteq ToSet(s)
    BY <1>3, <2>1, <2>2
  <2> QED
    BY <2>3, <2>4
<1> QED
  BY <1>1, <1>4

LEMMA SameCardinality == \A S : Channel!Cardinality(S) = Cardinality(S)
BY DEF Channel!Cardinality, Cardinality

\* What the steps that touch the channel do.
LEMMA StashDoes ==
    ASSUME Types, Streams, Stash
    PROVE  /\ Applied /\ Len(log) \in Nat /\ Len(log') = Len(log) + 1
           /\ \A i \in 1..Len(log) : log'[i] = log[i]
           /\ kept' = kept \cup {Len(log) + 1}
           /\ \A e \in kept \cup seen : e < Len(log) + 1
           /\ buf' \in Seq(Nat) /\ Len(buf') = Len(buf) + 1 /\ Len(buf) \in Nat
           /\ buf'[Len(buf) + 1] = Len(log) + 1 /\ \A i \in 1..Len(buf) : buf'[i] = buf[i]
           /\ ToSet(buf') = ToSet(buf) \cup {Len(log) + 1}
           /\ UNCHANGED <<saved, out, seen, told>>
           /\ UNCHANGED <<blocks, pending, lib, oldest, lastIrr, ready, first, origin, since>>
<1>1. Applied /\ Channel!Put(Len(log) + 1) /\ UNCHANGED told
  BY DEF Stash
<1>2. Len(log') = Len(log) + 1 /\ Len(log) \in Nat /\ \A i \in 1..Len(log) : log'[i] = log[i]
  BY <1>1, AppliedMoves
<1>3. buf' = Append(buf, Len(log) + 1) /\ kept' = kept \cup {Len(log) + 1} /\ UNCHANGED <<saved, out, seen>>
  BY <1>1 DEF Channel!Put
<1>4. /\ buf' \in Seq(Nat) /\ Len(buf') = Len(buf) + 1 /\ Len(buf) \in Nat
      /\ buf'[Len(buf) + 1] = Len(log) + 1 /\ \A i \in 1..Len(buf) : buf'[i] = buf[i]
      /\ ToSet(buf') = ToSet(buf) \cup {Len(log) + 1}
  <2>1. Len(log) + 1 \in Nat /\ buf \in Seq(Nat)
    BY <1>2 DEF Streams
  <2>2. /\ buf' \in Seq(Nat) /\ Len(buf') = Len(buf) + 1 /\ Len(buf) \in Nat
        /\ buf'[Len(buf) + 1] = Len(log) + 1 /\ \A i \in 1..Len(buf) : buf'[i] = buf[i]
    BY <1>3, <2>1
  <2>3. ToSet(buf') = ToSet(buf) \cup {Len(log) + 1}
    <3>1. ToSet(Append(buf, Len(log) + 1)) = ToSet(buf) \cup {Len(log) + 1}
      BY <2>1, SetOfAppend
    <3> QED
      BY <1>3, <3>1
  <2> QED
    BY <2>2, <2>3
<1>6. \A e \in kept \cup seen : e < Len(log) + 1
  BY <1>2 DEF Streams, Stamps
<1>7. UNCHANGED <<blocks, pending, lib, oldest, lastIrr, ready, first, origin, since>>
  BY <1>1 DEF Applied, chain
<1> QED
  BY <1>1, <1>2, <1>3, <1>4, <1>6, <1>7

LEMMA TellDoes ==
    ASSUME Types, Streams, Tell
    PROVE  /\ Len(buf) \in Nat /\ Len(buf) > 0 /\ Len(told) \in Nat /\ buf[1] \in Stamps
           /\ buf' \in Seq(Nat) /\ Len(buf') = Len(buf) - 1
           /\ \A i \in 1..(Len(buf) - 1) : buf'[i] = buf[i + 1]
           /\ ToSet(buf) = {buf[1]} \cup ToSet(buf')
           /\ told' \in Seq(Nat) /\ Len(told') = Len(told) + 1 /\ told'[Len(told) + 1] = buf[1]
           /\ \A i \in 1..Len(told) : told'[i] = told[i]
           /\ seen' = seen \cup {buf[1]} /\ seen' = ToSet(told')
           /\ out' \in Seq(Nat) /\ ToSet(out') = ToSet(out) \cup {buf[1]}
           /\ UNCHANGED <<kept, saved, blockVars>>
<1>1. /\ buf # <<>> /\ out' = Append(out, Head(buf)) /\ seen' = seen \cup {Head(buf)}
      /\ buf' = Tail(buf) /\ told' = Append(told, Head(buf)) /\ UNCHANGED <<kept, saved, blockVars>>
  BY DEF Tell, Channel!Get
<1>2. buf \in Seq(Nat) /\ out \in Seq(Nat) /\ told \in Seq(Nat) /\ seen = ToSet(told)
  BY DEF Streams
<1>3. /\ buf' \in Seq(Nat) /\ Len(buf') = Len(buf) - 1 /\ Len(buf) \in Nat /\ Len(buf) > 0
      /\ Head(buf) = buf[1] /\ buf[1] \in Nat
      /\ \A i \in 1..(Len(buf) - 1) : buf'[i] = buf[i + 1]
      /\ ToSet(buf) = {buf[1]} \cup ToSet(buf')
  <2>1. buf \in Seq(Nat) /\ buf # <<>> /\ buf' = Tail(buf)
    BY <1>1, <1>2
  <2>2. /\ buf' \in Seq(Nat) /\ Len(buf') = Len(buf) - 1 /\ Len(buf) \in Nat /\ Len(buf) > 0
      /\ Head(buf) = buf[1] /\ buf[1] \in Nat
      /\ \A i \in 1..(Len(buf) - 1) : buf'[i] = buf[i + 1]
    BY <2>1
  <2>3. ToSet(buf) = {buf[1]} \cup ToSet(buf')
    BY <2>1, SetOfTail
  <2> QED
    BY <2>2, <2>3
<1>4. /\ told' \in Seq(Nat) /\ Len(told') = Len(told) + 1 /\ Len(told) \in Nat
      /\ told'[Len(told) + 1] = buf[1] /\ \A i \in 1..Len(told) : told'[i] = told[i]
      /\ ToSet(told') = ToSet(told) \cup {buf[1]}
  <2>1. told' = Append(told, buf[1])
    BY <1>1, <1>3
  <2>2. /\ told' \in Seq(Nat) /\ Len(told') = Len(told) + 1 /\ Len(told) \in Nat
        /\ told'[Len(told) + 1] = buf[1] /\ \A i \in 1..Len(told) : told'[i] = told[i]
    BY <1>2, <1>3, <2>1
  <2>3. ToSet(told') = ToSet(told) \cup {buf[1]}
    <3>1. ToSet(Append(told, buf[1])) = ToSet(told) \cup {buf[1]}
      BY <1>2, <1>3, SetOfAppend
    <3> QED
      BY <2>1, <3>1
  <2> QED
    BY <2>2, <2>3
<1>5. out' \in Seq(Nat) /\ ToSet(out') = ToSet(out) \cup {buf[1]}
  <2>1. out' = Append(out, buf[1])
    BY <1>1, <1>3
  <2>2. out' \in Seq(Nat)
    BY <1>2, <1>3, <2>1
  <2>3. ToSet(out') = ToSet(out) \cup {buf[1]}
    <3>1. ToSet(Append(out, buf[1])) = ToSet(out) \cup {buf[1]}
      BY <1>2, <1>3, SetOfAppend
    <3> QED
      BY <2>1, <3>1
  <2> QED
    BY <2>2, <2>3
<1>6. buf[1] \in Stamps
  <2>1. 1 \in 1..Len(buf)
    BY <1>3
  <2> QED
    BY <2>1 DEF Streams
<1> QED
  BY <1>1, <1>2, <1>3, <1>4, <1>5, <1>6

LEMMA PruneDoes ==
    ASSUME Prune
    PROVE  \E d \in kept : /\ d \in seen /\ kept' = kept \ {d} /\ todo # <<>>
                           /\ UNCHANGED <<saved, buf, out, seen, told, blockVars>>
BY DEF Prune, Channel!Forget

LEMMA BeginDoes ==
    ASSUME Types, Streams, Begin
    PROVE  /\ ~pending /\ pending' = TRUE /\ todo = <<>>
           /\ saved' \in Seq(SUBSET Nat) /\ Len(saved) \in Nat /\ Len(saved') = Len(saved) + 1
           /\ saved'[Len(saved) + 1] = kept /\ \A k \in 1..Len(saved) : saved'[k] = saved[k]
           /\ UNCHANGED <<kept, buf, out, seen, told>>
           /\ UNCHANGED <<blocks, lib, oldest, lastIrr, ready, todo, log, first, origin, since>>
<1>1. StartBlock /\ saved' = Append(saved, kept) /\ UNCHANGED <<kept, buf, out, seen, told>>
  BY DEF Begin, Channel!Save
<1>2. saved \in Seq(SUBSET Nat) /\ kept \in SUBSET Nat
  BY DEF Streams, Stamps
<1>3. /\ saved' \in Seq(SUBSET Nat) /\ Len(saved) \in Nat /\ Len(saved') = Len(saved) + 1
      /\ saved'[Len(saved) + 1] = kept /\ \A k \in 1..Len(saved) : saved'[k] = saved[k]
  BY <1>1, <1>2
<1> QED
  BY <1>1, <1>3 DEF StartBlock, Idle, past

LEMMA TakeBackDoes ==
    ASSUME Types, Streams, TakeBack
    PROVE  /\ todo = <<>> /\ pending' = FALSE
           /\ \/ pending /\ blocks' = blocks
              \/ ~pending /\ head > lib /\ head' = head - 1 /\ \A n \in 1..(head - 1) : blocks'[n] = blocks[n]
           /\ saved' \in Seq(SUBSET Nat) /\ Len(saved) \in Nat /\ Len(saved) > 0
           /\ Len(saved') = Len(saved) - 1 /\ \A k \in 1..(Len(saved) - 1) : saved'[k] = saved[k]
           /\ kept' = saved[Len(saved)]
           /\ UNCHANGED <<buf, out, seen, told>>
           /\ UNCHANGED <<lib, oldest, lastIrr, ready, todo, log, first, origin, since>>
<1>1. /\ AbortBlock \/ PopBlock
      /\ saved # <<>> /\ kept' = saved[Len(saved)] /\ saved' = SubSeq(saved, 1, Len(saved) - 1)
      /\ UNCHANGED <<buf, out, seen, told>>
  BY DEF TakeBack, Channel!RollBack
<1>2. saved \in Seq(SUBSET Nat) /\ blocks \in Seq(Nat)
  BY DEF Streams, Types
<1>3. /\ saved' \in Seq(SUBSET Nat) /\ Len(saved) \in Nat /\ Len(saved) > 0
      /\ Len(saved') = Len(saved) - 1 /\ \A k \in 1..(Len(saved) - 1) : saved'[k] = saved[k]
  <2>1. Len(saved) \in Nat /\ Len(saved) > 0
    BY <1>1, <1>2
  <2>2. PICK n \in Nat : n = Len(saved) - 1
    BY <2>1
  <2>3. saved' = SubSeq(saved, 1, n) /\ n <= Len(saved)
    BY <1>1, <2>1, <2>2
  <2>4. saved' \in Seq(SUBSET Nat) /\ Len(saved') = n /\ \A k \in 1..n : saved'[k] = saved[k]
    BY <1>2, <2>1, <2>3
  <2> QED
    BY <2>1, <2>2, <2>4
<1>4. CASE AbortBlock
  BY <1>1, <1>3, <1>4 DEF AbortBlock, Idle, past
<1>5. CASE PopBlock
  <2>1. ~pending /\ head > lib /\ blocks' = SubSeq(blocks, 1, head - 1) /\ todo = <<>>
        /\ UNCHANGED <<pending, lib, oldest, lastIrr, ready, todo, log, first, origin, since>>
    BY <1>5 DEF PopBlock, Idle, past
  <2>2. head \in Nat /\ lib \in Nat
    BY DEF head, Types
  <2>3. head' = head - 1 /\ \A n \in 1..(head - 1) : blocks'[n] = blocks[n]
    <3>1. PICK n \in Nat : n = head - 1
      BY <2>1, <2>2
    <3>2. blocks' = SubSeq(blocks, 1, n) /\ n <= Len(blocks) /\ Len(blocks) \in Nat
      BY <2>1, <2>2, <3>1 DEF head
    <3>3. Len(blocks') = n /\ \A k \in 1..n : blocks'[k] = blocks[k]
      BY <1>2, <3>2
    <3> QED
      BY <3>1, <3>3 DEF head
  <2>4. pending' = FALSE
    BY <2>1 DEF Types
  <2> QED
    BY <1>1, <1>3, <2>1, <2>3, <2>4
<1> QED
  BY <1>1, <1>4, <1>5

LEMMA MakeFinalDoes ==
    ASSUME Types, Streams, MakeFinal
    PROVE  /\ todo = <<>> /\ ~pending /\ lib < head /\ lib' = lib + 1
           /\ saved' \in Seq(SUBSET Nat) /\ Len(saved) \in Nat /\ Len(saved) > 0
           /\ Len(saved') = Len(saved) - 1 /\ \A k \in 1..(Len(saved) - 1) : saved'[k] = saved[k + 1]
           /\ UNCHANGED <<kept, buf, out, seen, told>>
           /\ UNCHANGED <<blocks, pending, oldest, lastIrr, ready, todo, log, first, origin, since>>
<1>1. /\ AdvanceLib /\ saved # <<>> /\ saved' = Tail(saved)
      /\ UNCHANGED <<kept, buf, out, seen, told>>
  BY DEF MakeFinal, Channel!Commit
<1>2. saved \in Seq(SUBSET Nat)
  BY DEF Streams
<1>3. /\ saved' \in Seq(SUBSET Nat) /\ Len(saved) \in Nat /\ Len(saved) > 0
      /\ Len(saved') = Len(saved) - 1 /\ \A k \in 1..(Len(saved) - 1) : saved'[k] = saved[k + 1]
  BY <1>1, <1>2
<1> QED
  BY <1>1, <1>3 DEF AdvanceLib, Idle, past

\* The sequence that lists a set has all of it.
LEMMA ListingHasAll ==
    ASSUME NEW n \in Nat, NEW S \in SUBSET (1..n), NEW s \in Channel!Listings(S)
    PROVE  /\ s \in Seq(Nat) /\ ToSet(s) = S
           /\ \A i, j \in 1..Len(s) : i < j => s[i] < s[j]
           /\ \A i \in 1..Len(s) : s[i] \in S
<1>1. IsFiniteSet(S) /\ Cardinality(S) \in Nat
  <2>1. IsFiniteSet(1..n)
    BY FS_Interval
  <2>2. IsFiniteSet(S)
    BY <2>1, FS_Subset
  <2> QED
    BY <2>2, FS_CardinalityType
<1>2. PICK c \in Nat : c = Cardinality(S)
  BY <1>1
<1>3. s \in [1..c -> S] /\ \A i, j \in 1..c : i < j => s[i] < s[j]
  BY <1>2, SameCardinality DEF Channel!Listings
<1>4. s \in Seq(Nat) /\ Len(s) = c
  <2>1. \A i \in 1..c : s[i] \in Nat
    <3>1. \A i \in 1..c : s[i] \in S
      BY <1>3
    <3>2. \A x \in S : x \in Nat
      OBVIOUS
    <3> QED
      BY <3>1, <3>2
  <2>2. s \in [1..c -> Nat]
    BY <1>3, <2>1
  <2> QED
    BY <2>2
<1>5. \A i, j \in 1..c : i # j => s[i] # s[j]
  <2> SUFFICES ASSUME NEW i \in 1..c, NEW j \in 1..c, i # j PROVE s[i] # s[j]
    OBVIOUS
  <2>1. s[i] \in Nat /\ s[j] \in Nat
    BY <1>4
  <2>2. i < j \/ j < i
    OBVIOUS
  <2> QED
    BY <1>3, <2>1, <2>2
<1>6. s \in Injection(1..c, S)
  BY <1>3, <1>5 DEF Injection, IsInjective
<1>7. IsFiniteSet(1..c) /\ Cardinality(1..c) = c
  BY FS_Interval
<1>8. s \in Surjection(1..c, S)
  BY <1>1, <1>2, <1>6, <1>7, FS_Injection
<1>9. \A x : x \in ToSet(s) <=> x \in S
  <2>1. \A x \in S : \E i \in 1..c : s[i] = x
    BY <1>8 DEF Surjection
  <2>2. \A x : x \in ToSet(s) <=> \E i \in 1..c : x = s[i]
    BY <1>4, ToSetIs
  <2>3. \A i \in 1..c : s[i] \in S
    BY <1>3
  <2>4. ToSet(s) \subseteq S
    BY <2>2, <2>3
  <2>5. S \subseteq ToSet(s)
    BY <2>1, <2>2
  <2> QED
    BY <2>4, <2>5
<1> QED
  BY <1>3, <1>4, <1>9

LEMMA ResumeDoes ==
    ASSUME Types, Streams, Resume
    PROVE  /\ todo = <<>> /\ ~pending /\ first' = Len(log) /\ lastIrr' = 0 /\ since' = 0
           /\ buf' \in Seq(Nat) /\ ToSet(buf') = kept /\ \A i \in 1..Len(buf') : buf'[i] \in kept
           /\ \A i, j \in 1..Len(buf') : i < j => buf'[i] < buf'[j]
           /\ out' = <<>>
           /\ UNCHANGED <<kept, saved, seen, told>>
           /\ UNCHANGED <<blocks, pending, lib, oldest, todo, log, origin>>
<1>1. /\ NewProcess /\ buf' \in Channel!Listings(kept) /\ out' = <<>>
      /\ UNCHANGED <<kept, saved, seen, told, blocks, lib, oldest, origin>>
  BY DEF Resume, Restart, Channel!Reopen
<1>2. kept \in SUBSET (1..Len(log)) /\ Len(log) \in Nat
  BY DEF Types, Streams, Stamps
<1>3. /\ buf' \in Seq(Nat) /\ ToSet(buf') = kept /\ \A i \in 1..Len(buf') : buf'[i] \in kept
      /\ \A i, j \in 1..Len(buf') : i < j => buf'[i] < buf'[j]
  BY <1>1, <1>2, ListingHasAll
<1> QED
  BY <1>1, <1>3 DEF NewProcess, Idle

LEMMA AnewDoes ==
    ASSUME Types, Numbers, Anew
    PROVE  /\ todo = <<>> /\ ~pending /\ first' = Len(log) /\ lastIrr' = 0 /\ since' = 0
           /\ kept' = {} /\ saved' = <<>> /\ buf' = <<>> /\ out' = <<>> /\ seen' = {} /\ told' = <<>>
           /\ origin' = head' /\ lib' = head' /\ UNCHANGED <<pending, todo, log>>
<1>1. /\ kept' = {} /\ saved' = <<>> /\ buf' = <<>> /\ out' = <<>> /\ seen' = {} /\ told' = <<>>
      /\ RestartAnew
  BY DEF Anew
<1>2. /\ todo = <<>> /\ ~pending /\ first' = Len(log) /\ lastIrr' = 0 /\ since' = 0
      /\ UNCHANGED <<pending, todo, log>> /\ origin' = head'
  BY <1>1 DEF RestartAnew, NewProcess, Idle, head
<1>3. lib' = head'
  <2>1. CASE blocks' = SubSeq(blocks, 1, 1) /\ lib' = 1
    <3>1. blocks \in Seq(Nat) /\ 1 <= Len(blocks) /\ Len(blocks) \in Nat
      BY DEF Types, Numbers, head
    <3>2. Len(SubSeq(blocks, 1, 1)) = 1
      BY <3>1
    <3> QED
      BY <2>1, <3>2 DEF head
  <2>2. CASE blocks' = blocks /\ lib' = head
    BY <2>2 DEF head
  <2> QED
    BY <1>1, <2>1, <2>2 DEF RestartAnew
<1> QED
  BY <1>1, <1>2, <1>3

LEMMA QuietDoes ==
    ASSUME \/ Quiet(AcceptBlock) \/ Quiet(Startup)
           \/ \E trace \in Traces : Quiet(OnAppliedTransaction(trace))
    PROVE  UNCHANGED <<kept, saved, buf, out, seen, told, log, first, origin, lib, oldest>>
BY DEF Quiet, AcceptBlock, Startup, OnAppliedTransaction, channel, chain, past

\* Stamps that are there stay there.
LEMMA StampsGrow ==
    ASSUME Types, Len(log') = Len(log) + 1
    PROVE  Len(log) + 1 \in Stamps' /\ Stamps \subseteq Stamps'
<1>1. Len(log) \in Nat
  BY DEF Types
<1> QED
  BY <1>1 DEF Stamps

\* What the channel keeps, and how its sessions follow those of the chain.
THEOREM ChannelHolds == Spec => [](Streams /\ Sessions)
<1>1. Init => Streams /\ Sessions
  <2> SUFFICES ASSUME Init PROVE Streams /\ Sessions
    OBVIOUS
  <2>1. /\ kept = {} /\ saved = <<>> /\ buf = <<>> /\ out = <<>> /\ seen = {} /\ told = <<>>
        /\ blocks = <<0>> /\ lib = 1 /\ pending = FALSE
    BY DEF Init, BlockInit, Channel!CInit
  <2>2. saved \in Seq(SUBSET Nat) /\ buf \in Seq(Nat) /\ out \in Seq(Nat) /\ told \in Seq(Nat)
    BY <2>1
  <2>3. ToSet(told) = {} /\ ToSet(out) = {}
    BY <2>1 DEF ToSet
  <2>4. Streams
    BY <2>1, <2>2, <2>3 DEF Streams
  <2>5. Len(saved) = 0 /\ head = 1
    BY <2>1 DEF head
  <2> QED
    BY <2>1, <2>4, <2>5 DEF Sessions
<1>2. Types /\ Numbers /\ Streams /\ Sessions /\ [Next]_vars => Streams' /\ Sessions'
  <2> SUFFICES ASSUME Types, Numbers, Streams, Sessions, [Next]_vars
               PROVE  Streams' /\ Sessions'
    OBVIOUS
  <2>0. /\ head \in Nat /\ lib \in Nat /\ lib <= head /\ pending \in BOOLEAN /\ Len(saved) \in Nat
        /\ saved \in Seq(SUBSET Nat) /\ Len(log) \in Nat
    BY DEF head, Types, Numbers, Streams
  <2>1. CASE Stash
    <3>1. /\ Len(log') = Len(log) + 1 /\ kept' = kept \cup {Len(log) + 1}
          /\ buf' \in Seq(Nat) /\ Len(buf') = Len(buf) + 1 /\ Len(buf) \in Nat
          /\ buf'[Len(buf) + 1] = Len(log) + 1 /\ \A i \in 1..Len(buf) : buf'[i] = buf[i]
          /\ ToSet(buf') = ToSet(buf) \cup {Len(log) + 1}
          /\ UNCHANGED <<saved, out, seen, told, blocks, pending, lib>>
      BY <2>1, StashDoes
    <3>2. Len(log) + 1 \in Stamps' /\ Stamps \subseteq Stamps'
      BY <3>1, StampsGrow
    <3>3. \A i \in 1..Len(buf') : i \in 1..Len(buf) \/ (i = Len(buf) + 1 /\ buf'[i] = Len(log) + 1)
      BY <3>1
    <3>4. \A i \in 1..Len(buf') : buf'[i] \in Stamps'
      BY <3>1, <3>2, <3>3 DEF Streams
    <3>5. \A i, j \in 1..Len(buf') : i < j => buf'[i] < buf'[j]
      <4> SUFFICES ASSUME NEW i \in 1..Len(buf'), NEW j \in 1..Len(buf'), i < j
                   PROVE  buf'[i] < buf'[j]
        OBVIOUS
      <4>1. i \in 1..Len(buf)
        BY <3>1, <3>3
      <4>2. buf'[i] = buf[i] /\ buf[i] \in Stamps
        BY <3>1, <4>1 DEF Streams
      <4>5. buf[i] < Len(log) + 1
        BY <2>0, <4>2 DEF Stamps
      <4>3. CASE j \in 1..Len(buf)
        BY <3>1, <4>1, <4>2, <4>3 DEF Streams
      <4>4. CASE buf'[j] = Len(log) + 1
        BY <4>2, <4>4, <4>5
      <4> QED
        BY <3>3, <4>3, <4>4
    <3>6. \A k \in 1..Len(saved') : saved'[k] \subseteq Stamps'
      BY <3>1, <3>2 DEF Streams
    <3>7. Streams'
      BY <3>1, <3>2, <3>4, <3>5, <3>6 DEF Streams
    <3>8. Sessions'
      BY <3>1 DEF Sessions, head
    <3> QED
      BY <3>7, <3>8
  <2>2. CASE Prune
    <3>1. PICK d \in kept : d \in seen /\ kept' = kept \ {d} /\ UNCHANGED <<saved, buf, out, seen, told, blockVars>>
      BY <2>2, PruneDoes
    <3>2. UNCHANGED <<blocks, pending, lib, log>>
      BY <3>1 DEF blockVars, chain, past
    <3>3. Streams'
      BY <3>1, <3>2 DEF Streams, Stamps
    <3>4. Sessions'
      BY <3>1, <3>2 DEF Sessions, head
    <3> QED
      BY <3>3, <3>4
  <2>3. CASE Tell
    <3>1. /\ Len(buf) \in Nat /\ Len(buf) > 0 /\ buf[1] \in Stamps
          /\ buf' \in Seq(Nat) /\ Len(buf') = Len(buf) - 1
          /\ \A i \in 1..(Len(buf) - 1) : buf'[i] = buf[i + 1]
          /\ ToSet(buf) = {buf[1]} \cup ToSet(buf')
          /\ told' \in Seq(Nat) /\ out' \in Seq(Nat) /\ ToSet(out') = ToSet(out) \cup {buf[1]}
          /\ seen' = seen \cup {buf[1]} /\ seen' = ToSet(told')
          /\ UNCHANGED <<kept, saved, blockVars>>
      BY <2>3, TellDoes
    <3>2. UNCHANGED <<blocks, pending, lib, log>>
      BY <3>1 DEF blockVars, chain, past
    <3>3. \A i \in 1..Len(buf') : i + 1 \in 1..Len(buf) /\ buf'[i] = buf[i + 1]
      BY <3>1
    <3>4. \A i \in 1..Len(buf') : buf'[i] \in Stamps'
      BY <3>2, <3>3 DEF Streams, Stamps
    <3>5. \A i, j \in 1..Len(buf') : i < j => buf'[i] < buf'[j]
      <4>1. \A i, j \in 1..Len(buf) : i < j => buf[i] < buf[j]
        BY DEF Streams
      <4> QED
        BY <3>3, <4>1
    <3>6. Streams'
      BY <3>1, <3>2, <3>4, <3>5 DEF Streams, Stamps
    <3>7. Sessions'
      BY <3>1, <3>2 DEF Sessions, head
    <3> QED
      BY <3>6, <3>7
  <2>4. CASE Begin
    <3>1. /\ ~pending /\ pending' = TRUE
          /\ saved' \in Seq(SUBSET Nat) /\ Len(saved) \in Nat /\ Len(saved') = Len(saved) + 1
          /\ saved'[Len(saved) + 1] = kept /\ \A k \in 1..Len(saved) : saved'[k] = saved[k]
          /\ UNCHANGED <<kept, buf, out, seen, told, blocks, lib, log>>
      BY <2>4, BeginDoes
    <3>2. \A k \in 1..Len(saved') : k \in 1..Len(saved) \/ (k = Len(saved) + 1 /\ saved'[k] = kept)
      BY <3>1
    <3>3. Streams'
      BY <3>1, <3>2 DEF Streams, Stamps
    <3>4. Len(saved') = head' - lib' + (IF pending' THEN 1 ELSE 0)
      BY <2>0, <3>1 DEF Sessions, head
    <3>5. \A k \in 1..Len(saved') : saved'[k] \subseteq seen' \cup kept'
      BY <3>1, <3>2 DEF Sessions
    <3>6. \A k, l \in 1..Len(saved') : k < l => saved'[k] \subseteq seen' \cup saved'[l]
      <4> SUFFICES ASSUME NEW k \in 1..Len(saved'), NEW l \in 1..Len(saved'), k < l
                   PROVE  saved'[k] \subseteq seen' \cup saved'[l]
        OBVIOUS
      <4>1. k \in 1..Len(saved) /\ saved'[k] = saved[k]
        BY <3>1, <3>2
      <4> QED
        BY <3>1, <3>2, <4>1 DEF Sessions
    <3>7. Sessions'
      BY <3>1, <3>4, <3>5, <3>6 DEF Sessions
    <3> QED
      BY <3>3, <3>7
  <2>5. CASE TakeBack
    <3>1. /\ pending' = FALSE
          /\ \/ pending /\ blocks' = blocks
             \/ ~pending /\ head > lib /\ head' = head - 1
          /\ saved' \in Seq(SUBSET Nat) /\ Len(saved) \in Nat /\ Len(saved) > 0
          /\ Len(saved') = Len(saved) - 1 /\ \A k \in 1..(Len(saved) - 1) : saved'[k] = saved[k]
          /\ kept' = saved[Len(saved)]
          /\ UNCHANGED <<buf, out, seen, told, lib, log>>
      BY <2>5, TakeBackDoes
    <3>2. Len(saved) \in 1..Len(saved)
      BY <3>1
    <3>3. \A k \in 1..Len(saved') : k \in 1..Len(saved) /\ k < Len(saved) /\ saved'[k] = saved[k]
      BY <3>1
    <3>4. Streams'
      BY <3>1, <3>2, <3>3 DEF Streams, Stamps
    <3>5. Len(saved') = head' - lib' + (IF pending' THEN 1 ELSE 0)
      BY <2>0, <3>1 DEF Sessions, head
    <3>6. kept' \subseteq seen' \cup ToSet(buf')
      BY <3>1, <3>2 DEF Sessions
    <3>7. Sessions'
      BY <3>1, <3>2, <3>3, <3>5, <3>6 DEF Sessions
    <3> QED
      BY <3>4, <3>7
  <2>6. CASE MakeFinal
    <3>1. /\ ~pending /\ lib' = lib + 1
          /\ saved' \in Seq(SUBSET Nat) /\ Len(saved) \in Nat /\ Len(saved) > 0
          /\ Len(saved') = Len(saved) - 1 /\ \A k \in 1..(Len(saved) - 1) : saved'[k] = saved[k + 1]
          /\ UNCHANGED <<kept, buf, out, seen, told, blocks, pending, log>>
      BY <2>6, MakeFinalDoes
    <3>2. \A k \in 1..Len(saved') : k + 1 \in 1..Len(saved) /\ saved'[k] = saved[k + 1]
      BY <3>1
    <3>3. Streams'
      BY <3>1, <3>2 DEF Streams, Stamps
    <3>4. Len(saved') = head' - lib' + (IF pending' THEN 1 ELSE 0)
      BY <2>0, <3>1 DEF Sessions, head
    <3>5. \A k, l \in 1..Len(saved') : k < l => saved'[k] \subseteq seen' \cup saved'[l]
      BY <3>1, <3>2 DEF Sessions
    <3>6. Sessions'
      BY <3>1, <3>2, <3>4, <3>5 DEF Sessions
    <3> QED
      BY <3>3, <3>6
  <2>7. CASE Resume
    <3>1. /\ buf' \in Seq(Nat) /\ ToSet(buf') = kept /\ \A i \in 1..Len(buf') : buf'[i] \in kept
          /\ \A i, j \in 1..Len(buf') : i < j => buf'[i] < buf'[j]
          /\ out' = <<>>
          /\ UNCHANGED <<kept, saved, seen, told, blocks, pending, lib, log>>
      BY <2>7, ResumeDoes
    <3>2. out' \in Seq(Nat) /\ ToSet(out') = {}
      BY <3>1 DEF ToSet
    <3>3. Streams'
      BY <3>1, <3>2 DEF Streams, Stamps
    <3>4. Sessions'
      BY <3>1 DEF Sessions, head
    <3> QED
      BY <3>3, <3>4
  <2>8. CASE Anew
    <3>1. /\ ~pending /\ pending' = pending /\ log' = log
          /\ kept' = {} /\ saved' = <<>> /\ buf' = <<>> /\ out' = <<>> /\ seen' = {} /\ told' = <<>>
          /\ lib' = head'
      BY <2>8, AnewDoes
    <3>2. head' - lib' = 0
      BY <3>1 DEF head
    <3>3. saved' \in Seq(SUBSET Nat) /\ buf' \in Seq(Nat) /\ out' \in Seq(Nat) /\ told' \in Seq(Nat)
          /\ Len(saved') = 0 /\ Len(buf') = 0
      BY <3>1
    <3>4. ToSet(told') = {} /\ ToSet(out') = {}
      BY <3>1 DEF ToSet
    <3>5. Streams'
      BY <3>1, <3>3, <3>4 DEF Streams
    <3>6. Sessions'
      BY <2>0, <3>1, <3>2, <3>3 DEF Sessions
    <3> QED
      BY <3>5, <3>6
  <2>9. CASE \/ Quiet(AcceptBlock) \/ Quiet(Startup)
             \/ \E trace \in Traces : Quiet(OnAppliedTransaction(trace))
    <3>1. UNCHANGED <<kept, saved, buf, out, seen, told, log, lib>>
      BY <2>9, QuietDoes
    <3>2. Streams'
      BY <3>1 DEF Streams, Stamps
    <3>3. head' - lib + (IF pending' THEN 1 ELSE 0) = head - lib + (IF pending THEN 1 ELSE 0)
      <4>1. CASE AcceptBlock
        <5>1. blocks' = Append(blocks, forks) /\ blocks \in Seq(Nat) /\ pending /\ pending' = FALSE
          BY <4>1 DEF AcceptBlock, Types
        <5>2. head' = head + 1
          BY <5>1 DEF head
        <5> QED
          BY <2>0, <5>1, <5>2
      <4>2. CASE UNCHANGED chain
        BY <4>2 DEF chain, head
      <4> QED
        BY <2>9, <4>1, <4>2 DEF Quiet, Startup, OnAppliedTransaction
    <3>4. Sessions'
      BY <3>1, <3>3 DEF Sessions
    <3> QED
      BY <3>2, <3>4
  <2>10. CASE UNCHANGED vars
    <3>1. UNCHANGED <<kept, saved, buf, out, seen, told, log, lib, blocks, pending>>
      BY <2>10 DEF vars, blockVars, channel, chain, past
    <3> QED
      BY <3>1 DEF Streams, Stamps, Sessions, head
  <2> QED
    BY <2>1, <2>2, <2>3, <2>4, <2>5, <2>6, <2>7, <2>8, <2>9, <2>10 DEF Next
<1> QED
  BY <1>1, <1>2, ChainHolds, PTL DEF Spec

\* The channel is used as the plugin may use it, and the plugin's count of
\* irreversible blocks stays behind the chain's.
THEOREM TypeCorrect == Spec => []TypeOK
<1>1. Numbers /\ Streams /\ Sessions => TypeOK
  <2> SUFFICES ASSUME Numbers, Streams, Sessions PROVE TypeOK
    OBVIOUS
  <2>1. \A x \in ToSet(saved) : x \subseteq seen \cup ToSet(buf)
    <3>1. saved \in Seq(SUBSET Nat)
      BY DEF Streams
    <3>2. \A x : x \in ToSet(saved) <=> \E k \in 1..Len(saved) : x = saved[k]
      BY <3>1, ToSetIs
    <3> QED
      BY <3>2 DEF Sessions
  <2>2. (UNION ToSet(saved)) \cup kept \subseteq seen \cup ToSet(buf)
    BY <2>1 DEF Sessions
  <2> QED
    BY <2>2 DEF TypeOK, Numbers, Sessions
<1> QED
  BY <1>1, ChainHolds, ChannelHolds, PTL

----------------------------------------------------------------------------
(* No irreversible block is skipped.                                        *)

\* The irreversible block n is in the signal at hand, on its way, or told.
Announced(n) ==
    \/ Irreversible(n) \in ToSet(todo)
    \/ \E d \in Delivering : log[d] = Irreversible(n)

\* What was stashed and is on its way or told stays so until the process ends.
LEMMA DeliveringGrows ==
    ASSUME Types, Streams, [Next]_vars, ~Resume, ~Anew
    PROVE  /\ Delivering \subseteq Delivering'
           /\ \A d \in Delivering : log'[d] = log[d]
<1>1. Delivering \subseteq Stamps
  <2>1. ToSet(buf) \subseteq Stamps
    <3>1. buf \in Seq(Nat) /\ \A i \in 1..Len(buf) : buf[i] \in Stamps
      BY DEF Streams
    <3>2. \A e : e \in ToSet(buf) <=> \E i \in 1..Len(buf) : e = buf[i]
      BY <3>1, ToSetIs
    <3> QED
      BY <3>1, <3>2
  <2> QED
    BY <2>1 DEF Delivering, Streams
<1>2. CASE Stash
  <2>1. /\ ToSet(buf') = ToSet(buf) \cup {Len(log) + 1} /\ out' = out
        /\ \A i \in 1..Len(log) : log'[i] = log[i]
    BY <1>2, StashDoes
  <2> QED
    BY <1>1, <2>1 DEF Delivering, Stamps
<1>3. CASE Tell
  <2>1. /\ ToSet(buf) = {buf[1]} \cup ToSet(buf') /\ ToSet(out') = ToSet(out) \cup {buf[1]}
        /\ UNCHANGED blockVars
    BY <1>3, TellDoes
  <2> QED
    BY <2>1 DEF Delivering, blockVars, past
<1>4. CASE UNCHANGED <<buf, out, log>>
  BY <1>4 DEF Delivering
<1>5. Prune => UNCHANGED <<buf, out, log>>
  BY PruneDoes DEF blockVars, past
<1> QED
  BY <1>2, <1>3, <1>4, <1>5, BeginDoes, TakeBackDoes, MakeFinalDoes, QuietDoes
  DEF Next, vars, channel, blockVars, past

\* Every block that became irreversible in this process since plugin_startup,
\* and that the block log has, is told by this process.
THEOREM IrreversibleBlocksComplete == Spec => []NoIrreversibleSkipped
<1>1. Init => NoIrreversibleSkipped
  <2> SUFFICES ASSUME Init PROVE NoIrreversibleSkipped
    OBVIOUS
  <2>1. since = 0 /\ lastIrr = 0
    BY DEF Init, BlockInit
  <2> QED
    BY <2>1 DEF NoIrreversibleSkipped
<1>2. Types /\ Numbers /\ Streams /\ NoIrreversibleSkipped /\ [Next]_vars => NoIrreversibleSkipped'
  <2> SUFFICES ASSUME Types, Numbers, Streams, NoIrreversibleSkipped, [Next]_vars,
                      NEW n \in (since' + 1)..lastIrr', Fetchable(n)'
               PROVE  Announced(n)'
    BY DEF NoIrreversibleSkipped, Announced
  <2>0. /\ lib \in Nat /\ lastIrr \in Nat /\ since \in Nat /\ head \in Nat /\ lastIrr <= lib /\ lib <= head
        /\ todo \in Seq(Events) /\ Len(todo) \in Nat
    BY DEF Types, Numbers, head
  <2>1. ASSUME n \in (since + 1)..lastIrr, Fetchable(n), blocks'[n] = blocks[n],
               Delivering \subseteq Delivering', \A d \in Delivering : log'[d] = log[d],
               Irreversible(n) \in ToSet(todo) => Announced(n)'
        PROVE  Announced(n)'
    <3>1. Irreversible(n)' = Irreversible(n)
      BY <2>1 DEF Irreversible, IrreversibleOf
    <3>2. CASE \E d \in Delivering : log[d] = Irreversible(n)
      BY <2>1, <3>1, <3>2 DEF Announced
    <3> QED
      BY <2>1, <3>2 DEF NoIrreversibleSkipped, Announced
  <2>2. CASE Quiet(AcceptBlock)
    <3>1. AcceptBlock /\ UNCHANGED <<since, oldest, log, buf, out>> /\ todo = <<>>
      BY <2>2 DEF Quiet, AcceptBlock, past, channel, Idle
    <3>2. PICK k \in Nat, m \in 1..2 :
             /\ lastIrr <= k /\ lastIrr' = (IF lib > lastIrr THEN lib ELSE lastIrr)
             /\ \A j \in Int : j > lastIrr /\ Fetchable(j) <=> j > k
             /\ head' = head + 1 /\ \A j \in 1..head : blocks'[j] = blocks[j]
             /\ todo' \in Seq(Events)
             /\ Len(todo') = m + (IF lib > k THEN lib - k ELSE 0)
             /\ \A i \in (m + 1)..Len(todo') : todo'[i] = Irreversible(k + i - m)'
      BY <3>1, AcceptMakes
    <3>3. Fetchable(n) /\ n \in Int /\ n \in (since + 1)..lib
      BY <2>0, <3>1, <3>2 DEF Fetchable
    <3>4. CASE n <= lastIrr
      <4>1. n \in (since + 1)..lastIrr /\ n \in 1..head
        BY <2>0, <3>3, <3>4
      <4>2. Delivering' = Delivering /\ log' = log /\ ToSet(todo) = {}
        BY <3>1 DEF Delivering, ToSet
      <4> QED
        BY <2>1, <3>2, <3>3, <4>1, <4>2
    <3>5. CASE n > lastIrr
      <4>1. n > k /\ n <= lib
        BY <3>2, <3>3, <3>5
      <4>2. PICK i \in Int : i = m + n - k
        BY <3>3
      <4>3. i \in (m + 1)..Len(todo') /\ k + i - m = n
        <5>1. Len(todo') = m + (lib - k)
          BY <2>0, <3>2, <3>3, <4>1
        <5> QED
          BY <2>0, <3>3, <4>1, <4>2, <5>1
      <4>4. todo'[i] = Irreversible(n)'
        BY <3>2, <4>3
      <4>5. i \in 1..Len(todo')
        BY <4>3
      <4>6. Irreversible(n)' \in ToSet(todo')
        BY <3>2, <4>4, <4>5, ToSetIs
      <4> QED
        BY <4>6 DEF Announced
    <3> QED
      BY <2>0, <3>3, <3>4, <3>5
  <2>3. CASE Quiet(Startup)
    <3>1. since' = lib /\ lastIrr' = lib
      BY <2>3 DEF Quiet, Startup, PluginStartup
    <3> QED
      BY <2>0, <3>1
  <2>4. ASSUME NEW trace \in Traces, Quiet(OnAppliedTransaction(trace))
        PROVE  Announced(n)'
    <3>1. UNCHANGED <<blocks, since, lastIrr, oldest, log, buf, out>> /\ todo = <<>>
      BY <2>4 DEF Quiet, OnAppliedTransaction, chain, past, channel, Idle
    <3>2. Delivering' = Delivering /\ ToSet(todo) = {} /\ Fetchable(n)
      BY <3>1 DEF Delivering, ToSet, Fetchable
    <3> QED
      BY <2>1, <3>1, <3>2
  <2>5. CASE Stash
    <3>1. /\ Applied /\ ToSet(buf') = ToSet(buf) \cup {Len(log) + 1}
          /\ UNCHANGED <<blocks, since, lastIrr, oldest>>
      BY <2>5, StashDoes
    <3>2. /\ Len(todo) > 0 /\ Len(todo') = Len(todo) - 1 /\ log'[Len(log) + 1] = todo[1]
          /\ \A j \in 1..(Len(todo) - 1) : todo'[j] = todo[j + 1]
      BY <3>1, AppliedMoves
    <3>3. Fetchable(n) /\ Irreversible(n)' = Irreversible(n)
      BY <3>1 DEF Fetchable, Irreversible, IrreversibleOf
    <3>4. ~Resume /\ ~Anew
      BY <3>1, ResumeDoes, AnewDoes DEF Applied
    <3>5. Delivering \subseteq Delivering' /\ \A d \in Delivering : log'[d] = log[d]
      BY <3>4, DeliveringGrows
    <3>6. ASSUME Irreversible(n) \in ToSet(todo) PROVE Announced(n)'
      <4>1. PICK i \in 1..Len(todo) : todo[i] = Irreversible(n)
        BY <2>0, <3>6, ToSetIs
      <4>2. CASE i = 1
        <5>1. Len(log) + 1 \in Delivering'
          BY <3>1 DEF Delivering
        <5> QED
          BY <3>2, <3>3, <4>1, <4>2, <5>1 DEF Announced
      <4>3. CASE i # 1
        <5>1. i - 1 \in 1..(Len(todo) - 1) /\ (i - 1) + 1 = i
          BY <2>0, <4>3
        <5>2. todo'[i - 1] = Irreversible(n)' /\ i - 1 \in 1..Len(todo')
          BY <3>2, <3>3, <4>1, <5>1
        <5>3. todo' \in Seq(Events)
          BY <3>1, <2>0 DEF Applied
        <5>4. Irreversible(n)' \in ToSet(todo')
          BY <5>2, <5>3, ToSetIs
        <5> QED
          BY <5>4 DEF Announced
      <4> QED
        BY <4>2, <4>3
    <3> QED
      BY <2>1, <3>1, <3>3, <3>5, <3>6
  <2>6. CASE Prune \/ Tell \/ UNCHANGED vars
    <3>1. UNCHANGED <<blocks, since, lastIrr, oldest, todo, lib>>
      BY <2>6, PruneDoes, TellDoes DEF vars, blockVars, past, chain
    <3>2. Delivering \subseteq Delivering' /\ \A d \in Delivering : log'[d] = log[d]
      <4>1. CASE Resume \/ Anew
        <5>1. lastIrr' = 0 /\ since' = 0
          BY <4>1, ResumeDoes, AnewDoes
        <5> QED
          BY <5>1
      <4> QED
        BY <4>1, DeliveringGrows
    <3>3. Fetchable(n) /\ Irreversible(n)' = Irreversible(n)
      BY <3>1 DEF Fetchable, Irreversible, IrreversibleOf
    <3>4. Irreversible(n) \in ToSet(todo) => Announced(n)'
      BY <3>1, <3>3 DEF Announced
    <3> QED
      BY <2>1, <3>1, <3>2, <3>3, <3>4
  <2>7. CASE Begin \/ TakeBack \/ MakeFinal
    <3>1. UNCHANGED <<since, lastIrr, oldest, todo, log, buf, out>> /\ todo = <<>>
      BY <2>7, BeginDoes, TakeBackDoes, MakeFinalDoes
    <3>2. n \in 1..lib /\ n \in (since + 1)..lastIrr
      BY <2>0, <3>1
    <3>3. blocks'[n] = blocks[n]
      <4>1. CASE UNCHANGED blocks
        BY <4>1
      <4>2. CASE head > lib /\ \A j \in 1..(head - 1) : blocks'[j] = blocks[j]
        BY <2>0, <3>2, <4>2
      <4> QED
        BY <2>7, <4>1, <4>2, BeginDoes, TakeBackDoes, MakeFinalDoes
    <3>4. Fetchable(n) /\ Delivering' = Delivering /\ ToSet(todo) = {}
      BY <3>1 DEF Fetchable, Delivering, ToSet
    <3> QED
      BY <2>1, <3>1, <3>2, <3>3, <3>4
  <2>8. CASE Resume \/ Anew
    <3>1. lastIrr' = 0 /\ since' = 0
      BY <2>8, ResumeDoes, AnewDoes
    <3> QED
      BY <3>1
  <2> QED
    BY <2>2, <2>3, <2>4, <2>5, <2>6, <2>7, <2>8 DEF Next
<1> QED
  BY <1>1, <1>2, ChainHolds, ChannelHolds, PTL DEF Spec

----------------------------------------------------------------------------
(* The whole chain is told.                                                 *)

\* The stamps S of events of l have every block of the chain b, up to its head
\* h, that came after the first o blocks.
Tells(l, S, b, o, h) ==
    \A n \in 1..h : (n > o \/ (n = 1 /\ o = 1 /\ h > 1)) => \E d \in S : l[d] = BlockOf(b, n)

LEMMA TellsStays ==
    ASSUME NEW l, NEW S, NEW b, NEW o, NEW h, Tells(l, S, b, o, h),
           NEW m, NEW T, NEW c, S \subseteq T, \A d \in S : m[d] = l[d], \A n \in 1..h : c[n] = b[n]
    PROVE  Tells(m, T, c, o, h)
<1> SUFFICES ASSUME NEW n \in 1..h, n > o \/ (n = 1 /\ o = 1 /\ h > 1)
             PROVE  \E d \in T : m[d] = BlockOf(c, n)
  BY DEF Tells
<1>1. PICK d \in S : l[d] = BlockOf(b, n)
  BY DEF Tells
<1> QED
  BY <1>1 DEF BlockOf

\* A fork goes back to the state of a snapshot: each has told the chain that
\* ended where its session began.
SnapshotsTold == \A k \in 1..Len(saved) : Tells(log, saved[k] \cup seen, blocks, origin, lib + k - 1)

LEMMA IdleTells == todo = <<>> => (ChainIsTold <=> Tells(log, kept \cup seen, blocks, origin, head))
<1> SUFFICES ASSUME todo = <<>> PROVE ChainIsTold <=> Tells(log, kept \cup seen, blocks, origin, head)
  OBVIOUS
<1>1. ToSet(todo) = {}
  BY DEF ToSet
<1> QED
  BY <1>1 DEF ChainIsTold, Tells, Block

\* Every block of the chain was told or will be: by this process, or by the next
\* from what is kept.
THEOREM ChainIsComplete == Spec => [](ChainIsTold /\ SnapshotsTold)
<1>1. Init => ChainIsTold /\ SnapshotsTold
  <2> SUFFICES ASSUME Init PROVE ChainIsTold /\ SnapshotsTold
    OBVIOUS
  <2>1. blocks = <<0>> /\ origin = 1 /\ saved = <<>>
    BY DEF Init, BlockInit, Channel!CInit
  <2>2. head = 1 /\ Len(saved) = 0
    BY <2>1 DEF head
  <2> QED
    BY <2>1, <2>2 DEF ChainIsTold, SnapshotsTold
<1>2. Types /\ Numbers /\ Streams /\ Sessions /\ ChainIsTold /\ SnapshotsTold /\ [Next]_vars
        => ChainIsTold' /\ SnapshotsTold'
  <2> SUFFICES ASSUME Types, Numbers, Streams, Sessions, ChainIsTold, SnapshotsTold, [Next]_vars
               PROVE  ChainIsTold' /\ SnapshotsTold'
    OBVIOUS
  <2>0. /\ lib \in Nat /\ head \in Nat /\ lib <= head /\ 1 <= lib /\ Len(saved) \in Nat /\ Len(log) \in Nat
        /\ todo \in Seq(Events) /\ Len(todo) \in Nat /\ pending \in BOOLEAN
        /\ origin \in Nat /\ 1 <= origin
        /\ Len(saved) = head - lib + (IF pending THEN 1 ELSE 0)
        /\ kept \subseteq Stamps /\ seen \subseteq Stamps
        /\ \A k \in 1..Len(saved) : saved[k] \subseteq Stamps
    <3>1. /\ lib \in Nat /\ origin \in Nat /\ pending \in BOOLEAN /\ todo \in Seq(Events)
          /\ Len(todo) \in Nat /\ Len(log) \in Nat /\ head \in Nat
      BY DEF Types, head
    <3>2. /\ kept \subseteq Stamps /\ seen \subseteq Stamps /\ Len(saved) \in Nat
          /\ \A k \in 1..Len(saved) : saved[k] \subseteq Stamps
      BY DEF Streams
    <3> QED
      BY <3>1, <3>2 DEF Numbers, Sessions
  <2>a. \A k \in 1..Len(saved) : Tells(log, saved[k] \cup seen, blocks, origin, lib + k - 1)
                                 /\ lib + k - 1 \in Nat /\ lib + k - 1 <= head
    <3> SUFFICES ASSUME NEW k \in 1..Len(saved)
                 PROVE  /\ Tells(log, saved[k] \cup seen, blocks, origin, lib + k - 1)
                        /\ lib + k - 1 \in Nat /\ lib + k - 1 <= head
      OBVIOUS
    <3>1. lib + k - 1 \in Nat /\ lib + k - 1 <= head
      BY <2>0
    <3> QED
      BY <3>1 DEF SnapshotsTold
  <2>b. (todo' = <<>> => (ChainIsTold <=> Tells(log, kept \cup seen, blocks, origin, head))')
    <3>1. (todo = <<>> => (ChainIsTold <=> Tells(log, kept \cup seen, blocks, origin, head)))'
      BY IdleTells, PTL
    <3> QED
      BY <3>1
  <2>1. CASE Quiet(AcceptBlock)
    <3>1. AcceptBlock /\ UNCHANGED <<kept, saved, seen, log, origin, lib>> /\ todo = <<>>
      BY <2>1, QuietDoes DEF Quiet, AcceptBlock, Idle
    <3>2. PICK m \in 1..2 :
             /\ m = IF head' = 2 THEN 2 ELSE 1
             /\ head' = head + 1 /\ \A n \in 1..head : blocks'[n] = blocks[n]
             /\ todo' \in Seq(Events) /\ Len(todo') \in Nat /\ m <= Len(todo')
             /\ todo'[m] = Block(head)' /\ (m = 2 => todo'[1] = Block(1)')
      BY <2>0, <3>1, AcceptMakes
    <3>3. Tells(log, kept \cup seen, blocks, origin, head)
      BY <3>1, IdleTells
    <3>4. Tells(log', kept' \cup seen', blocks', origin, head)
      BY <3>1, <3>2, <3>3, TellsStays
    <3>5. \A e : (\E i \in 1..Len(todo') : e = todo'[i]) => e \in ToSet(todo')
      BY <3>2, ToSetIs
    <3>6. Block(head)' \in ToSet(todo') /\ (head' = 2 => Block(1)' \in ToSet(todo'))
      BY <3>2, <3>5
    <3>7. ChainIsTold'
      <4> SUFFICES ASSUME NEW n \in 1..head', n > origin' \/ (n = 1 /\ origin' = 1 /\ head' > 1)
                   PROVE  \/ Block(n)' \in ToSet(todo')
                          \/ \E d \in kept' \cup seen' : log'[d] = Block(n)'
        BY DEF ChainIsTold
      <4>1. CASE n = head'
        <5>1. Block(n)' = Block(head)'
          BY <4>1 DEF Block
        <5> QED
          BY <3>6, <5>1
      <4>2. CASE head' = 2 /\ n = 1
        <5>1. Block(n)' = Block(1)'
          BY <4>2 DEF Block
        <5> QED
          BY <3>6, <4>2, <5>1
      <4>3. CASE n # head' /\ ~ (head' = 2 /\ n = 1)
        <5>1. n \in 1..head /\ (n > origin \/ (n = 1 /\ origin = 1 /\ head > 1))
          BY <2>0, <3>1, <3>2, <4>3
        <5>2. \E d \in kept' \cup seen' : log'[d] = BlockOf(blocks', n)
          BY <3>4, <5>1 DEF Tells
        <5> QED
          BY <5>2 DEF Block
      <4> QED
        BY <4>1, <4>2, <4>3
    <3>8. SnapshotsTold'
      <4> SUFFICES ASSUME NEW k \in 1..Len(saved)
                   PROVE  Tells(log', saved[k] \cup seen', blocks', origin', lib + k - 1)
        BY <3>1 DEF SnapshotsTold
      <4>1. \A n \in 1..(lib + k - 1) : blocks'[n] = blocks[n]
        BY <2>a, <2>0, <3>2
      <4> QED
        BY <2>a, <3>1, <4>1, TellsStays
    <3> QED
      BY <3>7, <3>8
  <2>2. CASE Quiet(Startup) \/ \E trace \in Traces : Quiet(OnAppliedTransaction(trace))
    <3>1. UNCHANGED <<kept, saved, seen, log, origin, lib, blocks>> /\ todo = <<>>
      BY <2>2, QuietDoes DEF Quiet, Startup, OnAppliedTransaction, chain, Idle
    <3>2. ToSet(todo) = {}
      BY <3>1 DEF ToSet
    <3>3. ChainIsTold'
      BY <3>1, <3>2 DEF ChainIsTold, Block, head
    <3>4. SnapshotsTold'
      BY <3>1 DEF SnapshotsTold
    <3> QED
      BY <3>3, <3>4
  <2>3. CASE Stash
    <3>1. /\ Applied /\ kept' = kept \cup {Len(log) + 1}
          /\ \A i \in 1..Len(log) : log'[i] = log[i]
          /\ UNCHANGED <<saved, seen, blocks, origin, lib>>
      BY <2>3, StashDoes
    <3>2. /\ Len(todo) > 0 /\ Len(todo') = Len(todo) - 1 /\ log'[Len(log) + 1] = todo[1]
          /\ \A j \in 1..(Len(todo) - 1) : todo'[j] = todo[j + 1]
      BY <3>1, AppliedMoves
    <3>3. todo' = Tail(todo) /\ todo # <<>>
      BY <3>1 DEF Applied
    <3>4. ToSet(todo) = {todo[1]} \cup ToSet(todo')
      BY <2>0, <3>3, SetOfTail
    <3>5. \A d \in kept \cup seen : log'[d] = log[d]
      BY <2>0, <3>1 DEF Stamps
    <3>6. ChainIsTold'
      <4> SUFFICES ASSUME NEW n \in 1..head', n > origin' \/ (n = 1 /\ origin' = 1 /\ head' > 1)
                   PROVE  \/ Block(n)' \in ToSet(todo')
                          \/ \E d \in kept' \cup seen' : log'[d] = Block(n)'
        BY DEF ChainIsTold
      <4>1. Block(n)' = Block(n) /\ head' = head
        BY <3>1 DEF Block, head
      <4>2. CASE Block(n) \in ToSet(todo)
        BY <3>1, <3>2, <3>4, <4>1, <4>2
      <4>3. CASE \E d \in kept \cup seen : log[d] = Block(n)
        BY <3>1, <3>5, <4>1, <4>3
      <4> QED
        BY <3>1, <4>1, <4>2, <4>3 DEF ChainIsTold
    <3>7. SnapshotsTold'
      <4> SUFFICES ASSUME NEW k \in 1..Len(saved)
                   PROVE  Tells(log', saved[k] \cup seen', blocks', origin', lib' + k - 1)
        BY <3>1 DEF SnapshotsTold
      <4>1. \A d \in saved[k] \cup seen : log'[d] = log[d]
        BY <2>0, <3>1 DEF Stamps
      <4> QED
        BY <2>a, <3>1, <4>1, TellsStays
    <3> QED
      BY <3>6, <3>7
  <2>4. CASE Prune \/ Tell \/ Resume \/ UNCHANGED vars
    <3>1. /\ UNCHANGED <<saved, log, todo, blocks, origin, lib>>
          /\ seen \subseteq seen' /\ kept \cup seen \subseteq kept' \cup seen'
      <4>1. CASE Prune
        <5>1. PICK d \in kept : d \in seen /\ kept' = kept \ {d} /\ UNCHANGED <<saved, seen, blockVars>>
          BY <4>1, PruneDoes
        <5> QED
          BY <5>1 DEF blockVars, chain, past
      <4>2. CASE Tell
        BY <4>2, TellDoes DEF blockVars, chain, past
      <4>3. CASE Resume
        BY <4>3, ResumeDoes
      <4>4. CASE UNCHANGED vars
        BY <4>4 DEF vars, channel, blockVars, chain, past
      <4> QED
        BY <2>4, <4>1, <4>2, <4>3, <4>4
    <3>2. ChainIsTold'
      BY <3>1 DEF ChainIsTold, Block, head
    <3>3. SnapshotsTold'
      <4> SUFFICES ASSUME NEW k \in 1..Len(saved)
                   PROVE  Tells(log, saved[k] \cup seen', blocks, origin, lib + k - 1)
        BY <3>1 DEF SnapshotsTold
      <4>1. saved[k] \cup seen \subseteq saved[k] \cup seen'
        BY <3>1
      <4> QED
        BY <2>a, <4>1, TellsStays
    <3> QED
      BY <3>2, <3>3
  <2>5. CASE Begin
    <3>1. /\ ~pending /\ todo = <<>> /\ Len(saved') = Len(saved) + 1
          /\ saved'[Len(saved) + 1] = kept /\ \A k \in 1..Len(saved) : saved'[k] = saved[k]
          /\ UNCHANGED <<kept, seen, blocks, lib, todo, log, origin>>
      BY <2>5, BeginDoes
    <3>2. ChainIsTold'
      BY <3>1 DEF ChainIsTold, Block, head
    <3>3. Tells(log, kept \cup seen, blocks, origin, head)
      BY <3>1, IdleTells
    <3>4. SnapshotsTold'
      <4> SUFFICES ASSUME NEW k \in 1..(Len(saved) + 1)
                   PROVE  Tells(log, saved'[k] \cup seen, blocks, origin, lib + k - 1)
        BY <3>1 DEF SnapshotsTold
      <4>1. CASE k \in 1..Len(saved)
        BY <2>a, <3>1, <4>1
      <4>2. CASE k = Len(saved) + 1
        <5>1. lib + k - 1 = head
          BY <2>0, <3>1, <4>2
        <5> QED
          BY <3>1, <3>3, <4>2, <5>1
      <4> QED
        BY <2>0, <4>1, <4>2
    <3> QED
      BY <3>2, <3>4
  <2>6. CASE TakeBack
    <3>1. /\ todo' = <<>>
          /\ \/ pending /\ blocks' = blocks
             \/ ~pending /\ head > lib /\ head' = head - 1 /\ \A n \in 1..(head - 1) : blocks'[n] = blocks[n]
          /\ Len(saved) > 0 /\ Len(saved') = Len(saved) - 1
          /\ \A k \in 1..(Len(saved) - 1) : saved'[k] = saved[k]
          /\ kept' = saved[Len(saved)] /\ UNCHANGED <<seen, lib, log, origin>>
      BY <2>6, TakeBackDoes
    <3>2. lib + Len(saved) - 1 = head' /\ Len(saved) \in 1..Len(saved)
          /\ \A n \in 1..head' : blocks'[n] = blocks[n]
      BY <2>0, <3>1 DEF head
    <3>3. Tells(log, saved[Len(saved)] \cup seen, blocks, origin, head')
      <4>1. Tells(log, saved[Len(saved)] \cup seen, blocks, origin, lib + Len(saved) - 1)
        BY <2>a, <3>2
      <4> QED
        BY <3>2, <4>1
    <3>4. ChainIsTold'
      <4>1. Tells(log', kept' \cup seen', blocks', origin', head')
        BY <3>1, <3>2, <3>3, TellsStays
      <4> QED
        BY <2>b, <3>1, <4>1
    <3>5. SnapshotsTold'
      <4> SUFFICES ASSUME NEW k \in 1..(Len(saved) - 1)
                   PROVE  Tells(log, saved[k] \cup seen, blocks', origin, lib + k - 1)
        BY <3>1 DEF SnapshotsTold
      <4>1. k \in 1..Len(saved) /\ lib + k - 1 <= head'
        BY <2>0, <3>2
      <4>2. \A n \in 1..(lib + k - 1) : blocks'[n] = blocks[n]
        BY <2>0, <3>1, <3>2, <4>1
      <4> QED
        BY <2>a, <4>1, <4>2, TellsStays
    <3> QED
      BY <3>4, <3>5
  <2>7. CASE MakeFinal
    <3>1. /\ lib' = lib + 1 /\ Len(saved) > 0
          /\ Len(saved') = Len(saved) - 1 /\ \A k \in 1..(Len(saved) - 1) : saved'[k] = saved[k + 1]
          /\ UNCHANGED <<kept, seen, blocks, todo, log, origin>>
      BY <2>7, MakeFinalDoes
    <3>2. ChainIsTold'
      BY <3>1 DEF ChainIsTold, Block, head
    <3>3. SnapshotsTold'
      <4> SUFFICES ASSUME NEW k \in 1..(Len(saved) - 1)
                   PROVE  Tells(log, saved[k + 1] \cup seen, blocks, origin, lib + 1 + k - 1)
        BY <3>1 DEF SnapshotsTold
      <4>1. k + 1 \in 1..Len(saved) /\ lib + 1 + k - 1 = lib + (k + 1) - 1
        BY <2>0
      <4>2. Tells(log, saved[k + 1] \cup seen, blocks, origin, lib + (k + 1) - 1)
        BY <2>a, <4>1
      <4> QED
        BY <4>1, <4>2
    <3> QED
      BY <3>2, <3>3
  <2>8. CASE Anew
    <3>1. saved' = <<>> /\ origin' = head' /\ lib' = head' /\ todo = <<>> /\ todo' = todo
      BY <2>8, AnewDoes
    <3>2. Len(saved') = 0
      BY <3>1
    <3>3. head' \in Nat
      <4>1. blocks' = SubSeq(blocks, 1, 1) \/ blocks' = blocks
        BY <2>8 DEF Anew, RestartAnew
      <4>2. blocks \in Seq(Nat) /\ 1 <= Len(blocks)
        BY <2>0 DEF Types, head
      <4> QED
        BY <4>1, <4>2 DEF head
    <3>4. ChainIsTold'
      BY <3>1, <3>3 DEF ChainIsTold
    <3> QED
      BY <3>2, <3>4 DEF SnapshotsTold
  <2> QED
    BY <2>1, <2>2, <2>3, <2>4, <2>5, <2>6, <2>7, <2>8 DEF Next
<1> QED
  BY <1>1, <1>2, ChainHolds, ChannelHolds, PTL DEF Spec

----------------------------------------------------------------------------
(* A block is told after the block it builds on, and an irreversible block  *)
(* after that block.                                                        *)

\* In a chain that was there up to o, event e comes after another one: x is
\* that one.
Needs(e, o) ==
    \/ e.type = "block" /\ (e.num > o + 1 \/ (e.num = 2 /\ o = 1))
    \/ e.type = "irreversible" /\ (e.num > o \/ (e.num = 1 /\ o = 1))
Meets(x, e) ==
    \/ e.type = "block" /\ x.type = "block" /\ x.num = e.num - 1
    \/ e.type = "irreversible" /\ x = [e EXCEPT !.type = "block"]

\* What each of the stamps S needs was told (D) or is one of S before it.
Follows(l, S, D, o) ==
    \A d \in S : Needs(l[d], o) => \E c \in S \cup D : (c \in D \/ c < d) /\ Meets(l[c], l[d])

LEMMA FollowsStays ==
    ASSUME NEW l, NEW S, NEW D, NEW o, Follows(l, S, D, o),
           NEW m, NEW T, NEW E, T \subseteq S, S \subseteq T \cup E, D \subseteq E,
           \A d \in S \cup D : m[d] = l[d]
    PROVE  Follows(m, T, E, o)
<1> SUFFICES ASSUME NEW d \in T, Needs(m[d], o)
             PROVE  \E c \in T \cup E : (c \in E \/ c < d) /\ Meets(m[c], m[d])
  BY DEF Follows
<1>1. d \in S /\ m[d] = l[d]
  OBVIOUS
<1>2. PICK c \in S \cup D : (c \in D \/ c < d) /\ Meets(l[c], l[d])
  BY <1>1 DEF Follows
<1>3. Meets(m[c], m[d]) /\ c \in T \cup E /\ (c \in E \/ c < d)
  BY <1>1, <1>2
<1> QED
  BY <1>3

LEMMA FollowsMore ==
    ASSUME NEW l, NEW S, NEW D, NEW o, Follows(l, S, D, o),
           NEW m, \A d \in S \cup D : m[d] = l[d],
           NEW e, \A c \in S : c < e,
           Needs(m[e], o) => \E c \in S \cup D : Meets(m[c], m[e])
    PROVE  Follows(m, S \cup {e}, D, o)
<1> SUFFICES ASSUME NEW d \in S \cup {e}, Needs(m[d], o)
             PROVE  \E c \in S \cup {e} \cup D : (c \in D \/ c < d) /\ Meets(m[c], m[d])
  BY DEF Follows
<1>1. CASE d \in S
  <2>1. m[d] = l[d]
    BY <1>1
  <2>2. PICK c \in S \cup D : (c \in D \/ c < d) /\ Meets(l[c], l[d])
    BY <1>1, <2>1 DEF Follows
  <2>3. Meets(m[c], m[d])
    BY <2>1, <2>2
  <2> QED
    BY <2>2, <2>3
<1>2. CASE d = e
  <2>1. PICK c \in S \cup D : Meets(m[c], m[e])
    BY <1>2
  <2> QED
    BY <1>2, <2>1
<1> QED
  BY <1>1, <1>2

TodoFollows ==
    \A j \in 1..Len(todo) : Needs(todo[j], origin) =>
        \/ \E c \in kept \cup seen : Meets(log[c], todo[j])
        \/ \E i \in 1..(j - 1) : Meets(todo[i], todo[j])

ToldFollows ==
    \A j \in 1..Len(told) : Needs(log[told[j]], origin) =>
        \E i \in 1..(j - 1) : Meets(log[told[i]], log[told[j]])

\* Wherever an event is, what it needs is before it or was told.
ParentsFirst ==
    /\ Follows(log, kept, seen, origin)
    /\ Follows(log, ToSet(buf), seen, origin)
    /\ \A k \in 1..Len(saved) : Follows(log, saved[k], seen, origin)
    /\ TodoFollows
    /\ ToldFollows

\* An irreversible block needs the block that the chain has at its number.
LEMMA IrreversibleNeeds ==
    ASSUME NEW b, NEW n
    PROVE  Meets(BlockOf(b, n), IrreversibleOf(b, n))
BY DEF Meets, BlockOf, IrreversibleOf

LEMMA BlockNeeds ==
    ASSUME NEW b, NEW c, NEW n \in Nat
    PROVE  Meets(BlockOf(b, n), BlockOf(c, n + 1))
BY DEF Meets, BlockOf

\* What the events of an accepted block need was stashed before, or is among
\* them: the chain was told up to the head.
LEMMA AcceptFollows ==
    ASSUME Types, Numbers, AcceptBlock, Tells(log, kept \cup seen, blocks, origin, head),
           NEW j \in 1..Len(todo'), Needs(todo'[j], origin)
    PROVE  \/ \E c \in kept \cup seen : Meets(log[c], todo'[j])
           \/ \E i \in 1..(j - 1) : Meets(todo'[i], todo'[j])
<1>1. PICK k \in Nat, m \in 1..2 :
             /\ m = IF head' = 2 THEN 2 ELSE 1
             /\ head \in Nat /\ head' = head + 1
             /\ \A n \in 1..head : blocks'[n] = blocks[n]
             /\ todo'[m] = Block(head)'
             /\ m = 2 => todo'[1] = Block(1)'
             /\ \A i \in (m + 1)..Len(todo') : todo'[i] = Irreversible(k + i - m)' /\ k + i - m \in (k + 1)..lib
  BY AcceptMakes
<1>2. /\ lib \in Nat /\ origin \in Nat /\ 1 <= origin /\ lib <= head /\ origin <= lib
      /\ todo'[m] = BlockOf(blocks', head') /\ (m = 2 => todo'[1] = BlockOf(blocks', 1))
  BY <1>1 DEF Types, Numbers, Block
<1>3. CASE j = 1 /\ m = 2
  <2>1. todo'[j].type = "block" /\ todo'[j].num = 1
    BY <1>2, <1>3 DEF BlockOf
  <2> QED
    BY <1>2, <2>1 DEF Needs
<1>4. CASE j = m
  <2>1. todo'[j].type = "block" /\ todo'[j].num = head + 1 /\ todo'[j] = BlockOf(blocks', head + 1)
    BY <1>1, <1>2, <1>4 DEF BlockOf
  <2>2. head + 1 > origin + 1 \/ (head + 1 = 2 /\ origin = 1)
    BY <2>1 DEF Needs
  <2>3. CASE head > origin
    <3>0. head \in 1..head
      BY <1>1, <1>2, <2>3
    <3>1. PICK c \in kept \cup seen : log[c] = BlockOf(blocks, head)
      BY <2>3, <3>0 DEF Tells
    <3>2. Meets(log[c], todo'[j])
      BY <1>1, <2>1, <3>1, BlockNeeds
    <3> QED
      BY <3>2
  <2>4. CASE head + 1 = 2
    <3>1. m = 2 /\ todo'[1] = BlockOf(blocks', 1) /\ 1 \in 1..(j - 1)
      BY <1>1, <1>2, <1>4, <2>4
    <3>2. Meets(BlockOf(blocks', 1), BlockOf(blocks', 1 + 1))
      BY BlockNeeds
    <3>3. head + 1 = 1 + 1
      BY <2>4
    <3>4. Meets(todo'[1], todo'[j])
      BY <2>1, <3>1, <3>2, <3>3
    <3> QED
      BY <3>1, <3>4
  <2> QED
    BY <1>1, <1>2, <2>2, <2>3, <2>4
<1>5. CASE j \in (m + 1)..Len(todo')
  <2>1. PICK n \in (k + 1)..lib : n = k + j - m /\ todo'[j] = IrreversibleOf(blocks', n)
    BY <1>1, <1>5 DEF Irreversible
  <2>2. n \in 1..head /\ blocks'[n] = blocks[n]
    BY <1>1, <1>2, <2>1
  <2>3. todo'[j].type = "irreversible" /\ todo'[j].num = n
    BY <2>1 DEF IrreversibleOf
  <2>4. n > origin \/ (n = 1 /\ origin = 1)
    BY <2>3 DEF Needs
  <2>5. CASE n > origin \/ (n = 1 /\ origin = 1 /\ head > 1)
    <3>1. PICK c \in kept \cup seen : log[c] = BlockOf(blocks, n)
      BY <2>2, <2>5 DEF Tells
    <3>2. BlockOf(blocks, n) = BlockOf(blocks', n)
      BY <2>2 DEF BlockOf
    <3>3. Meets(log[c], todo'[j])
      BY <2>1, <3>1, <3>2, IrreversibleNeeds
    <3> QED
      BY <3>3
  <2>6. CASE n = 1 /\ ~ head > 1
    <3>1. m = 2 /\ 1 \in 1..(j - 1) /\ todo'[1] = BlockOf(blocks', n)
      BY <1>1, <1>2, <1>5, <2>2, <2>6
    <3>2. Meets(todo'[1], todo'[j])
      BY <2>1, <3>1, IrreversibleNeeds
    <3> QED
      BY <3>1, <3>2
  <2> QED
    BY <2>4, <2>5, <2>6
<1> QED
  BY <1>3, <1>4, <1>5

\* No listener hears of a block before its parent, nor of an irreversible block
\* before that very block.
THEOREM ParentsAreTold == Spec => []ParentBeforeChild
<1>1. Init => ParentsFirst
  <2> SUFFICES ASSUME Init PROVE ParentsFirst
    OBVIOUS
  <2>1. kept = {} /\ saved = <<>> /\ buf = <<>> /\ told = <<>> /\ todo = <<>>
    BY DEF Init, BlockInit, Channel!CInit
  <2>2. ToSet(buf) = {} /\ Len(saved) = 0 /\ Len(told) = 0 /\ Len(todo) = 0
    BY <2>1 DEF ToSet
  <2> QED
    BY <2>1, <2>2 DEF ParentsFirst, Follows, TodoFollows, ToldFollows
<1>2. Types /\ Numbers /\ Streams /\ Sessions /\ ChainIsTold /\ ParentsFirst /\ [Next]_vars
        => ParentsFirst'
  <2> SUFFICES ASSUME Types, Numbers, Streams, Sessions, ChainIsTold, ParentsFirst, [Next]_vars
               PROVE  ParentsFirst'
    OBVIOUS
  <2>0. /\ Len(log) \in Nat /\ Len(todo) \in Nat /\ Len(told) \in Nat /\ Len(buf) \in Nat
        /\ Len(saved) \in Nat
        /\ kept \subseteq Stamps /\ seen \subseteq Stamps /\ ToSet(buf) \subseteq Stamps
        /\ \A k \in 1..Len(saved) : saved[k] \subseteq Stamps
    <3>1. buf \in Seq(Nat) /\ \A i \in 1..Len(buf) : buf[i] \in Stamps
      BY DEF Streams
    <3>2. \A e : e \in ToSet(buf) <=> \E i \in 1..Len(buf) : e = buf[i]
      BY <3>1, ToSetIs
    <3>3. ToSet(buf) \subseteq Stamps
      BY <3>1, <3>2
    <3> QED
      BY <3>3 DEF Types, Streams
  <2>1. CASE Quiet(AcceptBlock)
    <3>1. AcceptBlock /\ UNCHANGED <<kept, saved, buf, seen, told, log, origin>> /\ todo = <<>>
      BY <2>1, QuietDoes DEF Quiet, AcceptBlock, Idle, past
    <3>2. Tells(log, kept \cup seen, blocks, origin, head)
      BY <3>1, IdleTells
    <3>3. TodoFollows'
      BY <3>1, <3>2, AcceptFollows DEF TodoFollows
    <3>4. ToldFollows'
      BY <3>1 DEF ParentsFirst, ToldFollows
    <3> QED
      BY <3>1, <3>3, <3>4 DEF ParentsFirst
  <2>2. CASE Quiet(Startup) \/ \E trace \in Traces : Quiet(OnAppliedTransaction(trace))
    <3>1. UNCHANGED <<kept, saved, buf, seen, told, log, origin>>
      BY <2>2, QuietDoes
    <3>2. todo' = <<>> \/ todo' = <<Transaction>>
      BY <2>2 DEF Quiet, Startup, OnAppliedTransaction, Idle
    <3>3. \A j \in 1..Len(todo') : ~ Needs(todo'[j], origin')
      <4>1. CASE todo' = <<>>
        BY <4>1
      <4>2. CASE todo' = <<Transaction>>
        BY <4>2 DEF Transaction, Needs
      <4> QED
        BY <3>2, <4>1, <4>2
    <3>4. TodoFollows'
      BY <3>3 DEF TodoFollows
    <3>5. ToldFollows'
      BY <3>1 DEF ParentsFirst, ToldFollows
    <3> QED
      BY <3>1, <3>4, <3>5 DEF ParentsFirst
  <2>3. CASE Stash
    <3> DEFINE e == Len(log) + 1
    <3>1. /\ Applied /\ kept' = kept \cup {e} /\ ToSet(buf') = ToSet(buf) \cup {e}
          /\ \A i \in 1..Len(log) : log'[i] = log[i]
          /\ UNCHANGED <<saved, seen, told, origin>>
      BY <2>3, StashDoes
    <3>2. /\ Len(todo) > 0 /\ Len(todo') = Len(todo) - 1 /\ log'[e] = todo[1]
          /\ \A j \in 1..(Len(todo) - 1) : todo'[j] = todo[j + 1]
      BY <3>1, AppliedMoves
    <3>3. \A d \in kept \cup seen \cup ToSet(buf) : log'[d] = log[d] /\ d < e
      <4>1. kept \cup seen \cup ToSet(buf) \subseteq 1..Len(log)
        BY <2>0 DEF Stamps
      <4>2. \A d \in 1..Len(log) : log'[d] = log[d] /\ d < e
        BY <2>0, <3>1
      <4> QED
        BY <4>1, <4>2
    <3> HIDE DEF e
    <3>4. Needs(log'[e], origin) => \E c \in kept \cup seen : Meets(log'[c], log'[e])
      <4> SUFFICES ASSUME Needs(log'[e], origin)
                   PROVE  \E c \in kept \cup seen : Meets(log'[c], log'[e])
        OBVIOUS
      <4>1. 1 \in 1..Len(todo) /\ \A i : i \notin 1..(1 - 1)
        BY <2>0, <3>2
      <4>2. PICK c \in kept \cup seen : Meets(log[c], todo[1])
        BY <3>2, <4>1 DEF ParentsFirst, TodoFollows
      <4> QED
        BY <3>2, <3>3, <4>2
    <3>5. Follows(log', kept', seen, origin)
      <4>1. Follows(log, kept, seen, origin)
        BY DEF ParentsFirst
      <4>2. \A d \in kept \cup seen : log'[d] = log[d]
        BY <3>3
      <4>3. \A c \in kept : c < e
        BY <3>3
      <4>4. Follows(log', kept \cup {e}, seen, origin)
        BY <3>4, <4>1, <4>2, <4>3, FollowsMore
      <4> QED
        BY <3>1, <4>4
    <3>6. Follows(log', ToSet(buf'), seen, origin)
      <4>1. Follows(log, ToSet(buf), seen, origin)
        BY DEF ParentsFirst
      <4>2. \A d \in ToSet(buf) \cup seen : log'[d] = log[d]
        BY <3>3
      <4>3. \A c \in ToSet(buf) : c < e
        BY <3>3
      <4>4. Needs(log'[e], origin) => \E c \in ToSet(buf) \cup seen : Meets(log'[c], log'[e])
        <5>1. kept \cup seen \subseteq ToSet(buf) \cup seen
          BY DEF Sessions
        <5> QED
          BY <3>4, <5>1
      <4>5. Follows(log', ToSet(buf) \cup {e}, seen, origin)
        BY <4>1, <4>2, <4>3, <4>4, FollowsMore
      <4> QED
        BY <3>1, <4>5
    <3>7. \A k \in 1..Len(saved) : Follows(log', saved[k], seen, origin)
      <4> SUFFICES ASSUME NEW k \in 1..Len(saved) PROVE Follows(log', saved[k], seen, origin)
        OBVIOUS
      <4>1. Follows(log, saved[k], seen, origin)
        BY DEF ParentsFirst
      <4>2. \A d \in saved[k] \cup seen : log'[d] = log[d]
        BY <2>0, <3>1 DEF Stamps
      <4> QED
        BY <4>1, <4>2, FollowsStays
    <3>8. TodoFollows'
      <4> SUFFICES ASSUME NEW j \in 1..Len(todo'), Needs(todo'[j], origin)
                   PROVE  \/ \E c \in kept' \cup seen' : Meets(log'[c], todo'[j])
                          \/ \E i \in 1..(j - 1) : Meets(todo'[i], todo'[j])
        BY <3>1 DEF TodoFollows
      <4>1. j + 1 \in 1..Len(todo) /\ todo'[j] = todo[j + 1] /\ j \in Nat
        BY <2>0, <3>2
      <4>2. CASE \E c \in kept \cup seen : Meets(log[c], todo[j + 1])
        <5>1. PICK c \in kept \cup seen : Meets(log[c], todo[j + 1])
          BY <4>2
        <5>2. c \in kept' \cup seen' /\ Meets(log'[c], todo'[j])
          BY <3>1, <3>3, <4>1, <5>1
        <5> QED
          BY <5>2
      <4>3. ASSUME NEW i \in 1..j, Meets(todo[i], todo[j + 1])
            PROVE  \/ \E c \in kept' \cup seen' : Meets(log'[c], todo'[j])
                   \/ \E l \in 1..(j - 1) : Meets(todo'[l], todo'[j])
        <5>1. CASE i = 1
          BY <3>1, <3>2, <4>1, <4>3, <5>1
        <5>2. CASE i # 1
          <6>1. i - 1 \in 1..(j - 1) /\ i - 1 \in 1..(Len(todo) - 1) /\ (i - 1) + 1 = i
            BY <2>0, <4>1, <5>2
          <6>2. Meets(todo'[i - 1], todo'[j])
            BY <3>2, <4>1, <4>3, <6>1
          <6> QED
            BY <6>1, <6>2
        <5> QED
          BY <5>1, <5>2
      <4>4. \/ \E c \in kept \cup seen : Meets(log[c], todo[j + 1])
            \/ \E i \in 1..((j + 1) - 1) : Meets(todo[i], todo[j + 1])
        BY <4>1 DEF ParentsFirst, TodoFollows
      <4>5. (j + 1) - 1 = j
        BY <4>1
      <4> QED
        BY <4>2, <4>3, <4>4, <4>5
    <3>9. ToldFollows'
      <4>1. \A j \in 1..Len(told) : log'[told[j]] = log[told[j]]
        <5>1. told \in Seq(Nat) /\ seen = ToSet(told)
          BY DEF Streams
        <5>2. \A j \in 1..Len(told) : told[j] \in seen
          BY <5>1, ToSetIs
        <5> QED
          BY <3>3, <5>2
      <4>2. \A j \in 1..Len(told) : 1..(j - 1) \subseteq 1..Len(told)
        BY <2>0
      <4> QED
        BY <3>1, <4>1, <4>2 DEF ParentsFirst, ToldFollows
    <3> QED
      BY <3>1, <3>5, <3>6, <3>7, <3>8, <3>9 DEF ParentsFirst
  <2>4. CASE Prune
    <3>1. PICK d \in kept : d \in seen /\ kept' = kept \ {d} /\ UNCHANGED <<saved, buf, seen, told, blockVars>>
      BY <2>4, PruneDoes
    <3>2. UNCHANGED <<log, todo, origin>> /\ kept' \cup seen = kept \cup seen
      BY <3>1 DEF blockVars, past
    <3>3. Follows(log, kept', seen, origin)
      <4>1. Follows(log, kept, seen, origin)
        BY DEF ParentsFirst
      <4>2. kept' \subseteq kept /\ kept \subseteq kept' \cup seen
        BY <3>1
      <4> QED
        BY <4>1, <4>2, FollowsStays
    <3>4. TodoFollows' /\ ToldFollows'
      BY <3>1, <3>2 DEF ParentsFirst, TodoFollows, ToldFollows
    <3> QED
      BY <3>1, <3>2, <3>3, <3>4 DEF ParentsFirst
  <2>5. CASE Tell
    <3>1. /\ Len(buf) > 0 /\ ToSet(buf) = {buf[1]} \cup ToSet(buf')
          /\ Len(told') = Len(told) + 1 /\ told'[Len(told) + 1] = buf[1]
          /\ \A i \in 1..Len(told) : told'[i] = told[i]
          /\ seen' = seen \cup {buf[1]}
          /\ UNCHANGED <<kept, saved, blockVars>>
      BY <2>5, TellDoes
    <3>2. UNCHANGED <<log, todo, origin>>
      BY <3>1 DEF blockVars, past
    <3>3. Follows(log, kept, seen', origin)
      <4>1. Follows(log, kept, seen, origin) /\ seen \subseteq seen'
        BY <3>1 DEF ParentsFirst
      <4> QED
        BY <4>1, FollowsStays
    <3>4. Follows(log, ToSet(buf'), seen', origin)
      <4>1. Follows(log, ToSet(buf), seen, origin) /\ seen \subseteq seen'
        BY <3>1 DEF ParentsFirst
      <4>2. ToSet(buf') \subseteq ToSet(buf) /\ ToSet(buf) \subseteq ToSet(buf') \cup seen'
        BY <3>1
      <4> QED
        BY <4>1, <4>2, FollowsStays
    <3>5. \A k \in 1..Len(saved) : Follows(log, saved[k], seen', origin)
      <4> SUFFICES ASSUME NEW k \in 1..Len(saved) PROVE Follows(log, saved[k], seen', origin)
        OBVIOUS
      <4>1. Follows(log, saved[k], seen, origin) /\ seen \subseteq seen'
        BY <3>1 DEF ParentsFirst
      <4> QED
        BY <4>1, FollowsStays
    <3>6. TodoFollows'
      BY <3>1, <3>2 DEF ParentsFirst, TodoFollows
    <3>7. Needs(log[buf[1]], origin) => \E i \in 1..Len(told) : Meets(log[told[i]], log[buf[1]])
      <4> SUFFICES ASSUME Needs(log[buf[1]], origin)
                   PROVE  \E i \in 1..Len(told) : Meets(log[told[i]], log[buf[1]])
        OBVIOUS
      <4>1. buf[1] \in ToSet(buf)
        BY <3>1
      <4>2. PICK c \in ToSet(buf) \cup seen : (c \in seen \/ c < buf[1]) /\ Meets(log[c], log[buf[1]])
        BY <4>1 DEF ParentsFirst, Follows
      <4>3. ASSUME c \in ToSet(buf) PROVE ~ c < buf[1]
        <5>1. PICK i \in 1..Len(buf) : c = buf[i]
          BY <4>3, ToSetIs DEF Streams
        <5>2. buf[i] \in Nat /\ buf[1] \in Nat
          BY <2>0, <3>1 DEF Streams
        <5>3. i = 1 \/ buf[1] < buf[i]
          <6>1. 1 \in 1..Len(buf) /\ (i = 1 \/ 1 < i)
            BY <2>0, <3>1
          <6> QED
            BY <6>1 DEF Streams
        <5> QED
          BY <5>1, <5>2, <5>3
      <4>4. c \in seen
        BY <4>2, <4>3
      <4>5. told \in Seq(Nat) /\ seen = ToSet(told)
        BY DEF Streams
      <4>6. PICK i \in 1..Len(told) : c = told[i]
        BY <4>4, <4>5, ToSetIs
      <4> QED
        BY <4>2, <4>6
    <3>8. ToldFollows'
      <4> SUFFICES ASSUME NEW j \in 1..Len(told'), Needs(log[told'[j]], origin)
                   PROVE  \E i \in 1..(j - 1) : Meets(log[told'[i]], log[told'[j]])
        BY <3>2 DEF ToldFollows
      <4>1. CASE j \in 1..Len(told)
        <5>0. \A i \in 1..(j - 1) : i \in 1..Len(told)
          BY <2>0, <4>1
        <5>1. told'[j] = told[j] /\ \A i \in 1..(j - 1) : told'[i] = told[i]
          BY <3>1, <4>1, <5>0
        <5>2. PICK i \in 1..(j - 1) : Meets(log[told[i]], log[told[j]])
          BY <4>1, <5>1 DEF ParentsFirst, ToldFollows
        <5> QED
          BY <5>1, <5>2
      <4>2. CASE j = Len(told) + 1
        <5>1. PICK i \in 1..Len(told) : Meets(log[told[i]], log[buf[1]])
          BY <3>1, <3>7, <4>2
        <5>2. i \in 1..(j - 1) /\ told'[i] = told[i] /\ told'[j] = buf[1]
          BY <2>0, <3>1, <4>2
        <5> QED
          BY <5>1, <5>2
      <4> QED
        BY <2>0, <3>1, <4>1, <4>2
    <3> QED
      BY <3>1, <3>2, <3>3, <3>4, <3>5, <3>6, <3>8 DEF ParentsFirst
  <2>6. CASE Begin
    <3>1. /\ todo = <<>> /\ Len(saved') = Len(saved) + 1
          /\ saved'[Len(saved) + 1] = kept /\ \A k \in 1..Len(saved) : saved'[k] = saved[k]
          /\ UNCHANGED <<kept, buf, seen, told, todo, log, origin>>
      BY <2>6, BeginDoes
    <3>2. \A k \in 1..Len(saved') : k \in 1..Len(saved) \/ (k = Len(saved) + 1 /\ saved'[k] = kept)
      BY <2>0, <3>1
    <3>3. \A k \in 1..Len(saved') : Follows(log, saved'[k], seen, origin)
      BY <3>1, <3>2 DEF ParentsFirst
    <3>4. TodoFollows' /\ ToldFollows'
      BY <3>1 DEF ParentsFirst, TodoFollows, ToldFollows
    <3> QED
      BY <3>1, <3>3, <3>4 DEF ParentsFirst
  <2>7. CASE TakeBack
    <3>1. /\ todo' = <<>> /\ Len(saved) > 0 /\ Len(saved') = Len(saved) - 1
          /\ \A k \in 1..(Len(saved) - 1) : saved'[k] = saved[k]
          /\ kept' = saved[Len(saved)] /\ UNCHANGED <<buf, seen, told, log, origin>>
      BY <2>7, TakeBackDoes
    <3>2. Len(saved) \in 1..Len(saved)
          /\ \A k \in 1..Len(saved') : k \in 1..Len(saved) /\ saved'[k] = saved[k]
      BY <2>0, <3>1
    <3>3. Follows(log, kept', seen, origin) /\ \A k \in 1..Len(saved') : Follows(log, saved'[k], seen, origin)
      BY <3>1, <3>2 DEF ParentsFirst
    <3>4. TodoFollows' /\ ToldFollows'
      <4>1. Len(todo') = 0
        BY <3>1
      <4> QED
        BY <3>1, <4>1 DEF ParentsFirst, TodoFollows, ToldFollows
    <3> QED
      BY <3>1, <3>3, <3>4 DEF ParentsFirst
  <2>8. CASE MakeFinal
    <3>1. /\ Len(saved') = Len(saved) - 1 /\ \A k \in 1..(Len(saved) - 1) : saved'[k] = saved[k + 1]
          /\ UNCHANGED <<kept, buf, seen, told, todo, log, origin>>
      BY <2>8, MakeFinalDoes
    <3>2. \A k \in 1..Len(saved') : k + 1 \in 1..Len(saved) /\ saved'[k] = saved[k + 1]
      BY <2>0, <3>1
    <3>3. \A k \in 1..Len(saved') : Follows(log, saved'[k], seen, origin)
      BY <3>1, <3>2 DEF ParentsFirst
    <3>4. TodoFollows' /\ ToldFollows'
      BY <3>1 DEF ParentsFirst, TodoFollows, ToldFollows
    <3> QED
      BY <3>1, <3>3, <3>4 DEF ParentsFirst
  <2>9. CASE Resume
    <3>1. /\ ToSet(buf') = kept /\ UNCHANGED <<kept, saved, seen, told, todo, log, origin>>
      BY <2>9, ResumeDoes
    <3>2. TodoFollows' /\ ToldFollows'
      BY <3>1 DEF ParentsFirst, TodoFollows, ToldFollows
    <3> QED
      BY <3>1, <3>2 DEF ParentsFirst
  <2>10. CASE Anew
    <3>1. /\ todo = <<>> /\ todo' = todo /\ kept' = {} /\ saved' = <<>> /\ buf' = <<>> /\ told' = <<>>
      BY <2>10, AnewDoes
    <3>2. ToSet(buf') = {} /\ Len(saved') = 0 /\ Len(told') = 0 /\ Len(todo') = 0
      BY <3>1 DEF ToSet
    <3> QED
      BY <3>1, <3>2 DEF ParentsFirst, Follows, TodoFollows, ToldFollows
  <2>11. CASE UNCHANGED vars
    <3>1. UNCHANGED <<kept, saved, buf, seen, told, todo, log, origin>>
      BY <2>11 DEF vars, channel, blockVars, past
    <3> QED
      BY <3>1 DEF ParentsFirst, TodoFollows, ToldFollows
  <2> QED
    BY <2>1, <2>2, <2>3, <2>4, <2>5, <2>6, <2>7, <2>8, <2>9, <2>10, <2>11 DEF Next
<1>3. Streams /\ ParentsFirst => ParentBeforeChild
  <2> SUFFICES ASSUME Streams, ParentsFirst, NEW i \in 1..Len(told)
               PROVE  LET e == Told[i]
                          Heard(n) == \E j \in 1..(i - 1) : Told[j].type = "block" /\ Told[j].num = n
                      IN  /\ e.type = "block" /\ (e.num > origin + 1 \/ (e.num = 2 /\ origin = 1)) => Heard(e.num - 1)
                          /\ e.type = "irreversible" /\ (e.num > origin \/ (e.num = 1 /\ origin = 1)) =>
                               \E j \in 1..(i - 1) : Told[j] = [e EXCEPT !.type = "block"]
    <3>1. DOMAIN told = 1..Len(told)
      BY DEF Streams
    <3> QED
      BY <3>1 DEF ParentBeforeChild
  <2>1. Len(told) \in Nat /\ \A j \in 1..Len(told) : Told[j] = log[told[j]]
    BY DEF Streams, Told
  <2>2. \A j \in 1..(i - 1) : j \in 1..Len(told)
    BY <2>1
  <2>3. Needs(Told[i], origin) => \E j \in 1..(i - 1) : Meets(Told[j], Told[i])
    BY <2>1, <2>2 DEF ParentsFirst, ToldFollows
  <2> QED
    BY <2>3 DEF Needs, Meets
<1> QED
  BY <1>1, <1>2, <1>3, ChainHolds, ChannelHolds, ChainIsComplete, PTL DEF Spec
============================================================================
