---------------------------- MODULE EpochProofs ----------------------------
(* Theorems about the window of epoch caches (EpochCache), for every length *)
(* of the window, every set of epochs and any number of generator threads.  *)
(* That of the entries holds while the window only starts where an epoch    *)
(* row says so or an action asks, which is when the process is warm: with   *)
(* Cold, a detached thread and the chain thread may both fill it.           *)
EXTENDS EpochCache, TLAPS, SequenceTheorems

Numbers == 0..(Modulus - 1)

ThreadStates == [pc : {"off", "enter", "compute"}, target : Numbers, epoch : Numbers]

LEMMA Sizes ==
    /\ VecSize \in Nat /\ UpdatePos \in Nat /\ Modulus \in Nat
    /\ 1 < UpdatePos /\ UpdatePos < VecSize /\ 2 * VecSize < Modulus
    /\ \A e \in Epochs : e \in Nat /\ e + 2 * VecSize < Modulus
BY WindowAssumption, EpochAssumption

----------------------------------------------------------------------------
\* uint64_t arithmetic, where it stays in range and where it wraps.
LEMMA WrapIs ==
    ASSUME NEW n \in Int
    PROVE  /\ Wrap(n) \in Numbers
           /\ n \in Numbers => Wrap(n) = n
           /\ n \in (-Modulus)..(-1) => Wrap(n) = n + Modulus
           /\ n \in Modulus..(2 * Modulus - 1) => Wrap(n) = n - Modulus
<1>1. Modulus \in Nat \ {0}
  BY Sizes
<1>2. Wrap(n) \in Numbers
  BY <1>1 DEF Wrap, Numbers
<1>3. ASSUME n \in Numbers PROVE Wrap(n) = n
  BY <1>1, <1>3 DEF Wrap, Numbers
<1>4. ASSUME n \in (-Modulus)..(-1) PROVE Wrap(n) = n + Modulus
  BY <1>1, <1>4 DEF Wrap
<1>5. ASSUME n \in Modulus..(2 * Modulus - 1) PROVE Wrap(n) = n - Modulus
  BY <1>1, <1>5 DEF Wrap
<1> QED
  BY <1>2, <1>3, <1>4, <1>5

\* The end of a window, which is shorter than the modulus.
LEMMA UpperIs ==
    ASSUME NEW l \in Numbers, NEW c \in Seq(Numbers), Len(c) <= VecSize
    PROVE  /\ Upper(l, c) \in Numbers
           /\ l + Len(c) < Modulus => Upper(l, c) = l + Len(c)
           /\ l + Len(c) >= Modulus => Upper(l, c) = l + Len(c) - Modulus
<1>1. Len(c) \in Nat
  OBVIOUS
<1>2. l \in Nat /\ l < Modulus
  BY Sizes DEF Numbers
<1>3. PICK n \in Int : n = l + Len(c)
  BY <1>1, <1>2
<1>4. n < Modulus => n \in Numbers
  BY <1>1, <1>2, <1>3, Sizes DEF Numbers
<1>5. n >= Modulus => n \in Modulus..(2 * Modulus - 1)
  BY <1>1, <1>2, <1>3, Sizes
<1>6. Upper(l, c) = Wrap(n)
  BY <1>3 DEF Upper
<1>7. Wrap(n) \in Numbers
  BY WrapIs
<1>8. n < Modulus => Wrap(n) = n
  BY <1>4, WrapIs
<1>9. n >= Modulus => Wrap(n) = n - Modulus
  BY <1>5, WrapIs
<1> QED
  BY <1>1, <1>2, <1>3, <1>6, <1>7, <1>8, <1>9, Sizes

\* A window start that is asked for is above 0, or counts as too low.
LEMMA StartIs ==
    ASSUME NEW e \in Nat, e + VecSize < Modulus
    PROVE  /\ e \in Numbers /\ Wrap(e - VecSize + 1) \in Numbers
           /\ e < VecSize => TooLow(Wrap(e - VecSize + 1))
           /\ e >= VecSize => Wrap(e - VecSize + 1) = e - VecSize + 1
<1> DEFINE n == e - VecSize + 1
<1>1. e \in Numbers /\ n \in Int
  BY Sizes DEF Numbers
<1>2. Wrap(n) \in Numbers
  BY <1>1, WrapIs
<1>3. CASE e >= VecSize
  <2>1. n \in Numbers
    BY <1>3, Sizes DEF Numbers
  <2>2. Wrap(n) = n
    BY <1>1, <2>1, WrapIs
  <2> QED
    BY <1>1, <1>2, <1>3, <2>2, Sizes
<1>4. CASE e = VecSize - 1
  <2>1. n = 0 /\ 0 \in Numbers
    BY <1>4, Sizes DEF Numbers
  <2>2. Wrap(n) = 0
    BY <1>1, <2>1, WrapIs
  <2> QED
    BY <1>1, <1>2, <1>4, <2>2, Sizes DEF TooLow
<1>5. CASE e < VecSize - 1
  <2>1. n \in (-Modulus)..(-1)
    BY <1>5, Sizes
  <2>2. Wrap(n) = n + Modulus
    BY <1>1, <2>1, WrapIs
  <2>3. Wrap(n) + VecSize - 1 = e + Modulus /\ e + Modulus \in Modulus..(2 * Modulus - 1)
    BY <1>5, <2>2, Sizes
  <2>4. e + Modulus \in Int
    BY Sizes
  <2>5. Wrap(e + Modulus) = e
    BY <2>3, <2>4, WrapIs, Sizes
  <2>6. e < Wrap(n)
    BY <1>5, <2>2, Sizes
  <2> HIDE DEF n
  <2>7. TooLow(Wrap(n))
    BY <2>3, <2>5, <2>6 DEF TooLow
  <2> QED
    BY <1>1, <1>2, <1>5, <2>7, Sizes DEF n
<1> QED
  BY <1>3, <1>4, <1>5, Sizes

----------------------------------------------------------------------------
\* What the parts of generate_epoch and start_epoch do.

LEMMA TypedWindow ==
    ASSUME TypeOK
    PROVE  /\ cache \in Seq(Numbers) /\ Len(cache) \in Nat
           /\ \A i \in 1..Len(cache) : cache[i] \in Numbers
           /\ lower \in Numbers /\ lower \in Nat
<1>1. cache \in Seq(Numbers) /\ lower \in Numbers
  BY DEF TypeOK, Numbers
<1>2. lower \in Nat
  BY <1>1, Sizes DEF Numbers
<1> QED
  BY <1>1, <1>2

LEMMA TypedThread ==
    ASSUME TypeOK, NEW t \in Threads
    PROVE  thread[t] \in ThreadStates /\ thread[t].pc \in {"off", "enter", "compute"}
           /\ thread[t].target \in Numbers /\ thread[t].epoch \in Numbers
BY DEF TypeOK, ThreadStates, Numbers

LEMMA ContinueDoes ==
    ASSUME TypeOK, NEW t \in Threads, NEW l \in Numbers,
           NEW c \in Seq(Numbers), Len(c) <= VecSize, Continue(t, l, c)
    PROVE  /\ thread' \in [Threads -> ThreadStates]
           /\ generating' \in BOOLEAN
           /\ \A u \in Threads : u # t => thread'[u] = thread[u]
           /\ \/ /\ Upper(l, c) <= thread[t].target
                 /\ thread'[t] = [pc |-> "compute", target |-> thread[t].target,
                                  epoch |-> Upper(l, c)]
                 /\ generating' = generating
              \/ /\ Upper(l, c) > thread[t].target
                 /\ thread'[t] = Off
                 /\ generating' = FALSE
<1>1. Upper(l, c) \in Numbers
  BY UpperIs
<1>2. thread[t].target \in Numbers
  BY TypedThread
<1>3. thread \in [Threads -> ThreadStates] /\ generating \in BOOLEAN
  BY DEF TypeOK, ThreadStates, Numbers
<1>4. Off \in ThreadStates
  BY Sizes DEF Off, ThreadStates, Numbers
<1> DEFINE on == [pc |-> "compute", target |-> thread[t].target, epoch |-> Upper(l, c)]
<1>5. on \in ThreadStates
  BY <1>1, <1>2 DEF ThreadStates
<1>6. CASE Upper(l, c) <= thread[t].target
  <2>1. thread' = [thread EXCEPT ![t] = on] /\ generating' = generating
    BY <1>6 DEF Continue
  <2> HIDE DEF on
  <2>2. thread' \in [Threads -> ThreadStates] /\ thread'[t] = on
        /\ \A u \in Threads : u # t => thread'[u] = thread[u]
    BY <1>3, <1>5, <2>1
  <2> QED
    BY <1>3, <1>6, <2>1, <2>2 DEF on
<1>7. CASE ~ (Upper(l, c) <= thread[t].target)
  <2>1. thread' = [thread EXCEPT ![t] = Off] /\ generating' = FALSE
    BY <1>7 DEF Continue
  <2>2. thread' \in [Threads -> ThreadStates] /\ thread'[t] = Off
        /\ \A u \in Threads : u # t => thread'[u] = thread[u]
    BY <1>3, <1>4, <2>1
  <2>3. Upper(l, c) > thread[t].target
    BY <1>1, <1>2, <1>7 DEF Numbers
  <2> QED
    BY <2>1, <2>2, <2>3
<1> QED
  BY <1>6, <1>7

\* The window after cache e: it is longer by one, or it has dropped its first.
LEMMA SlideDoes ==
    ASSUME TypeOK, Bounded, NEW e \in Numbers
    PROVE  LET w == Slide(Append(cache, e))
           IN  /\ w.start \in Numbers /\ w.caches \in Seq(Numbers)
               /\ \/ /\ Len(cache) < VecSize
                     /\ w.start = lower /\ Len(w.caches) = Len(cache) + 1
                     /\ \A i \in 1..Len(cache) : w.caches[i] = cache[i]
                     /\ w.caches[Len(cache) + 1] = e
                  \/ /\ Len(cache) = VecSize
                     /\ w.start = Wrap(lower + 1) /\ Len(w.caches) = VecSize
                     /\ \A i \in 1..(VecSize - 1) : w.caches[i] = cache[i + 1]
                     /\ w.caches[VecSize] = e
<1> DEFINE c == Append(cache, e)
           w == Slide(c)
<1>1. cache \in Seq(Numbers) /\ lower \in Numbers /\ Len(cache) \in Nat /\ Len(cache) <= VecSize
  <2>1. cache \in Seq(Numbers) /\ lower \in Numbers
    BY DEF TypeOK, Numbers
  <2> QED
    BY <2>1 DEF Bounded
<1>2. /\ c \in Seq(Numbers) /\ Len(c) = Len(cache) + 1 /\ c # <<>>
      /\ \A i \in 1..Len(cache) : c[i] = cache[i]
      /\ c[Len(cache) + 1] = e
  BY <1>1
<1> HIDE DEF c
<1>3. CASE Len(cache) < VecSize
  <2>1. w = [start |-> lower, caches |-> c]
    BY <1>1, <1>2, <1>3, Sizes DEF Slide
  <2> QED
    BY <1>1, <1>2, <1>3, <2>1 DEF c
<1>4. CASE Len(cache) = VecSize
  <2>1. w = [start |-> Wrap(lower + 1), caches |-> Tail(c)]
    BY <1>1, <1>2, <1>4, Sizes DEF Slide
  <2>2. /\ Tail(c) \in Seq(Numbers) /\ Len(Tail(c)) = Len(c) - 1
        /\ \A i \in 1..(Len(c) - 1) : Tail(c)[i] = c[i + 1]
    BY <1>2
  <2>3. Wrap(lower + 1) \in Numbers
    <3>1. lower + 1 \in Int
      BY <1>1 DEF Numbers
    <3> QED
      BY <3>1, WrapIs
  <2>4. \A i \in 1..(VecSize - 1) : Tail(c)[i] = cache[i + 1]
    <3> SUFFICES ASSUME NEW i \in 1..(VecSize - 1) PROVE Tail(c)[i] = cache[i + 1]
      OBVIOUS
    <3>1. i \in 1..(Len(c) - 1) /\ i + 1 \in 1..Len(cache)
      BY <1>2, <1>4, Sizes
    <3> QED
      BY <1>2, <2>2, <3>1
  <2>5. Tail(c)[VecSize] = e
    <3>1. VecSize \in 1..(Len(c) - 1) /\ VecSize + 1 = Len(cache) + 1
      BY <1>2, <1>4, Sizes
    <3> QED
      BY <1>2, <2>2, <3>1
  <2> QED
    BY <1>2, <1>4, <2>1, <2>2, <2>3, <2>4, <2>5, Sizes DEF c
<1> QED
  BY <1>1, <1>3, <1>4, Sizes

LEMMA StartEpochDoes ==
    ASSUME TypeOK, NEW e \in Nat, e + VecSize < Modulus, StartEpoch(e),
           NEW start, start = Wrap(e - VecSize + 1)
    PROVE  /\ start \in Numbers
           /\ row' = start /\ lower' = (IF lower = 0 THEN start ELSE lower)
           /\ lower' \in Numbers /\ floor' \in Numbers
           /\ floor <= floor' /\ start <= floor'
           /\ low' \in BOOLEAN /\ (low' <=> low \/ TooLow(start))
           /\ generating' \in BOOLEAN /\ thread' \in [Threads -> ThreadStates]
           /\ \/ thread' = thread /\ generating' = generating
              \/ /\ ~generating /\ generating'
                 /\ \E t \in Workers :
                      /\ thread'[t] = [pc |-> "enter", target |-> e, epoch |-> 0]
                      /\ \A u \in Threads : u # t => thread'[u] = thread[u]
<1>1. start \in Numbers /\ e \in Numbers
  BY StartIs
<1>2. lower \in Numbers /\ floor \in Numbers
  BY DEF TypeOK, Numbers
<1>3. row' = start /\ lower' = (IF lower = 0 THEN start ELSE lower)
  BY DEF StartEpoch
<1>4. floor' = Higher(floor, start)
  BY DEF StartEpoch
<1>5. floor' \in Numbers /\ floor <= floor' /\ start <= floor'
  BY <1>1, <1>2, <1>4, Sizes DEF Higher, Numbers
<1>6. low' \in BOOLEAN /\ (low' <=> low \/ TooLow(start))
  BY DEF StartEpoch, TypeOK
<1>7. thread \in [Threads -> ThreadStates] /\ generating \in BOOLEAN
  BY DEF TypeOK, ThreadStates, Numbers
<1>8. CASE ~ MustGenerate(e)
  <2>1. thread' = thread /\ generating' = generating
    BY <1>8 DEF StartEpoch
  <2> QED
    BY <1>1, <1>2, <1>3, <1>5, <1>6, <1>7, <2>1
<1>9. CASE MustGenerate(e)
  <2> DEFINE on == [pc |-> "enter", target |-> e, epoch |-> 0]
  <2>1. generating' = TRUE /\ ~generating
    BY <1>9 DEF StartEpoch, MustGenerate
  <2>2. PICK t \in Workers : thread' = [thread EXCEPT ![t] = on]
    BY <1>9 DEF StartEpoch
  <2>3. on \in ThreadStates /\ t \in Threads
    BY <1>1, Sizes DEF ThreadStates, Threads, Numbers
  <2> HIDE DEF on
  <2>4. thread' \in [Threads -> ThreadStates] /\ thread'[t] = on
        /\ \A u \in Threads : u # t => thread'[u] = thread[u]
    BY <1>7, <2>2, <2>3
  <2> QED
    BY <1>1, <1>2, <1>3, <1>5, <1>6, <2>1, <2>4 DEF on
<1> QED
  BY <1>8, <1>9

\* What the plugin does with the row r at the start of a process.
LEMMA BootDoes ==
    ASSUME NEW r \in -1..(Modulus - 1)
    PROVE  /\ BootThreads(r) \in [Threads -> ThreadStates]
           /\ \A t \in Workers : BootThreads(r)[t] = Off
           /\ r = None => BootThreads(r)[Main] = Off /\ BootPc(r) = "running"
           /\ r # None => /\ r \in Numbers /\ BootPc(r) = "starting"
                          /\ BootThreads(r)[Main] =
                               [pc |-> "enter", target |-> Wrap(r + VecSize - 1), epoch |-> 0]
           /\ Higher(0, r) \in Numbers /\ r <= Higher(0, r)
<1>1. r \in Int /\ r + VecSize - 1 \in Int
  BY Sizes
<1>2. Wrap(r + VecSize - 1) \in Numbers /\ 0 \in Numbers
  BY <1>1, WrapIs, Sizes DEF Numbers
<1>3. r # None => r \in Numbers
  BY Sizes DEF None, Numbers
<1>4. Higher(0, r) \in Numbers /\ r <= Higher(0, r)
  BY Sizes DEF Higher, Numbers
<1> DEFINE on == [pc |-> "enter", target |-> Wrap(r + VecSize - 1), epoch |-> 0]
<1>5. Off \in ThreadStates /\ on \in ThreadStates
  BY <1>2 DEF Off, ThreadStates
<1> HIDE DEF on
<1>6. BootThreads(r) = [t \in Threads |-> IF t = Main /\ r # None THEN on ELSE Off]
  BY DEF BootThreads, on
<1>7. BootThreads(r) \in [Threads -> ThreadStates]
  BY <1>5, <1>6
<1>8. Main \in Threads /\ \A t \in Workers : t \in Threads /\ t # Main
  BY ProcessAssumption DEF Threads, Main
<1>9. \A t \in Workers : BootThreads(r)[t] = Off
  BY <1>6, <1>8
<1>10. BootThreads(r)[Main] = IF r # None THEN on ELSE Off
  BY <1>6, <1>8
<1>11. BootPc(r) = IF r = None THEN "running" ELSE "starting"
  BY DEF BootPc
<1> QED
  BY <1>3, <1>4, <1>7, <1>9, <1>10, <1>11 DEF on

LEMMA BootIsTyped ==
    ASSUME NEW r \in -1..(Modulus - 1)
    PROVE  /\ BootThreads(r) \in [Threads -> ThreadStates]
           /\ BootThreads(r)[Main].pc # "off" => BootPc(r) = "starting"
           /\ BootPc(r) \in {"starting", "running"}
           /\ Higher(0, r) \in Numbers
<1>1. BootThreads(r) \in [Threads -> ThreadStates] /\ Higher(0, r) \in Numbers
  BY BootDoes
<1>2. CASE r = None
  <2>1. BootThreads(r)[Main] = Off /\ BootPc(r) = "running"
    BY <1>2, BootDoes
  <2> QED
    BY <1>1, <2>1 DEF Off
<1>3. CASE r # None
  <2>1. BootPc(r) = "starting"
    BY <1>3, BootDoes
  <2> QED
    BY <1>1, <2>1
<1> QED
  BY <1>2, <1>3

----------------------------------------------------------------------------
\* Type correctness, with the bound on the window: cold or warm, whoever fills
\* it, the window never outgrows epoch_vec_size.
THEOREM TypeCorrect == Spec => [](TypeOK /\ Bounded)
<1> USE DEF Numbers, ThreadStates
<1>1. Init => TypeOK /\ Bounded
  <2> SUFFICES ASSUME Init PROVE TypeOK /\ Bounded
    OBVIOUS
  <2>1. row \in -1..(Modulus - 1)
    BY Sizes DEF Init, None
  <2>2. /\ thread \in [Threads -> ThreadStates]
        /\ thread[Main].pc # "off" => mpc \in {"starting", "accepting"}
        /\ mpc \in {"starting", "running", "accepting", "verifying"}
        /\ floor \in 0..(Modulus - 1)
    <3>1. thread = BootThreads(row) /\ mpc = BootPc(row) /\ floor = Higher(0, row)
      BY DEF Init
    <3> QED
      BY <2>1, <3>1, BootIsTyped
  <2>3. lower \in 0..(Modulus - 1) /\ cache \in Seq(0..(Modulus - 1)) /\ Len(cache) = 0
    BY Sizes DEF Init
  <2>4. asked \in Epochs \cup {0} /\ pointer \in -1..(Modulus - 1) /\ restarts \in 0..MaxRestarts
    BY Sizes, ProcessAssumption DEF Init, None
  <2>5. generating \in BOOLEAN /\ initialized \in BOOLEAN /\ low \in BOOLEAN
        /\ answer \in {"none", "accepted", "rejected"} /\ kept = row
    BY DEF Init
  <2>6. Bounded
    BY <2>3, Sizes DEF Bounded
  <2> QED
    BY <2>1, <2>2, <2>3, <2>4, <2>5, <2>6 DEF TypeOK
<1>2. TypeOK /\ Bounded /\ [Next]_vars => TypeOK' /\ Bounded'
  <2> SUFFICES ASSUME TypeOK, Bounded, [Next]_vars
               PROVE  TypeOK' /\ Bounded'
    OBVIOUS
  <2>0. /\ Main \in Threads /\ \A t \in Workers : t \in Threads /\ t # Main
        /\ Len(cache) \in Nat
    <3>1. Main \in Threads /\ \A t \in Workers : t \in Threads /\ t # Main
      BY ProcessAssumption DEF Threads, Main
    <3>2. Len(cache) \in Nat
      BY TypedWindow
    <3> QED
      BY <3>1, <3>2
  <2>1. ASSUME NEW t \in Threads, Enter(t)
        PROVE  TypeOK' /\ Bounded'
    <3>1. lower' \in 0..(Modulus - 1)
      <4>1. thread[t].target - VecSize + 1 \in Int
        BY TypedThread, Sizes
      <4>2. Wrap(thread[t].target - VecSize + 1) \in 0..(Modulus - 1)
        BY <4>1, WrapIs
      <4> QED
        BY <2>1, <4>2 DEF Enter, TypeOK
    <3>2. Continue(t, lower', cache)
      BY <2>1 DEF Enter
    <3>3. cache \in Seq(0..(Modulus - 1)) /\ Len(cache) <= VecSize
      BY DEF TypeOK, Bounded
    <3>4. /\ thread' \in [Threads -> ThreadStates] /\ generating' \in BOOLEAN
          /\ \A u \in Threads : u # t => thread'[u] = thread[u]
      BY <3>1, <3>2, <3>3, ContinueDoes
    <3>5. thread[t].pc # "off"
      BY <2>1 DEF Enter
    <3>6. thread'[Main].pc # "off" => mpc \in {"starting", "accepting"}
      BY <2>0, <3>4, <3>5 DEF TypeOK
    <3> QED
      BY <2>1, <3>1, <3>3, <3>4, <3>6 DEF Enter, TypeOK, Bounded
  <2>2. ASSUME NEW t \in Threads, Store(t)
        PROVE  TypeOK' /\ Bounded'
    <3> DEFINE e == thread[t].epoch
               w == Slide(Append(cache, e))
    <3>1. e \in Numbers
      BY TypedThread
    <3>2. lower' = w.start /\ cache' = w.caches /\ Continue(t, lower', cache')
      BY <2>2 DEF Store
    <3>3. w.start \in 0..(Modulus - 1) /\ w.caches \in Seq(0..(Modulus - 1)) /\ Len(w.caches) <= VecSize
      <4> HIDE DEF e
      <4>1. /\ w.start \in Numbers /\ w.caches \in Seq(Numbers)
            /\ \/ Len(cache) < VecSize /\ Len(w.caches) = Len(cache) + 1
               \/ Len(w.caches) = VecSize
        BY <3>1, SlideDoes
      <4> HIDE DEF w
      <4> QED
        BY <2>0, <4>1, Sizes
    <3> HIDE DEF w
    <3>4. /\ thread' \in [Threads -> ThreadStates] /\ generating' \in BOOLEAN
          /\ \A u \in Threads : u # t => thread'[u] = thread[u]
      BY <3>2, <3>3, ContinueDoes
    <3>5. thread[t].pc # "off"
      BY <2>2 DEF Store
    <3>6. thread'[Main].pc # "off" => mpc \in {"starting", "accepting"}
      BY <2>0, <3>4, <3>5 DEF TypeOK
    <3> QED
      BY <2>2, <3>2, <3>3, <3>4, <3>6 DEF Store, TypeOK, Bounded
  <2>3. ASSUME NEW e \in Epochs, InitEthEpoch(e)
        PROVE  TypeOK' /\ Bounded'
    <3> DEFINE x == e + VecSize - 1
    <3>1. x \in Nat /\ x + VecSize < Modulus
      BY Sizes
    <3>2. StartEpoch(x)
      BY <2>3 DEF InitEthEpoch
    <3> HIDE DEF x
    <3>3. /\ row' \in Numbers /\ lower' \in Numbers /\ floor' \in Numbers
          /\ low' \in BOOLEAN /\ generating' \in BOOLEAN /\ thread' \in [Threads -> ThreadStates]
          /\ thread'[Main] = thread[Main]
      BY <2>0, <3>1, <3>2, StartEpochDoes
    <3>4. row' \in -1..(Modulus - 1)
      BY <3>3, Sizes
    <3> QED
      BY <2>3, <3>3, <3>4 DEF InitEthEpoch, TypeOK, Bounded
  <2>4. ASSUME NEW e \in Epochs, LookUp(e)
        PROVE  TypeOK' /\ Bounded'
    <3>1. pointer' \in -1..(Modulus - 1)
      <4>1. CASE ~Covers(e)
        BY <2>4, <4>1, Sizes DEF LookUp, None
      <4>2. CASE Covers(e)
        <5>0. lower \in 0..(Modulus - 1)
          BY DEF TypeOK
        <5>1. e \in Nat /\ lower \in Nat /\ lower <= e /\ Upper(lower, cache) > e
          BY <4>2, <5>0, Sizes DEF Covers
        <5>2. cache \in Seq(Numbers) /\ lower \in Numbers /\ Len(cache) <= VecSize
          BY DEF TypeOK, Bounded
        <5>3. Upper(lower, cache) = lower + Len(cache) \/ Upper(lower, cache) = lower + Len(cache) - Modulus
          BY <2>0, <5>1, <5>2, UpperIs, Sizes
        <5>4. PICK i \in 1..Len(cache) : i = e - lower + 1
          BY <2>0, <5>1, <5>2, <5>3, Sizes
        <5>5. cache[e - lower + 1] \in Numbers
          BY <5>4, TypedWindow
        <5> QED
          BY <2>4, <4>2, <5>5, Sizes DEF LookUp
      <4> QED
        BY <4>1, <4>2
    <3> QED
      BY <2>4, <3>1 DEF LookUp, TypeOK, Bounded, window
  <2>5. CASE Verify
    <3>1. PICK x \in Nat : x = Ahead(asked) /\ x + VecSize < Modulus
      <4>1. asked \in Epochs \cup {0}
        BY DEF TypeOK
      <4>2. asked \in Nat /\ asked + 2 * VecSize < Modulus
        BY <4>1, Sizes
      <4> QED
        BY <4>2, Sizes DEF Ahead
    <3>2. StartEpoch(x)
      BY <2>5, <3>1 DEF Verify
    <3>3. /\ row' \in Numbers /\ lower' \in Numbers /\ floor' \in Numbers
          /\ low' \in BOOLEAN /\ generating' \in BOOLEAN /\ thread' \in [Threads -> ThreadStates]
          /\ thread'[Main] = thread[Main]
      BY <2>0, <3>1, <3>2, StartEpochDoes
    <3>4. row' \in -1..(Modulus - 1) /\ -1 \in -1..(Modulus - 1)
      BY <3>3, Sizes
    <3>5. answer' \in {"accepted", "rejected"}
      BY <2>5 DEF Verify, Outcomes
    <3>6. thread'[Main].pc # "off" => mpc' \in {"starting", "accepting"}
      BY <2>5, <3>3 DEF Verify, TypeOK
    <3> QED
      BY <2>5, <3>3, <3>4, <3>5, <3>6 DEF Verify, TypeOK, Bounded, None
  <2>6. CASE AcceptFirstBlock
    <3>1. CASE cache = <<>> /\ row # None
      <4> DEFINE on == [pc |-> "enter", target |-> Wrap(row + VecSize - 1), epoch |-> 0]
      <4>0. row \in -1..(Modulus - 1)
        BY DEF TypeOK
      <4>1. row + VecSize - 1 \in Int
        BY <4>0, Sizes
      <4>2. Wrap(row + VecSize - 1) \in 0..(Modulus - 1) /\ 0 \in 0..(Modulus - 1)
        BY <4>1, WrapIs, Sizes
      <4>3. on \in ThreadStates
        BY <4>2
      <4>4. thread' = [thread EXCEPT ![Main] = on] /\ mpc' = "accepting" /\ initialized' = TRUE
        BY <2>6, <3>1 DEF AcceptFirstBlock
      <4> HIDE DEF on
      <4>5. thread' \in [Threads -> ThreadStates]
        BY <2>0, <4>3, <4>4 DEF TypeOK
      <4> QED
        BY <2>6, <4>4, <4>5 DEF AcceptFirstBlock, TypeOK, Bounded, window
    <3>2. CASE ~ (cache = <<>> /\ row # None)
      BY <2>6, <3>2 DEF AcceptFirstBlock, TypeOK, Bounded, window
    <3> QED
      BY <3>1, <3>2
  <2>7. CASE Restored
    BY <2>7 DEF Restored, TypeOK, Bounded, window
  <2>8. CASE CommitRow \/ RollBackRow
    BY <2>8 DEF CommitRow, RollBackRow, TypeOK, Bounded, window
  <2>9. CASE Restart
    <3>1. row' = kept /\ kept' = kept /\ row' \in -1..(Modulus - 1)
      BY <2>9 DEF Restart, TypeOK
    <3>2. mpc' = BootPc(row') /\ thread' = BootThreads(row') /\ floor' = Higher(0, row')
      BY <2>9 DEF Restart
    <3>3. /\ thread' \in [Threads -> ThreadStates]
          /\ thread'[Main].pc # "off" => mpc' \in {"starting", "accepting"}
          /\ mpc' \in {"starting", "running", "accepting", "verifying"}
          /\ floor' \in 0..(Modulus - 1)
      BY <3>1, <3>2, BootIsTyped
    <3>4. lower' \in 0..(Modulus - 1) /\ cache' \in Seq(0..(Modulus - 1)) /\ Len(cache') = 0
      BY <2>9, Sizes DEF Restart
    <3>5. asked' \in Epochs \cup {0} /\ pointer' \in -1..(Modulus - 1) /\ restarts' \in 0..MaxRestarts
      <4>1. restarts \in 0..MaxRestarts /\ MaxRestarts \in Nat
        BY ProcessAssumption DEF TypeOK
      <4> QED
        BY <2>9, <4>1, Sizes DEF Restart, None
    <3>6. generating' \in BOOLEAN /\ initialized' \in BOOLEAN /\ low' \in BOOLEAN
          /\ answer' \in {"none", "accepted", "rejected"}
      BY <2>9 DEF Restart
    <3>7. Bounded'
      BY <3>4, Sizes DEF Bounded
    <3> QED
      BY <3>1, <3>3, <3>4, <3>5, <3>6, <3>7 DEF TypeOK
  <2>10. CASE UNCHANGED vars
    BY <2>10 DEF vars, TypeOK, Bounded
  <2> QED
    BY <2>1, <2>2, <2>3, <2>4, <2>5, <2>6, <2>7, <2>8, <2>9, <2>10 DEF Next, Generate
<1> QED
  BY <1>1, <1>2, PTL DEF Spec

\* The window never outgrows epoch_vec_size, whoever fills it.
THEOREM WindowIsBounded == Spec => []Bounded
BY TypeCorrect, PTL

----------------------------------------------------------------------------
(* The window of a warm process, which was not asked for a start below 1:   *)
(* one generator at a time, that computes the epoch next to the window.     *)

Active(t) == thread[t].pc # "off"

\* The epoch row, here and in the state the chain may go back to, asks for a
\* window of the epochs there are, or for one that counts as too low.
RowFits(r) == r \in Numbers /\ (TooLow(r) \/ r + 2 * VecSize <= Modulus)
RowsFit == RowFits(row) /\ RowFits(kept)

OneGenerator ==
    /\ \A s, t \in Threads : Active(s) /\ Active(t) => s = t
    /\ ~generating => \A t \in Workers : ~Active(t)

\* The process fills its window before it runs, so that it never starts it
\* again: not with the first block, not when a header asks for it.
Phases ==
    /\ mpc # "accepting"
    /\ mpc = "starting" => ~generating /\ (cache = <<>> => Active(Main))
    /\ mpc # "starting" => cache # <<>>
    /\ lower = 0 => cache = <<>> /\ \A t \in Threads : thread[t].pc # "compute"
    /\ thread[Main].pc = "enter" => lower = 0 /\ cache = <<>>

\* A generator was asked for an epoch at the end of a window that floor knows,
\* and computes the one that follows the window.
Jobs ==
    \A t \in Threads : Active(t) =>
        /\ VecSize <= thread[t].target
        /\ thread[t].target < floor + VecSize
        /\ thread[t].target + VecSize < Modulus
        /\ thread[t].pc = "compute" => /\ thread[t].epoch = lower + Len(cache)
                                       /\ thread[t].epoch <= thread[t].target

\* The entries follow each other, and the window starts no later than asked.
Span ==
    /\ lower <= floor /\ lower + Len(cache) + VecSize <= Modulus
    /\ \A i \in 1..Len(cache) : cache[i] = lower + i - 1

\* The cache a verification uses is that of its epoch, which is in the window
\* or has been dropped from it.
Held == mpc = "verifying" /\ pointer # None => pointer = asked /\ asked < lower + Len(cache)

Window == OneGenerator /\ Phases /\ Jobs /\ Span /\ Held

LEMMA TypedFloor ==
    ASSUME TypeOK
    PROVE  floor \in Nat /\ Main \in Threads /\ \A t \in Workers : t \in Threads /\ t # Main
<1>1. floor \in Nat
  <2>1. floor \in 0..(Modulus - 1)
    BY DEF TypeOK
  <2> QED
    BY <2>1, Sizes
<1>2. Main \in Threads /\ \A t \in Workers : t \in Threads /\ t # Main
  BY ProcessAssumption DEF Threads, Main
<1> QED
  BY <1>1, <1>2

LEMMA TargetIsNat ==
    ASSUME TypeOK, NEW t \in Threads
    PROVE  thread[t].target \in Nat /\ thread[t].epoch \in Nat
<1>1. thread[t].target \in Numbers /\ thread[t].epoch \in Numbers
  BY TypedThread
<1> QED
  BY <1>1, Sizes DEF Numbers

\* The loop of generate_epoch goes on with the epoch next to the window, or the
\* last generator ends.
LEMMA GeneratorGoesOn ==
    ASSUME TypeOK, OneGenerator, Jobs, NEW t \in Threads, Active(t), floor' = floor,
           lower' \in Numbers, cache' \in Seq(Numbers), Len(cache') <= VecSize,
           lower' + Len(cache') < Modulus, Continue(t, lower', cache')
    PROVE  /\ OneGenerator' /\ Jobs'
           /\ \A u \in Threads : u # t => thread'[u] = thread[u] /\ ~Active(u)
           /\ thread'[t].pc # "enter"
           /\ lower' + Len(cache') <= thread[t].target => thread'[t].pc = "compute"
           /\ ~generating => ~generating'
<1>1. /\ \A u \in Threads : u # t => thread'[u] = thread[u]
      /\ \/ /\ Upper(lower', cache') <= thread[t].target
            /\ thread'[t] = [pc |-> "compute", target |-> thread[t].target,
                             epoch |-> Upper(lower', cache')]
            /\ generating' = generating
         \/ /\ Upper(lower', cache') > thread[t].target
            /\ thread'[t] = Off
            /\ generating' = FALSE
  BY ContinueDoes
<1>2. Upper(lower', cache') = lower' + Len(cache')
  BY UpperIs
<1>3. \A u \in Threads : u # t => ~Active(u)
  BY DEF OneGenerator
<1>4. \A u \in Threads : u # t => ~Active(u)'
  BY <1>1, <1>3 DEF Active
<1>5. Len(cache') \in Nat /\ lower' \in Nat /\ thread[t].target \in Nat
  BY TargetIsNat, Sizes DEF Numbers
<1>6. generating \in BOOLEAN
  BY DEF TypeOK
<1>7. CASE Upper(lower', cache') <= thread[t].target
  <2>1. thread'[t] = [pc |-> "compute", target |-> thread[t].target,
                      epoch |-> Upper(lower', cache')]
        /\ generating' = generating
    BY <1>1, <1>2, <1>5, <1>7
  <2>2. OneGenerator'
    <3>1. \A s, u \in Threads : Active(s)' /\ Active(u)' => s = u
      BY <1>4
    <3>2. ~generating' => \A u \in Workers : ~Active(u)'
      <4>1. ~generating => t \notin Workers
        BY DEF OneGenerator
      <4> QED
        BY <1>4, <2>1, <4>1, TypedFloor
    <3> QED
      BY <3>1, <3>2 DEF OneGenerator
  <2>3. Jobs'
    <3> SUFFICES ASSUME NEW u \in Threads, Active(u)'
                 PROVE  (/\ VecSize <= thread[u].target
                         /\ thread[u].target < floor + VecSize
                         /\ thread[u].target + VecSize < Modulus
                         /\ thread[u].pc = "compute" =>
                              /\ thread[u].epoch = lower + Len(cache)
                              /\ thread[u].epoch <= thread[u].target)'
      BY DEF Jobs
    <3>1. u = t
      BY <1>4
    <3>2. VecSize <= thread[t].target /\ thread[t].target < floor + VecSize
          /\ thread[t].target + VecSize < Modulus
      BY DEF Jobs
    <3>3. thread'[t].target = thread[t].target /\ thread'[t].epoch = lower' + Len(cache')
      BY <1>2, <2>1
    <3> QED
      BY <1>2, <1>7, <3>1, <3>2, <3>3
  <2>4. thread'[t].pc = "compute"
    BY <2>1
  <2> QED
    BY <1>1, <1>3, <2>1, <2>2, <2>3, <2>4
<1>8. CASE ~ (Upper(lower', cache') <= thread[t].target)
  <2>1. thread'[t] = Off /\ generating' = FALSE
    BY <1>1, <1>8
  <2>2. thread'[t].pc = "off"
    BY <2>1 DEF Off
  <2>3. \A u \in Threads : ~Active(u)'
    BY <1>4, <2>2 DEF Active
  <2>4. OneGenerator' /\ Jobs'
    BY <2>3, TypedFloor DEF OneGenerator, Jobs
  <2> QED
    BY <1>1, <1>2, <1>3, <1>8, <2>1, <2>2, <2>4
<1> QED
  BY <1>7, <1>8

LEMMA RowOfStart ==
    ASSUME NEW e \in Nat, e + VecSize < Modulus
    PROVE  RowFits(Wrap(e - VecSize + 1))
<1>1. Wrap(e - VecSize + 1) \in Numbers
  BY StartIs
<1>2. CASE e < VecSize
  BY <1>1, <1>2, StartIs DEF RowFits
<1>3. CASE e >= VecSize
  <2>1. Wrap(e - VecSize + 1) = e - VecSize + 1
    BY <1>3, StartIs
  <2> QED
    BY <1>1, <2>1, Sizes DEF RowFits
<1> QED
  BY <1>2, <1>3, Sizes

\* What a request leaves of the window of a process that runs.
LEMMA RequestKeeps ==
    ASSUME TypeOK, Window, mpc # "starting", NEW e \in Nat, e + VecSize < Modulus,
           StartEpoch(e), ~low', cache' = cache
    PROVE  /\ ~low /\ lower' = lower /\ lower # 0 /\ OneGenerator' /\ Jobs' /\ Span'
           /\ thread'[Main] = thread[Main] /\ thread[Main].pc = "off"
<1>1. PICK start : start = Wrap(e - VecSize + 1)
  OBVIOUS
<1>2. /\ start \in Numbers
      /\ lower' = (IF lower = 0 THEN start ELSE lower)
      /\ floor <= floor' /\ start <= floor' /\ floor' \in Numbers
      /\ low' <=> low \/ TooLow(start)
      /\ \/ thread' = thread /\ generating' = generating
         \/ /\ ~generating /\ generating'
            /\ \E t \in Workers :
                 /\ thread'[t] = [pc |-> "enter", target |-> e, epoch |-> 0]
                 /\ \A u \in Threads : u # t => thread'[u] = thread[u]
  BY <1>1, StartEpochDoes
<1>3. cache # <<>> /\ mpc \notin {"starting", "accepting"}
  BY DEF Window, Phases
<1>4. lower # 0 /\ lower' = lower
  BY <1>2, <1>3 DEF Window, Phases
<1>5. ~low /\ e >= VecSize /\ start = e - VecSize + 1
  BY <1>1, <1>2, StartIs, Sizes
<1>6. thread[Main].pc = "off"
  BY <1>3 DEF TypeOK
<1>7. floor \in Nat /\ floor' \in Nat /\ lower \in Nat /\ Len(cache) \in Nat
      /\ Main \in Threads /\ \A t \in Workers : t \in Threads /\ t # Main
  BY <1>2, TypedFloor, TypedWindow, Sizes DEF Numbers
<1>8. Span'
  BY <1>2, <1>4, <1>7 DEF Window, Span
<1>9. CASE thread' = thread /\ generating' = generating
  <2>1. OneGenerator'
    BY <1>9 DEF Window, OneGenerator, Active
  <2>2. Jobs'
    <3> SUFFICES ASSUME NEW u \in Threads, Active(u)
                 PROVE  /\ VecSize <= thread[u].target
                        /\ thread[u].target < floor' + VecSize
                        /\ thread[u].target + VecSize < Modulus
                        /\ thread[u].pc = "compute" =>
                             /\ thread[u].epoch = lower + Len(cache)
                             /\ thread[u].epoch <= thread[u].target
      BY <1>4, <1>9 DEF Jobs, Active
    <3> QED
      BY <1>2, <1>7, TargetIsNat, Sizes DEF Window, Jobs
  <2> QED
    BY <1>4, <1>5, <1>6, <1>8, <1>9, <2>1, <2>2
<1>10. ASSUME ~generating, generating', NEW t \in Workers,
              thread'[t] = [pc |-> "enter", target |-> e, epoch |-> 0],
              \A u \in Threads : u # t => thread'[u] = thread[u]
       PROVE  OneGenerator' /\ Jobs' /\ thread'[Main] = thread[Main]
  <2>1. \A u \in Threads : ~Active(u)
    <3>1. \A u \in Workers : ~Active(u)
      BY <1>10 DEF Window, OneGenerator
    <3> QED
      BY <1>6, <3>1 DEF Active, Threads
  <2>2. \A u \in Threads : Active(u)' => u = t
    BY <1>10, <2>1 DEF Active
  <2>3. OneGenerator'
    BY <1>10, <2>2 DEF OneGenerator
  <2>4. VecSize <= e /\ e < floor' + VecSize
    BY <1>2, <1>5, <1>7, Sizes
  <2>5. thread'[t].target = e /\ thread'[t].pc = "enter"
    BY <1>10
  <2>6. Jobs'
    BY <2>2, <2>4, <2>5 DEF Jobs
  <2> QED
    BY <1>7, <1>10, <2>3, <2>6
<1> QED
  BY <1>2, <1>4, <1>5, <1>6, <1>8, <1>9, <1>10

\* The epoch rows the chain may hold are those that start_epoch writes, or the
\* one a warm process finds first.
THEOREM RowsAreStarts ==
    ASSUME ~Cold
    PROVE  Spec => []RowsFit
<1>1. Init => RowsFit
  <2> SUFFICES ASSUME Init PROVE RowFits(row) /\ kept = row
    BY DEF RowsFit
  <2>1. row \in Epochs \ {0} /\ kept = row
    BY DEF Init
  <2>2. row \in Nat /\ row + 2 * VecSize < Modulus
    BY <2>1, Sizes
  <2>3. row \in Numbers
    BY <2>2, Sizes DEF Numbers
  <2> QED
    BY <2>1, <2>2, <2>3, Sizes DEF RowFits
<1>2. TypeOK /\ RowsFit /\ [Next]_vars => RowsFit'
  <2> SUFFICES ASSUME TypeOK, RowsFit, [Next]_vars
               PROVE  RowFits(row') /\ RowFits(kept')
    BY DEF RowsFit
  <2>1. ASSUME NEW e \in Epochs, InitEthEpoch(e)
        PROVE  RowFits(row') /\ RowFits(kept')
    <3>1. PICK x \in Nat : x = e + VecSize - 1 /\ x + VecSize < Modulus
      BY Sizes
    <3>2. StartEpoch(x) /\ kept' = kept
      BY <2>1, <3>1 DEF InitEthEpoch
    <3>3. row' = Wrap(x - VecSize + 1)
      BY <3>2 DEF StartEpoch
    <3> QED
      BY <3>1, <3>2, <3>3, RowOfStart DEF RowsFit
  <2>2. CASE Verify
    <3>1. asked \in Nat /\ asked + 2 * VecSize < Modulus
      <4>1. asked \in Epochs \cup {0}
        BY DEF TypeOK
      <4> QED
        BY <4>1, Sizes
    <3>2. PICK x \in Nat : x = Ahead(asked) /\ x + VecSize < Modulus
      BY <3>1, Sizes DEF Ahead
    <3>3. StartEpoch(x) /\ kept' = kept
      BY <2>2, <3>2 DEF Verify
    <3>4. row' = Wrap(x - VecSize + 1)
      BY <3>3 DEF StartEpoch
    <3> QED
      BY <3>2, <3>3, <3>4, RowOfStart DEF RowsFit
  <2>3. CASE CommitRow \/ RollBackRow \/ Restart
    BY <2>3 DEF CommitRow, RollBackRow, Restart, RowsFit
  <2>4. ASSUME NEW t \in Threads, Enter(t) \/ Store(t)
        PROVE  RowFits(row') /\ RowFits(kept')
    BY <2>4 DEF Enter, Store, RowsFit
  <2>5. ASSUME NEW e \in Epochs, LookUp(e)
        PROVE  RowFits(row') /\ RowFits(kept')
    BY <2>5 DEF LookUp, RowsFit
  <2>6. CASE AcceptFirstBlock \/ Restored \/ UNCHANGED vars
    BY <2>6 DEF AcceptFirstBlock, Restored, vars, RowsFit
  <2> QED
    BY <2>1, <2>2, <2>3, <2>4, <2>5, <2>6 DEF Next, Generate
<1> QED
  BY <1>1, <1>2, TypeCorrect, PTL DEF Spec

\* A process that finds a row which does not count as too low is warm: its
\* first generator is the chain thread.
Warm ==
    /\ TypeOK /\ RowFits(row) /\ ~TooLow(row)
    /\ mpc = BootPc(row) /\ thread = BootThreads(row) /\ floor = Higher(0, row)
    /\ lower = 0 /\ cache = <<>> /\ generating = FALSE

LEMMA WarmStart == Warm => Window
<1> SUFFICES ASSUME Warm PROVE Window
  OBVIOUS
<1>0. RowFits(row) /\ ~TooLow(row)
  BY DEF Warm
<1>1. row \in Nat /\ row # 0 /\ row + 2 * VecSize <= Modulus /\ row # None /\ row \in -1..(Modulus - 1)
  BY <1>0, Sizes DEF RowFits, Numbers, TooLow, None
<1>2. PICK x \in Nat : x = row + VecSize - 1
  BY <1>1, Sizes
<1>3. Wrap(x) = x
  <2>1. x \in Numbers
    BY <1>1, <1>2, Sizes DEF Numbers
  <2> QED
    BY <2>1, WrapIs
<1>4. /\ mpc = BootPc(row) /\ thread = BootThreads(row) /\ floor = Higher(0, row)
      /\ lower = 0 /\ cache = <<>> /\ ~generating
  BY DEF Warm
<1>5. /\ \A t \in Workers : thread[t] = Off
      /\ thread[Main] = [pc |-> "enter", target |-> x, epoch |-> 0]
      /\ mpc = "starting" /\ row <= floor /\ floor \in Numbers
  BY <1>1, <1>2, <1>3, <1>4, BootDoes
<1>6. \A t \in Threads : /\ Active(t) <=> t = Main
                         /\ thread[t].pc # "compute"
  BY <1>5, ProcessAssumption DEF Active, Off, Threads, Main
<1>7. OneGenerator
  BY <1>6, ProcessAssumption DEF OneGenerator, Threads, Main
<1>8. Phases
  BY <1>4, <1>5, <1>6 DEF Phases, Threads
<1>9. Jobs
  <2>1. VecSize <= x /\ x < floor + VecSize /\ x + VecSize < Modulus
    BY <1>1, <1>2, <1>5, Sizes DEF Numbers
  <2>2. thread[Main].target = x /\ thread[Main].pc = "enter"
    BY <1>5
  <2> QED
    BY <1>6, <2>1, <2>2 DEF Jobs
<1>10. Span
  <2>1. Len(cache) = 0 /\ floor \in Nat
    BY <1>4, <1>5, Sizes DEF Numbers
  <2> QED
    BY <1>4, <2>1, Sizes DEF Span
<1>11. Held
  BY <1>5 DEF Held
<1> QED
  BY <1>7, <1>8, <1>9, <1>10, <1>11 DEF Window

\* A process that starts warm and is not asked for too low a window keeps one.
THEOREM WindowHolds ==
    ASSUME ~Cold
    PROVE  Spec => [](~low => Window)
<1>1. Init /\ TypeOK /\ RowsFit => (~low => Window)
  <2> SUFFICES ASSUME Init, TypeOK, RowsFit PROVE Warm
    BY WarmStart
  <2>1. row \in Nat /\ row # 0 /\ row + 2 * VecSize < Modulus
    BY Sizes DEF Init
  <2>2. row + VecSize - 1 \in Numbers /\ row + VecSize - 1 \in Int
    BY <2>1, Sizes DEF Numbers
  <2>3. Wrap(row + VecSize - 1) = row + VecSize - 1
    BY <2>2, WrapIs
  <2>4. ~TooLow(row)
    BY <2>1, <2>3, Sizes DEF TooLow
  <2> QED
    BY <2>4 DEF Init, Warm, RowsFit
<1>2. (Warm => Window)'
  BY WarmStart, PTL
<1>3. TypeOK /\ TypeOK' /\ Bounded /\ RowsFit' /\ (~low => Window) /\ [Next]_vars => (~low => Window)'
  <2> SUFFICES ASSUME TypeOK, TypeOK', Bounded, RowsFit', ~low => Window, [Next]_vars, ~low'
               PROVE  Window'
    BY <1>2
  <2>0. /\ floor \in Nat /\ Main \in Threads /\ \A t \in Workers : t \in Threads /\ t # Main
        /\ lower \in Nat /\ Len(cache) \in Nat /\ Len(cache) <= VecSize
        /\ asked \in Nat /\ asked + 2 * VecSize < Modulus
    <3>1. asked \in Epochs \cup {0} /\ Len(cache) <= VecSize
      BY DEF TypeOK, Bounded
    <3>2. asked \in Nat /\ asked + 2 * VecSize < Modulus
      BY <3>1, Sizes
    <3> QED
      BY <3>1, <3>2, TypedFloor, TypedWindow
  <2>1. ASSUME NEW t \in Threads, Enter(t)
        PROVE  Window'
    <3>1. ~low /\ Window /\ floor' = floor /\ cache' = cache /\ mpc' = mpc /\ pointer' = pointer
          /\ asked' = asked
      BY <2>1 DEF Enter
    <3>2. Active(t) /\ thread[t].pc = "enter" /\ Continue(t, lower', cache')
      BY <2>1, <3>1 DEF Enter, Active
    <3>3. PICK x \in Nat : /\ x = thread[t].target /\ VecSize <= x
                           /\ x < floor + VecSize /\ x + VecSize < Modulus
      BY <3>1, <3>2, TargetIsNat DEF Window, Jobs
    <3>4. /\ lower' # 0 /\ lower' \in Nat /\ lower' <= floor
          /\ lower' + Len(cache) + VecSize <= Modulus
          /\ cache # <<>> => lower' = lower
          /\ t = Main => cache = <<>> /\ lower' <= x
          /\ t # Main => mpc # "starting" /\ cache # <<>>
      <4>1. CASE t = Main
        <5>1. lower = 0 /\ cache = <<>> /\ Len(cache) = 0
          BY <3>1, <3>2, <4>1 DEF Window, Phases
        <5>2. x - VecSize + 1 \in Numbers /\ x - VecSize + 1 \in Int
          BY <3>3, Sizes DEF Numbers
        <5>3. lower' = x - VecSize + 1
          BY <2>1, <3>3, <5>1, <5>2, WrapIs DEF Enter
        <5>4. lower' # 0 /\ lower' \in Nat /\ lower' <= floor /\ lower' <= x
          <6>1. \A v, f \in Nat : VecSize <= v /\ v < f + VecSize
                    => /\ v - VecSize + 1 # 0 /\ v - VecSize + 1 \in Nat
                       /\ v - VecSize + 1 <= f /\ v - VecSize + 1 <= v
            BY Sizes
          <6>2. floor \in Nat
            BY <2>0
          <6> QED
            BY <3>3, <5>3, <6>1, <6>2
        <5>5. lower' + Len(cache) + VecSize <= Modulus
          BY <3>3, <5>1, <5>3, Sizes
        <5> QED
          BY <4>1, <5>1, <5>4, <5>5
      <4>2. CASE t # Main
        <5>1. t \in Workers
          BY <4>2 DEF Threads
        <5>2. generating
          BY <3>1, <3>2, <5>1 DEF Window, OneGenerator
        <5>3. mpc # "starting" /\ cache # <<>> /\ lower # 0
          BY <3>1, <5>2 DEF Window, Phases
        <5>4. lower' = lower
          BY <2>1, <5>3 DEF Enter
        <5> QED
          BY <2>0, <3>1, <4>2, <5>3, <5>4 DEF Window, Span
      <4> QED
        BY <4>1, <4>2
    <3>5. lower' \in Numbers /\ cache' \in Seq(Numbers) /\ Len(cache') <= VecSize
          /\ lower' + Len(cache') < Modulus
      BY <2>0, <3>1, <3>4, TypedWindow, Sizes DEF Numbers
    <3>6. /\ OneGenerator' /\ Jobs'
          /\ \A u \in Threads : u # t => thread'[u] = thread[u] /\ ~Active(u)
          /\ thread'[t].pc # "enter"
          /\ lower' + Len(cache') <= thread[t].target => thread'[t].pc = "compute"
          /\ ~generating => ~generating'
      BY <3>1, <3>2, <3>5, GeneratorGoesOn DEF Window
    <3>7. Phases'
      <4>1. t = Main => thread'[Main].pc = "compute"
        <5>1. t = Main => Len(cache') = 0
          BY <3>1, <3>4
        <5> QED
          BY <3>3, <3>4, <3>6, <5>1
      <4>2. thread'[Main].pc # "enter"
        BY <2>0, <3>6 DEF Active
      <4> QED
        BY <3>1, <3>4, <3>6, <4>1, <4>2 DEF Window, Phases, Active
    <3>8. Span'
      BY <2>0, <3>1, <3>4 DEF Window, Span
    <3>9. Held'
      BY <3>1, <3>4 DEF Window, Held, Phases
    <3> QED
      BY <3>6, <3>7, <3>8, <3>9 DEF Window
  <2>2. ASSUME NEW t \in Threads, Store(t)
        PROVE  Window'
    <3> DEFINE e == thread[t].epoch
               w == Slide(Append(cache, e))
    <3>1. ~low /\ Window /\ floor' = floor /\ mpc' = mpc /\ pointer' = pointer /\ asked' = asked
      BY <2>2 DEF Store
    <3>2. /\ Active(t) /\ thread[t].pc = "compute"
          /\ lower' = w.start /\ cache' = w.caches /\ Continue(t, lower', cache')
      BY <2>2 DEF Store, Active
    <3>3. PICK x \in Nat : /\ x = thread[t].target
                           /\ x < floor + VecSize /\ x + VecSize < Modulus
                           /\ e = lower + Len(cache) /\ e <= x
      BY <3>1, <3>2, TargetIsNat DEF Window, Jobs
    <3>4. lower # 0
      BY <3>1, <3>2 DEF Window, Phases
    <3>5. e \in Numbers
      BY TypedThread
    <3>6. /\ lower' \in Numbers /\ cache' \in Seq(Numbers)
          /\ \/ /\ Len(cache) < VecSize
                /\ lower' = lower /\ Len(cache') = Len(cache) + 1
                /\ \A i \in 1..Len(cache) : cache'[i] = cache[i]
                /\ cache'[Len(cache) + 1] = e
             \/ /\ Len(cache) = VecSize
                /\ lower' = Wrap(lower + 1) /\ Len(cache') = VecSize
                /\ \A i \in 1..(VecSize - 1) : cache'[i] = cache[i + 1]
                /\ cache'[VecSize] = e
      <4> HIDE DEF e
      <4> QED
        BY <3>2, <3>5, SlideDoes
    <3> HIDE DEF e, w
    <3>7. \A i \in 1..Len(cache) : cache[i] = lower + i - 1
      BY <3>1 DEF Window, Span
    <3>8. /\ lower' # 0 /\ lower' \in Nat /\ lower' <= floor
          /\ lower' + Len(cache') = e + 1 /\ Len(cache') \in 1..VecSize
          /\ \A i \in 1..Len(cache') : cache'[i] = lower' + i - 1
      <4>1. CASE /\ Len(cache) < VecSize
                 /\ lower' = lower /\ Len(cache') = Len(cache) + 1
                 /\ \A i \in 1..Len(cache) : cache'[i] = cache[i]
                 /\ cache'[Len(cache) + 1] = e
        <5>1. lower <= floor
          BY <3>1 DEF Window, Span
        <5>2. \A i \in 1..Len(cache') : i \in 1..Len(cache) \/ i = Len(cache) + 1
          BY <2>0, <4>1
        <5>3. \A i \in 1..Len(cache') : cache'[i] = lower' + i - 1
          BY <2>0, <3>3, <3>7, <4>1, <5>2
        <5> QED
          BY <2>0, <3>3, <3>4, <4>1, <5>1, <5>3, Sizes
      <4>2. CASE /\ Len(cache) = VecSize
                 /\ lower' = Wrap(lower + 1) /\ Len(cache') = VecSize
                 /\ \A i \in 1..(VecSize - 1) : cache'[i] = cache[i + 1]
                 /\ cache'[VecSize] = e
        <5>1. lower + 1 <= floor /\ lower + 1 \in Numbers /\ lower + 1 \in Int
          BY <2>0, <3>3, <4>2, Sizes DEF Numbers
        <5>2. lower' = lower + 1
          BY <4>2, <5>1, WrapIs
        <5>3. \A i \in 1..(VecSize - 1) : cache'[i] = lower + (i + 1) - 1
          <6> SUFFICES ASSUME NEW i \in 1..(VecSize - 1) PROVE cache'[i] = lower + (i + 1) - 1
            OBVIOUS
          <6>1. i + 1 \in 1..Len(cache)
            BY <4>2, Sizes
          <6> QED
            BY <3>7, <4>2, <6>1
        <5>4. \A i \in 1..Len(cache') : i \in 1..(VecSize - 1) \/ i = VecSize
          BY <4>2, Sizes
        <5>5. \A i \in 1..Len(cache') : cache'[i] = lower' + i - 1
          <6> SUFFICES ASSUME NEW i \in 1..Len(cache') PROVE cache'[i] = lower' + i - 1
            OBVIOUS
          <6>1. CASE i \in 1..(VecSize - 1)
            BY <2>0, <5>2, <5>3, <6>1, Sizes
          <6>2. CASE i = VecSize
            <7>1. cache'[i] = lower + VecSize
              BY <3>3, <4>2, <6>2
            <7> QED
              BY <2>0, <5>2, <6>2, <7>1, Sizes
          <6> QED
            BY <5>4, <6>1, <6>2
        <5>6. Len(cache') \in 1..VecSize
          BY <4>2, Sizes
        <5>7. lower' + Len(cache') = e + 1
          <6>1. e = lower + VecSize
            BY <3>3, <4>2
          <6> QED
            BY <2>0, <4>2, <5>2, <6>1, Sizes
        <5>8. lower' # 0 /\ lower' \in Nat /\ lower' <= floor
          BY <2>0, <5>1, <5>2
        <5> QED
          BY <5>5, <5>6, <5>7, <5>8
      <4> QED
        BY <3>6, <4>1, <4>2
    <3>9. Len(cache') <= VecSize /\ lower' + Len(cache') < Modulus
          /\ lower' + Len(cache') + VecSize <= Modulus
      BY <2>0, <3>3, <3>5, <3>8, Sizes DEF Numbers
    <3>10. /\ OneGenerator' /\ Jobs'
           /\ \A u \in Threads : u # t => thread'[u] = thread[u] /\ ~Active(u)
           /\ thread'[t].pc # "enter"
           /\ ~generating => ~generating'
      BY <3>1, <3>2, <3>6, <3>9, GeneratorGoesOn DEF Window
    <3>11. cache' # <<>>
      BY <3>6, <3>8, EmptySeq
    <3>12. Phases'
      <4>1. thread'[Main].pc # "enter"
        BY <2>0, <3>10 DEF Active
      <4> QED
        BY <3>1, <3>8, <3>10, <3>11, <4>1 DEF Window, Phases
    <3>13. Span'
      BY <3>1, <3>8, <3>9 DEF Span
    <3>14. Held'
      BY <2>0, <3>1, <3>3, <3>8 DEF Window, Held
    <3> QED
      BY <3>10, <3>12, <3>13, <3>14 DEF Window
  <2>3. ASSUME NEW e \in Epochs, InitEthEpoch(e)
        PROVE  Window'
    <3>1. PICK x \in Nat : x = e + VecSize - 1 /\ x + VecSize < Modulus
      BY Sizes
    <3>2. /\ StartEpoch(x) /\ cache' = cache /\ mpc = "running" /\ mpc' = mpc
      BY <2>3, <3>1 DEF InitEthEpoch
    <3>3. low' <=> low \/ TooLow(Wrap(x - VecSize + 1))
      BY <3>2 DEF StartEpoch, TypeOK
    <3>4. ~low /\ Window
      BY <3>3
    <3>5. /\ lower' = lower /\ lower # 0 /\ OneGenerator' /\ Jobs' /\ Span'
          /\ thread'[Main] = thread[Main] /\ thread[Main].pc = "off"
      BY <3>1, <3>2, <3>4, RequestKeeps
    <3>6. Phases'
      BY <3>2, <3>4, <3>5 DEF Window, Phases
    <3>7. Held'
      BY <3>2 DEF Held
    <3> QED
      BY <3>5, <3>6, <3>7 DEF Window
  <2>4. ASSUME NEW e \in Epochs, LookUp(e)
        PROVE  Window'
    <3>1. ~low /\ Window /\ floor' = floor /\ cache' = cache /\ lower' = lower /\ thread' = thread
          /\ generating' = generating /\ mpc = "running" /\ mpc' = "verifying" /\ asked' = e
      BY <2>4 DEF LookUp, window
    <3>2. OneGenerator' /\ Jobs' /\ Span' /\ Phases'
      BY <3>1 DEF Window, OneGenerator, Jobs, Span, Phases, Active
    <3>3. ASSUME pointer' # None
          PROVE  pointer' = e /\ e < lower + Len(cache)
      <4>1. Covers(e) /\ pointer' = cache[e - lower + 1]
        BY <2>4, <3>3 DEF LookUp
      <4>2. lower + Len(cache) < Modulus
        BY <2>0, <3>1, Sizes DEF Window, Span
      <4>3. Upper(lower, cache) = lower + Len(cache)
        BY <2>0, <4>2, TypedWindow, UpperIs
      <4>4. e \in Nat /\ lower <= e /\ e < lower + Len(cache)
        BY <2>0, <4>1, <4>3, Sizes DEF Covers
      <4>5. PICK i \in 1..Len(cache) : i = e - lower + 1
        BY <2>0, <4>4
      <4>6. cache[i] = lower + i - 1
        BY <3>1 DEF Window, Span
      <4> QED
        BY <2>0, <4>1, <4>4, <4>5, <4>6
    <3>4. Held'
      BY <3>1, <3>3 DEF Held
    <3> QED
      BY <3>2, <3>4 DEF Window
  <2>5. CASE Verify
    <3>1. PICK x \in Nat : x = Ahead(asked) /\ x + VecSize < Modulus
      BY <2>0, Sizes DEF Ahead
    <3>2. /\ StartEpoch(x) /\ cache' = cache /\ mpc = "verifying" /\ mpc' = "running"
      BY <2>5, <3>1 DEF Verify
    <3>3. low' <=> low \/ TooLow(Wrap(x - VecSize + 1))
      BY <3>2 DEF StartEpoch, TypeOK
    <3>4. ~low /\ Window
      BY <3>3
    <3>5. /\ lower' = lower /\ lower # 0 /\ OneGenerator' /\ Jobs' /\ Span'
          /\ thread'[Main] = thread[Main] /\ thread[Main].pc = "off"
      BY <3>1, <3>2, <3>4, RequestKeeps
    <3>6. Phases'
      BY <3>2, <3>4, <3>5 DEF Window, Phases
    <3>7. Held'
      BY <3>2 DEF Held
    <3> QED
      BY <3>5, <3>6, <3>7 DEF Window
  <2>6. CASE AcceptFirstBlock
    <3>1. ~low /\ Window /\ mpc = "running"
      BY <2>6 DEF AcceptFirstBlock
    <3>2. cache # <<>>
      BY <3>1 DEF Window, Phases
    <3>3. mpc' = mpc /\ thread' = thread /\ UNCHANGED <<window, generating, asked, pointer, floor>>
      BY <2>6, <3>1, <3>2 DEF AcceptFirstBlock
    <3> QED
      BY <3>1, <3>3 DEF Window, OneGenerator, Jobs, Span, Phases, Active, Held, window
  <2>7. CASE Restored
    <3>1. ~low /\ Window /\ mpc' = "running" /\ mpc = "starting" /\ ~Active(Main)
      BY <2>7 DEF Restored, Active, Window, Phases
    <3>2. UNCHANGED <<window, generating, thread, asked, pointer, floor>>
      BY <2>7 DEF Restored
    <3>3. cache # <<>>
      BY <3>1 DEF Window, Phases
    <3> QED
      BY <3>1, <3>2, <3>3 DEF Window, OneGenerator, Jobs, Span, Phases, Active, Held, window
  <2>8. CASE CommitRow \/ RollBackRow \/ UNCHANGED vars
    <3>1. ~low /\ UNCHANGED <<window, generating, thread, mpc, asked, pointer, floor>>
      BY <2>8 DEF CommitRow, RollBackRow, vars, window
    <3> QED
      BY <3>1 DEF Window, OneGenerator, Jobs, Span, Phases, Active, Held, window
  <2>9. CASE Restart
    <3>1. RowFits(row')
      BY DEF RowsFit
    <3>2. row' # None
      BY <3>1, Sizes DEF RowFits, Numbers, None
    <3>3. ~TooLow(row')
      BY <2>9, <3>2 DEF Restart
    <3>4. Warm'
      BY <2>9, <3>1, <3>3 DEF Restart, Warm
    <3> QED
      BY <1>2, <3>4
  <2> QED
    BY <2>1, <2>2, <2>3, <2>4, <2>5, <2>6, <2>7, <2>8, <2>9 DEF Next, Generate
<1> QED
  BY <1>1, <1>3, TypeCorrect, RowsAreStarts, PTL DEF Spec

\* Entry i of the window is the cache of epoch lower_epoch + i, whatever the
\* generators, the headers and the rows of the chain do: verifyBlockHeader may
\* index the window by the epoch.
THEOREM EntriesAreAligned ==
    ASSUME ~Cold
    PROVE  Spec => []Aligned
<1>1. TypeOK /\ (~low => Window) => Aligned
  <2> SUFFICES ASSUME TypeOK, Window, NEW i \in DOMAIN cache
               PROVE  cache[i] = Wrap(lower + i - 1)
    BY DEF Aligned
  <2>1. i \in 1..Len(cache) /\ cache[i] = lower + i - 1 /\ cache[i] \in Numbers
    BY TypedWindow DEF Window, Span
  <2>2. lower + i - 1 \in Int /\ lower + i - 1 \in Numbers
    BY <2>1, TypedWindow
  <2> QED
    BY <2>1, <2>2, WrapIs
<1> QED
  BY <1>1, TypeCorrect, WindowHolds, PTL

\* No epoch is generated into the window twice, which line 289 asks of the
\* first block: a process that starts without a row breaks this.
THEOREM EpochsAreDistinct ==
    ASSUME ~Cold
    PROVE  Spec => [](low \/ InitializedOnce)
<1>1. TypeOK /\ (~low => Window) => (low \/ InitializedOnce)
  <2> SUFFICES ASSUME TypeOK, Window, NEW i \in DOMAIN cache, NEW j \in DOMAIN cache,
                      cache[i] = cache[j]
               PROVE  i = j
    BY DEF InitializedOnce
  <2>1. i \in 1..Len(cache) /\ j \in 1..Len(cache) /\ lower \in Nat
    BY TypedWindow
  <2>2. cache[i] = lower + i - 1 /\ cache[j] = lower + j - 1
    BY <2>1 DEF Window, Span
  <2>3. i \in Nat /\ j \in Nat
    BY <2>1
  <2>4. lower + i - 1 = lower + j - 1
    BY <2>2
  <2> QED
    BY <2>1, <2>3, <2>4
<1> QED
  BY <1>1, TypeCorrect, WindowHolds, PTL

\* A valid header is rejected only below a window start that was asked for or
\* above what was generated when it was looked up: the cache it is verified
\* with, looked up before and used without the mutex, is that of its epoch and
\* still there.
THEOREM RejectedIsOutside ==
    ASSUME ~Cold
    PROVE  Spec => RejectsOnlyOutside
<1>1. TypeOK /\ Bounded /\ (~low => Window) /\ [Next]_vars
        => [mpc = "running" /\ mpc' = "verifying" /\ pointer' = None
              => asked' < floor \/ low \/ Upper(lower, cache) <= asked']_vars
  <2> SUFFICES ASSUME TypeOK, Bounded, Window, [Next]_vars, mpc = "running", mpc' = "verifying", pointer' = None
               PROVE  asked' < floor \/ Upper(lower, cache) <= asked'
    OBVIOUS
  <2>1. PICK e \in Epochs : LookUp(e)
    BY DEF Next, Generate, Enter, Store, InitEthEpoch, Verify, AcceptFirstBlock, Restored,
      CommitRow, RollBackRow, Restart, BootPc, vars
  <2>2. asked' = e /\ e \in Nat
    BY <2>1, Sizes DEF LookUp
  <2>3. /\ lower \in Numbers /\ lower \in Nat /\ floor \in Nat /\ lower <= floor
        /\ cache \in Seq(Numbers) /\ Len(cache) \in Nat /\ Len(cache) <= VecSize
        /\ lower + Len(cache) + VecSize <= Modulus
    BY TypedWindow, TypedFloor DEF Window, Span, Bounded
  <2>4. Upper(lower, cache) = lower + Len(cache)
    <3>1. lower + Len(cache) < Modulus
      BY <2>3, Sizes
    <3> QED
      BY <2>3, <3>1, UpperIs
  <2>5. ASSUME Covers(e)
        PROVE  FALSE
    <3>1. cache[e - lower + 1] = None
      BY <2>1, <2>5 DEF LookUp
    <3>2. lower <= e /\ e < lower + Len(cache)
      BY <2>2, <2>3, <2>4, <2>5 DEF Covers
    <3>3. PICK i \in 1..Len(cache) : i = e - lower + 1
      BY <2>2, <2>3, <3>2
    <3>4. cache[i] \in Nat
      BY TypedWindow DEF Numbers
    <3> QED
      BY <3>1, <3>3, <3>4 DEF None
  <2> QED
    BY <2>2, <2>3, <2>4, <2>5 DEF Covers
<1>2. TypeOK /\ Bounded /\ (~low => Window) /\ [Next]_vars
        => [mpc = "verifying" /\ mpc' = "running" /\ pointer # None /\ answer' = "rejected"
              => asked < floor \/ low]_vars
  <2> SUFFICES ASSUME TypeOK, Bounded, Window, [Next]_vars, mpc = "verifying", mpc' = "running",
                      pointer # None, answer' = "rejected"
               PROVE  asked < floor
    OBVIOUS
  <2>1. Verify
    BY DEF Next, Generate, Enter, Store, InitEthEpoch, LookUp, AcceptFirstBlock, Restored,
      CommitRow, RollBackRow, Restart, vars
  <2>2. pointer # None /\ (Freed \/ pointer # asked)
    BY <2>1 DEF Verify, Outcomes
  <2>3. pointer = asked /\ asked < lower + Len(cache)
    BY <2>2 DEF Window, Held
  <2>4. \A i \in DOMAIN cache : cache[i] # asked
    BY <2>2, <2>3 DEF Freed
  <2>5. asked \in Nat /\ lower \in Nat /\ Len(cache) \in Nat /\ floor \in Nat /\ lower <= floor
    <3>1. asked \in Epochs \cup {0}
      BY DEF TypeOK
    <3>2. asked \in Nat
      BY <3>1, Sizes
    <3> QED
      BY <3>2, TypedWindow, TypedFloor DEF Window, Span
  <2>6. ASSUME lower <= asked
        PROVE  FALSE
    <3>1. PICK i \in 1..Len(cache) : i = asked - lower + 1
      BY <2>3, <2>5, <2>6
    <3>2. cache[i] = lower + i - 1 /\ i \in DOMAIN cache
      BY TypedWindow DEF Window, Span
    <3>3. cache[i] = asked
      BY <2>5, <3>1, <3>2
    <3> QED
      BY <2>4, <3>2, <3>3
  <2> QED
    BY <2>5, <2>6
<1> QED
  BY <1>1, <1>2, TypeCorrect, WindowHolds, PTL DEF Spec, RejectsOnlyOutside
=============================================================================
