----------------------------- MODULE EpochCache -----------------------------
(* The window of Ethereum epoch caches of the cross plugin                  *)
(* (src/src/cross/plugin/cross_plugin.cpp).  Actions of the cross contract  *)
(* ask for epochs and verify block headers on the chain thread; caches are  *)
(* computed by detached threads, or by the chain thread itself when the     *)
(* window is restored from the database.  The mutex epoch_mutex is released *)
(* while a cache is computed and while one is used.                         *)
(*                                                                          *)
(* A cache is named by the epoch it was computed for.  Headers are taken    *)
(* valid: verifying one with the cache of its epoch accepts it, with        *)
(* another cache rejects it, with a freed one may do either, and without a  *)
(* cache, because there is none yet or no longer, it is rejected as well:   *)
(* the contract is told the same of a header that is bad and of one that    *)
(* comes too early.                                                         *)
EXTENDS Integers, Sequences, FiniteSets

CONSTANTS
    VecSize,    \* epoch_vec_size: length of the window
    UpdatePos,  \* update_epoch_pos
    Modulus,    \* uint64_t arithmetic is modulo this
    Workers,    \* detached generator threads: a bound on their number
    Epochs,     \* bound: the epochs of the headers and requests
    Cold,       \* whether the process may start without the epoch row
    MaxRestarts \* bound: restarts of the process

ASSUME WindowAssumption ==
    /\ VecSize \in Nat /\ UpdatePos \in Nat
    /\ 1 < UpdatePos /\ UpdatePos < VecSize
ASSUME EpochAssumption ==
    /\ Modulus \in Nat /\ 2 * VecSize < Modulus /\ Epochs \subseteq Nat
    /\ \A e \in Epochs : e + 2 * VecSize < Modulus
ASSUME ProcessAssumption ==
    /\ Cold \in BOOLEAN /\ MaxRestarts \in Nat
    /\ Workers \subseteq Nat \ {0}

Main == 0           \* the chain thread
Threads == {Main} \cup Workers
None == -1          \* no epoch row; no cache pointer

VARIABLES
    lower,      \* lower_epoch
    cache,      \* cache_vec
    generating, \* is_generating
    initialized,\* epoch_initialized
    row,        \* the epoch row of the contract table, as the chain state has it
    kept,       \* the same row in the state the chain may be rolled back to
    thread,     \* where each thread is in generate_epoch
    mpc,        \* what the chain thread does
    asked,      \* the epoch of the header being verified
    pointer,    \* the cache the verification uses
    answer,     \* the outcome of the last verification
    floor,      \* history: the highest window start asked for in this process
    low,        \* history: whether this process was asked for a window start below 1
    restarts

vars == <<lower, cache, generating, initialized, row, kept, thread, mpc, asked,
          pointer, answer, floor, low, restarts>>
window == <<lower, cache>>

Wrap(n) == n % Modulus
Off == [pc |-> "off", target |-> 0, epoch |-> 0]
\* A window start that wrapped below 0, or is the 0 that stands for no window.
TooLow(start) == start = 0 \/ Wrap(start + VecSize - 1) < start
Higher(a, b) == IF a >= b THEN a ELSE b

\* lower_epoch + cache_vec.size(): the epoch to compute next.
Upper(l, c) == Wrap(l + Len(c))

\* The window holds a cache for epoch e.
Covers(e) == lower <= e /\ Upper(lower, cache) > e

----------------------------------------------------------------------------
(* generate_epoch                                                           *)

\* Mutant of Continue: is_generating is cleared by the caller only.
ContinueBusy(t, l, c) ==
    IF Upper(l, c) <= thread[t].target
    THEN /\ thread' = [thread EXCEPT ![t] = [pc |-> "compute", target |-> @.target,
                                              epoch |-> Upper(l, c)]]
         /\ UNCHANGED generating
    ELSE /\ thread' = [thread EXCEPT ![t] = Off]
         /\ UNCHANGED generating

\* Mutant of Continue: one epoch more than asked for is generated.
ContinueOneMore(t, l, c) ==
    IF Upper(l, c) <= thread[t].target + 1
    THEN /\ thread' = [thread EXCEPT ![t] = [pc |-> "compute", target |-> @.target,
                                              epoch |-> Upper(l, c)]]
         /\ UNCHANGED generating
    ELSE /\ thread' = [thread EXCEPT ![t] = Off]
         /\ generating' = FALSE

\* The loop of generate_epoch, from its condition to the next unlock: thread t
\* goes on computing or clears is_generating and returns.
Continue(t, l, c) ==
    IF Upper(l, c) <= thread[t].target
    THEN /\ thread' = [thread EXCEPT ![t] = [pc |-> "compute", target |-> @.target,
                                              epoch |-> Upper(l, c)]]
         /\ UNCHANGED generating
    ELSE /\ thread' = [thread EXCEPT ![t] = Off]
         /\ generating' = FALSE

Enter(t) ==
    /\ thread[t].pc = "enter"
    /\ lower' = IF lower = 0 THEN Wrap(thread[t].target - VecSize + 1) ELSE lower
    /\ Continue(t, lower', cache)
    /\ UNCHANGED <<cache, initialized, row, kept, mpc, asked, pointer, answer, floor, low, restarts>>

\* Mutant of Slide: the window is cut one too late.
SlideLate(c) ==
    IF Len(c) > VecSize + 1 THEN [start |-> Wrap(lower + 1), caches |-> Tail(c)]
                            ELSE [start |-> lower, caches |-> c]

\* Mutant of Slide: the start of the window does not follow the eviction.
SlideStays(c) ==
    IF Len(c) > VecSize THEN [start |-> lower, caches |-> Tail(c)]
                        ELSE [start |-> lower, caches |-> c]

\* A full window drops its first cache, and that cache is freed.
Slide(c) ==
    IF Len(c) > VecSize THEN [start |-> Wrap(lower + 1), caches |-> Tail(c)]
                        ELSE [start |-> lower, caches |-> c]

\* gencache has returned and the mutex is held again.
Store(t) ==
    /\ thread[t].pc = "compute"
    /\ LET w == Slide(Append(cache, thread[t].epoch))
       IN  lower' = w.start /\ cache' = w.caches
    /\ Continue(t, lower', cache')
    /\ UNCHANGED <<initialized, row, kept, mpc, asked, pointer, answer, floor, low, restarts>>

Generate == \E t \in Threads : Enter(t) \/ Store(t)

----------------------------------------------------------------------------
(* start_epoch: the row is written whatever the verification said, then the *)
(* window is started or extended by a detached thread.                      *)

MustGenerate(epoch) ==
    /\ ~generating
    /\ Upper(IF lower = 0 THEN Wrap(epoch - VecSize + 1) ELSE lower, cache) <= epoch

StartEpoch(epoch) ==
    LET start == Wrap(epoch - VecSize + 1) IN
    /\ row' = start
    /\ floor' = Higher(floor, start)
    /\ low' = (low \/ TooLow(start))
    /\ lower' = IF lower = 0 THEN start ELSE lower
    /\ IF MustGenerate(epoch)
       THEN /\ generating' = TRUE
            /\ \E t \in Workers :
                /\ thread[t].pc = "off"
                /\ thread' = [thread EXCEPT ![t] = [pc |-> "enter", target |-> epoch, epoch |-> 0]]
       ELSE UNCHANGED <<generating, thread>>

\* Action init_eth_epoch: asserts that the epoch is not 0.
InitEthEpoch(e) ==
    /\ mpc = "running" /\ e # 0
    /\ StartEpoch(e + VecSize - 1)
    /\ UNCHANGED <<cache, initialized, kept, mpc, asked, pointer, answer, restarts>>

\* Actions verify_header and verify_header_v2: look the cache up under the
\* mutex, keep the raw pointer.
LookUp(e) ==
    /\ mpc = "running"
    /\ mpc' = "verifying"
    /\ asked' = e
    /\ pointer' = IF Covers(e) THEN cache[e - lower + 1] ELSE None
    /\ UNCHANGED <<window, generating, initialized, row, kept, thread, answer, floor, low, restarts>>

Freed == pointer # None /\ \A i \in DOMAIN cache : cache[i] # pointer

Outcomes ==
    IF pointer = None THEN {"rejected"}
    ELSE IF Freed THEN {"accepted", "rejected"}
    ELSE IF pointer = asked THEN {"accepted"} ELSE {"rejected"}

\* The epoch the window shall reach once a header of epoch e was seen.
Ahead(e) == e + (VecSize - UpdatePos)

Verify ==
    /\ mpc = "verifying"
    /\ answer' \in Outcomes
    /\ mpc' = "running"
    /\ pointer' = None
    /\ StartEpoch(Ahead(asked))
    /\ UNCHANGED <<cache, initialized, kept, asked, restarts>>

----------------------------------------------------------------------------
(* The first accepted block, and the chain state the row lives in.          *)

\* on_accepted_block: an empty window is restored by the chain thread itself,
\* which does not set is_generating.
AcceptFirstBlock ==
    /\ mpc = "running" /\ ~initialized
    /\ IF cache = <<>> /\ row # None
       THEN /\ mpc' = "accepting"
            /\ thread' = [thread EXCEPT ![Main] =
                   [pc |-> "enter", target |-> Wrap(row + VecSize - 1), epoch |-> 0]]
       ELSE mpc' = "running" /\ UNCHANGED thread
    /\ initialized' = TRUE
    /\ UNCHANGED <<window, generating, row, kept, asked, pointer, answer, floor, low, restarts>>

\* Mutant of Restored: the window is restored by a detached thread.
RestoredAtOnce ==
    /\ mpc \in {"starting", "accepting"}
    /\ mpc' = "running"
    /\ UNCHANGED <<window, generating, initialized, row, kept, thread, asked, pointer,
                   answer, floor, low, restarts>>

\* The chain thread returns from generate_epoch.
Restored ==
    /\ mpc \in {"starting", "accepting"} /\ thread[Main].pc = "off"
    /\ mpc' = "running"
    /\ UNCHANGED <<window, generating, initialized, row, kept, thread, asked, pointer,
                   answer, floor, low, restarts>>

\* The chain commits or rolls back what actions wrote (external).
CommitRow ==
    /\ mpc = "running" /\ kept # row
    /\ kept' = row
    /\ UNCHANGED <<window, generating, initialized, row, thread, mpc, asked, pointer,
                   answer, floor, low, restarts>>

RollBackRow ==
    /\ mpc = "running" /\ kept # row
    /\ row' = kept
    /\ UNCHANGED <<window, generating, initialized, kept, thread, mpc, asked, pointer,
                   answer, floor, low, restarts>>

\* register_plugin_map at the start of a process whose database has row r: the
\* chain thread restores the window before anything else runs.
BootPc(r) == IF r = None THEN "running" ELSE "starting"
BootThreads(r) ==
    [t \in Threads |->
        IF t = Main /\ r # None
        THEN [pc |-> "enter", target |-> Wrap(r + VecSize - 1), epoch |-> 0]
        ELSE Off]

Init ==
    /\ row \in (Epochs \ {0}) \cup (IF Cold THEN {None} ELSE {})
    /\ kept = row
    /\ lower = 0 /\ cache = <<>> /\ generating = FALSE /\ initialized = FALSE
    /\ mpc = BootPc(row) /\ thread = BootThreads(row)
    /\ asked = 0 /\ pointer = None /\ answer = "none"
    /\ floor = Higher(0, row)
    /\ low = FALSE
    /\ restarts = 0

Restart ==
    /\ mpc = "running" /\ restarts < MaxRestarts
    /\ restarts' = restarts + 1
    /\ row' = kept /\ kept' = kept
    /\ lower' = 0 /\ cache' = <<>> /\ generating' = FALSE /\ initialized' = FALSE
    /\ mpc' = BootPc(row') /\ thread' = BootThreads(row')
    /\ asked' = 0 /\ pointer' = None /\ answer' = "none"
    /\ floor' = Higher(0, row')
    /\ low' = (row' # None /\ TooLow(row'))

Next ==
    \/ Generate
    \/ \E e \in Epochs : InitEthEpoch(e) \/ LookUp(e)
    \/ Verify
    \/ AcceptFirstBlock \/ Restored
    \/ CommitRow \/ RollBackRow \/ Restart

Spec == Init /\ [][Next]_vars

\* gencache terminates and threads are scheduled; calls return.
FairSpec == Spec /\ WF_vars(Generate) /\ WF_vars(Verify) /\ WF_vars(Restored)

----------------------------------------------------------------------------
(* Properties.                                                              *)

\* Every variable has its type, and the chain thread computes a cache only
\* while it restores the window.
TypeOK ==
    /\ thread[Main].pc # "off" => mpc \in {"starting", "accepting"}
    /\ lower \in 0..(Modulus - 1) /\ cache \in Seq(0..(Modulus - 1))
    /\ generating \in BOOLEAN /\ initialized \in BOOLEAN
    /\ row \in -1..(Modulus - 1) /\ kept \in -1..(Modulus - 1)
    /\ thread \in [Threads -> [pc : {"off", "enter", "compute"},
                               target : 0..(Modulus - 1), epoch : 0..(Modulus - 1)]]
    /\ mpc \in {"starting", "running", "accepting", "verifying"}
    /\ asked \in Epochs \cup {0} /\ pointer \in -1..(Modulus - 1)
    /\ answer \in {"none", "accepted", "rejected"}
    /\ floor \in 0..(Modulus - 1) /\ low \in BOOLEAN /\ restarts \in 0..MaxRestarts

\* Entry i of the window is the cache of epoch lower_epoch + i, which is what
\* verifyBlockHeader relies on when it indexes the window, in every process but
\* one that a header of epoch 0 or 1 asked for a window that would begin below 1.
Aligned == ~low => \A i \in DOMAIN cache : cache[i] = Wrap(lower + i - 1)

\* The window never outgrows epoch_vec_size.
Bounded == Len(cache) <= VecSize

\* A valid header is rejected only if its epoch is below a window start that
\* was asked for, or this process had not generated it when the header was
\* looked up: update_epoch_pos keeps the epoch before the newest one in the
\* window, so its cache is not freed while it is used.
RejectsOnlyOutside ==
    [][/\ mpc = "running" /\ mpc' = "verifying" /\ pointer' = None
            => asked' < floor \/ low \/ Upper(lower, cache) <= asked'
       /\ mpc = "verifying" /\ mpc' = "running" /\ pointer # None /\ answer' = "rejected"
            => asked < floor \/ low]_vars

\* "Only initialize once when receiving the first block event" (line 289): no
\* epoch is generated into the window twice.
InitializedOnce == \A i, j \in DOMAIN cache : cache[i] = cache[j] => i = j

\* An epoch whose headers are verified again and again is in the end within
\* the window or below it, although a request that comes while a generator is
\* at work starts none: generators end, and is_generating with them.
Served ==
    \A e \in Epochs :
        ([]<>(mpc = "verifying" /\ asked = e) /\ <>[]~low) => []<>(Upper(lower, cache) > e)
=============================================================================
