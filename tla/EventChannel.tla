---------------------------- MODULE EventChannel ----------------------------
(* What the emitter plugin promises: a bounded first-in first-out channel   *)
(* from the chain to the listeners.  Events carry increasing stamps.  The   *)
(* channel keeps the events that were not delivered, and perhaps some that  *)
(* were; what it keeps is rolled back with the chain, what it is about to   *)
(* deliver is not.  A new process delivers what was kept, in order.         *)
EXTENDS Integers, Sequences, FiniteSets

CONSTANTS Capacity, Stamps

VARIABLES
    kept,   \* what a new process would deliver
    saved,  \* what was kept when each open session of the chain began, oldest first
    buf,    \* accepted and not yet handed to the listeners
    out,    \* handed to the listeners by this process, in order
    seen,   \* handed to the listeners by any process
    opened  \* how often the channel was opened again

cvars == <<kept, saved, buf, out, seen, opened>>

\* The sequences that list S in order.
Listings(S) == {s \in [1..Cardinality(S) -> S] : \A i, j \in DOMAIN s : i < j => s[i] < s[j]}

CInit == kept = {} /\ saved = <<>> /\ buf = <<>> /\ out = <<>> /\ seen = {} /\ opened = 0

\* A new event is kept and on its way.
Put(d) ==
    /\ Len(buf) < Capacity /\ Cardinality(kept) < Capacity
    /\ \A e \in kept \cup seen \cup {buf[i] : i \in DOMAIN buf} : e < d
    /\ buf' = Append(buf, d)
    /\ kept' = kept \cup {d}
    /\ UNCHANGED <<saved, out, seen, opened>>

Get ==
    /\ buf # <<>>
    /\ out' = Append(out, Head(buf))
    /\ seen' = seen \cup {Head(buf)}
    /\ buf' = Tail(buf)
    /\ UNCHANGED <<kept, saved, opened>>

\* The oldest event is no longer kept once it was delivered.
Forget(d) ==
    /\ d \in kept \cap seen /\ \A e \in kept : d <= e
    /\ kept' = kept \ {d}
    /\ UNCHANGED <<saved, buf, out, seen, opened>>

\* Sessions of the chain.
Save ==
    /\ saved' = Append(saved, kept)
    /\ UNCHANGED <<kept, buf, out, seen, opened>>

RollBack ==
    /\ saved # <<>>
    /\ kept' = saved[Len(saved)]
    /\ saved' = SubSeq(saved, 1, Len(saved) - 1)
    /\ UNCHANGED <<buf, out, seen, opened>>

Commit ==
    /\ saved # <<>>
    /\ saved' = Tail(saved)
    /\ UNCHANGED <<kept, buf, out, seen, opened>>

Reopen ==
    /\ Cardinality(kept) <= Capacity
    /\ buf' \in Listings(kept)
    /\ out' = <<>>
    /\ opened' = opened + 1
    /\ UNCHANGED <<kept, saved, seen>>

CNext ==
    \/ Get \/ Save \/ RollBack \/ Commit \/ Reopen
    \/ \E d \in Stamps : Put(d) \/ Forget(d)

CSpec == CInit /\ [][CNext]_cvars
=============================================================================
