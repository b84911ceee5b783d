----------------------------- MODULE EventStream -----------------------------
(* What the listeners of the emitter plugin are told about the chain, from  *)
(* end to end: the chain's signals (BlockEvents) go through the channel the *)
(* plugin implements (EventChannel, which Emitter refines).  The stamp of   *)
(* an event is its place in log.  The sessions of the channel are those of  *)
(* the chain: one for each block that can be taken back, and one for the    *)
(* block being built.                                                       *)
EXTENDS BlockEvents, FiniteSets, SequencesExt

CONSTANT Capacity       \* MAX_DB_SIZE

ASSUME CapacityAssumption == Capacity \in Nat \ {0}

VARIABLES kept, saved, buf, out, seen, opened,
    told        \* history: what the listeners were told since the state of the chain began

channel == <<kept, saved, buf, out, seen, opened>>
vars == <<blockVars, channel, told>>

Channel == INSTANCE EventChannel WITH Stamps <- Nat

----------------------------------------------------------------------------
\* The signals keep the chain thread until the plugin has taken the events.
Quiet(A) == A /\ UNCHANGED <<channel, told>>

Stash == Applied /\ Channel!Put(Len(log) + 1) /\ UNCHANGED told

\* The plugin prunes while it stashes.
Prune == todo # <<>> /\ (\E d \in kept : Channel!Forget(d)) /\ UNCHANGED <<blockVars, told>>

Tell == Channel!Get /\ told' = Append(told, Head(buf)) /\ UNCHANGED blockVars

Begin == StartBlock /\ Channel!Save /\ UNCHANGED told
TakeBack == (AbortBlock \/ PopBlock) /\ Channel!RollBack /\ UNCHANGED told
MakeFinal == AdvanceLib /\ Channel!Commit /\ UNCHANGED told

\* A new process with the same state of the chain, or with another.
Resume == Restart /\ Channel!Reopen /\ UNCHANGED told
Anew ==
    /\ RestartAnew
    /\ kept' = {} /\ saved' = <<>> /\ buf' = <<>> /\ out' = <<>> /\ seen' = {}
    /\ opened' = opened + 1
    /\ told' = <<>>

Init == BlockInit /\ Channel!CInit /\ told = <<>>

Next ==
    \/ Quiet(AcceptBlock) \/ Quiet(Startup)
    \/ \E trace \in Traces : Quiet(OnAppliedTransaction(trace))
    \/ Stash \/ Prune \/ Tell
    \/ Begin \/ TakeBack \/ MakeFinal
    \/ Resume \/ Anew

Spec == Init /\ [][Next]_vars

----------------------------------------------------------------------------
(* Properties                                                               *)

\* The events in the order the listeners were told them, and the stamps that
\* this process has told or will tell.
Told == [i \in DOMAIN told |-> log[told[i]]]
Delivering == ToSet(buf) \cup ToSet(out)

\* The sessions are those of the chain, and a process only forgets what it
\* has told: the channel is used as the plugin may use it.
TypeOK ==
    /\ Len(saved) = head - lib + (IF pending THEN 1 ELSE 0)
    /\ (UNION ToSet(saved)) \cup kept \subseteq seen \cup ToSet(buf)
    /\ lastIrr <= lib /\ lib <= head

\* This process stashes each irreversible block at most once and in the order
\* of the chain, across the jump that plugin_startup makes.
IrreversibleInOrder ==
    \A i, j \in (first + 1)..Len(log) :
        (i < j /\ log[i].type = "irreversible" /\ log[j].type = "irreversible") => log[i].num < log[j].num

\* No block that became irreversible since plugin_startup (or, before it, since
\* the beginning) and that the block log has is skipped: this process tells it
\* even when the block whose signal announced it is taken back, since
\* s_last_irreversible_block is not.
NoIrreversibleSkipped ==
    \A n \in (since + 1)..lastIrr : Fetchable(n) =>
        \/ Irreversible(n) \in ToSet(todo)
        \/ \E d \in Delivering : log[d] = Irreversible(n)

\* Every block of the chain was told or will be, by this process or the next,
\* back to the state the chain began with; block 1, which the chain never
\* signals, with block 2.
ChainIsTold ==
    \A n \in 1..head : (n > origin \/ (n = 1 /\ origin = 1 /\ head > 1)) =>
        \/ Block(n) \in ToSet(todo)
        \/ \E d \in kept \cup seen : log[d] = Block(n)

\* No listener hears of a block before it has heard of the block it builds
\* on, nor of an irreversible block before that very block: across forks and
\* across processes.
ParentBeforeChild ==
    \A i \in DOMAIN told :
        LET e == Told[i]
            Heard(n) == \E j \in 1..(i - 1) : Told[j].type = "block" /\ Told[j].num = n
        IN  /\ e.type = "block" /\ (e.num > origin + 1 \/ (e.num = 2 /\ origin = 1)) => Heard(e.num - 1)
            /\ e.type = "irreversible" /\ (e.num > origin \/ (e.num = 1 /\ origin = 1)) =>
                 \E j \in 1..(i - 1) : Told[j] = [e EXCEPT !.type = "block"]
=============================================================================
