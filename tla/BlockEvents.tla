---------------------------- MODULE BlockEvents ----------------------------
(* Which events the emitter plugin makes of the chain's signals             *)
(* (src/src/plugin/emitter_plugin.cpp: on_accepted_block,                   *)
(* on_applied_transaction, plugin_startup).  The chain is external: it      *)
(* builds a block on its head, accepts it, takes blocks above the last      *)
(* irreversible one back when it switches forks, and makes blocks           *)
(* irreversible between two accepted_block signals.  While it starts it may *)
(* accept blocks before plugin_startup runs.  Two blocks of one number      *)
(* differ in their fork.                                                    *)
EXTENDS Integers, Sequences

CONSTANTS
    MaxBlock,       \* bound: highest block number
    MaxForks,       \* bound: blocks taken back
    MaxTraces,      \* bound: transactions applied
    MaxRestarts     \* bound: restarts of the process

ASSUME BlockBounds == {MaxBlock, MaxForks, MaxTraces, MaxRestarts} \subseteq Nat

VARIABLES
    blocks,     \* the chain: the fork of each block up to the head
    pending,    \* a block is being built on the head
    lib,        \* last_irreversible_block_num()
    oldest,     \* the oldest block fetch_block_by_number finds
    lastIrr,    \* s_last_irreversible_block
    ready,      \* plugin_startup has run
    todo,       \* events the signal at hand still passes to applied_event
    log,        \* history: the events passed to applied_event, in order
    first,      \* history: length of log when this process began
    origin,     \* history: head when the state of the chain began, with no event in it
    since,      \* history: lib when plugin_startup ran
    forks, traces, restarts

chain == <<blocks, pending, lib, oldest>>
past == <<log, first, origin, since>>
counts == <<forks, traces, restarts>>
blockVars == <<chain, lastIrr, ready, todo, past, counts>>

head == Len(blocks)

\* Block n of a chain b, and the same block once it is irreversible.
BlockOf(b, n) == [type |-> "block", num |-> n, fork |-> b[n]]
IrreversibleOf(b, n) == [type |-> "irreversible", num |-> n, fork |-> b[n]]
Block(n) == BlockOf(blocks, n)
Irreversible(n) == IrreversibleOf(blocks, n)
Transaction == [type |-> "transaction", num |-> 0, fork |-> 0]

\* The action names of a trace, as far as on_applied_transaction tells them apart.
Traces == {<<>>, <<"onblock">>, <<"other">>, <<"onblock", "other">>}

\* The chain thread is between two signals.
Idle == todo = <<>>

----------------------------------------------------------------------------
(* The plugin                                                               *)

Fetchable(n) == n >= oldest

\* The numbers after a, up to b.
After(a, b) == [i \in 1..(IF b > a THEN b - a ELSE 0) |-> a + i]

\* The last number after n that no block is found for, or n.
Unfetchable(n) == IF Fetchable(n + 1) THEN n ELSE oldest - 1

\* Mutant of NewlyIrreversible: the last one emitted is passed again.
NewlyIrreversibleAgain == After(Unfetchable(lastIrr - 1), lib)

\* The numbers the while loop of on_accepted_block passes: it counts from the
\* last one emitted and skips blocks it does not find.
NewlyIrreversible == After(Unfetchable(lastIrr), lib)

\* The calls of applied_event for the accepted block b[Len(b)].  Block 1 has
\* no signal of its own and is stashed with block 2.
BlocksOf(b) == (IF Len(b) = 2 THEN <<BlockOf(b, 1)>> ELSE <<>>) \o <<BlockOf(b, Len(b))>>
IrreversiblesOf(b) ==
    [i \in DOMAIN NewlyIrreversible |-> IrreversibleOf(b, NewlyIrreversible[i])]

\* Mutant of EventsOf: the irreversible blocks come before the accepted one.
EventsOfIrrFirst(b) == IrreversiblesOf(b) \o BlocksOf(b)

\* Mutant of EventsOf: the irreversible blocks are stashed only when the log
\* has all of them.
EventsOfFullLog(b) == BlocksOf(b) \o (IF Fetchable(lastIrr + 1) THEN IrreversiblesOf(b) ELSE <<>>)

\* Mutant of EventsOf: block 1 is not made up for.
EventsOfSignalled(b) == <<BlockOf(b, Len(b))>> \o IrreversiblesOf(b)

EventsOf(b) == BlocksOf(b) \o IrreversiblesOf(b)

OnAcceptedBlock(b) ==
    /\ todo' = EventsOf(b)
    /\ lastIrr' = IF lib > lastIrr THEN lib ELSE lastIrr

\* A trace whose only action is eosio::onblock is no event.
OnAppliedTransaction(trace) ==
    /\ Idle /\ pending
    /\ traces < MaxTraces /\ traces' = traces + 1
    /\ todo' = IF trace = <<"onblock">> THEN <<>> ELSE <<Transaction>>
    /\ UNCHANGED <<chain, lastIrr, ready, past, forks, restarts>>

\* The next call of applied_event.
Applied ==
    /\ todo # <<>>
    /\ log' = Append(log, Head(todo))
    /\ todo' = Tail(todo)
    /\ UNCHANGED <<chain, lastIrr, ready, first, origin, since, counts>>

\* Mutant of PluginStartup: the head for the last irreversible block.
PluginStartupHead ==
    /\ lastIrr' = head
    /\ since' = lib

PluginStartup ==
    /\ lastIrr' = lib
    /\ since' = lib

Startup ==
    /\ Idle /\ ~ready /\ ready' = TRUE
    /\ PluginStartup
    /\ UNCHANGED <<chain, todo, log, first, origin, counts>>

----------------------------------------------------------------------------
(* The chain                                                                *)

StartBlock ==
    /\ Idle /\ ~pending /\ head < MaxBlock
    /\ pending' = TRUE
    /\ UNCHANGED <<blocks, lib, oldest, lastIrr, ready, todo, past, counts>>

AbortBlock ==
    /\ Idle /\ pending
    /\ pending' = FALSE
    /\ UNCHANGED <<blocks, lib, oldest, lastIrr, ready, todo, past, counts>>

AcceptBlock ==
    /\ Idle /\ pending
    /\ pending' = FALSE
    /\ LET b == Append(blocks, forks) IN blocks' = b /\ OnAcceptedBlock(b)
    /\ UNCHANGED <<lib, oldest, ready, past, counts>>

\* A fork switch takes the head back.
PopBlock ==
    /\ Idle /\ ~pending /\ head > lib
    /\ forks < MaxForks /\ forks' = forks + 1
    /\ blocks' = SubSeq(blocks, 1, head - 1)
    /\ UNCHANGED <<pending, lib, oldest, lastIrr, ready, todo, past, traces, restarts>>

AdvanceLib ==
    /\ Idle /\ ~pending /\ lib < head
    /\ lib' = lib + 1
    /\ UNCHANGED <<blocks, pending, oldest, lastIrr, ready, todo, past, counts>>

BlockInit ==
    /\ blocks = <<0>> /\ pending = FALSE /\ lib = 1 /\ oldest = 1
    /\ lastIrr = 0 /\ ready = FALSE /\ todo = <<>>
    /\ log = <<>> /\ first = 0 /\ origin = 1 /\ since = 0
    /\ forks = 0 /\ traces = 0 /\ restarts = 0

NewProcess ==
    /\ Idle /\ ready /\ ~pending /\ restarts < MaxRestarts
    /\ restarts' = restarts + 1
    /\ lastIrr' = 0 /\ ready' = FALSE /\ since' = 0
    /\ first' = Len(log)
    /\ UNCHANGED <<pending, todo, log, forks, traces>>

\* The new process goes on with the state of the chain it finds.
Restart == NewProcess /\ UNCHANGED <<blocks, lib, oldest, origin>>

\* The new process begins another state: it replays from block 1, or goes on
\* from a snapshot without the older blocks.
RestartAnew ==
    /\ NewProcess
    /\ \/ blocks' = SubSeq(blocks, 1, 1) /\ lib' = 1 /\ oldest = 1 /\ oldest' = 1
       \/ UNCHANGED blocks /\ lib' = head /\ oldest' = head
    /\ origin' = Len(blocks')
=============================================================================
