------------------------------- MODULE Node -------------------------------
(* The life of a node (src/src/base/app.cpp: start, stop, start_chain,      *)
(* chain_main, emit_event) and the calls JavaScript posts to it             *)
(* (src/src/base/post.cpp: post).  The chain thread hands each event to     *)
(* the JavaScript thread and goes on: Isolate::sync only queues a function, *)
(* as plugin_initialize of the emitter shows, which goes on although its    *)
(* js_handler runs until the node quits.  The JavaScript thread starts the  *)
(* queued functions in order, each in a fiber; a fiber that waits for       *)
(* chain.post lets others run.  fibjs, appbase, its plugins and their url   *)
(* handlers are external: a handler calls back at most once, at once or     *)
(* later, and may throw before or after that, or give up.                   *)
EXTENDS Integers, SequencesExt

CONSTANT Posts      \* bound: the calls of chain.post

VARIABLES
    started, stopped,   \* chain.start and chain.stop have been called (s_state_stopped, s_state_started)
    quit,               \* app().quit() has been called
    chain,              \* where the chain thread is
    jobs,               \* the events handed to the JavaScript thread, not yet begun
    begun,              \* history: the events whose listeners were called, in order
    running,            \* the events whose fiber is in a listener
    post,               \* each call of chain.post: not made, queued, working, done with, given up, dropped
    caller,             \* the fiber that made it and waits: that of an event, or another script's
    answers             \* how often each was answered: the first answer wakes the fiber

vars == <<started, stopped, quit, chain, jobs, begun, running, post, caller, answers>>
fibers == <<jobs, begun, running>>
calls == <<post, caller, answers>>

Emitting == {"load", "error", "close"}      \* the events, and the places of the chain thread that emit them

----------------------------------------------------------------------------
(* JavaScript *)

\* chain.start: a second call is an error.
Start ==
    /\ ~started
    /\ started' = TRUE
    /\ UNCHANGED <<stopped, quit, chain, fibers, calls>>

\* chain.stop: a second call is an error.
Stop ==
    /\ ~stopped
    /\ stopped' = TRUE
    /\ quit' = TRUE
    /\ UNCHANGED <<started, chain, fibers, calls>>

\* The fiber of an event that waits for the answer of a call.
Waits(f) == \E p \in Posts : caller[p] = f /\ post[p] # "none" /\ answers[p] = 0

\* chain.post, in any fiber and at any time, queues a call for the chain
\* thread and waits.
Post(p, f) ==
    /\ post[p] = "none"
    /\ f \in running => ~Waits(f)
    /\ post' = [post EXCEPT ![p] = "queued"]
    /\ caller' = [caller EXCEPT ![p] = f]
    /\ UNCHANGED <<started, stopped, quit, chain, fibers, answers>>

\* A fiber for the oldest function: emit_event calls the listeners.
Emit ==
    /\ jobs # <<>>
    /\ jobs' = Tail(jobs)
    /\ begun' = Append(begun, Head(jobs))
    /\ running' = running \cup {Head(jobs)}
    /\ UNCHANGED <<started, stopped, quit, chain, calls>>

\* The listeners return; one that throws ends the application.
HandlerReturns(f) ==
    /\ f \in running /\ ~Waits(f)
    /\ running' = running \ {f}
    /\ quit' \in {quit, TRUE}
    /\ UNCHANGED <<started, stopped, chain, jobs, begun, calls>>

----------------------------------------------------------------------------
(* The chain thread *)

\* start_chain: s_sem.Wait
Wake ==
    /\ chain = "waiting" /\ started
    /\ chain' = "initialize"
    /\ UNCHANGED <<started, stopped, quit, fibers, calls>>

\* The chain thread goes on from an event to its next place.
AfterEvent == CASE chain = "load" -> "startup" [] chain = "error" -> "close" [] chain = "close" -> "done"

\* Mutant of Goes: the chain thread waits until the listeners have returned.
GoesWhenDone ==
    \/ chain \in Emitting /\ chain \notin ToSet(jobs \o begun) /\ jobs' = Append(jobs, chain) /\ UNCHANGED chain
    \/ chain \in ToSet(begun) \ running /\ chain' = AfterEvent /\ UNCHANGED jobs

\* main_isolate->sync: the event is queued, and the chain thread goes on.
Goes ==
    /\ chain \in Emitting
    /\ jobs' = Append(jobs, chain)
    /\ chain' = AfterEvent

\* An event of the node.
Sync ==
    /\ Goes
    /\ UNCHANGED <<started, stopped, quit, begun, running, calls>>

\* app().initialize and app().startup
GoesOn ==
    \/ chain = "initialize" /\ chain' = "load"
    \/ chain = "startup" /\ chain' = "exec"

\* Mutant of Step: an error leaves chain_main without a close event.
StepReturnsOnError ==
    /\ GoesOn \/ (chain \in {"initialize", "startup", "exec"} /\ chain' = "done")
    /\ UNCHANGED <<started, stopped, quit, fibers, calls>>

\* initialize, startup and exec go on or throw: chain_main catches everything.
Step ==
    /\ GoesOn \/ (chain \in {"initialize", "startup", "exec"} /\ chain' = "error")
    /\ UNCHANGED <<started, stopped, quit, fibers, calls>>

\* What the queued lambda leaves of a call, and how often it answered it: done
\* with, when there is no handler, or the handler threw or called back; answered
\* a second time by the catch, when it called back and then threw; with the
\* handler, which keeps the callback also when it throws; or given up, when it
\* turned to its connection, whose functions do nothing.
Outcomes == {<<"answered", 1>>, <<"answered", 2>>, <<"working", 0>>, <<"working", 1>>, <<"silent", 0>>}

\* The queued lambda runs.
Dispatch(p) ==
    /\ chain = "exec" /\ ~quit /\ post[p] = "queued"
    /\ \E o \in Outcomes :
          /\ post' = [post EXCEPT ![p] = o[1]]
          /\ answers' = [answers EXCEPT ![p] = @ + o[2]]
    /\ UNCHANGED <<started, stopped, quit, chain, fibers, caller>>

\* The handler calls back, from a thread of the http plugin or the chain's.
CallBack(p) ==
    /\ post[p] = "working"
    /\ post' = [post EXCEPT ![p] = "answered"]
    /\ answers' = [answers EXCEPT ![p] = @ + 1]
    /\ UNCHANGED <<started, stopped, quit, chain, fibers, caller>>

\* The handler never calls back: handle_exception and send_busy_response of
\* its connection are empty.
GiveUp(p) ==
    /\ post[p] = "working"
    /\ post' = [post EXCEPT ![p] = "silent"]
    /\ UNCHANGED <<started, stopped, quit, chain, fibers, caller, answers>>

\* Mutant of ExecEnds: exec waits until its queue is empty.
ExecEndsEmpty ==
    /\ chain = "exec" /\ quit /\ \A p \in Posts : post[p] # "queued"
    /\ chain' = "close"
    /\ UNCHANGED <<started, stopped, quit, fibers, calls>>

\* exec returns after app().quit(), shuts the plugins down and clears the
\* queue: the calls in it are never answered.
ExecEnds ==
    /\ chain = "exec" /\ quit
    /\ chain' = "close"
    /\ post' = [p \in Posts |-> IF post[p] = "queued" THEN "dropped" ELSE post[p]]
    /\ UNCHANGED <<started, stopped, quit, fibers, caller, answers>>

----------------------------------------------------------------------------
Init ==
    /\ started = FALSE /\ stopped = FALSE /\ quit = FALSE
    /\ chain = "waiting"
    /\ jobs = <<>> /\ begun = <<>> /\ running = {}
    /\ post = [p \in Posts |-> "none"]
    /\ caller = [p \in Posts |-> "script"]
    /\ answers = [p \in Posts |-> 0]

Next ==
    \/ Start \/ Stop \/ Emit
    \/ \E f \in Emitting : HandlerReturns(f)
    \/ Wake \/ Sync \/ Step \/ ExecEnds
    \/ \E p \in Posts : \/ \E f \in running \cup {"script"} : Post(p, f)
                        \/ Dispatch(p) \/ CallBack(p) \/ GiveUp(p)

Spec == Init /\ [][Next]_vars

\* Both threads run on; initialize and startup return in the end, and a url
\* handler calls back or gives up.  Nothing makes exec throw, or a listener return.
FairSpec ==
    /\ Spec
    /\ WF_vars(Wake) /\ WF_vars(Sync) /\ WF_vars(chain # "exec" /\ Step) /\ WF_vars(ExecEnds)
    /\ WF_vars(Emit)
    /\ \A p \in Posts : WF_vars(Dispatch(p)) /\ WF_vars(chain = "exec" /\ (CallBack(p) \/ GiveUp(p)))

----------------------------------------------------------------------------
(* Properties *)

\* Listeners hear close once and after everything else, and an error not
\* before load, whenever initialize, startup or exec threw; a node that is
\* gone has emitted close.
CloseIsLast ==
    LET all == begun \o jobs
    IN  /\ \A i, j \in 1..Len(all) : i < j =>
            <<all[i], all[j]>> \in {<<"load", "error">>, <<"load", "close">>, <<"error", "close">>}
        /\ chain = "done" => "close" \in ToSet(all)

\* A node that is started and told to quit, by stop or by a listener that
\* throws, is gone in the end and its close listeners are called, whenever that
\* was, before start or later, and whatever its listeners wait for.
QuitEnds == (started /\ quit) ~> (chain = "done" /\ "close" \in ToSet(begun))

\* A call queued in a started node is answered and its fiber goes on, unless
\* the node ends or the handler gives up: also the call of a load listener,
\* made long before the chain thread takes calls.
PostIsAnswered ==
    \A p \in Posts :
        (started /\ post[p] = "queued")
            ~> (answers[p] > 0 \/ post[p] = "silent" \/ quit \/ "error" \in ToSet(begun))
=============================================================================
