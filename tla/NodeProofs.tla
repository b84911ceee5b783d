---------------------------- MODULE NodeProofs ----------------------------
(* What is proved of the life of a node, for any set of chain.post calls.   *)
EXTENDS Node, SequenceTheorems, TLAPS

States == {"none", "queued", "working", "answered", "silent", "dropped"}
Places == {"waiting", "initialize", "startup", "exec", "done"} \cup Emitting

\* The variables that the two invariants read have their types.
TypeOK ==
    /\ chain \in Places
    /\ jobs \in Seq(Emitting) /\ begun \in Seq(Emitting)
    /\ post \in [Posts -> States]
    /\ answers \in [Posts -> Nat]

\* The events emitted so far, at each place of the chain thread.
Heard(place) ==
    CASE place \in {"waiting", "initialize", "load"} -> {<<>>}
      [] place \in {"startup", "exec"} -> {<<"load">>}
      [] place = "error" -> {<<>>, <<"load">>}
      [] place = "close" -> {<<"load">>, <<"error">>, <<"load", "error">>}
      [] place = "done" -> {<<"load", "close">>, <<"error", "close">>, <<"load", "error", "close">>}

\* The place of the chain thread decides what listeners hear, and are yet to hear.
PlaceDecides == begun \o jobs \in Heard(chain)

----------------------------------------------------------------------------
\* The first of the events yet to hear moves to those heard.
LEMMA MoveFirst ==
    ASSUME NEW S, NEW s \in Seq(S), NEW t \in Seq(S), t # <<>>
    PROVE  Append(s, Head(t)) \o Tail(t) = s \o t
OBVIOUS

LEMMA AppendLast ==
    ASSUME NEW S, NEW s \in Seq(S), NEW t \in Seq(S), NEW e \in S
    PROVE  s \o Append(t, e) = Append(s \o t, e)
OBVIOUS

\* Appending to a short sequence, written out.
LEMMA AppendToOne ==
    ASSUME NEW a, NEW b
    PROVE  Append(<<a>>, b) = <<a, b>>
<1>1. <<a>> \in Seq({a, b}) /\ <<a, b>> \in Seq({a, b})
  OBVIOUS
<1>2. Append(<<a>>, b) \in Seq({a, b}) /\ Len(Append(<<a>>, b)) = 2
  BY <1>1
<1>3. \A i \in 1..2 : Append(<<a>>, b)[i] = <<a, b>>[i]
  BY <1>1
<1> QED
  BY <1>1, <1>2, <1>3, SeqEqual

LEMMA AppendToTwo ==
    ASSUME NEW a, NEW b, NEW c
    PROVE  Append(<<a, b>>, c) = <<a, b, c>>
<1>1. <<a, b>> \in Seq({a, b, c}) /\ <<a, b, c>> \in Seq({a, b, c})
  OBVIOUS
<1>2. Append(<<a, b>>, c) \in Seq({a, b, c}) /\ Len(Append(<<a, b>>, c)) = 3
  BY <1>1
<1>3. \A i \in 1..3 : Append(<<a, b>>, c)[i] = <<a, b, c>>[i]
  BY <1>1
<1> QED
  BY <1>1, <1>2, <1>3, SeqEqual

\* What listeners have heard grows by the event of the place that is left.
LEMMA HeardGrows ==
    /\ \A s \in Heard("load") : Append(s, "load") \in Heard("startup")
    /\ \A s \in Heard("error") : Append(s, "error") \in Heard("close")
    /\ \A s \in Heard("close") : Append(s, "close") \in Heard("done")
<1>1. \A a : Append(<<>>, a) = <<a>>
  OBVIOUS
<1>2. \A s \in Heard("load") : Append(s, "load") \in Heard("startup")
  BY <1>1 DEF Heard
<1>3. \A s \in Heard("error") : Append(s, "error") \in Heard("close")
  BY <1>1, AppendToOne DEF Heard
<1>4. \A s \in Heard("close") : Append(s, "close") \in Heard("done")
  <2>1. Append(<<"load">>, "close") = <<"load", "close">>
    BY AppendToOne
  <2>2. Append(<<"error">>, "close") = <<"error", "close">>
    BY AppendToOne
  <2>3. Append(<<"load", "error">>, "close") = <<"load", "error", "close">>
    BY AppendToTwo
  <2> QED
    BY <2>1, <2>2, <2>3 DEF Heard
<1> QED
  BY <1>2, <1>3, <1>4

\* The variables have their types.
THEOREM TypeCorrect == Spec => []TypeOK
<1>1. Init => TypeOK
  BY DEF Init, TypeOK, States, Places, Emitting
<1>2. TypeOK /\ [Next]_vars => TypeOK'
  <2> SUFFICES ASSUME TypeOK, [Next]_vars
               PROVE  TypeOK'
    OBVIOUS
  <2> USE DEF TypeOK, States, Places, Emitting, fibers, calls
  <2>1. CASE Start \/ Stop
    BY <2>1 DEF Start, Stop
  <2>2. CASE Emit
    BY <2>2 DEF Emit
  <2>3. ASSUME NEW f \in Emitting, HandlerReturns(f)
        PROVE  TypeOK'
    BY <2>3 DEF HandlerReturns
  <2>4. CASE Wake
    BY <2>4 DEF Wake
  <2>5. CASE Sync
    BY <2>5 DEF Sync, Goes, AfterEvent
  <2>6. CASE Step
    BY <2>6 DEF Step, GoesOn
  <2>7. CASE ExecEnds
    BY <2>7 DEF ExecEnds
  <2>8. ASSUME NEW p \in Posts, NEW f \in running \cup {"script"}, Post(p, f)
        PROVE  TypeOK'
    BY <2>8 DEF Post
  <2>9. ASSUME NEW p \in Posts, Dispatch(p) \/ CallBack(p) \/ GiveUp(p)
        PROVE  TypeOK'
    <3>1. UNCHANGED <<chain, jobs, begun>>
      BY <2>9 DEF Dispatch, CallBack, GiveUp
    <3>2. PICK state \in States, n \in 0..2 :
              /\ post' = [post EXCEPT ![p] = state]
              /\ answers' = [answers EXCEPT ![p] = @ + n]
      <4>1. CASE Dispatch(p)
        <5>1. PICK o \in Outcomes : /\ post' = [post EXCEPT ![p] = o[1]]
                                   /\ answers' = [answers EXCEPT ![p] = @ + o[2]]
          BY <4>1 DEF Dispatch
        <5>2. o[1] \in States /\ o[2] \in 0..2
          BY DEF Outcomes
        <5> QED
          BY <5>1, <5>2
      <4>2. CASE CallBack(p)
        BY <4>2 DEF CallBack
      <4>3. CASE GiveUp(p)
        <5>1. answers' = [answers EXCEPT ![p] = @ + 0] /\ post' = [post EXCEPT ![p] = "silent"]
          BY <4>3 DEF GiveUp
        <5> QED
          BY <5>1
      <4> QED
        BY <2>9, <4>1, <4>2, <4>3
    <3> QED
      BY <3>1, <3>2
  <2>10. CASE UNCHANGED vars
    BY <2>10 DEF vars
  <2> QED
    BY <2>1, <2>2, <2>3, <2>4, <2>5, <2>6, <2>7, <2>8, <2>9, <2>10 DEF Next
<1> QED
  BY <1>1, <1>2, PTL DEF Spec

\* Wherever initialize, startup or exec throw and whenever the node quits,
\* close is the last event, an error follows load, and each comes once.
THEOREM CloseComesLast == Spec => []CloseIsLast
<1>1. Init => PlaceDecides
  BY DEF Init, PlaceDecides, Heard
<1>2. TypeOK /\ PlaceDecides /\ [Next]_vars => PlaceDecides'
  <2> SUFFICES ASSUME TypeOK, PlaceDecides, [Next]_vars
               PROVE  PlaceDecides'
    OBVIOUS
  <2>1. CASE Start \/ Stop
    BY <2>1 DEF Start, Stop, PlaceDecides, fibers
  <2>2. CASE Emit
    <3>1. begun' \o jobs' = begun \o jobs
      BY <2>2, MoveFirst DEF Emit, TypeOK
    <3> QED
      BY <2>2, <3>1 DEF Emit, PlaceDecides
  <2>3. ASSUME NEW f \in Emitting, HandlerReturns(f)
        PROVE  PlaceDecides'
    BY <2>3 DEF HandlerReturns, PlaceDecides
  <2>4. CASE Wake
    BY <2>4 DEF Wake, PlaceDecides, Heard, fibers
  <2>5. CASE Sync
    <3>1. begun' \o jobs' = Append(begun \o jobs, chain)
      BY <2>5, AppendLast DEF Sync, Goes, TypeOK
    <3>2. /\ chain = "load" => chain' = "startup"
          /\ chain = "error" => chain' = "close"
          /\ chain = "close" => chain' = "done"
      BY <2>5 DEF Sync, Goes, AfterEvent
    <3>3. chain \in {"load", "error", "close"}
      BY <2>5 DEF Sync, Goes, Emitting
    <3> QED
      BY <3>1, <3>2, <3>3, HeardGrows DEF PlaceDecides
  <2>6. CASE Step
    <3>1. begun' \o jobs' = begun \o jobs
      BY <2>6 DEF Step, fibers
    <3>2. Heard(chain) \subseteq Heard(chain')
      BY <2>6 DEF Step, GoesOn, Heard
    <3> QED
      BY <3>1, <3>2 DEF PlaceDecides
  <2>7. CASE ExecEnds
    BY <2>7 DEF ExecEnds, PlaceDecides, Heard, fibers
  <2>8. ASSUME NEW p \in Posts, NEW f \in running \cup {"script"}, Post(p, f)
        PROVE  PlaceDecides'
    BY <2>8 DEF Post, PlaceDecides, fibers
  <2>9. ASSUME NEW p \in Posts, Dispatch(p) \/ CallBack(p) \/ GiveUp(p)
        PROVE  PlaceDecides'
    BY <2>9 DEF Dispatch, CallBack, GiveUp, PlaceDecides, fibers
  <2>10. CASE UNCHANGED vars
    BY <2>10 DEF vars, PlaceDecides
  <2> QED
    BY <2>1, <2>2, <2>3, <2>4, <2>5, <2>6, <2>7, <2>8, <2>9, <2>10 DEF Next
<1>3. TypeOK /\ PlaceDecides => CloseIsLast
  <2> SUFFICES ASSUME TypeOK, PlaceDecides
               PROVE  CloseIsLast
    OBVIOUS
  <2> DEFINE all == begun \o jobs
  <2>1. \/ all = <<>> /\ chain # "done"
        \/ all \in {<<"load">>, <<"error">>} /\ chain # "done"
        \/ all = <<"load", "error">> /\ chain # "done"
        \/ all = <<"load", "close">>
        \/ all = <<"error", "close">>
        \/ all = <<"load", "error", "close">>
    BY DEF PlaceDecides, Heard, TypeOK, Places, Emitting
  <2>2. \/ Len(all) <= 1 /\ chain # "done"
        \/ Len(all) = 2 /\ all[1] = "load" /\ all[2] = "error" /\ chain # "done"
        \/ Len(all) = 2 /\ all[1] = "load" /\ all[2] = "close"
        \/ Len(all) = 2 /\ all[1] = "error" /\ all[2] = "close"
        \/ Len(all) = 3 /\ all[1] = "load" /\ all[2] = "error" /\ all[3] = "close"
    <3> HIDE DEF all
    <3>1. CASE all = <<>> /\ chain # "done"
      BY <3>1
    <3>2. CASE all \in {<<"load">>, <<"error">>} /\ chain # "done"
      BY <3>2
    <3>3. CASE all = <<"load", "error">> /\ chain # "done"
      BY <3>3
    <3>4. CASE all = <<"load", "close">>
      BY <3>4
    <3>5. CASE all = <<"error", "close">>
      BY <3>5
    <3>6. CASE all = <<"load", "error", "close">>
      BY <3>6
    <3> QED
      BY <2>1, <3>1, <3>2, <3>3, <3>4, <3>5, <3>6
  <2>3. \A i, j \in 1..Len(all) : i < j =>
            <<all[i], all[j]>> \in {<<"load", "error">>, <<"load", "close">>, <<"error", "close">>}
    <3> HIDE DEF all
    <3> QED
      BY <2>2
  <2>4. all \in Seq(Emitting)
    BY DEF TypeOK
  <2>5. chain = "done" => "close" \in ToSet(all)
    <3> HIDE DEF all
    <3>1. DOMAIN all = 1..Len(all) /\ Len(all) \in Nat
      BY <2>4
    <3>2. chain = "done" => \E i \in 1..Len(all) : all[i] = "close"
      BY <2>2
    <3> QED
      BY <3>1, <3>2 DEF ToSet
  <2> QED
    BY <2>3, <2>5 DEF CloseIsLast
<1> QED
  BY <1>1, <1>2, <1>3, TypeCorrect, PTL DEF Spec
=============================================================================
