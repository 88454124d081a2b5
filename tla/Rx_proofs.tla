------------------------------ MODULE Rx_proofs ------------------------------
(***************************************************************************)
(* The receiving half of a channel for any protocol tree, any number of    *)
(* pushers and any number of results: its types, the order in which Get    *)
(* returns the results, and that no Get waits beside a result it missed.   *)
(***************************************************************************)
EXTENDS Rx, SequenceTheorems, TLAPS

(***************************************************************************)
(* g is what was taken from a queue q, g \o q what was put into it.        *)
(* pending = append(pending, m) puts m at the end of both.                 *)
(***************************************************************************)
LEMMA Enqueue ==
    ASSUME NEW S, NEW g \in Seq(S), NEW q \in Seq(S), NEW m \in S
    PROVE  /\ Append(q, m) \in Seq(S)
           /\ g \o Append(q, m) = Append(g \o q, m)
<1>1. <<m>> \in Seq(S) /\ g \o q \in Seq(S) /\ Append(q, m) \in Seq(S)
  BY ConcatProperties, AppendProperties
<1>2. Append(q, m) = q \o <<m>> /\ Append(g \o q, m) = (g \o q) \o <<m>>
  BY <1>1, AppendIsConcat
<1>3. (g \o q) \o <<m>> = g \o (q \o <<m>>)
  BY <1>1, ConcatAssociative
<1> QED
  BY <1>1, <1>2, <1>3

(***************************************************************************)
(* out <- pending[0]; pending = pending[1:] moves the head from q to g.    *)
(***************************************************************************)
LEMMA Dequeue ==
    ASSUME NEW S, NEW g \in Seq(S), NEW q \in Seq(S), q # <<>>
    PROVE  /\ Tail(q) \in Seq(S) /\ Head(q) \in S
           /\ Append(g, Head(q)) \in Seq(S)
           /\ Append(g, Head(q)) \o Tail(q) = g \o q
           /\ Len(g) < Len(g \o q)
           /\ (g \o q)[Len(g) + 1] = Head(q)
<1>1. /\ Tail(q) \in Seq(S) /\ Head(q) \in S /\ <<Head(q)>> \in Seq(S) /\ Head(q) = q[1]
      /\ Len(q) \in Nat \ {0} /\ Len(g) \in Nat
  BY EmptySeq, LenProperties, HeadTailProperties
<1>2. <<Head(q)>> \o Tail(q) = q
  <2>1. SubSeq(q, 1, Len(q)) = <<q[1]>> \o SubSeq(q, 1 + 1, Len(q))
    BY <1>1, SubSeqRecursiveFirst
  <2> QED
    BY <1>1, <2>1, SubSeqFull, TailIsSubSeq
<1>3. Append(g, Head(q)) \in Seq(S) /\ Append(g, Head(q)) = g \o <<Head(q)>>
  BY <1>1, AppendProperties, AppendIsConcat
<1>4. (g \o <<Head(q)>>) \o Tail(q) = g \o (<<Head(q)>> \o Tail(q))
  BY <1>1, ConcatAssociative
<1>5. Len(g \o q) = Len(g) + Len(q) /\ (g \o q)[Len(g) + 1] = q[1]
  BY <1>1, ConcatProperties
<1> QED
  BY <1>1, <1>2, <1>3, <1>4, <1>5

(***************************************************************************)
(* A queue that something was appended to is not empty: push finds a head. *)
(***************************************************************************)
LEMMA AppendNotEmpty ==
    ASSUME NEW S, NEW q \in Seq(S), NEW m \in S
    PROVE  Append(q, m) # <<>>
<1> DEFINE a == Append(q, m)
<1>1. Len(a) = Len(q) + 1 /\ Len(q) \in Nat
  BY AppendProperties, LenProperties
<1>2. Len(<<>>) = 0
  BY EmptySeq
<1> HIDE DEF a
<1>3. a # <<>>
  BY <1>1, <1>2
<1> QED
  BY <1>3 DEF a

(***************************************************************************)
(* Moving the head of a queue into an empty buffer changes nothing in the  *)
(* order of the two: rx.pushBuffer <- rx.queue[0]; rx.queue = rx.queue[1:].*)
(***************************************************************************)
LEMMA HeadToBuffer ==
    ASSUME NEW S, NEW g \in Seq(S), NEW q \in Seq(S), q # <<>>
    PROVE  /\ <<Head(q)>> \in Seq(S) /\ Len(<<Head(q)>>) = 1 /\ Tail(q) \in Seq(S)
           /\ (g \o <<Head(q)>>) \o Tail(q) = g \o q
           /\ (g \o <<>>) \o q = g \o q
<1>1. Head(q) \in S /\ Tail(q) \in Seq(S)
  BY HeadTailProperties
<1>2. <<Head(q)>> \in Seq(S) /\ Len(<<Head(q)>>) = 1
  BY <1>1
<1>3. Append(g, Head(q)) = g \o <<Head(q)>>
  BY <1>1, AppendIsConcat
<1>4. Append(g, Head(q)) \o Tail(q) = g \o q
  BY Dequeue
<1>5. g \o <<>> = g
  BY ConcatEmptySeq
<1> QED
  BY <1>1, <1>2, <1>3, <1>4, <1>5

(***************************************************************************)
(* The inductive invariant: a Get that waits on an empty buffer has looked *)
(* at the queue under the mutex, and every later push has filled the       *)
(* buffer before its queue could grow; a Get that walks has received.      *)
(***************************************************************************)
WalkHasResult == getter = "walk" => received # <<>>

RxInv == TypeOK /\ WalkHasResult /\ ResultsInOrder /\ NoMissedResult

(***************************************************************************)
(* RxInv holds in every reachable state.                                   *)
(***************************************************************************)
LEMMA RxInvHolds == Spec => []RxInv
<1>1. Init => RxInv
  <2> SUFFICES ASSUME Init PROVE RxInv
    OBVIOUS
  <2>1. TypeOK
    <3>1. Len(buffer) <= 1
      BY DEF Init
    <3>2. pusher \in [Pusher -> Method \cup {Idle, Found}]
      BY DEF Init
    <3> QED
      BY <3>1, <3>2, EmptySeq, RxAssumption DEF Init, TypeOK
  <2>2. pushed = received \o buffer \o queue
    BY ConcatEmptySeq DEF Init, TypeOK
  <2> QED
    BY <2>1, <2>2 DEF Init, RxInv, WalkHasResult, ResultsInOrder, NoMissedResult
<1>2. RxInv /\ [Next]_vars => RxInv'
  <2> SUFFICES ASSUME RxInv, [Next]_vars PROVE RxInv'
    OBVIOUS
  <2> USE DEF RxInv, WalkHasResult, ResultsInOrder, NoMissedResult
  <2>0. /\ received \in Seq(Method) /\ buffer \in Seq(Method) /\ queue \in Seq(Method)
        /\ received \o buffer \in Seq(Method)
    BY ConcatProperties DEF TypeOK
  <2>1. ASSUME NEW p \in Pusher, Lookup(p) PROVE RxInv'
    BY <2>1 DEF Lookup, TypeOK
  <2>2. ASSUME NEW p \in Pusher, NEW m \in Method, Push(p, m) PROVE RxInv'
    <3> DEFINE q == Append(queue, m)
    <3>1. /\ q \in Seq(Method)
          /\ (received \o buffer) \o q = Append((received \o buffer) \o queue, m)
      BY <2>0, Enqueue
    <3>2. q # <<>>
      BY <2>0, AppendNotEmpty
    <3>3. Append(pushed, m) = (received \o buffer) \o q /\ Append(pushed, m) \in Seq(Method)
      BY <3>1, AppendProperties DEF TypeOK
    <3>4. pushed' = Append(pushed, m)
      BY <2>2 DEF Push
    <3>5. CASE buffer = <<>>
      <4>1. buffer' = <<Head(q)>> /\ queue' = Tail(q)
        BY <2>2, <3>5 DEF Push
      <4> HIDE DEF q
      <4>2. /\ <<Head(q)>> \in Seq(Method) /\ Len(<<Head(q)>>) = 1 /\ Tail(q) \in Seq(Method)
            /\ (received \o <<Head(q)>>) \o Tail(q) = received \o q
            /\ (received \o <<>>) \o q = received \o q
        <5>1. received \in Seq(Method) /\ q \in Seq(Method) /\ q # <<>>
          BY <2>0, <3>1, <3>2
        <5> HIDE DEF RxInv, WalkHasResult, ResultsInOrder, NoMissedResult
        <5> QED
          BY <5>1, HeadToBuffer
      <4>3. received' = received /\ pushed' = (received' \o buffer') \o queue'
        BY <2>2, <3>3, <3>4, <3>5, <4>1, <4>2 DEF Push
      <4>4. buffer' # <<>>
        BY <4>1
      <4> QED
        BY <2>2, <3>3, <3>4, <4>1, <4>2, <4>3, <4>4 DEF Push, TypeOK
    <3>6. CASE buffer # <<>>
      <4>1. buffer' = buffer /\ queue' = q
        BY <2>2, <3>6 DEF Push
      <4> HIDE DEF q
      <4> QED
        BY <2>2, <3>1, <3>3, <3>4, <3>6, <4>1 DEF Push, TypeOK
    <3> QED
      BY <3>5, <3>6
  <2>3. ASSUME NEW p \in Pusher, PushDetaches(p) PROVE RxInv'
    BY <2>3 DEF PushDetaches, TypeOK
  <2>31. ASSUME NEW p \in Pusher, PushPanics(p) PROVE RxInv'
    BY <2>31 DEF PushPanics, TypeOK
  <2>4. CASE GetClosed
    BY <2>4 DEF GetClosed, TypeOK
  <2>5. CASE Take
    <3>1. /\ Append(received, Head(buffer)) \in Seq(Method) /\ Tail(buffer) \in Seq(Method)
          /\ Append(received, Head(buffer)) \o Tail(buffer) = received \o buffer
      <4>1. received \in Seq(Method) /\ buffer \in Seq(Method) /\ buffer # <<>>
        BY <2>0, <2>5 DEF Take
      <4> QED
        BY <4>1, Dequeue, SMTT(30)
    <3>2. Len(Tail(buffer)) <= 1
      BY <2>0, <2>5, HeadTailProperties, LenProperties DEF Take, TypeOK
    <3>3. Append(received, Head(buffer)) # <<>>
      <4>1. Head(buffer) \in Method
        BY <2>0, <2>5, HeadTailProperties DEF Take
      <4> QED
        BY <2>0, <4>1, AppendNotEmpty
    <3> QED
      BY <2>5, <3>1, <3>2, <3>3 DEF Take, TypeOK
  <2>6. CASE GetSlow
    BY <2>6 DEF GetSlow, TypeOK
  <2>7. CASE Refill
    <3>1. CASE queue # <<>> /\ buffer = <<>>
      <4>1. /\ <<Head(queue)>> \in Seq(Method) /\ Len(<<Head(queue)>>) = 1
            /\ Tail(queue) \in Seq(Method)
            /\ (received \o <<Head(queue)>>) \o Tail(queue) = received \o queue
            /\ (received \o <<>>) \o queue = received \o queue
        BY <2>0, <3>1, HeadToBuffer
      <4>2. buffer' = <<Head(queue)>> /\ queue' = Tail(queue) /\ received' = received
        BY <2>7, <3>1 DEF Refill
      <4>3. buffer' # <<>>
        BY <4>2
      <4>4. pushed' = (received' \o buffer') \o queue'
        BY <2>7, <3>1, <4>1, <4>2 DEF Refill
      <4> QED
        BY <2>7, <4>1, <4>2, <4>3, <4>4 DEF Refill, TypeOK
    <3>2. CASE ~(queue # <<>> /\ buffer = <<>>)
      BY <2>7, <3>2 DEF Refill, TypeOK
    <3> QED
      BY <3>1, <3>2
  <2>8. CASE GetCancelled
    BY <2>8 DEF GetCancelled, TypeOK
  <2>9. CASE Walk
    <3>2. rxTree' \in Node /\ done' \in BOOLEAN
      BY <2>9 DEF Walk, TypeOK
    <3> QED
      BY <2>9, <3>2 DEF Walk, TypeOK
  <2>91. CASE WalkPanics
    BY <2>91 DEF WalkPanics, TypeOK
  <2>10. CASE UNCHANGED vars
    BY <2>10 DEF vars, TypeOK
  <2> QED
    BY <2>1, <2>2, <2>3, <2>31, <2>4, <2>5, <2>6, <2>7, <2>8, <2>9, <2>91, <2>10
    DEF Next, Get, GetFast, GetWaited, PushEnds
<1> QED
  BY <1>1, <1>2, PTL DEF Spec

(***************************************************************************)
(* The fields of rx keep their types; in particular the buffer never holds *)
(* more than the one result it has room for, so that push never blocks.    *)
(***************************************************************************)
THEOREM TypeCorrect == Spec => []TypeOK
  BY RxInvHolds, PTL DEF RxInv

(***************************************************************************)
(* Get returns the results of a channel in the order they were pushed,     *)
(* each exactly once, however many goroutines push.                        *)
(***************************************************************************)
THEOREM GetIsInOrder == Spec => []ResultsInOrder
  BY RxInvHolds, PTL DEF RxInv

(***************************************************************************)
(* No Get waits on an empty buffer while a result is in the queue.         *)
(***************************************************************************)
THEOREM GetMissesNothing == Spec => []NoMissedResult
  BY RxInvHolds, PTL DEF RxInv
=============================================================================
