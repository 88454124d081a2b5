-------------------------- MODULE Worker11_proofs --------------------------
(***************************************************************************)
(* Proofs about Worker11, for any sessions, any number of messages of any  *)
(* length and any cut of the stream into pieces.                           *)
(***************************************************************************)
EXTENDS Worker11, SequenceTheorems, TLAPS

-----------------------------------------------------------------------------
(* Queues and lists of messages. *)

\* pending = append(pending, m), where g was taken from the queue q before.
LEMMA Enqueue ==
    ASSUME NEW S, NEW g \in Seq(S), NEW q \in Seq(S), NEW m \in S
    PROVE  Append(q, m) \in Seq(S) /\ g \o Append(q, m) = Append(g \o q, m)
<1>1. <<m>> \in Seq(S) /\ g \o q \in Seq(S) /\ Append(q, m) \in Seq(S)
  BY ConcatProperties, AppendProperties
<1>2. Append(q, m) = q \o <<m>> /\ Append(g \o q, m) = (g \o q) \o <<m>>
  BY <1>1, AppendIsConcat
<1>3. (g \o q) \o <<m>> = g \o (q \o <<m>>)
  BY <1>1, ConcatAssociative
<1> QED
  BY <1>1, <1>2, <1>3

\* pending = pending[1:], where the head goes to the end of g.
LEMMA Dequeue ==
    ASSUME NEW S, NEW g \in Seq(S), NEW q \in Seq(S), q # <<>>
    PROVE  /\ Tail(q) \in Seq(S) /\ Head(q) \in S /\ Append(g, Head(q)) \in Seq(S)
           /\ Append(g, Head(q)) \o Tail(q) = g \o q
<1>1. /\ Tail(q) \in Seq(S) /\ Head(q) \in S /\ <<Head(q)>> \in Seq(S) /\ Head(q) = q[1]
      /\ Len(q) \in Nat \ {0}
  BY EmptySeq, LenProperties, HeadTailProperties
<1>2. <<Head(q)>> \o Tail(q) = q
  <2>1. SubSeq(q, 1, Len(q)) = <<q[1]>> \o SubSeq(q, 1 + 1, Len(q))
    BY <1>1, SubSeqRecursiveFirst
  <2> QED
    BY <1>1, <2>1, SubSeqFull, TailIsSubSeq
<1>3. Append(g, Head(q)) \in Seq(S) /\ Append(g, Head(q)) = g \o <<Head(q)>>
  BY <1>1, AppendProperties, AppendIsConcat
<1>4. (g \o <<Head(q)>>) \o Tail(q) = g \o (<<Head(q)>> \o Tail(q))
  BY <1>1, ConcatAssociative
<1> QED
  BY <1>1, <1>2, <1>3, <1>4

\* A message that comes behind all of a list makes the list longer.
LEMMA ListsGrows ==
    ASSUME NEW q \in Seq(Nat), NEW S, Lists(q, S), NEW x \in Nat, \A y \in S : y < x
    PROVE  Lists(Append(q, x), S \cup {x})
<1> DEFINE r == Append(q, x)
<1>1. /\ Len(q) \in Nat /\ DOMAIN q = 1..Len(q) /\ DOMAIN r = 1..(Len(q) + 1)
      /\ \A n \in 1..Len(q) : r[n] = q[n]
      /\ r[Len(q) + 1] = x
  BY LenProperties, AppendProperties
<1>2. \A n \in 1..Len(q) : q[n] \in S /\ q[n] < x
  BY <1>1 DEF Lists
<1> HIDE DEF r
<1>3. \A m, n \in DOMAIN r : m < n => r[m] < r[n]
  <2> SUFFICES ASSUME NEW m \in DOMAIN r, NEW n \in DOMAIN r, m < n PROVE r[m] < r[n]
    OBVIOUS
  <2>1. m \in 1..Len(q) /\ (n \in 1..Len(q) \/ n = Len(q) + 1)
    BY <1>1
  <2> QED
    BY <1>1, <1>2, <2>1 DEF Lists
<1>4. {r[n] : n \in DOMAIN r} = S \cup {x}
  <2>1. {r[n] : n \in DOMAIN r} \subseteq S \cup {x}
    <3> SUFFICES ASSUME NEW n \in DOMAIN r PROVE r[n] \in S \cup {x}
      OBVIOUS
    <3>1. n \in 1..Len(q) \/ n = Len(q) + 1
      BY <1>1
    <3> QED
      BY <1>1, <1>2, <3>1
  <2>2. \A y \in S : \E n \in DOMAIN r : r[n] = y
    <3> SUFFICES ASSUME NEW y \in S PROVE \E n \in DOMAIN r : r[n] = y
      OBVIOUS
    <3>1. PICK n \in 1..Len(q) : q[n] = y
      BY <1>1 DEF Lists
    <3> QED
      BY <1>1, <3>1
  <2>3. \E n \in DOMAIN r : r[n] = x
    BY <1>1
  <2> QED
    BY <2>1, <2>2, <2>3
<1> QED
  BY <1>3, <1>4 DEF Lists, r

\* What is at the head of the rest of a list is of the listed set, and comes
\* behind everything before it.
LEMMA NextIsNew ==
    ASSUME NEW h \in Seq(Nat), NEW t \in Seq(Nat), t # <<>>, NEW S, Lists(h \o t, S)
    PROVE  /\ Head(t) \in S
           /\ \A n \in DOMAIN h : h[n] \in S /\ h[n] < Head(t)
<1> DEFINE q == h \o t
<1>1. /\ Len(h) \in Nat /\ Len(t) \in Nat \ {0} /\ Head(t) = t[1] /\ DOMAIN h = 1..Len(h)
      /\ q \in Seq(Nat) /\ Len(q) = Len(h) + Len(t) /\ DOMAIN q = 1..Len(q)
  BY EmptySeq, LenProperties, HeadTailProperties, ConcatProperties
<1>2. q[Len(h) + 1] = Head(t) /\ \A n \in 1..Len(h) : q[n] = h[n]
  BY <1>1, ConcatProperties
<1> HIDE DEF q
<1>3. Len(h) + 1 \in DOMAIN q /\ \A n \in DOMAIN h : n \in DOMAIN q /\ n < Len(h) + 1
  BY <1>1
<1> QED
  BY <1>1, <1>2, <1>3 DEF Lists, q

\* Division of a place in the stream by the length of a message.
LEMMA Cut ==
    ASSUME NEW m \in Nat \ {0}, NEW c \in Nat, NEW r \in Nat, r < m
    PROVE  (m * c + r) \div m = c
OBVIOUS

\* No more messages have arrived whole than were sent.
LEMMA Below ==
    ASSUME NEW m \in Nat \ {0}, NEW c \in Nat, NEW d \in Nat, m * c <= d * m
    PROVE  c <= d
OBVIOUS

\* A message whose bytes are there is counted by the division.
LEMMA Whole ==
    ASSUME NEW m \in Nat \ {0}, NEW c \in Nat, NEW f \in Nat, m * c <= f
    PROVE  f \div m \in Nat /\ c <= f \div m
OBVIOUS

-----------------------------------------------------------------------------
(* The stream of bytes. *)

(***************************************************************************)
(* The buffer is the end of what was fed, from the first byte of message   *)
(* b + 1 on; the decoder has come to the end of message c, and what it has *)
(* read of the buffer did not unpack.  It goes on from there, or has ended *)
(* because message c + 1 does not decode.  The messages up to c that unpack*)
(* are the ones that were dispatched or wait for it.                       *)
(***************************************************************************)
Stuck(c) == left = 0 /\ c + 1 <= Len(sent) /\ Garbled(c + 1) /\ MsgLen * (c + 1) <= fed

Frame(b, c) ==
    /\ b <= c /\ c <= Len(sent)
    /\ fed = MsgLen * b + Len(buf) /\ (fed = MsgLen * c + left \/ Stuck(c))
    /\ \A k \in (b + 1)..c : ~Good(k)
    /\ \A k \in 1..c : ~Garbled(k)
    /\ Lists(handled \o todo, {k \in 1..c : Good(k)})

Framed ==
    /\ Len(sent) <= MaxSent /\ fed <= Len(sent) * MsgLen
    /\ \A j \in 1..Len(buf) : buf[j] = fed - Len(buf) + j
    /\ \E b, c \in Nat : Frame(b, c)

\* The decoder reads the messages one after the other.
LEMMA DecodesNext ==
    ASSUME TypeOK, Framed, Feeding, NEW b \in Nat, NEW c \in Nat, Frame(b, c)
    PROVE  /\ Decoded = c + 1 /\ c + 1 <= Len(sent) /\ c + 1 \in Number /\ left <= Len(buf)
           /\ fed = MsgLen * c + left
<1> USE Worker11Assumption
<1>1. left \in Nat /\ left >= MsgLen /\ fed \in Nat /\ Len(buf) \in Nat /\ Len(sent) \in Nat
  BY LenProperties DEF TypeOK, Feeding
<1>0. fed = MsgLen * c + left
  BY <1>1 DEF Frame, Stuck
<1>2. left <= Len(buf)
  <2>1. MsgLen * b <= MsgLen * c /\ fed = MsgLen * b + Len(buf) /\ MsgLen * b \in Nat /\ MsgLen * c \in Nat
    BY DEF Frame
  <2> QED
    BY <1>0, <1>1, <2>1
<1>3. buf[Len(buf) - left + MsgLen] = MsgLen * c + MsgLen
  <2>1. Len(buf) - left + MsgLen \in 1..Len(buf)
    BY <1>1, <1>2
  <2>2. buf[Len(buf) - left + MsgLen] = fed - Len(buf) + (Len(buf) - left + MsgLen)
    BY <2>1 DEF Framed
  <2>3. MsgLen * c \in Nat /\ fed = MsgLen * c + left
    BY <1>0
  <2> QED
    BY <1>1, <2>2, <2>3
<1>4. (MsgLen * c + (MsgLen - 1)) \div MsgLen = c
  BY Cut
<1>5. Decoded = c + 1
  <2>1. MsgLen * c \in Nat /\ (MsgLen * c + MsgLen) - 1 = MsgLen * c + (MsgLen - 1)
    OBVIOUS
  <2> QED
    BY <1>3, <1>4, <2>1 DEF Decoded
<1>6. MsgLen * (c + 1) <= Len(sent) * MsgLen
  <2>1. MsgLen * (c + 1) = MsgLen * c + MsgLen /\ fed = MsgLen * c + left
    BY <1>0
  <2>2. fed <= Len(sent) * MsgLen
    BY DEF Framed
  <2> QED
    BY <1>1, <2>1, <2>2
<1>7. c + 1 <= Len(sent)
  BY <1>1, <1>6, Below
<1>8. Len(sent) <= MaxSent
  BY DEF Framed
<1> QED
  BY <1>0, <1>1, <1>2, <1>5, <1>7, <1>8 DEF Number

\* Nothing of a message's place in the list changes when it is dispatched.
LEMMA DispatchMoves ==
    ASSUME TypeOK, todo # <<>>, Dispatched
    PROVE  /\ handled' \in Seq(Number) /\ todo' \in Seq(Number)
           /\ handled' \o todo' = handled \o todo
           /\ Head(todo) \in Number
BY Dequeue DEF TypeOK, Dispatched

\* Steps that neither read, decode, dispatch nor send.
Beside ==
    \/ HeartbeatTick \/ DisownTick
    \/ \E i \in Session : Outcoming(i) \/ Read(i) \/ Write(i) \/ Bound(i) \/ HandlerLeaves(i)
    \/ ConnectionLost \/ DisownFires \/ HeartbeatFires \/ UNCHANGED vars

\* They leave the stream and Loop alone.
LEMMA BesideTheStream == Beside => UNCHANGED <<inVars, loopVars>>
BY DEF Beside, HeartbeatTick, DisownTick, Outcoming, Read, Write, Bound, Close, Quit, ErrorMsg,
       Say, HandlerLeaves, ConnectionLost, DisownFires, HeartbeatFires, vars

\* A step reads, decodes, dispatches or sends, or is none of these.
LEMMA StepKinds ==
    ASSUME [Next]_vars
    PROVE  \/ \E n \in 1..(MaxSent * MsgLen) : LoopReads(n)
           \/ Decode \/ Dispatch \/ Beside
           \/ \E m \in Msg : RuntimeSends(m)
<1>1. CASE Next
  BY <1>1, Zenon DEF Next, Beside
<1>2. CASE UNCHANGED vars
  BY <1>2 DEF Beside
<1> QED
  BY <1>1, <1>2

\* Each kind of message goes to the handler and out of todo.
LEMMA DispatchIsOne == Dispatch => todo # <<>> /\ Dispatched /\ UNCHANGED inVars
BY DEF Dispatch, OnInvoke, OnChunk, OnChoke, OnHeartbeat, OnTerminate, OnOther, Message

\* What is said of the messages up to c stays true while nothing else was sent
\* than messages behind them.
LEMMA GoodStays ==
    ASSUME sent \in Seq(Msg), NEW m \in Msg, sent' = Append(sent, m)
    PROVE  /\ Len(sent') = Len(sent) + 1 /\ Len(sent) \in Nat
           /\ \A k \in 1..Len(sent) : /\ sent'[k] = sent[k] /\ (Good(k)' <=> Good(k))
                                       /\ (Garbled(k)' <=> Garbled(k))
BY AppendProperties, LenProperties DEF Good, Garbled

\* Feed, in every cut of the stream, keeps its place in it.
LEMMA FrameKeeps == TypeOK /\ Framed /\ [Next]_vars => Framed'
<1> USE Worker11Assumption
<1> SUFFICES ASSUME TypeOK, Framed, [Next]_vars PROVE Framed'
  OBVIOUS
<1>0. PICK b \in Nat, c \in Nat : Frame(b, c)
  BY DEF Framed
<1>1. /\ Len(sent) \in Nat /\ Len(buf) \in Nat /\ left \in Nat /\ fed \in Nat /\ buf \in Seq(Nat)
      /\ MsgLen * b \in Nat /\ MsgLen * c \in Nat /\ Len(sent) * MsgLen \in Nat
      /\ handled \o todo \in Seq(Nat) /\ handled \in Seq(Number) /\ todo \in Seq(Number)
  <2>1. Number \subseteq Nat
    BY DEF Number
  <2>2. handled \o todo \in Seq(Number)
    BY ConcatProperties DEF TypeOK
  <2>3. handled \o todo \in Seq(Nat)
    BY <2>1, <2>2, SeqMonotonic
  <2> QED
    BY <2>3, LenProperties DEF TypeOK
<1>a. b <= c /\ c <= Len(sent) /\ fed = MsgLen * b + Len(buf) /\ \A k \in 1..c : ~Garbled(k)
  BY <1>0 DEF Frame
<1>b. MsgLen * b <= MsgLen * c
  BY <1>a
<1>d. PICK B \in Nat : B = MsgLen * b /\ fed = B + Len(buf)
  BY <1>1, <1>a
<1>n. fed \in Nat /\ Len(buf) \in Nat /\ left \in Nat /\ Len(sent) \in Nat
  BY <1>1
<1>2. ASSUME NEW n \in 1..(MaxSent * MsgLen), LoopReads(n) PROVE Framed'
  <2> DEFINE piece == [j \in 1..n |-> fed + j]
  <2>1. piece \in Seq(Nat) /\ Len(piece) = n /\ n \in Nat
    <3>1. n \in Nat /\ piece \in [1..n -> Nat]
      BY <1>1
    <3> QED
      BY <3>1, IsASeq
  <2>2. /\ sent' = sent /\ fed' = fed + n /\ buf' = buf \o piece /\ left' = Len(buf')
        /\ UNCHANGED <<handled, todo>> /\ fed + n <= Len(sent) * MsgLen
    BY <1>2 DEF LoopReads, loopVars
  <2>3. /\ Len(buf') = Len(buf) + n
        /\ \A j \in 1..Len(buf) : buf'[j] = buf[j]
        /\ \A j \in 1..(Len(buf) + n) : j \notin 1..Len(buf) => buf'[j] = piece[j - Len(buf)]
    BY <1>1, <2>1, <2>2, ConcatProperties
  <2>4. \A j \in 1..Len(buf') : buf'[j] = fed' - Len(buf') + j
    <3>a. fed' - Len(buf') = fed - Len(buf)
      BY <1>1, <2>1, <2>2, <2>3
    <3> SUFFICES ASSUME NEW j \in 1..(Len(buf) + n) PROVE buf'[j] = fed - Len(buf) + j
      BY <2>3, <3>a
    <3>1. CASE j \in 1..Len(buf)
      BY <2>3, <3>1 DEF Framed
    <3>2. CASE j \notin 1..Len(buf)
      <4>1. j - Len(buf) \in 1..n
        BY <1>1, <2>1, <3>2
      <4>2. piece[j - Len(buf)] = fed + (j - Len(buf))
        BY <4>1
      <4>3. buf'[j] = piece[j - Len(buf)]
        BY <2>3, <3>2
      <4> QED
        BY <1>1, <4>2, <4>3
    <3> QED
      BY <3>1, <3>2
  <2>5. Frame(b, b)'
    <3>1. b <= b /\ b <= Len(sent)
      BY <1>0, <1>1 DEF Frame
    <3>2. fed' = MsgLen * b + Len(buf')
      <4>1. fed + n = B + (Len(buf) + n)
        BY <1>d, <1>n, <2>1
      <4> QED
        BY <1>d, <2>2, <2>3, <4>1
    <3>3. {k \in 1..b : Good(k)} = {k \in 1..c : Good(k)}
      BY <1>0 DEF Frame
    <3>4. \A k : (Good(k)' <=> Good(k)) /\ (Garbled(k)' <=> Garbled(k))
      BY <2>2 DEF Good, Garbled
    <3>5. {k \in 1..b : Good(k)'} = {k \in 1..b : Good(k)}
      BY <3>4
    <3>6. \A k \in (b + 1)..b : FALSE
      OBVIOUS
    <3>7. \A k \in 1..b : ~Garbled(k)'
      BY <1>a, <3>4
    <3> QED
      BY <1>0, <2>2, <3>1, <3>2, <3>3, <3>5, <3>6, <3>7 DEF Frame
  <2> QED
    BY <2>2, <2>4, <2>5 DEF Framed
<1>3. CASE Decode
  <2>1. /\ Feeding /\ left >= MsgLen /\ UNCHANGED <<sent, fed, handled>>
    BY <1>3 DEF Decode, Feeding
  <2>2. Decoded = c + 1 /\ c + 1 <= Len(sent) /\ c + 1 \in Number /\ left <= Len(buf)
    BY <1>0, <2>1, DecodesNext
  <2>a. fed = MsgLen * c + left
    BY <1>0, <2>1, DecodesNext
  <2>4. \A k : (Good(k)' <=> Good(k)) /\ (Garbled(k)' <=> Garbled(k))
    BY <2>1 DEF Good, Garbled
  <2>7. CASE Garbled(Decoded)
    <3>1. left' = 0 /\ UNCHANGED <<todo, buf>>
      BY <1>3, <2>7 DEF Decode, Good, Garbled
    <3>2. MsgLen * (c + 1) <= fed
      <4>1. MsgLen * (c + 1) = MsgLen * c + MsgLen
        OBVIOUS
      <4> QED
        BY <1>1, <2>1, <2>a, <4>1
    <3>3. Stuck(c)'
      BY <2>1, <2>2, <2>4, <2>7, <3>1, <3>2 DEF Stuck
    <3>4. Frame(b, c)'
      <4>1. {k \in 1..c : Good(k)'} = {k \in 1..c : Good(k)}
        BY <2>4
      <4>2. (\A k \in (b + 1)..c : ~Good(k)') /\ \A k \in 1..c : ~Garbled(k)'
        BY <1>0, <2>4 DEF Frame
      <4>3. Lists(handled' \o todo', {k \in 1..c : Good(k)'})
        BY <1>0, <2>1, <3>1, <4>1 DEF Frame
      <4> QED
        BY <1>a, <2>1, <3>1, <3>3, <4>2, <4>3 DEF Frame
    <3> QED
      BY <2>1, <3>1, <3>4 DEF Framed
  <2> SUFFICES ASSUME ~Garbled(Decoded) PROVE Framed'
    BY <2>7
  <2>b. left' = left - MsgLen /\ left' \in Nat
    <3>1. left' = left - MsgLen
      BY <1>3 DEF Decode
    <3> QED
      BY <1>1, <2>1, <3>1
  <2>3. fed' = MsgLen * (c + 1) + left'
    <3>1. MsgLen * (c + 1) = MsgLen * c + MsgLen /\ MsgLen * c \in Nat
      OBVIOUS
    <3> QED
      BY <1>1, <2>1, <2>a, <2>b, <3>1
  <2>c. \A k \in 1..(c + 1) : ~Garbled(k)'
    BY <1>a, <2>2, <2>4
  <2>5. CASE Good(Decoded)
    <3>1. todo' = Append(todo, c + 1) /\ buf' = SubSeq(buf, Len(buf) - left' + 1, Len(buf))
      BY <1>3, <2>2, <2>5 DEF Decode
    <3>2. left <= Len(buf)
      BY <2>2
    <3>3. /\ Len(buf') = left'
          /\ \A j \in 1..left' : buf'[j] = buf[Len(buf) - left' + j]
      <4>1. Len(buf) - left' + 1 \in 1..(Len(buf) + 1)
        BY <1>1, <2>1, <2>b, <3>2
      <4>2. \A j \in 1..left' : (Len(buf) - left' + 1) + j - 1 = Len(buf) - left' + j
        BY <1>1, <2>1, <2>b
      <4>3. Len(buf) - (Len(buf) - left' + 1) + 1 = left'
        BY <1>1, <2>1, <2>b
      <4>4. \A j \in 1..left' : Len(buf) - left' + j \in 1..Len(buf)
        BY <1>1, <2>1, <2>b, <3>2
      <4> QED
        BY <1>1, <2>1, <2>b, <3>1, <3>2, <4>1, <4>2, <4>3, <4>4, SubSeqProperties
    <3>4. \A j \in 1..Len(buf') : buf'[j] = fed' - Len(buf') + j
      <4> SUFFICES ASSUME NEW j \in 1..left' PROVE buf'[j] = fed - left' + j
        BY <2>1, <3>3
      <4>1. Len(buf) - left' + j \in 1..Len(buf)
        BY <1>1, <2>1, <2>b, <3>2
      <4>2. buf[Len(buf) - left' + j] = fed - Len(buf) + (Len(buf) - left' + j)
        BY <4>1 DEF Framed
      <4> QED
        BY <1>1, <2>1, <2>b, <3>3, <4>2
    <3>5. Lists(handled' \o todo', {k \in 1..(c + 1) : Good(k)'})
      <4>1. handled' \o todo' = Append(handled \o todo, c + 1)
        <5>1. handled \in Seq(Number) /\ todo \in Seq(Number) /\ c + 1 \in Number
          BY <2>2 DEF TypeOK
        <5>2. handled' = handled /\ todo' = Append(todo, c + 1)
          BY <2>1, <2>2, <3>1
        <5> QED
          BY <5>1, <5>2, Enqueue
      <4>2. Lists(Append(handled \o todo, c + 1), {k \in 1..c : Good(k)} \cup {c + 1})
        <5>1. \A y \in {k \in 1..c : Good(k)} : y < c + 1
          OBVIOUS
        <5>2. Lists(handled \o todo, {k \in 1..c : Good(k)})
          BY <1>0 DEF Frame
        <5> QED
          <6> DEFINE S == {k \in 1..c : Good(k)}
                     q == handled \o todo
          <6>1. q \in Seq(Nat) /\ Lists(q, S) /\ c + 1 \in Nat /\ \A y \in S : y < c + 1
            BY <1>1, <5>1, <5>2
          <6> HIDE DEF S, q
          <6>2. Lists(Append(q, c + 1), S \cup {c + 1})
            BY <6>1, ListsGrows
          <6> QED
            BY <6>2 DEF S, q
      <4>3. {k \in 1..(c + 1) : Good(k)'} = {k \in 1..c : Good(k)} \cup {c + 1}
        BY <2>2, <2>4, <2>5
      <4> QED
        BY <4>1, <4>2, <4>3
    <3>6. Frame(c + 1, c + 1)'
      BY <2>1, <2>2, <2>3, <2>c, <3>3, <3>5 DEF Frame
    <3> QED
      BY <2>1, <3>4, <3>6 DEF Framed
  <2>6. CASE ~Good(Decoded)
    <3>1. UNCHANGED <<todo, buf>>
      BY <1>3, <2>6 DEF Decode
    <3>2. {k \in 1..(c + 1) : Good(k)'} = {k \in 1..c : Good(k)}
      BY <2>2, <2>4, <2>6
    <3>3. \A k \in (b + 1)..(c + 1) : ~Good(k)'
      BY <1>0, <2>2, <2>4, <2>6 DEF Frame
    <3>4. Frame(b, c + 1)'
      <4>1. Lists(handled' \o todo', {k \in 1..(c + 1) : Good(k)'})
        BY <1>0, <2>1, <3>1, <3>2 DEF Frame
      <4>2. b <= c + 1 /\ fed' = MsgLen * b + Len(buf')
        BY <1>a, <2>1, <3>1
      <4> QED
        BY <2>1, <2>2, <2>3, <2>c, <3>3, <4>1, <4>2 DEF Frame
    <3> QED
      BY <2>1, <3>1, <3>4 DEF Framed
  <2> QED
    BY <2>5, <2>6
<1>4. CASE Dispatch
  <2>1. UNCHANGED inVars /\ handled' \o todo' = handled \o todo
    BY <1>4, DispatchIsOne, DispatchMoves
  <2>2. Frame(b, c)'
    BY <1>0, <2>1 DEF Frame, Stuck, Good, Garbled, inVars
  <2> QED
    BY <2>1, <2>2 DEF Framed, inVars
<1>5. ASSUME NEW m \in Msg, RuntimeSends(m) PROVE Framed'
  <2>1. sent' = Append(sent, m) /\ Len(sent) < MaxSent /\ UNCHANGED <<fed, buf, left, handled, todo>>
    BY <1>5 DEF RuntimeSends, loopVars
  <2>2. /\ Len(sent') = Len(sent) + 1
        /\ \A k \in 1..Len(sent) : (Good(k)' <=> Good(k)) /\ (Garbled(k)' <=> Garbled(k))
    BY <2>1, GoodStays DEF TypeOK
  <2>3. \A k \in 1..c : k \in 1..Len(sent)
    BY <1>1, <1>a
  <2>4. {k \in 1..c : Good(k)'} = {k \in 1..c : Good(k)}
    BY <2>2, <2>3
  <2>5. (\A k \in (b + 1)..c : ~Good(k)') /\ \A k \in 1..c : ~Garbled(k)'
    <3>1. \A k \in (b + 1)..c : k \in 1..c
      OBVIOUS
    <3> QED
      BY <1>0, <2>2, <2>3, <3>1 DEF Frame
  <2>6. Frame(b, c)'
    <3>1. Lists(handled' \o todo', {k \in 1..c : Good(k)'})
      BY <1>0, <2>1, <2>4 DEF Frame
    <3>2. b <= c /\ c <= Len(sent')
      BY <1>n, <1>a, <2>2
    <3>3. fed' = MsgLen * b + Len(buf')
      BY <1>a, <2>1
    <3>4. fed' = MsgLen * c + left' \/ Stuck(c)'
      <4>1. CASE fed = MsgLen * c + left
        BY <2>1, <4>1
      <4>2. CASE Stuck(c)
        <5>1. left = 0 /\ c + 1 <= Len(sent) /\ Garbled(c + 1) /\ MsgLen * (c + 1) <= fed
          BY <4>2 DEF Stuck
        <5>2. c + 1 \in 1..Len(sent) /\ c + 1 <= Len(sent')
          BY <1>n, <2>2, <5>1
        <5> QED
          BY <2>1, <2>2, <5>1, <5>2 DEF Stuck
      <4> QED
        BY <1>0, <4>1, <4>2 DEF Frame
    <3> QED
      BY <2>5, <3>1, <3>2, <3>3, <3>4 DEF Frame
  <2>7. fed' <= Len(sent') * MsgLen /\ Len(sent') <= MaxSent
    <3>1. (Len(sent) + 1) * MsgLen = Len(sent) * MsgLen + MsgLen
      BY <1>1
    <3> QED
      BY <1>1, <2>1, <2>2, <3>1 DEF Framed
  <2> QED
    BY <2>1, <2>6, <2>7 DEF Framed
<1>6. CASE Beside
  <2>1. UNCHANGED <<inVars, loopVars>>
    BY <1>6, BesideTheStream
  <2>2. Frame(b, c)'
    BY <1>0, <2>1 DEF Frame, Stuck, Good, Garbled, inVars, loopVars
  <2> QED
    BY <2>1, <2>2 DEF Framed, inVars, loopVars
<1> QED
  BY <1>2, <1>3, <1>4, <1>5, <1>6, StepKinds

-----------------------------------------------------------------------------
(* Types. *)

\* A message of a session names it; one that is not of a session names none.
LEMMA MessageKinds ==
    ASSUME NEW m \in Msg
    PROVE  /\ m.type \in {"invoke", "chunk", "choke"} =>
                m.session \in Session /\ m = [type |-> m.type, session |-> m.session]
           /\ m.type \in {"invoke", "chunk", "choke", "heartbeat", "terminate", "other", "bad", "alien", "garbled"}
BY DEF Msg

\* What todo holds was sent.
LEMMA WaitingWasSent ==
    ASSUME TypeOK, Framed
    PROVE  /\ \A n \in DOMAIN handled : handled[n] \in 1..Len(sent)
           /\ todo # <<>> => /\ Head(todo) \in 1..Len(sent) /\ sent[Head(todo)] \in Msg
                             /\ \A n \in DOMAIN handled : handled[n] < Head(todo)
<1>1. PICK b \in Nat, c \in Nat : Frame(b, c)
  BY DEF Framed
<1>2. handled \in Seq(Nat) /\ todo \in Seq(Nat)
  <2>1. Number \subseteq Nat
    BY DEF Number
  <2> QED
    BY <2>1, SeqMonotonic DEF TypeOK
<1>3. c <= Len(sent) /\ Lists(handled \o todo, {k \in 1..c : Good(k)}) /\ Len(sent) \in Nat
  BY <1>1, LenProperties DEF Frame, TypeOK
<1>4. CASE todo = <<>>
  <2>1. handled \o todo = handled
    BY <1>2, <1>4, ConcatEmptySeq
  <2>2. \A n \in DOMAIN handled : handled[n] \in {k \in 1..c : Good(k)}
    BY <1>3, <2>1 DEF Lists
  <2> QED
    BY <1>3, <1>4, <2>2
<1>5. CASE todo # <<>>
  <2> DEFINE S == {k \in 1..c : Good(k)}
  <2>1. Lists(handled \o todo, S)
    BY <1>3
  <2> HIDE DEF S
  <2>2. Head(todo) \in S /\ \A n \in DOMAIN handled : handled[n] \in S /\ handled[n] < Head(todo)
    BY <1>2, <1>5, <2>1, NextIsNew
  <2>3. S \subseteq 1..Len(sent)
    BY <1>3 DEF S
  <2>4. \A k \in 1..Len(sent) : sent[k] \in Msg
    BY ElementOfSeq DEF TypeOK
  <2> QED
    BY <2>2, <2>3, <2>4
<1> QED
  BY <1>4, <1>5

StreamTypes ==
    /\ sent \in Seq(Msg) /\ fed \in Nat
    /\ buf \in Seq(Nat) /\ left \in Nat /\ todo \in Seq(Number) /\ handled \in Seq(Number)

\* What Feed decodes has the type of a message's number.
LEMMA StreamTypesKeep == TypeOK /\ Framed /\ [Next]_vars => StreamTypes'
<1> USE Worker11Assumption
<1> SUFFICES ASSUME TypeOK, Framed, [Next]_vars PROVE StreamTypes'
  OBVIOUS
<1>0. StreamTypes
  BY DEF TypeOK, StreamTypes
<1>1. ASSUME NEW n \in 1..(MaxSent * MsgLen), LoopReads(n) PROVE StreamTypes'
  <2> DEFINE piece == [j \in 1..n |-> fed + j]
  <2>1. n \in Nat /\ piece \in [1..n -> Nat]
    BY <1>0 DEF StreamTypes
  <2>2. piece \in Seq(Nat)
    BY <2>1, IsASeq
  <2>3. buf' \in Seq(Nat) /\ left' = Len(buf') /\ fed' = fed + n
        /\ UNCHANGED <<sent, todo, handled>>
    BY <1>0, <1>1, <2>2, ConcatProperties DEF LoopReads, loopVars, StreamTypes
  <2> QED
    BY <1>0, <2>1, <2>3, LenProperties DEF StreamTypes
<1>2. CASE Decode
  <2>1. PICK b \in Nat, c \in Nat : Frame(b, c)
    BY DEF Framed
  <2>2. Decoded \in Number
    BY <1>2, <2>1, DecodesNext DEF Decode
  <2>3. left' \in Nat /\ left' <= left /\ UNCHANGED <<sent, fed, handled>>
    <3>1. /\ left >= MsgLen /\ left' \in {0, left - MsgLen} /\ UNCHANGED <<sent, fed, handled>>
      BY <1>2 DEF Decode, Feeding
    <3>2. left \in Nat /\ MsgLen \in Nat
      BY <1>0, Worker11Assumption DEF StreamTypes
    <3> QED
      BY <3>1, <3>2
  <2>4. Append(todo, Decoded) \in Seq(Number)
    BY <1>0, <2>2, AppendProperties DEF StreamTypes
  <2>5. SubSeq(buf, Len(buf) - left' + 1, Len(buf)) \in Seq(Nat)
    <3>1. left <= Len(buf)
      BY <1>2, <2>1, DecodesNext DEF Decode
    <3>2. Len(buf) \in Nat /\ Len(buf) - left' + 1 \in 1..(Len(buf) + 1)
      BY <1>0, <2>3, <3>1, LenProperties DEF StreamTypes
    <3>3. \A k \in (Len(buf) - left' + 1)..Len(buf) : buf[k] \in Nat
      BY <1>0, <3>2, ElementOfSeq DEF StreamTypes
    <3> QED
      BY <1>0, <3>2, <3>3, SubSeqProperties DEF StreamTypes
  <2> QED
    BY <1>0, <1>2, <2>3, <2>4, <2>5 DEF Decode, StreamTypes
<1>3. CASE Dispatch
  BY <1>0, <1>3, DispatchIsOne, DispatchMoves DEF inVars, StreamTypes
<1>4. ASSUME NEW m \in Msg, RuntimeSends(m) PROVE StreamTypes'
  BY <1>0, <1>4, AppendProperties DEF RuntimeSends, loopVars, StreamTypes
<1>5. CASE Beside
  BY <1>0, <1>5, BesideTheStream DEF inVars, loopVars, StreamTypes
<1> QED
  BY <1>1, <1>2, <1>3, <1>4, <1>5, StepKinds

\* The queue of a session's request takes a chunk, hands one over, is told to quit.
LEMMA RequestKinds ==
    ASSUME NEW q \in Request, NEW k \in Number
    PROVE  /\ [q EXCEPT !.pending = Append(@, k)] \in Request
           /\ [q EXCEPT !.quit = TRUE] \in Request
           /\ q.pending # <<>> =>
                [q EXCEPT !.pending = Tail(@), !.got = Append(@, Head(q.pending))] \in Request
<1>1. q.pending \in Seq(Number) /\ q.got \in Seq(Number) /\ q.quit \in BOOLEAN
  BY DEF Request
<1>2. Append(q.pending, k) \in Seq(Number)
  BY <1>1, AppendProperties
<1>3. q.pending # <<>> => Tail(q.pending) \in Seq(Number) /\ Append(q.got, Head(q.pending)) \in Seq(Number)
  BY <1>1, Dequeue
<1> QED
  BY <1>1, <1>2, <1>3 DEF Request

\* That of a session's response likewise.
LEMMA ResponseKinds ==
    ASSUME NEW q \in Response, NEW w \in Word
    PROVE  /\ [q EXCEPT !.pending = Append(@, w), !.said = Append(@, w)] \in Response
           /\ [q EXCEPT !.quit = TRUE] \in Response
           /\ q.pending # <<>> => [q EXCEPT !.pending = Tail(@)] \in Response
<1>1. q.pending \in Seq(Word) /\ q.said \in Seq(Word) /\ q.quit \in BOOLEAN
  BY DEF Response
<1>2. Append(q.pending, w) \in Seq(Word) /\ Append(q.said, w) \in Seq(Word)
  BY <1>1, AppendProperties
<1>3. q.pending # <<>> => Tail(q.pending) \in Seq(Word)
  BY <1>1, HeadTailProperties
<1> QED
  BY <1>1, <1>2, <1>3 DEF Response

\* The dispatcher keeps the types of what it shares with the handlers.
LEMMA DispatchTypes ==
    ASSUME TypeOK, Framed, Dispatch
    PROVE  /\ sessions' \subseteq Session /\ request' \in [Session -> Request]
           /\ response' = response /\ wire' = wire
           /\ handler' \in [Session -> Stage]
           /\ heartbeat' \in {"armed", "tick"} /\ disown' \in {"off", "armed", "late", "tick"}
           /\ lost' \in BOOLEAN /\ exited' \in {"no", "terminated", "disowned", "panic"}
<1>0. /\ sessions \subseteq Session /\ request \in [Session -> Request]
      /\ handler \in [Session -> Stage]
      /\ heartbeat \in {"armed", "tick"} /\ disown \in {"off", "armed", "late", "tick"}
      /\ lost \in BOOLEAN /\ exited \in {"no", "terminated", "disowned", "panic"}
  BY DEF TypeOK
<1>1. todo # <<>> /\ Head(todo) \in Number /\ sent[Head(todo)] \in Msg
  BY DispatchIsOne, DispatchMoves, WaitingWasSent
<1>2. sent[Head(todo)].type \in {"invoke", "chunk", "choke"} => Target \in Session
  BY <1>1, MessageKinds DEF Target
<1>3. CASE OnInvoke
  <2>1. Target \in Session
    BY <1>2, <1>3 DEF OnInvoke, Message
  <2>2. sessions' = sessions \cup {Target} /\ UNCHANGED <<request, response, wire, heartbeat, disown, lost, exited>>
    BY <1>3 DEF OnInvoke, timerVars
  <2>3. PICK to \in Callback : handler' = [handler EXCEPT ![Target] = to]
    BY <1>3 DEF OnInvoke
  <2>4. handler' \in [Session -> Stage]
    BY <1>0, <2>1, <2>3 DEF Stage, Callback
  <2> QED
    BY <1>0, <2>1, <2>2, <2>4
<1>4. CASE OnChunk
  <2>1. UNCHANGED <<sessions, response, handler, wire, heartbeat, disown, lost>>
    BY <1>4 DEF OnChunk, timerVars
  <2>2. CASE Target \notin sessions
    BY <1>0, <1>4, <2>1, <2>2 DEF OnChunk
  <2>3. CASE Target \in sessions
    <3>1. request' = [request EXCEPT ![Target].pending = Append(@, Head(todo))] /\ exited' = exited
      BY <1>4, <2>3 DEF OnChunk
    <3>2. [request[Target] EXCEPT !.pending = Append(@, Head(todo))] \in Request
      BY <1>0, <1>1, <2>3, RequestKinds
    <3>3. request' \in [Session -> Request]
      BY <1>0, <2>3, <3>1, <3>2
    <3> QED
      BY <1>0, <2>1, <3>1, <3>3
  <2> QED
    BY <2>2, <2>3
<1>5. CASE OnChoke
  <2>1. UNCHANGED <<response, handler, wire, heartbeat, disown, lost>>
    BY <1>5 DEF OnChoke, timerVars
  <2>2. CASE Target \notin sessions
    BY <1>0, <1>5, <2>1, <2>2 DEF OnChoke
  <2>3. CASE Target \in sessions
    <3>1. /\ request' = [request EXCEPT ![Target].quit = TRUE] /\ exited' = exited
          /\ sessions' = sessions \ {Target}
      BY <1>5, <2>3 DEF OnChoke
    <3>2. [request[Target] EXCEPT !.quit = TRUE] \in Request
      BY <1>0, <1>1, <2>3, RequestKinds
    <3>3. request' \in [Session -> Request]
      BY <1>0, <2>3, <3>1, <3>2
    <3> QED
      BY <1>0, <2>1, <3>1, <3>3
  <2> QED
    BY <2>2, <2>3
<1>6. CASE OnHeartbeat \/ OnTerminate \/ OnOther
  BY <1>0, <1>6 DEF OnHeartbeat, OnTerminate, OnOther, handlerVars, timerVars
<1> QED
  BY <1>3, <1>4, <1>5, <1>6 DEF Dispatch

\* A handler's goroutine, and the main goroutine that takes its answers, keep them.
LEMMA SayTypes ==
    ASSUME TypeOK, NEW i \in Session, NEW from \in Stage, NEW w \in Word, NEW to \in Stage,
           Say(i, from, w, to)
    PROVE  response' \in [Session -> Response] /\ handler' \in [Session -> Stage]
<1>1. [response[i] EXCEPT !.pending = Append(@, w), !.said = Append(@, w)] \in Response
  BY ResponseKinds DEF TypeOK
<1>2. response' = [response EXCEPT ![i] =
                      [response[i] EXCEPT !.pending = Append(@, w), !.said = Append(@, w)]]
  BY DEF Say, TypeOK
<1> QED
  BY <1>1, <1>2 DEF Say, TypeOK

\* What can be said; what is said last before the quit is a choke.
LEMMA Words ==
    ASSUME TypeOK, NEW i \in Session, Write(i) \/ Close(i) \/ ErrorMsg(i)
    PROVE  \E from, to \in Stage, w \in Word :
              Say(i, from, w, to) /\ (to \in {"runQuit", "quit"} => w = Choke)
<1> USE Worker11Assumption
<1>1. CASE Write(i)
  <2> DEFINE w == <<"chunk", Len(response[i].said) + 1>>
  <2>1. Len(response[i].said) \in Nat
    BY LenProperties DEF TypeOK, Response
  <2>2. w \in Word
    BY <1>1, <2>1 DEF Write, MaySay, Word
  <2>3. Say(i, "run", w, "run") /\ "run" \in Stage
    BY <1>1 DEF Write, Stage
  <2> HIDE DEF w
  <2> QED
    BY <2>2, <2>3
<1>2. CASE Close(i) \/ ErrorMsg(i)
  <2>1. Choke \in Word /\ Error \in Word
    BY DEF Word, Choke, Error
  <2>2. {"run", "runQuit", "close", "trap", "fallback", "quit"} \subseteq Stage
    BY DEF Stage
  <2>3. \/ Say(i, "run", Choke, "runQuit") \/ Say(i, "close", Choke, "quit")
        \/ Say(i, "run", Error, "run")
        \/ Say(i, "trap", Error, "close") \/ Say(i, "fallback", Error, "close")
    BY <1>2 DEF Close, ErrorMsg
  <2> QED
    BY <2>1, <2>2, <2>3
<1> QED
  BY <1>1, <1>2

\* A step of a handler or of its queues keeps their types.
LEMMA HandlerTypes ==
    ASSUME TypeOK, NEW i \in Session,
           Outcoming(i) \/ Read(i) \/ Write(i) \/ Bound(i) \/ HandlerLeaves(i)
    PROVE  /\ request' \in [Session -> Request] /\ response' \in [Session -> Response]
           /\ handler' \in [Session -> Stage] /\ wire' \in [Session -> Seq(Word)]
           /\ UNCHANGED <<heartbeat, disown, lost, exited>>
<1>0. /\ request \in [Session -> Request] /\ response \in [Session -> Response]
      /\ handler \in [Session -> Stage] /\ wire \in [Session -> Seq(Word)]
      /\ response[i].pending \in Seq(Word) /\ request[i].pending \in Seq(Number)
  BY DEF TypeOK, Request, Response
<1>1. CASE Outcoming(i)
  <2>1. /\ response[i].pending # <<>> /\ UNCHANGED <<request, handler, heartbeat, disown, lost, exited>>
        /\ wire' = [wire EXCEPT ![i] = Append(@, Head(response[i].pending))]
        /\ response' = [response EXCEPT ![i].pending = Tail(@)]
    BY <1>1 DEF Outcoming, timerVars
  <2>2. <<"choke", 0>> \in Word
    BY Worker11Assumption DEF Word
  <2>3. [response[i] EXCEPT !.pending = Tail(@)] \in Response
    BY <1>0, <2>1, <2>2, ResponseKinds
  <2>4. response' \in [Session -> Response]
    BY <1>0, <2>1, <2>3
  <2>5. Append(wire[i], Head(response[i].pending)) \in Seq(Word)
    BY <1>0, <2>1, Dequeue
  <2> QED
    BY <1>0, <2>1, <2>4, <2>5
<1>2. CASE Read(i)
  <2>1. /\ request[i].pending # <<>>
        /\ UNCHANGED <<response, handler, wire, heartbeat, disown, lost, exited>>
        /\ request' = [request EXCEPT ![i].pending = Tail(@),
                                      ![i].got = Append(@, Head(request[i].pending))]
    BY <1>2 DEF Read, timerVars
  <2>2. Head(request[i].pending) \in Number
    BY <1>0, <2>1, Dequeue
  <2>3. [request[i] EXCEPT !.pending = Tail(@), !.got = Append(@, Head(request[i].pending))] \in Request
    BY <1>0, <2>1, <2>2, RequestKinds
  <2>4. request' = [request EXCEPT ![i] =
                      [request[i] EXCEPT !.pending = Tail(@), !.got = Append(@, Head(request[i].pending))]]
    BY <1>0, <2>1
  <2> QED
    BY <1>0, <2>1, <2>3, <2>4
<1>3. CASE Write(i) \/ Close(i) \/ ErrorMsg(i)
  <2>1. PICK from \in Stage, to \in Stage, w \in Word : Say(i, from, w, to)
    BY <1>3, Words
  <2>2. response' \in [Session -> Response] /\ handler' \in [Session -> Stage]
    BY <2>1, SayTypes
  <2> QED
    BY <1>0, <2>1, <2>2 DEF Say, timerVars
<1>4. CASE Quit(i)
  <2>1. /\ response' = [response EXCEPT ![i].quit = TRUE]
        /\ handler' = [handler EXCEPT ![i] = IF @ = "quit" THEN "done" ELSE "run"]
        /\ UNCHANGED <<request, wire, heartbeat, disown, lost, exited>>
    BY <1>4 DEF Quit, timerVars
  <2>2. <<"choke", 0>> \in Word
    BY Worker11Assumption DEF Word
  <2>3. [response[i] EXCEPT !.quit = TRUE] \in Response
    BY <1>0, <2>2, ResponseKinds
  <2>4. response' \in [Session -> Response]
    BY <1>0, <2>1, <2>3
  <2>5. handler' \in [Session -> Stage]
    BY <1>0, <2>1 DEF Stage
  <2> QED
    BY <1>0, <2>1, <2>4, <2>5
<1>5. CASE HandlerLeaves(i)
  BY <1>0, <1>5 DEF HandlerLeaves, timerVars, Stage
<1> QED
  BY <1>1, <1>2, <1>3, <1>4, <1>5 DEF Bound

\* Every step keeps the types.
LEMMA TypesKeep == TypeOK /\ Framed /\ [Next]_vars => TypeOK'
<1> SUFFICES ASSUME TypeOK, Framed, [Next]_vars PROVE TypeOK'
  OBVIOUS
<1>0. StreamTypes'
  BY StreamTypesKeep
<1>1. CASE Dispatch
  BY <1>0, <1>1, DispatchTypes DEF TypeOK, StreamTypes
<1>2. ASSUME NEW i \in Session,
             Outcoming(i) \/ Read(i) \/ Write(i) \/ Bound(i) \/ HandlerLeaves(i)
      PROVE  TypeOK'
  <2>1. sessions' = sessions
    BY <1>2, BesideTheStream DEF Beside, loopVars
  <2> QED
    BY <1>0, <1>2, <2>1, HandlerTypes DEF TypeOK, StreamTypes
<1>3. CASE HeartbeatTick \/ DisownTick \/ ConnectionLost \/ DisownFires \/ HeartbeatFires
  <2>1. UNCHANGED <<sessions, request, response, handler, wire>>
    BY <1>3 DEF HeartbeatTick, DisownTick, ConnectionLost, DisownFires, HeartbeatFires,
                loopVars, handlerVars
  <2>2. /\ heartbeat' \in {"armed", "tick"} /\ disown' \in {"off", "armed", "late", "tick"}
        /\ lost' \in BOOLEAN /\ exited' \in {"no", "terminated", "disowned", "panic"}
    BY <1>3 DEF HeartbeatTick, ResetDisown, DisownTimeout, DisownTick, ConnectionLost, DisownFires,
                HeartbeatFires, timerVars, TypeOK
  <2> QED
    BY <1>0, <2>1, <2>2 DEF TypeOK, StreamTypes
<1>4. CASE (\E n \in 1..(MaxSent * MsgLen) : LoopReads(n)) \/ (\E m \in Msg : RuntimeSends(m))
  <2>1. UNCHANGED <<sessions, handlerVars, wire, timerVars, lost, exited>>
    BY <1>4 DEF LoopReads, RuntimeSends, loopVars
  <2> QED
    BY <1>0, <2>1 DEF TypeOK, StreamTypes, handlerVars, timerVars
<1>5. CASE Decode
  <2>1. UNCHANGED <<sessions, handlerVars, wire, timerVars, lost>> /\ exited' \in {exited, "panic"}
    BY <1>5 DEF Decode
  <2> QED
    BY <1>0, <2>1 DEF TypeOK, StreamTypes, handlerVars, timerVars
<1>6. CASE UNCHANGED vars
  BY <1>0, <1>6 DEF TypeOK, StreamTypes, vars, loopVars, handlerVars, timerVars
<1> QED
  BY <1>1, <1>2, <1>3, <1>4, <1>5, <1>6, StepKinds DEF Beside

-----------------------------------------------------------------------------
(* The chunks of a session. *)

ChunkOf(i) == [type |-> "chunk", session |-> i]
Dispatches == {handled[n] : n \in DOMAIN handled}
Chunks(i) == {k \in Dispatches : sent[k] = ChunkOf(i)}

\* A list with one more message at its end.
LEMMA DispatchAdds ==
    ASSUME TypeOK, todo # <<>>, Dispatched
    PROVE  Dispatches' = Dispatches \cup {Head(todo)}
<1>1. /\ handled' = Append(handled, Head(todo)) /\ Len(handled) \in Nat
      /\ DOMAIN handled = 1..Len(handled)
  BY LenProperties DEF Dispatched, TypeOK
<1>2. /\ DOMAIN handled' = 1..(Len(handled) + 1)
      /\ \A n \in 1..Len(handled) : handled'[n] = handled[n]
      /\ handled'[Len(handled) + 1] = Head(todo)
  <2>1. Head(todo) \in Number
    BY DispatchMoves
  <2> QED
    BY <1>1, <2>1, AppendProperties, LenProperties DEF TypeOK
<1>3. \A n \in DOMAIN handled' : n \in DOMAIN handled \/ n = Len(handled) + 1
  BY <1>1, <1>2
<1>4. \A n \in DOMAIN handled : n \in DOMAIN handled'
  BY <1>1, <1>2
<1>5. Len(handled) + 1 \in DOMAIN handled'
  BY <1>1, <1>2
<1>6. \A y : y \in Dispatches' <=> y \in Dispatches \/ y = Head(todo)
  BY <1>1, <1>2, <1>3, <1>4, <1>5 DEF Dispatches
<1> QED
  BY <1>6

\* The messages a request has been given, read or not.
Queue(i) == request[i].got \o request[i].pending

\* push and Read keep the chunks of a session in order: a chunk that is
\* dispatched comes behind all that were.
LEMMA ChunksKeep == TypeOK /\ Framed /\ ChunksInOrder /\ [Next]_vars => ChunksInOrder'
<1> SUFFICES ASSUME TypeOK, Framed, ChunksInOrder, [Next]_vars, exited' # "panic",
                    NEW i \in Session
             PROVE  Lists(Queue(i)', Chunks(i)')
  BY DEF ChunksInOrder, Queue, Chunks, Dispatches, ChunkOf
<1>0. /\ request[i].got \in Seq(Number) /\ request[i].pending \in Seq(Number)
      /\ request \in [Session -> Request] /\ \A j \in Session : request[j] \in Request
      /\ Number \subseteq Nat /\ Queue(i) \in Seq(Nat)
  <2>1. request[i].got \in Seq(Number) /\ request[i].pending \in Seq(Number)
    BY DEF TypeOK, Request
  <2>2. Number \subseteq Nat
    BY DEF Number
  <2>3. Queue(i) \in Seq(Number)
    BY <2>1, ConcatProperties DEF Queue
  <2> QED
    BY <2>1, <2>2, <2>3, SeqMonotonic DEF TypeOK
<1>1. Lists(Queue(i), Chunks(i))
  <2>1. exited # "panic"
    BY DEF Next, vars
  <2> QED
    BY <2>1 DEF ChunksInOrder, Queue, Chunks, Dispatches, ChunkOf
<1>2. ASSUME UNCHANGED <<handled, sent>>, Queue(i)' = Queue(i)
      PROVE  Lists(Queue(i)', Chunks(i)')
  BY <1>1, <1>2 DEF Chunks, Dispatches
<1>3. CASE (\E n \in 1..(MaxSent * MsgLen) : LoopReads(n)) \/ Decode
  <2>1. UNCHANGED <<handled, sent, request>>
    BY <1>3 DEF LoopReads, Decode, loopVars, handlerVars
  <2> QED
    BY <1>2, <2>1 DEF Queue
<1>4. CASE Beside
  <2>1. UNCHANGED <<handled, sent>>
    BY <1>4, BesideTheStream DEF inVars, loopVars
  <2>2. Queue(i)' = Queue(i)
    <3>1. ASSUME NEW j \in Session, Read(j), j = i PROVE Queue(i)' = Queue(i)
      <4>1. /\ request[i].pending # <<>>
            /\ request'[i].pending = Tail(request[i].pending)
            /\ request'[i].got = Append(request[i].got, Head(request[i].pending))
        BY <1>0, <3>1 DEF Read, Request
      <4>2. Append(request[i].got, Head(request[i].pending)) \o Tail(request[i].pending)
              = request[i].got \o request[i].pending
        <5> DEFINE g == request[i].got
        <5> DEFINE q == request[i].pending
        <5>1. g \in Seq(Number) /\ q \in Seq(Number) /\ q # <<>>
          BY <1>0, <4>1
        <5> HIDE DEF g, q
        <5>2. Append(g, Head(q)) \o Tail(q) = g \o q
          BY <5>1, Dequeue
        <5> QED
          BY <5>2 DEF g, q
      <4> QED
        BY <4>1, <4>2 DEF Queue
    <3>2. ASSUME NEW j \in Session, Read(j), j # i PROVE Queue(i)' = Queue(i)
      <4>1. request'[i] = request[i]
        BY <1>0, <3>2 DEF Read
      <4> QED
        BY <4>1 DEF Queue
    <3>3. CASE \A j \in Session : ~Read(j)
      <4>1. request' = request
        BY <1>4, <3>3 DEF Beside, HeartbeatTick, DisownTick, Outcoming, Write, Bound, Close, Quit,
              ErrorMsg, Say, HandlerLeaves, ConnectionLost, DisownFires, HeartbeatFires, vars,
              handlerVars
      <4> QED
        BY <4>1 DEF Queue
    <3> QED
      BY <3>1, <3>2, <3>3
  <2> QED
    BY <1>2, <2>1, <2>2
<1>5. ASSUME NEW m \in Msg, RuntimeSends(m) PROVE Lists(Queue(i)', Chunks(i)')
  <2>1. sent' = Append(sent, m) /\ UNCHANGED <<handled, request>>
    BY <1>5 DEF RuntimeSends, loopVars, handlerVars
  <2>2. \A k \in Dispatches : sent'[k] = sent[k]
    BY <2>1, GoodStays, WaitingWasSent DEF TypeOK, Dispatches
  <2>3. Chunks(i)' = Chunks(i) /\ Queue(i)' = Queue(i)
    BY <2>1, <2>2 DEF Chunks, Dispatches, Queue
  <2> QED
    BY <1>1, <2>3
<1>6. CASE Dispatch
  <2> DEFINE x == Head(todo)
  <2>1. todo # <<>> /\ Dispatched /\ sent' = sent
    BY <1>6, DispatchIsOne DEF inVars
  <2>2. /\ x \in Number /\ sent[x] \in Msg /\ \A y \in Dispatches : y < x
        /\ Dispatches' = Dispatches \cup {x}
    BY <2>1, DispatchMoves, WaitingWasSent, DispatchAdds DEF Dispatches
  <2>3. Target = sent[x].session
    BY DEF Target
  <2> HIDE DEF x
  <2>4. CASE sent[x] = ChunkOf(i)
    <3>1. OnChunk /\ Target = i
      BY <1>6, <2>1, <2>3, <2>4 DEF Dispatch, OnInvoke, OnChoke, OnHeartbeat, OnTerminate, OnOther,
            Message, ChunkOf, x
    <3>2. request' = [request EXCEPT ![i].pending = Append(@, x)]
      BY <3>1 DEF OnChunk, x
    <3>3. request'[i].got = request[i].got /\ request'[i].pending = Append(request[i].pending, x)
      BY <1>0, <3>2 DEF Request
    <3>4. Queue(i)' = Append(Queue(i), x)
      <4>1. request[i].got \o Append(request[i].pending, x)
              = Append(request[i].got \o request[i].pending, x)
        <5> DEFINE g == request[i].got
        <5> DEFINE q == request[i].pending
        <5>1. g \in Seq(Number) /\ q \in Seq(Number) /\ x \in Number
          BY <1>0, <2>2
        <5> HIDE DEF g, q
        <5>2. g \o Append(q, x) = Append(g \o q, x)
          BY <5>1, Enqueue
        <5> QED
          BY <5>2 DEF g, q
      <4> QED
        BY <3>3, <4>1 DEF Queue
    <3>5. Chunks(i)' = Chunks(i) \cup {x}
      BY <2>1, <2>2, <2>4 DEF Chunks
    <3>6. x \in Nat /\ \A y \in Chunks(i) : y < x
      BY <1>0, <2>2 DEF Chunks
    <3> QED
      BY <1>0, <1>1, <3>4, <3>5, <3>6, ListsGrows
  <2>5. CASE sent[x] # ChunkOf(i)
    <3>1. Chunks(i)' = Chunks(i)
      BY <2>1, <2>2, <2>5 DEF Chunks
    <3>2. request'[i].got = request[i].got /\ request'[i].pending = request[i].pending
      <4>1. CASE OnChunk
        <5>1. Target # i
          BY <2>2, <2>3, <2>5, <4>1, MessageKinds DEF OnChunk, Message, ChunkOf, x
        <5> QED
          BY <1>0, <4>1, <5>1 DEF OnChunk
      <4>2. CASE OnChoke
        <5>1. CASE Target \in sessions
          <6>1. request' = [request EXCEPT ![Target].quit = TRUE] /\ Target \in Session
            BY <4>2, <5>1 DEF OnChoke, TypeOK
          <6> QED
            BY <1>0, <6>1 DEF Request
        <5>2. CASE Target \notin sessions
          BY <4>2, <5>2 DEF OnChoke
        <5> QED
          BY <5>1, <5>2
      <4>3. CASE OnInvoke \/ OnHeartbeat \/ OnTerminate \/ OnOther
        BY <4>3 DEF OnInvoke, OnHeartbeat, OnTerminate, OnOther, handlerVars
      <4> QED
        BY <1>6, <4>1, <4>2, <4>3 DEF Dispatch
    <3> QED
      BY <1>1, <3>1, <3>2 DEF Queue
  <2> QED
    BY <2>4, <2>5
<1> QED
  BY <1>3, <1>4, <1>5, <1>6, StepKinds

-----------------------------------------------------------------------------
(* The answers. *)

\* Nobody tells a queue to quit who has not said the choke.
ChokeSaid ==
    \A i \in Session :
        response[i].quit \/ handler[i] \in {"runQuit", "quit"} =>
            \E n \in 1..Len(response[i].said) : response[i].said[n] = Choke

\* What was said is on the wire or waits for it.
NothingUnsaid == \A i \in Session : wire[i] \o response[i].pending = response[i].said

\* The step of a handler that says a word, and of the loop that writes one.
LEMMA SaidGrows ==
    ASSUME TypeOK, NEW i \in Session, NEW from \in Stage, NEW w \in Word, NEW to \in Stage,
           Say(i, from, w, to)
    PROVE  /\ handler[i] = from /\ handler'[i] = to /\ wire' = wire
           /\ response'[i].said = Append(response[i].said, w)
           /\ response'[i].pending = Append(response[i].pending, w)
           /\ response'[i].quit = response[i].quit
           /\ \A j \in Session \ {i} : response'[j] = response[j] /\ handler'[j] = handler[j]
<1>1. /\ handler[i] = from /\ wire' = wire /\ handler' = [handler EXCEPT ![i] = to]
      /\ response' = [response EXCEPT ![i].pending = Append(@, w), ![i].said = Append(@, w)]
  BY DEF Say
<1>2. response \in [Session -> Response] /\ handler \in [Session -> Stage]
  BY DEF TypeOK
<1> QED
  BY <1>1, <1>2 DEF Response

\* Nothing that was said is lost or overtaken on its way to the wire.
LEMMA NothingUnsaidKeeps == TypeOK /\ NothingUnsaid /\ [Next]_vars => NothingUnsaid'
<1> SUFFICES ASSUME TypeOK, NothingUnsaid, [Next]_vars, NEW i \in Session
             PROVE  wire'[i] \o response'[i].pending = response'[i].said
  BY DEF NothingUnsaid
<1>0. /\ wire[i] \in Seq(Word) /\ response[i].pending \in Seq(Word) /\ response[i].said \in Seq(Word)
      /\ wire[i] \o response[i].pending = response[i].said
      /\ wire \in [Session -> Seq(Word)] /\ response \in [Session -> Response]
  BY DEF TypeOK, Response, NothingUnsaid
<1>1. ASSUME NEW j \in Session, Write(j) \/ Close(j) \/ ErrorMsg(j)
      PROVE  wire'[i] \o response'[i].pending = response'[i].said
  <2>1. PICK from \in Stage, to \in Stage, w \in Word : Say(j, from, w, to)
    BY <1>1, Words
  <2>2. CASE i = j
    <3>1. /\ wire'[i] = wire[i] /\ response'[i].said = Append(response[i].said, w)
          /\ response'[i].pending = Append(response[i].pending, w)
      BY <2>1, <2>2, SaidGrows
    <3>2. wire[i] \o Append(response[i].pending, w) = Append(wire[i] \o response[i].pending, w)
      <4> DEFINE g == wire[i]
      <4> DEFINE q == response[i].pending
      <4>1. g \in Seq(Word) /\ q \in Seq(Word) /\ w \in Word
        BY <1>0
      <4> HIDE DEF g, q
      <4>2. g \o Append(q, w) = Append(g \o q, w)
        BY <4>1, Enqueue
      <4> QED
        BY <4>2 DEF g, q
    <3> QED
      BY <1>0, <3>1, <3>2
  <2>3. CASE i # j
    <3>1. wire' = wire /\ \A k \in Session \ {j} : response'[k] = response[k]
      BY <2>1, SaidGrows
    <3>2. wire'[i] = wire[i] /\ response'[i] = response[i]
      BY <2>3, <3>1
    <3> QED
      BY <1>0, <3>2
  <2> QED
    BY <2>2, <2>3
<1>2. ASSUME NEW j \in Session, Outcoming(j)
      PROVE  wire'[i] \o response'[i].pending = response'[i].said
  <2>1. CASE i = j
    <3>1. /\ response[i].pending # <<>>
          /\ wire' = [wire EXCEPT ![i] = Append(@, Head(response[i].pending))]
          /\ response' = [response EXCEPT ![i].pending = Tail(@)]
      BY <1>2, <2>1 DEF Outcoming
    <3>2. /\ wire'[i] = Append(wire[i], Head(response[i].pending))
          /\ response'[i].pending = Tail(response[i].pending)
          /\ response'[i].said = response[i].said
      BY <1>0, <3>1 DEF Response
    <3>3. Append(wire[i], Head(response[i].pending)) \o Tail(response[i].pending)
            = wire[i] \o response[i].pending
      BY <1>0, <3>1, Dequeue
    <3> QED
      BY <1>0, <3>2, <3>3
  <2>2. CASE i # j
    <3>1. wire'[i] = wire[i] /\ response'[i] = response[i]
      BY <1>0, <1>2, <2>2 DEF Outcoming
    <3> QED
      BY <1>0, <3>1
  <2> QED
    BY <2>1, <2>2
<1>3. ASSUME NEW j \in Session, Quit(j)
      PROVE  wire'[i] \o response'[i].pending = response'[i].said
  <2>1. wire' = wire /\ response' = [response EXCEPT ![j].quit = TRUE]
    BY <1>3 DEF Quit
  <2>2. response'[i].pending = response[i].pending /\ response'[i].said = response[i].said
    BY <1>0, <2>1 DEF Response
  <2> QED
    BY <1>0, <2>1, <2>2
<1>4. ASSUME UNCHANGED <<wire, response>>
      PROVE  wire'[i] \o response'[i].pending = response'[i].said
  BY <1>0, <1>4
<1>5. CASE Dispatch \/ Decode \/ (\E n \in 1..(MaxSent * MsgLen) : LoopReads(n))
           \/ (\E m \in Msg : RuntimeSends(m))
  <2>1. UNCHANGED <<wire, response>>
    BY <1>5 DEF Dispatch, OnInvoke, OnChunk, OnChoke, OnHeartbeat, OnTerminate, OnOther, Decode,
          LoopReads, RuntimeSends, handlerVars
  <2> QED
    BY <1>4, <2>1
<1>6. CASE \/ HeartbeatTick \/ DisownTick \/ ConnectionLost \/ DisownFires \/ HeartbeatFires
           \/ UNCHANGED vars \/ \E j \in Session : Read(j) \/ HandlerLeaves(j)
  <2>1. UNCHANGED <<wire, response>>
    BY <1>6 DEF HeartbeatTick, DisownTick, ConnectionLost, DisownFires, HeartbeatFires, vars, Read,
          HandlerLeaves, handlerVars
  <2> QED
    BY <1>4, <2>1
<1> QED
  BY <1>1, <1>2, <1>3, <1>5, <1>6, StepKinds DEF Beside, Bound

\* Close says the choke before the quit, whoever calls it and how often.
LEMMA ChokeSaidKeeps == TypeOK /\ Framed /\ ChokeSaid /\ [Next]_vars => ChokeSaid'
<1> SUFFICES ASSUME TypeOK, Framed, ChokeSaid, [Next]_vars, NEW i \in Session,
                    response'[i].quit \/ handler'[i] \in {"runQuit", "quit"}
             PROVE  \E n \in 1..Len(response'[i].said) : response'[i].said[n] = Choke
  BY DEF ChokeSaid
<1> DEFINE said == response[i].said
<1>0. /\ said \in Seq(Word) /\ Len(said) \in Nat /\ response[i].quit \in BOOLEAN
      /\ response \in [Session -> Response] /\ handler \in [Session -> Stage]
      /\ response[i].quit \/ handler[i] \in {"runQuit", "quit"} =>
            \E n \in 1..Len(said) : said[n] = Choke
  BY LenProperties DEF TypeOK, Response, ChokeSaid
<1>1. ASSUME said' = said,
             \/ response[i].quit /\ response'[i].quit
             \/ handler[i] \in {"runQuit", "quit"}
             \/ response'[i].quit = response[i].quit /\ handler'[i] \notin {"runQuit", "quit"}
      PROVE  \E n \in 1..Len(said') : said'[n] = Choke
  BY <1>0, <1>1
<1>2. ASSUME NEW j \in Session, Write(j) \/ Close(j) \/ ErrorMsg(j)
      PROVE  \E n \in 1..Len(said') : said'[n] = Choke
  <2>1. PICK from \in Stage, to \in Stage, w \in Word :
              Say(j, from, w, to) /\ (to \in {"runQuit", "quit"} => w = Choke)
    BY <1>2, Words
  <2>2. CASE i = j
    <3>1. /\ handler'[i] = to /\ said' = Append(said, w)
          /\ response'[i].quit = response[i].quit
      BY <2>1, <2>2, SaidGrows
    <3>2. /\ Len(said') = Len(said) + 1 /\ said'[Len(said) + 1] = w
          /\ \A n \in 1..Len(said) : said'[n] = said[n] /\ n \in 1..Len(said')
      BY <1>0, <3>1, AppendProperties
    <3> HIDE DEF said
    <3>3. CASE response[i].quit
      BY <1>0, <3>2, <3>3
    <3>4. CASE to \in {"runQuit", "quit"}
      <4>1. Len(said) + 1 \in 1..Len(said')
        BY <1>0, <3>2
      <4> QED
        BY <2>1, <3>2, <3>4, <4>1
    <3> QED
      BY <3>1, <3>3, <3>4
  <2>3. CASE i # j
    <3>1. response'[i] = response[i] /\ handler'[i] = handler[i]
      BY <2>1, <2>3, SaidGrows
    <3> QED
      BY <1>0, <3>1
  <2> QED
    BY <2>2, <2>3
<1>3. ASSUME NEW j \in Session, Quit(j)
      PROVE  \E n \in 1..Len(said') : said'[n] = Choke
  <2>1. /\ handler[j] \in {"runQuit", "quit"} /\ response' = [response EXCEPT ![j].quit = TRUE]
        /\ handler' = [handler EXCEPT ![j] = IF @ = "quit" THEN "done" ELSE "run"]
    BY <1>3 DEF Quit
  <2>2. said' = said
    BY <1>0, <2>1 DEF Response
  <2>3. CASE i = j
    BY <1>1, <2>1, <2>2, <2>3
  <2>4. CASE i # j
    <3>1. response'[i] = response[i] /\ handler'[i] = handler[i]
      BY <1>0, <2>1, <2>4
    <3> QED
      BY <1>0, <3>1
  <2> QED
    BY <2>3, <2>4
<1>4. ASSUME NEW j \in Session, Outcoming(j) \/ Read(j) \/ HandlerLeaves(j)
      PROVE  \E n \in 1..Len(said') : said'[n] = Choke
  <2>1. said' = said /\ response'[i].quit = response[i].quit
    <3>1. CASE Outcoming(j)
      <4>1. response' = [response EXCEPT ![j].pending = Tail(@)]
        BY <3>1 DEF Outcoming
      <4> QED
        BY <1>0, <4>1 DEF Response
    <3>2. CASE Read(j) \/ HandlerLeaves(j)
      BY <3>2 DEF Read, HandlerLeaves
    <3> QED
      BY <1>4, <3>1, <3>2
  <2>2. handler'[i] \in {"runQuit", "quit"} => handler[i] \in {"runQuit", "quit"}
    BY <1>0, <1>4 DEF Outcoming, Read, HandlerLeaves
  <2> QED
    BY <1>0, <2>1, <2>2
<1>5. CASE OnInvoke
  <2>1. response' = response /\ \E to \in Callback : handler' = [handler EXCEPT ![Target] = to]
    BY <1>5 DEF OnInvoke
  <2>2. handler'[i] \in {"runQuit", "quit"} => handler[i] \in {"runQuit", "quit"}
    BY <1>0, <2>1 DEF Callback
  <2> QED
    BY <1>0, <2>1, <2>2
<1>6. CASE \/ OnChunk \/ OnChoke \/ OnHeartbeat \/ OnTerminate \/ OnOther \/ Decode
           \/ (\E n \in 1..(MaxSent * MsgLen) : LoopReads(n)) \/ (\E m \in Msg : RuntimeSends(m))
           \/ HeartbeatTick \/ DisownTick \/ ConnectionLost \/ DisownFires \/ HeartbeatFires
           \/ UNCHANGED vars
  <2>1. UNCHANGED <<handler, response>>
    BY <1>6 DEF OnChunk, OnChoke, OnHeartbeat, OnTerminate, OnOther, Decode, LoopReads, RuntimeSends,
          HeartbeatTick, DisownTick, ConnectionLost, DisownFires, HeartbeatFires, vars, handlerVars
  <2> QED
    BY <1>0, <2>1
<1> QED
  BY <1>2, <1>3, <1>4, <1>5, <1>6, StepKinds DEF Beside, Bound, Dispatch

-----------------------------------------------------------------------------
(* The invariant, and what follows from it. *)

(***************************************************************************)
(* What the worker of the 0.11 framework keeps.  None of the properties is *)
(* inductive as it stands: the order of the messages needs the place of the*)
(* decoder in the stream, types and chunks need that order (a message is   *)
(* dispatched after it was sent, and once), and that a queue which has     *)
(* ended has put a choke on the wire needs what was said before the quit.  *)
(***************************************************************************)
Worker11Inv ==
    /\ TypeOK /\ Framed
    /\ ChunksInOrder /\ NothingUnsaid /\ ChokeSaid

\* Nothing was sent, fed or said.
LEMMA Worker11Starts == Init => Worker11Inv
<1> SUFFICES ASSUME Init PROVE Worker11Inv
  OBVIOUS
<1> USE Worker11Assumption
<1>1. /\ sent = <<>> /\ fed = 0 /\ buf = <<>> /\ left = 0 /\ todo = <<>> /\ handled = <<>>
      /\ \A i \in Session : /\ request[i].got = <<>> /\ request[i].pending = <<>>
                            /\ response[i].said = <<>> /\ response[i].pending = <<>>
                            /\ wire[i] = <<>> /\ handler[i] = "none"
                            /\ response[i].quit = FALSE
  BY DEF Init
<1>2. /\ Len(<<>>) = 0 /\ DOMAIN <<>> = {} /\ <<>> \o <<>> = <<>>
  OBVIOUS
<1>3. TypeOK
  <2>1. request \in [Session -> Request]
    BY DEF Init, Request
  <2>2. response \in [Session -> Response]
    BY DEF Init, Response
  <2>3. handler \in [Session -> Stage] /\ wire \in [Session -> Seq(Word)]
    BY DEF Init, Stage
  <2>4. /\ sent \in Seq(Msg) /\ fed \in Nat /\ buf \in Seq(Nat) /\ left \in Nat
        /\ todo \in Seq(Number) /\ handled \in Seq(Number)
    BY <1>1, EmptySeq
  <2>5. /\ sessions \subseteq Session /\ heartbeat \in {"armed", "tick"}
        /\ disown \in {"off", "armed", "late", "tick"} /\ lost \in BOOLEAN
        /\ exited \in {"no", "terminated", "disowned", "panic"}
    BY DEF Init
  <2> QED
    BY <2>1, <2>2, <2>3, <2>4, <2>5 DEF TypeOK
<1>4. Framed
  <2>1. Frame(0, 0)
    BY <1>1, <1>2 DEF Frame, Lists
  <2> QED
    BY <1>1, <1>2, <2>1 DEF Framed
<1>5. ChunksInOrder
  BY <1>1, <1>2 DEF ChunksInOrder, Lists
<1>7. NothingUnsaid
  BY <1>1, <1>2 DEF NothingUnsaid
<1>8. ChokeSaid
  BY <1>1 DEF ChokeSaid
<1> QED
  BY <1>3, <1>4, <1>5, <1>7, <1>8 DEF Worker11Inv

(***************************************************************************)
(* For any number of sessions and messages, any length of a message and any*)
(* cut of the stream, every step of Loop, of the queue goroutines and of   *)
(* the handlers keeps the invariant.                                       *)
(***************************************************************************)
THEOREM Worker11Invariant == Spec => []Worker11Inv
<1>1. Worker11Inv /\ [Next]_vars => Worker11Inv'
  BY FrameKeeps, TypesKeep, ChunksKeep, NothingUnsaidKeeps, ChokeSaidKeeps
     DEF Worker11Inv
<1> QED
  BY <1>1, Worker11Starts, PTL DEF Spec

\* The state of the worker has its types: what is dispatched was sent, and a
\* request's queue holds nothing else.
THEOREM TypeCorrect == Spec => []TypeOK
<1>1. Worker11Inv => TypeOK
  BY DEF Worker11Inv
<1> QED
  BY <1>1, Worker11Invariant, PTL

(***************************************************************************)
(* streamUnpacker.Feed decodes every message whose bytes have arrived, once*)
(* and in order, however the socket cuts the stream and whichever messages *)
(* do not unpack, up to the first that does not decode and none behind it. *)
(***************************************************************************)
THEOREM DecodesInOrder == Spec => []DecodedInOrder
<1>1. Worker11Inv => DecodedInOrder
  <2> SUFFICES ASSUME Worker11Inv, ~Feeding PROVE Lists(handled \o todo, Readable)
    BY DEF DecodedInOrder
  <2>1. PICK b \in Nat, c \in Nat : Frame(b, c)
    BY DEF Worker11Inv, Framed
  <2>2. left \in Nat /\ left < MsgLen /\ MsgLen \in Nat \ {0} /\ fed \in Nat
    BY Worker11Assumption DEF Worker11Inv, TypeOK, Feeding
  <2>3. CASE fed = MsgLen * c + left
    <3>1. fed \div MsgLen = c
      BY <2>2, <2>3, Cut
    <3>2. \A k \in 1..c : \A j \in 1..k : j \in 1..c
      OBVIOUS
    <3>3. Readable = {k \in 1..c : Good(k)}
      BY <2>1, <3>1, <3>2 DEF Readable, Frame
    <3> QED
      BY <2>1, <3>3 DEF Frame
  <2>4. CASE Stuck(c)
    <3>1. fed \div MsgLen \in Nat /\ c + 1 <= fed \div MsgLen
      BY <2>2, <2>4, Whole DEF Stuck
    <3>2. \A k \in 1..(fed \div MsgLen) : k \in 1..c \/ c + 1 \in 1..k
      BY <3>1
    <3>3. \A k \in 1..c : k \in 1..(fed \div MsgLen) /\ \A j \in 1..k : j \in 1..c
      BY <3>1
    <3>4. \A k : k \in Readable <=> k \in 1..c /\ Good(k)
      BY <2>1, <2>4, <3>2, <3>3 DEF Readable, Frame, Stuck
    <3>5. Readable = {k \in 1..c : Good(k)}
      BY <3>4
    <3> QED
      BY <2>1, <3>5 DEF Frame
  <2> QED
    BY <2>1, <2>3, <2>4 DEF Frame
<1> QED
  BY <1>1, Worker11Invariant, PTL

(***************************************************************************)
(* The queue goroutine of a Request hands its handler every chunk of the   *)
(* session that Loop dispatched, once and in order, a choke behind them or *)
(* not.                                                                    *)
(***************************************************************************)
THEOREM ChunksArriveInOrder == Spec => []ChunksInOrder
<1>1. Worker11Inv => ChunksInOrder
  BY DEF Worker11Inv
<1> QED
  BY <1>1, Worker11Invariant, PTL

(***************************************************************************)
(* The queue goroutine of a Response and Loop write what the handler said, *)
(* in its order, although Close, ErrorMsg and the recover of a panic all   *)
(* write to the same queue; and a queue that has ended, on which whoever   *)
(* speaks again waits for ever, has put a choke on the wire.               *)
(***************************************************************************)
THEOREM AnswersArriveInOrder == Spec => []AnswersInOrder
<1>1. Worker11Inv => AnswersInOrder
  <2> SUFFICES ASSUME Worker11Inv, NEW i \in Session
               PROVE  /\ wire[i] \o response[i].pending = response[i].said
                      /\ Gone(response[i]) => \E n \in DOMAIN wire[i] : wire[i][n] = Choke
    BY DEF AnswersInOrder
  <2>1. /\ wire[i] \in Seq(Word) /\ response[i].pending \in Seq(Word)
        /\ wire[i] \o response[i].pending = response[i].said
    BY DEF Worker11Inv, TypeOK, Response, NothingUnsaid
  <2>2. ASSUME Gone(response[i]) PROVE \E n \in DOMAIN wire[i] : wire[i][n] = Choke
    <3>1. response[i].pending = <<>> /\ \E n \in 1..Len(response[i].said) : response[i].said[n] = Choke
      BY <2>2 DEF Gone, Worker11Inv, ChokeSaid
    <3>2. response[i].said = wire[i]
      BY <2>1, <3>1, ConcatEmptySeq
    <3>3. DOMAIN wire[i] = 1..Len(wire[i])
      BY <2>1, LenProperties
    <3> QED
      BY <3>1, <3>2, <3>3
  <2> QED
    BY <2>1, <2>2
<1> QED
  BY <1>1, Worker11Invariant, PTL
=============================================================================
