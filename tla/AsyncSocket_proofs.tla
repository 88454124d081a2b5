------------------------- MODULE AsyncSocket_proofs -------------------------
(***************************************************************************)
(* Proofs about AsyncSocket, for any messages, senders and scripts of the  *)
(* peer: what goes through a socket keeps its order in both directions.    *)
(***************************************************************************)
EXTENDS AsyncSocket, AsyncBuff, SequenceTheorems, TLAPS

\* s is what t begins with.
Begins(s, t) == Len(s) <= Len(t) /\ \A k \in 1..Len(s) : s[k] = t[k]

-----------------------------------------------------------------------------
\* A history that grows still begins with what it began with.
LEMMA BeginsGrows ==
    ASSUME NEW S, NEW s \in Seq(S), NEW t \in Seq(S), NEW m \in S, Begins(s, t)
    PROVE  Begins(s, Append(t, m))
<1>1. Len(s) \in Nat /\ Len(t) \in Nat /\ Len(Append(t, m)) = Len(t) + 1
  BY AppendProperties, LenProperties
<1>2. \A k \in 1..Len(t) : Append(t, m)[k] = t[k]
  BY AppendProperties
<1> QED
  BY <1>1, <1>2 DEF Begins

\* Taking the next message of t follows t.
LEMMA BeginsTakes ==
    ASSUME NEW S, NEW s \in Seq(S), NEW t \in Seq(S), Begins(s, t), Len(s) < Len(t)
    PROVE  Append(s, t[Len(s) + 1]) \in Seq(S) /\ Begins(Append(s, t[Len(s) + 1]), t)
<1> DEFINE n == Len(s) + 1
           u == Append(s, t[n])
<1>1. Len(s) \in Nat /\ Len(t) \in Nat /\ n \in 1..Len(t)
  BY LenProperties
<1>2. t[n] \in S
  BY <1>1, ElementOfSeq
<1>3. u \in Seq(S) /\ Len(u) = n /\ u[n] = t[n] /\ \A k \in 1..Len(s) : u[k] = s[k]
  BY <1>2, AppendProperties
<1> HIDE DEF u
<1>4. \A k \in 1..n : u[k] = t[k]
  BY <1>1, <1>3 DEF Begins
<1>5. Begins(u, t)
  BY <1>1, <1>3, <1>4 DEF Begins
<1> QED
  BY <1>3, <1>5 DEF u

\* The beginning of a beginning.
LEMMA BeginsChain ==
    ASSUME NEW S, NEW s \in Seq(S), NEW t \in Seq(S), NEW u \in Seq(S),
           Begins(s, t), Begins(t, u)
    PROVE  Begins(s, u)
<1>1. Len(s) \in Nat /\ Len(t) \in Nat /\ Len(u) \in Nat
  BY LenProperties
<1> QED
  BY <1>1 DEF Begins

\* A beginning of full length is the whole.
LEMMA BeginsWhole ==
    ASSUME NEW S, NEW s \in Seq(S), NEW t \in Seq(S), Begins(s, t), Len(s) = Len(t)
    PROVE  s = t
BY SeqEqual DEF Begins

-----------------------------------------------------------------------------
(***************************************************************************)
(* The inductive invariant.  Up: what was taken is what was accepted, and  *)
(* while the connection lives writeloop has written all it has taken, but  *)
(* for the message it is encoding.  Down: what readloop has put is what the*)
(* peer sent, but for the message it holds.                                *)
(***************************************************************************)
Writing ==
    /\ Begins(upGot, upSent) /\ Begins(written, upGot)
    /\ writer = "encode" => Len(upGot) > 0
    /\ Alive /\ writer = "range" => Len(written) = Len(upGot)
    /\ Alive /\ writer = "encode" => Len(written) + 1 = Len(upGot)

Reading ==
    /\ Begins(downGot, downSent) /\ Begins(downSent, fromPeer)
    /\ decoded = IF reader = "put" THEN Len(downSent) + 1 ELSE Len(downSent)
    /\ decoded <= Len(fromPeer) /\ Len(fromPeer) <= Len(Script)

\* Without a Close the downstream buffer ends behind readloop, and with
\* everything handed over.
Ending ==
    /\ inClosed # "no" => reader \in {"close", "done"}
    /\ inClosed = "end" => peer # "up" /\ decoded = Len(fromPeer)
    /\ downStatus = "closed" /\ ~downStop => downGot = downSent

SocketInv == TypeOK /\ Writing /\ Reading /\ Ending

USE SocketAssumption

\* A new socket satisfies the invariant.
LEMMA SocketInit == Init => SocketInv
<1> SUFFICES ASSUME Init PROVE SocketInv
  OBVIOUS
<1>1. <<>> \in Seq(Msg) /\ Len(<<>>) = 0 /\ Len(Script) \in Nat
  BY EmptySeq, LenProperties
<1>2. Begins(<<>>, <<>>)
  BY <1>1 DEF Begins
<1>3. TypeOK
  <2>1. sender \in [Sender -> Msg \cup {NoMsg}]
    BY DEF Init
  <2>2. Up!TypeOK /\ Down!TypeOK
    BY <1>1 DEF Init, Up!Init, Up!TypeOK, Down!Init, Down!TypeOK
  <2>3. 0 \in 0..MaxSent /\ 0 \in 0..Len(Script)
    BY <1>1
  <2> QED
    BY <1>1, <2>1, <2>2, <2>3 DEF Init, TypeOK
<1>4. Writing
  BY <1>1, <1>2 DEF Init, Writing, Up!Init
<1>5. Reading
  BY <1>1, <1>2 DEF Init, Reading, Down!Init
<1>6. Ending
  BY DEF Init, Ending, Down!Init
<1> QED
  BY <1>3, <1>4, <1>5, <1>6 DEF SocketInv

-----------------------------------------------------------------------------
\* Send preserves it.
LEMMA SendKeeps ==
    ASSUME SocketInv, NEW s \in Sender,
           SendAccepted(s) \/ SendDropped(s) \/ \E m \in Msg : Send(s, m)
    PROVE  SocketInv'
<1> USE DEF SocketInv, upVars, downVars, sendVars, writeVars, readVars, peerVars
<1>1. CASE SendAccepted(s)
  <2>1. sender[s] \in Msg /\ upSent' = Append(upSent, sender[s]) /\ upGot' = upGot
    BY <1>1 DEF SendAccepted, TypeOK, Up!Put
  <2>2. upSent' \in Seq(Msg)
    BY <2>1, AppendProperties DEF TypeOK, Up!TypeOK
  <2>3. TypeOK'
    BY <1>1, <2>2 DEF SendAccepted, Up!Put, TypeOK, Up!TypeOK, Down!TypeOK
  <2>4. Begins(upGot', upSent')
    BY <2>1, BeginsGrows DEF Writing, TypeOK, Up!TypeOK
  <2>5. Writing'
    BY <1>1, <2>4 DEF SendAccepted, Up!Put, Writing, Alive
  <2>6. Reading' /\ Ending'
    BY <1>1 DEF SendAccepted, Reading, Ending
  <2> QED
    BY <2>3, <2>5, <2>6
<1>2. CASE SendDropped(s)
  BY <1>2 DEF SendDropped, TypeOK, Up!TypeOK, Down!TypeOK, Writing, Alive, Reading, Ending
<1>3. ASSUME NEW m \in Msg, Send(s, m)
      PROVE  SocketInv'
  <2>1. TypeOK'
    BY <1>3 DEF Send, TypeOK, Up!TypeOK, Down!TypeOK
  <2> QED
    BY <1>3, <2>1 DEF Send, Writing, Alive, Reading, Ending
<1> QED
  BY <1>1, <1>2, <1>3

\* writeloop takes the next message of the buffer, to write or to drop it.
LEMMA TakeKeeps ==
    ASSUME SocketInv, Up!Take
    PROVE  /\ upGot' \in Seq(Msg) /\ Len(upGot') = Len(upGot) + 1
           /\ upSent' = upSent
           /\ Begins(upGot', upSent) /\ Begins(written, upGot')
<1>1. /\ upSent \in Seq(Msg) /\ upGot \in Seq(Msg) /\ written \in Seq(Msg)
      /\ Begins(upGot, upSent) /\ Begins(written, upGot)
  BY DEF SocketInv, TypeOK, Up!TypeOK, Writing
<1>2. /\ Len(upGot) < Len(upSent) /\ upGot' = Append(upGot, upSent[Len(upGot) + 1])
      /\ upSent' = upSent
  BY DEF Up!Take
<1>3. upSent[Len(upGot) + 1] \in Msg
  BY <1>1, <1>2, ElementOfSeq, LenProperties
<1>4. Len(upGot') = Len(upGot) + 1
  BY <1>1, <1>2, <1>3, AppendProperties
<1>5. upGot' \in Seq(Msg) /\ Begins(upGot', upSent)
  BY <1>1, <1>2, BeginsTakes
<1>6. Begins(written, upGot')
  BY <1>1, <1>2, <1>3, BeginsGrows
<1> QED
  BY <1>2, <1>4, <1>5, <1>6

\* writeloop preserves it.
LEMMA WriterKeeps ==
    ASSUME SocketInv, Writer
    PROVE  SocketInv'
<1> USE DEF SocketInv, upVars, downVars, sendVars, writeVars, readVars, peerVars
<1>1. CASE WriterTakes
  <2>1. Up!Take /\ UNCHANGED <<downVars, sendVars, broken, written, readVars, peerVars, closed, closer>>
    BY <1>1 DEF WriterTakes
  <2>2. TypeOK'
    BY <1>1, <2>1, TakeKeeps DEF WriterTakes, Up!Take, TypeOK, Up!TypeOK, Down!TypeOK
  <2>3. Writing'
    <3>1. Len(upGot) \in Nat /\ Len(written) \in Nat
      BY LenProperties DEF TypeOK, Up!TypeOK
    <3> QED
      BY <1>1, <2>1, <3>1, TakeKeeps DEF WriterTakes, Writing, Alive
  <2> QED
    BY <2>1, <2>2, <2>3 DEF Reading, Ending
<1>2. CASE WriterWrites
  <2>1. CASE Alive
    <3> DEFINE m == upGot[Len(written) + 1]
    <3>1. /\ upGot \in Seq(Msg) /\ written \in Seq(Msg) /\ Begins(written, upGot)
          /\ Len(upGot) = Len(written) + 1
      BY <1>2, <2>1 DEF WriterWrites, TypeOK, Up!TypeOK, Writing
    <3>2. written' = Append(written, m)
      BY <1>2, <2>1, <3>1 DEF WriterWrites, Encoding
    <3>3. Len(written) \in Nat /\ Len(written) < Len(upGot)
      BY <3>1, LenProperties
    <3>4. m \in Msg
      BY <3>1, <3>3, ElementOfSeq
    <3>5. written' \in Seq(Msg) /\ Begins(written', upGot)
      BY <3>1, <3>2, <3>3, BeginsTakes
    <3>6. Len(written') = Len(upGot)
      BY <3>1, <3>2, <3>4, AppendProperties
    <3>7. TypeOK'
      BY <1>2, <2>1, <3>5 DEF WriterWrites, TypeOK, Up!TypeOK, Down!TypeOK
    <3>8. Writing'
      BY <1>2, <2>1, <3>5, <3>6 DEF WriterWrites, Writing, Alive
    <3> QED
      BY <1>2, <3>7, <3>8 DEF WriterWrites, Reading, Ending
  <2>2. CASE ~Alive
    BY <1>2, <2>2 DEF WriterWrites, TypeOK, Up!TypeOK, Down!TypeOK, Writing, Alive, Reading, Ending
  <2> QED
    BY <2>1, <2>2
<1>3. CASE EncodeFails
  BY <1>3 DEF EncodeFails, TypeOK, Up!TypeOK, Down!TypeOK, Writing, Alive, Reading, Ending
<1>4. CASE WriterCloses
  BY <1>4 DEF WriterCloses, TypeOK, Up!TypeOK, Down!TypeOK, Writing, Alive, Reading, Ending
<1>5. CASE Blackhole
  <2>1. Up!Take /\ UNCHANGED <<downVars, sendVars, writeVars, readVars, peerVars, closed, closer>>
    BY <1>5 DEF Blackhole
  <2>2. TypeOK'
    BY <2>1, TakeKeeps DEF Up!Take, TypeOK, Up!TypeOK, Down!TypeOK
  <2>3. Writing'
    BY <1>5, <2>1, TakeKeeps DEF Blackhole, Writing, Alive
  <2> QED
    BY <2>1, <2>2, <2>3 DEF Reading, Ending
<1>6. CASE WriterEnds
  BY <1>6 DEF WriterEnds, TypeOK, Up!TypeOK, Down!TypeOK, Writing, Alive, Reading, Ending
<1> QED
  BY <1>1, <1>2, <1>3, <1>4, <1>5, <1>6 DEF Writer

\* readloop preserves it.
LEMMA ReaderKeeps ==
    ASSUME SocketInv, Reader
    PROVE  SocketInv'
<1> USE DEF SocketInv, upVars, downVars, sendVars, writeVars, readVars, peerVars
<1>1. CASE Decode
  <2>1. /\ Len(fromPeer) \in Nat /\ Len(downSent) \in Nat /\ Len(Script) \in Nat
    BY LenProperties DEF TypeOK, Down!TypeOK
  <2>2. TypeOK'
    BY <1>1, <2>1 DEF Decode, TypeOK, Up!TypeOK, Down!TypeOK, Reading
  <2>3. Reading' /\ Ending'
    BY <1>1, <2>1 DEF Decode, Reading, Ending
  <2>4. Writing'
    BY <1>1 DEF Decode, Writing, Alive
  <2> QED
    BY <2>2, <2>3, <2>4
<1>2. CASE ReaderPuts
  <2>1. /\ downSent' = Append(downSent, fromPeer[decoded]) /\ downGot' = downGot
        /\ downStatus = "open" /\ downStatus' = downStatus /\ downStop' = downStop
    BY <1>2 DEF ReaderPuts, Down!Put
  <2>2. /\ downSent \in Seq(Msg) /\ downGot \in Seq(Msg) /\ fromPeer \in Seq(Msg)
        /\ Begins(downGot, downSent) /\ Begins(downSent, fromPeer)
        /\ decoded = Len(downSent) + 1 /\ decoded <= Len(fromPeer)
    BY <1>2 DEF ReaderPuts, TypeOK, Down!TypeOK, Reading
  <2>3. Len(downSent) \in Nat /\ Len(fromPeer) \in Nat
    BY <2>2, LenProperties
  <2>4. fromPeer[decoded] \in Msg
    BY <2>2, <2>3, ElementOfSeq
  <2>5. downSent' \in Seq(Msg) /\ Begins(downSent', fromPeer) /\ Len(downSent') = decoded
    BY <2>1, <2>2, <2>3, <2>4, BeginsTakes, AppendProperties
  <2>6. Begins(downGot, downSent')
    BY <2>1, <2>2, <2>4, BeginsGrows
  <2>7. TypeOK'
    BY <1>2, <2>1, <2>5 DEF ReaderPuts, TypeOK, Up!TypeOK, Down!TypeOK
  <2>8. Reading'
    BY <1>2, <2>1, <2>5, <2>6 DEF ReaderPuts, Reading
  <2>9. Ending' /\ Writing'
    BY <1>2, <2>1 DEF ReaderPuts, Ending, Writing, Alive
  <2> QED
    BY <2>7, <2>8, <2>9
<1>3. CASE DecodeFails
  BY <1>3 DEF DecodeFails, AtEnd, TypeOK, Up!TypeOK, Down!TypeOK, Writing, Alive, Reading, Ending
<1>4. CASE ReaderCloses
  BY <1>4 DEF ReaderCloses, TypeOK, Up!TypeOK, Down!TypeOK, Writing, Alive, Reading, Ending
<1> QED
  BY <1>1, <1>2, <1>3, <1>4 DEF Reader

\* The loops of the buffers and the goroutine that reads preserve it.
LEMMA BuffersKeep ==
    ASSUME SocketInv, Buffers \/ Read
    PROVE  SocketInv'
<1> USE DEF SocketInv, upVars, downVars, sendVars, writeVars, readVars, peerVars
<1>1. CASE UpCloses
  BY <1>1 DEF UpCloses, Up!Close, TypeOK, Up!TypeOK, Down!TypeOK, Writing, Alive, Reading, Ending
<1>2. CASE DownEnds
  BY <1>2 DEF DownEnds, Down!EndInput, TypeOK, Up!TypeOK, Down!TypeOK, Writing, Alive, Reading, Ending
<1>3. CASE DownCloses
  BY <1>3 DEF DownCloses, Down!Close, TypeOK, Up!TypeOK, Down!TypeOK, Writing, Alive, Reading, Ending
<1>4. CASE Read
  <2>1. /\ Len(downGot) < Len(downSent) /\ downStatus # "closed"
        /\ downGot' = Append(downGot, downSent[Len(downGot) + 1])
        /\ UNCHANGED <<downSent, downStatus, downStop>>
    BY <1>4 DEF Read, Down!Take
  <2>2. downGot' \in Seq(Msg) /\ Begins(downGot', downSent)
    BY <2>1, BeginsTakes DEF TypeOK, Down!TypeOK, Reading
  <2>3. TypeOK'
    BY <1>4, <2>1, <2>2 DEF Read, TypeOK, Up!TypeOK, Down!TypeOK
  <2>4. Writing' /\ Reading' /\ Ending'
    BY <1>4, <2>1, <2>2 DEF Read, Writing, Alive, Reading, Ending
  <2> QED
    BY <2>3, <2>4
<1> QED
  BY <1>1, <1>2, <1>3, <1>4 DEF Buffers

\* Close and the peer preserve it.
LEMMA OthersKeep ==
    ASSUME SocketInv, Closing \/ PeerSends \/ PeerLeaves
    PROVE  SocketInv'
<1> USE DEF SocketInv, upVars, downVars, sendVars, writeVars, readVars, peerVars
<1>1. CASE CloseStopsUp
  BY <1>1 DEF CloseStopsUp, Up!AllowDrop, TypeOK, Up!TypeOK, Down!TypeOK, Writing, Alive, Reading, Ending
<1>2. CASE CloseStopsDown
  BY <1>2 DEF CloseStopsDown, Down!AllowDrop, TypeOK, Up!TypeOK, Down!TypeOK, Writing, Alive, Reading, Ending
<1>3. CASE CloseEnds
  BY <1>3 DEF CloseEnds, TypeOK, Up!TypeOK, Down!TypeOK, Writing, Alive, Reading, Ending
<1>4. CASE PeerSends
  <2> DEFINE m == Script[Len(fromPeer) + 1]
  <2>1. /\ peer = "up" /\ Len(fromPeer) < Len(Script) /\ fromPeer' = Append(fromPeer, m)
    BY <1>4 DEF PeerSends
  <2>2. Len(fromPeer) \in Nat /\ Len(Script) \in Nat
    BY LenProperties DEF TypeOK
  <2>3. m \in Msg
    BY <2>1, <2>2, ElementOfSeq
  <2>4. fromPeer' \in Seq(Msg) /\ Len(fromPeer') = Len(fromPeer) + 1
    BY <2>1, <2>3, AppendProperties DEF TypeOK
  <2>5. Begins(downSent, fromPeer')
    BY <2>1, <2>3, BeginsGrows DEF TypeOK, Down!TypeOK, Reading
  <2>6. TypeOK'
    BY <1>4, <2>4 DEF PeerSends, TypeOK, Up!TypeOK, Down!TypeOK
  <2>7. Reading'
    BY <1>4, <2>1, <2>2, <2>4, <2>5 DEF PeerSends, Reading
  <2>8. Writing' /\ Ending'
    BY <1>4, <2>1 DEF PeerSends, Writing, Alive, Ending
  <2> QED
    BY <2>6, <2>7, <2>8
<1>5. CASE PeerLeaves
  BY <1>5 DEF PeerLeaves, TypeOK, Up!TypeOK, Down!TypeOK, Writing, Alive, Reading, Ending
<1> QED
  BY <1>1, <1>2, <1>3, <1>4, <1>5 DEF Closing

\* No step, and no stuttering, breaks the invariant.
LEMMA SocketKept == SocketInv /\ [Next]_vars => SocketInv'
<1> SUFFICES ASSUME SocketInv, [Next]_vars PROVE SocketInv'
  OBVIOUS
<1>1. CASE UNCHANGED vars
  BY <1>1 DEF vars, upVars, downVars, sendVars, writeVars, readVars, peerVars, SocketInv,
              TypeOK, Up!TypeOK, Down!TypeOK, Writing, Alive, Reading, Ending
<1>2. CASE Next
  BY <1>2, SendKeeps, WriterKeeps, ReaderKeeps, BuffersKeep, OthersKeep DEF Next
<1> QED
  BY <1>1, <1>2

\* The invariant holds in every reachable state.
THEOREM SocketInvariant == Spec => []SocketInv
BY SocketInit, SocketKept, PTL DEF Spec

-----------------------------------------------------------------------------
(***************************************************************************)
(* The fields of asyncRWSocket and its goroutines keep their types; no nil *)
(* message is ever passed on.                                              *)
(***************************************************************************)
THEOREM TypeCorrect == Spec => []TypeOK
<1>1. SocketInv => TypeOK
  BY DEF SocketInv
<1> QED
  BY <1>1, SocketInvariant, PTL

(***************************************************************************)
(* The peer receives what Send accepted, from the first message on and     *)
(* without a gap, although the error of Flush is not looked at.            *)
(***************************************************************************)
THEOREM WritesInOrder == Spec => []WrittenInOrder
<1>1. ASSUME SocketInv PROVE WrittenInOrder
  <2>1. written \in Seq(Msg) /\ upGot \in Seq(Msg) /\ upSent \in Seq(Msg)
    BY <1>1 DEF SocketInv, TypeOK, Up!TypeOK
  <2>2. Begins(written, upSent)
    BY <1>1, <2>1, BeginsChain DEF SocketInv, Writing
  <2>3. DOMAIN written = 1..Len(written)
    BY <2>1, LenProperties
  <2> QED
    BY <2>2, <2>3 DEF WrittenInOrder, Begins
<1> QED
  BY <1>1, SocketInvariant, PTL

(***************************************************************************)
(* Read() hands over the peer's messages in order, and all of them before  *)
(* the end when readloop came to the end of what the peer sent and nobody  *)
(* called Close.                                                           *)
(***************************************************************************)
THEOREM ReadsInOrder == Spec => []ReadInOrder
<1>1. ASSUME SocketInv PROVE ReadInOrder
  <2>1. downGot \in Seq(Msg) /\ downSent \in Seq(Msg) /\ fromPeer \in Seq(Msg)
    BY <1>1 DEF SocketInv, TypeOK, Down!TypeOK
  <2>2. Begins(downGot, fromPeer)
    BY <1>1, <2>1, BeginsChain DEF SocketInv, Reading
  <2>3. DOMAIN downGot = 1..Len(downGot)
    BY <2>1, LenProperties
  <2>4. ASSUME downStatus = "closed", inClosed = "end", ~downStop
        PROVE  downGot = fromPeer
    <3>1. downGot = downSent /\ reader # "put" /\ decoded = Len(fromPeer)
      BY <1>1, <2>4 DEF SocketInv, Ending
    <3>2. Len(downSent) = Len(fromPeer)
      BY <1>1, <3>1 DEF SocketInv, Reading
    <3> QED
      BY <2>1, <2>2, <3>1, <3>2, BeginsWhole
  <2> QED
    BY <2>2, <2>3, <2>4 DEF ReadInOrder, Begins
<1> QED
  BY <1>1, SocketInvariant, PTL

-----------------------------------------------------------------------------
(***************************************************************************)
(* The buffers of the socket.  asyncBuff keeps its promises for any        *)
(* messages and any number of them: its types, the order of its queue, no  *)
(* loss without leave, and that it is the FifoChannel the socket counts on.*)
(***************************************************************************)
(***************************************************************************)
(* g is what was taken from a queue q, g \o q what was put into it.        *)
(* pending = append(pending, m) puts m at the end of both.                 *)
(***************************************************************************)
LEMMA Enqueue ==
    ASSUME NEW S, NEW g \in Seq(S), NEW q \in Seq(S), NEW m \in S
    PROVE  /\ Append(q, m) \in Seq(S)
           /\ g \o Append(q, m) = Append(g \o q, m)
<1>1. <<m>> \in Seq(S) /\ g \o q \in Seq(S) /\ Append(q, m) \in Seq(S)
  BY ConcatProperties, AppendProperties
<1>2. Append(q, m) = q \o <<m>> /\ Append(g \o q, m) = (g \o q) \o <<m>>
  BY <1>1, AppendIsConcat
<1>3. (g \o q) \o <<m>> = g \o (q \o <<m>>)
  BY <1>1, ConcatAssociative
<1> QED
  BY <1>1, <1>2, <1>3

(***************************************************************************)
(* out <- pending[0]; pending = pending[1:] moves the head from q to g.    *)
(***************************************************************************)
LEMMA Dequeue ==
    ASSUME NEW S, NEW g \in Seq(S), NEW q \in Seq(S), q # <<>>
    PROVE  /\ Tail(q) \in Seq(S) /\ Head(q) \in S
           /\ Append(g, Head(q)) \in Seq(S)
           /\ Append(g, Head(q)) \o Tail(q) = g \o q
           /\ Len(g) < Len(g \o q)
           /\ (g \o q)[Len(g) + 1] = Head(q)
<1>1. /\ Tail(q) \in Seq(S) /\ Head(q) \in S /\ <<Head(q)>> \in Seq(S) /\ Head(q) = q[1]
      /\ Len(q) \in Nat \ {0} /\ Len(g) \in Nat
  BY EmptySeq, LenProperties, HeadTailProperties
<1>2. <<Head(q)>> \o Tail(q) = q
  <2>1. SubSeq(q, 1, Len(q)) = <<q[1]>> \o SubSeq(q, 1 + 1, Len(q))
    BY <1>1, SubSeqRecursiveFirst
  <2> QED
    BY <1>1, <2>1, SubSeqFull, TailIsSubSeq
<1>3. Append(g, Head(q)) \in Seq(S) /\ Append(g, Head(q)) = g \o <<Head(q)>>
  BY <1>1, AppendProperties, AppendIsConcat
<1>4. (g \o <<Head(q)>>) \o Tail(q) = g \o (<<Head(q)>> \o Tail(q))
  BY <1>1, ConcatAssociative
<1>5. Len(g \o q) = Len(g) + Len(q) /\ (g \o q)[Len(g) + 1] = q[1]
  BY <1>1, ConcatProperties
<1> QED
  BY <1>1, <1>2, <1>3, <1>4, <1>5

(***************************************************************************)
(* Every step of the loop, its peers and the callers of Stop and Drain     *)
(* keeps the types of the fields and local variables of asyncBuff.         *)
(***************************************************************************)
THEOREM BuffTypeCorrect == BuffSpec => []BuffTypeOK
<1>1. BuffInit => BuffTypeOK
  BY EmptySeq DEF BuffInit, BuffTypeOK
<1>2. BuffTypeOK /\ [BuffNext]_buffVars => BuffTypeOK'
  <2> SUFFICES ASSUME BuffTypeOK, [BuffNext]_buffVars PROVE BuffTypeOK'
    OBVIOUS
  <2> USE DEF BuffTypeOK, loopVars, callVars, Return
  <2>1. ASSUME NEW m \in Item, Receive(m) PROVE BuffTypeOK'
    BY <2>1, AppendProperties DEF Receive
  <2>2. CASE Deliver
    <3>1. Append(delivered, Head(pending)) \in Seq(Item) /\ Tail(pending) \in Seq(Item)
      BY <2>2, HeadTailProperties, AppendProperties DEF Deliver
    <3> QED
      BY <2>2, <3>1 DEF Deliver
  <2>3. CASE CloseIn
    BY <2>3 DEF CloseIn
  <2>4. CASE LoopStep
    <3>1. CASE InputClosed
      BY <3>1 DEF InputClosed
    <3>2. CASE StopSeen
      BY <3>2 DEF StopSeen
    <3>3. CASE DrainSeen
      BY <3>3 DEF DrainSeen
    <3>4. CASE TimeoutSeen
      BY <3>4 DEF TimeoutSeen
    <3>5. CASE Finish
      BY <3>5 DEF Finish
    <3>6. CASE CloseWait
      BY <3>6 DEF CloseWait
    <3> QED
      BY <2>4, <3>1, <3>2, <3>3, <3>4, <3>5, <3>6 DEF LoopStep
  <2>5. CASE Drain \/ Stop \/ CallerStep \/ TimerFires
    BY <2>5 DEF Drain, Stop, CallerStep, OfferExpires, StopReturns, StopGivesUp, TimerFires
  <2>6. CASE UNCHANGED buffVars
    BY <2>6 DEF buffVars
  <2> QED
    BY <2>1, <2>2, <2>3, <2>4, <2>5, <2>6 DEF BuffNext
<1> QED
  BY <1>1, <1>2, PTL DEF BuffSpec

(***************************************************************************)
(* The inductive invariant.  Beside the two properties it says when the    *)
(* flags move: the loop's draining is set by Drain's own offer, so never   *)
(* after bf.stop is closed; a loop that has left its select has either     *)
(* nothing left or leave to drop it.                                       *)
(***************************************************************************)
OfferBeforeStop == caller \in {"idle", "offer", "stop"} => ~stopClosed

IdleHasNoTimer == caller = "idle" => timer = "off"

EndIsJustified ==
    loop # "running" => (finished /\ pending = <<>>) \/ LeaveToDrop

BuffInv ==
    /\ BuffTypeOK
    /\ QueueIsTheGap
    /\ OfferBeforeStop
    /\ IdleHasNoTimer
    /\ EndIsJustified

(***************************************************************************)
(* BuffInv holds in every reachable state.                                 *)
(***************************************************************************)
LEMMA BuffInvHolds == BuffSpec => []BuffInv
<1>1. BuffInit => BuffInv
  <2> SUFFICES ASSUME BuffInit PROVE BuffInv
    OBVIOUS
  <2>1. BuffTypeOK /\ accepted = delivered \o pending
    BY EmptySeq, ConcatEmptySeq DEF BuffInit, BuffTypeOK
  <2> QED
    BY <2>1 DEF BuffInit, BuffInv, QueueIsTheGap, OfferBeforeStop, IdleHasNoTimer,
                 EndIsJustified
<1>2. BuffInv /\ BuffTypeOK' /\ [BuffNext]_buffVars => BuffInv'
  <2> SUFFICES ASSUME BuffInv, BuffTypeOK', [BuffNext]_buffVars PROVE BuffInv'
    OBVIOUS
  <2> USE DEF BuffInv, OfferBeforeStop, IdleHasNoTimer, EndIsJustified, LeaveToDrop,
              loopVars, callVars, Return, Selecting
  <2>1. ASSUME NEW m \in Item, Receive(m) PROVE BuffInv'
    <3>1. delivered \o Append(pending, m) = Append(delivered \o pending, m)
      BY Enqueue DEF BuffTypeOK
    <3> QED
      BY <2>1, <3>1 DEF Receive, QueueIsTheGap
  <2>2. CASE Deliver
    <3>1. Append(delivered, Head(pending)) \o Tail(pending) = delivered \o pending
      <4>1. delivered \in Seq(Item) /\ pending \in Seq(Item) /\ pending # <<>>
        BY <2>2 DEF Deliver, BuffTypeOK
      <4> QED
        BY <4>1, Dequeue, SMTT(30)
    <3> QED
      BY <2>2, <3>1 DEF Deliver, QueueIsTheGap
  <2>3. CASE CloseIn
    BY <2>3 DEF CloseIn, QueueIsTheGap
  <2>4. CASE LoopStep
    <3>1. CASE InputClosed
      BY <3>1 DEF InputClosed, QueueIsTheGap, BuffTypeOK
    <3>2. CASE StopSeen
      BY <3>2 DEF StopSeen, QueueIsTheGap, BuffTypeOK
    <3>3. CASE DrainSeen
      BY <3>3 DEF DrainSeen, QueueIsTheGap, BuffTypeOK
    <3>4. CASE TimeoutSeen
      BY <3>4 DEF TimeoutSeen, QueueIsTheGap, BuffTypeOK
    <3>5. CASE Finish
      BY <3>5 DEF Finish, QueueIsTheGap, BuffTypeOK
    <3>6. CASE CloseWait
      BY <3>6 DEF CloseWait, QueueIsTheGap, BuffTypeOK
    <3> QED
      BY <2>4, <3>1, <3>2, <3>3, <3>4, <3>5, <3>6 DEF LoopStep
  <2>5. CASE Drain \/ Stop \/ CallerStep \/ TimerFires
    <3>1. CASE Drain
      BY <3>1 DEF Drain, QueueIsTheGap, BuffTypeOK
    <3>2. CASE Stop
      BY <3>2 DEF Stop, QueueIsTheGap, BuffTypeOK
    <3>3. CASE OfferExpires
      BY <3>3 DEF OfferExpires, QueueIsTheGap, BuffTypeOK
    <3>4. CASE StopReturns
      BY <3>4 DEF StopReturns, QueueIsTheGap, BuffTypeOK
    <3>5. CASE StopGivesUp
      BY <3>5 DEF StopGivesUp, QueueIsTheGap, BuffTypeOK
    <3>6. CASE TimerFires
      BY <3>6 DEF TimerFires, QueueIsTheGap, BuffTypeOK
    <3> QED
      BY <2>5, <3>1, <3>2, <3>3, <3>4, <3>5, <3>6 DEF CallerStep
  <2>6. CASE UNCHANGED buffVars
    BY <2>6 DEF buffVars, QueueIsTheGap
  <2> QED
    BY <2>1, <2>2, <2>3, <2>4, <2>5, <2>6 DEF BuffNext
<1> QED
  BY <1>1, <1>2, BuffTypeCorrect, PTL DEF BuffSpec

(***************************************************************************)
(* The queue of the loop is always exactly what was accepted and not yet   *)
(* delivered, in order.                                                    *)
(***************************************************************************)
THEOREM FirstInFirstOut == BuffSpec => []QueueIsTheGap
  BY BuffInvHolds, PTL DEF BuffInv

(***************************************************************************)
(* A loop that ended delivered everything, unless it was stopped without a *)
(* Drain or its Drain ran out of time.                                     *)
(***************************************************************************)
THEOREM NothingLost == BuffSpec => []NoLossWithoutLeave
<1>1. BuffInv => NoLossWithoutLeave
  <2> SUFFICES ASSUME BuffInv, loop # "running", ~LeaveToDrop PROVE delivered = accepted
    BY DEF NoLossWithoutLeave
  <2>1. pending = <<>>
    BY DEF BuffInv, EndIsJustified
  <2> QED
    BY <2>1, ConcatEmptySeq DEF BuffInv, QueueIsTheGap, BuffTypeOK
<1> QED
  BY <1>1, BuffInvHolds, PTL

(***************************************************************************)
(* asyncBuff implements FifoChannel: receiving is Put, the closed input is *)
(* EndInput, delivering is Take, Stop or the timer AllowDrop, and leaving  *)
(* the loop is Close; the other steps change nothing a peer can see.       *)
(***************************************************************************)
THEOREM BuffIsFifoChannel == BuffSpec => ImplementsFifoChannel
<1>1. BuffInit => Fifo!Init
  BY DEF BuffInit, Fifo!Init, status, LeaveToDrop
<1>2. BuffInv /\ BuffInv' /\ [BuffNext]_buffVars => [Fifo!Next]_Fifo!vars
  <2> SUFFICES ASSUME BuffInv, BuffInv', [BuffNext]_buffVars, ~UNCHANGED Fifo!vars
               PROVE  Fifo!Next
    OBVIOUS
  <2> USE DEF status, LeaveToDrop, loopVars, callVars
  <2>1. ASSUME NEW m \in Item, Receive(m) PROVE Fifo!Next
    BY <2>1 DEF Receive, Selecting, Fifo!Next, Fifo!Put
  <2>2. CASE Deliver
    <3>1. /\ Head(pending) = accepted[Len(delivered) + 1]
          /\ Len(delivered) < Len(accepted)
      BY <2>2, Dequeue DEF Deliver, BuffInv, QueueIsTheGap, BuffTypeOK
    <3> QED
      BY <2>2, <3>1 DEF Deliver, Selecting, Fifo!Next, Fifo!Take
  <2>3. CASE CloseIn
    BY <2>3 DEF CloseIn, Fifo!vars
  <2>4. CASE InputClosed
    BY <2>4 DEF InputClosed, Selecting, Fifo!Next, Fifo!EndInput
  <2>5. CASE StopSeen
    BY <2>5 DEF StopSeen, Selecting, Return, Fifo!Next, Fifo!Close
  <2>6. CASE DrainSeen
    BY <2>6 DEF DrainSeen, BuffInv, OfferBeforeStop, Fifo!vars
  <2>7. CASE TimeoutSeen
    BY <2>7 DEF TimeoutSeen, Selecting, Return, Fifo!Next, Fifo!Close
  <2>8. CASE Finish
    <3>1. delivered = accepted
      BY <2>8, ConcatEmptySeq DEF Finish, BuffInv, QueueIsTheGap, BuffTypeOK
    <3> QED
      BY <2>8, <3>1 DEF Finish, Return, Fifo!Next, Fifo!Close
  <2>9. CASE CloseWait
    BY <2>9 DEF CloseWait, Fifo!vars
  <2>10. CASE Drain
    BY <2>10 DEF Drain, BuffInv, IdleHasNoTimer, Fifo!vars
  <2>11. CASE Stop
    BY <2>11 DEF Stop, BuffInv, BuffTypeOK, Fifo!Next, Fifo!AllowDrop, Fifo!vars
  <2>12. CASE CallerStep
    BY <2>12 DEF CallerStep, OfferExpires, StopReturns, StopGivesUp, Fifo!vars
  <2>13. CASE TimerFires
    BY <2>13 DEF TimerFires, Fifo!Next, Fifo!AllowDrop, Fifo!vars
  <2>14. CASE UNCHANGED buffVars
    BY <2>14 DEF buffVars, Fifo!vars
  <2> QED
    BY <2>1, <2>2, <2>3, <2>4, <2>5, <2>6, <2>7, <2>8, <2>9, <2>10, <2>11,
       <2>12, <2>13, <2>14 DEF BuffNext, LoopStep
<1> QED
  BY <1>1, <1>2, BuffInvHolds, PTL DEF BuffSpec, ImplementsFifoChannel, Fifo!Spec
=============================================================================
