------------------------ MODULE RequestStream_proofs ------------------------
(***************************************************************************)
(* A session's request for any chunks, any number of messages and any sizes*)
(* of the slices Read(p) is called with: types, the order of messages and  *)
(* of bytes, the meaning of io.EOF, and that the stream is a FifoChannel.  *)
(***************************************************************************)
EXTENDS RequestStream, SequenceTheorems, TLAPS

(***************************************************************************)
(* g is what was taken from a queue q, g \o q what was put into it.        *)
(* pending = append(pending, m) puts m at the end of both.                 *)
(***************************************************************************)
LEMMA Enqueue ==
    ASSUME NEW S, NEW g \in Seq(S), NEW q \in Seq(S), NEW m \in S
    PROVE  /\ Append(q, m) \in Seq(S)
           /\ g \o Append(q, m) = Append(g \o q, m)
<1>1. <<m>> \in Seq(S) /\ g \o q \in Seq(S) /\ Append(q, m) \in Seq(S)
  BY ConcatProperties, AppendProperties
<1>2. Append(q, m) = q \o <<m>> /\ Append(g \o q, m) = (g \o q) \o <<m>>
  BY <1>1, AppendIsConcat
<1>3. (g \o q) \o <<m>> = g \o (q \o <<m>>)
  BY <1>1, ConcatAssociative
<1> QED
  BY <1>1, <1>2, <1>3

(***************************************************************************)
(* out <- pending[0]; pending = pending[1:] moves the head from q to g.    *)
(***************************************************************************)
LEMMA Dequeue ==
    ASSUME NEW S, NEW g \in Seq(S), NEW q \in Seq(S), q # <<>>
    PROVE  /\ Tail(q) \in Seq(S) /\ Head(q) \in S
           /\ Append(g, Head(q)) \in Seq(S)
           /\ Append(g, Head(q)) \o Tail(q) = g \o q
           /\ Len(g) < Len(g \o q)
           /\ (g \o q)[Len(g) + 1] = Head(q)
<1>1. /\ Tail(q) \in Seq(S) /\ Head(q) \in S /\ <<Head(q)>> \in Seq(S) /\ Head(q) = q[1]
      /\ Len(q) \in Nat \ {0} /\ Len(g) \in Nat
  BY EmptySeq, LenProperties, HeadTailProperties
<1>2. <<Head(q)>> \o Tail(q) = q
  <2>1. SubSeq(q, 1, Len(q)) = <<q[1]>> \o SubSeq(q, 1 + 1, Len(q))
    BY <1>1, SubSeqRecursiveFirst
  <2> QED
    BY <1>1, <2>1, SubSeqFull, TailIsSubSeq
<1>3. Append(g, Head(q)) \in Seq(S) /\ Append(g, Head(q)) = g \o <<Head(q)>>
  BY <1>1, AppendProperties, AppendIsConcat
<1>4. (g \o <<Head(q)>>) \o Tail(q) = g \o (<<Head(q)>> \o Tail(q))
  BY <1>1, ConcatAssociative
<1>5. Len(g \o q) = Len(g) + Len(q) /\ (g \o q)[Len(g) + 1] = q[1]
  BY <1>1, ConcatProperties
<1> QED
  BY <1>1, <1>2, <1>3, <1>4, <1>5

(***************************************************************************)
(* copy(p, data) of requestReader.Read cuts data in two and loses nothing: *)
(* what was read before, then the returned part, then the part kept.       *)
(***************************************************************************)
LEMMA CopyCuts ==
    ASSUME NEW r \in Seq(Byte), NEW data \in Seq(Byte), NEW n \in Nat
    PROVE  LET k == Least(n, Len(data))
           IN  /\ r \o SubSeq(data, 1, k) \in Seq(Byte)
               /\ SubSeq(data, k + 1, Len(data)) \in Seq(Byte)
               /\ (r \o SubSeq(data, 1, k)) \o SubSeq(data, k + 1, Len(data)) = r \o data
<1> DEFINE k == Least(n, Len(data))
           a == SubSeq(data, 1, k)
           b == SubSeq(data, k + 1, Len(data))
<1>1. Len(data) \in Nat
  BY LenProperties
<1>2. k \in 0..Len(data)
  BY <1>1 DEF Least
<1> HIDE DEF k
<1>3. \A i \in 1..Len(data) : data[i] \in Byte
  BY LenProperties
<1>4. a \in Seq(Byte)
  <2>1. \A i \in 1..k : data[i] \in Byte
    BY <1>1, <1>2, <1>3
  <2>2. 1 \in Int /\ k \in Int
    BY <1>1, <1>2
  <2> QED
    BY <2>1, <2>2, SubSeqProperties
<1>5. b \in Seq(Byte)
  <2>1. \A i \in (k + 1)..Len(data) : data[i] \in Byte
    BY <1>1, <1>2, <1>3
  <2>2. k + 1 \in Int /\ Len(data) \in Int
    BY <1>1, <1>2
  <2> QED
    BY <2>1, <2>2, SubSeqProperties
<1>6. a \o b = data
  <2>1. 1 \in 1..(Len(data) + 1) /\ k \in (1 - 1)..Len(data) /\ Len(data) \in k..Len(data)
    BY <1>1, <1>2
  <2>2. a \o b = SubSeq(data, 1, Len(data))
    BY <2>1, ConcatAdjacentSubSeq
  <2> QED
    BY <2>2, SubSeqFull
<1> HIDE DEF a, b
<1>7. (r \o a) \o b = r \o (a \o b)
  BY <1>4, <1>5, ConcatAssociative
<1>8. r \o a \in Seq(Byte)
  BY <1>4, ConcatProperties
<1> QED
  BY <1>4, <1>5, <1>6, <1>7, <1>8 DEF a, b, k

(***************************************************************************)
(* The inductive invariant.  Beside the order of messages and of bytes it  *)
(* says how the end travels: the worker closes when it is not in push, the *)
(* loop sees a close that happened, returns with an empty queue, and the   *)
(* reader reports the end only of a loop that has returned.                *)
(***************************************************************************)
CloseAfterPush == closeCalled => pushing = NoMsg

SeenIsClosed == closedNil => closeCalled

DoneIsEmpty == loop = "done" => closedNil /\ pending = <<>>

EofAfterDone == result = "EOF" => loop = "done" /\ buffer = <<>>

StreamInv ==
    /\ TypeOK
    /\ MessagesInOrder
    /\ BytesInOrder
    /\ CloseAfterPush
    /\ SeenIsClosed
    /\ DoneIsEmpty
    /\ EofAfterDone

(***************************************************************************)
(* StreamInv holds in every reachable state.                               *)
(***************************************************************************)
LEMMA StreamInvHolds == Spec => []StreamInv
<1> USE StreamAssumption
<1>1. Init => StreamInv
  <2> SUFFICES ASSUME Init PROVE StreamInv
    OBVIOUS
  <2>1. TypeOK
    BY EmptySeq DEF Init, TypeOK
  <2>2. pushed = taken \o pending /\ chunkBytes = readBytes \o buffer
    BY ConcatEmptySeq DEF Init, TypeOK
  <2> QED
    BY <2>1, <2>2 DEF Init, StreamInv, MessagesInOrder, BytesInOrder, CloseAfterPush,
                      SeenIsClosed, DoneIsEmpty, EofAfterDone
<1>2. StreamInv /\ [Next]_vars => StreamInv'
  <2> SUFFICES ASSUME StreamInv, [Next]_vars PROVE StreamInv'
    OBVIOUS
  <2> USE DEF StreamInv, MessagesInOrder, BytesInOrder, CloseAfterPush, SeenIsClosed,
              DoneIsEmpty, EofAfterDone, workerVars, readerVars
  <2>1. ASSUME NEW m \in Msg, Push(m) PROVE StreamInv'
    BY <2>1 DEF Push, TypeOK
  <2>2. CASE Close
    BY <2>2 DEF Close, TypeOK
  <2>3. CASE Receive
    <3>1. pushing \in Msg
      BY <2>3 DEF Receive, TypeOK
    <3>2. /\ Append(pending, pushing) \in Seq(Msg)
          /\ taken \o Append(pending, pushing) = Append(taken \o pending, pushing)
      BY <3>1, Enqueue DEF TypeOK
    <3>3. Append(pushed, pushing) \in Seq(Msg)
      BY <3>1, AppendProperties DEF TypeOK
    <3> QED
      BY <2>3, <3>2, <3>3 DEF Receive, Selecting, TypeOK
  <2>4. CASE CloseSeen
    BY <2>4 DEF CloseSeen, Selecting, TypeOK
  <2>5. CASE Return
    BY <2>5 DEF Return, TypeOK
  <2>6. ASSUME NEW n \in BufSize, ReadBuffered(n) PROVE StreamInv'
    <3> DEFINE k == Least(n, Len(buffer))
    <3>1. n \in Nat
      OBVIOUS
    <3>2. /\ readBytes \o SubSeq(buffer, 1, k) \in Seq(Byte)
          /\ SubSeq(buffer, k + 1, Len(buffer)) \in Seq(Byte)
          /\ (readBytes \o SubSeq(buffer, 1, k)) \o SubSeq(buffer, k + 1, Len(buffer))
               = readBytes \o buffer
      BY <3>1, CopyCuts DEF TypeOK
    <3>3. /\ readBytes' = readBytes \o SubSeq(buffer, 1, k)
          /\ buffer' = SubSeq(buffer, k + 1, Len(buffer))
          /\ result' = "nil"
      BY <2>6 DEF ReadBuffered, Return_n
    <3>4. readBytes' \in Seq(Byte) /\ buffer' \in Seq(Byte) /\ chunkBytes' = readBytes' \o buffer'
      BY <2>6, <3>2, <3>3 DEF ReadBuffered
    <3> HIDE DEF k
    <3> QED
      BY <2>6, <3>3, <3>4 DEF ReadBuffered, TypeOK
  <2>7. ASSUME Take
        PROVE  /\ taken' \in Seq(Msg) /\ pending' \in Seq(Msg)
               /\ pushed' = taken' \o pending'
               /\ Head(pending) \in Msg
               /\ loop' = "running" /\ closedNil' = closedNil
               /\ pushing' = pushing /\ pushed' = pushed /\ closeCalled' = closeCalled
    <3>1. /\ Append(taken, Head(pending)) \in Seq(Msg) /\ Tail(pending) \in Seq(Msg)
          /\ Append(taken, Head(pending)) \o Tail(pending) = taken \o pending
          /\ Head(pending) \in Msg
      <4>1. taken \in Seq(Msg) /\ pending \in Seq(Msg) /\ pending # <<>>
        BY <2>7 DEF Take, TypeOK
      <4> QED
        BY <4>1, Dequeue
    <3> QED
      BY <2>7, <3>1 DEF Take, Selecting
  <2>8. ASSUME NEW n \in BufSize, ReadChunk(n) PROVE StreamInv'
    <3> DEFINE data == Head(pending)
               k == Least(n, Len(data))
    <3>1. n \in Nat /\ data \in Seq(Byte) /\ Take /\ buffer = <<>>
      BY <2>8 DEF ReadChunk, Take
    <3>2. /\ readBytes' = readBytes \o SubSeq(data, 1, k)
          /\ buffer' = SubSeq(data, k + 1, Len(data))
          /\ result' = "nil" /\ chunkBytes' = chunkBytes \o data
      BY <2>8 DEF ReadChunk, Return_n
    <3>3. chunkBytes = readBytes /\ readBytes \in Seq(Byte) /\ chunkBytes \in Seq(Byte)
      BY <3>1, ConcatEmptySeq DEF TypeOK
    <3> HIDE DEF data
    <3>4. /\ readBytes \o SubSeq(data, 1, k) \in Seq(Byte)
          /\ SubSeq(data, k + 1, Len(data)) \in Seq(Byte)
          /\ (readBytes \o SubSeq(data, 1, k)) \o SubSeq(data, k + 1, Len(data))
               = readBytes \o data
      BY <3>1, <3>3, CopyCuts
    <3>5. chunkBytes \o data \in Seq(Byte)
      BY <3>1, <3>3, ConcatProperties
    <3>6. /\ readBytes' \in Seq(Byte) /\ buffer' \in Seq(Byte) /\ chunkBytes' \in Seq(Byte)
          /\ chunkBytes' = readBytes' \o buffer'
      BY <3>2, <3>3, <3>4, <3>5
    <3>7. result' = "nil" /\ Take
      BY <3>1, <3>2
    <3> HIDE DEF k
    <3>8. TypeOK'
      BY <2>7, <3>6, <3>7 DEF TypeOK
    <3> QED
      BY <2>7, <3>6, <3>7, <3>8
  <2>9. CASE ReadError
    <3>1. /\ Take /\ UNCHANGED <<buffer, chunkBytes, readBytes>>
          /\ result' \in {"error", "badPayload"}
      BY <2>9 DEF ReadError
    <3>2. TypeOK'
      BY <2>7, <3>1 DEF TypeOK
    <3> QED
      BY <2>7, <3>1, <3>2
  <2>10. CASE ReadClosed
    BY <2>10 DEF ReadClosed, TypeOK
  <2>11. CASE ReadCancelled
    BY <2>11 DEF ReadCancelled, TypeOK
  <2>12. CASE UNCHANGED vars
    BY <2>12 DEF vars, TypeOK
  <2> QED
    BY <2>1, <2>2, <2>3, <2>4, <2>5, <2>6, <2>8, <2>9, <2>10, <2>11, <2>12
    DEF Next, Reader
<1> QED
  BY <1>1, <1>2, PTL DEF Spec

(***************************************************************************)
(* The queue of the goroutine and the buffer of the reader hold messages   *)
(* and bytes, whatever is pushed and however Read is called.               *)
(***************************************************************************)
THEOREM TypeCorrect == Spec => []TypeOK
  BY StreamInvHolds, PTL DEF StreamInv

(***************************************************************************)
(* The handler receives the messages of its session in the order the worker*)
(* pushed them, none lost and none twice.                                  *)
(***************************************************************************)
THEOREM MessagesArriveInOrder == Spec => []MessagesInOrder
  BY StreamInvHolds, PTL DEF StreamInv

(***************************************************************************)
(* The io.Reader over the request returns the bytes of the chunks, in      *)
(* order, for any sizes of the slices it is called with.                   *)
(***************************************************************************)
THEOREM BytesArriveInOrder == Spec => []BytesInOrder
  BY StreamInvHolds, PTL DEF StreamInv

(***************************************************************************)
(* io.EOF is returned only after the worker closed the stream and every    *)
(* message and every byte before the close was read.                       *)
(***************************************************************************)
THEOREM EofComesLast == Spec => []EofIsTheEnd
<1>1. StreamInv => EofIsTheEnd
  <2> SUFFICES ASSUME StreamInv, result = "EOF"
               PROVE  closeCalled /\ taken = pushed /\ readBytes = chunkBytes
    BY DEF EofIsTheEnd
  <2>1. loop = "done" /\ buffer = <<>> /\ closedNil /\ pending = <<>> /\ closeCalled
    BY DEF StreamInv, EofAfterDone, DoneIsEmpty, SeenIsClosed
  <2>2. taken \o <<>> = taken /\ readBytes \o <<>> = readBytes
    BY ConcatEmptySeq DEF StreamInv, TypeOK
  <2> QED
    BY <2>1, <2>2 DEF StreamInv, MessagesInOrder, BytesInOrder
<1> QED
  BY <1>1, StreamInvHolds, PTL

(***************************************************************************)
(* The stream implements a FifoChannel that never drops: Receive is Put,   *)
(* CloseSeen is EndInput, a Read that takes a message is Take, and the     *)
(* return of the goroutine is Close.                                       *)
(***************************************************************************)
THEOREM Refinement == Spec => ImplementsFifoChannel
<1>1. Init => Fifo!Init
  BY DEF Init, Fifo!Init, status
<1>2. StreamInv /\ [Next]_vars => [Fifo!Next]_Fifo!vars
  <2> SUFFICES ASSUME StreamInv, [Next]_vars PROVE [Fifo!Next]_Fifo!vars
    OBVIOUS
  <2> USE DEF status, workerVars, readerVars
  <2>1. ASSUME NEW m \in Msg, Push(m) PROVE UNCHANGED Fifo!vars
    BY <2>1 DEF Push, Fifo!vars
  <2>2. CASE Close
    BY <2>2 DEF Close, Fifo!vars
  <2>3. CASE Receive
    <3>1. pushing \in Msg /\ ~closedNil
      BY <2>3 DEF Receive, StreamInv, TypeOK, CloseAfterPush, SeenIsClosed
    <3> QED
      BY <2>3, <3>1 DEF Receive, Selecting, Fifo!Next, Fifo!Put
  <2>4. CASE CloseSeen
    BY <2>4 DEF CloseSeen, Selecting, Fifo!Next, Fifo!EndInput
  <2>5. CASE Return
    <3>1. taken = pushed
      BY <2>5, ConcatEmptySeq DEF Return, StreamInv, MessagesInOrder, TypeOK
    <3> QED
      BY <2>5, <3>1 DEF Return, Fifo!Next, Fifo!Close
  <2>6. CASE Take
    <3>1. Head(pending) = pushed[Len(taken) + 1] /\ Len(taken) < Len(pushed)
      BY <2>6, Dequeue DEF Take, StreamInv, MessagesInOrder, TypeOK
    <3> QED
      BY <2>6, <3>1 DEF Take, Selecting, Fifo!Next, Fifo!Take
  <2>7. ASSUME NEW n \in BufSize, ReadBuffered(n) PROVE UNCHANGED Fifo!vars
    BY <2>7 DEF ReadBuffered, Fifo!vars
  <2>8. CASE ReadClosed \/ ReadCancelled
    BY <2>8 DEF ReadClosed, ReadCancelled, Fifo!vars
  <2>9. CASE UNCHANGED vars
    BY <2>9 DEF vars, Fifo!vars
  <2> QED
    BY <2>1, <2>2, <2>3, <2>4, <2>5, <2>6, <2>7, <2>8, <2>9
    DEF Next, Reader, ReadChunk, ReadError
<1> QED
  BY <1>1, <1>2, StreamInvHolds, PTL DEF Spec, ImplementsFifoChannel, Fifo!Spec

=============================================================================
