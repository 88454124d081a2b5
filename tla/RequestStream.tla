--------------------------- MODULE RequestStream ---------------------------
(***************************************************************************)
(* The request of one session of a worker: the worker's main loop pushes   *)
(* the session's messages and closes the stream once (handler.go, request),*)
(* a goroutine queues them (handler.go, loop), and the handler reads them  *)
(* as messages (Request.Read) or as bytes through the io.Reader of utils.go*)
(* (requestReader).  A chunk is the sequence of its bytes.                 *)
(***************************************************************************)
EXTENDS Naturals, Sequences

CONSTANTS
    Byte,       \* bytes of the chunks
    Chunk,      \* payloads: some sequences of bytes
    BadChunk,   \* a chunk whose payload is not []byte
    Error,      \* an error message, well formed or not
    NoMsg,      \* no message
    BufSize,    \* the lengths of the slices Read(p) is called with
    MaxPushed   \* bound: how many messages the worker pushes

Msg == Chunk \cup {BadChunk, Error}

ASSUME StreamAssumption ==
    /\ Chunk \subseteq Seq(Byte)
    /\ NoMsg \notin Msg /\ BadChunk \notin Chunk /\ Error \notin Chunk
    /\ BufSize \subseteq Nat
    /\ MaxPushed \in Nat

VARIABLES
    pushing,    \* the message the worker is blocked on in push, or NoMsg
    pushed,     \* history: the messages the loop received, in order
    closeCalled,\* request.closed is closed
    pending,    \* loop: the queue
    closedNil,  \* loop: closed = nil, the close was seen
    loop,       \* "running" or "done" (toHandler is closed)
    taken,      \* history: the messages the handler received, in order
    buffer,     \* requestReader: what Read(p) had no room for
    chunkBytes, \* history: all the bytes of the chunks taken
    readBytes,  \* history: all the bytes Read(p) returned
    result      \* the error of the last Read: "none" before it, "nil", ...

vars == <<pushing, pushed, closeCalled, pending, closedNil, loop, taken,
          buffer, chunkBytes, readBytes, result>>

workerVars == <<pushing, pushed, closeCalled>>
readerVars == <<taken, buffer, chunkBytes, readBytes, result>>

TypeOK ==
    /\ pushing \in Msg \cup {NoMsg}
    /\ pushed \in Seq(Msg)
    /\ closeCalled \in BOOLEAN
    /\ pending \in Seq(Msg)
    /\ closedNil \in BOOLEAN
    /\ loop \in {"running", "done"}
    /\ taken \in Seq(Msg)
    /\ buffer \in Seq(Byte)
    /\ chunkBytes \in Seq(Byte)
    /\ readBytes \in Seq(Byte)
    /\ result \in {"none", "nil", "badPayload", "error", "EOF", "ctx"}

\* newRequest, RequestReader
Init ==
    /\ pushing = NoMsg /\ pushed = <<>> /\ closeCalled = FALSE
    /\ pending = <<>> /\ closedNil = FALSE /\ loop = "running"
    /\ taken = <<>> /\ buffer = <<>> /\ chunkBytes = <<>> /\ readBytes = <<>>
    /\ result = "none"

-----------------------------------------------------------------------------
(* The worker's main loop: it pushes, blocked until the stream's loop takes*)
(* the message, and closes once; it knows no stream it has closed.         *)

Push(m) ==
    /\ pushing = NoMsg /\ ~closeCalled
    /\ Len(pushed) < MaxPushed
    /\ pushing' = m
    /\ UNCHANGED <<pushed, closeCalled, pending, closedNil, loop, readerVars>>

Close ==
    /\ pushing = NoMsg /\ ~closeCalled
    /\ closeCalled' = TRUE
    /\ UNCHANGED <<pushing, pushed, pending, closedNil, loop, readerVars>>

-----------------------------------------------------------------------------
(* The goroutine between them. *)

Selecting == loop = "running" /\ ~(pending = <<>> /\ closedNil)

\* Mutant: the loop takes a message only when the last one was read.
ReceiveWhenEmpty ==
    /\ Selecting
    /\ pushing # NoMsg /\ pending = <<>>
    /\ pending' = Append(pending, pushing)
    /\ pushed' = Append(pushed, pushing)
    /\ pushing' = NoMsg
    /\ UNCHANGED <<closeCalled, closedNil, loop, readerVars>>

Receive ==
    /\ Selecting
    /\ pushing # NoMsg
    /\ pending' = Append(pending, pushing)
    /\ pushed' = Append(pushed, pushing)
    /\ pushing' = NoMsg
    /\ UNCHANGED <<closeCalled, closedNil, loop, readerVars>>

CloseSeen ==
    /\ Selecting
    /\ closeCalled /\ ~closedNil
    /\ closedNil' = TRUE
    /\ UNCHANGED <<workerVars, pending, loop, readerVars>>

\* Mutant: the loop returns when it sees the close.
ReturnAtOnce ==
    /\ loop = "running"
    /\ closedNil
    /\ loop' = "done"
    /\ UNCHANGED <<workerVars, pending, closedNil, readerVars>>

Return ==
    /\ loop = "running"
    /\ pending = <<>> /\ closedNil
    /\ loop' = "done"
    /\ UNCHANGED <<workerVars, pending, closedNil, readerVars>>

-----------------------------------------------------------------------------
(* The handler: requestReader.Read(p) with len(p) = n over Request.Read.   *)

Least(i, j) == IF i <= j THEN i ELSE j

\* copy(p, data): the first Least(n, Len(data)) bytes of data, the rest kept.
Return_n(n, data) ==
    /\ readBytes' = readBytes \o SubSeq(data, 1, Least(n, Len(data)))
    /\ buffer' = SubSeq(data, Least(n, Len(data)) + 1, Len(data))
    /\ result' = "nil"

ReadBuffered(n) ==
    /\ buffer # <<>>
    /\ Return_n(n, buffer)
    /\ UNCHANGED <<workerVars, pending, closedNil, loop, taken, chunkBytes>>

\* The loop hands over the head of its queue.
Take ==
    /\ Selecting
    /\ buffer = <<>> /\ pending # <<>>
    /\ taken' = Append(taken, Head(pending))
    /\ pending' = Tail(pending)
    /\ UNCHANGED <<workerVars, closedNil, loop>>

\* Mutant: what does not fit into p is forgotten.
ReadChunkOnce(n) ==
    /\ Take
    /\ Head(pending) \in Chunk
    /\ chunkBytes' = chunkBytes \o Head(pending)
    /\ readBytes' = readBytes \o SubSeq(Head(pending), 1, Least(n, Len(Head(pending))))
    /\ result' = "nil"
    /\ UNCHANGED buffer

ReadChunk(n) ==
    /\ Take
    /\ Head(pending) \in Chunk
    /\ chunkBytes' = chunkBytes \o Head(pending)
    /\ Return_n(n, Head(pending))

ReadError ==
    /\ Take
    /\ Head(pending) \in {BadChunk, Error}
    /\ result' = IF Head(pending) = Error THEN "error" ELSE "badPayload"
    /\ UNCHANGED <<buffer, chunkBytes, readBytes>>

\* toHandler is closed: ErrStreamIsClosed, io.EOF of the reader.
ReadClosed ==
    /\ buffer = <<>> /\ loop = "done"
    /\ result' = "EOF"
    /\ UNCHANGED <<workerVars, pending, closedNil, loop, taken, buffer, chunkBytes, readBytes>>

ReadCancelled ==
    /\ buffer = <<>>
    /\ result' = "ctx"
    /\ UNCHANGED <<workerVars, pending, closedNil, loop, taken, buffer, chunkBytes, readBytes>>

-----------------------------------------------------------------------------
Reader ==
    \/ \E n \in BufSize : ReadBuffered(n) \/ ReadChunk(n)
    \/ ReadError \/ ReadClosed \/ ReadCancelled

Next ==
    \/ \E m \in Msg : Push(m)
    \/ Close
    \/ Receive \/ CloseSeen \/ Return
    \/ Reader

Spec == Init /\ [][Next]_vars

(***************************************************************************)
(* The loop's goroutine runs when it can, and its select does not starve a *)
(* ready case.  The handler may stop reading for good.                     *)
(***************************************************************************)
FairSpec == Spec /\ WF_vars(Receive) /\ WF_vars(CloseSeen) /\ WF_vars(Return)

-----------------------------------------------------------------------------
(***************************************************************************)
(* What the handler reads is what the worker pushed: same messages, same   *)
(* order, none lost or repeated between the two goroutines.                *)
(***************************************************************************)
MessagesInOrder == pushed = taken \o pending

(***************************************************************************)
(* The io.Reader cuts the chunks differently and changes nothing else:     *)
(* what Read returned, followed by its buffer, is the bytes of the chunks. *)
(***************************************************************************)
BytesInOrder == chunkBytes = readBytes \o buffer

(***************************************************************************)
(* The handler is told of the end of the stream only when the worker has   *)
(* closed it, every message pushed before was taken and every byte read.   *)
(***************************************************************************)
EofIsTheEnd ==
    result = "EOF" => closeCalled /\ taken = pushed /\ readBytes = chunkBytes

(***************************************************************************)
(* The stream is a FifoChannel that never drops anything.                  *)
(***************************************************************************)
status ==
    IF loop = "done" THEN "closed" ELSE IF closedNil THEN "ended" ELSE "open"

Fifo == INSTANCE FifoChannel WITH sent <- pushed, got <- taken, mayDrop <- FALSE

ImplementsFifoChannel == Fifo!Spec

(***************************************************************************)
(* A push returns even if the handler never reads again: one slow handler  *)
(* does not block the worker's main loop.                                  *)
(***************************************************************************)
PushReturns == pushing # NoMsg ~> pushing = NoMsg
=============================================================================
