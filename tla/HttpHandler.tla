---------------------------- MODULE HttpHandler ----------------------------
(***************************************************************************)
(* One invocation of a worker whose event is served over HTTP: the choice  *)
(* of the handler (worker_handlers.go), the conversion of the request and  *)
(* the wrapper (httphandler.go), the ResponseWriter (httpresponse.go), and *)
(* behind them the deferred closes: the wrapper's own and then the worker's*)
(* trap (workerng.go).  The response is a stream of chunks that ends with  *)
(* a close or an error (handler.go).                                       *)
(***************************************************************************)
EXTENDS Integers, Sequences

CONSTANTS
    Code,           \* status codes the application may send
    Size,           \* lengths of the data it passes to Write
    Declared,       \* Content-Length values that are decimal numbers
    Absent, Garbage,\* no Content-Length, and one that is not a number
    MaxCalls        \* bound: calls of Write with data

StatusOK == 200
StatusNotModified == 304
StatusBadRequest == 400
StatusRequestTimeout == 408

ErrorPanicInHandler == 100
ErrorNoEventHandler == 200

ASSUME HttpAssumption ==
    /\ Code \subseteq Nat /\ Size \subseteq Nat /\ Declared \subseteq Int
    /\ Absent \notin Int /\ Garbage \notin Int /\ Absent # Garbage
    /\ MaxCalls \in Nat

VARIABLES
    pc,             \* "call", "read", "unpack", "serve", "close", "trap", "done"
    lengthHeader,   \* handlerHeader.Get("Content-Length")
    wroteHeader, status, contentLength, written,    \* of the ResponseWriter
    calls,          \* history: calls of Write with data
    bodyBytes,      \* history: bytes of body sent
    panicking,      \* the handler panicked
    closed,         \* response.closed
    out             \* history: what the client is sent

writerVars == <<lengthHeader, wroteHeader, status, contentLength, written>>
vars == <<pc, writerVars, calls, bodyBytes, panicking, closed, out>>

Header(code, length) == [kind |-> "head", code |-> code, length |-> length]
Body(call) == [kind |-> "body", call |-> call]
Close == [kind |-> "close"]
Error(code) == [kind |-> "error", code |-> code]

Chunk ==
    [kind : {"head"}, code : Nat, length : Nat \cup {-1}] \cup [kind : {"body"}, call : Nat]
Message ==
    Chunk \cup {Close} \cup {Error(ErrorPanicInHandler), Error(ErrorNoEventHandler)}

TypeOK ==
    /\ pc \in {"call", "read", "unpack", "serve", "close", "trap", "done"}
    /\ lengthHeader \in Declared \cup {Absent, Garbage}
    /\ wroteHeader \in BOOLEAN
    /\ status \in Nat
    /\ contentLength \in Nat \cup {-1}
    /\ written \in Nat
    /\ calls \in Nat
    /\ bodyBytes \in Nat
    /\ panicking \in BOOLEAN
    /\ closed \in BOOLEAN
    /\ out \in Seq(Message)

\* onInvoke starts the goroutine; the ResponseWriter as convertToHTTPFunc makes it.
Init ==
    /\ pc = "call"
    /\ lengthHeader = Absent /\ wroteHeader = FALSE /\ status = 0
    /\ contentLength = -1 /\ written = 0
    /\ calls = 0 /\ bodyBytes = 0
    /\ panicking = FALSE /\ closed = FALSE /\ out = <<>>

-----------------------------------------------------------------------------
(* The response stream: nothing is sent once it is closed. *)

Sent(chunks) == IF closed THEN out ELSE out \o chunks

End(msg) ==
    /\ out' = IF closed THEN out ELSE Append(out, msg)
    /\ closed' = TRUE

-----------------------------------------------------------------------------
(* EventHandlers.Call *)

NoHandler ==
    /\ pc = "call"
    /\ End(Error(ErrorNoEventHandler))
    /\ pc' = "trap"
    /\ UNCHANGED <<writerVars, calls, bodyBytes, panicking>>

CallHandler ==
    /\ pc = "call"
    /\ pc' = "read"
    /\ UNCHANGED <<writerVars, calls, bodyBytes, panicking, closed, out>>

-----------------------------------------------------------------------------
(* convertToHTTPFunc: a request that cannot be had is answered at once. *)

Refuse(code) ==
    /\ out' = Sent(<<Header(code, -1), Body(1)>>)
    /\ pc' = "close"
    /\ UNCHANGED <<writerVars, calls, bodyBytes, panicking, closed>>

\* request.Read failed; the context may be over or not.
ReadFails == pc = "read" /\ (Refuse(StatusRequestTimeout) \/ Refuse(StatusBadRequest))

ReadRequest ==
    /\ pc = "read"
    /\ pc' = "unpack"
    /\ UNCHANGED <<writerVars, calls, bodyBytes, panicking, closed, out>>

Malformed == pc = "unpack" /\ Refuse(StatusBadRequest)

Unpacked ==
    /\ pc = "unpack"
    /\ pc' = "serve"
    /\ UNCHANGED <<writerVars, calls, bodyBytes, panicking, closed, out>>

-----------------------------------------------------------------------------
(* The ResponseWriter. *)

\* strconv.ParseInt(cl, 10, 64) with v >= 0, or -1.
ParsedLength(v) == IF v \in Nat THEN v ELSE -1

\* Mutant: WriteHeader does not look whether it was called before.
RespondAgain(code, chunks) ==
    /\ wroteHeader' = TRUE /\ status' = code
    /\ contentLength' = ParsedLength(lengthHeader)
    /\ lengthHeader' = IF lengthHeader \in Nat THEN lengthHeader ELSE Absent
    /\ out' = Sent(<<Header(code, ParsedLength(lengthHeader))>> \o chunks)

\* The header as WriteHeader(code) sends it, if it was not sent, then the chunks.
Respond(code, chunks) ==
    /\ wroteHeader' = TRUE
    /\ IF wroteHeader
         THEN /\ out' = Sent(chunks)
              /\ UNCHANGED <<status, contentLength, lengthHeader>>
         ELSE /\ status' = code
              /\ contentLength' = ParsedLength(lengthHeader)
              /\ lengthHeader' = IF lengthHeader \in Nat THEN lengthHeader ELSE Absent
              /\ out' = Sent(<<Header(code, ParsedLength(lengthHeader))>> \o chunks)

\* w.Header().Set("Content-Length", v)
SetLength(v) ==
    /\ pc = "serve"
    /\ lengthHeader' = v
    /\ UNCHANGED <<pc, wroteHeader, status, contentLength, written, calls, bodyBytes,
                   panicking, closed, out>>

WriteHeader(code) ==
    /\ pc = "serve"
    /\ Respond(code, <<>>)
    /\ UNCHANGED <<pc, written, calls, bodyBytes, panicking, closed>>

\* The status and the length that hold once write has made sure of the header.
StatusNow == IF wroteHeader THEN status ELSE StatusOK
LengthNow == IF wroteHeader THEN contentLength ELSE ParsedLength(lengthHeader)

Refused(total) ==
    StatusNow = StatusNotModified \/ (LengthNow # -1 /\ total > LengthNow)

\* Mutant: only what was sent is counted.
WriteCountsSent(n) ==
    /\ pc = "serve" /\ n > 0 /\ calls < MaxCalls
    /\ calls' = calls + 1
    /\ IF Refused(written + n)
         THEN Respond(StatusOK, <<>>) /\ UNCHANGED <<bodyBytes, written>>
         ELSE /\ Respond(StatusOK, <<Body(calls + 1)>>)
              /\ bodyBytes' = bodyBytes + n /\ written' = written + n
    /\ UNCHANGED <<pc, panicking, closed>>

\* write(data) with len(data) = n > 0; refused data still counts.
Write(n) ==
    /\ pc = "serve" /\ n > 0 /\ calls < MaxCalls
    /\ calls' = calls + 1
    /\ written' = IF StatusNow = StatusNotModified THEN written ELSE written + n
    /\ IF Refused(written + n)
         THEN Respond(StatusOK, <<>>) /\ UNCHANGED bodyBytes
         ELSE Respond(StatusOK, <<Body(calls + 1)>>) /\ bodyBytes' = bodyBytes + n
    /\ UNCHANGED <<pc, panicking, closed>>

\* write of no data: the header only.
WriteNothing ==
    /\ pc = "serve"
    /\ Respond(StatusOK, <<>>)
    /\ UNCHANGED <<pc, written, calls, bodyBytes, panicking, closed>>

-----------------------------------------------------------------------------
(* The ends. *)

\* Mutant: finishRequest does not look at the header.
HandlerReturnsAtOnce ==
    /\ pc = "serve"
    /\ pc' = "close"
    /\ UNCHANGED <<writerVars, calls, bodyBytes, panicking, closed, out>>

\* ServeHTTP returns; finishRequest.
HandlerReturns ==
    /\ pc = "serve"
    /\ Respond(StatusOK, <<>>)
    /\ pc' = "close"
    /\ UNCHANGED <<written, calls, bodyBytes, panicking, closed>>

HandlerPanics ==
    /\ pc = "serve"
    /\ panicking' = TRUE
    /\ pc' = "close"
    /\ UNCHANGED <<writerVars, calls, bodyBytes, closed, out>>

\* defer response.Close() of WrapHandler and WrapHTTPFunc.
DeferredClose ==
    /\ pc = "close"
    /\ End(Close)
    /\ pc' = "trap"
    /\ UNCHANGED <<writerVars, calls, bodyBytes, panicking>>

\* defer trapRecoverAndClose of onInvoke.
Trap ==
    /\ pc = "trap"
    /\ End(IF panicking THEN Error(ErrorPanicInHandler) ELSE Close)
    /\ pc' = "done"
    /\ UNCHANGED <<writerVars, calls, bodyBytes, panicking>>

-----------------------------------------------------------------------------
Serve ==
    \/ \E v \in Declared \cup {Absent, Garbage} : SetLength(v)
    \/ \E code \in Code : WriteHeader(code)
    \/ \E n \in Size : Write(n)
    \/ WriteNothing

Next ==
    \/ NoHandler \/ CallHandler
    \/ ReadFails \/ ReadRequest \/ Malformed \/ Unpacked
    \/ Serve \/ HandlerReturns \/ HandlerPanics
    \/ DeferredClose \/ Trap

Spec == Init /\ [][Next]_vars

-----------------------------------------------------------------------------
(***************************************************************************)
(* The client can parse the reply: the first chunk is the head with status *)
(* and headers, there is no second one, and nothing follows the close or   *)
(* the error, however the application mixes WriteHeader and Write and      *)
(* whichever of the refusals, the wrapper and the trap ends it.            *)
(***************************************************************************)
HeadFirst ==
    \A k \in DOMAIN out :
        /\ out[k].kind = "head" => k = 1
        /\ out[k].kind = "body" => k > 1 /\ out[1].kind = "head"
        /\ out[k].kind \in {"close", "error"} => k = Len(out)

Bodies == {k \in DOMAIN out : out[k].kind = "body"}

(***************************************************************************)
(* The body the client gets is what the application wrote up to a point,   *)
(* without a gap: it fits the Content-Length of the head, a 304 has none,  *)
(* and after the first refused Write no later one slips through.           *)
(***************************************************************************)
BodyIsAPrefix ==
    /\ \A k \in Bodies : out[k].call = k - 1
    /\ Bodies # {} /\ calls > 0 =>
        /\ out[1].code # StatusNotModified
        /\ out[1].length # -1 => bodyBytes <= out[1].length

(***************************************************************************)
(* A handler that returns has answered: the client has a status, and the   *)
(* stream ends with a close.                                               *)
(***************************************************************************)
ReturnIsAnswered ==
    pc = "done" /\ ~panicking =>
        \/ Len(out) >= 2 /\ out[1].kind = "head" /\ out[Len(out)] = Close
        \/ out = <<Error(ErrorNoEventHandler)>>
=============================================================================
