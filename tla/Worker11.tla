------------------------------ MODULE Worker11 ------------------------------
(***************************************************************************)
(* The worker of the 0.11 framework (cocaine/worker.go, cocaine/message.go)*)
(* The main goroutine is Loop: it cuts the byte stream of the runtime into *)
(* messages (streamUnpacker.Feed), hands chunks to the queue goroutine of  *)
(* their Request, takes answers from the queue goroutines of the Responses *)
(* and watches two timers.  Each invocation runs in a goroutine of its own.*)
(*                                                                         *)
(* A message is a number: its place in what the runtime sent.  It is       *)
(* MsgLen bytes long, and a byte is its place in the stream; the socket    *)
(* hands the bytes over in order, in pieces of any size.                   *)
(***************************************************************************)
EXTENDS Naturals, Sequences

CONSTANTS
    MaxSession, \* bound: sessions of the runtime
    MsgLen,     \* bytes of an encoded message
    MaxSent,    \* bound: messages of the runtime,
    MaxMixed,   \* and if one of them is of no session
    MaxWrites   \* bound: words a handler says by itself

ASSUME Worker11Assumption ==
    /\ MaxSession \in Nat /\ MsgLen \in Nat \ {0}
    /\ MaxSent \in Nat /\ MaxMixed \in Nat /\ MaxWrites \in Nat

VARIABLES
    sent,       \* the messages the runtime has sent
    fed,        \* bytes handed to Feed so far
    buf,        \* streamUnpacker.buf
    left,       \* bytes of it that the decoder of the last Feed has not read
    todo,       \* what the last Feed decoded and Loop has not handled
    handled,    \* history: the messages Loop has dispatched
    sessions,   \* worker.sessions
    request,    \* of each session: pending, quit; history: what was read
    response,   \* of each session: pending, quit; history: what was accepted
    handler,    \* where the goroutine of each session is
    wire,       \* history: the answers of each session written to the socket
    heartbeat,  \* heartbeat_timer: "armed" or "tick" (in its channel)
    disown,     \* disown_timer: also "off", and "late": armed for 20 s or more
    lost,       \* the connection is lost: Read() is closed
    exited      \* "no", "terminated", "disowned", "panic"

inVars == <<sent, fed, buf, left>>
loopVars == <<todo, handled, sessions>>
handlerVars == <<request, response, handler>>
timerVars == <<heartbeat, disown>>
vars == <<inVars, loopVars, handlerVars, wire, timerVars, lost, exited>>

Number == 1..MaxSent
Session == 1..MaxSession
Msg ==
    [type : {"invoke", "chunk", "choke"}, session : Session] \cup
    [type : {"heartbeat", "terminate", "other", "bad", "alien", "garbled"}, session : {0}]
Word == {"chunk", "error", "choke"} \X (0..MaxWrites)
Request == [pending : Seq(Number), quit : BOOLEAN, got : Seq(Number)]
Response == [pending : Seq(Word), quit : BOOLEAN, said : Seq(Word)]
Stage == {"none", "run", "runQuit", "fallback", "trap", "close", "quit", "done"}

TypeOK ==
    /\ sent \in Seq(Msg) /\ fed \in Nat
    /\ buf \in Seq(Nat) /\ left \in Nat /\ todo \in Seq(Number) /\ handled \in Seq(Number)
    /\ sessions \subseteq Session
    /\ request \in [Session -> Request] /\ response \in [Session -> Response]
    /\ handler \in [Session -> Stage]
    /\ wire \in [Session -> Seq(Word)]
    /\ heartbeat \in {"armed", "tick"} /\ disown \in {"off", "armed", "late", "tick"}
    /\ lost \in BOOLEAN /\ exited \in {"no", "terminated", "disowned", "panic"}

\* NewWorker: handshake, and the first heartbeat with its timers (5 s, 20 s).
Init ==
    /\ sent = <<>> /\ fed = 0 /\ buf = <<>> /\ left = 0 /\ todo = <<>> /\ handled = <<>>
    /\ sessions = {}
    /\ request = [i \in Session |-> [pending |-> <<>>, quit |-> FALSE, got |-> <<>>]]
    /\ response = [i \in Session |-> [pending |-> <<>>, quit |-> FALSE, said |-> <<>>]]
    /\ handler = [i \in Session |-> "none"] /\ wire = [i \in Session |-> <<>>]
    /\ heartbeat = "armed" /\ disown = "armed" /\ lost = FALSE /\ exited = "no"

\* Loop is at its select.
Selecting == todo = <<>>

-----------------------------------------------------------------------------
(* streamUnpacker.Feed: a new decoder reads the buffer from its start, as  *)
(* long as there is a whole message.  A "garbled" one does not decode and  *)
(* ends the loop.  unpackMessage refuses a "bad" one, and panics on an     *)
(* "alien" one: no unpacker for its type, or a payload of another shape.   *)
(* What follows the last message that unpacked stays in the buffer.  Nobody*)
(* else sees any of this: the loop of Feed runs to its end before anything *)
(* else moves.                                                             *)

Feeding == left >= MsgLen

\* case answer := <-worker.Read().  Once the connection is lost Read() yields
\* nil again and again, and Feed(nil) changes nothing.
LoopReads(n) ==
    /\ Selecting /\ fed + n <= Len(sent) * MsgLen
    /\ fed' = fed + n
    /\ buf' = buf \o [j \in 1..n |-> fed + j]
    /\ left' = Len(buf')
    /\ UNCHANGED <<sent, loopVars, handlerVars, wire, timerVars, lost, exited>>

\* The message that the decoder reads: its last byte says which one it is.
Decoded == (buf[Len(buf) - left + MsgLen] - 1) \div MsgLen + 1

Garbled(k) == sent[k].type = "garbled"
Good(k) == sent[k].type \notin {"bad", "alien", "garbled"}

\* Mutant: a message that is not complete yet is not kept.
DecodeForgets ==
    /\ Feeding /\ left' = 0 /\ Good(Decoded)
    /\ todo' = Append(todo, Decoded) /\ buf' = <<>>
    /\ UNCHANGED <<sent, fed, handled, sessions, handlerVars, wire, timerVars, lost, exited>>

Decode ==
    /\ Feeding /\ left' = IF Garbled(Decoded) THEN 0 ELSE left - MsgLen
    /\ IF Good(Decoded)
         THEN /\ todo' = Append(todo, Decoded)
              /\ buf' = SubSeq(buf, Len(buf) - left' + 1, Len(buf))
         ELSE UNCHANGED <<todo, buf>>
    /\ exited' = IF sent[Decoded].type = "alien" THEN "panic" ELSE exited
    /\ UNCHANGED <<sent, fed, handled, sessions, handlerVars, wire, timerVars, lost>>

-----------------------------------------------------------------------------
(* The messages of one Feed, one after the other. *)

Message(type) == todo # <<>> /\ sent[Head(todo)].type = type
Dispatched == todo' = Tail(todo) /\ handled' = Append(handled, Head(todo))
Target == sent[Head(todo)].session

\* The queue goroutine ends when it is told to quit and has nothing left.
Gone(queue) == queue.quit /\ queue.pending = <<>>

\* The goroutine of an invocation: the handler bound to the event or the fallback
\* that SetFallbackHandler has set (any code), or the default fallback.
Callback == {"run", "fallback"}

OnInvoke ==
    /\ Message("invoke") /\ Dispatched
    /\ sessions' = sessions \cup {Target}
    /\ \E to \in Callback : handler' = [handler EXCEPT ![Target] = to]
    /\ UNCHANGED <<inVars, request, response, wire, timerVars, lost, exited>>

\* Mutant: without the queue, push waits for the handler.
OnChunkUnbuffered ==
    /\ Message("chunk") /\ Dispatched
    /\ Target \in sessions /\ request[Target].pending = <<>>
    /\ request' = [request EXCEPT ![Target].pending = Append(@, Head(todo))]
    /\ UNCHANGED <<inVars, sessions, response, handler, wire, timerVars, lost, exited>>

\* Request.push; for a session that is not in the map it dereferences nil.
OnChunk ==
    /\ Message("chunk") /\ Dispatched
    /\ IF Target \notin sessions
         THEN exited' = "panic" /\ UNCHANGED request
         ELSE /\ ~Gone(request[Target])
              /\ request' = [request EXCEPT ![Target].pending = Append(@, Head(todo))]
              /\ UNCHANGED exited
    /\ UNCHANGED <<inVars, sessions, response, handler, wire, timerVars, lost>>

\* Mutant: the quit drops what is pending.
OnChokeDrops ==
    /\ Message("choke") /\ Dispatched
    /\ Target \in sessions
    /\ request' = [request EXCEPT ![Target].quit = TRUE, ![Target].pending = <<>>]
    /\ sessions' = sessions \ {Target}
    /\ UNCHANGED <<inVars, response, handler, wire, timerVars, lost, exited>>

\* Request.close and delete; nil is dereferenced likewise.
OnChoke ==
    /\ Message("choke") /\ Dispatched
    /\ IF Target \notin sessions
         THEN exited' = "panic" /\ UNCHANGED <<request, sessions>>
         ELSE /\ ~Gone(request[Target])
              /\ request' = [request EXCEPT ![Target].quit = TRUE]
              /\ sessions' = sessions \ {Target}
              /\ UNCHANGED exited
    /\ UNCHANGED <<inVars, response, handler, wire, timerVars, lost>>

\* disown_timer.Stop(): a tick that is in the channel stays there.
OnHeartbeat ==
    /\ Message("heartbeat") /\ Dispatched
    /\ disown' = IF disown = "tick" THEN "tick" ELSE "off"
    /\ UNCHANGED <<inVars, sessions, handlerVars, wire, heartbeat, lost, exited>>

OnTerminate ==
    /\ Message("terminate") /\ Dispatched
    /\ exited' = "terminated"
    /\ UNCHANGED <<inVars, sessions, handlerVars, wire, timerVars, lost>>

\* default: "Unknown message"
OnOther ==
    /\ Message("other") /\ Dispatched
    /\ UNCHANGED <<inVars, sessions, handlerVars, wire, timerVars, lost, exited>>

-----------------------------------------------------------------------------
(* The other cases of the select. *)

\* SetDisownTimeout: the program may set any disown_timeout at any time, below
\* the HEARTBEAT_TIMEOUT of 20 s or not; the next heartbeat() uses it.
DisownTimeout == {"armed", "late"}

\* disown_timer.Reset(disown_timeout)
ResetDisown == \E set \in DisownTimeout : disown' = IF disown = "tick" THEN "tick" ELSE set

\* Mutant: the next heartbeat is not scheduled.
HeartbeatTickOnce ==
    /\ Selecting /\ heartbeat = "tick"
    /\ heartbeat' = "off" /\ ResetDisown
    /\ UNCHANGED <<inVars, loopVars, handlerVars, wire, lost, exited>>

\* Mutant: nobody watches for the reply.
HeartbeatTickUnwatched ==
    /\ Selecting /\ heartbeat = "tick"
    /\ heartbeat' = "armed"
    /\ UNCHANGED <<inVars, loopVars, handlerVars, wire, disown, lost, exited>>

\* heartbeat()
HeartbeatTick ==
    /\ Selecting /\ heartbeat = "tick"
    /\ heartbeat' = "armed" /\ ResetDisown
    /\ UNCHANGED <<inVars, loopVars, handlerVars, wire, lost, exited>>

DisownTick ==
    /\ Selecting /\ disown = "tick"
    /\ disown' = "off" /\ exited' = "disowned"
    /\ UNCHANGED <<inVars, loopVars, handlerVars, wire, heartbeat, lost>>

\* Mutant: the newest answer goes first.
OutcomingNewest(i) ==
    /\ Selecting /\ response[i].pending # <<>>
    /\ wire' = [wire EXCEPT ![i] = Append(@, response[i].pending[Len(response[i].pending)])]
    /\ response' = [response EXCEPT ![i].pending = SubSeq(@, 1, Len(@) - 1)]
    /\ UNCHANGED <<inVars, loopVars, request, handler, timerVars, lost, exited>>

\* outcoming := <-worker.from_handlers; worker.Write() <- outcoming
Outcoming(i) ==
    /\ Selecting /\ response[i].pending # <<>>
    /\ wire' = [wire EXCEPT ![i] = Append(@, Head(response[i].pending))]
    /\ response' = [response EXCEPT ![i].pending = Tail(@)]
    /\ UNCHANGED <<inVars, loopVars, request, handler, timerVars, lost, exited>>

-----------------------------------------------------------------------------
(* A handler's goroutine, with the deferred recover around it.  A handler  *)
(* and a fallback that was set are any code: they may read, say chunks and *)
(* errors and Close in any order and any number of times (the response     *)
(* does not know that it is closed), return or panic.                      *)

\* <-request.Read(): at the end of the stream nobody answers any more.
Read(i) ==
    /\ handler[i] = "run" /\ request[i].pending # <<>>
    /\ request' = [request EXCEPT ![i].pending = Tail(@),
                                  ![i].got = Append(@, Head(request[i].pending))]
    /\ UNCHANGED <<inVars, loopVars, response, handler, wire, timerVars, lost, exited>>

\* response.from_handler <- word, which blocks for ever once the queue is gone.
Say(i, from, word, to) ==
    /\ handler[i] = from /\ ~Gone(response[i])
    /\ response' = [response EXCEPT ![i].pending = Append(@, word), ![i].said = Append(@, word)]
    /\ handler' = [handler EXCEPT ![i] = to]
    /\ UNCHANGED <<inVars, loopVars, request, wire, timerVars, lost, exited>>

Choke == <<"choke", 0>>
Error == <<"error", 0>>

MaySay(i) == Len(response[i].said) < MaxWrites

Write(i) ==
    /\ MaySay(i) /\ Say(i, "run", <<"chunk", Len(response[i].said) + 1>>, "run")

\* Response.Close, by the handler, by the recover or deferred by the default
\* fallback: the choke, then the quit.
Close(i) ==
    \/ MaySay(i) /\ Say(i, "run", Choke, "runQuit")
    \/ Say(i, "close", Choke, "quit")

Quit(i) ==
    /\ handler[i] \in {"runQuit", "quit"} /\ ~Gone(response[i])
    /\ response' = [response EXCEPT ![i].quit = TRUE]
    /\ handler' = [handler EXCEPT ![i] = IF @ = "quit" THEN "done" ELSE "run"]
    /\ UNCHANGED <<inVars, loopVars, request, wire, timerVars, lost, exited>>

\* By the handler, by the recover around it, and by the default fallback.
ErrorMsg(i) ==
    \/ MaySay(i) /\ Say(i, "run", Error, "run")
    \/ Say(i, "trap", Error, "close")
    \/ Say(i, "fallback", Error, "close")

\* The handler returns, or panics: the recover around a bound handler says an
\* error and closes, the one around a fallback only closes.
HandlerLeaves(i) ==
    /\ handler[i] = "run"
    /\ \E to \in {"done", "trap", "close"} : handler' = [handler EXCEPT ![i] = to]
    /\ UNCHANGED <<inVars, loopVars, request, response, wire, timerVars, lost, exited>>

-----------------------------------------------------------------------------
(* The runtime and the clocks. *)

Invoked(i) == \E k \in DOMAIN sent : sent[k] = [type |-> "invoke", session |-> i]

\* It numbers its sessions from one.
RuntimeSends(m) ==
    /\ ~lost /\ Len(sent) < MaxSent
    /\ m.type = "invoke" => ~Invoked(m.session) /\ \A i \in 1..(m.session - 1) : Invoked(i)
    /\ sent' = Append(sent, m)
    /\ (\E k \in DOMAIN sent' : sent'[k].session = 0) => Len(sent) < MaxMixed
    /\ UNCHANGED <<fed, buf, left, loopVars, handlerVars, wire, timerVars, lost, exited>>

\* What was sent before may still be read.
ConnectionLost ==
    /\ ~lost /\ lost' = TRUE
    /\ UNCHANGED <<inVars, loopVars, handlerVars, wire, timerVars, exited>>

DisownFires ==
    /\ disown \in DisownTimeout /\ disown' = "tick"
    /\ UNCHANGED <<inVars, loopVars, handlerVars, wire, heartbeat, lost, exited>>

\* Both are set by the same heartbeat(), so the shorter one fires first.
HeartbeatFires ==
    /\ heartbeat = "armed" /\ disown # "armed" /\ heartbeat' = "tick"
    /\ UNCHANGED <<inVars, loopVars, handlerVars, wire, disown, lost, exited>>

-----------------------------------------------------------------------------
Dispatch == OnInvoke \/ OnChunk \/ OnChoke \/ OnHeartbeat \/ OnTerminate \/ OnOther

Bound(i) == Close(i) \/ Quit(i) \/ ErrorMsg(i)

Next ==
    /\ exited = "no"
    /\ \/ Decode
       \/ /\ ~Feeding
          /\ \/ \E n \in 1..(MaxSent * MsgLen) : LoopReads(n)
             \/ Dispatch \/ HeartbeatTick \/ DisownTick
             \/ \E i \in Session :
                  Outcoming(i) \/ Read(i) \/ Write(i) \/ Bound(i) \/ HandlerLeaves(i)
             \/ \E m \in Msg : RuntimeSends(m)
             \/ ConnectionLost \/ DisownFires \/ HeartbeatFires

Spec == Init /\ [][Next]_vars

(***************************************************************************)
(* Goroutines run, timers fire, and a case of the select that is ready     *)
(* again and again is chosen, also beside a Read() that is always ready    *)
(* because it is closed.  Nobody has to send, to read or to write.         *)
(***************************************************************************)
Run(A) == exited = "no" /\ ~Feeding /\ A

FairSpec ==
    /\ Spec
    /\ WF_vars(exited = "no" /\ Decode)
    /\ WF_vars(Run(Dispatch)) /\ SF_vars(Run(HeartbeatTick)) /\ SF_vars(Run(DisownTick))
    /\ WF_vars(Run(disown = "armed" /\ DisownFires)) /\ WF_vars(Run(HeartbeatFires))
    /\ \A i \in Session :
        WF_vars(Run(Quit(i) \/ (handler[i] # "run" /\ (ErrorMsg(i) \/ Close(i)))))
        /\ SF_vars(Run(Outcoming(i)))

-----------------------------------------------------------------------------
\* The sequence lists the messages of the set, each once and as they were sent.
Lists(q, S) ==
    /\ \A m, n \in DOMAIN q : m < n => q[m] < q[n]
    /\ {q[n] : n \in DOMAIN q} = S

\* The messages that have arrived whole and that Feed comes to and can use.
Readable ==
    {k \in 1..(fed \div MsgLen) : Good(k) /\ \A j \in 1..k : ~Garbled(j)}

(***************************************************************************)
(* However the socket cuts the stream, Feed decodes every message whose    *)
(* bytes have arrived, once and in order, up to the first that does not    *)
(* decode: nothing behind that one is ever read.  A message that decodes   *)
(* and does not unpack neither holds up nor shifts the ones behind it,     *)
(* though it may be decoded again with the next bytes.                     *)
(***************************************************************************)
DecodedInOrder == ~Feeding => Lists(handled \o todo, Readable)

(***************************************************************************)
(* A handler reads the chunks of its session, all and in order, also those *)
(* that the choke overtakes while they wait in the queue.                  *)
(***************************************************************************)
ChunksInOrder ==
    exited # "panic" =>
        \A i \in Session :
            Lists(request[i].got \o request[i].pending,
                  {k \in {handled[n] : n \in DOMAIN handled} :
                      sent[k] = [type |-> "chunk", session |-> i]})

(***************************************************************************)
(* The runtime gets what the handler said, in its order, nothing left out  *)
(* and nothing twice.  A response whose queue has ended, so that whoever   *)
(* speaks again (the handler, or the recover behind a deferred Close) waits*)
(* for ever, has told the client of the end.  That the choke comes last is *)
(* not promised: what is said before the queue has ended still goes out.   *)
(***************************************************************************)
AnswersInOrder ==
    \A i \in Session :
        /\ wire[i] \o response[i].pending = response[i].said
        /\ Gone(response[i]) => \E n \in DOMAIN wire[i] : wire[i][n] = Choke

(***************************************************************************)
(* What a handler has said goes out, and an end that was begun (a Close, a *)
(* fallback, a recovered panic) reaches the queue, while the main loop     *)
(* hands chunks to handlers that do not read.  Except for a response that  *)
(* was closed before: its queue may be gone.                               *)
(***************************************************************************)
AnswersGoOut ==
    \A i \in Session :
        /\ response[i].pending # <<>> ~> (response[i].pending = <<>> \/ exited # "no")
        /\ handler[i] \notin {"none", "run", "done"} ~> (response[i].quit \/ exited # "no")

(***************************************************************************)
(* A worker whose connection is lost ends, although its loop goes on       *)
(* spinning on the closed Read(): the next heartbeat is not answered.  Only*)
(* if the disown timeout stays below the heartbeat's: otherwise every      *)
(* heartbeat puts the disown timer off again, and the loop spins for ever. *)
(***************************************************************************)
LostConnectionEnds == <>[](disown # "late") => (lost ~> exited # "no")
=============================================================================
