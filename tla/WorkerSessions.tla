--------------------------- MODULE WorkerSessions ---------------------------
(***************************************************************************)
(* The sessions of a worker: the dispatcher (wprotov1.go, onMessage) routes*)
(* the runtime's messages to request streams, one handler goroutine per    *)
(* invocation answers through its response (handler.go, response), and the *)
(* deferred trap (workerng.go, trapRecoverAndClose) ends every answer.     *)
(*                                                                         *)
(* The runtime may send anything.  A request stream is the FifoChannel of  *)
(* RequestStream: push and Close always go through; here only what is put  *)
(* into it matters.  Messages of the utility session are WorkerControl.    *)
(***************************************************************************)
EXTENDS Naturals, Sequences, FiniteSets

CONSTANTS
    Session,        \* session numbers of the runtime, above v1UtilitySession
    MaxArrived,     \* bound: messages the runtime sends
    MaxWrites       \* bound: chunks a handler writes

v1UtilitySession == 1
v1Invoke == 0
v1Write == 0
v1Error == 1
v1Close == 2

ASSUME SessionsAssumption ==
    /\ Session \subseteq Nat \ (0..v1UtilitySession)
    /\ MaxArrived \in Nat /\ MaxWrites \in Nat

Type == 0..3                    \* message types, 3 for all the unknown ones
Message ==                      \* corrupted: an invoke whose payload names no event
    {m \in [session : Session, type : Type, corrupted : BOOLEAN] :
        m.corrupted => m.type = v1Invoke}
Invocation == 1..MaxArrived     \* handlers started, in their order
NoStream == 0

VARIABLES
    arrived,        \* history: the messages read from the connection
    maxSession,     \* v1Protocol.maxSession
    sessions,       \* w.sessions: the invocation whose stream is registered
    invocations,    \* history: the session of each invocation
    pushed,         \* history: the message types pushed into each stream
    closes,         \* history: how often each stream was closed
    handler,        \* each invocation's goroutine: "none", "running", "done"
    closed,         \* response.closed of each invocation
    sent,           \* history: the types of the messages sent per session
    connClosed,     \* conn.IsClosed(): Send may drop
    panicked        \* the main goroutine has panicked: the process is over

vars == <<arrived, maxSession, sessions, invocations, pushed, closes, handler,
          closed, sent, connClosed, panicked>>

streamVars == <<pushed, closes>>
replyVars == <<handler, closed, sent, connClosed>>

TypeOK ==
    /\ arrived \in Seq(Message)
    /\ maxSession \in Session \cup {v1UtilitySession}
    /\ sessions \in [Session -> Invocation \cup {NoStream}]
    /\ invocations \in Seq(Session) /\ Len(invocations) <= Len(arrived)
    /\ Len(arrived) <= MaxArrived
    /\ pushed \in [Invocation -> Seq({v1Write, v1Error})]
    /\ closes \in [Invocation -> Nat]
    /\ handler \in [Invocation -> {"none", "running", "done"}]
    /\ closed \in [Invocation -> BOOLEAN]
    /\ sent \in [Session -> Seq({v1Write, v1Error, v1Close})]
    /\ connClosed \in BOOLEAN
    /\ panicked \in BOOLEAN

Init ==
    /\ arrived = <<>>
    /\ maxSession = v1UtilitySession
    /\ sessions = [s \in Session |-> NoStream]
    /\ invocations = <<>>
    /\ pushed = [i \in Invocation |-> <<>>]
    /\ closes = [i \in Invocation |-> 0]
    /\ handler = [i \in Invocation |-> "none"]
    /\ closed = [i \in Invocation |-> FALSE]
    /\ sent = [s \in Session |-> <<>>]
    /\ connClosed = FALSE
    /\ panicked = FALSE

-----------------------------------------------------------------------------
(* The main loop: onMessage. *)

Arrives(msg) ==
    /\ Len(arrived) < MaxArrived
    /\ arrived' = Append(arrived, msg)

IsNew(msg) == maxSession < msg.session

\* A new session must start with an invoke; anything else is an error.
OnBadStart(msg) ==
    /\ Arrives(msg)
    /\ IsNew(msg) /\ msg.type # v1Invoke
    /\ UNCHANGED <<maxSession, sessions, invocations, streamVars, replyVars, panicked>>

\* Mutant: an invoke without an event leaves its session number free.
OnCorruptedInvokeForgets(msg) ==
    /\ Arrives(msg)
    /\ IsNew(msg) /\ msg.type = v1Invoke /\ msg.corrupted
    /\ UNCHANGED <<maxSession, sessions, invocations, streamVars, replyVars, panicked>>

\* getEventName fails on a payload of another type, and panics on an empty one;
\* the session number is used up before.
OnCorruptedInvoke(msg) ==
    /\ Arrives(msg)
    /\ IsNew(msg) /\ msg.type = v1Invoke /\ msg.corrupted
    /\ maxSession' = msg.session
    /\ panicked' \in BOOLEAN
    /\ UNCHANGED <<sessions, invocations, streamVars, replyVars>>

OnInvoke(msg) ==
    /\ Arrives(msg)
    /\ IsNew(msg) /\ msg.type = v1Invoke /\ ~msg.corrupted
    /\ LET i == Len(invocations) + 1
       IN  /\ maxSession' = msg.session
           /\ sessions' = [sessions EXCEPT ![msg.session] = i]
           /\ invocations' = Append(invocations, msg.session)
           /\ handler' = [handler EXCEPT ![i] = "running"]
    /\ UNCHANGED <<streamVars, closed, sent, connClosed, panicked>>

Registered(msg) == sessions[msg.session] # NoStream

\* Mutant: an error ends the stream.
OnChunkOrErrorCloses(msg) ==
    /\ Arrives(msg)
    /\ ~IsNew(msg) /\ msg.type \in {v1Write, v1Error} /\ Registered(msg)
    /\ pushed' = [pushed EXCEPT ![sessions[msg.session]] = Append(@, msg.type)]
    /\ sessions' = IF msg.type = v1Error
                     THEN [sessions EXCEPT ![msg.session] = NoStream] ELSE sessions
    /\ UNCHANGED <<maxSession, invocations, closes, replyVars, panicked>>

\* onChunk, onError
OnChunkOrError(msg) ==
    /\ Arrives(msg)
    /\ ~IsNew(msg) /\ msg.type \in {v1Write, v1Error} /\ Registered(msg)
    /\ pushed' = [pushed EXCEPT ![sessions[msg.session]] = Append(@, msg.type)]
    /\ UNCHANGED <<maxSession, sessions, invocations, closes, replyVars, panicked>>

\* Mutant: the stream is closed and stays in the map.
OnChokeKeeps(msg) ==
    /\ Arrives(msg)
    /\ ~IsNew(msg) /\ msg.type = v1Close /\ Registered(msg)
    /\ closes' = [closes EXCEPT ![sessions[msg.session]] = @ + 1]
    /\ UNCHANGED <<maxSession, sessions, invocations, pushed, replyVars, panicked>>

\* onChoke
OnChoke(msg) ==
    /\ Arrives(msg)
    /\ ~IsNew(msg) /\ msg.type = v1Close /\ Registered(msg)
    /\ closes' = [closes EXCEPT ![sessions[msg.session]] = @ + 1]
    /\ sessions' = [sessions EXCEPT ![msg.session] = NoStream]
    /\ UNCHANGED <<maxSession, invocations, pushed, replyVars, panicked>>

\* No stream for the session, or no such type: the message is dropped.
OnStray(msg) ==
    /\ Arrives(msg)
    /\ ~IsNew(msg)
    /\ msg.type \in {v1Write, v1Error, v1Close} => ~Registered(msg)
    /\ UNCHANGED <<maxSession, sessions, invocations, streamVars, replyVars, panicked>>

-----------------------------------------------------------------------------
(* The handlers, through their responses. *)

SessionOf(i) == invocations[i]

\* conn.Send: the message is queued, or dropped once the socket is closed.
Send(i, type) ==
    \/ sent' = [sent EXCEPT ![SessionOf(i)] = Append(@, type)]
    \/ connClosed /\ UNCHANGED sent

\* Mutant: Write does not look whether the response is closed.
WriteAnyway(i) ==
    /\ handler[i] = "running"
    /\ Len(sent[SessionOf(i)]) < MaxWrites + 1
    /\ Send(i, v1Write)
    /\ UNCHANGED <<arrived, maxSession, sessions, invocations, streamVars, handler,
                   closed, connClosed, panicked>>

\* Write, ZeroCopyWrite; on a closed response an error and nothing else.
Write(i) ==
    /\ handler[i] = "running" /\ ~closed[i]
    /\ Len(sent[SessionOf(i)]) < MaxWrites
    /\ Send(i, v1Write)
    /\ UNCHANGED <<arrived, maxSession, sessions, invocations, streamVars, handler,
                   closed, connClosed, panicked>>

\* Close and ErrorMsg: close the response and send the last message of it.
End(i, type) ==
    IF closed[i]
      THEN UNCHANGED <<closed, sent>>
      ELSE closed' = [closed EXCEPT ![i] = TRUE] /\ Send(i, type)

HandlerEnds(i) ==
    /\ handler[i] = "running"
    /\ \E type \in {v1Close, v1Error} : End(i, type)
    /\ UNCHANGED <<arrived, maxSession, sessions, invocations, streamVars, handler,
                   connClosed, panicked>>

\* Mutant: a handler that returns leaves its response open.
HandlerReturnsOpen(i) ==
    /\ handler[i] = "running"
    /\ handler' = [handler EXCEPT ![i] = "done"]
    /\ UNCHANGED <<arrived, maxSession, sessions, invocations, streamVars, closed,
                   sent, connClosed, panicked>>

\* trapRecoverAndClose: ErrorMsg after a panic, Close after a return.
HandlerReturns(i) ==
    /\ handler[i] = "running"
    /\ \E type \in {v1Close, v1Error} : End(i, type)
    /\ handler' = [handler EXCEPT ![i] = "done"]
    /\ UNCHANGED <<arrived, maxSession, sessions, invocations, streamVars, connClosed,
                   panicked>>

ConnCloses ==
    /\ ~connClosed
    /\ connClosed' = TRUE
    /\ UNCHANGED <<arrived, maxSession, sessions, invocations, streamVars, handler,
                   closed, sent, panicked>>

-----------------------------------------------------------------------------
OnMessage(msg) ==
    \/ OnBadStart(msg) \/ OnCorruptedInvoke(msg) \/ OnInvoke(msg)
    \/ OnChunkOrError(msg) \/ OnChoke(msg) \/ OnStray(msg)

Handler(i) == Write(i) \/ HandlerEnds(i) \/ HandlerReturns(i)

Next ==
    /\ ~panicked
    /\ \/ \E msg \in Message : OnMessage(msg)
       \/ \E i \in Invocation : Handler(i)
       \/ ConnCloses

Spec == Init /\ [][Next]_vars

-----------------------------------------------------------------------------
Final == {v1Error, v1Close}

(***************************************************************************)
(* A client sees chunks and then at most one error or close, and nothing   *)
(* after it, whatever the handler, its panic and the deferred trap do and  *)
(* whatever sessions the runtime asks for.                                 *)
(***************************************************************************)
OneFinalMessage ==
    \A s \in Session : \A k \in DOMAIN sent[s] : sent[s][k] \in Final => k = Len(sent[s])

(***************************************************************************)
(* A handler that is done has answered: with the connection open, its      *)
(* session ends with an error or a close.  No client waits for ever.       *)
(***************************************************************************)
DoneIsAnswered ==
    \A i \in Invocation :
        handler[i] = "done" /\ ~connClosed =>
            sent[SessionOf(i)] # <<>> /\ sent[SessionOf(i)][Len(sent[SessionOf(i)])] \in Final

(***************************************************************************)
(* A stream is closed at most once (a second close panics the worker), is  *)
(* in the map exactly until then, and belongs to one session only.         *)
(***************************************************************************)
StreamsAreClosedOnce ==
    /\ \A i \in Invocation : closes[i] <= 1
    /\ \A s \in Session : sessions[s] # NoStream =>
            /\ sessions[s] <= Len(invocations)
            /\ SessionOf(sessions[s]) = s
            /\ closes[sessions[s]] = 0

(***************************************************************************)
(* What a handler may read, said without the dispatcher's state: the       *)
(* chunks and errors of its session that came after its invoke and before  *)
(* the next close; and the invokes that start a handler are those with a   *)
(* number above every invoke before them, each one once.                   *)
(***************************************************************************)
Starts == {k \in DOMAIN arrived :
              /\ arrived[k].type = v1Invoke
              /\ \A j \in 1..k - 1 :
                    arrived[j].type = v1Invoke => arrived[j].session < arrived[k].session}

\* The closes of the session that the invoke at k started.
Ends(k) == {j \in k + 1..Len(arrived) :
               arrived[j].session = arrived[k].session /\ arrived[j].type = v1Close}

\* The places of what its handler may read.
Mine(k) == {j \in k + 1..Len(arrived) :
               /\ arrived[j].session = arrived[k].session
               /\ arrived[j].type \in {v1Write, v1Error}
               /\ \A e \in Ends(k) : j < e}

\* stream holds the messages at those places, in their order.
Rank(j, P) == Cardinality({l \in P : l <= j})
Holds(stream, k) ==
    /\ Len(stream) = Cardinality(Mine(k))
    /\ \A j \in Mine(k) : stream[Rank(j, Mine(k))] = arrived[j].type

RoutedAsSent ==
    /\ \A k \in Starts : ~arrived[k].corrupted =>
          \E i \in 1..Len(invocations) :
              SessionOf(i) = arrived[k].session /\ Holds(pushed[i], k)
    /\ \A i, j \in 1..Len(invocations) : i < j => SessionOf(i) < SessionOf(j)
    /\ \A i \in 1..Len(invocations) : \E k \in Starts :
          arrived[k].session = SessionOf(i) /\ ~arrived[k].corrupted
=============================================================================
