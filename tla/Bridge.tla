------------------------------- MODULE Bridge -------------------------------
(***************************************************************************)
(* The bridge (cocaine12/bridge, cmd/bridge_main.go) runs a program that   *)
(* speaks HTTP as a child process and answers the events of a worker with  *)
(* the child's replies.  Four kinds of goroutines: main (NewBridge, Start, *)
(* Close), the one that pings the child and then runs the worker, the      *)
(* event loop that takes the signals, and the handlers, of which one is    *)
(* modelled.                                                               *)
(***************************************************************************)
EXTENDS Naturals, Sequences

CONSTANTS
    BodyLen     \* pieces of body in the child's reply

ASSUME BridgeAssumption == BodyLen \in Nat

VARIABLES
    bridge,     \* where main is: "start", "spawn", "wait", "close", "exited", "panicked"
    onClose,    \* closed: the channels of Start and of the Bridge
    pinger,     \* "none", "ping", "check", "run", "ended"
    deadline,   \* the startup timeout has passed
    worker,     \* "idle", "running", "returned"
    child,      \* "none", "running", "listening", "exited"
    pending,    \* signals in the watchers' channels
    seen,       \* history: signals the event loop has taken
    handler,    \* of one request: "none", "read", "unpack", "do", "copy", "close", "done"
    copied,     \* pieces of the child's body read from the connection
    dropped,    \* that connection broke
    reply       \* history: what the client was sent

childVars == <<child, pending>>
replyVars == <<handler, copied, dropped, reply>>
bridgeVars == <<bridge, onClose, pinger, deadline, worker, childVars, seen, replyVars>>

Signal == {"SIGTERM", "SIGCHLD"}
WriteHead(code) == [kind |-> "head", code |-> code]
Body(n) == [kind |-> "body", piece |-> n]
Closed == [kind |-> "close"]
ChildsCode == 200
Chunk ==
    [kind : {"head"}, code : {ChildsCode, 400, 408, 500}] \cup
    [kind : {"body"}, piece : 0..BodyLen] \cup {Closed}

BridgeTypeOK ==
    /\ bridge \in {"start", "spawn", "wait", "close", "exited", "panicked"}
    /\ onClose \subseteq {"start", "bridge"}
    /\ pinger \in {"none", "ping", "check", "run", "ended"}
    /\ deadline \in BOOLEAN
    /\ worker \in {"idle", "running", "returned"}
    /\ child \in {"none", "running", "listening", "exited"}
    /\ pending \subseteq Signal /\ seen \subseteq Signal
    /\ handler \in {"none", "read", "unpack", "do", "copy", "close", "done"}
    /\ copied \in 0..BodyLen /\ dropped \in BOOLEAN
    /\ reply \in Seq(Chunk)

\* NewBridge: the worker is connected, the event loop runs.
BridgeInit ==
    /\ bridge = "start" /\ onClose = {} /\ pinger = "none" /\ deadline = FALSE
    /\ worker = "idle" /\ child = "none" /\ pending = {} /\ seen = {}
    /\ handler = "none" /\ copied = 0 /\ dropped = FALSE /\ reply = <<>>

-----------------------------------------------------------------------------
(* Start, and what main does behind it. *)

StartPings ==
    /\ bridge = "start"
    /\ bridge' = "spawn" /\ pinger' = "ping"
    /\ UNCHANGED <<onClose, deadline, worker, childVars, seen, replyVars>>

\* defer close(onClose)
StartReturns == onClose' = onClose \cup {"start"} /\ bridge' = "close"

\* A pipe or the process cannot be made.
SpawnFails ==
    /\ bridge = "spawn" /\ StartReturns
    /\ UNCHANGED <<pinger, deadline, worker, childVars, seen, replyVars>>

Spawn ==
    /\ bridge = "spawn"
    /\ bridge' = "wait" /\ child' = "running"
    /\ UNCHANGED <<onClose, pinger, deadline, worker, pending, seen, replyVars>>

\* Mutant: Start also waits for the goroutine that runs the worker.
WaitReturnsLate ==
    /\ bridge = "wait" /\ child = "exited" /\ pinger = "ended" /\ StartReturns
    /\ UNCHANGED <<pinger, deadline, worker, childVars, seen, replyVars>>

\* child.Wait()
WaitReturns ==
    /\ bridge = "wait" /\ child = "exited" /\ StartReturns
    /\ UNCHANGED <<pinger, deadline, worker, childVars, seen, replyVars>>

\* The deferred Bridge.Close: Process is nil if Start has not made one, and
\* else Process.Wait returns at once, since child.Wait has reaped the process.
Close ==
    /\ bridge = "close"
    /\ onClose' = onClose \cup {"bridge"}
    /\ bridge' = IF child = "none" THEN "panicked" ELSE "exited"
    /\ UNCHANGED <<pinger, deadline, worker, childVars, seen, replyVars>>

-----------------------------------------------------------------------------
(* The goroutine of Start that pings, and runs the worker. *)

\* A ping of a child that listens may still take too long.
Ping ==
    /\ pinger = "ping"
    /\ \/ child = "listening" /\ pinger' = "run" /\ worker' = "running"
       \/ pinger' = "check" /\ UNCHANGED worker
    /\ UNCHANGED <<bridge, onClose, deadline, childVars, seen, replyVars>>

PingChecks ==
    /\ pinger = "check"
    /\ pinger' = IF deadline \/ "start" \in onClose THEN "ended" ELSE "ping"
    /\ UNCHANGED <<bridge, onClose, deadline, worker, childVars, seen, replyVars>>

DeadlinePasses ==
    /\ ~deadline /\ pinger # "none" /\ deadline' = TRUE
    /\ UNCHANGED <<bridge, onClose, pinger, worker, childVars, seen, replyVars>>

\* Run returns: terminated, disowned or the connection lost.
RunReturns ==
    /\ pinger = "run"
    /\ pinger' = "ended" /\ worker' = "returned"
    /\ UNCHANGED <<bridge, onClose, deadline, childVars, seen, replyVars>>

-----------------------------------------------------------------------------
(* The signals.  The event loop's for has no way out: whatever it takes, it*)
(* goes on, and stopWorker and stopChild behind it are never called.  Once *)
(* the Bridge's onClose is closed it spins.                                *)

EventLoop(s) ==
    /\ s \in pending
    /\ pending' = pending \ {s} /\ seen' = seen \cup {s}
    /\ UNCHANGED <<bridge, onClose, pinger, deadline, worker, child, replyVars>>

SignalComes ==
    /\ pending' = pending \cup {"SIGTERM"}
    /\ UNCHANGED <<bridge, onClose, pinger, deadline, worker, child, seen, replyVars>>

ChildListens ==
    /\ child = "running" /\ child' = "listening"
    /\ UNCHANGED <<bridge, onClose, pinger, deadline, worker, pending, seen, replyVars>>

ChildExits ==
    /\ child \in {"running", "listening"}
    /\ child' = "exited" /\ pending' = pending \cup {"SIGCHLD"}
    /\ UNCHANGED <<bridge, onClose, pinger, deadline, worker, seen, replyVars>>

-----------------------------------------------------------------------------
(* The fallback handler, for one request; Close is deferred. *)

Handle(from, to, chunks) ==
    /\ handler = from /\ handler' = to
    /\ reply' = reply \o chunks
    /\ UNCHANGED <<bridge, onClose, pinger, deadline, worker, childVars, seen, dropped>>

Refuse(from, code) == Handle(from, "close", <<WriteHead(code), Body(0)>>) /\ UNCHANGED copied

Invoked == worker = "running" /\ Handle("none", "read", <<>>) /\ UNCHANGED copied

\* The context is over, or the stream ended or carried an error.
ReadFails == Refuse("read", 408) \/ Refuse("read", 400)
ReadRequest == Handle("read", "unpack", <<>>) /\ UNCHANGED copied
Malformed == Refuse("unpack", 400)
Unpacked == Handle("unpack", "do", <<>>) /\ UNCHANGED copied

\* http.DefaultClient.Do
DoFails == Refuse("do", 500)
Do ==
    /\ child = "listening"
    /\ Handle("do", "copy", <<WriteHead(ChildsCode)>>) /\ UNCHANGED copied

\* The child dies, or only drops this connection.
ConnectionDrops ==
    /\ handler = "copy" /\ dropped' = TRUE
    /\ UNCHANGED <<bridge, onClose, pinger, deadline, worker, childVars, seen, handler,
                   copied, reply>>

\* Mutant: the data that comes together with the end is lost.
CopyWritesLate ==
    /\ copied < BodyLen
    /\ copied' = copied + 1
    /\ Handle("copy", "copy", IF copied' = BodyLen THEN <<>> ELSE <<Body(copied')>>)

\* Mutant: a piece too many.
CopyWritesPast ==
    /\ copied <= BodyLen
    /\ copied' = copied + 1
    /\ Handle("copy", "copy", <<Body(copied')>>)

\* io.Copy: a piece of body is read and written.
CopyWrites ==
    /\ copied < BodyLen
    /\ copied' = copied + 1
    /\ Handle("copy", "copy", <<Body(copied')>>)

\* The whole body, or an error that nobody looks at.
CopyEnds ==
    /\ copied = BodyLen \/ dropped
    /\ Handle("copy", "close", <<>>) /\ UNCHANGED copied

ResponseClose == Handle("close", "done", <<Closed>>) /\ UNCHANGED copied

-----------------------------------------------------------------------------
BridgeMain == StartPings \/ SpawnFails \/ Spawn \/ WaitReturns \/ Close
Pinger == Ping \/ PingChecks \/ RunReturns
Handler ==
    \/ Invoked \/ ReadFails \/ ReadRequest \/ Malformed \/ Unpacked
    \/ DoFails \/ Do \/ ConnectionDrops \/ CopyWrites \/ CopyEnds \/ ResponseClose

Exited == bridge \in {"exited", "panicked"}

BridgeNext ==
    /\ ~Exited
    /\ \/ BridgeMain \/ Pinger \/ Handler
       \/ DeadlinePasses \/ SignalComes \/ ChildListens \/ ChildExits
       \/ \E s \in Signal : EventLoop(s)

BridgeSpec == BridgeInit /\ [][BridgeNext]_bridgeVars

(***************************************************************************)
(* Main and the event loop run.  The child, the runtime and the clients    *)
(* do what they like: the child may hang, the worker need not return.      *)
(***************************************************************************)
FairBridgeSpec ==
    /\ BridgeSpec
    /\ WF_bridgeVars(~Exited /\ BridgeMain) /\ WF_bridgeVars(~Exited /\ (PingChecks \/ Ping))
    /\ \A s \in Signal : WF_bridgeVars(~Exited /\ EventLoop(s))

-----------------------------------------------------------------------------
(***************************************************************************)
(* A client of the bridge gets one head, then body, then one close; with   *)
(* the child's status the body is the child's, in order, and whole unless  *)
(* the connection to the child broke under it.                             *)
(***************************************************************************)
ReplyIsTheChilds ==
    /\ \A k \in DOMAIN reply :
        /\ reply[k].kind = "head" <=> k = 1
        /\ reply[k] = Closed => k = Len(reply)
    /\ reply # <<>> /\ reply[1].code = ChildsCode =>
        /\ \A k \in DOMAIN reply : reply[k].kind = "body" => reply[k].piece = k - 1
        /\ handler = "done" => Len(reply) = BodyLen + 2 \/ dropped

(***************************************************************************)
(* When the child exits the bridge exits, whatever the pings, the worker,  *)
(* the signals and the requests in progress are doing.                     *)
(***************************************************************************)
ChildExitEndsBridge == child = "exited" ~> Exited

-----------------------------------------------------------------------------
(***************************************************************************)
(* "notify the eventLoop about an intention to be stopped": a signal to    *)
(* stop, once the event loop has taken it, stops the worker.               *)
(***************************************************************************)
SignalStopsWorker == "SIGTERM" \in seen ~> (worker # "running" \/ Exited)
=============================================================================
