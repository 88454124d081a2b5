--------------------------- MODULE WorkerControl ---------------------------
(***************************************************************************)
(* The life of a worker (cocaine12/workerng.go): handshake, heartbeats and *)
(* the disown timer, termination, Stop, and what Run returns.  The messages*)
(* of the sessions are WorkerSessions; here they are "other".              *)
(*                                                                         *)
(* The main goroutine and the callers of Stop share the channel w.stopped  *)
(* and the connection.  A time.Timer is as in the Go the repository builds *)
(* with (1.7, .travis.yml): an armed timer puts a tick into a channel of   *)
(* capacity one, and Stop and Reset leave a tick that is already there.    *)
(***************************************************************************)
EXTENDS Naturals, Sequences

CONSTANTS
    User,       \* goroutines of the application that call Stop
    MaxInbox    \* bound: messages of the runtime waiting in the connection

ASSUME ControlAssumption == "main" \notin User /\ MaxInbox \in Nat

Actor == User \cup {"main"}

VARIABLES
    main,       \* where the goroutine of newWorkerNG and Run is
    result,     \* what Run returned
    heartbeat,  \* heartbeatTimer: armed, and ticks in its channel
    disown,     \* disownTimer
    awaiting,   \* history: a heartbeat was due and no reply processed since
    stop,       \* where each actor is in Stop
    stopped,    \* w.stopped is closed
    panicked,   \* a channel was closed twice: the process is gone
    up,         \* conn's upstream buffer: "running" or "stopped"
    down,       \* its downstream buffer: "open", "ended" (no input), "closed"
    inbox,      \* what the downstream buffer holds
    sockClosed, \* conn.IsClosed()
    readloop,   \* conn's readloop: "reading", "closing", "done"
    runtime     \* "up", "garbled" (it has sent a frame that does not decode) or "gone"

vars == <<main, result, heartbeat, disown, awaiting, stop, stopped,
          panicked, up, down, inbox, sockClosed, readloop, runtime>>

timerVars == <<heartbeat, disown, awaiting>>
stopVars == <<stop, stopped, panicked>>
connVars == <<up, down, inbox, sockClosed, readloop, runtime>>

Timer == [armed : BOOLEAN, tick : 0..1]

TypeOK ==
    /\ main \in {"handshake", "announce", "send", "select", "termHandler", "termSend",
                 "stopTerminated", "stopDisowned", "returned", "failed"}
    /\ result \in {"none", "nil", "ErrConnectionLost", "ErrDisowned"}
    /\ heartbeat \in Timer
    /\ disown \in Timer
    /\ awaiting \in BOOLEAN
    /\ stop \in [Actor -> {"idle", "enter", "close", "up", "down", "sock", "done"}]
    /\ stopped \in BOOLEAN
    /\ panicked \in BOOLEAN
    /\ up \in {"running", "stopped"}
    /\ down \in {"open", "ended", "closed"}
    /\ inbox \in Seq({"heartbeat", "terminate", "other"})
    /\ sockClosed \in BOOLEAN
    /\ readloop \in {"reading", "closing", "done"}
    /\ runtime \in {"up", "garbled", "gone"}

\* newWorkerNG up to sendHandshake: both timers are stopped again.
Init ==
    /\ main = "handshake" /\ result = "none"
    /\ heartbeat = [armed |-> FALSE, tick |-> 0]
    /\ disown = [armed |-> FALSE, tick |-> 0]
    /\ awaiting = FALSE
    /\ stop = [a \in Actor |-> "idle"] /\ stopped = FALSE /\ panicked = FALSE
    /\ up = "running" /\ down = "open" /\ inbox = <<>> /\ sockClosed = FALSE
    /\ readloop = "reading" /\ runtime = "up"

-----------------------------------------------------------------------------
(* conn.Write() <- msg against conn.IsClosed() and time.After: the write is*)
(* possible while the upstream buffer runs, the timeout always.            *)

CanWrite == up = "running"

SendHandshake ==
    /\ main = "handshake"
    /\ CanWrite \/ sockClosed
    /\ main' = "announce"
    /\ UNCHANGED <<result, timerVars, stopVars, connVars>>

HandshakeTimeout ==
    /\ main = "handshake"
    /\ main' = "failed"
    /\ UNCHANGED <<result, timerVars, stopVars, connVars>>

\* Mutant: the disown timer is not restarted.
OnHeartbeatTimeoutUnwatched ==
    /\ heartbeat' = [armed |-> TRUE, tick |-> 0]
    /\ awaiting' = TRUE
    /\ main' = "send"
    /\ UNCHANGED <<disown, result, stopVars, connVars>>

\* Mutant: the next heartbeat is not scheduled.
OnHeartbeatTimeoutOnce ==
    /\ disown' = [disown EXCEPT !.armed = TRUE]
    /\ heartbeat' = [armed |-> FALSE, tick |-> 0]
    /\ awaiting' = TRUE
    /\ main' = "send"
    /\ UNCHANGED <<result, stopVars, connVars>>

\* onHeartbeatTimeout resets both timers, then blocks in the send.
OnHeartbeatTimeout ==
    /\ disown' = [disown EXCEPT !.armed = TRUE]
    /\ heartbeat' = [armed |-> TRUE, tick |-> 0]
    /\ awaiting' = TRUE
    /\ main' = "send"
    /\ UNCHANGED <<result, stopVars, connVars>>

\* Run: the first heartbeat.
Announce == main = "announce" /\ OnHeartbeatTimeout

\* Mutant: the heartbeat waits for the connection without a way out.
HeartbeatSentBlocks ==
    /\ main = "send" /\ CanWrite
    /\ main' = "select"
    /\ UNCHANGED <<result, timerVars, stopVars, connVars>>

\* Sent, or given up because the connection is closed or takes too long.
HeartbeatSent ==
    /\ main = "send"
    /\ main' = "select"
    /\ UNCHANGED <<result, timerVars, stopVars, connVars>>

-----------------------------------------------------------------------------
(* The select of WorkerNG.loop. *)

HeartbeatTick == main = "select" /\ heartbeat.tick = 1 /\ OnHeartbeatTimeout

\* onDisownTimeout calls Stop, then Run returns.
DisownTick ==
    /\ main = "select" /\ disown.tick = 1
    /\ disown' = [disown EXCEPT !.tick = 0]
    /\ main' = "stopDisowned"
    /\ stop' = [stop EXCEPT !["main"] = "enter"]
    /\ UNCHANGED <<result, heartbeat, awaiting, stopped, panicked, connVars>>

StoppedSeen ==
    /\ main = "select" /\ stopped
    /\ main' = "returned" /\ result' = "nil"
    /\ UNCHANGED <<timerVars, stopVars, connVars>>

\* Read() is closed: by Stop, or because the connection is lost.
ReadClosed ==
    /\ main = "select"
    /\ down = "closed" \/ (down = "ended" /\ inbox = <<>>)
    /\ main' = "returned"
    /\ result' = IF stopped THEN "nil" ELSE "ErrConnectionLost"
    /\ UNCHANGED <<timerVars, stopVars, connVars>>

\* Read() delivers a message of type t.
Read(t) ==
    /\ main = "select"
    /\ down # "closed" /\ inbox # <<>>
    /\ Head(inbox) = t
    /\ inbox' = Tail(inbox)
    /\ UNCHANGED <<up, down, sockClosed, readloop, runtime>>

OnHeartbeat ==
    /\ Read("heartbeat")
    /\ disown' = [disown EXCEPT !.armed = FALSE]
    /\ awaiting' = FALSE
    /\ UNCHANGED <<main, result, heartbeat, stopVars>>

\* onTerminate; a termination handler is attached or not.
OnTerminate ==
    /\ Read("terminate")
    /\ main' \in {"termHandler", "termSend"}
    /\ UNCHANGED <<result, timerVars, stopVars>>

OnOther ==
    /\ Read("other")
    /\ UNCHANGED <<main, result, timerVars, stopVars>>

\* The termination handler returns, or its context times out.
TerminationHandlerEnds ==
    /\ main = "termHandler"
    /\ main' = "termSend"
    /\ UNCHANGED <<result, timerVars, stopVars, connVars>>

\* The reply is queued, or given up like a heartbeat; Stop follows at once.
TerminateReply ==
    /\ main = "termSend"
    /\ main' = "stopTerminated"
    /\ stop' = [stop EXCEPT !["main"] = "enter"]
    /\ UNCHANGED <<result, timerVars, stopped, panicked, connVars>>

\* The main goroutine's own Stop is over: back to the loop, or out of Run.
OwnStopDone ==
    /\ main \in {"stopTerminated", "stopDisowned"}
    /\ stop["main"] = "done"
    /\ stop' = [stop EXCEPT !["main"] = "idle"]
    /\ IF main = "stopDisowned"
         THEN main' = "returned" /\ result' = "ErrDisowned"
         ELSE main' = "select" /\ UNCHANGED result
    /\ UNCHANGED <<timerVars, stopped, panicked, connVars>>

-----------------------------------------------------------------------------
(* WorkerNG.Stop, by any goroutine: look, close w.stopped, conn.Close().   *)

UserStop(u) ==
    /\ main \notin {"handshake", "failed"}
    /\ stop[u] = "idle"
    /\ stop' = [stop EXCEPT ![u] = "enter"]
    /\ UNCHANGED <<main, result, timerVars, stopped, panicked, connVars>>

StopLooks(a) ==
    /\ stop[a] = "enter"
    /\ stop' = [stop EXCEPT ![a] = IF stopped THEN "done" ELSE "close"]
    /\ UNCHANGED <<main, result, timerVars, stopped, panicked, connVars>>

\* Mutant: the connection is closed first, w.stopped afterwards.
StopClosesLate(a) ==
    /\ stop[a] \in {"close", "done"} /\ ~stopped
    /\ stop' = [stop EXCEPT ![a] = IF stop[a] = "close" THEN "up" ELSE "done"]
    /\ stopped' = (stop[a] = "done")
    /\ UNCHANGED <<main, result, timerVars, panicked, connVars>>

\* tokenManager.Stop(); close(w.stopped), which panics the second time.
StopCloses(a) ==
    /\ stop[a] = "close"
    /\ panicked' = stopped
    /\ stopped' = TRUE
    /\ stop' = [stop EXCEPT ![a] = "up"]
    /\ UNCHANGED <<main, result, timerVars, connVars>>

\* upstreamBuf.Stop(): what it still holds is dropped.
StopUp(a) ==
    /\ stop[a] = "up"
    /\ up' = "stopped"
    /\ stop' = [stop EXCEPT ![a] = "down"]
    /\ UNCHANGED <<main, result, timerVars, stopped, panicked, down, inbox,
                   sockClosed, readloop, runtime>>

\* downstreamBuf.Stop()
StopDown(a) ==
    /\ stop[a] = "down"
    /\ down' = "closed" /\ inbox' = <<>>
    /\ stop' = [stop EXCEPT ![a] = "sock"]
    /\ UNCHANGED <<main, result, timerVars, stopped, panicked, up,
                   sockClosed, readloop, runtime>>

StopSock(a) ==
    /\ stop[a] = "sock"
    /\ sockClosed' = TRUE
    /\ stop' = [stop EXCEPT ![a] = "done"]
    /\ UNCHANGED <<main, result, timerVars, stopped, panicked, up, down,
                   inbox, readloop, runtime>>

Stop(a) ==
    \/ StopLooks(a) \/ StopCloses(a) \/ StopUp(a) \/ StopDown(a) \/ StopSock(a)

-----------------------------------------------------------------------------
(* The timers, the connection's goroutines, and the runtime. *)

Fired(timer) == [armed |-> FALSE, tick |-> 1]

DisownFires ==
    /\ disown.armed
    /\ disown' = Fired(disown)
    /\ UNCHANGED <<main, result, heartbeat, awaiting, stopVars, connVars>>

\* 10 s against 5 s since the same Reset: the disown timer fires before.
HeartbeatFires ==
    /\ heartbeat.armed /\ ~disown.armed
    /\ heartbeat' = Fired(heartbeat)
    /\ UNCHANGED <<main, result, disown, awaiting, stopVars, connVars>>

RuntimeSends(t) ==
    /\ runtime = "up" /\ down = "open" /\ readloop = "reading" /\ ~sockClosed
    /\ Len(inbox) < MaxInbox
    /\ inbox' = Append(inbox, t)
    /\ UNCHANGED <<main, result, timerVars, stopVars, up, down, sockClosed,
                   readloop, runtime>>

\* A frame that does not decode: nothing behind it is read.
RuntimeGarbles ==
    /\ runtime = "up"
    /\ runtime' = "garbled"
    /\ UNCHANGED <<main, result, timerVars, stopVars, up, down, inbox,
                   sockClosed, readloop>>

RuntimeDies ==
    /\ runtime # "gone"
    /\ runtime' = "gone"
    /\ UNCHANGED <<main, result, timerVars, stopVars, up, down, inbox,
                   sockClosed, readloop>>

\* The decoder fails: close(downstreamBuf.in), then sock.close().
ReadloopFails ==
    /\ readloop = "reading"
    /\ runtime # "up" \/ sockClosed
    /\ readloop' = "closing"
    /\ down' = IF down = "open" THEN "ended" ELSE down
    /\ UNCHANGED <<main, result, timerVars, stopVars, up, inbox, sockClosed, runtime>>

ReadloopCloses ==
    /\ readloop = "closing"
    /\ readloop' = "done"
    /\ sockClosed' = TRUE
    /\ UNCHANGED <<main, result, timerVars, stopVars, up, down, inbox, runtime>>

-----------------------------------------------------------------------------
Select ==
    \/ HeartbeatTick \/ DisownTick \/ StoppedSeen \/ ReadClosed
    \/ OnHeartbeat \/ OnTerminate \/ OnOther

Main ==
    \/ SendHandshake \/ HandshakeTimeout \/ Announce \/ HeartbeatSent
    \/ Select
    \/ TerminationHandlerEnds \/ TerminateReply \/ OwnStopDone

Environment ==
    \/ DisownFires \/ HeartbeatFires
    \/ ReadloopFails \/ ReadloopCloses
    \/ RuntimeDies \/ RuntimeGarbles \/ \E t \in {"heartbeat", "terminate", "other"} : RuntimeSends(t)

Next ==
    /\ ~panicked
    /\ \/ Main
       \/ \E u \in User : UserStop(u)
       \/ \E a \in Actor : Stop(a)
       \/ Environment

Spec == Init /\ [][Next]_vars

(***************************************************************************)
(* Goroutines run and timers fire.  A case of a select that is ready again *)
(* and again is chosen (Go chooses at random), hence strong fairness for   *)
(* the cases that compete with messages.  Nothing is assumed of the        *)
(* runtime or of the application.                                          *)
(***************************************************************************)
Fairness ==
    /\ WF_vars(~panicked /\ (SendHandshake \/ Announce \/ HeartbeatSent
                 \/ TerminationHandlerEnds \/ TerminateReply \/ OwnStopDone))
    /\ WF_vars(~panicked /\ Select)
    /\ SF_vars(~panicked /\ HeartbeatTick)
    /\ SF_vars(~panicked /\ DisownTick)
    /\ SF_vars(~panicked /\ StoppedSeen)
    /\ \A a \in Actor : WF_vars(~panicked /\ Stop(a))
    /\ WF_vars(~panicked /\ DisownFires) /\ WF_vars(~panicked /\ HeartbeatFires)
    /\ WF_vars(~panicked /\ ReadloopFails) /\ WF_vars(~panicked /\ ReadloopCloses)

FairSpec == Spec /\ Fairness

-----------------------------------------------------------------------------
Over == main \in {"returned", "failed"} \/ panicked

(***************************************************************************)
(* Run says ErrConnectionLost only when the runtime is gone or has sent a  *)
(* frame that does not decode: a Stop, by whatever goroutine and at        *)
(* whatever moment, is never reported as a lost connection ("either the    *)
(* connection is lost or the worker was stopped").                         *)
(***************************************************************************)
StopIsNotALoss == result = "ErrConnectionLost" => runtime # "up"

(***************************************************************************)
(* While a heartbeat waits for its reply somebody watches the clock: the   *)
(* disown timer runs or its tick is waiting.  And the next heartbeat is    *)
(* always scheduled, whatever ticks, replies and stops came in between.    *)
(***************************************************************************)
ClocksAreWatched ==
    main \in {"send", "select", "termHandler", "termSend"} =>
        /\ awaiting => disown.armed \/ disown.tick = 1
        /\ heartbeat.armed \/ heartbeat.tick = 1

(***************************************************************************)
(* After Stop has begun to close things, and after a terminate, Run        *)
(* returns, whatever the main goroutine is doing and whatever the runtime  *)
(* keeps sending.                                                          *)
(***************************************************************************)
StopEndsRun == (stopped \/ main \in {"termHandler", "termSend"}) ~> Over

(***************************************************************************)
(* A heartbeat is answered or the worker ends (a silent runtime is         *)
(* noticed), and an answered heartbeat is followed by another one.         *)
(***************************************************************************)
HeartbeatGoesOn ==
    /\ awaiting ~> (~awaiting \/ Over)
    /\ (main = "select" /\ ~awaiting) ~> (awaiting \/ Over)
=============================================================================
