------------------------------ MODULE Service ------------------------------
(***************************************************************************)
(* A client's service (cocaine12/service.go, sessions.go, the sending half *)
(* of channel.go, the log of clogger.go): goroutines that call methods,    *)
(* write into their channels, log, reconnect and close share the RWMutex,  *)
(* the mutex of the session order, the map of sessions and the current     *)
(* socket; each socket has its loop goroutine, which pushes results into   *)
(* the channels and tells them Disconnected at the end.  A channel's       *)
(* receiving half is what Rx promises: a queue of results; one result      *)
(* answers a call and ends its session.                                    *)
(*                                                                         *)
(* sync.RWMutex: a Lock that waits for the readers holds off every further *)
(* RLock, also of a goroutine that already holds one.                      *)
(***************************************************************************)
EXTENDS Naturals, Sequences

CONSTANTS
    Caller,     \* goroutines that call Call once and Get its answer, or log once
    Forcer,     \* goroutines that call Reconnect(force = true) once
    Closer,     \* goroutines that call Close, perhaps again
    None,       \* nobody
    MaxEpoch,   \* bound: successful reconnections
    MaxSession  \* bound: the last session number, one for each caller

ASSUME ServiceAssumption ==
    /\ MaxEpoch \in Nat /\ MaxSession \in Nat
    /\ None \notin Caller \cup Forcer \cup Closer \cup 0..MaxEpoch
    /\ Caller \cap Forcer = {} /\ (Caller \cup Forcer) \cap Closer = {}
    /\ (Caller \cup Forcer \cup Closer) \cap 0..MaxEpoch = {}

Sock == 0..MaxEpoch             \* sockets, and the loops started for them
Goroutine == Caller \cup Forcer \cup Closer \cup Sock
Session == 2..MaxSession
\* A reply read from a socket, or Disconnected, told by a goroutine.
Result == [kind : {"value"}, from : Sock] \cup [kind : {"disconnected"}, from : Goroutine]

VARIABLES
    pc,         \* where each goroutine is
    readers,    \* service.mutex: read locks held by each goroutine
    pending,    \* service.mutex: the goroutine whose Lock waits
    writer,     \* service.mutex: the goroutine that holds it
    order,      \* muKeepSessionOrder
    counter,    \* sessions.counter
    links,      \* sessions.links
    session,    \* the session each caller has opened
    txDone,     \* tx.done: callers that have sent their channel's last message
    logs,       \* history: sessions of log entries
    strays,     \* history: sessions with a later message over another socket
    answers,    \* the results pushed into each session's channel
    epoch,      \* service.epoch
    socketIO,   \* service.socketIO: the number of the socket
    stopClosed, \* service.stop is closed
    sock,       \* each socket: "none", "open", "eof" (no more reads), "closed"
    inbox,      \* the replies each socket has read and not delivered
    opened,     \* history: the sessions opened over each socket, in order
    replied,    \* history: the sessions the remote side has answered
    loopEpoch,  \* the epoch each loop found when it started
    loopSock,   \* the socket each loop found, in a second unprotected read
    home,       \* history: the socket each session's message was given to
    panicked    \* close of a closed channel

lockVars == <<readers, pending, writer>>
txVars == <<txDone, logs, strays>>
sessionVars == <<counter, links, session, answers, home, txVars>>
sockVars == <<epoch, socketIO, stopClosed, sock, inbox, opened, replied>>
loopVars == <<loopEpoch, loopSock>>
vars == <<pc, lockVars, order, sessionVars, sockVars, loopVars, panicked>>

Place ==
    {"none", "idle", "lock", "waitLock", "reconnect", "resolve", "switch", "call", "attach",
     "send", "get", "log", "closing", "start", "range", "reading", "end", "done"}

TypeOK ==
    /\ pc \in [Goroutine -> Place]
    /\ readers \in [Goroutine -> 0..2]
    /\ pending \in Goroutine \cup {None}
    /\ writer \in Goroutine \cup {None}
    /\ order \in Caller \cup {None}
    /\ counter \in Session \cup {1}
    /\ links \subseteq Session
    /\ session \in [Caller -> Session \cup {None}]
    /\ txDone \subseteq Caller /\ logs \subseteq Session /\ strays \subseteq Session
    /\ answers \in [Session -> Seq(Result)]
    /\ epoch \in Sock
    /\ socketIO \in Sock
    /\ stopClosed \in BOOLEAN
    /\ sock \in [Sock -> {"none", "open", "eof", "closed"}]
    /\ inbox \in [Sock -> Seq(Session)]
    /\ opened \in [Sock -> Seq(Session)]
    /\ replied \subseteq Session
    /\ loopEpoch \in [Sock -> Sock]
    /\ loopSock \in [Sock -> Sock]
    /\ home \in [Session -> Sock \cup {None}]
    /\ panicked \in BOOLEAN

\* NewService: connected, the first loop started.
Init ==
    /\ pc = [g \in Goroutine |->
                IF g \in Sock THEN (IF g = 0 THEN "start" ELSE "none") ELSE "idle"]
    /\ readers = [g \in Goroutine |-> 0] /\ pending = None /\ writer = None
    /\ order = None
    /\ counter = 1 /\ links = {}
    /\ session = [c \in Caller |-> None]
    /\ txDone = {} /\ logs = {} /\ strays = {}
    /\ answers = [i \in Session |-> <<>>]
    /\ epoch = 0 /\ socketIO = 0 /\ stopClosed = FALSE
    /\ sock = [k \in Sock |-> IF k = 0 THEN "open" ELSE "none"]
    /\ inbox = [k \in Sock |-> <<>>]
    /\ opened = [k \in Sock |-> <<>>]
    /\ replied = {}
    /\ loopEpoch = [k \in Sock |-> 0]
    /\ loopSock = [k \in Sock |-> 0]
    /\ home = [i \in Session |-> None]
    /\ panicked = FALSE

-----------------------------------------------------------------------------
Goto(g, l) == pc' = [pc EXCEPT ![g] = l]

CanRLock == pending = None /\ writer = None

\* Lock, first part: hold off new readers.
AnnounceLock(g) ==
    /\ pc[g] = "lock"
    /\ CanRLock
    /\ pending' = g
    /\ Goto(g, "waitLock")
    /\ UNCHANGED <<readers, writer, order, sessionVars, sockVars, loopVars, panicked>>

\* Lock, second part: the readers have left.
AcquireLock(g) ==
    /\ pc[g] = "waitLock"
    /\ \A r \in Goroutine : readers[r] = 0
    /\ pending' = None /\ writer' = g
    /\ Goto(g, IF g \in Sock THEN "end" ELSE "reconnect")
    /\ UNCHANGED <<readers, order, sessionVars, sockVars, loopVars, panicked>>

\* A result is pushed: the channel has it and, being final, detaches itself.
Pushed(i, result) ==
    /\ answers' = [answers EXCEPT ![i] = Append(@, result)]
    /\ links' = links \ {i}

Disconnected(g) == [kind |-> "disconnected", from |-> g]

\* pushDisconnectedError, called by g, for every attached session.
PushDisconnectedError(g) ==
    /\ answers' = [i \in Session |->
                     IF i \in links THEN Append(answers[i], Disconnected(g)) ELSE answers[i]]
    /\ links' = {}

IsClosed == sock[socketIO] = "closed"

-----------------------------------------------------------------------------
(* Call: look, Reconnect if disconnected, call. *)

CallLooks(c) ==
    /\ pc[c] = "idle" /\ CanRLock
    /\ Goto(c, IF IsClosed THEN "lock" ELSE "call")
    /\ UNCHANGED <<lockVars, order, sessionVars, sockVars, loopVars, panicked>>

CallRLocks(c) ==
    /\ pc[c] = "call" /\ CanRLock
    /\ readers' = [readers EXCEPT ![c] = @ + 1]
    /\ Goto(c, "attach")
    /\ UNCHANGED <<pending, writer, order, sessionVars, sockVars, loopVars, panicked>>

\* Mutant: sessions are opened without muKeepSessionOrder.
AttachUnordered(c) ==
    /\ pc[c] = "attach" /\ counter < MaxSession
    /\ counter' = counter + 1
    /\ links' = links \cup {counter'}
    /\ session' = [session EXCEPT ![c] = counter']
    /\ Goto(c, "send")
    /\ UNCHANGED <<lockVars, order, answers, home, txVars, sockVars, loopVars,
                   panicked>>

\* muKeepSessionOrder.Lock(); sessions.Attach
Attach(c) ==
    /\ pc[c] = "attach" /\ counter < MaxSession
    /\ order = None
    /\ order' = c
    /\ counter' = counter + 1
    /\ links' = links \cup {counter'}
    /\ session' = [session EXCEPT ![c] = counter']
    /\ Goto(c, "send")
    /\ UNCHANGED <<lockVars, answers, home, txVars, sockVars, loopVars, panicked>>

\* Mutant: sendMsg's unlock and its caller's both release the one read lock.
SendMsgUnlocksTwice(c) ==
    /\ pc[c] = "send"
    /\ opened' = IF IsClosed THEN opened
                 ELSE [opened EXCEPT ![socketIO] = Append(@, session[c])]
    /\ home' = [home EXCEPT ![session[c]] = socketIO]
    /\ order' = None
    /\ readers' = [readers EXCEPT ![c] = @ - 2]
    /\ Goto(c, "get")
    /\ UNCHANGED <<pending, writer, counter, links, session, answers, txVars, epoch,
                   socketIO, stopClosed, sock, inbox, replied, loopVars, panicked>>

\* sendMsg takes the read lock again; then everything is unlocked.
SendMsg(c) ==
    /\ pc[c] = "send" /\ CanRLock
    /\ opened' = IF IsClosed THEN opened
                 ELSE [opened EXCEPT ![socketIO] = Append(@, session[c])]
    /\ home' = [home EXCEPT ![session[c]] = socketIO]
    /\ order' = None
    /\ readers' = [readers EXCEPT ![c] = @ - 1]
    /\ Goto(c, "get")
    /\ UNCHANGED <<pending, writer, counter, links, session, answers, txVars, epoch,
                   socketIO, stopClosed, sock, inbox, replied, loopVars, panicked>>

\* The channel's Get returns its first result; the caller is done with it.
GetAnswer(c) ==
    /\ pc[c] = "get" /\ answers[session[c]] # <<>>
    /\ Goto(c, "done")
    /\ txDone' = txDone \ {c}
    /\ UNCHANGED <<lockVars, order, counter, links, session, answers, home, logs,
                   strays, sockVars, loopVars, panicked>>

\* tx.Call, while the caller waits: a method that may follow (recursive) or
\* the last one (empty).  sendMsg takes whatever socket the service has now.
TxCall(c) ==
    /\ pc[c] = "get" /\ c \notin txDone /\ CanRLock
    /\ txDone' \in {txDone, txDone \cup {c}}
    /\ strays' = IF socketIO = home[session[c]] THEN strays ELSE strays \cup {session[c]}
    /\ UNCHANGED <<pc, lockVars, order, counter, links, session, answers, home,
                   logs, sockVars, loopVars, panicked>>

-----------------------------------------------------------------------------
(* cocaineLogger.log, under the logger's mutex but not muKeepSessionOrder:  *)
(* a session number, then the message; nobody waits for an answer.         *)

LogNext(c) ==
    /\ pc[c] = "idle" /\ counter < MaxSession
    /\ \A o \in Caller : pc[o] # "log"
    /\ counter' = counter + 1
    /\ session' = [session EXCEPT ![c] = counter']
    /\ logs' = logs \cup {counter'}
    /\ Goto(c, "log")
    /\ UNCHANGED <<lockVars, order, links, answers, home, txDone, strays,
                   sockVars, loopVars, panicked>>

LogSends(c) ==
    /\ pc[c] = "log" /\ CanRLock
    /\ opened' = IF IsClosed THEN opened
                 ELSE [opened EXCEPT ![socketIO] = Append(@, session[c])]
    /\ home' = [home EXCEPT ![session[c]] = socketIO]
    /\ Goto(c, "done")
    /\ UNCHANGED <<lockVars, order, counter, links, session, answers, txVars,
                   epoch, socketIO, stopClosed, sock, inbox, replied, loopVars,
                   panicked>>

-----------------------------------------------------------------------------
(* Reconnect, under the lock. *)

ForceReconnect(f) ==
    /\ pc[f] = "idle"
    /\ Goto(f, "lock")
    /\ UNCHANGED <<lockVars, order, sessionVars, sockVars, loopVars, panicked>>

AfterReconnect(g) == IF g \in Caller THEN "call" ELSE "done"

\* Somebody else has reconnected meanwhile.
ReconnectNotNeeded(g) ==
    /\ pc[g] = "reconnect" /\ g \notin Forcer /\ ~IsClosed
    /\ writer' = None
    /\ Goto(g, AfterReconnect(g))
    /\ UNCHANGED <<readers, pending, order, sessionVars, sockVars, loopVars,
                   panicked>>

\* Mutant: a lost connection is left to its loop to tell.
ReconnectLeavesThem(g) ==
    /\ pc[g] = "reconnect" /\ (g \in Forcer \/ IsClosed)
    /\ IF g \in Forcer THEN PushDisconnectedError(g) ELSE UNCHANGED <<answers, links>>
    /\ Goto(g, "resolve")
    /\ UNCHANGED <<lockVars, order, counter, session, home, txVars, sockVars, loopVars,
                   panicked>>

ReconnectDisconnects(g) ==
    /\ pc[g] = "reconnect" /\ (g \in Forcer \/ IsClosed)
    /\ PushDisconnectedError(g)
    /\ Goto(g, "resolve")
    /\ UNCHANGED <<lockVars, order, counter, session, home, txVars, sockVars, loopVars,
                   panicked>>

\* No locator or no endpoint answers: the error is returned.
ReconnectFails(g) ==
    /\ pc[g] = "resolve"
    /\ writer' = None
    /\ Goto(g, "done")
    /\ UNCHANGED <<readers, pending, order, sessionVars, sockVars, loopVars,
                   panicked>>

\* Mutant: the numbering of the sessions starts again with the new socket.
ReconnectRenumbers(g) ==
    /\ pc[g] = "resolve" /\ epoch < MaxEpoch /\ ~stopClosed
    /\ epoch' = epoch + 1
    /\ counter' = 1
    /\ sock' = [sock EXCEPT ![socketIO] = "closed", ![epoch'] = "open"]
    /\ Goto(g, "switch")
    /\ UNCHANGED <<lockVars, order, links, session, answers, home, txVars, socketIO,
                   stopClosed, inbox, opened, replied, loopVars, panicked>>

\* A new connection; the old one is closed and drops what it holds; epoch++.
ReconnectDisposes(g) ==
    /\ pc[g] = "resolve" /\ epoch < MaxEpoch /\ ~stopClosed
    /\ epoch' = epoch + 1
    /\ sock' = [sock EXCEPT ![socketIO] = "closed", ![epoch'] = "open"]
    /\ inbox' = [inbox EXCEPT ![socketIO] = <<>>]
    /\ Goto(g, "switch")
    /\ UNCHANGED <<lockVars, order, sessionVars, socketIO, stopClosed, opened,
                   replied, loopVars, panicked>>

\* The service's socket is replaced and a loop started for it.
ReconnectSwitches(g) ==
    /\ pc[g] = "switch"
    /\ socketIO' = epoch
    /\ pc' = [pc EXCEPT ![g] = AfterReconnect(g), ![epoch] = "start"]
    /\ writer' = None
    /\ UNCHANGED <<readers, pending, order, sessionVars, epoch, stopClosed,
                   sock, inbox, opened, replied, loopVars, panicked>>

\* close(service.stop) after Close has closed it.
ReconnectPanics(g) ==
    /\ pc[g] = "resolve" /\ stopClosed
    /\ panicked' = TRUE
    /\ UNCHANGED <<pc, lockVars, order, sessionVars, sockVars, loopVars>>

-----------------------------------------------------------------------------
(* Close, under the read lock: close(stop), then the socket. *)

Close(x) ==
    /\ pc[x] \in {"idle", "done"} /\ CanRLock
    /\ IF stopClosed
         THEN panicked' = TRUE /\ UNCHANGED <<pc, readers, stopClosed, sock, inbox>>
         ELSE /\ stopClosed' = TRUE
              /\ sock' = [sock EXCEPT ![socketIO] = IF IsClosed THEN "closed" ELSE "eof"]
              /\ inbox' = [inbox EXCEPT ![socketIO] = <<>>]
              /\ readers' = [readers EXCEPT ![x] = 1]
              /\ Goto(x, "closing")
              /\ UNCHANGED panicked
    /\ UNCHANGED <<pending, writer, order, sessionVars, epoch, socketIO, opened,
                   replied, loopVars>>

CloseEnds(x) ==
    /\ pc[x] = "closing"
    /\ sock' = [sock EXCEPT ![socketIO] = "closed"]
    /\ readers' = [readers EXCEPT ![x] = 0]
    /\ Goto(x, "done")
    /\ UNCHANGED <<pending, writer, order, sessionVars, epoch, socketIO, stopClosed,
                   inbox, opened, replied, loopVars, panicked>>

-----------------------------------------------------------------------------
(* The loops. *)

\* A loop looks at the epoch when it first runs, holding no lock,
LoopStarts(l) ==
    /\ pc[l] = "start"
    /\ loopEpoch' = [loopEpoch EXCEPT ![l] = epoch]
    /\ Goto(l, "range")
    /\ UNCHANGED <<lockVars, order, sessionVars, sockVars, loopSock, panicked>>

\* and then at the socket.
LoopRanges(l) ==
    /\ pc[l] = "range"
    /\ loopSock' = [loopSock EXCEPT ![l] = socketIO]
    /\ Goto(l, "reading")
    /\ UNCHANGED <<lockVars, order, sessionVars, sockVars, loopEpoch, panicked>>

LoopReads(l) ==
    LET k == loopSock[l]
        i == Head(inbox[k])
    IN  /\ pc[l] = "reading" /\ inbox[k] # <<>>
        /\ inbox' = [inbox EXCEPT ![k] = Tail(@)]
        /\ IF i \in links THEN Pushed(i, [kind |-> "value", from |-> k])
                          ELSE UNCHANGED <<answers, links>>
        /\ UNCHANGED <<pc, lockVars, order, counter, session, home, txVars, epoch,
                       socketIO, stopClosed, sock, opened, replied, loopVars,
                       panicked>>

LoopReadEnds(l) ==
    /\ pc[l] = "reading"
    /\ sock[loopSock[l]] \in {"eof", "closed"} /\ inbox[loopSock[l]] = <<>>
    /\ Goto(l, "lock")
    /\ UNCHANGED <<lockVars, order, sessionVars, sockVars, loopVars, panicked>>

\* Mutant: the loop of an old socket does not look at the epoch.
LoopEndsAnyway(l) ==
    /\ pc[l] = "end"
    /\ PushDisconnectedError(l)
    /\ writer' = None
    /\ Goto(l, "done")
    /\ UNCHANGED <<readers, pending, order, counter, session, home, txVars, sockVars,
                   loopVars, panicked>>

LoopEnds(l) ==
    /\ pc[l] = "end"
    /\ IF loopEpoch[l] = epoch THEN PushDisconnectedError(l) ELSE UNCHANGED <<answers, links>>
    /\ writer' = None
    /\ Goto(l, "done")
    /\ UNCHANGED <<readers, pending, order, counter, session, home, txVars, sockVars,
                   loopVars, panicked>>

-----------------------------------------------------------------------------
(* The remote side of socket k, and the socket's readloop. *)

Reply(k, i) ==
    /\ sock[k] = "open"
    /\ \E n \in DOMAIN opened[k] : opened[k][n] = i
    /\ i \notin replied \cup logs
    /\ replied' = replied \cup {i}
    /\ inbox' = [inbox EXCEPT ![k] = Append(@, i)]
    /\ UNCHANGED <<pc, lockVars, order, sessionVars, epoch, socketIO, stopClosed,
                   sock, opened, loopVars, panicked>>

RemoteDisconnects(k) ==
    /\ sock[k] = "open"
    /\ sock' = [sock EXCEPT ![k] = "eof"]
    /\ UNCHANGED <<pc, lockVars, order, sessionVars, epoch, socketIO, stopClosed,
                   inbox, opened, replied, loopVars, panicked>>

ReadloopCloses(k) ==
    /\ sock[k] = "eof"
    /\ sock' = [sock EXCEPT ![k] = "closed"]
    /\ UNCHANGED <<pc, lockVars, order, sessionVars, epoch, socketIO, stopClosed,
                   inbox, opened, replied, loopVars, panicked>>

-----------------------------------------------------------------------------
Locking(g) == AnnounceLock(g) \/ AcquireLock(g)

Reconnect(g) ==
    \/ ReconnectNotNeeded(g) \/ ReconnectDisconnects(g) \/ ReconnectFails(g)
    \/ ReconnectDisposes(g) \/ ReconnectSwitches(g) \/ ReconnectPanics(g)

Call(c) ==
    \/ CallLooks(c) \/ CallRLocks(c) \/ Attach(c) \/ SendMsg(c) \/ GetAnswer(c)

Log(c) == LogNext(c) \/ LogSends(c)

Loop(l) ==
    \/ LoopStarts(l) \/ LoopRanges(l) \/ LoopReads(l) \/ LoopReadEnds(l) \/ LoopEnds(l)

Connection ==
    \E k \in Sock :
        RemoteDisconnects(k) \/ ReadloopCloses(k) \/ \E i \in Session : Reply(k, i)

Step(g) ==
    \/ Locking(g)
    \/ g \in Caller \cup Forcer /\ Reconnect(g)
    \/ g \in Caller /\ (Call(g) \/ Log(g))
    \/ g \in Closer /\ CloseEnds(g)
    \/ g \in Sock /\ Loop(g)

Next ==
    /\ ~panicked
    /\ \/ \E g \in Goroutine : Step(g)
       \/ \E c \in Caller : TxCall(c)
       \/ \E f \in Forcer : ForceReconnect(f)
       \/ \E x \in Closer : Close(x)
       \/ Connection

Spec == Init /\ [][Next]_vars

(***************************************************************************)
(* Every goroutine that can run runs.  Nobody has to call Reconnect or     *)
(* Close, and the remote side may never reply.                             *)
(***************************************************************************)
FairSpec ==
    /\ Spec
    /\ \A g \in Goroutine : WF_vars(~panicked /\ Step(g))
    /\ \A k \in Sock : WF_vars(~panicked /\ ReadloopCloses(k))

-----------------------------------------------------------------------------
(***************************************************************************)
(* Over each socket the opening messages of the calls carry growing session*)
(* numbers, whichever callers and reconnections interleave, and so do those*)
(* of the log entries, whichever goroutines log.  These are two orders, not*)
(* one: between a call and a log entry see SessionsOpenInOrder.            *)
(***************************************************************************)
CallsOpenInOrder ==
    \A k \in Sock : \A m, n \in DOMAIN opened[k] :
        m < n /\ (opened[k][m] \in logs <=> opened[k][n] \in logs) =>
            opened[k][m] < opened[k][n]

(***************************************************************************)
(* "We must create new sessions in the monotonic order" (service.go, above *)
(* muKeepSessionOrder): over each socket all opening messages, of calls and*)
(* of log entries, carry growing session numbers.                          *)
(* The code breaks it: cocaineLogger.log takes a number and sends its      *)
(* message without that mutex, and a call can open a later session first.  *)
(***************************************************************************)
SessionsOpenInOrder ==
    \A k \in Sock : \A m, n \in DOMAIN opened[k] : m < n => opened[k][m] < opened[k][n]

\* Loop g read the epoch after a Reconnect had raised it and the socket before
\* the same Reconnect replaced it: two reads without the lock.
Torn(g) ==
    /\ g \in Sock /\ pc[g] \notin {"start", "range"}
    /\ loopSock[g] < loopEpoch[g]

(***************************************************************************)
(* A channel is told Disconnected only when its own socket is over, or by  *)
(* a forced Reconnect: the loop of a replaced socket, starting or ending   *)
(* late, does not fail the calls made over the new one.  What a torn loop  *)
(* tells is not covered (its unlocked start fell between two assignments   *)
(* of Reconnect, and it may fail calls of a living socket); what anybody   *)
(* else tells is, also in a service that has such a loop.                  *)
(***************************************************************************)
DisconnectedIsTrue ==
    \A i \in Session : \A n \in DOMAIN answers[i] :
        answers[i][n].kind = "disconnected" =>
            \/ answers[i][n].from \in Forcer \/ Torn(answers[i][n].from)
            \/ home[i] # None /\ sock[home[i]] # "open"

(***************************************************************************)
(* A value a channel gets is the answer to its own call: it came over the  *)
(* socket the call was sent to, never from the connection before.          *)
(***************************************************************************)
AnswersAreOwn ==
    \A i \in Session : \A n \in DOMAIN answers[i] :
        answers[i][n].kind = "value" => answers[i][n].from = home[i]

(***************************************************************************)
(* A channel's later message that goes over another connection than its    *)
(* call, where its session means nothing, comes only from a caller whose   *)
(* channel already holds its end: a reconnection never takes the connection*)
(* from under a call that has not been told.                               *)
(***************************************************************************)
StrayCallsWereTold == \A i \in strays : answers[i] # <<>>

-----------------------------------------------------------------------------
(***************************************************************************)
(* TestService: two thousand concurrent Calls all come back, or the test   *)
(* panics with "give me traceback".  A Call that has begun returns.        *)
(***************************************************************************)
CallsReturn == \A c \in Caller : pc[c] = "attach" ~> (pc[c] \in {"get", "done"} \/ panicked)
=============================================================================
