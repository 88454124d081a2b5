--------------------------- MODULE Service_proofs ---------------------------
(***************************************************************************)
(* Proofs about Service, for any number of callers, of goroutines that     *)
(* reconnect or close, of reconnections and of sessions.                   *)
(***************************************************************************)
EXTENDS Service, SequenceTheorems, TLAPS

(***************************************************************************)
(* The inductive invariant, first part: who holds the locks.  A goroutine's*)
(* place in the code tells its locks; the writer excludes the readers, and *)
(* the one caller between Attach and sendMsg holds muKeepSessionOrder.     *)
(***************************************************************************)
Reconnecting == {"reconnect", "resolve", "switch"}

Places ==
    /\ \A c \in Caller :
        pc[c] \in Reconnecting \cup {"idle", "lock", "waitLock", "call", "attach", "send",
                                     "get", "log", "done"}
    /\ \A f \in Forcer : pc[f] \in Reconnecting \cup {"idle", "lock", "waitLock", "done"}
    /\ \A x \in Closer : pc[x] \in {"idle", "closing", "done"}
    /\ \A l \in Sock :
        pc[l] \in {"none", "start", "range", "reading", "lock", "waitLock", "end", "done"}

Locks ==
    /\ \A g \in Goroutine :
        /\ writer = g <=> pc[g] \in Reconnecting \cup {"end"}
        /\ pending = g <=> pc[g] = "waitLock"
        /\ readers[g] = IF pc[g] \in {"attach", "send", "closing"} THEN 1 ELSE 0
    /\ writer # None => pending = None /\ \A g \in Goroutine : readers[g] = 0
    /\ \A c \in Caller : order = c <=> pc[c] = "send"

(***************************************************************************)
(* Second part: the sockets.  The epoch is the number of the socket except *)
(* between the two assignments of Reconnect; every older socket is closed, *)
(* and a loop that has left its range has seen the end of its socket.      *)
(***************************************************************************)
Sockets ==
    /\ \A g \in Goroutine : pc[g] = "switch" => epoch = socketIO + 1
    /\ (\A g \in Goroutine : pc[g] # "switch") => epoch = socketIO
    /\ \A k \in Sock : k < epoch => sock[k] = "closed"
    /\ \A k \in Sock : k > epoch <=> sock[k] = "none"

Loops ==
    \A l \in Sock :
        /\ pc[l] = "none" <=> l > socketIO
        /\ pc[l] = "none" => loopEpoch[l] = 0
        /\ loopSock[l] <= socketIO
        /\ pc[l] \in {"lock", "waitLock", "end"} => sock[loopSock[l]] \in {"eof", "closed"}

(***************************************************************************)
(* Third part: the sessions.  Numbers are not reused; a session has its    *)
(* home from the moment its message is sent, and for good; what is opened  *)
(* over a socket or waits in its inbox is at home there.                   *)
(***************************************************************************)
Numbers ==
    /\ \A c \in Caller : pc[c] \in {"send", "get", "log"} =>
        /\ session[c] \in Session /\ session[c] <= counter
        /\ \A d \in Caller :
            pc[d] \in {"send", "get", "log"} /\ session[d] = session[c] => d = c
    /\ \A c \in Caller : pc[c] = "send" => session[c] \notin logs
    /\ \A c \in Caller : pc[c] = "log" => session[c] \in logs
    /\ \A i \in links \cup logs : i <= counter

Homes ==
    /\ \A c \in Caller : pc[c] \in {"send", "log"} => home[session[c]] = None
    /\ \A c \in Caller : pc[c] = "get" => home[session[c]] \in Sock
    /\ \A i \in Session : i > counter => home[i] = None
    /\ \A i \in Session : home[i] # None => home[i] <= socketIO
    /\ \A k \in Sock : \A n \in 1..Len(opened[k]) : home[opened[k][n]] = k

Inboxes == \A k \in Sock : \A n \in 1..Len(inbox[k]) : home[inbox[k][n]] = k

\* One goroutine logs at a time; the numbers that were opened before are
\* smaller than the one to be sent.
InTurn ==
    /\ \A c, d \in Caller : pc[c] = "log" /\ pc[d] = "log" => c = d
    /\ \A c \in Caller, k \in Sock : \A n \in 1..Len(opened[k]) :
        /\ pc[c] = "send" /\ opened[k][n] \notin logs => opened[k][n] < session[c]
        /\ pc[c] = "log" /\ opened[k][n] \in logs => opened[k][n] < session[c]

\* A call is attached or told; one that is attached belongs to the current
\* socket, or is about to be sent; a Reconnect replaces the socket of nobody.
Told ==
    /\ \A c \in Caller : pc[c] \in {"send", "get"} =>
        session[c] \in links \/ answers[session[c]] # <<>>
    /\ \A i \in links : home[i] # None => home[i] = socketIO
    /\ \A i \in links : home[i] = None => \E c \in Caller : pc[c] = "send" /\ session[c] = i
    /\ \A g \in Goroutine : pc[g] \in {"resolve", "switch"} => links = {}

LockInv == TypeOK /\ Places /\ Locks

SocketInv == LockInv /\ Sockets /\ Loops

SessionInv == SocketInv /\ Numbers /\ Homes /\ Inboxes

ServiceInv == SessionInv /\ InTurn /\ Told

-----------------------------------------------------------------------------
\* The four kinds of goroutines are distinct, and a loop is a number.
LEMMA GoroutineKinds ==
    /\ Caller \subseteq Goroutine /\ Forcer \subseteq Goroutine
    /\ Closer \subseteq Goroutine /\ Sock \subseteq Goroutine
    /\ None \notin Goroutine
    /\ \A g \in Goroutine :
        /\ g \in Caller => g \notin Forcer /\ g \notin Closer /\ g \notin Sock
        /\ g \in Forcer => g \notin Closer /\ g \notin Sock
        /\ g \in Closer => g \notin Sock
    /\ Sock \subseteq Nat
BY ServiceAssumption DEF Goroutine, Sock

\* The parts of TypeOK: the locks, the sockets and loops, the sessions, the
\* queues.  A step of the proof takes only the part it needs.
LockTypes ==
    /\ pc \in [Goroutine -> Place]
    /\ readers \in [Goroutine -> 0..2]
    /\ pending \in Goroutine \cup {None}
    /\ writer \in Goroutine \cup {None}
    /\ order \in Caller \cup {None}
    /\ epoch \in Sock /\ socketIO \in Sock

SockTypes ==
    /\ sock \in [Sock -> {"none", "open", "eof", "closed"}]
    /\ loopSock \in [Sock -> Sock] /\ loopEpoch \in [Sock -> Sock]

SessionTypes ==
    /\ counter \in Session \cup {1} /\ links \subseteq Session
    /\ session \in [Caller -> Session \cup {None}]
    /\ txDone \subseteq Caller /\ logs \subseteq Session /\ strays \subseteq Session
    /\ home \in [Session -> Sock \cup {None}]
    /\ replied \subseteq Session /\ stopClosed \in BOOLEAN /\ panicked \in BOOLEAN

QueueTypes ==
    /\ answers \in [Session -> Seq(Result)]
    /\ inbox \in [Sock -> Seq(Session)] /\ opened \in [Sock -> Seq(Session)]

\* They are all of TypeOK.
LEMMA Types == TypeOK <=> LockTypes /\ SockTypes /\ SessionTypes /\ QueueTypes
<1>1. TypeOK => LockTypes /\ SockTypes
  BY DEF TypeOK, LockTypes, SockTypes
<1>2. TypeOK => SessionTypes /\ QueueTypes
  BY DEF TypeOK, SessionTypes, QueueTypes
<1>3. LockTypes /\ SockTypes /\ SessionTypes /\ QueueTypes => TypeOK
  BY DEF TypeOK, LockTypes, SockTypes, SessionTypes, QueueTypes
<1> QED
  BY <1>1, <1>2, <1>3

\* Attach and the log find a next number below the bound.
LEMMA NextSession ==
    counter \in Session \cup {1} /\ counter < MaxSession => counter + 1 \in Session
BY ServiceAssumption DEF Session

\* So does a reconnection.
LEMMA NextEpoch == epoch \in Sock /\ epoch < MaxEpoch => epoch + 1 \in Sock
BY ServiceAssumption DEF Sock

\* What a channel holds only grows; what is new is r, for the sessions in I.
Adds(I, r) ==
    /\ answers' \in [Session -> Seq(Result)]
    /\ \A i \in Session :
        /\ answers[i] # <<>> \/ i \in I => answers'[i] # <<>>
        /\ \A n \in 1..Len(answers'[i]) :
            \/ n \in 1..Len(answers[i]) /\ answers'[i][n] = answers[i][n]
            \/ i \in I /\ answers'[i][n] = r

\* Append keeps the elements of a sequence and adds one.
LEMMA Grows ==
    ASSUME NEW S, NEW s \in Seq(S), NEW r \in S
    PROVE  /\ Append(s, r) \in Seq(S) /\ Append(s, r) # <<>>
           /\ \A n \in 1..Len(Append(s, r)) :
                \/ n \in 1..Len(s) /\ Append(s, r)[n] = s[n]
                \/ Append(s, r)[n] = r
           /\ \A n \in 1..Len(s) : n \in 1..Len(Append(s, r)) /\ Append(s, r)[n] = s[n]
<1>1. /\ Append(s, r) \in Seq(S) /\ Len(Append(s, r)) = Len(s) + 1 /\ Len(s) \in Nat
      /\ Append(s, r)[Len(s) + 1] = r
      /\ \A n \in 1..Len(s) : Append(s, r)[n] = s[n]
  BY AppendProperties, LenProperties
<1> QED
  BY <1>1, EmptySeq

\* pushDisconnectedError tells every attached session, and detaches them all.
LEMMA DisconnectsAll ==
    ASSUME answers \in [Session -> Seq(Result)], links \subseteq Session,
           NEW g \in Goroutine, PushDisconnectedError(g)
    PROVE  Adds(links, Disconnected(g)) /\ links' = {}
<1> DEFINE d == Disconnected(g)
<1>1. d \in Result
  BY DEF Disconnected, Result
<1>2.
      /\ answers' = [i \in Session |-> IF i \in links THEN Append(answers[i], d) ELSE answers[i]]
      /\ links' = {}
  BY DEF PushDisconnectedError, Disconnected
<1> HIDE DEF d
<1>3. ASSUME NEW i \in Session
      PROVE  /\ answers'[i] \in Seq(Result)
             /\ answers[i] # <<>> \/ i \in links => answers'[i] # <<>>
             /\ \A n \in 1..Len(answers'[i]) :
                \/ n \in 1..Len(answers[i]) /\ answers'[i][n] = answers[i][n]
                \/ i \in links /\ answers'[i][n] = d
  <2>1. answers[i] \in Seq(Result)
    OBVIOUS
  <2>2. CASE i \in links
    <3>1. answers'[i] = Append(answers[i], d)
      BY <1>2, <2>2
    <3> QED
      BY <1>1, <2>1, <2>2, <3>1, Grows
  <2>3. CASE i \notin links
    BY <1>2, <2>1, <2>3
  <2> QED
    BY <2>2, <2>3
<1>4. answers' \in [Session -> Seq(Result)]
  BY <1>2, <1>3
<1> QED
  BY <1>2, <1>3, <1>4 DEF Adds, d

\* A reply tells one session.
LEMMA PushesOne ==
    ASSUME answers \in [Session -> Seq(Result)], NEW j \in Session, NEW r \in Result,
           answers' = [answers EXCEPT ![j] = Append(@, r)]
    PROVE  Adds({j}, r)
<1>1. ASSUME NEW i \in Session
      PROVE  /\ answers'[i] \in Seq(Result)
             /\ answers[i] # <<>> \/ i \in {j} => answers'[i] # <<>>
             /\ \A n \in 1..Len(answers'[i]) :
                \/ n \in 1..Len(answers[i]) /\ answers'[i][n] = answers[i][n]
                \/ i \in {j} /\ answers'[i][n] = r
  <2>1. answers[i] \in Seq(Result)
    OBVIOUS
  <2>2. CASE i = j
    <3>1. answers'[i] = Append(answers[i], r)
      BY <2>2
    <3> QED
      BY <2>1, <2>2, <3>1, Grows
  <2>3. CASE i # j
    BY <2>1, <2>3
  <2> QED
    BY <2>2, <2>3
<1>2. answers' \in [Session -> Seq(Result)]
  BY <1>1
<1> QED
  BY <1>1, <1>2 DEF Adds

\* While a goroutine has the mutex, no call is between Attach and sendMsg.
LEMMA WriterAlone ==
    ASSUME LockTypes, Locks, NEW g \in Goroutine, pc[g] \in Reconnecting \cup {"end"}
    PROVE  \A c \in Caller : pc[c] # "send"
<1>1. writer = g /\ g # None
  BY GoroutineKinds DEF Locks
<1>2. \A c \in Caller : readers[c] = 0 /\ c \in Goroutine
  BY <1>1, GoroutineKinds DEF Locks
<1>3. \A c \in Caller : readers[c] = IF pc[c] \in {"attach", "send", "closing"} THEN 1 ELSE 0
  BY <1>2 DEF Locks
<1>4. ASSUME NEW c \in Caller, pc[c] = "send" PROVE FALSE
  BY <1>2, <1>3, <1>4
<1> QED
  BY <1>4

-----------------------------------------------------------------------------
(***************************************************************************)
(* The locks: RLock waits for a Lock that waits, Lock for every reader, and *)
(* a goroutine leaves its place with the locks the next place has.         *)
(***************************************************************************)
LEMMA LocksKeep == ServiceInv /\ [Next]_vars => (Places /\ Locks)'
<1> SUFFICES ASSUME ServiceInv, [Next]_vars PROVE (Places /\ Locks)'
  OBVIOUS
<1>0. LockTypes /\ Places /\ Locks
  BY Types DEF ServiceInv, SessionInv, SocketInv, LockInv
<1> USE <1>0, GoroutineKinds DEF LockTypes, Place, Places, Locks, Reconnecting, Goto,
    CanRLock, AfterReconnect, lockVars
<1>1. ASSUME NEW g \in Goroutine, AnnounceLock(g) PROVE (Places /\ Locks)'
  BY <1>1 DEF AnnounceLock
<1>2. ASSUME NEW g \in Goroutine, AcquireLock(g) PROVE (Places /\ Locks)'
  BY <1>2 DEF AcquireLock
<1>3. ASSUME NEW g \in Caller \cup Forcer, ReconnectNotNeeded(g) PROVE (Places /\ Locks)'
  BY <1>3 DEF ReconnectNotNeeded
<1>4. ASSUME NEW g \in Caller \cup Forcer, ReconnectDisconnects(g) PROVE (Places /\ Locks)'
  BY <1>4 DEF ReconnectDisconnects
<1>5. ASSUME NEW g \in Caller \cup Forcer, ReconnectFails(g) PROVE (Places /\ Locks)'
  BY <1>5 DEF ReconnectFails
<1>6. ASSUME NEW g \in Caller \cup Forcer, ReconnectDisposes(g) PROVE (Places /\ Locks)'
  BY <1>6 DEF ReconnectDisposes
<1>7. ASSUME NEW g \in Caller \cup Forcer, ReconnectSwitches(g) PROVE (Places /\ Locks)'
  BY <1>7 DEF ReconnectSwitches
<1>8. ASSUME NEW g \in Caller \cup Forcer, ReconnectPanics(g) PROVE (Places /\ Locks)'
  BY <1>8 DEF ReconnectPanics
<1>9. ASSUME NEW c \in Caller, CallLooks(c) PROVE (Places /\ Locks)'
  BY <1>9 DEF CallLooks
<1>10. ASSUME NEW c \in Caller, CallRLocks(c) PROVE (Places /\ Locks)'
  BY <1>10 DEF CallRLocks
<1>11. ASSUME NEW c \in Caller, Attach(c) PROVE (Places /\ Locks)'
  BY <1>11 DEF Attach
<1>12. ASSUME NEW c \in Caller, SendMsg(c) PROVE (Places /\ Locks)'
  BY <1>12 DEF SendMsg
<1>13. ASSUME NEW c \in Caller, GetAnswer(c) PROVE (Places /\ Locks)'
  BY <1>13 DEF GetAnswer
<1>14. ASSUME NEW c \in Caller, TxCall(c) PROVE (Places /\ Locks)'
  BY <1>14 DEF TxCall
<1>15. ASSUME NEW c \in Caller, LogNext(c) PROVE (Places /\ Locks)'
  BY <1>15 DEF LogNext
<1>16. ASSUME NEW c \in Caller, LogSends(c) PROVE (Places /\ Locks)'
  BY <1>16 DEF LogSends
<1>17. ASSUME NEW f \in Forcer, ForceReconnect(f) PROVE (Places /\ Locks)'
  BY <1>17 DEF ForceReconnect
<1>18. ASSUME NEW x \in Closer, Close(x) PROVE (Places /\ Locks)'
  <2>1. CASE stopClosed
    BY <1>18, <2>1 DEF Close
  <2>2. CASE ~stopClosed
    <3>1. writer = None /\ pending = None /\ pc[x] \in {"idle", "done"}
      BY <1>18 DEF Close
    <3>2. pc' = [pc EXCEPT ![x] = "closing"] /\ readers' = [readers EXCEPT ![x] = 1]
      BY <1>18, <2>2 DEF Close
    <3> QED
      BY <1>18, <3>1, <3>2 DEF Close
  <2> QED
    BY <2>1, <2>2
<1>19. ASSUME NEW x \in Closer, CloseEnds(x) PROVE (Places /\ Locks)'
  BY <1>19 DEF CloseEnds
<1>20. ASSUME NEW l \in Sock, LoopStarts(l) PROVE (Places /\ Locks)'
  BY <1>20 DEF LoopStarts
<1>21. ASSUME NEW l \in Sock, LoopRanges(l) PROVE (Places /\ Locks)'
  BY <1>21 DEF LoopRanges
<1>22. ASSUME NEW l \in Sock, LoopReads(l) PROVE (Places /\ Locks)'
  BY <1>22 DEF LoopReads
<1>23. ASSUME NEW l \in Sock, LoopReadEnds(l) PROVE (Places /\ Locks)'
  BY <1>23 DEF LoopReadEnds
<1>24. ASSUME NEW l \in Sock, LoopEnds(l) PROVE (Places /\ Locks)'
  BY <1>24 DEF LoopEnds
<1>25. ASSUME NEW k \in Sock, RemoteDisconnects(k) PROVE (Places /\ Locks)'
  BY <1>25 DEF RemoteDisconnects
<1>26. ASSUME NEW k \in Sock, ReadloopCloses(k) PROVE (Places /\ Locks)'
  BY <1>26 DEF ReadloopCloses
<1>27. ASSUME NEW k \in Sock, NEW i \in Session, Reply(k, i) PROVE (Places /\ Locks)'
  BY <1>27 DEF Reply
<1>28. CASE UNCHANGED vars
  BY <1>28 DEF vars
<1> QED
  BY <1>1, <1>2, <1>3, <1>4, <1>5, <1>6, <1>7, <1>8, <1>9, <1>10, <1>11, <1>12, <1>13,
     <1>14, <1>15, <1>16, <1>17, <1>18, <1>19, <1>20, <1>21, <1>22, <1>23, <1>24, <1>25,
     <1>26, <1>27, <1>28
  DEF Next, Step, Locking, Reconnect, Call, Log, Loop, Connection

(***************************************************************************)
(* The sockets: only ReconnectDisposes raises the epoch, for the one socket *)
(* nobody has had, and it holds the mutex until ReconnectSwitches.         *)
(***************************************************************************)
LEMMA SocketsKeep == ServiceInv /\ [Next]_vars => Sockets'
<1> SUFFICES ASSUME ServiceInv, [Next]_vars PROVE Sockets'
  OBVIOUS
<1>0. LockTypes /\ SockTypes /\ Places /\ Locks /\ Sockets
  BY Types DEF ServiceInv, SessionInv, SocketInv, LockInv
<1> USE <1>0, GoroutineKinds DEF LockTypes, Place, SockTypes, Places, Locks, Sockets,
    Reconnecting, Goto, CanRLock, AfterReconnect, lockVars, sockVars, IsClosed
<1>1. ASSUME NEW g \in Goroutine, AnnounceLock(g) PROVE Sockets'
  BY <1>1 DEF AnnounceLock
<1>2. ASSUME NEW g \in Goroutine, AcquireLock(g) PROVE Sockets'
  BY <1>2 DEF AcquireLock
<1>3. ASSUME NEW g \in Caller \cup Forcer, ReconnectNotNeeded(g) PROVE Sockets'
  BY <1>3 DEF ReconnectNotNeeded
<1>4. ASSUME NEW g \in Caller \cup Forcer, ReconnectDisconnects(g) PROVE Sockets'
  BY <1>4 DEF ReconnectDisconnects
<1>5. ASSUME NEW g \in Caller \cup Forcer, ReconnectFails(g) PROVE Sockets'
  BY <1>5 DEF ReconnectFails
<1>6. ASSUME NEW g \in Caller \cup Forcer, ReconnectDisposes(g) PROVE Sockets'
  BY <1>6 DEF ReconnectDisposes
<1>7. ASSUME NEW g \in Caller \cup Forcer, ReconnectSwitches(g) PROVE Sockets'
  BY <1>7 DEF ReconnectSwitches
<1>8. ASSUME NEW g \in Caller \cup Forcer, ReconnectPanics(g) PROVE Sockets'
  BY <1>8 DEF ReconnectPanics
<1>9. ASSUME NEW c \in Caller, CallLooks(c) PROVE Sockets'
  BY <1>9 DEF CallLooks
<1>10. ASSUME NEW c \in Caller, CallRLocks(c) PROVE Sockets'
  BY <1>10 DEF CallRLocks
<1>11. ASSUME NEW c \in Caller, Attach(c) PROVE Sockets'
  BY <1>11 DEF Attach
<1>12. ASSUME NEW c \in Caller, SendMsg(c) PROVE Sockets'
  BY <1>12 DEF SendMsg
<1>13. ASSUME NEW c \in Caller, GetAnswer(c) PROVE Sockets'
  BY <1>13 DEF GetAnswer
<1>14. ASSUME NEW c \in Caller, TxCall(c) PROVE Sockets'
  BY <1>14 DEF TxCall
<1>15. ASSUME NEW c \in Caller, LogNext(c) PROVE Sockets'
  BY <1>15 DEF LogNext
<1>16. ASSUME NEW c \in Caller, LogSends(c) PROVE Sockets'
  BY <1>16 DEF LogSends
<1>17. ASSUME NEW f \in Forcer, ForceReconnect(f) PROVE Sockets'
  BY <1>17 DEF ForceReconnect
<1>18. ASSUME NEW x \in Closer, Close(x) PROVE Sockets'
  BY <1>18 DEF Close
<1>19. ASSUME NEW x \in Closer, CloseEnds(x) PROVE Sockets'
  BY <1>19 DEF CloseEnds
<1>20. ASSUME NEW l \in Sock, LoopStarts(l) PROVE Sockets'
  BY <1>20 DEF LoopStarts
<1>21. ASSUME NEW l \in Sock, LoopRanges(l) PROVE Sockets'
  BY <1>21 DEF LoopRanges
<1>22. ASSUME NEW l \in Sock, LoopReads(l) PROVE Sockets'
  BY <1>22 DEF LoopReads
<1>23. ASSUME NEW l \in Sock, LoopReadEnds(l) PROVE Sockets'
  BY <1>23 DEF LoopReadEnds
<1>24. ASSUME NEW l \in Sock, LoopEnds(l) PROVE Sockets'
  BY <1>24 DEF LoopEnds
<1>25. ASSUME NEW k \in Sock, RemoteDisconnects(k) PROVE Sockets'
  BY <1>25 DEF RemoteDisconnects
<1>26. ASSUME NEW k \in Sock, ReadloopCloses(k) PROVE Sockets'
  BY <1>26 DEF ReadloopCloses
<1>27. ASSUME NEW k \in Sock, NEW i \in Session, Reply(k, i) PROVE Sockets'
  BY <1>27 DEF Reply
<1>28. CASE UNCHANGED vars
  BY <1>28 DEF vars
<1> QED
  BY <1>1, <1>2, <1>3, <1>4, <1>5, <1>6, <1>7, <1>8, <1>9, <1>10, <1>11, <1>12, <1>13,
     <1>14, <1>15, <1>16, <1>17, <1>18, <1>19, <1>20, <1>21, <1>22, <1>23, <1>24, <1>25,
     <1>26, <1>27, <1>28
  DEF Next, Step, Locking, Reconnect, Call, Log, Loop, Connection

(***************************************************************************)
(* The loops: one is started for each socket the service gets; it leaves its *)
(* range when its socket is over, and a socket that is over stays so.      *)
(***************************************************************************)
LEMMA LoopsKeep == ServiceInv /\ [Next]_vars => Loops'
<1> SUFFICES ASSUME ServiceInv, [Next]_vars PROVE Loops'
  OBVIOUS
<1>0. LockTypes /\ SockTypes /\ Places /\ Locks /\ Sockets /\ Loops
  BY Types DEF ServiceInv, SessionInv, SocketInv, LockInv
<1> USE <1>0, GoroutineKinds DEF LockTypes, Place, SockTypes, Places, Locks, Sockets,
    Loops, Reconnecting, Goto, CanRLock, AfterReconnect, lockVars, sockVars,
    loopVars,IsClosed
<1>1. ASSUME NEW g \in Goroutine, AnnounceLock(g) PROVE Loops'
  BY <1>1 DEF AnnounceLock
<1>2. ASSUME NEW g \in Goroutine, AcquireLock(g) PROVE Loops'
  BY <1>2 DEF AcquireLock
<1>3. ASSUME NEW g \in Caller \cup Forcer, ReconnectNotNeeded(g) PROVE Loops'
  BY <1>3 DEF ReconnectNotNeeded
<1>4. ASSUME NEW g \in Caller \cup Forcer, ReconnectDisconnects(g) PROVE Loops'
  BY <1>4 DEF ReconnectDisconnects
<1>5. ASSUME NEW g \in Caller \cup Forcer, ReconnectFails(g) PROVE Loops'
  BY <1>5 DEF ReconnectFails
<1>6. ASSUME NEW g \in Caller \cup Forcer, ReconnectDisposes(g) PROVE Loops'
  <2>1. epoch = socketIO /\ epoch' = epoch + 1 /\ g \notin Sock
    BY <1>6 DEF ReconnectDisposes
  <2>2. \A k \in Sock : k <= socketIO /\ sock[k] \in {"eof", "closed"} =>
            sock'[k] \in {"eof", "closed"}
    BY <1>6, <2>1 DEF ReconnectDisposes
  <2>3. \A l \in Sock : pc'[l] = pc[l]
    BY <1>6, <2>1 DEF ReconnectDisposes
  <2> QED
    <3>1. UNCHANGED <<socketIO, loopVars>>
      BY <1>6 DEF ReconnectDisposes
    <3> HIDE DEF Places, Locks, Sockets
    <3> QED
      BY <2>1, <2>2, <2>3, <3>1
<1>7. ASSUME NEW g \in Caller \cup Forcer, ReconnectSwitches(g) PROVE Loops'
  <2>1. epoch = socketIO + 1 /\ socketIO' = epoch /\ g \notin Sock
    BY <1>7 DEF ReconnectSwitches
  <2>2. \A l \in Sock : pc'[l] = IF l = epoch THEN "start" ELSE pc[l]
    BY <1>7, <2>1 DEF ReconnectSwitches
  <2>3. UNCHANGED <<sock, loopVars>>
    BY <1>7 DEF ReconnectSwitches
  <2>4. socketIO \in Nat /\ epoch \in Nat /\ \A l \in Sock : loopSock[l] \in Nat
    OBVIOUS
  <2> HIDE <1>0 DEF Places, Locks, Sockets, LockTypes, SockTypes
  <2>5. Loops /\ Sock \subseteq Nat
    BY <1>0
  <2> QED
    BY <2>1, <2>2, <2>3, <2>4, <2>5
<1>8. ASSUME NEW g \in Caller \cup Forcer, ReconnectPanics(g) PROVE Loops'
  BY <1>8 DEF ReconnectPanics
<1>9. ASSUME NEW c \in Caller, CallLooks(c) PROVE Loops'
  BY <1>9 DEF CallLooks
<1>10. ASSUME NEW c \in Caller, CallRLocks(c) PROVE Loops'
  BY <1>10 DEF CallRLocks
<1>11. ASSUME NEW c \in Caller, Attach(c) PROVE Loops'
  BY <1>11 DEF Attach
<1>12. ASSUME NEW c \in Caller, SendMsg(c) PROVE Loops'
  BY <1>12 DEF SendMsg
<1>13. ASSUME NEW c \in Caller, GetAnswer(c) PROVE Loops'
  BY <1>13 DEF GetAnswer
<1>14. ASSUME NEW c \in Caller, TxCall(c) PROVE Loops'
  BY <1>14 DEF TxCall
<1>15. ASSUME NEW c \in Caller, LogNext(c) PROVE Loops'
  BY <1>15 DEF LogNext
<1>16. ASSUME NEW c \in Caller, LogSends(c) PROVE Loops'
  BY <1>16 DEF LogSends
<1>17. ASSUME NEW f \in Forcer, ForceReconnect(f) PROVE Loops'
  BY <1>17 DEF ForceReconnect
<1>18. ASSUME NEW x \in Closer, Close(x) PROVE Loops'
  <2>1. CASE stopClosed
    BY <1>18, <2>1 DEF Close
  <2>2. CASE ~stopClosed
    <3>1. pc' = [pc EXCEPT ![x] = "closing"] /\ x \notin Sock
          /\ UNCHANGED <<socketIO, loopVars>>
      BY <1>18, <2>2 DEF Close
    <3>2. \A k \in Sock : sock[k] \in {"eof", "closed"} => sock'[k] \in {"eof", "closed"}
      BY <1>18, <2>2 DEF Close
    <3>3. \A l \in Sock : pc'[l] = pc[l]
      BY <3>1
    <3> HIDE DEF Places, Locks, Sockets
    <3> QED
      BY <3>1, <3>2, <3>3
  <2> QED
    BY <2>1, <2>2
<1>19. ASSUME NEW x \in Closer, CloseEnds(x) PROVE Loops'
  BY <1>19 DEF CloseEnds
<1>20. ASSUME NEW l \in Sock, LoopStarts(l) PROVE Loops'
  BY <1>20 DEF LoopStarts
<1>21. ASSUME NEW l \in Sock, LoopRanges(l) PROVE Loops'
  BY <1>21 DEF LoopRanges
<1>22. ASSUME NEW l \in Sock, LoopReads(l) PROVE Loops'
  BY <1>22 DEF LoopReads
<1>23. ASSUME NEW l \in Sock, LoopReadEnds(l) PROVE Loops'
  BY <1>23 DEF LoopReadEnds
<1>24. ASSUME NEW l \in Sock, LoopEnds(l) PROVE Loops'
  BY <1>24 DEF LoopEnds
<1>25. ASSUME NEW k \in Sock, RemoteDisconnects(k) PROVE Loops'
  BY <1>25 DEF RemoteDisconnects
<1>26. ASSUME NEW k \in Sock, ReadloopCloses(k) PROVE Loops'
  BY <1>26 DEF ReadloopCloses
<1>27. ASSUME NEW k \in Sock, NEW i \in Session, Reply(k, i) PROVE Loops'
  BY <1>27 DEF Reply
<1>28. CASE UNCHANGED vars
  BY <1>28 DEF vars
<1> QED
  BY <1>1, <1>2, <1>3, <1>4, <1>5, <1>6, <1>7, <1>8, <1>9, <1>10, <1>11, <1>12, <1>13,
     <1>14, <1>15, <1>16, <1>17, <1>18, <1>19, <1>20, <1>21, <1>22, <1>23, <1>24, <1>25,
     <1>26, <1>27, <1>28
  DEF Next, Step, Locking, Reconnect, Call, Log, Loop, Connection

(***************************************************************************)
(* The types, part by part.                                                *)
(***************************************************************************)
LEMMA LockTypesKeep == ServiceInv /\ [Next]_vars => LockTypes'
<1> SUFFICES ASSUME ServiceInv, [Next]_vars PROVE LockTypes'
  OBVIOUS
<1>0. LockTypes /\ Places /\ Locks
  BY Types DEF ServiceInv, SessionInv, SocketInv, LockInv
<1> USE <1>0, GoroutineKinds DEF LockTypes, Place, Places, Locks, Reconnecting, Goto,
    CanRLock, AfterReconnect, lockVars, sockVars
<1>1. ASSUME NEW g \in Goroutine, AnnounceLock(g) PROVE LockTypes'
  BY <1>1 DEF AnnounceLock
<1>2. ASSUME NEW g \in Goroutine, AcquireLock(g) PROVE LockTypes'
  BY <1>2 DEF AcquireLock
<1>3. ASSUME NEW g \in Caller \cup Forcer, ReconnectNotNeeded(g) PROVE LockTypes'
  BY <1>3 DEF ReconnectNotNeeded
<1>4. ASSUME NEW g \in Caller \cup Forcer, ReconnectDisconnects(g) PROVE LockTypes'
  BY <1>4 DEF ReconnectDisconnects
<1>5. ASSUME NEW g \in Caller \cup Forcer, ReconnectFails(g) PROVE LockTypes'
  BY <1>5 DEF ReconnectFails
<1>6. ASSUME NEW g \in Caller \cup Forcer, ReconnectDisposes(g) PROVE LockTypes'
  BY <1>6, NextEpoch DEF ReconnectDisposes
<1>7. ASSUME NEW g \in Caller \cup Forcer, ReconnectSwitches(g) PROVE LockTypes'
  BY <1>7 DEF ReconnectSwitches
<1>8. ASSUME NEW g \in Caller \cup Forcer, ReconnectPanics(g) PROVE LockTypes'
  BY <1>8 DEF ReconnectPanics
<1>9. ASSUME NEW c \in Caller, CallLooks(c) PROVE LockTypes'
  BY <1>9 DEF CallLooks
<1>10. ASSUME NEW c \in Caller, CallRLocks(c) PROVE LockTypes'
  BY <1>10 DEF CallRLocks
<1>11. ASSUME NEW c \in Caller, Attach(c) PROVE LockTypes'
  BY <1>11 DEF Attach
<1>12. ASSUME NEW c \in Caller, SendMsg(c) PROVE LockTypes'
  BY <1>12 DEF SendMsg
<1>13. ASSUME NEW c \in Caller, GetAnswer(c) PROVE LockTypes'
  BY <1>13 DEF GetAnswer
<1>14. ASSUME NEW c \in Caller, TxCall(c) PROVE LockTypes'
  BY <1>14 DEF TxCall
<1>15. ASSUME NEW c \in Caller, LogNext(c) PROVE LockTypes'
  BY <1>15 DEF LogNext
<1>16. ASSUME NEW c \in Caller, LogSends(c) PROVE LockTypes'
  BY <1>16 DEF LogSends
<1>17. ASSUME NEW f \in Forcer, ForceReconnect(f) PROVE LockTypes'
  BY <1>17 DEF ForceReconnect
<1>18. ASSUME NEW x \in Closer, Close(x) PROVE LockTypes'
  BY <1>18 DEF Close
<1>19. ASSUME NEW x \in Closer, CloseEnds(x) PROVE LockTypes'
  BY <1>19 DEF CloseEnds
<1>20. ASSUME NEW l \in Sock, LoopStarts(l) PROVE LockTypes'
  BY <1>20 DEF LoopStarts
<1>21. ASSUME NEW l \in Sock, LoopRanges(l) PROVE LockTypes'
  BY <1>21 DEF LoopRanges
<1>22. ASSUME NEW l \in Sock, LoopReads(l) PROVE LockTypes'
  BY <1>22 DEF LoopReads
<1>23. ASSUME NEW l \in Sock, LoopReadEnds(l) PROVE LockTypes'
  BY <1>23 DEF LoopReadEnds
<1>24. ASSUME NEW l \in Sock, LoopEnds(l) PROVE LockTypes'
  BY <1>24 DEF LoopEnds
<1>25. ASSUME NEW k \in Sock, RemoteDisconnects(k) PROVE LockTypes'
  BY <1>25 DEF RemoteDisconnects
<1>26. ASSUME NEW k \in Sock, ReadloopCloses(k) PROVE LockTypes'
  BY <1>26 DEF ReadloopCloses
<1>27. ASSUME NEW k \in Sock, NEW i \in Session, Reply(k, i) PROVE LockTypes'
  BY <1>27 DEF Reply
<1>28. CASE UNCHANGED vars
  BY <1>28 DEF vars
<1> QED
  BY <1>1, <1>2, <1>3, <1>4, <1>5, <1>6, <1>7, <1>8, <1>9, <1>10, <1>11, <1>12, <1>13,
     <1>14, <1>15, <1>16, <1>17, <1>18, <1>19, <1>20, <1>21, <1>22, <1>23, <1>24, <1>25,
     <1>26, <1>27, <1>28
  DEF Next, Step, Locking, Reconnect, Call, Log, Loop, Connection

\* The types of the sockets and loops.
LEMMA SockTypesKeep == ServiceInv /\ [Next]_vars => SockTypes'
<1> SUFFICES ASSUME ServiceInv, [Next]_vars PROVE SockTypes'
  OBVIOUS
<1>0. LockTypes /\ SockTypes
  BY Types DEF ServiceInv, SessionInv, SocketInv, LockInv
<1> USE <1>0, GoroutineKinds DEF LockTypes, SockTypes, sockVars, loopVars
<1>1. CASE UNCHANGED <<sock, loopEpoch, loopSock>>
  <2>1. SockTypes
    BY <1>0
  <2> HIDE <1>0
  <2> QED
    BY <1>1, <2>1
<1>2. ASSUME NEW g \in Caller \cup Forcer, ReconnectDisposes(g) PROVE SockTypes'
  BY <1>2 DEF ReconnectDisposes
<1>3. ASSUME NEW x \in Closer, Close(x) PROVE SockTypes'
  BY <1>3 DEF Close
<1>4. ASSUME NEW x \in Closer, CloseEnds(x) PROVE SockTypes'
  BY <1>4 DEF CloseEnds
<1>5. ASSUME NEW l \in Sock, LoopStarts(l) PROVE SockTypes'
  BY <1>5 DEF LoopStarts
<1>6. ASSUME NEW l \in Sock, LoopRanges(l) PROVE SockTypes'
  BY <1>6 DEF LoopRanges
<1>7. ASSUME NEW k \in Sock, RemoteDisconnects(k) PROVE SockTypes'
  BY <1>7 DEF RemoteDisconnects
<1>8. ASSUME NEW k \in Sock, ReadloopCloses(k) PROVE SockTypes'
  BY <1>8 DEF ReadloopCloses
<1>9. ASSUME NEW g \in Goroutine,
             AnnounceLock(g) \/ AcquireLock(g) \/ ReconnectNotNeeded(g) \/
             ReconnectDisconnects(g) \/ ReconnectFails(g) \/ ReconnectSwitches(g) \/
             ReconnectPanics(g) \/ CallLooks(g) \/ CallRLocks(g) \/ Attach(g) \/
             SendMsg(g) \/ GetAnswer(g) \/ TxCall(g) \/ LogNext(g) \/ LogSends(g) \/
             ForceReconnect(g) \/ LoopReads(g) \/ LoopReadEnds(g) \/ LoopEnds(g)
      PROVE  UNCHANGED <<sock, loopEpoch, loopSock>>
  BY <1>9 DEF AnnounceLock, AcquireLock, ReconnectNotNeeded, ReconnectDisconnects, ReconnectFails,
        ReconnectSwitches, ReconnectPanics, CallLooks, CallRLocks, Attach, SendMsg,
        GetAnswer, TxCall, LogNext, LogSends, ForceReconnect, LoopReads, LoopReadEnds,
        LoopEnds, lockVars, sessionVars, txVars, sockVars, loopVars
<1>10. ASSUME NEW k \in Sock, NEW i \in Session, Reply(k, i)
      PROVE  UNCHANGED <<sock, loopEpoch, loopSock>>
  BY <1>10 DEF Reply, sessionVars, sockVars, loopVars
<1>11. CASE UNCHANGED vars
  BY <1>1, <1>11 DEF vars, sessionVars, sockVars, loopVars
<1> HIDE <1>0
<1>12. CASE Next
  BY <1>1, <1>2, <1>3, <1>4, <1>5, <1>6, <1>7, <1>8, <1>9, <1>10, <1>12, GoroutineKinds
  DEF Next, Step, Locking, Reconnect, Call, Log, Loop, Connection, Goroutine
<1> QED
  BY <1>11, <1>12

\* The types of the sessions; the bound is in the guards of Attach and LogNext.
LEMMA SessionTypesKeep == ServiceInv /\ [Next]_vars => SessionTypes'
<1> SUFFICES ASSUME ServiceInv, [Next]_vars PROVE SessionTypes'
  OBVIOUS
<1>0. LockTypes /\ SessionTypes /\ Numbers
  BY Types DEF ServiceInv, SessionInv, SocketInv, LockInv
<1> USE <1>0, GoroutineKinds DEF LockTypes, SessionTypes, Numbers, sessionVars, sockVars,
    txVars, PushDisconnectedError, Pushed
<1>1. CASE UNCHANGED <<counter, links, session, txDone, logs, strays, home, replied,
                       stopClosed, panicked>>
  <2>1. SessionTypes
    BY <1>0
  <2> HIDE <1>0
  <2> QED
    BY <1>1, <2>1
<1>2. ASSUME NEW g \in Caller \cup Forcer, ReconnectDisconnects(g) PROVE SessionTypes'
  BY <1>2 DEF ReconnectDisconnects
<1>3. ASSUME NEW g \in Caller \cup Forcer, ReconnectPanics(g) PROVE SessionTypes'
  BY <1>3 DEF ReconnectPanics
<1>4. ASSUME NEW c \in Caller, Attach(c) PROVE SessionTypes'
  BY <1>4, NextSession DEF Attach
<1>5. ASSUME NEW c \in Caller, SendMsg(c) PROVE SessionTypes'
  BY <1>5 DEF SendMsg
<1>6. ASSUME NEW c \in Caller, GetAnswer(c) PROVE SessionTypes'
  BY <1>6 DEF GetAnswer
<1>7. ASSUME NEW c \in Caller, TxCall(c) PROVE SessionTypes'
  BY <1>7 DEF TxCall
<1>8. ASSUME NEW c \in Caller, LogNext(c) PROVE SessionTypes'
  BY <1>8, NextSession DEF LogNext
<1>9. ASSUME NEW c \in Caller, LogSends(c) PROVE SessionTypes'
  BY <1>9 DEF LogSends
<1>10. ASSUME NEW x \in Closer, Close(x) PROVE SessionTypes'
  BY <1>10 DEF Close
<1>11. ASSUME NEW l \in Sock, LoopReads(l) PROVE SessionTypes'
  BY <1>11 DEF LoopReads
<1>12. ASSUME NEW l \in Sock, LoopEnds(l) PROVE SessionTypes'
  BY <1>12 DEF LoopEnds
<1>13. ASSUME NEW k \in Sock, NEW i \in Session, Reply(k, i) PROVE SessionTypes'
  BY <1>13 DEF Reply
<1> HIDE <1>0
<1> QED
  BY <1>1, <1>2, <1>3, <1>4, <1>5, <1>6, <1>7, <1>8, <1>9, <1>10, <1>11, <1>12, <1>13
  DEF Next, Step, Locking, Reconnect, Call, Log, Loop, Connection, AnnounceLock,
      AcquireLock, ReconnectNotNeeded, ReconnectFails, ReconnectDisposes,
      ReconnectSwitches, CallLooks, CallRLocks, ForceReconnect, CloseEnds, LoopStarts,
      LoopRanges, LoopReadEnds, RemoteDisconnects, ReadloopCloses, vars, lockVars,
      sessionVars, txVars, sockVars, loopVars

\* The types of the queues.
LEMMA QueueTypesKeep == ServiceInv /\ [Next]_vars => QueueTypes'
<1> SUFFICES ASSUME ServiceInv, [Next]_vars PROVE QueueTypes'
  OBVIOUS
<1>0. LockTypes /\ SockTypes /\ SessionTypes /\ QueueTypes /\ Numbers
  BY Types DEF ServiceInv, SessionInv, SocketInv, LockInv
<1> USE <1>0, GoroutineKinds DEF LockTypes, SockTypes, SessionTypes, QueueTypes, Numbers,
    sessionVars, sockVars, txVars
<1>1. CASE UNCHANGED <<answers, inbox, opened>>
  <2>1. QueueTypes
    BY <1>0
  <2> HIDE <1>0
  <2> QED
    BY <1>1, <2>1
<1>2. ASSUME NEW g \in Caller \cup Forcer, ReconnectDisconnects(g) PROVE QueueTypes'
  BY <1>2, DisconnectsAll DEF ReconnectDisconnects, Adds
<1>3. ASSUME NEW g \in Caller \cup Forcer, ReconnectDisposes(g) PROVE QueueTypes'
  BY <1>3 DEF ReconnectDisposes
<1>4. ASSUME NEW c \in Caller, SendMsg(c) PROVE QueueTypes'
  BY <1>4 DEF SendMsg
<1>5. ASSUME NEW c \in Caller, LogSends(c) PROVE QueueTypes'
  BY <1>5 DEF LogSends
<1>6. ASSUME NEW x \in Closer, Close(x) PROVE QueueTypes'
  <2>0. inbox' = inbox \/ inbox' = [inbox EXCEPT ![socketIO] = <<>>]
    BY <1>6 DEF Close
  <2>1. inbox \in [Sock -> Seq(Session)] /\ <<>> \in Seq(Session) /\ socketIO \in Sock
    BY EmptySeq
  <2> HIDE <1>0
  <2>2. inbox' \in [Sock -> Seq(Session)]
    BY <2>0, <2>1
  <2> QED
    BY <1>0, <1>6, <2>2 DEF Close
<1>7. ASSUME NEW l \in Sock, LoopReads(l) PROVE QueueTypes'
  <2> DEFINE q == inbox[loopSock[l]]
             r == [kind |-> "value", from |-> loopSock[l]]
  <2>1. q \in Seq(Session) /\ q # <<>> /\ r \in Result
    BY <1>7 DEF LoopReads, Result
  <2>2. Tail(q) \in Seq(Session) /\ Head(q) \in Session
    BY <2>1, HeadTailProperties, EmptySeq
  <2>3. inbox' \in [Sock -> Seq(Session)]
    BY <1>7, <2>2 DEF LoopReads
  <2>4. answers' \in [Session -> Seq(Result)]
    <3>1. CASE UNCHANGED answers
      BY <3>1
    <3>2. CASE Pushed(Head(q), r)
      BY <2>1, <2>2, <3>2, PushesOne DEF Pushed, Adds
    <3> QED
      BY <1>7, <3>1, <3>2 DEF LoopReads
  <2> QED
    BY <1>7, <2>3, <2>4 DEF LoopReads
<1>8. ASSUME NEW l \in Sock, LoopEnds(l) PROVE QueueTypes'
  BY <1>8, DisconnectsAll DEF LoopEnds, Adds
<1>9. ASSUME NEW k \in Sock, NEW i \in Session, Reply(k, i) PROVE QueueTypes'
  <2>1. inbox' = [inbox EXCEPT ![k] = Append(@, i)] /\ UNCHANGED <<answers, opened>>
    BY <1>9 DEF Reply
  <2>2. inbox \in [Sock -> Seq(Session)] /\ Append(inbox[k], i) \in Seq(Session)
    BY AppendProperties
  <2> HIDE <1>0
  <2>3. inbox' \in [Sock -> Seq(Session)]
    BY <2>1, <2>2
  <2> QED
    BY <1>0, <2>1, <2>3
<1> HIDE <1>0
<1> QED
  BY <1>1, <1>2, <1>3, <1>4, <1>5, <1>6, <1>7, <1>8, <1>9
  DEF Next, Step, Locking, Reconnect, Call, Log, Loop, Connection, AnnounceLock,
      AcquireLock, ReconnectNotNeeded, ReconnectFails, ReconnectSwitches, ReconnectPanics,
      CallLooks, CallRLocks, Attach, GetAnswer, TxCall, LogNext, ForceReconnect, CloseEnds,
      LoopStarts, LoopRanges, LoopReadEnds, RemoteDisconnects, ReadloopCloses, vars,
      lockVars, sessionVars, txVars, sockVars, loopVars

\* A step that sends nothing, takes no number and attaches nobody.
Quiet ==
    /\ \A c \in Caller :
        /\ pc'[c] = "send" <=> pc[c] = "send"
        /\ pc'[c] = "log" <=> pc[c] = "log"
        /\ pc'[c] = "get" => pc[c] = "get"
    /\ UNCHANGED <<counter, session, logs, home, opened>>
    /\ links' \subseteq links
    /\ \A g \in Goroutine : pc'[g] \in {"resolve", "switch"} =>
        pc[g] \in {"resolve", "switch"} \/ links' = {}
    /\ socketIO' = socketIO \/ (links = {} /\ socketIO' = socketIO + 1)

(***************************************************************************)
(* All steps but four are quiet; the four are those of Attach,             *)
(* sendMsg and the log.                                                    *)
(***************************************************************************)
LEMMA MostAreQuiet ==
    ServiceInv /\ [Next]_vars =>
        Quiet \/ \E c \in Caller : Attach(c) \/ SendMsg(c) \/ LogNext(c) \/ LogSends(c)
<1> SUFFICES ASSUME ServiceInv, [Next]_vars
             PROVE  Quiet \/ \E c \in Caller : Attach(c) \/ SendMsg(c) \/ LogNext(c) \/ LogSends(c)
  OBVIOUS
<1>0. LockTypes /\ Places /\ Sockets /\ Told
  BY Types DEF ServiceInv, SessionInv, SocketInv, LockInv
<1> USE <1>0, GoroutineKinds DEF LockTypes, Places, Reconnecting, Goto, AfterReconnect,
    sessionVars, txVars, sockVars, PushDisconnectedError, Pushed, Quiet
<1>1. ASSUME NEW g \in Goroutine, AnnounceLock(g) PROVE Quiet
  BY <1>1 DEF AnnounceLock
<1>2. ASSUME NEW g \in Goroutine, AcquireLock(g) PROVE Quiet
  BY <1>2 DEF AcquireLock
<1>3. ASSUME NEW g \in Caller \cup Forcer, ReconnectNotNeeded(g) PROVE Quiet
  BY <1>3 DEF ReconnectNotNeeded
<1>4. ASSUME NEW g \in Caller \cup Forcer, ReconnectDisconnects(g) PROVE Quiet
  BY <1>4 DEF ReconnectDisconnects
<1>5. ASSUME NEW g \in Caller \cup Forcer, ReconnectFails(g) PROVE Quiet
  BY <1>5 DEF ReconnectFails
<1>6. ASSUME NEW g \in Caller \cup Forcer, ReconnectDisposes(g) PROVE Quiet
  BY <1>6 DEF ReconnectDisposes
<1>7. ASSUME NEW g \in Caller \cup Forcer, ReconnectSwitches(g) PROVE Quiet
  <2>1. links = {} /\ socketIO' = socketIO + 1
    BY <1>7 DEF ReconnectSwitches, Sockets, Told
  <2> QED
    BY <1>7, <2>1 DEF ReconnectSwitches
<1>8. ASSUME NEW g \in Caller \cup Forcer, ReconnectPanics(g) PROVE Quiet
  BY <1>8 DEF ReconnectPanics
<1>9. ASSUME NEW c \in Caller, CallLooks(c) PROVE Quiet
  BY <1>9 DEF CallLooks
<1>10. ASSUME NEW c \in Caller, CallRLocks(c) PROVE Quiet
  BY <1>10 DEF CallRLocks
<1>11. ASSUME NEW c \in Caller, GetAnswer(c) PROVE Quiet
  BY <1>11 DEF GetAnswer
<1>12. ASSUME NEW c \in Caller, TxCall(c) PROVE Quiet
  BY <1>12 DEF TxCall
<1>13. ASSUME NEW f \in Forcer, ForceReconnect(f) PROVE Quiet
  BY <1>13 DEF ForceReconnect
<1>14. ASSUME NEW x \in Closer, Close(x) PROVE Quiet
  BY <1>14 DEF Close
<1>15. ASSUME NEW x \in Closer, CloseEnds(x) PROVE Quiet
  BY <1>15 DEF CloseEnds
<1>16. ASSUME NEW l \in Sock, LoopStarts(l) PROVE Quiet
  BY <1>16 DEF LoopStarts
<1>17. ASSUME NEW l \in Sock, LoopRanges(l) PROVE Quiet
  BY <1>17 DEF LoopRanges
<1>18. ASSUME NEW l \in Sock, LoopReads(l) PROVE Quiet
  BY <1>18 DEF LoopReads
<1>19. ASSUME NEW l \in Sock, LoopReadEnds(l) PROVE Quiet
  BY <1>19 DEF LoopReadEnds
<1>20. ASSUME NEW l \in Sock, LoopEnds(l) PROVE Quiet
  BY <1>20 DEF LoopEnds
<1>21. ASSUME NEW k \in Sock, RemoteDisconnects(k) PROVE Quiet
  BY <1>21 DEF RemoteDisconnects
<1>22. ASSUME NEW k \in Sock, ReadloopCloses(k) PROVE Quiet
  BY <1>22 DEF ReadloopCloses
<1>23. ASSUME NEW k \in Sock, NEW i \in Session, Reply(k, i) PROVE Quiet
  BY <1>23 DEF Reply
<1>24. ASSUME UNCHANGED vars PROVE Quiet
  BY <1>24 DEF vars
<1> HIDE <1>0 DEF Quiet
<1> QED
  BY <1>1, <1>2, <1>3, <1>4, <1>5, <1>6, <1>7, <1>8, <1>9, <1>10, <1>11, <1>12, <1>13,
     <1>14, <1>15, <1>16, <1>17, <1>18, <1>19, <1>20, <1>21, <1>22, <1>23, <1>24
  DEF Next, Step, Locking, Reconnect, Call, Log, Loop, Connection

(***************************************************************************)
(* A channel keeps what it holds, and a session that leaves the map has its *)
(* end in its channel.                                                     *)
(***************************************************************************)
LEMMA Answered ==
    ServiceInv /\ [Next]_vars =>
        \A i \in Session : answers[i] # <<>> \/ (i \in links /\ i \notin links') =>
            answers'[i] # <<>>
<1> DEFINE Goal == \A i \in Session : answers[i] # <<>> \/ (i \in links
    /\ i \notin links') =>
                        answers'[i] # <<>>
<1> SUFFICES ASSUME ServiceInv, [Next]_vars PROVE Goal
  OBVIOUS
<1>0. QueueTypes /\ SockTypes /\ links \subseteq Session
  BY Types DEF ServiceInv, SessionInv, SocketInv, LockInv, SessionTypes
<1>1. ASSUME UNCHANGED answers, links \subseteq links' PROVE Goal
  BY <1>1
<1>2. ASSUME NEW g \in Goroutine, PushDisconnectedError(g) PROVE Goal
  BY <1>0, <1>2, DisconnectsAll DEF QueueTypes, Adds
<1>3. ASSUME NEW l \in Sock, LoopReads(l) PROVE Goal
  <2> DEFINE q == inbox[loopSock[l]]
             r == [kind |-> "value", from |-> loopSock[l]]
  <2>1. q \in Seq(Session) /\ q # <<>> /\ r \in Result
    BY <1>0, <1>3 DEF LoopReads, Result, QueueTypes, SockTypes
  <2>2. Head(q) \in Session
    BY <2>1, HeadTailProperties, EmptySeq
  <2>3. CASE Pushed(Head(q), r)
    <3>1. answers' = [answers EXCEPT ![Head(q)] = Append(@, r)]
          /\ links' = links \ {Head(q)}
      BY <2>3 DEF Pushed
    <3>2. Adds({Head(q)}, r)
      <4> HIDE DEF q, r
      <4> QED
        BY <1>0, <2>1, <2>2, <3>1, PushesOne DEF QueueTypes
    <3> QED
      BY <3>1, <3>2 DEF Adds
  <2>4. CASE UNCHANGED <<answers, links>>
    BY <2>4, <1>1
  <2> QED
    BY <1>3, <2>3, <2>4 DEF LoopReads
<1> HIDE DEF Goal
<1> QED
  BY <1>1, <1>2, <1>3
  DEF Next, Step, Locking, Reconnect, Call, Log, Loop, Connection, AnnounceLock,
      AcquireLock,
      ReconnectNotNeeded, ReconnectDisconnects, ReconnectFails, ReconnectDisposes,
      ReconnectSwitches, ReconnectPanics, CallLooks, CallRLocks, Attach, SendMsg, GetAnswer,
      TxCall, LogNext, LogSends, ForceReconnect, Close, CloseEnds, LoopStarts, LoopRanges,
      LoopReadEnds, LoopEnds, RemoteDisconnects, ReadloopCloses, Reply, vars, lockVars,
      sessionVars, txVars, sockVars, loopVars

(***************************************************************************)
(* The numbers: each is given once, to one goroutine, whether sessions.Attach *)
(* or the log takes it.                                                    *)
(***************************************************************************)
LEMMA NumbersKeep == ServiceInv /\ [Next]_vars => Numbers'
<1> SUFFICES ASSUME ServiceInv, [Next]_vars PROVE Numbers'
  OBVIOUS
<1>0. LockTypes /\ SessionTypes /\ QueueTypes /\ Places /\ Locks /\ Numbers
  BY Types DEF ServiceInv, SessionInv, SocketInv, LockInv
<1> USE <1>0, GoroutineKinds DEF LockTypes, SessionTypes, Places, Locks, Numbers,
    Reconnecting, Goto, CanRLock, AfterReconnect, lockVars, sessionVars, sockVars, txVars
<1>00. counter \in Nat /\ Session \subseteq Nat
  BY ServiceAssumption DEF Session
<1> USE <1>00
<1>1. CASE Quiet
  <2>1. Numbers
    BY <1>0
  <2> HIDE <1>0 DEF Places, Locks, LockTypes, SessionTypes
  <2>2. UNCHANGED <<counter, session, logs>> /\ links' \subseteq links
    BY <1>1 DEF Quiet
  <2>3. \A c \in Caller : /\ pc'[c] \in {"send", "get", "log"} => pc[c] \in {"send", "get", "log"}
                          /\ pc'[c] = "send" => pc[c] = "send"
                          /\ pc'[c] = "log" => pc[c] = "log"
    BY <1>1 DEF Quiet
  <2> HIDE <1>0, <1>00 DEF Places, Locks, LockTypes, SessionTypes, Numbers
  <2>4. \A c \in Caller : pc'[c] \in {"send", "get", "log"} =>
            /\ session'[c] \in Session /\ session'[c] <= counter'
            /\ \A d \in Caller :
                pc'[d] \in {"send", "get", "log"} /\ session'[d] = session'[c] => d = c
    BY <2>1, <2>2, <2>3 DEF Numbers
  <2>5. /\ \A c \in Caller : pc'[c] = "send" => session'[c] \notin logs'
        /\ \A c \in Caller : pc'[c] = "log" => session'[c] \in logs'
        /\ \A i \in links' \cup logs' : i <= counter'
    BY <2>1, <2>2, <2>3 DEF Numbers
  <2> QED
    BY <2>4, <2>5 DEF Numbers
<1>2. ASSUME NEW c \in Caller, Attach(c) PROVE Numbers'
  <2> DEFINE new == counter + 1
  <2>1. new \in Session /\ counter' = new /\ new > counter
    BY <1>2, NextSession DEF Attach
  <2>2. \A d \in Caller : d # c => pc'[d] = pc[d] /\ session'[d] = session[d]
    BY <1>2 DEF Attach
  <2>3. pc'[c] = "send" /\ session'[c] = new
    BY <1>2 DEF Attach
  <2>4. links' = links \cup {new} /\ logs' = logs
    BY <1>2 DEF Attach
  <2> HIDE <1>0 DEF new
  <2>5. Numbers /\ logs \subseteq Session /\ links \subseteq Session
    BY <1>0
  <2> HIDE DEF Places, Locks
  <2>6. ASSUME NEW a \in Caller, pc'[a] \in {"send", "get", "log"}
        PROVE  /\ session'[a] \in Session /\ session'[a] <= counter'
               /\ a # c => session'[a] <= counter
    <3>1. CASE a = c
      BY <1>00, <2>1, <2>3, <3>1
    <3>2. CASE a # c
      <4>1. pc[a] \in {"send", "get", "log"} /\ session'[a] = session[a]
        BY <2>2, <2>6, <3>2
      <4>2. session[a] \in Session /\ session[a] <= counter
        BY <2>5, <4>1
      <4> QED
        <5>1. session[a] \in Nat /\ counter \in Nat /\ counter' = counter + 1
          BY <1>00, <2>1, <4>2 DEF new
        <5> HIDE DEF Numbers
        <5> QED
          BY <3>2, <4>1, <4>2, <5>1
    <3> QED
      BY <3>1, <3>2
  <2>7. ASSUME NEW a \in Caller, NEW b \in Caller, session'[a] = session'[b],
               pc'[a] \in {"send", "get", "log"}, pc'[b] \in {"send", "get", "log"}
        PROVE  a = b
    BY <2>1, <2>2, <2>3, <2>5, <2>6, <2>7
  <2>8. ASSUME NEW a \in Caller
        PROVE  /\ pc'[a] = "send" => session'[a] \notin logs'
               /\ pc'[a] = "log" => session'[a] \in logs'
    BY <2>1, <2>2, <2>3, <2>4, <2>5, <2>6
  <2>9. \A i \in links' \cup logs' : i <= counter'
    BY <2>1, <2>4, <2>5
  <2> QED
    BY <2>6, <2>7, <2>8, <2>9
<1>3. ASSUME NEW c \in Caller, SendMsg(c) PROVE Numbers'
  <2>3. \A d \in Caller : /\ pc'[d] \in {"send", "get", "log"} => pc[d] \in {"send", "get", "log"}
                          /\ pc'[d] = "send" => pc[d] = "send"
                          /\ pc'[d] = "log" => pc[d] = "log"
    BY <1>3 DEF SendMsg
  <2>2. UNCHANGED <<counter, session, logs, links>>
    BY <1>3 DEF SendMsg
  <2>1. Numbers
    BY <1>0
  <2> HIDE <1>0, <1>00 DEF Places, Locks, LockTypes, SessionTypes, Numbers
  <2>4. \A e \in Caller : pc'[e] \in {"send", "get", "log"} =>
            /\ session'[e] \in Session /\ session'[e] <= counter'
            /\ \A d \in Caller :
                pc'[d] \in {"send", "get", "log"} /\ session'[d] = session'[e] => d = e
    BY <2>1, <2>2, <2>3 DEF Numbers
  <2>5. /\ \A e \in Caller : pc'[e] = "send" => session'[e] \notin logs'
        /\ \A e \in Caller : pc'[e] = "log" => session'[e] \in logs'
        /\ \A i \in links' \cup logs' : i <= counter'
    BY <2>1, <2>2, <2>3 DEF Numbers
  <2> QED
    BY <2>4, <2>5 DEF Numbers
<1>4. ASSUME NEW c \in Caller, LogNext(c) PROVE Numbers'
  <2> DEFINE new == counter + 1
  <2>1. new \in Session /\ counter' = new /\ new > counter
    BY <1>4, NextSession DEF LogNext
  <2>2. \A d \in Caller : d # c => pc'[d] = pc[d] /\ session'[d] = session[d]
    BY <1>4 DEF LogNext
  <2>3. pc'[c] = "log" /\ session'[c] = new
    BY <1>4 DEF LogNext
  <2>4. links' = links /\ logs' = logs \cup {new}
    BY <1>4 DEF LogNext
  <2> HIDE <1>0 DEF new
  <2>5. Numbers /\ logs \subseteq Session /\ links \subseteq Session
    BY <1>0
  <2> HIDE DEF Places, Locks
  <2>6. ASSUME NEW a \in Caller, pc'[a] \in {"send", "get", "log"}
        PROVE  /\ session'[a] \in Session /\ session'[a] <= counter'
               /\ a # c => session'[a] <= counter
    <3>1. CASE a = c
      BY <1>00, <2>1, <2>3, <3>1
    <3>2. CASE a # c
      <4>1. pc[a] \in {"send", "get", "log"} /\ session'[a] = session[a]
        BY <2>2, <2>6, <3>2
      <4>2. session[a] \in Session /\ session[a] <= counter
        BY <2>5, <4>1
      <4> QED
        <5>1. session[a] \in Nat /\ counter \in Nat /\ counter' = counter + 1
          BY <1>00, <2>1, <4>2 DEF new
        <5> HIDE DEF Numbers
        <5> QED
          BY <3>2, <4>1, <4>2, <5>1
    <3> QED
      BY <3>1, <3>2
  <2>7. ASSUME NEW a \in Caller, NEW b \in Caller, session'[a] = session'[b],
               pc'[a] \in {"send", "get", "log"}, pc'[b] \in {"send", "get", "log"}
        PROVE  a = b
    BY <2>1, <2>2, <2>3, <2>5, <2>6, <2>7
  <2>8. ASSUME NEW a \in Caller
        PROVE  /\ pc'[a] = "send" => session'[a] \notin logs'
               /\ pc'[a] = "log" => session'[a] \in logs'
    BY <2>1, <2>2, <2>3, <2>4, <2>5, <2>6
  <2>9. \A i \in links' \cup logs' : i <= counter'
    BY <2>1, <2>4, <2>5
  <2> QED
    BY <2>6, <2>7, <2>8, <2>9
<1>5. ASSUME NEW c \in Caller, LogSends(c) PROVE Numbers'
  <2>3. \A d \in Caller : /\ pc'[d] \in {"send", "get", "log"} => pc[d] \in {"send", "get", "log"}
                          /\ pc'[d] = "send" => pc[d] = "send"
                          /\ pc'[d] = "log" => pc[d] = "log"
    BY <1>5 DEF LogSends
  <2>2. UNCHANGED <<counter, session, logs, links>>
    BY <1>5 DEF LogSends
  <2>1. Numbers
    BY <1>0
  <2> HIDE <1>0, <1>00 DEF Places, Locks, LockTypes, SessionTypes, Numbers
  <2>4. \A e \in Caller : pc'[e] \in {"send", "get", "log"} =>
            /\ session'[e] \in Session /\ session'[e] <= counter'
            /\ \A d \in Caller :
                pc'[d] \in {"send", "get", "log"} /\ session'[d] = session'[e] => d = e
    BY <2>1, <2>2, <2>3 DEF Numbers
  <2>5. /\ \A e \in Caller : pc'[e] = "send" => session'[e] \notin logs'
        /\ \A e \in Caller : pc'[e] = "log" => session'[e] \in logs'
        /\ \A i \in links' \cup logs' : i <= counter'
    BY <2>1, <2>2, <2>3 DEF Numbers
  <2> QED
    BY <2>4, <2>5 DEF Numbers
<1> HIDE <1>0
<1> QED
  BY <1>1, <1>2, <1>3, <1>4, <1>5, MostAreQuiet

(***************************************************************************)
(* The homes: a session's message is sent once, so that a socket's openings *)
(* stay at home whatever a reconnection does.                              *)
(***************************************************************************)
LEMMA HomesKeep == ServiceInv /\ [Next]_vars => Homes'
<1> SUFFICES ASSUME ServiceInv, [Next]_vars PROVE Homes'
  OBVIOUS
<1>0. LockTypes /\ SessionTypes /\ QueueTypes /\ Places /\ Locks /\ Numbers /\ Homes
  BY Types DEF ServiceInv, SessionInv, SocketInv, LockInv
<1> USE <1>0, GoroutineKinds DEF LockTypes, SessionTypes, Places, Locks, Numbers,
    Reconnecting, Goto, CanRLock, AfterReconnect, lockVars, sessionVars, sockVars, txVars,
    QueueTypes, Homes
<1>00. counter \in Nat /\ Session \subseteq Nat
  BY ServiceAssumption DEF Session
<1> USE <1>00
<1>1. CASE Quiet
  <2>1. Homes /\ socketIO \in Nat /\ \A i \in Session : home[i] \in Nat \cup {None}
    BY <1>0
  <2>2. \A c \in Caller : pc'[c] \in {"send", "log", "get"} => pc'[c] = pc[c]
    BY <1>1 DEF Quiet
  <2>3. UNCHANGED <<counter, session, home, opened>>
        /\ (socketIO' = socketIO \/ socketIO' = socketIO + 1)
    BY <1>1 DEF Quiet
  <2> HIDE <1>0 DEF Places, Locks, LockTypes, SessionTypes, QueueTypes, Numbers
  <2>4. ASSUME NEW i \in Session, home[i] # None PROVE home[i] <= socketIO'
    <3>1. home[i] \in Nat /\ home[i] <= socketIO
      BY <2>1, <2>4
    <3> HIDE DEF Homes
    <3> QED
      BY <2>1, <2>3, <3>1
  <2> QED
    BY <2>1, <2>2, <2>3, <2>4
<1>2. ASSUME NEW c \in Caller, Attach(c) PROVE Homes'
  <2> DEFINE new == counter + 1
  <2>1. new \in Session /\ counter' = new /\ home[new] = None
    BY <1>2, NextSession DEF Attach
  <2>2. \A d \in Caller : d # c => pc'[d] = pc[d] /\ session'[d] = session[d]
    BY <1>2 DEF Attach
  <2>3. pc'[c] = "send" /\ session'[c] = new /\ UNCHANGED <<home, opened, socketIO>>
        /\ Homes
    BY <1>2 DEF Attach
  <2>4. \A i \in Session : i > counter' => i > counter
    BY <2>1
  <2> HIDE <1>0 DEF new, Places, Locks, LockTypes, SessionTypes, QueueTypes, Numbers
  <2>5. \A a \in Caller : /\ pc'[a] \in {"send", "log"} => home[session'[a]] = None
                          /\ pc'[a] = "get" => home[session'[a]] \in Sock
    BY <2>1, <2>2, <2>3
  <2> QED
    BY <2>3, <2>4, <2>5
<1>3. ASSUME NEW c \in Caller, SendMsg(c) PROVE Homes'
  <2> DEFINE s == session[c]
  <2>1. s \in Session /\ s <= counter /\ home[s] = None
    BY <1>3 DEF SendMsg
  <2>2. home' = [home EXCEPT ![s] = socketIO] /\ UNCHANGED <<counter, session, socketIO>>
    BY <1>3 DEF SendMsg
  <2>3. pc'[c] = "get" /\ \A d \in Caller : d # c => pc'[d] = pc[d]
    BY <1>3 DEF SendMsg
  <2>4. \A d \in Caller : d # c /\ pc[d] \in {"send", "get", "log"} =>
            session[d] # s /\ session[d] \in Session
    BY <1>3 DEF SendMsg
  <2>5. \A i \in Session : home'[i] = IF i = s THEN socketIO ELSE home[i]
    BY <2>1, <2>2
  <2>6. /\ opened \in [Sock -> Seq(Session)] /\ Homes /\ socketIO \in Sock
        /\ socketIO \in Nat
        /\ opened' \in {opened, [opened EXCEPT ![socketIO] = Append(@, s)]} /\ s \in Nat
    BY <1>3, <2>1 DEF SendMsg
  <2> HIDE <1>0 DEF s, Places, Locks, LockTypes, SessionTypes, QueueTypes, Numbers
  <2>7. \A a \in Caller : /\ pc'[a] \in {"send", "log"} => home'[session[a]] = None
                          /\ pc'[a] = "get" => home'[session[a]] \in Sock
    <3> TAKE a \in Caller
    <3>1. CASE a = c
      BY <2>1, <2>3, <2>5, <2>6, <3>1 DEF s
    <3>2. CASE a # c
      <4>1. pc'[a] = pc[a]
        BY <2>3, <3>2
      <4>2. pc[a] \in {"send", "get", "log"} => home'[session[a]] = home[session[a]]
        BY <2>4, <2>5, <3>2
      <4> QED
        BY <2>6, <4>1, <4>2
    <3> QED
      BY <3>1, <3>2
  <2>8. \A i \in Session : i > counter => home'[i] = None
    <3> TAKE i \in Session
    <3>1. i > counter => i # s
      <4>1. i \in Nat
        BY <1>00
      <4> HIDE DEF Homes
      <4> QED
        BY <1>00, <2>1, <2>6, <4>1
    <3> QED
      BY <2>5, <2>6, <3>1
  <2>9. \A i \in Session : home'[i] # None => home'[i] <= socketIO
    <3> TAKE i \in Session
    <3>1. home[i] # None => home[i] <= socketIO
      BY <2>6
    <3> HIDE DEF Homes
    <3> QED
      BY <2>5, <2>6, <3>1
  <2>10. ASSUME NEW k \in Sock, NEW n \in 1..Len(opened'[k]) PROVE home'[opened'[k][n]] = k
    <3>1. \A j \in 1..Len(opened[k]) : home'[opened[k][j]] = k
      <4> TAKE j \in 1..Len(opened[k])
      <4>1. home[opened[k][j]] = k /\ opened[k][j] \in Session
        BY <2>6, ElementOfSeq
      <4>2. k # None
        BY GoroutineKinds
      <4> HIDE DEF Homes
      <4> QED
        BY <2>1, <2>5, <4>1, <4>2
    <3>2. CASE opened'[k] = opened[k]
      BY <3>1, <3>2
    <3>3. CASE opened'[k] = Append(opened[k], s) /\ k = socketIO
      <4>1. opened[k] \in Seq(Session) /\ home'[s] = k
        BY <2>1, <2>5, <2>6, <3>3
      <4> HIDE DEF Homes
      <4> QED
        BY <2>1, <3>1, <3>3, <4>1, Grows
    <3>4. \/ opened'[k] = opened[k]
          \/ opened'[k] = Append(opened[k], s) /\ k = socketIO
      <4> HIDE DEF Homes
      <4> QED
        BY <2>6
    <3> QED
      BY <3>2, <3>3, <3>4
  <2> QED
    BY <2>2, <2>7, <2>8, <2>9, <2>10
<1>4. ASSUME NEW c \in Caller, LogNext(c) PROVE Homes'
  <2> DEFINE new == counter + 1
  <2>1. new \in Session /\ counter' = new /\ home[new] = None
    BY <1>4, NextSession DEF LogNext
  <2>2. \A d \in Caller : d # c => pc'[d] = pc[d] /\ session'[d] = session[d]
    BY <1>4 DEF LogNext
  <2>3. pc'[c] = "log" /\ session'[c] = new /\ UNCHANGED <<home, opened, socketIO>> /\ Homes
    BY <1>4 DEF LogNext
  <2>4. \A i \in Session : i > counter' => i > counter
    BY <2>1
  <2> HIDE <1>0 DEF new, Places, Locks, LockTypes, SessionTypes, QueueTypes, Numbers
  <2>5. \A a \in Caller : /\ pc'[a] \in {"send", "log"} => home[session'[a]] = None
                          /\ pc'[a] = "get" => home[session'[a]] \in Sock
    BY <2>1, <2>2, <2>3
  <2> QED
    BY <2>3, <2>4, <2>5
<1>5. ASSUME NEW c \in Caller, LogSends(c) PROVE Homes'
  <2> DEFINE s == session[c]
  <2>1. s \in Session /\ s <= counter /\ home[s] = None
    BY <1>5 DEF LogSends
  <2>2. home' = [home EXCEPT ![s] = socketIO] /\ UNCHANGED <<counter, session, socketIO>>
    BY <1>5 DEF LogSends
  <2>3. pc'[c] = "done" /\ \A d \in Caller : d # c => pc'[d] = pc[d]
    BY <1>5 DEF LogSends
  <2>4. \A d \in Caller : d # c /\ pc[d] \in {"send", "get", "log"} =>
            session[d] # s /\ session[d] \in Session
    BY <1>5 DEF LogSends
  <2>5. \A i \in Session : home'[i] = IF i = s THEN socketIO ELSE home[i]
    BY <2>1, <2>2
  <2>6. /\ opened \in [Sock -> Seq(Session)] /\ Homes /\ socketIO \in Sock
        /\ socketIO \in Nat
        /\ opened' \in {opened, [opened EXCEPT ![socketIO] = Append(@, s)]} /\ s \in Nat
    BY <1>5, <2>1 DEF LogSends
  <2> HIDE <1>0 DEF s, Places, Locks, LockTypes, SessionTypes, QueueTypes, Numbers
  <2>7. \A a \in Caller : /\ pc'[a] \in {"send", "log"} => home'[session[a]] = None
                          /\ pc'[a] = "get" => home'[session[a]] \in Sock
    <3> TAKE a \in Caller
    <3>1. CASE a = c
      BY <2>1, <2>3, <2>5, <2>6, <3>1 DEF s
    <3>2. CASE a # c
      <4>1. pc'[a] = pc[a]
        BY <2>3, <3>2
      <4>2. pc[a] \in {"send", "get", "log"} => home'[session[a]] = home[session[a]]
        BY <2>4, <2>5, <3>2
      <4> QED
        BY <2>6, <4>1, <4>2
    <3> QED
      BY <3>1, <3>2
  <2>8. \A i \in Session : i > counter => home'[i] = None
    <3> TAKE i \in Session
    <3>1. i > counter => i # s
      <4>1. i \in Nat
        BY <1>00
      <4> HIDE DEF Homes
      <4> QED
        BY <1>00, <2>1, <2>6, <4>1
    <3> QED
      BY <2>5, <2>6, <3>1
  <2>9. \A i \in Session : home'[i] # None => home'[i] <= socketIO
    <3> TAKE i \in Session
    <3>1. home[i] # None => home[i] <= socketIO
      BY <2>6
    <3> HIDE DEF Homes
    <3> QED
      BY <2>5, <2>6, <3>1
  <2>10. ASSUME NEW k \in Sock, NEW n \in 1..Len(opened'[k]) PROVE home'[opened'[k][n]] = k
    <3>1. \A j \in 1..Len(opened[k]) : home'[opened[k][j]] = k
      <4> TAKE j \in 1..Len(opened[k])
      <4>1. home[opened[k][j]] = k /\ opened[k][j] \in Session
        BY <2>6, ElementOfSeq
      <4>2. k # None
        BY GoroutineKinds
      <4> HIDE DEF Homes
      <4> QED
        BY <2>1, <2>5, <4>1, <4>2
    <3>2. CASE opened'[k] = opened[k]
      BY <3>1, <3>2
    <3>3. CASE opened'[k] = Append(opened[k], s) /\ k = socketIO
      <4>1. opened[k] \in Seq(Session) /\ home'[s] = k
        BY <2>1, <2>5, <2>6, <3>3
      <4> HIDE DEF Homes
      <4> QED
        BY <2>1, <3>1, <3>3, <4>1, Grows
    <3>4. \/ opened'[k] = opened[k]
          \/ opened'[k] = Append(opened[k], s) /\ k = socketIO
      <4> HIDE DEF Homes
      <4> QED
        BY <2>6
    <3> QED
      BY <3>2, <3>3, <3>4
  <2> QED
    BY <2>2, <2>7, <2>8, <2>9, <2>10
<1> HIDE <1>0
<1> QED
  BY <1>1, <1>2, <1>3, <1>4, <1>5, MostAreQuiet

(***************************************************************************)
(* So do the replies a socket has read.                                    *)
(***************************************************************************)
LEMMA InboxesKeep == ServiceInv /\ [Next]_vars => Inboxes'
<1> SUFFICES ASSUME ServiceInv, [Next]_vars PROVE Inboxes'
  OBVIOUS
<1>0. LockTypes /\ SockTypes /\ SessionTypes /\ QueueTypes /\ Numbers /\ Homes /\ Inboxes
  BY Types DEF ServiceInv, SessionInv, SocketInv, LockInv
<1>1. CASE UNCHANGED <<inbox, home>>
  BY <1>0, <1>1 DEF Inboxes
<1>2. ASSUME UNCHANGED home, inbox' = [inbox EXCEPT ![socketIO] = <<>>] PROVE Inboxes'
  <2>1. inbox \in [Sock -> Seq(Session)] /\ Inboxes /\ Len(<<>>) = 0
    BY <1>0, EmptySeq DEF QueueTypes
  <2>2. \A k \in Sock : inbox'[k] = <<>> \/ inbox'[k] = inbox[k]
    BY <1>2, <2>1
  <2> QED
    BY <1>2, <2>1, <2>2 DEF Inboxes
<1>3. ASSUME NEW c \in Caller, SendMsg(c) \/ LogSends(c) PROVE Inboxes'
  <2>1. /\ session[c] \in Session /\ home[session[c]] = None /\ UNCHANGED inbox
        /\ home' = [home EXCEPT ![session[c]] = socketIO]
    BY <1>0, <1>3 DEF SendMsg, LogSends, Numbers, Homes
  <2>2. \A k \in Sock : \A n \in 1..Len(inbox[k]) : inbox[k][n] \in Session
        /\ home[inbox[k][n]] = k
    BY <1>0, ElementOfSeq DEF QueueTypes, Inboxes
  <2>3. \A i \in Session : home[i] # None => home'[i] = home[i]
    BY <1>0, <2>1 DEF SessionTypes
  <2>4. \A k \in Sock : k # None
    BY GoroutineKinds
  <2> QED
    BY <2>1, <2>2, <2>3, <2>4 DEF Inboxes
<1>4. ASSUME NEW l \in Sock, LoopReads(l) PROVE Inboxes'
  <2> DEFINE j == loopSock[l]
             q == inbox[j]
  <2>1. q \in Seq(Session) /\ q # <<>> /\ inbox' = [inbox EXCEPT ![j] = Tail(q)]
        /\ UNCHANGED home
    BY <1>0, <1>4 DEF LoopReads, QueueTypes, SockTypes
  <2>2. /\ \A n \in 1..Len(Tail(q)) : n + 1 \in 1..Len(q) /\ Tail(q)[n] = q[n + 1]
    BY <2>1, HeadTailProperties, EmptySeq, LenProperties
  <2>3. inbox \in [Sock -> Seq(Session)] /\ Inboxes /\ j \in Sock
    BY <1>0 DEF QueueTypes, SockTypes
  <2>4. ASSUME NEW k \in Sock, NEW n \in 1..Len(inbox'[k]) PROVE home[inbox'[k][n]] = k
    <3>1. CASE k = j
      <4>1. inbox'[k] = Tail(q)
        BY <2>1, <2>3, <3>1
      <4>2. \A m \in 1..Len(q) : home[q[m]] = k
        BY <2>3, <3>1 DEF Inboxes
      <4> HIDE DEF q, j
      <4> QED
        BY <2>2, <2>4, <4>1, <4>2
    <3>2. CASE k # j
      BY <2>1, <2>3, <2>4, <3>2 DEF Inboxes
    <3> QED
      BY <3>1, <3>2
  <2> QED
    BY <2>1, <2>4 DEF Inboxes
<1>5. ASSUME NEW k \in Sock, NEW i \in Session, Reply(k, i) PROVE Inboxes'
  <2>1. inbox' = [inbox EXCEPT ![k] = Append(@, i)] /\ UNCHANGED home
    BY <1>5 DEF Reply, sessionVars
  <2>2. home[i] = k
    <3>1. PICK n \in DOMAIN opened[k] : opened[k][n] = i
      BY <1>5 DEF Reply
    <3>2. n \in 1..Len(opened[k])
      BY <1>0, LenProperties DEF QueueTypes
    <3> QED
      BY <1>0, <3>1, <3>2 DEF Homes
  <2>3. inbox \in [Sock -> Seq(Session)] /\ Inboxes
    BY <1>0 DEF QueueTypes
  <2>4. ASSUME NEW j \in Sock, NEW n \in 1..Len(inbox'[j]) PROVE home[inbox'[j][n]] = j
    <3>1. CASE j = k
      <4>1. inbox[k] \in Seq(Session) /\ inbox'[j] = Append(inbox[k], i)
        BY <2>1, <2>3, <3>1
      <4>2. \A m \in 1..Len(inbox[k]) : home[inbox[k][m]] = k
        BY <2>3 DEF Inboxes
      <4> QED
        BY <2>2, <3>1, <4>1, <4>2, Grows
    <3>2. CASE j # k
      BY <2>1, <2>3, <2>4, <3>2 DEF Inboxes
    <3> QED
      BY <3>1, <3>2
  <2> QED
    BY <2>1, <2>4 DEF Inboxes
<1> QED
  BY <1>1, <1>2, <1>3, <1>4, <1>5
  DEF Next, Step, Locking, Reconnect, Call, Log, Loop, Connection, AnnounceLock,
      AcquireLock,
      ReconnectNotNeeded, ReconnectDisconnects, ReconnectFails, ReconnectDisposes,
      ReconnectSwitches, ReconnectPanics, CallLooks, CallRLocks, Attach, GetAnswer,
      TxCall, LogNext, ForceReconnect, Close, CloseEnds, LoopStarts, LoopRanges,
      LoopReadEnds, LoopEnds, RemoteDisconnects, ReadloopCloses, vars, lockVars,
      sessionVars, txVars, sockVars, loopVars

(***************************************************************************)
(* The order: what was opened has a number given earlier, and whoever is to *)
(* send next was given its number later.                                   *)
(***************************************************************************)
LEMMA InTurnKeeps == ServiceInv /\ [Next]_vars => InTurn'
<1> SUFFICES ASSUME ServiceInv, [Next]_vars PROVE InTurn'
  OBVIOUS
<1>0. LockTypes /\ SessionTypes /\ QueueTypes /\ Places /\ Locks /\ Numbers /\ Homes
      /\ InTurn
  BY Types DEF ServiceInv, SessionInv, SocketInv, LockInv
<1> USE <1>0, GoroutineKinds DEF LockTypes, SessionTypes, Places, Locks, Numbers,
    Reconnecting, Goto, CanRLock, AfterReconnect, lockVars, sessionVars, sockVars, txVars,
    QueueTypes, Homes, InTurn
<1>00. counter \in Nat /\ Session \subseteq Nat
  BY ServiceAssumption DEF Session
<1> USE <1>00
<1>1. CASE Quiet
  <2>1. InTurn /\ UNCHANGED <<session, logs, opened>>
    BY <1>1 DEF Quiet
  <2>2. \A c \in Caller : (pc'[c] = "send" <=> pc[c] = "send") /\ (pc'[c] = "log" <=> pc[c] = "log")
    BY <1>1 DEF Quiet
  <2> HIDE <1>0, <1>00 DEF Places, Locks, LockTypes, SessionTypes, QueueTypes, Numbers, Homes
  <2> QED
    BY <2>1, <2>2
<1>2. ASSUME NEW c \in Caller, Attach(c) PROVE InTurn'
  <2> DEFINE new == counter + 1
  <2>1. new \in Session /\ pc'[c] = "send" /\ session'[c] = new /\ logs' = logs
    BY <1>2, NextSession DEF Attach
  <2>2. \A d \in Caller : d # c => pc'[d] = pc[d] /\ session'[d] = session[d]
    BY <1>2 DEF Attach
  <2>3. \A d \in Caller : pc'[d] \in {"send", "log"} /\ pc'[d] = pc'[c] => d = c
    BY <1>2 DEF Attach
  <2>4. opened' = opened
    BY <1>2 DEF Attach
  <2>5. ASSUME NEW k \in Sock, NEW n \in 1..Len(opened[k])
        PROVE  /\ opened[k][n] \in Session /\ opened[k][n] <= counter
               /\ opened[k][n] < new
    <3>1. opened[k] \in Seq(Session) /\ home[opened[k][n]] = k
      OBVIOUS
    <3>2. opened[k][n] \in Session
      BY <3>1, ElementOfSeq
    <3>3. opened[k][n] <= counter
      <4>1. k # None
        OBVIOUS
      <4>2. /\ opened[k][n] \in Nat /\ counter \in Nat
            /\ opened[k][n] > counter => home[opened[k][n]] = None
        BY <3>2
      <4> HIDE <1>0
      <4> QED
        BY <3>1, <4>1, <4>2
    <3>4. opened[k][n] \in Nat /\ counter \in Nat
      BY <3>2
    <3> HIDE <1>0, <1>00 DEF InTurn, Homes, Numbers, QueueTypes
    <3> QED
      BY <3>2, <3>3, <3>4
  <2>6. InTurn
    BY <1>0
  <2> HIDE <1>0 DEF new
  <2>7. \A a \in Caller, k \in Sock : \A n \in 1..Len(opened'[k]) :
            /\ pc'[a] = "send" /\ opened'[k][n] \notin logs' => opened'[k][n] < session'[a]
            /\ pc'[a] = "log" /\ opened'[k][n] \in logs' => opened'[k][n] < session'[a]
    <3> TAKE a \in Caller, k \in Sock
    <3> TAKE n \in 1..Len(opened'[k])
    <3>1. opened'[k][n] = opened[k][n] /\ n \in 1..Len(opened[k])
      BY <2>4
    <3>2. opened[k][n] < new /\ opened[k][n] \in Nat
      BY <2>5, <3>1
    <3>3. CASE a = c
      BY <2>1, <3>1, <3>2, <3>3
    <3>4. CASE a # c
      <4>1. pc'[a] = pc[a] /\ session'[a] = session[a]
        BY <2>2, <3>4
      <4>2. opened[k][n] \in logs' <=> opened[k][n] \in logs
        <5>1. opened[k][n] # new
          BY <3>2
        <5> QED
          BY <2>1, <5>1
      <4> QED
        BY <2>6, <3>1, <4>1, <4>2
    <3> QED
      BY <3>3, <3>4
  <2>8. \A a, b \in Caller : pc'[a] = "log" /\ pc'[b] = "log" => a = b
    BY <2>1, <2>2, <2>3, <2>6
  <2> HIDE <1>00 DEF Places, Locks, Numbers, Homes, LockTypes, SessionTypes, QueueTypes
  <2> QED
    BY <2>7, <2>8
<1>3. ASSUME NEW c \in Caller, SendMsg(c) PROVE InTurn'
  <2> DEFINE s == session[c]
  <2>1. /\ s \in Session /\ s \notin logs
        /\ opened' \in {opened, [opened EXCEPT ![socketIO] = Append(@, s)]}
    BY <1>3 DEF SendMsg
  <2>2. /\ \A d \in Caller : pc'[d] # "send" /\ (pc'[d] = "log" <=> pc[d] = "log")
        /\ UNCHANGED <<session, logs>>
    BY <1>3 DEF SendMsg
  <2>3. opened \in [Sock -> Seq(Session)] /\ socketIO \in Sock /\ InTurn
    BY <1>0
  <2> HIDE <1>0, <1>00 DEF s, Places, Locks, LockTypes, SessionTypes, QueueTypes, Numbers, Homes
  <2>4. ASSUME NEW a \in Caller, pc[a] = "log", NEW k \in Sock, NEW n \in 1..Len(opened'[k]),
               opened'[k][n] \in logs
        PROVE  opened'[k][n] < session[a]
    <3>1. \A j \in 1..Len(opened[k]) : opened[k][j] \in logs => opened[k][j] < session[a]
      BY <2>3, <2>4
    <3>2. CASE opened'[k] = opened[k]
      BY <2>4, <3>1, <3>2
    <3>3. CASE opened'[k] = Append(opened[k], s)
      <4>1. n \in 1..Len(opened[k]) /\ opened'[k][n] = opened[k][n]
        BY <2>1, <2>3, <2>4, <3>3, Grows
      <4> QED
        BY <2>4, <3>1, <4>1
    <3>4. opened'[k] = opened[k] \/ opened'[k] = Append(opened[k], s)
      <4> HIDE DEF InTurn
      <4> QED
        BY <2>1, <2>3
    <3> QED
      BY <3>2, <3>3, <3>4
  <2> QED
    BY <2>2, <2>3, <2>4
<1>4. ASSUME NEW c \in Caller, LogNext(c) PROVE InTurn'
  <2> DEFINE new == counter + 1
  <2>1. new \in Session /\ pc'[c] = "log" /\ session'[c] = new /\ logs' = logs \cup {new}
    BY <1>4, NextSession DEF LogNext
  <2>2. \A d \in Caller : d # c => pc'[d] = pc[d] /\ session'[d] = session[d]
    BY <1>4 DEF LogNext
  <2>3. \A d \in Caller : pc'[d] \in {"send", "log"} /\ pc'[d] = pc'[c] => d = c
    BY <1>4 DEF LogNext
  <2>4. opened' = opened
    BY <1>4 DEF LogNext
  <2>5. ASSUME NEW k \in Sock, NEW n \in 1..Len(opened[k])
        PROVE  /\ opened[k][n] \in Session /\ opened[k][n] <= counter
               /\ opened[k][n] < new
    <3>1. opened[k] \in Seq(Session) /\ home[opened[k][n]] = k
      OBVIOUS
    <3>2. opened[k][n] \in Session
      BY <3>1, ElementOfSeq
    <3>3. opened[k][n] <= counter
      <4>1. k # None
        OBVIOUS
      <4>2. /\ opened[k][n] \in Nat /\ counter \in Nat
            /\ opened[k][n] > counter => home[opened[k][n]] = None
        BY <3>2
      <4> HIDE <1>0
      <4> QED
        BY <3>1, <4>1, <4>2
    <3>4. opened[k][n] \in Nat /\ counter \in Nat
      BY <3>2
    <3> HIDE <1>0, <1>00 DEF InTurn, Homes, Numbers, QueueTypes
    <3> QED
      BY <3>2, <3>3, <3>4
  <2>6. InTurn
    BY <1>0
  <2> HIDE <1>0 DEF new
  <2>7. \A a \in Caller, k \in Sock : \A n \in 1..Len(opened'[k]) :
            /\ pc'[a] = "send" /\ opened'[k][n] \notin logs' => opened'[k][n] < session'[a]
            /\ pc'[a] = "log" /\ opened'[k][n] \in logs' => opened'[k][n] < session'[a]
    <3> TAKE a \in Caller, k \in Sock
    <3> TAKE n \in 1..Len(opened'[k])
    <3>1. opened'[k][n] = opened[k][n] /\ n \in 1..Len(opened[k])
      BY <2>4
    <3>2. opened[k][n] < new /\ opened[k][n] \in Nat
      BY <2>5, <3>1
    <3>3. CASE a = c
      BY <2>1, <3>1, <3>2, <3>3
    <3>4. CASE a # c
      <4>1. pc'[a] = pc[a] /\ session'[a] = session[a]
        BY <2>2, <3>4
      <4>2. opened[k][n] \in logs' <=> opened[k][n] \in logs
        <5>1. opened[k][n] # new
          BY <3>2
        <5> QED
          BY <2>1, <5>1
      <4> QED
        BY <2>6, <3>1, <4>1, <4>2
    <3> QED
      BY <3>3, <3>4
  <2>8. \A a, b \in Caller : pc'[a] = "log" /\ pc'[b] = "log" => a = b
    BY <2>1, <2>2, <2>3, <2>6
  <2> HIDE <1>00 DEF Places, Locks, Numbers, Homes, LockTypes, SessionTypes, QueueTypes
  <2> QED
    BY <2>7, <2>8
<1>5. ASSUME NEW c \in Caller, LogSends(c) PROVE InTurn'
  <2> DEFINE s == session[c]
  <2>1. /\ s \in Session /\ s \in logs
        /\ opened' \in {opened, [opened EXCEPT ![socketIO] = Append(@, s)]}
    BY <1>5 DEF LogSends
  <2>2. /\ \A d \in Caller : pc'[d] # "log" /\ (pc'[d] = "send" <=> pc[d] = "send")
        /\ UNCHANGED <<session, logs>>
    BY <1>5 DEF LogSends
  <2>3. opened \in [Sock -> Seq(Session)] /\ socketIO \in Sock /\ InTurn
    BY <1>0
  <2> HIDE <1>0, <1>00 DEF s, Places, Locks, LockTypes, SessionTypes, QueueTypes, Numbers, Homes
  <2>4. ASSUME NEW a \in Caller, pc[a] = "send", NEW k \in Sock, NEW n \in 1..Len(opened'[k]),
               opened'[k][n] \notin logs
        PROVE  opened'[k][n] < session[a]
    <3>1. \A j \in 1..Len(opened[k]) : opened[k][j] \notin logs => opened[k][j] < session[a]
      BY <2>3, <2>4
    <3>2. CASE opened'[k] = opened[k]
      BY <2>4, <3>1, <3>2
    <3>3. CASE opened'[k] = Append(opened[k], s)
      <4>1. n \in 1..Len(opened[k]) /\ opened'[k][n] = opened[k][n]
        BY <2>1, <2>3, <2>4, <3>3, Grows
      <4> QED
        BY <2>4, <3>1, <4>1
    <3>4. opened'[k] = opened[k] \/ opened'[k] = Append(opened[k], s)
      <4> HIDE DEF InTurn
      <4> QED
        BY <2>1, <2>3
    <3> QED
      BY <3>2, <3>3, <3>4
  <2> QED
    BY <2>2, <2>3, <2>4
<1> HIDE <1>0
<1> QED
  BY <1>1, <1>2, <1>3, <1>4, <1>5, MostAreQuiet

(***************************************************************************)
(* The told: a session leaves the map with a result in its channel, and the *)
(* map is empty while Reconnect replaces the socket.                       *)
(***************************************************************************)
LEMMA ToldKeeps == ServiceInv /\ [Next]_vars => Told'
<1> SUFFICES ASSUME ServiceInv, [Next]_vars PROVE Told'
  OBVIOUS
<1>0. LockTypes /\ SessionTypes /\ QueueTypes /\ Places /\ Locks /\ Numbers /\ Homes /\ Told
  BY Types DEF ServiceInv, SessionInv, SocketInv, LockInv
<1> USE <1>0, GoroutineKinds DEF LockTypes, SessionTypes, Places, Locks, Numbers,
    Reconnecting, Goto, CanRLock, AfterReconnect, lockVars, sessionVars, sockVars, txVars,
    QueueTypes, Homes, Told
<1>00. counter \in Nat /\ Session \subseteq Nat
  BY ServiceAssumption DEF Session
<1> USE <1>00
<1>1. CASE Quiet
  <2>1. /\ Told /\ links \subseteq Session
        /\ \A a \in Caller : pc[a] \in {"send", "get"} => session[a] \in Session
    BY <1>0
  <2>2. /\ UNCHANGED <<session, home>> /\ links' \subseteq links
        /\ \A c \in Caller : pc'[c] = "send" <=> pc[c] = "send"
        /\ \A c \in Caller : pc'[c] \in {"send", "get"} => pc[c] \in {"send", "get"}
        /\ \A g \in Goroutine : pc'[g] \in {"resolve", "switch"} =>
            pc[g] \in {"resolve", "switch"} \/ links' = {}
        /\ socketIO' = socketIO \/ links = {}
    BY <1>1 DEF Quiet
  <2>3. \A i \in Session : answers[i] # <<>> \/ (i \in links /\ i \notin links') =>
            answers'[i] # <<>>
    BY Answered
  <2> HIDE <1>0, <1>00 DEF Places, Locks, LockTypes, SessionTypes, QueueTypes, Numbers, Homes, Told
  <2>4. \A c \in Caller : pc'[c] \in {"send", "get"} =>
            session'[c] \in links' \/ answers'[session'[c]] # <<>>
    BY <2>1, <2>2, <2>3 DEF Told
  <2>5. \A i \in links' : home'[i] # None => home'[i] = socketIO'
    BY <2>1, <2>2 DEF Told
  <2>6. \A i \in links' : home'[i] = None => \E c \in Caller : pc'[c] = "send" /\ session'[c] = i
    BY <2>1, <2>2 DEF Told
  <2>7. \A g \in Goroutine : pc'[g] \in {"resolve", "switch"} => links' = {}
    BY <2>1, <2>2 DEF Told
  <2> QED
    BY <2>4, <2>5, <2>6, <2>7 DEF Told
<1>2. ASSUME NEW c \in Caller, Attach(c) PROVE Told'
  <2> DEFINE new == counter + 1
  <2>1. new \in Session /\ pc'[c] = "send" /\ session'[c] = new /\ links' = links \cup {new}
    BY <1>2, NextSession DEF Attach
  <2>2. \A d \in Caller : d # c => pc'[d] = pc[d] /\ session'[d] = session[d]
    BY <1>2 DEF Attach
  <2>3. UNCHANGED <<home, answers, socketIO>>
    BY <1>2 DEF Attach
  <2>4. home[new] = None /\ pc[c] = "attach"
    BY <1>2, <2>1 DEF Attach
  <2>5. \A g \in Goroutine : pc'[g] \notin {"resolve", "switch"}
    <3>1. writer = None /\ c \in Goroutine
      BY <2>4
    <3> QED
      BY <1>2, <3>1 DEF Attach
  <2>6. Told
    BY <1>0
  <2> HIDE <1>0 DEF new
  <2>7. \A a \in Caller : pc'[a] \in {"send", "get"} =>
            session'[a] \in links' \/ answers'[session'[a]] # <<>>
    BY <2>1, <2>2, <2>3, <2>6
  <2>8. \A i \in links' : home'[i] # None => home'[i] = socketIO'
    BY <2>1, <2>3, <2>4, <2>6
  <2>9. ASSUME NEW i \in links', home'[i] = None
        PROVE  \E a \in Caller : pc'[a] = "send" /\ session'[a] = i
    <3>1. CASE i = new
      BY <2>1, <3>1
    <3>2. CASE i # new
      <4>1. i \in links /\ home[i] = None
        BY <2>1, <2>3, <2>9, <3>2
      <4>2. PICK a \in Caller : pc[a] = "send" /\ session[a] = i
        BY <2>6, <4>1
      <4>3. a # c
        BY <2>4, <4>2
      <4> QED
        BY <2>2, <4>2, <4>3
    <3> QED
      BY <3>1, <3>2
  <2> QED
    BY <2>5, <2>7, <2>8, <2>9
<1>3. ASSUME NEW c \in Caller, SendMsg(c) PROVE Told'
  <2> DEFINE s == session[c]
  <2>1. s \in Session /\ home' = [home EXCEPT ![s] = socketIO] /\ pc[c] = "send"
        /\ pc'[c] = "get"
    BY <1>3 DEF SendMsg
  <2>2. \A g \in Goroutine : g # c => pc'[g] = pc[g]
    BY <1>3 DEF SendMsg
  <2>3. UNCHANGED <<links, session, answers, socketIO>>
    BY <1>3 DEF SendMsg
  <2>4. Told /\ c \in Goroutine /\ Caller \subseteq Goroutine
        /\ home \in [Session -> Sock \cup {None}]
        /\ links \subseteq Session
    BY <1>0
  <2> HIDE <1>0
  <2>5. \A i \in Session : home'[i] = IF i = s THEN socketIO ELSE home[i]
    BY <2>1, <2>4
  <2>6. \A a \in Caller : pc'[a] \in {"send", "get"} =>
            session[a] \in links \/ answers[session[a]] # <<>>
    <3> TAKE a \in Caller
    <3>1. CASE a = c
      BY <2>1, <2>4, <3>1
    <3>2. CASE a # c
      BY <2>2, <2>4, <3>2
    <3> QED
      BY <3>1, <3>2
  <2>7. \A i \in links : home'[i] # None => home'[i] = socketIO
    BY <2>4, <2>5
  <2>8. ASSUME NEW i \in links, home'[i] = None, socketIO # None
        PROVE  \E a \in Caller : pc'[a] = "send" /\ session[a] = i
    <3>1. i # s /\ home[i] = None
      BY <2>4, <2>5, <2>8
    <3>2. PICK a \in Caller : pc[a] = "send" /\ session[a] = i
      BY <2>4, <3>1
    <3>3. a # c /\ a \in Goroutine
      BY <2>4, <3>1, <3>2
    <3> QED
      BY <2>2, <3>2, <3>3
  <2>9. socketIO # None
    BY <1>0
  <2>10. \A g \in Goroutine : pc'[g] \in {"resolve", "switch"} => links = {}
    BY <2>1, <2>2, <2>4
  <2> QED
    BY <2>3, <2>6, <2>7, <2>8, <2>9, <2>10
<1>4. ASSUME NEW c \in Caller, LogNext(c) PROVE Told'
  <2>1. pc[c] = "idle" /\ pc'[c] = "log"
    BY <1>4 DEF LogNext
  <2>2. \A g \in Goroutine : g # c => pc'[g] = pc[g]
    BY <1>4 DEF LogNext
  <2>3. \A d \in Caller : d # c => session'[d] = session[d]
    BY <1>4 DEF LogNext
  <2>4. UNCHANGED <<links, answers, home, socketIO>>
    BY <1>4 DEF LogNext
  <2>5. Told /\ c \in Goroutine /\ Caller \subseteq Goroutine
    BY <1>0
  <2> HIDE <1>0
  <2>6. \A a \in Caller : pc'[a] \in {"send", "get"} => a # c /\ pc[a] \in {"send", "get"}
    BY <2>1, <2>2, <2>5
  <2>7. ASSUME NEW i \in links, home[i] = None
        PROVE  \E a \in Caller : pc'[a] = "send" /\ session'[a] = i
    <3>1. PICK a \in Caller : pc[a] = "send" /\ session[a] = i
      BY <2>5, <2>7
    <3> QED
      BY <2>1, <2>2, <2>3, <2>5, <3>1
  <2>8. \A g \in Goroutine : pc'[g] \in {"resolve", "switch"} => links = {}
    BY <2>1, <2>2, <2>5
  <2>9. \A a \in Caller : pc'[a] \in {"send", "get"} =>
            session'[a] \in links \/ answers[session'[a]] # <<>>
    BY <2>3, <2>5, <2>6
  <2> QED
    BY <2>4, <2>5, <2>7, <2>8, <2>9
<1>5. ASSUME NEW c \in Caller, LogSends(c) PROVE Told'
  <2>1. /\ session[c] \in Session /\ home' = [home EXCEPT ![session[c]] = socketIO]
        /\ UNCHANGED <<session, links, answers, socketIO>>
    BY <1>5 DEF LogSends
  <2>2. /\ \A d \in Caller : pc'[d] \in {"send", "get"} => pc'[d] = pc[d]
        /\ \A d \in Caller : pc[d] = "send" => pc'[d] = "send"
        /\ \A g \in Goroutine : pc'[g] \in {"resolve", "switch"} => pc'[g] = pc[g]
    BY <1>5 DEF LogSends
  <2>3. Told /\ links \subseteq Session /\ home \in [Session -> Sock \cup {None}]
        /\ socketIO # None
    BY <1>0
  <2> HIDE <1>0, <1>00 DEF Places, Locks, LockTypes, SessionTypes, QueueTypes, Numbers, Homes
  <2>4. \A i \in Session : home'[i] = home[i] \/ home'[i] = socketIO
    BY <2>1, <2>3
  <2>5. \A i \in links : home'[i] # None => home'[i] = socketIO
    BY <2>3, <2>4
  <2>6. \A i \in links : home'[i] = None => home[i] = None
    BY <2>3, <2>4
  <2> QED
    BY <2>1, <2>2, <2>3, <2>5, <2>6
<1> HIDE <1>0
<1> QED
  BY <1>1, <1>2, <1>3, <1>4, <1>5, MostAreQuiet

(***************************************************************************)
(* The initial state: NewService has connected and started the first loop. *)
(***************************************************************************)
LEMMA ServiceInit == Init => ServiceInv
<1> SUFFICES ASSUME Init PROVE ServiceInv
  OBVIOUS
<1> USE ServiceAssumption, GoroutineKinds
<1>1. 0 \in Sock /\ \A i \in Session : i \in Nat
  BY DEF Sock, Session
<1>2. \A g \in Goroutine :
        pc[g] = IF g \in Sock THEN (IF g = 0 THEN "start" ELSE "none") ELSE "idle"
  BY DEF Init
<1>3. LockTypes /\ SockTypes
  BY <1>1 DEF Init, LockTypes, SockTypes, Place
<1>4. SessionTypes /\ QueueTypes
  BY <1>1, EmptySeq DEF Init, SessionTypes, QueueTypes
<1>5. TypeOK
  BY <1>3, <1>4, Types
<1>6. Places
  BY <1>2 DEF Places, Reconnecting
<1>7. Locks
  BY <1>2 DEF Init, Locks, Reconnecting
<1>8. Sockets
  <2>1. \A g \in Goroutine : pc[g] # "switch"
    BY <1>2
  <2>2. epoch = 0 /\ socketIO = 0
        /\ sock = [k \in Sock |-> IF k = 0 THEN "open" ELSE "none"]
    BY DEF Init
  <2> QED
    BY <1>1, <2>1, <2>2 DEF Sockets
<1>9. Loops
  <2>1. socketIO = 0 /\ loopEpoch = [k \in Sock |-> 0] /\ loopSock = [k \in Sock |-> 0]
    BY DEF Init
  <2>2. \A l \in Sock : pc[l] = IF l = 0 THEN "start" ELSE "none"
    BY <1>2
  <2> QED
    BY <2>1, <2>2 DEF Loops
<1>10. \A c \in Caller : pc[c] = "idle"
  BY <1>2
<1>11. \A k \in Sock : opened[k] = <<>> /\ inbox[k] = <<>>
  BY DEF Init
<1>12. Numbers
  BY <1>10 DEF Init, Numbers
<1>13. Homes
  BY <1>10, <1>11, EmptySeq DEF Init, Homes
<1>16. Inboxes
  BY <1>11, EmptySeq DEF Inboxes
<1>14. InTurn
  BY <1>10, <1>11, EmptySeq DEF InTurn
<1>15. Told
  <2>1. links = {} /\ \A g \in Goroutine : pc[g] \notin {"resolve", "switch"}
    BY <1>2 DEF Init
  <2> QED
    BY <1>10, <2>1 DEF Told
<1> QED
  BY <1>5, <1>6, <1>7, <1>8, <1>9, <1>12, <1>13, <1>14, <1>15, <1>16
  DEF ServiceInv, SessionInv, SocketInv, LockInv

\* Every step keeps the invariant.
LEMMA ServiceStep == ServiceInv /\ [Next]_vars => ServiceInv'
<1> SUFFICES ASSUME ServiceInv, [Next]_vars PROVE ServiceInv'
  OBVIOUS
<1>1. (Places /\ Locks)' /\ Sockets' /\ Loops'
  BY LocksKeep, SocketsKeep, LoopsKeep
<1>2. Numbers' /\ Homes' /\ Inboxes' /\ InTurn' /\ Told'
  BY NumbersKeep, HomesKeep, InboxesKeep, InTurnKeeps, ToldKeeps
<1>3. LockTypes' /\ SockTypes' /\ SessionTypes' /\ QueueTypes'
  BY LockTypesKeep, SockTypesKeep, SessionTypesKeep, QueueTypesKeep
<1>4. TypeOK'
  BY <1>3, Types, PTL
<1> QED
  BY <1>1, <1>2, <1>4 DEF ServiceInv, SessionInv, SocketInv, LockInv

(***************************************************************************)
(* The inductive invariant holds always.                                   *)
(***************************************************************************)
THEOREM ServiceInvariant == Spec => []ServiceInv
<1>1. Init => ServiceInv
  BY ServiceInit
<1>2. ServiceInv /\ [Next]_vars => ServiceInv'
  BY ServiceStep
<1> QED
  BY <1>1, <1>2, PTL DEF Spec

(***************************************************************************)
(* Types, for every number of goroutines, sockets and sessions.            *)
(***************************************************************************)
THEOREM TypeCorrect == Spec => []TypeOK
<1>1. ServiceInv => TypeOK
  BY DEF ServiceInv, SessionInv, SocketInv, LockInv
<1> QED
  BY <1>1, ServiceInvariant, PTL

Exclusion ==
    \A g \in Goroutine, c, d \in Caller :
        /\ pc[g] \in Reconnecting \cup {"end"} => pc[c] # "send" /\ readers[c] = 0
        /\ pc[c] = "send" /\ pc[d] = "send" => c = d

(***************************************************************************)
(* service.mutex and muKeepSessionOrder do their work: a goroutine that    *)
(* reconnects or ends a loop is alone with the service, and one caller at a *)
(* time is between Attach and sendMsg.                                     *)
(***************************************************************************)
THEOREM MutualExclusion == Spec => []Exclusion
<1>1. ASSUME ServiceInv, NEW g \in Goroutine, NEW c \in Caller, NEW d \in Caller
      PROVE  /\ pc[g] \in Reconnecting \cup {"end"} => pc[c] # "send" /\ readers[c] = 0
             /\ pc[c] = "send" /\ pc[d] = "send" => c = d
  <2>1. Locks /\ LockTypes
    BY <1>1, Types DEF ServiceInv, SessionInv, SocketInv, LockInv
  <2>2. ASSUME pc[g] \in Reconnecting \cup {"end"} PROVE pc[c] # "send" /\ readers[c] = 0
    <3>1. writer = g /\ g # None /\ c \in Goroutine
      BY <2>1, <2>2, GoroutineKinds DEF Locks
    <3> QED
      BY <2>1, <2>2, <3>1, WriterAlone DEF Locks
  <2>3. pc[c] = "send" /\ pc[d] = "send" => c = d
    BY <2>1 DEF Locks
  <2> QED
    BY <2>2, <2>3
<1>2. ServiceInv => Exclusion
  BY <1>1 DEF Exclusion
<1> QED
  BY <1>2, ServiceInvariant, PTL

-----------------------------------------------------------------------------
(***************************************************************************)
(* A message is opened after everything of its kind with a smaller number. *)
(***************************************************************************)
LEMMA OrderKeeps == ServiceInv /\ CallsOpenInOrder /\ [Next]_vars => CallsOpenInOrder'
<1> SUFFICES ASSUME ServiceInv, CallsOpenInOrder, [Next]_vars PROVE CallsOpenInOrder'
  OBVIOUS
<1>0. LockTypes /\ SockTypes /\ SessionTypes /\ QueueTypes /\ Places /\ Locks /\ Numbers
      /\ Homes /\ InTurn /\ CallsOpenInOrder
  BY Types DEF ServiceInv, SessionInv, SocketInv, LockInv
<1> USE <1>0, GoroutineKinds DEF LockTypes, SessionTypes, Places, Locks, Numbers,
    Reconnecting, Goto, CanRLock, AfterReconnect, lockVars, sessionVars, sockVars, txVars,
    QueueTypes, Homes, InTurn, CallsOpenInOrder
<1>00. counter \in Nat /\ Session \subseteq Nat
  BY ServiceAssumption DEF Session
<1> USE <1>00
<1>1. CASE UNCHANGED <<opened, logs>>
  <2>1. CallsOpenInOrder
    BY <1>0
  <2> HIDE <1>0
  <2> QED
    BY <1>1, <2>1
<1>2. ASSUME NEW c \in Caller, SendMsg(c) PROVE CallsOpenInOrder'
  <2> DEFINE s == session[c]
  <2>1. s \in Session /\ opened' \in {opened, [opened EXCEPT ![socketIO] = Append(@, s)]}
        /\ logs' = logs
    BY <1>2 DEF SendMsg
  <2>2. ASSUME NEW k \in Sock, NEW m \in 1..Len(opened[k]), opened[k][m] \notin logs
        PROVE  opened[k][m] < s
    BY <1>2, <2>2 DEF SendMsg
  <2>3. s \notin logs
    BY <1>2 DEF SendMsg
  <2>4. CASE opened' = opened
    BY <2>1, <2>4
  <2>6. ASSUME NEW k \in Sock, NEW m \in 1..Len(opened[k]), NEW n \in 1..Len(opened[k]), m < n
        PROVE  \/ opened[k][m] < opened[k][n]
               \/ opened[k][m] \in logs <=> opened[k][n] \notin logs
    <3>1. DOMAIN opened[k] = 1..Len(opened[k])
      BY LenProperties
    <3>2. CallsOpenInOrder
      BY <1>0
    <3> HIDE <1>0
    <3> QED
      BY <2>6, <3>1, <3>2
  <2>5. CASE opened' = [opened EXCEPT ![socketIO] = Append(@, s)]
    <3>1. ASSUME NEW k \in Sock, NEW m \in 1..Len(opened'[k]), NEW n \in 1..Len(opened'[k]), m < n
          PROVE  \/ opened'[k][m] < opened'[k][n]
                 \/ opened'[k][m] \in logs <=> opened'[k][n] \notin logs
      <4>1. CASE k # socketIO
        <5>1. opened'[k] = opened[k]
          BY <2>5, <4>1
        <5> HIDE <1>0
        <5> QED
          BY <2>6, <3>1, <5>1
      <4>2. CASE k = socketIO
        <5>1. opened'[k] = Append(opened[k], s) /\ opened[k] \in Seq(Session)
          BY <2>5, <4>2
        <5>2. /\ Len(opened'[k]) = Len(opened[k]) + 1 /\ Len(opened[k]) \in Nat
              /\ opened'[k][Len(opened[k]) + 1] = s
              /\ \A i \in 1..Len(opened[k]) : opened'[k][i] = opened[k][i]
          BY <2>1, <5>1, AppendProperties, LenProperties
        <5>3. m \in 1..Len(opened[k])
          <6> HIDE <1>0
          <6> QED
            BY <3>1, <5>2
        <5>4. CASE n \in 1..Len(opened[k])
          <6> HIDE <1>0
          <6> QED
            BY <2>6, <3>1, <5>2, <5>3, <5>4
        <5>5. CASE n = Len(opened[k]) + 1
          <6>1. opened'[k][m] = opened[k][m] /\ opened'[k][n] = s
            BY <5>2, <5>3, <5>5
          <6>2. opened[k][m] \notin logs => opened[k][m] < s
            BY <2>2, <5>3
          <6> HIDE <1>0
          <6> QED
            BY <2>3, <6>1, <6>2
        <5>6. n \in 1..Len(opened[k]) \/ n = Len(opened[k]) + 1
          <6> HIDE <1>0
          <6> QED
            BY <5>2
        <5> QED
          BY <5>4, <5>5, <5>6
      <4> QED
        BY <4>1, <4>2
    <3>2. \A k \in Sock : DOMAIN opened'[k] = 1..Len(opened'[k])
      <4>1. opened' \in [Sock -> Seq(Session)]
        <5>1. Append(opened[socketIO], s) \in Seq(Session) /\ socketIO \in Sock
          BY <2>1
        <5> QED
          BY <2>5, <5>1
      <4> QED
        BY <4>1, LenProperties
    <3> QED
      <4> HIDE <1>0
      <4> QED
        BY <2>1, <3>1, <3>2 DEF CallsOpenInOrder
  <2> QED
    BY <2>1, <2>4, <2>5
<1>3. ASSUME NEW c \in Caller, LogNext(c) PROVE CallsOpenInOrder'
  <2>1. logs' = logs \cup {counter + 1} /\ opened' = opened
    BY <1>3 DEF LogNext
  <2>2. ASSUME NEW k \in Sock, NEW n \in DOMAIN opened[k]
        PROVE  opened[k][n] \in logs' <=> opened[k][n] \in logs
    <3>0. opened[k] \in Seq(Session)
      OBVIOUS
    <3>1. n \in 1..Len(opened[k])
      <4> HIDE <1>0
      <4> QED
        BY <2>2, <3>0, LenProperties
    <3>2. opened[k][n] \in Session /\ home[opened[k][n]] = k
      BY <3>0, <3>1, ElementOfSeq
    <3>3. opened[k][n] \in Nat /\ counter \in Nat /\ ~(opened[k][n] > counter)
      <4>1. k # None /\ opened[k][n] \in Nat /\ counter \in Nat
        <5> HIDE <1>0
        <5> QED
          BY <1>00, <3>2, GoroutineKinds
      <4>2. opened[k][n] > counter => home[opened[k][n]] = None
        BY <3>2
      <4> HIDE <1>0
      <4> QED
        BY <3>2, <4>1, <4>2
    <3> HIDE <1>0
    <3>4. opened[k][n] # counter + 1
      BY <3>3
    <3> QED
      BY <2>1, <3>4
  <2>3. CallsOpenInOrder
    BY <1>0
  <2> HIDE <1>0
  <2> QED
    BY <2>1, <2>2, <2>3
<1>4. ASSUME NEW c \in Caller, LogSends(c) PROVE CallsOpenInOrder'
  <2> DEFINE s == session[c]
  <2>1. s \in Session /\ opened' \in {opened, [opened EXCEPT ![socketIO] = Append(@, s)]}
        /\ logs' = logs
    BY <1>4 DEF LogSends
  <2>2. ASSUME NEW k \in Sock, NEW m \in 1..Len(opened[k]), opened[k][m] \in logs
        PROVE  opened[k][m] < s
    BY <1>4, <2>2 DEF LogSends
  <2>3. s \in logs
    BY <1>4 DEF LogSends
  <2>4. CASE opened' = opened
    BY <2>1, <2>4
  <2>6. ASSUME NEW k \in Sock, NEW m \in 1..Len(opened[k]), NEW n \in 1..Len(opened[k]), m < n
        PROVE  \/ opened[k][m] < opened[k][n]
               \/ opened[k][m] \in logs <=> opened[k][n] \notin logs
    <3>1. DOMAIN opened[k] = 1..Len(opened[k])
      BY LenProperties
    <3>2. CallsOpenInOrder
      BY <1>0
    <3> HIDE <1>0
    <3> QED
      BY <2>6, <3>1, <3>2
  <2>5. CASE opened' = [opened EXCEPT ![socketIO] = Append(@, s)]
    <3>1. ASSUME NEW k \in Sock, NEW m \in 1..Len(opened'[k]), NEW n \in 1..Len(opened'[k]), m < n
          PROVE  \/ opened'[k][m] < opened'[k][n]
                 \/ opened'[k][m] \in logs <=> opened'[k][n] \notin logs
      <4>1. CASE k # socketIO
        <5>1. opened'[k] = opened[k]
          BY <2>5, <4>1
        <5> HIDE <1>0
        <5> QED
          BY <2>6, <3>1, <5>1
      <4>2. CASE k = socketIO
        <5>1. opened'[k] = Append(opened[k], s) /\ opened[k] \in Seq(Session)
          BY <2>5, <4>2
        <5>2. /\ Len(opened'[k]) = Len(opened[k]) + 1 /\ Len(opened[k]) \in Nat
              /\ opened'[k][Len(opened[k]) + 1] = s
              /\ \A i \in 1..Len(opened[k]) : opened'[k][i] = opened[k][i]
          BY <2>1, <5>1, AppendProperties, LenProperties
        <5>3. m \in 1..Len(opened[k])
          <6> HIDE <1>0
          <6> QED
            BY <3>1, <5>2
        <5>4. CASE n \in 1..Len(opened[k])
          <6> HIDE <1>0
          <6> QED
            BY <2>6, <3>1, <5>2, <5>3, <5>4
        <5>5. CASE n = Len(opened[k]) + 1
          <6>1. opened'[k][m] = opened[k][m] /\ opened'[k][n] = s
            BY <5>2, <5>3, <5>5
          <6>2. opened[k][m] \in logs => opened[k][m] < s
            BY <2>2, <5>3
          <6> HIDE <1>0
          <6> QED
            BY <2>3, <6>1, <6>2
        <5>6. n \in 1..Len(opened[k]) \/ n = Len(opened[k]) + 1
          <6> HIDE <1>0
          <6> QED
            BY <5>2
        <5> QED
          BY <5>4, <5>5, <5>6
      <4> QED
        BY <4>1, <4>2
    <3>2. \A k \in Sock : DOMAIN opened'[k] = 1..Len(opened'[k])
      <4>1. opened' \in [Sock -> Seq(Session)]
        <5>1. Append(opened[socketIO], s) \in Seq(Session) /\ socketIO \in Sock
          BY <2>1
        <5> QED
          BY <2>5, <5>1
      <4> QED
        BY <4>1, LenProperties
    <3> QED
      <4> HIDE <1>0
      <4> QED
        BY <2>1, <3>1, <3>2 DEF CallsOpenInOrder
  <2> QED
    BY <2>1, <2>4, <2>5
<1> HIDE <1>0
<1> QED
  BY <1>1, <1>2, <1>3, <1>4, ZenonT(60)
  DEF Next, Step, Locking, Reconnect, Call, Log, Loop, Connection, AnnounceLock,
      AcquireLock, ReconnectNotNeeded, ReconnectDisconnects, ReconnectFails,
      ReconnectDisposes, ReconnectSwitches, ReconnectPanics, CallLooks, CallRLocks, Attach,
      GetAnswer, TxCall, ForceReconnect, Close, CloseEnds, LoopStarts, LoopRanges,
      LoopReads, LoopReadEnds, LoopEnds, RemoteDisconnects, ReadloopCloses, Reply, vars,
      lockVars, sessionVars, txVars, sockVars, loopVars

(***************************************************************************)
(* Over each socket sendMsg opens the sessions of calls in the order of    *)
(* their numbers, and the log those of its entries.  Nothing is said of a  *)
(* call against a log entry, which may change places.                      *)
(***************************************************************************)
THEOREM CallsAreInOrder == Spec => []CallsOpenInOrder
<1>1. Init => CallsOpenInOrder
  BY DEF Init, CallsOpenInOrder
<1>2. ServiceInv /\ ServiceInv' /\ CallsOpenInOrder
      /\ [Next]_vars => CallsOpenInOrder'
  BY OrderKeeps
<1> QED
  BY <1>1, <1>2, ServiceInvariant, PTL DEF Spec

(***************************************************************************)
(* A message over another socket comes from a session that is not attached. *)
(***************************************************************************)
LEMMA StraysKeep == ServiceInv /\ StrayCallsWereTold /\ [Next]_vars => StrayCallsWereTold'
<1> SUFFICES ASSUME ServiceInv, StrayCallsWereTold, [Next]_vars PROVE StrayCallsWereTold'
  OBVIOUS
<1>0. LockTypes /\ SessionTypes /\ Numbers /\ Homes /\ Told
  BY Types DEF ServiceInv, SessionInv, SocketInv, LockInv
<1>1. CASE UNCHANGED strays
  <2>1. strays \subseteq Session
    BY <1>0 DEF SessionTypes
  <2> QED
    BY <1>1, <2>1, Answered DEF StrayCallsWereTold
<1>2. ASSUME NEW c \in Caller, TxCall(c) PROVE StrayCallsWereTold'
  <2>1. pc[c] = "get" /\ session[c] \in Session /\ home[session[c]] # None
    BY <1>0, <1>2, GoroutineKinds DEF TxCall, Numbers, Homes
  <2>2. socketIO # home[session[c]] => answers[session[c]] # <<>>
    BY <1>0, <2>1 DEF Told
  <2>3.
        /\ strays' = IF socketIO = home[session[c]] THEN strays ELSE strays \cup {session[c]}
        /\ UNCHANGED answers
    BY <1>2 DEF TxCall
  <2> QED
    BY <2>2, <2>3 DEF StrayCallsWereTold
<1> QED
  BY <1>1, <1>2, ZenonT(60)
  DEF Next, Step, Locking, Reconnect, Call, Log, Loop, Connection, AnnounceLock,
      AcquireLock,
      ReconnectNotNeeded, ReconnectDisconnects, ReconnectFails, ReconnectDisposes,
      ReconnectSwitches, ReconnectPanics, CallLooks, CallRLocks, Attach, SendMsg, GetAnswer,
      LogNext, LogSends, ForceReconnect, Close, CloseEnds, LoopStarts, LoopRanges, LoopReads,
      LoopReadEnds, LoopEnds, RemoteDisconnects, ReadloopCloses, Reply, vars, lockVars,
      sessionVars, txVars, sockVars, loopVars

(***************************************************************************)
(* A reconnection never takes the connection from under a call that has not *)
(* been told: Reconnect tells all before it replaces the socket.           *)
(***************************************************************************)
THEOREM StraysWereTold == Spec => []StrayCallsWereTold
<1>1. Init => StrayCallsWereTold
  BY DEF Init, StrayCallsWereTold
<1>2. ServiceInv /\ ServiceInv' /\ StrayCallsWereTold /\ [Next]_vars => StrayCallsWereTold'
  BY StraysKeep
<1> QED
  BY <1>1, <1>2, ServiceInvariant, PTL DEF Spec

\* A value comes from a socket.
LEMMA Kinds == \A r \in Result : r.kind = "value" => r.from \in Sock
BY DEF Result

\* AnswersAreOwn, over the indices of the channel's sequence.
Own ==
    \A i \in Session : \A n \in 1..Len(answers[i]) :
        answers[i][n].kind = "value" => answers[i][n].from = home[i]

\* The two agree.
LEMMA OwnIsOwn == QueueTypes => (AnswersAreOwn <=> Own)
<1> SUFFICES ASSUME QueueTypes PROVE AnswersAreOwn <=> Own
  OBVIOUS
<1>1. \A i \in Session : DOMAIN answers[i] = 1..Len(answers[i])
  BY LenProperties DEF QueueTypes
<1> QED
  BY <1>1 DEF AnswersAreOwn, Own

(***************************************************************************)
(* A reply waits in the inbox of the socket its session was opened over,   *)
(* and the loop that reads it ranges over that socket.                     *)
(***************************************************************************)
LEMMA OwnKeeps == ServiceInv /\ Own /\ [Next]_vars => Own'
<1> SUFFICES ASSUME ServiceInv, Own, [Next]_vars PROVE Own'
  OBVIOUS
<1>0. LockTypes /\ SockTypes /\ SessionTypes /\ QueueTypes /\ Places /\ Locks /\ Numbers
      /\ Homes /\ Inboxes /\ Own
  BY Types DEF ServiceInv, SessionInv, SocketInv, LockInv
<1> USE <1>0, GoroutineKinds DEF LockTypes, SessionTypes, Places, Locks, Numbers,
    Reconnecting, Goto, CanRLock, AfterReconnect, lockVars, sessionVars, sockVars, txVars,
    QueueTypes, Homes, Own
<1>00. counter \in Nat /\ Session \subseteq Nat
  BY ServiceAssumption DEF Session
<1> USE <1>00
<1>1. CASE UNCHANGED <<answers, home>>
  <2>1. Own
    BY <1>0
  <2> HIDE <1>0
  <2> QED
    BY <1>1, <2>1
<1>2. ASSUME NEW g \in Caller \cup Forcer, ReconnectDisconnects(g) PROVE Own'
  <2> DEFINE d == Disconnected(g)
  <2>1. UNCHANGED answers \/ Adds(links, d)
    BY <1>2, DisconnectsAll DEF ReconnectDisconnects
  <2>2. home' = home /\ Own
    BY <1>2 DEF ReconnectDisconnects
  <2>3. d.kind # "value"
    BY DEF Disconnected
  <2> HIDE <1>0 DEF d
  <2> QED
    BY <2>1, <2>2, <2>3 DEF Adds
<1>3. ASSUME NEW c \in Caller, SendMsg(c) PROVE Own'
  <2>1. session[c] \in Session /\ home[session[c]] = None
        /\ home' = [home EXCEPT ![session[c]] = socketIO]
    BY <1>3 DEF SendMsg
  <2>2. answers' = answers
    BY <1>3 DEF SendMsg
  <2>3. ASSUME NEW i \in Session, NEW n \in 1..Len(answers[i]), answers[i][n].kind = "value"
        PROVE  answers[i][n].from = home'[i]
    <3>1. answers[i][n].from = home[i]
      BY <2>3
    <3>2. answers[i] \in Seq(Result)
      OBVIOUS
    <3>3. answers[i][n].from \in Sock
      BY <2>3, <3>2, Kinds, ElementOfSeq
    <3>4. i # session[c]
      BY <2>1, <3>1, <3>3
    <3> QED
      BY <2>1, <3>1, <3>4
  <2> HIDE <1>0
  <2> QED
    BY <2>2, <2>3
<1>4. ASSUME NEW c \in Caller, LogSends(c) PROVE Own'
  <2>1. session[c] \in Session /\ home[session[c]] = None
        /\ home' = [home EXCEPT ![session[c]] = socketIO]
    BY <1>4 DEF LogSends
  <2>2. answers' = answers
    BY <1>4 DEF LogSends
  <2>3. ASSUME NEW i \in Session, NEW n \in 1..Len(answers[i]), answers[i][n].kind = "value"
        PROVE  answers[i][n].from = home'[i]
    <3>1. answers[i][n].from = home[i]
      BY <2>3
    <3>2. answers[i] \in Seq(Result)
      OBVIOUS
    <3>3. answers[i][n].from \in Sock
      BY <2>3, <3>2, Kinds, ElementOfSeq
    <3>4. i # session[c]
      BY <2>1, <3>1, <3>3
    <3> QED
      BY <2>1, <3>1, <3>4
  <2> HIDE <1>0
  <2> QED
    BY <2>2, <2>3
<1>5. ASSUME NEW l \in Sock, LoopReads(l) PROVE Own'
  <2> DEFINE q == inbox[loopSock[l]]
             r == [kind |-> "value", from |-> loopSock[l]]
             j == Head(q)
  <2>1. q \in Seq(Session) /\ q # <<>> /\ r \in Result
    BY <1>5 DEF LoopReads, Result, SockTypes
  <2>2. j \in Session
    BY <2>1, HeadTailProperties, EmptySeq
  <2>3. \/ UNCHANGED <<answers, links>>
        \/ Adds({j}, r) /\ links' = links \ {j}
    <3>1. CASE UNCHANGED <<answers, links>>
      BY <3>1
    <3>2. CASE Pushed(j, r)
      <4>1. answers' = [answers EXCEPT ![j] = Append(@, r)] /\ links' = links \ {j}
        BY <3>2 DEF Pushed
      <4>2. answers \in [Session -> Seq(Result)]
        OBVIOUS
      <4> HIDE <1>0 DEF q, r, j
      <4> QED
        BY <2>1, <2>2, <4>1, <4>2, PushesOne
    <3> QED
      BY <1>5, <3>1, <3>2 DEF LoopReads
  <2>4. home' = home /\ home[j] = loopSock[l]
    <3>1. 1 \in 1..Len(q) /\ j = q[1]
      BY <2>1, EmptySeq, HeadTailProperties, LenProperties
    <3>2. home' = home
      BY <1>5 DEF LoopReads
    <3>3. \A n \in 1..Len(q) : home[q[n]] = loopSock[l]
      <4>1. Inboxes /\ loopSock[l] \in Sock
        BY DEF SockTypes
      <4> HIDE <1>0
      <4> QED
        BY <4>1 DEF Inboxes
    <3> HIDE <1>0 DEF q, j
    <3> QED
      BY <3>1, <3>2, <3>3
  <2>5. Own /\ r.from = loopSock[l]
    BY <1>0
  <2> HIDE <1>0 DEF q, r, j
  <2> QED
    BY <2>2, <2>3, <2>4, <2>5 DEF Adds
<1>6. ASSUME NEW l \in Sock, LoopEnds(l) PROVE Own'
  <2> DEFINE d == Disconnected(l)
  <2>1. UNCHANGED answers \/ Adds(links, d)
    BY <1>6, DisconnectsAll DEF LoopEnds
  <2>2. home' = home /\ Own
    BY <1>6 DEF LoopEnds
  <2>3. d.kind # "value"
    BY DEF Disconnected
  <2> HIDE <1>0 DEF d
  <2> QED
    BY <2>1, <2>2, <2>3 DEF Adds
<1> HIDE <1>0
<1> QED
  BY <1>1, <1>2, <1>3, <1>4, <1>5, <1>6
  DEF Next, Step, Locking, Reconnect, Call, Log, Loop, Connection, AnnounceLock,
      AcquireLock, ReconnectNotNeeded, ReconnectFails, ReconnectDisposes,
      ReconnectSwitches, ReconnectPanics, CallLooks, CallRLocks, Attach, GetAnswer, TxCall,
      LogNext, ForceReconnect, Close, CloseEnds, LoopStarts, LoopRanges, LoopReadEnds,
      RemoteDisconnects, ReadloopCloses, Reply, vars, lockVars, sessionVars, txVars,
      sockVars, loopVars

\* The same for AnswersAreOwn.
LEMMA AnswersKeep ==
    ServiceInv /\ ServiceInv' /\ AnswersAreOwn /\ [Next]_vars => AnswersAreOwn'
<1>1. ServiceInv => (AnswersAreOwn <=> Own)
  BY OwnIsOwn, Types DEF ServiceInv, SessionInv, SocketInv, LockInv
<1>2. ServiceInv' => (AnswersAreOwn' <=> Own')
  BY <1>1, PTL
<1> QED
  BY <1>1, <1>2, OwnKeeps

(***************************************************************************)
(* A value a channel gets is the answer to its own call, over the socket the *)
(* call was sent to: numbers are not reused over the service's life.       *)
(***************************************************************************)
THEOREM OwnAnswers == Spec => []AnswersAreOwn
<1>1. Init => AnswersAreOwn
  BY DEF Init, AnswersAreOwn
<1>2. ServiceInv /\ ServiceInv' /\ AnswersAreOwn /\ [Next]_vars => AnswersAreOwn'
  BY AnswersKeep
<1> QED
  BY <1>1, <1>2, ServiceInvariant, PTL DEF Spec

\* DisconnectedIsTrue, over the indices of the channel's sequence, and with the
\* goroutines it does not speak of as a set.
Exempt == Forcer \cup {l \in Sock : Torn(l)}

Gone ==
    \A i \in Session : \A n \in 1..Len(answers[i]) :
        answers[i][n].kind = "disconnected" =>
            answers[i][n].from \in Exempt \/ (home[i] # None /\ sock[home[i]] # "open")

\* The two agree.
LEMMA GoneIsTrue == QueueTypes => (DisconnectedIsTrue <=> Gone)
<1> SUFFICES ASSUME QueueTypes PROVE DisconnectedIsTrue <=> Gone
  OBVIOUS
<1>1. \A i \in Session : DOMAIN answers[i] = 1..Len(answers[i])
  BY LenProperties DEF QueueTypes
<1> QED
  BY <1>1 DEF DisconnectedIsTrue, Gone, Exempt, Torn

(***************************************************************************)
(* A torn start is for ever: a loop reads the epoch and the socket once.   *)
(***************************************************************************)
LEMMA TornKeeps == ServiceInv /\ [Next]_vars => Exempt \subseteq Exempt'
<1> SUFFICES ASSUME ServiceInv, [Next]_vars, NEW m \in Sock, Torn(m) PROVE Torn(m)'
  BY DEF Exempt
<1>0. LockTypes /\ SockTypes /\ Places /\ Locks /\ Sockets /\ Loops
  BY Types DEF ServiceInv, SessionInv, SocketInv, LockInv
<1>00. m \in Sock /\ pc[m] \notin {"start", "range"} /\ loopSock[m] < loopEpoch[m]
  BY DEF Torn
<1> DEFINE Stays == /\ pc'[m] \notin {"start", "range"}
                    /\ loopSock'[m] = loopSock[m] /\ loopEpoch'[m] = loopEpoch[m]
<1> USE <1>0, <1>00, GoroutineKinds DEF LockTypes, SockTypes, Places, Reconnecting, Goto,
        AfterReconnect, loopVars
<1>1. ASSUME NEW g \in Goroutine, AnnounceLock(g) PROVE Stays
  BY <1>1 DEF AnnounceLock
<1>2. ASSUME NEW g \in Goroutine, AcquireLock(g) PROVE Stays
  BY <1>2 DEF AcquireLock
<1>3. ASSUME NEW g \in Caller \cup Forcer, ReconnectNotNeeded(g) PROVE Stays
  BY <1>3 DEF ReconnectNotNeeded
<1>4. ASSUME NEW g \in Caller \cup Forcer, ReconnectDisconnects(g) PROVE Stays
  BY <1>4 DEF ReconnectDisconnects
<1>5. ASSUME NEW g \in Caller \cup Forcer, ReconnectFails(g) PROVE Stays
  BY <1>5 DEF ReconnectFails
<1>6. ASSUME NEW g \in Caller \cup Forcer, ReconnectDisposes(g) PROVE Stays
  BY <1>6 DEF ReconnectDisposes
<1>7. ASSUME NEW g \in Caller \cup Forcer, ReconnectSwitches(g) PROVE Stays
  <2>1. epoch = socketIO + 1 /\ g \notin Sock
    BY <1>7 DEF ReconnectSwitches, Sockets
  <2>2. epoch \in Sock /\ socketIO \in Nat /\ Loops /\ loopSock[epoch] \in Nat
    OBVIOUS
  <2>4. loopEpoch[epoch] = 0
    <3> HIDE <1>0
    <3> QED
      BY <2>1, <2>2 DEF Loops
  <2>3. m # epoch
    <3> HIDE <1>0
    <3> QED
      BY <1>00, <2>2, <2>4
  <2> QED
    BY <1>7, <2>1, <2>3 DEF ReconnectSwitches
<1>8. ASSUME NEW g \in Caller \cup Forcer, ReconnectPanics(g) PROVE Stays
  BY <1>8 DEF ReconnectPanics
<1>9. ASSUME NEW c \in Caller, CallLooks(c) PROVE Stays
  BY <1>9 DEF CallLooks
<1>10. ASSUME NEW c \in Caller, CallRLocks(c) PROVE Stays
  BY <1>10 DEF CallRLocks
<1>11. ASSUME NEW c \in Caller, Attach(c) PROVE Stays
  BY <1>11 DEF Attach
<1>12. ASSUME NEW c \in Caller, SendMsg(c) PROVE Stays
  BY <1>12 DEF SendMsg
<1>13. ASSUME NEW c \in Caller, GetAnswer(c) PROVE Stays
  BY <1>13 DEF GetAnswer
<1>14. ASSUME NEW c \in Caller, TxCall(c) PROVE Stays
  BY <1>14 DEF TxCall
<1>15. ASSUME NEW c \in Caller, LogNext(c) PROVE Stays
  BY <1>15 DEF LogNext
<1>16. ASSUME NEW c \in Caller, LogSends(c) PROVE Stays
  BY <1>16 DEF LogSends
<1>17. ASSUME NEW f \in Forcer, ForceReconnect(f) PROVE Stays
  BY <1>17 DEF ForceReconnect
<1>18. ASSUME NEW x \in Closer, Close(x) PROVE Stays
  BY <1>18 DEF Close
<1>19. ASSUME NEW x \in Closer, CloseEnds(x) PROVE Stays
  BY <1>19 DEF CloseEnds
<1>20. ASSUME NEW l \in Sock, LoopStarts(l) PROVE Stays
  BY <1>20 DEF LoopStarts
<1>21. ASSUME NEW l \in Sock, LoopRanges(l) PROVE Stays
  BY <1>21 DEF LoopRanges
<1>22. ASSUME NEW l \in Sock, LoopReads(l) PROVE Stays
  BY <1>22 DEF LoopReads
<1>23. ASSUME NEW l \in Sock, LoopReadEnds(l) PROVE Stays
  BY <1>23 DEF LoopReadEnds
<1>24. ASSUME NEW l \in Sock, LoopEnds(l) PROVE Stays
  BY <1>24 DEF LoopEnds
<1>25. ASSUME NEW k \in Sock, RemoteDisconnects(k) PROVE Stays
  BY <1>25 DEF RemoteDisconnects
<1>26. ASSUME NEW k \in Sock, ReadloopCloses(k) PROVE Stays
  BY <1>26 DEF ReadloopCloses
<1>27. ASSUME NEW k \in Sock, NEW i \in Session, Reply(k, i) PROVE Stays
  BY <1>27 DEF Reply
<1>28. ASSUME UNCHANGED vars PROVE Stays
  BY <1>28 DEF vars
<1>29. Stays
  <2> HIDE <1>0 DEF Stays
  <2> QED
    BY <1>1, <1>2, <1>3, <1>4, <1>5, <1>6, <1>7, <1>8, <1>9, <1>10, <1>11, <1>12, <1>13,
       <1>14, <1>15, <1>16, <1>17, <1>18, <1>19, <1>20, <1>21, <1>22, <1>23, <1>24, <1>25,
       <1>26, <1>27, <1>28
    DEF Next, Step, Locking, Reconnect, Call, Log, Loop, Connection
<1> HIDE <1>0
<1> QED
  BY <1>00, <1>29 DEF Torn

(***************************************************************************)
(* pushDisconnectedError finds only sessions of the current socket, and    *)
(* that socket is over, unless a forced Reconnect or a torn loop calls it. *)
(***************************************************************************)
LEMMA GoneKeeps == ServiceInv /\ Gone /\ [Next]_vars => Gone'
<1> SUFFICES ASSUME ServiceInv, Gone, [Next]_vars PROVE Gone'
  OBVIOUS
<1>01. Exempt \subseteq Exempt'
  BY TornKeeps
<1>0. LockTypes /\ SockTypes /\ SessionTypes /\ QueueTypes /\ Places /\ Locks /\ Sockets
      /\ Loops /\ Numbers /\ Homes /\ Told /\ Gone
  BY Types DEF ServiceInv, SessionInv, SocketInv, LockInv
<1> USE <1>0, GoroutineKinds DEF LockTypes, SockTypes, SessionTypes, QueueTypes, Places,
    Locks, Reconnecting, Goto, sessionVars, sockVars, txVars, Gone
<1>1. CASE UNCHANGED <<answers, home, sock>>
  <2>1. Gone
    BY <1>0
  <2> HIDE <1>0
  <2> QED
    BY <1>01, <1>1, <2>1
<1>2. ASSUME NEW g \in Caller \cup Forcer, ReconnectDisconnects(g) PROVE Gone'
  <2>1. UNCHANGED <<home, sock>> /\ Adds(links, Disconnected(g)) /\ Disconnected(g).from = g
    BY <1>2, DisconnectsAll DEF ReconnectDisconnects, Disconnected
  <2>2. ASSUME NEW i \in links PROVE home[i] = socketIO
    <3>1. \A c \in Caller : pc[c] # "send"
      BY <1>2, WriterAlone DEF ReconnectDisconnects
    <3>2. Told
      BY <1>0
    <3> HIDE <1>0
    <3> QED
      BY <3>1, <3>2 DEF Told
  <2>3. Gone /\ socketIO # None
    BY <1>0
  <2>4. g \in Exempt \/ sock[socketIO] = "closed"
    BY <1>2 DEF ReconnectDisconnects, IsClosed, Exempt
  <2> HIDE <1>0
  <2> QED
    BY <1>01, <2>1, <2>2, <2>3, <2>4 DEF Adds
<1>3. ASSUME NEW g \in Caller \cup Forcer, ReconnectDisposes(g) PROVE Gone'
  <2>1. UNCHANGED <<answers, home>>
    BY <1>3 DEF ReconnectDisposes
  <2>2. epoch = socketIO /\ epoch' = epoch + 1
    BY <1>3 DEF ReconnectDisposes, Sockets
  <2>3. \A k \in Sock : k <= socketIO /\ sock[k] # "open" => sock'[k] # "open"
    BY <1>3, <2>2 DEF ReconnectDisposes
  <2>4. Gone /\ \A i \in Session : home[i] # None => home[i] \in Sock /\ home[i] <= socketIO
    BY <1>0 DEF Homes
  <2> HIDE <1>0
  <2> QED
    BY <1>01, <2>1, <2>3, <2>4
<1>4. ASSUME NEW c \in Caller, SendMsg(c) PROVE Gone'
  <2>1. session[c] \in Session /\ home[session[c]] = None
        /\ home' = [home EXCEPT ![session[c]] = socketIO]
    BY <1>4 DEF SendMsg, Numbers, Homes
  <2>2. UNCHANGED <<answers, sock>>
    BY <1>4 DEF SendMsg
  <2>3. \A i \in Session : home[i] # None => home'[i] = home[i]
    BY <2>1
  <2>4. Gone
    BY <1>0
  <2> HIDE <1>0
  <2> QED
    BY <1>01, <2>2, <2>3, <2>4
<1>5. ASSUME NEW c \in Caller, LogSends(c) PROVE Gone'
  <2>1. session[c] \in Session /\ home[session[c]] = None
        /\ home' = [home EXCEPT ![session[c]] = socketIO]
    BY <1>5 DEF LogSends, Numbers, Homes
  <2>2. UNCHANGED <<answers, sock>>
    BY <1>5 DEF LogSends
  <2>3. \A i \in Session : home[i] # None => home'[i] = home[i]
    BY <2>1
  <2>4. Gone
    BY <1>0
  <2> HIDE <1>0
  <2> QED
    BY <1>01, <2>2, <2>3, <2>4
<1>6. ASSUME NEW x \in Closer, Close(x) PROVE Gone'
  <2>1. UNCHANGED <<answers, home>>
    BY <1>6 DEF Close
  <2>2. \A k \in Sock : sock[k] # "open" => sock'[k] # "open"
    BY <1>6 DEF Close
  <2>3. Gone /\ home \in [Session -> Sock \cup {None}]
    BY <1>0
  <2> HIDE <1>0
  <2> QED
    BY <1>01, <2>1, <2>2, <2>3
<1>7. ASSUME NEW x \in Closer, CloseEnds(x) PROVE Gone'
  <2>1. UNCHANGED <<answers, home>>
    BY <1>7 DEF CloseEnds
  <2>2. \A k \in Sock : sock[k] # "open" => sock'[k] # "open"
    BY <1>7 DEF CloseEnds
  <2>3. Gone /\ home \in [Session -> Sock \cup {None}]
    BY <1>0
  <2> HIDE <1>0
  <2> QED
    BY <1>01, <2>1, <2>2, <2>3
<1>8. ASSUME NEW l \in Sock, LoopReads(l) PROVE Gone'
  <2> DEFINE q == inbox[loopSock[l]]
             r == [kind |-> "value", from |-> loopSock[l]]
             j == Head(q)
  <2>1. q \in Seq(Session) /\ q # <<>> /\ r \in Result
    BY <1>8 DEF LoopReads, Result, SockTypes
  <2>2. j \in Session
    BY <2>1, HeadTailProperties, EmptySeq
  <2>3. \/ UNCHANGED <<answers, links>>
        \/ Adds({j}, r) /\ links' = links \ {j}
    <3>1. CASE UNCHANGED <<answers, links>>
      BY <3>1
    <3>2. CASE Pushed(j, r)
      <4>1. answers' = [answers EXCEPT ![j] = Append(@, r)] /\ links' = links \ {j}
        BY <3>2 DEF Pushed
      <4>2. answers \in [Session -> Seq(Result)]
        OBVIOUS
      <4> HIDE <1>0 DEF q, r, j
      <4> QED
        BY <2>1, <2>2, <4>1, <4>2, PushesOne
    <3> QED
      BY <1>8, <3>1, <3>2 DEF LoopReads
  <2>4. UNCHANGED <<home, sock>> /\ Gone /\ r.kind # "disconnected"
    BY <1>8 DEF LoopReads
  <2> HIDE <1>0 DEF q, r, j
  <2> QED
    BY <1>01, <2>3, <2>4 DEF Adds
<1>9. ASSUME NEW l \in Sock, LoopEnds(l) PROVE Gone'
  <2>1. UNCHANGED <<home, sock>>
    BY <1>9 DEF LoopEnds
  <2>2. ASSUME NEW i \in links PROVE home[i] = socketIO
    <3>1. \A c \in Caller : pc[c] # "send"
      BY <1>9, WriterAlone DEF LoopEnds
    <3>2. Told
      BY <1>0
    <3> HIDE <1>0
    <3> QED
      BY <3>1, <3>2 DEF Told
  <2>3. CASE loopEpoch[l] # epoch
    <3>1. UNCHANGED answers /\ Gone
      BY <1>9, <2>3 DEF LoopEnds
    <3> HIDE <1>0
    <3> QED
      BY <1>01, <2>1, <3>1
  <2>4. CASE loopEpoch[l] = epoch
    <3>1. pc[l] = "end" /\ Loops /\ Sockets
      BY <1>9 DEF LoopEnds
    <3>2. l \in Exempt \/ sock[socketIO] # "open"
      <4>1. CASE loopSock[l] < loopEpoch[l]
        BY <3>1, <4>1 DEF Exempt, Torn
      <4>2. CASE ~(loopSock[l] < loopEpoch[l])
        <5>1. loopSock[l] <= socketIO /\ socketIO <= epoch
          <6>1. socketIO \in Nat /\ (epoch = socketIO \/ epoch = socketIO + 1)
            BY <3>1 DEF Sockets
          <6> HIDE <1>0
          <6> QED
            BY <3>1, <6>1 DEF Loops
        <5>2. loopSock[l] \in Nat /\ epoch \in Nat /\ socketIO \in Nat
          OBVIOUS
        <5>3. loopSock[l] = socketIO
          <6> HIDE <1>0
          <6> QED
            BY <2>4, <4>2, <5>1, <5>2
        <5> QED
          BY <3>1, <5>3 DEF Loops
      <4> QED
        BY <4>1, <4>2
    <3>3. Adds(links, Disconnected(l)) /\ Disconnected(l).from = l
      BY <1>9, <2>4, DisconnectsAll DEF LoopEnds, Disconnected
    <3>4. Gone /\ socketIO # None
      BY <1>0
    <3> HIDE <1>0
    <3> QED
      BY <1>01, <2>1, <2>2, <3>2, <3>3, <3>4 DEF Adds
  <2> QED
    BY <2>3, <2>4
<1>10. ASSUME NEW k \in Sock, RemoteDisconnects(k) PROVE Gone'
  <2>1. UNCHANGED <<answers, home>>
    BY <1>10 DEF RemoteDisconnects
  <2>2. \A m \in Sock : sock[m] # "open" => sock'[m] # "open"
    BY <1>10 DEF RemoteDisconnects
  <2>3. Gone /\ home \in [Session -> Sock \cup {None}]
    BY <1>0
  <2> HIDE <1>0
  <2> QED
    BY <1>01, <2>1, <2>2, <2>3
<1>11. ASSUME NEW k \in Sock, ReadloopCloses(k) PROVE Gone'
  <2>1. UNCHANGED <<answers, home>>
    BY <1>11 DEF ReadloopCloses
  <2>2. \A m \in Sock : sock[m] # "open" => sock'[m] # "open"
    BY <1>11 DEF ReadloopCloses
  <2>3. Gone /\ home \in [Session -> Sock \cup {None}]
    BY <1>0
  <2> HIDE <1>0
  <2> QED
    BY <1>01, <2>1, <2>2, <2>3
<1>12. ASSUME NEW g \in Goroutine,
             AnnounceLock(g) \/ AcquireLock(g) \/ ReconnectNotNeeded(g) \/
             ReconnectFails(g) \/ ReconnectSwitches(g) \/ ReconnectPanics(g) \/
             CallLooks(g) \/ CallRLocks(g) \/ Attach(g) \/ GetAnswer(g) \/ TxCall(g) \/
             LogNext(g) \/ ForceReconnect(g) \/ LoopStarts(g) \/ LoopRanges(g) \/
             LoopReadEnds(g)
      PROVE  UNCHANGED <<answers, home, sock>>
  BY <1>12 DEF AnnounceLock, AcquireLock, ReconnectNotNeeded, ReconnectFails, ReconnectSwitches,
        ReconnectPanics, CallLooks, CallRLocks, Attach, GetAnswer, TxCall, LogNext,
        ForceReconnect, LoopStarts, LoopRanges, LoopReadEnds, lockVars,
        sessionVars, txVars, sockVars, loopVars
<1>13. ASSUME NEW k \in Sock, NEW i \in Session, Reply(k, i)
      PROVE  UNCHANGED <<answers, home, sock>>
  BY <1>13 DEF Reply, sessionVars, sockVars, loopVars
<1>14. CASE UNCHANGED vars
  BY <1>1, <1>14 DEF vars, sessionVars, sockVars, loopVars
<1> HIDE <1>0
<1>15. CASE Next
  BY <1>1, <1>2, <1>3, <1>4, <1>5, <1>6, <1>7, <1>8, <1>9, <1>10, <1>11, <1>12, <1>13,
     <1>15, GoroutineKinds
  DEF Next, Step, Locking, Reconnect, Call, Log, Loop, Connection, Goroutine
<1> QED
  BY <1>14, <1>15

\* The same for DisconnectedIsTrue.
LEMMA DisconnectedKeeps ==
    ServiceInv /\ ServiceInv' /\ DisconnectedIsTrue /\ [Next]_vars => DisconnectedIsTrue'
<1>1. ServiceInv => (DisconnectedIsTrue <=> Gone)
  BY GoneIsTrue, Types DEF ServiceInv, SessionInv, SocketInv, LockInv
<1>2. ServiceInv' => (DisconnectedIsTrue' <=> Gone')
  BY <1>1, PTL
<1> QED
  BY <1>1, <1>2, GoneKeeps

(***************************************************************************)
(* A channel is told Disconnected only when its own socket is over, by a   *)
(* forced Reconnect, or by a torn loop.  The theorem says nothing of what a *)
(* torn loop tells; the loop of a replaced socket that is not torn never    *)
(* fails the calls made over the new one.                                  *)
(***************************************************************************)
THEOREM DisconnectedUnlessTorn == Spec => []DisconnectedIsTrue
<1>1. Init => DisconnectedIsTrue
  BY DEF Init, DisconnectedIsTrue
<1>2. ServiceInv /\ ServiceInv' /\ DisconnectedIsTrue /\ [Next]_vars => DisconnectedIsTrue'
  BY DisconnectedKeeps
<1> QED
  BY <1>1, <1>2, ServiceInvariant, PTL DEF Spec
=============================================================================
