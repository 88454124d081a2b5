------------------------ MODULE WorkerControl_proofs ------------------------
(***************************************************************************)
(* Proofs about WorkerControl, for any number of goroutines that call Stop *)
(* and any number of waiting messages, and about the bridge that runs such *)
(* a worker (Bridge), for any length of the child's reply.                 *)
(***************************************************************************)
EXTENDS WorkerControl, Bridge, TLAPS

\* While Run goes on, also inside the Stop after a terminate, both clocks are
\* watched; ClocksAreWatched alone says nothing of that Stop, from which the
\* main goroutine comes back to its select.
Watched ==
    main \in {"send", "select", "termHandler", "termSend", "stopTerminated"} =>
        /\ awaiting => disown.armed \/ disown.tick = 1
        /\ heartbeat.armed \/ heartbeat.tick = 1

\* Nothing of the connection comes to an end before Stop has closed w.stopped,
\* unless the runtime is gone or has sent what does not decode.
EndIsCaused ==
    /\ \A a \in Actor : stop[a] \in {"up", "down", "sock"} => stopped
    /\ sockClosed \/ readloop # "reading" \/ down # "open" => stopped \/ runtime # "up"

\* The inductive invariant.
ControlInv == TypeOK /\ Watched /\ EndIsCaused /\ StopIsNotALoss

-----------------------------------------------------------------------------
\* The first state of newWorkerNG satisfies the invariant.
LEMMA ControlInit == Init => ControlInv
<1> SUFFICES ASSUME Init PROVE ControlInv
  OBVIOUS
<1>1. [armed |-> FALSE, tick |-> 0] \in Timer
  BY DEF Timer
<1>2. TypeOK
  <2>1. heartbeat \in Timer /\ disown \in Timer
    BY <1>1, Zenon DEF Init
  <2>2. stop \in [Actor -> {"idle", "enter", "close", "up", "down", "sock", "done"}]
    BY DEF Init
  <2>3. inbox \in Seq({"heartbeat", "terminate", "other"})
    BY DEF Init
  <2> QED
    BY <2>1, <2>2, <2>3 DEF Init, TypeOK
<1>3. Watched /\ EndIsCaused /\ StopIsNotALoss
  BY DEF Init, Watched, EndIsCaused, StopIsNotALoss
<1> QED
  BY <1>2, <1>3 DEF ControlInv

\* Both timers, reset by onHeartbeatTimeout.
LEMMA BeatKeeps ==
    ASSUME ControlInv, OnHeartbeatTimeout, main \in {"announce", "select"}
    PROVE  ControlInv'
<1>1. [armed |-> TRUE, tick |-> 0] \in Timer
  BY DEF Timer
<1>2. disown' \in Timer /\ disown'.armed
  BY DEF OnHeartbeatTimeout, ControlInv, TypeOK, Timer
<1>3. TypeOK'
  BY <1>1, <1>2 DEF OnHeartbeatTimeout, ControlInv, TypeOK, stopVars, connVars
<1>4. heartbeat'.armed
  BY DEF OnHeartbeatTimeout
<1>5. Watched'
  BY <1>2, <1>4 DEF Watched
<1>6. EndIsCaused' /\ StopIsNotALoss'
  BY DEF OnHeartbeatTimeout, ControlInv, EndIsCaused, StopIsNotALoss, stopVars, connVars
<1> QED
  BY <1>3, <1>5, <1>6 DEF ControlInv

\* The steps of the main goroutine before and between its selects preserve it.
LEMMA MainKeeps ==
    ASSUME ControlInv,
           \/ SendHandshake \/ HandshakeTimeout \/ Announce \/ HeartbeatSent
           \/ TerminationHandlerEnds \/ TerminateReply \/ OwnStopDone
    PROVE  ControlInv'
<1> USE ControlAssumption DEF ControlInv, TypeOK, Timer, Watched, EndIsCaused, StopIsNotALoss,
        Actor, timerVars, stopVars, connVars
<1>1. CASE SendHandshake
  BY <1>1 DEF SendHandshake
<1>2. CASE HandshakeTimeout
  BY <1>2 DEF HandshakeTimeout
<1>3. CASE Announce
  BY <1>3, BeatKeeps DEF Announce
<1>4. CASE HeartbeatSent
  BY <1>4 DEF HeartbeatSent
<1>5. CASE TerminationHandlerEnds
  BY <1>5 DEF TerminationHandlerEnds
<1>6. CASE TerminateReply
  BY <1>6 DEF TerminateReply
<1>7. CASE OwnStopDone
  BY <1>7 DEF OwnStopDone
<1> QED
  BY <1>1, <1>2, <1>3, <1>4, <1>5, <1>6, <1>7

\* The cases of the select preserve it.
LEMMA SelectKeeps ==
    ASSUME ControlInv, Select
    PROVE  ControlInv'
<1> USE ControlAssumption DEF ControlInv, TypeOK, Timer, Watched, EndIsCaused, StopIsNotALoss,
        Actor, timerVars, stopVars, connVars
<1>1. CASE HeartbeatTick
  BY <1>1, BeatKeeps DEF HeartbeatTick
<1>2. CASE DisownTick
  BY <1>2 DEF DisownTick
<1>3. CASE StoppedSeen
  BY <1>3 DEF StoppedSeen
<1>4. CASE ReadClosed
  BY <1>4 DEF ReadClosed
<1>5. CASE OnHeartbeat
  <2>1. disown' \in Timer
    BY <1>5 DEF OnHeartbeat
  <2>2. inbox' \in Seq({"heartbeat", "terminate", "other"})
    BY <1>5 DEF OnHeartbeat, Read
  <2>3. TypeOK'
    <3>1. TypeOK
      OBVIOUS
    <3>2. awaiting' = FALSE /\ UNCHANGED <<main, result, heartbeat, stop, stopped, panicked,
                                          up, down, sockClosed, readloop, runtime>>
      BY <1>5 DEF OnHeartbeat, Read
    <3> HIDE ControlAssumption DEF ControlInv, Timer, Actor, Watched, EndIsCaused, StopIsNotALoss
    <3>3. awaiting' \in BOOLEAN
      BY <3>2, Zenon
    <3>4. stopped' \in BOOLEAN /\ panicked' \in BOOLEAN /\ sockClosed' \in BOOLEAN
      BY <3>1, <3>2, Zenon
    <3> QED
      BY <2>1, <2>2, <3>1, <3>2, <3>3, <3>4
  <2>4. Watched' /\ EndIsCaused' /\ StopIsNotALoss'
    BY <1>5 DEF OnHeartbeat, Read
  <2> QED
    BY <2>3, <2>4
<1>6. CASE OnTerminate
  BY <1>6 DEF OnTerminate, Read
<1>7. CASE OnOther
  BY <1>7 DEF OnOther, Read
<1> QED
  BY <1>1, <1>2, <1>3, <1>4, <1>5, <1>6, <1>7 DEF Select

\* The steps of Stop, by the application or by the main goroutine, preserve it.
LEMMA StopKeeps ==
    ASSUME ControlInv, NEW a \in Actor, (a \in User /\ UserStop(a)) \/ Stop(a)
    PROVE  ControlInv'
<1> USE ControlAssumption DEF ControlInv, TypeOK, Timer, Watched, EndIsCaused, StopIsNotALoss,
        Actor, timerVars, stopVars, connVars
<1>1. CASE UserStop(a)
  BY <1>1 DEF UserStop
<1>2. CASE StopLooks(a)
  BY <1>2 DEF StopLooks
<1>3. CASE StopCloses(a)
  BY <1>3 DEF StopCloses
<1>4. CASE StopUp(a)
  BY <1>4 DEF StopUp
<1>5. CASE StopDown(a)
  BY <1>5 DEF StopDown
<1>6. CASE StopSock(a)
  BY <1>6 DEF StopSock
<1> QED
  BY <1>1, <1>2, <1>3, <1>4, <1>5, <1>6 DEF Stop

\* The timers, the connection and the runtime preserve it.
LEMMA EnvironmentKeeps ==
    ASSUME ControlInv, Environment
    PROVE  ControlInv'
<1> USE ControlAssumption DEF ControlInv, TypeOK, Timer, Watched, EndIsCaused, StopIsNotALoss,
        Actor, timerVars, stopVars, connVars
<1>1. CASE DisownFires
  BY <1>1 DEF DisownFires, Fired
<1>2. CASE HeartbeatFires
  BY <1>2 DEF HeartbeatFires, Fired
<1>3. CASE ReadloopFails
  BY <1>3 DEF ReadloopFails
<1>4. CASE ReadloopCloses
  BY <1>4 DEF ReadloopCloses
<1>5. CASE RuntimeDies \/ RuntimeGarbles
  BY <1>5 DEF RuntimeDies, RuntimeGarbles
<1>6. ASSUME NEW t \in {"heartbeat", "terminate", "other"}, RuntimeSends(t)
      PROVE  ControlInv'
  BY <1>6 DEF RuntimeSends
<1> QED
  BY <1>1, <1>2, <1>3, <1>4, <1>5, <1>6 DEF Environment

\* No step, and no stuttering, breaks the invariant.
LEMMA ControlKept == ControlInv /\ [Next]_vars => ControlInv'
<1> SUFFICES ASSUME ControlInv, [Next]_vars PROVE ControlInv'
  OBVIOUS
<1>1. CASE Main
  BY <1>1, MainKeeps, SelectKeeps DEF Main
<1>2. CASE \E u \in User : UserStop(u)
  BY <1>2, StopKeeps DEF Actor
<1>3. CASE \E a \in Actor : Stop(a)
  BY <1>3, StopKeeps
<1>4. CASE Environment
  BY <1>4, EnvironmentKeeps
<1>5. CASE UNCHANGED vars
  BY <1>5 DEF vars, ControlInv, TypeOK, Watched, EndIsCaused, StopIsNotALoss
<1> QED
  BY <1>1, <1>2, <1>3, <1>4, <1>5 DEF Next

\* The invariant holds in every reachable state.
THEOREM ControlInvariant == Spec => []ControlInv
BY ControlInit, ControlKept, PTL DEF Spec

(***************************************************************************)
(* The fields of the worker keep their types; the channel of a timer never *)
(* holds a second tick.                                                    *)
(***************************************************************************)
THEOREM TypeCorrect == Spec => []TypeOK
<1>1. ControlInv => TypeOK
  BY DEF ControlInv
<1> QED
  BY <1>1, ControlInvariant, PTL

(***************************************************************************)
(* Run reports a lost connection only when the runtime is gone or has sent *)
(* a frame that does not decode, whichever goroutines call Stop and        *)
(* whenever: w.stopped is closed before anything of the connection is.     *)
(***************************************************************************)
THEOREM StopIsNoLoss == Spec => []StopIsNotALoss
<1>1. ControlInv => StopIsNotALoss
  BY DEF ControlInv
<1> QED
  BY <1>1, ControlInvariant, PTL

(***************************************************************************)
(* While Run goes on, an unanswered heartbeat is under the disown timer and*)
(* the next heartbeat is scheduled.                                        *)
(***************************************************************************)
THEOREM ClocksWatched == Spec => []ClocksAreWatched
<1>1. ControlInv => ClocksAreWatched
  BY DEF ControlInv, Watched, ClocksAreWatched
<1> QED
  BY <1>1, ControlInvariant, PTL

-----------------------------------------------------------------------------
(* The bridge, which runs such a worker. *)

\* The reply begins with a refusal; or with the child's head and the pieces of
\* its body that were copied so far.
Refusal == \E code \in {400, 408, 500} :
    /\ Len(reply) >= 2
    /\ reply[1] = WriteHead(code) /\ reply[2] = Body(0)
Copy ==
    /\ Len(reply) >= copied + 1
    /\ \A k \in 1..(copied + 1) :
        reply[k] = IF k = 1 THEN WriteHead(ChildsCode) ELSE Body(k - 1)

\* Where the handler is tells how far its reply has come.
ReplyInv ==
    /\ handler \in {"none", "read", "unpack", "do"} => reply = <<>> /\ copied = 0
    /\ handler = "copy" => Copy /\ Len(reply) = copied + 1
    /\ handler = "close" =>
        \/ Refusal /\ Len(reply) = 2
        \/ Copy /\ Len(reply) = copied + 1 /\ (copied = BodyLen \/ dropped)
    /\ handler = "done" =>
        /\ reply # <<>> /\ reply[Len(reply)] = Closed
        /\ \/ Refusal /\ Len(reply) = 3
           \/ Copy /\ Len(reply) = copied + 2 /\ (copied = BodyLen \/ dropped)

BridgeInv == BridgeTypeOK /\ ReplyInv

\* What the fallback handler sends.
LEMMA Chunks ==
    /\ \A code \in {ChildsCode, 400, 408, 500} : WriteHead(code) \in Chunk
    /\ \A n \in 0..BodyLen : Body(n) \in Chunk
    /\ Closed \in Chunk
BY BridgeAssumption DEF Chunk, WriteHead, Body, Closed

\* NewBridge's state satisfies the invariant.
LEMMA BridgeStarts == BridgeInit => BridgeInv
<1> USE BridgeAssumption
<1> SUFFICES ASSUME BridgeInit PROVE BridgeInv
  OBVIOUS
<1>1. BridgeTypeOK
  <2>1. reply \in Seq(Chunk)
    BY DEF BridgeInit
  <2>2. copied \in 0..BodyLen
    BY DEF BridgeInit
  <2> QED
    BY <2>1, <2>2 DEF BridgeInit, BridgeTypeOK, Signal
<1>2. ReplyInv
  BY DEF BridgeInit, ReplyInv
<1> QED
  BY <1>1, <1>2 DEF BridgeInv

\* A step of main, of the pinger, of the event loop or of the child leaves the
\* reply alone.
LEMMA AwayFromReply ==
    ASSUME BridgeInv,
           \/ BridgeMain \/ Pinger \/ DeadlinePasses \/ SignalComes
           \/ ChildListens \/ ChildExits
           \/ \E s \in Signal : EventLoop(s)
    PROVE  BridgeInv'
<1> USE BridgeAssumption
<1> USE DEF BridgeInv, childVars, replyVars
<1>1. UNCHANGED <<handler, copied, dropped, reply>>
  BY DEF BridgeMain, StartPings, SpawnFails, Spawn, WaitReturns,
         Close, Pinger, Ping, PingChecks, RunReturns,
         DeadlinePasses, SignalComes, ChildListens, ChildExits,
         EventLoop
<1>2. ReplyInv'
  BY <1>1 DEF ReplyInv, Copy, Refusal
<1>3. BridgeTypeOK'
  <2> USE DEF BridgeMain, StartPings, SpawnFails, Spawn, WaitReturns,
              Close, StartReturns, Pinger, Ping, PingChecks,
              RunReturns, DeadlinePasses, SignalComes, ChildListens,
              ChildExits, EventLoop, BridgeTypeOK
  <2>1. bridge' \in {"start", "spawn", "wait", "close", "exited", "panicked"}
    BY Zenon
  <2>2. onClose' \subseteq {"start", "bridge"}
    OBVIOUS
  <2>3. pinger' \in {"none", "ping", "check", "run", "ended"}
    BY Zenon
  <2>4. deadline' \in BOOLEAN
    BY Zenon
  <2>5. worker' \in {"idle", "running", "returned"} /\ child' \in {"none", "running", "listening", "exited"}
    BY Zenon
  <2>6. pending' \subseteq Signal /\ seen' \subseteq Signal
    BY DEF Signal
  <2> QED
    BY <1>1, <2>1, <2>2, <2>3, <2>4, <2>5, <2>6
<1> QED
  BY <1>2, <1>3

\* A step of the handler that sends some chunks keeps the types.
LEMMA HandleTypes ==
    ASSUME BridgeTypeOK,
           NEW from, NEW to \in {"none", "read", "unpack", "do", "copy", "close", "done"},
           NEW chunks \in Seq(Chunk),
           Handle(from, to, chunks), copied' \in 0..BodyLen
    PROVE  BridgeTypeOK'
<1> USE BridgeAssumption
<1>1. reply' \in Seq(Chunk)
  BY DEF Handle, BridgeTypeOK
<1> QED
  BY <1>1 DEF Handle, BridgeTypeOK, childVars

\* A refusal, at whatever point of the request.
LEMMA RefuseKeeps ==
    ASSUME BridgeInv, NEW from \in {"read", "unpack", "do"},
           NEW code \in {400, 408, 500}, Refuse(from, code)
    PROVE  BridgeInv'
<1> USE BridgeAssumption
<1> DEFINE chunks == <<WriteHead(code), Body(0)>>
<1>1. chunks \in Seq(Chunk) /\ Len(chunks) = 2
  BY Chunks
<1>2. reply = <<>> /\ handler' = "close" /\ copied' = copied /\ copied \in 0..BodyLen
  BY DEF BridgeInv, ReplyInv, Refuse, Handle, BridgeTypeOK
<1>3. reply' = chunks
  BY <1>1, <1>2 DEF Refuse, Handle
<1>4. BridgeTypeOK'
  <2>1. BridgeTypeOK /\ Handle(from, "close", chunks)
    BY DEF BridgeInv, Refuse
  <2> HIDE DEF chunks
  <2> QED
    BY <1>1, <1>2, <2>1, HandleTypes
<1>5. ReplyInv'
  BY <1>1, <1>2, <1>3 DEF ReplyInv, Refusal
<1> QED
  BY <1>4, <1>5 DEF BridgeInv

\* Every other step of the handler.
LEMMA HandlerKeeps ==
    ASSUME BridgeInv, Handler
    PROVE  BridgeInv'
<1> USE BridgeAssumption
<1>0. copied \in 0..BodyLen /\ reply \in Seq(Chunk) /\ <<>> \in Seq(Chunk)
  BY DEF BridgeInv, BridgeTypeOK
<1>1. CASE ReadFails \/ Malformed \/ DoFails
  BY <1>1, RefuseKeeps DEF ReadFails, Malformed, DoFails
<1>2. CASE Invoked \/ ReadRequest \/ Unpacked
  <2>1. PICK from \in {"none", "read", "unpack"}, to \in {"read", "unpack", "do"} :
          Handle(from, to, <<>>) /\ UNCHANGED copied
    BY <1>2 DEF Invoked, ReadRequest, Unpacked
  <2>2. BridgeTypeOK'
    BY <1>0, <2>1, HandleTypes DEF BridgeInv
  <2>3. reply' = <<>> /\ handler' = to /\ copied' = 0
    BY <2>1 DEF BridgeInv, ReplyInv, Handle
  <2> QED
    BY <2>2, <2>3 DEF BridgeInv, ReplyInv
<1>3. CASE Do
  <2> DEFINE chunks == <<WriteHead(ChildsCode)>>
  <2>1. chunks \in Seq(Chunk) /\ Len(chunks) = 1
    BY Chunks
  <2>2. reply' = chunks /\ handler' = "copy" /\ copied' = 0
    BY <1>3, <2>1 DEF Do, Handle, BridgeInv, ReplyInv
  <2>3. BridgeTypeOK'
    BY <1>0, <1>3, <2>1, HandleTypes DEF BridgeInv, Do
  <2>4. ReplyInv'
    BY <2>1, <2>2 DEF ReplyInv, Copy
  <2> QED
    BY <2>3, <2>4 DEF BridgeInv
<1>4. CASE ConnectionDrops
  BY <1>4 DEF ConnectionDrops, BridgeInv, BridgeTypeOK, ReplyInv, Copy, childVars
<1>5. CASE CopyWrites
  <2> DEFINE chunks == <<Body(copied')>>
  <2>1. copied < BodyLen /\ copied' = copied + 1 /\ copied' \in 0..BodyLen
    BY <1>0, <1>5 DEF CopyWrites
  <2>2. chunks \in Seq(Chunk) /\ Len(chunks) = 1
    BY <2>1, Chunks
  <2>3. reply' = reply \o chunks /\ handler = "copy" /\ handler' = "copy"
    BY <1>5 DEF CopyWrites, Handle
  <2>4. Copy /\ Len(reply) = copied + 1
    BY <2>3 DEF BridgeInv, ReplyInv
  <2>5. Len(reply') = copied' + 1 /\ reply'[copied' + 1] = Body(copied')
        /\ \A k \in 1..(copied + 1) : reply'[k] = reply[k]
    BY <1>0, <2>1, <2>2, <2>3, <2>4
  <2>6. Copy'
    BY <1>0, <2>1, <2>4, <2>5 DEF Copy
  <2>7. BridgeTypeOK'
    BY <1>5, <2>1, <2>2, HandleTypes DEF BridgeInv, CopyWrites
  <2> QED
    BY <2>3, <2>5, <2>6, <2>7 DEF BridgeInv, ReplyInv
<1>6. CASE CopyEnds
  <2>1. /\ copied = BodyLen \/ dropped
        /\ reply' = reply \o <<>> /\ handler = "copy" /\ handler' = "close"
        /\ UNCHANGED <<copied, dropped>>
    BY <1>6 DEF CopyEnds, Handle
  <2>2. reply' = reply
    BY <1>0, <2>1
  <2>3. BridgeTypeOK'
    BY <1>0, <1>6, <2>1, HandleTypes DEF BridgeInv, CopyEnds
  <2> QED
    BY <2>1, <2>2, <2>3 DEF BridgeInv, ReplyInv, Copy
<1>7. CASE ResponseClose
  <2> DEFINE chunks == <<Closed>>
  <2>1. chunks \in Seq(Chunk) /\ Len(chunks) = 1
    BY Chunks
  <2>2. /\ reply' = reply \o chunks /\ handler = "close" /\ handler' = "done"
        /\ UNCHANGED <<copied, dropped>>
    BY <1>7 DEF ResponseClose, Handle
  <2>3. /\ Len(reply') = Len(reply) + 1 /\ reply'[Len(reply')] = Closed
        /\ \A k \in 1..Len(reply) : reply'[k] = reply[k]
    BY <1>0, <2>1, <2>2
  <2>4. BridgeTypeOK'
    BY <1>0, <1>7, <2>1, <2>2, HandleTypes DEF BridgeInv, ResponseClose
  <2>5. Refusal /\ Len(reply) = 2 => Refusal' /\ Len(reply') = 3
    BY <2>3 DEF Refusal
  <2>6. ASSUME Copy, Len(reply) = copied + 1
        PROVE  Copy' /\ Len(reply') = copied' + 2
    <3>1. copied' = copied /\ Len(reply') = copied + 2
      BY <1>0, <2>2, <2>3, <2>6
    <3>2. \A k \in 1..(copied + 1) : reply'[k] = reply[k]
      BY <2>3, <2>6
    <3> QED
      BY <1>0, <2>6, <3>1, <3>2 DEF Copy
  <2>7. reply' # <<>>
    BY <1>0, <2>1, <2>2
  <2> QED
    BY <2>2, <2>3, <2>4, <2>5, <2>6, <2>7 DEF BridgeInv, ReplyInv
<1> QED
  BY <1>1, <1>2, <1>3, <1>4, <1>5, <1>6, <1>7 DEF Handler

\* The invariant holds in every reachable state of the bridge.
THEOREM BridgeInvariant == BridgeSpec => []BridgeInv
<1> USE BridgeAssumption
<1>1. BridgeInit => BridgeInv
  BY BridgeStarts
<1>2. BridgeInv /\ [BridgeNext]_bridgeVars => BridgeInv'
  <2> SUFFICES ASSUME BridgeInv, [BridgeNext]_bridgeVars PROVE BridgeInv'
    OBVIOUS
  <2>1. CASE UNCHANGED bridgeVars
    BY <2>1 DEF bridgeVars, childVars, replyVars, BridgeInv, BridgeTypeOK,
                ReplyInv, Copy, Refusal
  <2>2. CASE BridgeNext
    BY <2>2, AwayFromReply, HandlerKeeps DEF BridgeNext
  <2> QED
    BY <2>1, <2>2
<1> QED
  BY <1>1, <1>2, PTL DEF BridgeSpec

(***************************************************************************)
(* The bridge's goroutines and the reply keep their types, whatever the    *)
(* length of the child's body: no more pieces are copied than it has.      *)
(***************************************************************************)
THEOREM BridgeTypeCorrect == BridgeSpec => []BridgeTypeOK
<1> USE BridgeAssumption
<1>1. BridgeInv => BridgeTypeOK
  BY DEF BridgeInv
<1> QED
  BY <1>1, BridgeInvariant, PTL

(***************************************************************************)
(* A client of the bridge gets one head, the body in order and one close,  *)
(* and the child's whole body unless the connection broke, for every length*)
(* of the body and whatever the child, the signals and the worker do.      *)
(***************************************************************************)
THEOREM BridgeReplies == BridgeSpec => []ReplyIsTheChilds
<1> USE BridgeAssumption
<1>1. BridgeInv => ReplyIsTheChilds
  <2> SUFFICES ASSUME BridgeInv PROVE ReplyIsTheChilds
    OBVIOUS
  <2>0. /\ copied \in 0..BodyLen /\ reply \in Seq(Chunk)
        /\ handler \in {"none", "read", "unpack", "do", "copy", "close", "done"}
    BY DEF BridgeInv, BridgeTypeOK
  <2>1. CASE reply = <<>>
    BY <2>1 DEF ReplyIsTheChilds
  <2>2. CASE Refusal /\ (Len(reply) = 2 \/ (Len(reply) = 3 /\ reply[3] = Closed))
    <3>1. /\ reply[1].kind = "head" /\ reply[1] # Closed /\ reply[1].code # ChildsCode
          /\ reply[2].kind = "body" /\ reply[2] # Closed
      BY <2>2 DEF Refusal, WriteHead, Body, Closed, ChildsCode
    <3>2. Closed.kind # "head"
      BY DEF Closed
    <3>3. 1 \in DOMAIN reply /\ \A k \in DOMAIN reply : k = 1 \/ k = 2 \/ (k = 3 /\ Len(reply) = 3)
      BY <2>0, <2>2
    <3>4. \A k \in DOMAIN reply :
            /\ reply[k].kind = "head" <=> k = 1
            /\ reply[k] = Closed => k = Len(reply)
      BY <2>2, <3>1, <3>2, <3>3
    <3> QED
      BY <3>1, <3>4 DEF ReplyIsTheChilds
  <2>3. CASE Copy /\ handler # "done" /\ Len(reply) = copied + 1
    BY <2>0, <2>3 DEF Copy, ReplyIsTheChilds, WriteHead, Body,
                      Closed, ChildsCode
  <2>4. CASE /\ Copy /\ Len(reply) = copied + 2 /\ reply[Len(reply)] = Closed
             /\ copied = BodyLen \/ dropped
    <3>1. \A k \in 1..(copied + 1) :
            /\ reply[k].kind = (IF k = 1 THEN "head" ELSE "body") /\ reply[k] # Closed
            /\ k # 1 => reply[k].piece = k - 1
      <4> TAKE k \in 1..(copied + 1)
      <4>1. CASE k = 1
        BY <2>4, <4>1 DEF Copy, WriteHead, Closed
      <4>2. CASE k # 1
        <5>1. reply[k] = Body(k - 1)
          BY <2>4, <4>2 DEF Copy
        <5> QED
          BY <4>2, <5>1 DEF Body, Closed
      <4> QED
        BY <4>1, <4>2
    <3>2. Closed.kind \notin {"head", "body"}
      BY DEF Closed
    <3>3. DOMAIN reply = 1..(copied + 2) /\ reply # <<>>
      BY <2>0, <2>4
    <3>4. \A k \in DOMAIN reply : k \in 1..(copied + 1) \/ k = Len(reply)
      BY <2>0, <2>4, <3>3
    <3> QED
      BY <2>0, <2>4, <3>1, <3>2, <3>3, <3>4 DEF ReplyIsTheChilds
  <2> QED
    BY <2>0, <2>1, <2>2, <2>3, <2>4 DEF BridgeInv, ReplyInv
<1> QED
  BY <1>1, BridgeInvariant, PTL
=============================================================================
