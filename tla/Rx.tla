--------------------------------- MODULE Rx ---------------------------------
(***************************************************************************)
(* The receiving half of a client's channel (cocaine12/channel.go, rx): the*)
(* goroutines that push results (Service.loop and Reconnect) and the one   *)
(* that calls Get share a buffer of capacity one, a queue under a mutex,   *)
(* and, without the mutex, the place in the protocol tree.                 *)
(*                                                                         *)
(* Tree[n][m] is the description that the tree node n (dispatch.go,        *)
(* streamDescription) gives to method m: another node, Recursive (nil: the *)
(* tree stays), Empty (the stream ends) or Missing (the node has no such   *)
(* method: its item is nil, and reading it panics).                        *)
(***************************************************************************)
EXTENDS Naturals, Sequences

CONSTANTS
    Method,     \* method numbers of the results
    Node,       \* nodes of the protocol tree
    Root,       \* the Upstream description of the called method
    Tree,       \* the description that each node gives to each method
    Recursive, Empty, Missing,
    Pusher,     \* goroutines that push
    Idle, Found,\* a pusher with no channel, and with the channel looked up
    MaxPushed   \* bound: how many results are pushed

ASSUME RxAssumption ==
    /\ Root \in Node
    /\ Tree \in [Node -> [Method -> Node \cup {Recursive, Empty, Missing}]]
    /\ {Recursive, Empty, Missing} \cap Node = {}
    /\ Recursive # Empty /\ Missing \notin {Recursive, Empty}
    /\ Idle \notin Method /\ Found \notin Method /\ Idle # Found
    /\ MaxPushed \in Nat

VARIABLES
    pushed,     \* history: the results pushed, in the order of the mutex
    buffer,     \* rx.pushBuffer, capacity one
    queue,      \* rx.queue
    received,   \* history: the results Get took
    rxTree,     \* rx.rxTree
    done,       \* rx.done
    attached,   \* the session is in service.sessions
    getter,     \* Get: "idle", "refill", "wait", "walk"
    result,     \* of the last Get: "none", "ok", "ErrStreamIsClosed", "ctx", "panic"
    pusher,     \* each pusher: Idle, Found, or the method it has just pushed
    panicked    \* a panic has ended the process

vars == <<pushed, buffer, queue, received, rxTree, done, attached, getter, result, pusher,
          panicked>>

TypeOK ==
    /\ pushed \in Seq(Method)
    /\ buffer \in Seq(Method) /\ Len(buffer) <= 1
    /\ queue \in Seq(Method)
    /\ received \in Seq(Method)
    /\ rxTree \in Node
    /\ done \in BOOLEAN
    /\ attached \in BOOLEAN
    /\ getter \in {"idle", "refill", "wait", "walk"}
    /\ result \in {"none", "ok", "ErrStreamIsClosed", "ctx", "panic"}
    /\ pusher \in [Pusher -> Method \cup {Idle, Found}]
    /\ panicked \in BOOLEAN

\* Service.call makes the channel and attaches it.
Init ==
    /\ pushed = <<>> /\ buffer = <<>> /\ queue = <<>> /\ received = <<>>
    /\ rxTree = Root /\ done = FALSE /\ attached = TRUE
    /\ getter = "idle" /\ result = "none"
    /\ pusher = [p \in Pusher |-> Idle]
    /\ panicked = FALSE

-----------------------------------------------------------------------------
(* sessions.Get, then push: the queue under the mutex, then the look at the*)
(* tree.                                                                   *)

Lookup(p) ==
    /\ pusher[p] = Idle /\ attached
    /\ pusher' = [pusher EXCEPT ![p] = Found]
    /\ UNCHANGED <<pushed, buffer, queue, received, rxTree, done, attached, getter,
                   result, panicked>>

\* Mutant: the new result goes to the buffer past the queue.
PushPastQueue(p, m) ==
    /\ pusher[p] = Found
    /\ Len(pushed) < MaxPushed
    /\ pushed' = Append(pushed, m)
    /\ IF buffer = <<>>
         THEN buffer' = <<m>> /\ UNCHANGED queue
         ELSE queue' = Append(queue, m) /\ UNCHANGED buffer
    /\ pusher' = [pusher EXCEPT ![p] = m]
    /\ UNCHANGED <<received, rxTree, done, attached, getter, result, panicked>>

\* Mutant: the buffer is left to Get.
PushOnlyQueues(p, m) ==
    /\ pusher[p] = Found
    /\ Len(pushed) < MaxPushed
    /\ pushed' = Append(pushed, m)
    /\ queue' = Append(queue, m)
    /\ pusher' = [pusher EXCEPT ![p] = m]
    /\ UNCHANGED <<buffer, received, rxTree, done, attached, getter, result, panicked>>

Push(p, m) ==
    /\ pusher[p] = Found
    /\ Len(pushed) < MaxPushed
    /\ pushed' = Append(pushed, m)
    /\ LET q == Append(queue, m)
       IN  IF buffer = <<>>
             THEN buffer' = <<Head(q)>> /\ queue' = Tail(q)
             ELSE queue' = q /\ UNCHANGED buffer
    /\ pusher' = [pusher EXCEPT ![p] = m]
    /\ UNCHANGED <<received, rxTree, done, attached, getter, result, panicked>>

\* The result that ends the stream detaches the session.  The tree is where
\* Get has walked it to by now: behind or ahead of the result pushed.
PushDetaches(p) ==
    LET next == Tree[rxTree][pusher[p]]
    IN  /\ pusher[p] \in Method /\ next # Missing
        /\ attached' = (attached /\ next # Empty)
        /\ pusher' = [pusher EXCEPT ![p] = Idle]
        /\ UNCHANGED <<pushed, buffer, queue, received, rxTree, done, getter, result,
                       panicked>>

\* The result is in the queue and the node has no such method.  The panic ends
\* the process, unless the goroutine is a handler's that Reconnects: workerng.go
\* recovers there.
PushPanics(p) ==
    /\ pusher[p] \in Method /\ Tree[rxTree][pusher[p]] = Missing
    /\ panicked' \in BOOLEAN
    /\ pusher' = [pusher EXCEPT ![p] = Idle]
    /\ UNCHANGED <<pushed, buffer, queue, received, rxTree, done, attached, getter, result>>

-----------------------------------------------------------------------------
(* Get, called again and again by one goroutine. *)

GetClosed ==
    /\ getter = "idle" /\ done
    /\ result' = "ErrStreamIsClosed"
    /\ UNCHANGED <<pushed, buffer, queue, received, rxTree, done, attached, getter,
                   pusher, panicked>>

\* A result is taken from the buffer.
Take ==
    /\ buffer # <<>>
    /\ received' = Append(received, Head(buffer))
    /\ buffer' = Tail(buffer)
    /\ getter' = "walk"
    /\ UNCHANGED <<pushed, queue, rxTree, done, attached, result, pusher, panicked>>

GetFast == getter = "idle" /\ ~done /\ Take

GetSlow ==
    /\ getter = "idle" /\ ~done /\ buffer = <<>>
    /\ getter' = "refill"
    /\ UNCHANGED <<pushed, buffer, queue, received, rxTree, done, attached, result,
                   pusher, panicked>>

\* Under the mutex: the head of the queue goes into the buffer if it fits.
Refill ==
    /\ getter = "refill"
    /\ getter' = "wait"
    /\ IF queue # <<>> /\ buffer = <<>>
         THEN buffer' = <<Head(queue)>> /\ queue' = Tail(queue)
         ELSE UNCHANGED <<buffer, queue>>
    /\ UNCHANGED <<pushed, received, rxTree, done, attached, result, pusher, panicked>>

GetWaited == getter = "wait" /\ Take

GetCancelled ==
    /\ getter = "wait"
    /\ getter' = "idle" /\ result' = "ctx"
    /\ UNCHANGED <<pushed, buffer, queue, received, rxTree, done, attached, pusher,
                   panicked>>

\* The step in the tree that the result makes.
Walk ==
    LET next == Tree[rxTree][received[Len(received)]]
    IN  /\ getter = "walk" /\ next # Missing
        /\ getter' = "idle" /\ result' = "ok"
        /\ done' = (next = Empty)
        /\ rxTree' = IF next \in Node THEN next ELSE rxTree
        /\ UNCHANGED <<pushed, buffer, queue, received, attached, pusher, panicked>>

\* The node has no such method: Get panics, the result is lost; a handler's
\* goroutine recovers and may call Get again.
WalkPanics ==
    /\ getter = "walk" /\ Tree[rxTree][received[Len(received)]] = Missing
    /\ getter' = "idle" /\ result' = "panic"
    /\ panicked' \in BOOLEAN
    /\ UNCHANGED <<pushed, buffer, queue, received, rxTree, done, attached, pusher>>

-----------------------------------------------------------------------------
Get ==
    \/ GetClosed \/ GetFast \/ GetSlow \/ Refill \/ GetWaited \/ GetCancelled
    \/ Walk \/ WalkPanics

PushEnds(p) == PushDetaches(p) \/ PushPanics(p)

Next ==
    /\ ~panicked
    /\ \/ \E p \in Pusher : Lookup(p) \/ PushEnds(p) \/ \E m \in Method : Push(p, m)
       \/ Get

Spec == Init /\ [][Next]_vars

(***************************************************************************)
(* The client keeps calling Get; a Get whose context is cancelled is       *)
(* called again, and one that finds a result ready again and again takes it*)
(* (Go's select chooses at random).  A push goes through to its end.       *)
(***************************************************************************)
FairSpec ==
    /\ Spec
    /\ WF_vars(~panicked /\ (GetFast \/ GetSlow \/ Refill \/ Walk \/ WalkPanics))
    /\ SF_vars(~panicked /\ GetWaited)
    /\ \A p \in Pusher : WF_vars(~panicked /\ PushEnds(p))

-----------------------------------------------------------------------------
(***************************************************************************)
(* Get returns the results in the order they were pushed, each once: the   *)
(* buffer is ahead of the queue, also when push and Get both refill it.    *)
(***************************************************************************)
ResultsInOrder == pushed = received \o buffer \o queue

(***************************************************************************)
(* A Get that waits on an empty buffer misses nothing: no result is in the *)
(* queue with nobody left to move it.                                      *)
(***************************************************************************)
NoMissedResult == getter = "wait" /\ buffer = <<>> => queue = <<>>

(***************************************************************************)
(* Every result pushed is taken by a Get, whatever the tree makes of the   *)
(* results before it, unless the stream ended before it or a panic ends    *)
(* the process.                                                            *)
(***************************************************************************)
EveryResultReturned ==
    \A k \in 1..MaxPushed : Len(pushed) >= k ~> (Len(received) >= k \/ done \/ panicked)
=============================================================================
