# A verification of cocaine-framework-go

`cocaine-framework-go` is the Go framework of the Cocaine application cloud. A
program linked with it is a *worker* (it serves events that cocaine-runtime
sends over a unix socket), a *client* of services (it calls methods of remote
services over TCP), or both. This directory holds TLA+ models of the parts that
decide whether such programs work, the TLC configurations that check them on
small instances, and TLAPS proofs for every size.

The modules follow the source, not its documentation. `PROJECT.json` maps each
definition to the lines it stands for, each checked property to a mutated
operator that breaks it, and each hazard to the properties that watch it.

Contents: [inventory](#inventory) - [plan](#plan) - [modules](#modules-and-the-code)
- [runs](#runs-and-bounds) - [fairness](#fairness) - [proofs](#proofs)
- [disagreements](#disagreements-with-the-repository) - [limits](#limits).

## Inventory

All paths below are in `src/`. The core is `cocaine12/`, the framework for
version 0.12 of the protocol.

| Part | State | Operations | Hard because |
|---|---|---|---|
| socket buffer, `asocket.go` `asyncBuff` | queue, `finished`, `draining`, timer, channels in/out/stop/drain/wait | receive, deliver, Stop, Drain | one select over five channels, some set to nil; Stop inside Drain; a timer |
| socket, `asocket.go` `asyncRWSocket` | two buffers, connection, `closed` | Send, Write/Read, writeloop, readloop, Close | five goroutines; errors of encoder and decoder; a peer that stalls, finishes or resets |
| request stream, `handler.go`, `utils.go` | queue goroutine, reader's rest buffer | push, Close, Request.Read, io.Reader.Read | the close races the queued messages; the worker must not wait for the handler |
| worker protocol and dispatch, `wprotov1.go`, `worker_protocol.go`, `workerng.go` | highest session, map session to stream | onMessage and its handlers | any order of messages from the runtime; numbers that repeat or go back |
| response, `handler.go`; deferred trap, `workerng.go` | `closed` per response | Write, Close, ErrorMsg, recover and close | the handler, its panic and the trap all want the last word |
| worker life cycle, `workerng.go` | two timers, `stopped`, connection | handshake, heartbeats, terminate, Stop, Run | ticks left in timer channels; Stop by several goroutines; blocking sends in the main loop |
| event handlers, `worker.go`, `worker_handlers.go` | map name to handler, fallback | On, SetFallbackHandler, Call | - |
| channel rx/tx, `channel.go`, `dispatch.go` | buffer of one, queue, place in the protocol tree | push, Get; tx.Call | a lock-free fast path beside a mutex; the tree is read by pusher and reader |
| service, `service.go`, `sessions.go` | socket, epoch, session map, two mutexes | Call, Reconnect, Close, loop | several callers, reconnection under them, loops of sockets already replaced |
| locator, `locator.go`, `apilocator.go`, `serviceinfo.go` | endpoints | Resolve | retry over endpoints |
| logger, `logger.go`, `clogger.go`, `fallbacklogger.go`, ... | cached severity, service | log calls, Verbosity refresh | session numbers taken beside the service's order mutex |
| tracing and headers, `trace.go`, `protocol.go` | span ids in a context; header table | spans, pack/unpack | packing of 64-bit ids |
| HTTP over a request, `httphandler.go`, `httpresponse.go` | ResponseWriter: header written, finished | WriteHeader, Write, finish | order of header, body, close |
| tokens, `token.go`, `auth/tvm` | registry, current token | refresh goroutine | a refresh racing a read |
| bridge, `bridge/`, `cmd/bridge_main.go` | child process, pinger, event loop, worker | NewBridge, Start, Close, signals, one handler for all events | the child may die at any moment of start-up, of a reply and of a shutdown |
| HTTP proxy, `proxy/`, `cmd/proxy` | none between requests: a Service per request | process | the application fails before, in or after its head; the context ends in between |
| 0.11 worker, `cocaine/worker.go`, `cocaine/message.go` | sessions, two queue goroutines per session, two timers, rest of the byte stream | Loop, push, Read, Write, Close, ErrorMsg, Feed | messages cut anywhere; no stop channel: a lost connection is a channel that is always ready |
| other parts of 0.11, `cocaine/` | as above, one version earlier | | kept for compatibility |
| `vendor/`, `example/`, `cocainetest/`, `version/` | | third party, samples, test helpers | |

How they interact. A worker owns one socket; its main goroutine reads messages
from `conn.Read()`, dispatches them to request streams, and starts one goroutine
per invoked session, which answers through `conn.Send`. A client's `Service` owns
the current socket and a map from session numbers to channels; one `loop`
goroutine per socket pushes results into channels and, at the end of the socket,
an error into every channel left. Everything below is Go channels and
goroutines: there is nothing persistent, so there is no crash recovery; lost
connections are the failures that exist.

What makes each part correct is listed with its run below. `PROJECT.json`
lists the hazards at their lines: 40 of them, most of them orders of steps of
two goroutines.

## Plan

Done, in this order: the buffer and its abstract specification; the request
stream; the worker's dispatch; the worker's life; the receiving half of a
channel; the service; the whole socket composed of two abstract buffers; HTTP
over a request; the sending half of a channel and the logger, as steps of the
service's callers; the worker of the 0.11 framework; the bridge; the proxy,
composed with the HTTP handler it talks to. Every safety property that a run
checks is proved for all values of the constants.

Next, most important first:

1. Action properties worth stating of `Service` and `WorkerControl` (what a step
   may never do), from the inductive invariants that are there.
2. The step from `Service` to `Rx`: that the part of a channel which `Service`
   uses is implemented by `Rx`.
3. *Locator* (`locator.go`, `serviceCreateIO`): the loop over endpoints that
   `Service` treats as one step; *tokens* (`auth/tvm`).

## Modules and the code

### FifoChannel - what a queue goroutine promises

An unbounded first-in first-out channel: `Put`, `Take`, `EndInput`, `AllowDrop`
(somebody gives leave to lose the rest) and `Close`. Two different goroutines of
the framework implement it (`AsyncBuff`, `RequestStream`), and `AsyncSocket` is
built on two of them instead of on the details.

### AsyncBuff - `asocket.go`, `asyncBuff`

Each case of the select in `loop` is an action: `Receive`, `InputClosed` (the
input was closed, `finished`), `Deliver`, `StopSeen`, `DrainSeen` (which sets
`stopped = nil` and starts the timer), `TimeoutSeen`; `Finish` is the return at
the head of the loop. `Selecting` is the condition under which the loop blocks
in the select. Two deferred calls close `out` (in the same step as the return)
and then `wait` (`CloseWait`). `Drain` and `Stop` are the caller's steps, with
the offers and waits that end by timeout.

### AsyncSocket - `asocket.go`, `asyncRWSocket`

`Send` blocks until the upstream buffer accepts or the socket is closed.
`writeloop` takes, encodes and flushes. Flush's error is not looked at, so a
write to a dead connection may or may not be noticed (`broken`, bufio's sticky
error). After a failed Encode it closes the socket and swallows the rest
(`Blackhole`). `readloop` decodes, puts, and at an error closes the buffer's
input and the socket. `Close` stops the upstream buffer, the downstream buffer
and then the connection, in three steps. The peer sends a fixed script, and may
finish, reset or send a frame that does not decode at any moment: readloop ends
at each of them (`AtEnd`).

### RequestStream - `handler.go` `request`, `loop`; `utils.go` `requestReader`

The worker's `Push` and `Close`; the goroutine's `Receive`, `CloseSeen`,
`Return`; and the handler's `Read(p)`, in which a chunk is a sequence of bytes
cut by `copy`. `closedNil` is `closed = nil` in the select. The handler may stop
reading for ever or have its context cancelled.

### WorkerSessions - `wprotov1.go`, `worker_protocol.go`, `workerng.go`, `handler.go`

`OnBadStart`, `OnCorruptedInvoke`, `OnInvoke`, `OnChunkOrError`, `OnChoke` and
`OnStray` are the branches of `onMessage` and of the handlers it calls, for any
message of the runtime. An invocation is the pair of a request stream and a
response. An invoke whose payload is empty indexes past its end in
`getEventName`: `OnCorruptedInvoke` may end in a panic of the main goroutine
(`panicked`), after which nothing moves. `Write`, `HandlerEnds` (Close or ErrorMsg) and `HandlerReturns` (the
deferred `trapRecoverAndClose`, for a normal return or a panic) are the
handler's steps; `ConnCloses` makes every later Send a drop.

### WorkerControl - `workerng.go`, the life of a worker

The main goroutine with the cases of its select, the two timers with the
semantics of Go 1.7 (a tick already in the channel survives Stop and Reset), the
blocking sends of handshake, heartbeat and terminate reply, `Stop` in its
separate steps (check, close of `w.stopped`, the three steps of `conn.Close`) by
the application and by the worker itself, and the connection's goroutines. The
runtime may die (`RuntimeDies`) or send a frame that does not decode
(`RuntimeGarbles`); both end readloop, and Run reports a lost connection.
`HeartbeatFires` requires that the disown timer is not running: both are reset
together, with 10 s and 5 s.

### Worker11 - `cocaine/worker.go`, `cocaine/message.go`

`Loop` of the older worker: `LoopReads` is the receive from `Read()`, for a piece of
the stream of any length, and `Decode` one turn of the loop of
`streamUnpacker.Feed`. While a whole message is left (`Feeding`) nothing but
`Decode` moves: the loop of Feed touches nothing that another goroutine sees, so
its turns commute with every step of the others. `OnInvoke`,
`OnChunk`, `OnChoke`, `OnHeartbeat`, `OnTerminate`, `OnOther` handle the messages
one Feed returned, one after the other, before the select is reached again;
`HeartbeatTick`, `DisownTick` and `Outcoming` are its other cases. A byte is its
place in the stream, a message `MsgLen` of them. `Decode` skips a message that
does not unpack and keeps what follows the last one that did. One that does not
even decode (`Garbled`) ends the loop of Feed with the buffer as it was, and so
does every later Feed, at the same place. A chunk or choke of
a session that is not in the map dereferences nil, and a message of a type
without an unpacker, or with a payload of another shape, panics in
`unpackMessage`: `exited = "panic"`. The queues of a
request and of a response end when they were told to quit and are empty
(`Gone`); `Say` to a queue that is gone waits for ever. `Write`, `Close`, `Quit`
and `ErrorMsg` are the handler's steps and those of the recover around it. A
handler may go on after its Close: the response has no flag, and what is said
before the queue has ended still goes out. `Callback` is whoever serves an
invocation: a bound handler or a fallback set by `SetFallbackHandler`, both any
code, or the default fallback. `DisownTimeout` is what `SetDisownTimeout` may have
set when `heartbeat()` resets the timer: less than the heartbeat's 20 s
(`"armed"`), or as much and more (`"late"`).

### Bridge - `bridge/bridge.go`, `bridge/ping.go`, `cmd/bridge_main.go`

Main (`StartPings`, `Spawn`, `WaitReturns`, `Close`), the goroutine that pings the
child until it listens, its time is over or Start has returned, and then runs the
worker (`Ping`, `PingChecks`, `RunReturns`), the event loop (`EventLoop`), and one
request in the handler, up to the copy of the child's body (`CopyWrites`,
`CopyEnds`). The child listens or exits when it likes, and a signal may come at
any time.

### Proxy - `proxy/proxy.go`

`process` for one request: each of its early returns with the status it answers,
then the loop of Get over the answer (`GetHead`, `GetBody`, `GetFails`). It extends
`HttpHandler`: the answer it reads, `out`, is what the worker's handler writes at
the same time.

### HttpHandler - `httphandler.go`, `httpresponse.go`, `worker_handlers.go`

One invocation served over HTTP. `NoHandler` and `CallHandler` are
`EventHandlers.Call`; `ReadFails`, `ReadRequest`, `Malformed` and `Unpacked` the
wrapper's way to a request, with the answers 408 and 400; `SetLength`,
`WriteHeader`, `Write` and `WriteNothing` the calls of the application on the
ResponseWriter, in any order; `HandlerReturns` and `HandlerPanics` its ends. The
deferred calls follow in their order: `DeferredClose` of the wrapper, then `Trap`
of the worker. `Respond` is the part that WriteHeader, Write and finishRequest
share: the head, if it was not sent. A Content-Length is a number, garbage or
absent; `ParsedLength` is what WriteHeader makes of it. A chunk of body is the
number of the Write it came from, and `out` is everything the client is sent.

### Rx - `channel.go`, `rx`

Any number of pushers (the loop of a socket, a Reconnect) and one goroutine that
calls Get. `Push` is the part under the mutex, `PushDetaches` the look at the
tree after it: at the node that Get has reached, which with nested trees may be
another than the result's, so that a session is detached early, late or never. A
method that the node does not have (`Missing`) is a nil dereference, in the
pusher (`PushPanics`) or in Get (`WalkPanics`); it ends the process unless the
goroutine is a worker's handler, which recovers. Get is split at each point where another goroutine can come in:
the fast path, the refill under the mutex, the wait, the walk in the tree.

### Service - `service.go`, `sessions.go`

Callers, goroutines that force a reconnection, goroutines that Close, and one
loop per socket. `sync.RWMutex` is modelled with its rule that a waiting writer
holds off new readers. `Call` is split at the locks and at the steps between
them (`CallLooks`, `CallRLocks`, `Attach`, `SendMsg`). `Reconnect` is split
between its two assignments, because `loop` reads `epoch` and `socketIO` without
the lock. `LoopReads` takes sessions.Get, the push and the Detach as one step;
`Rx` has them apart. A successful connection to one of the endpoints is one
step, and so is a failure of all. A caller that waits for its result may send
later messages of its channel (`TxCall`); `strays` keeps the sessions whose
message went to a socket that never opened them. Instead of calling, a goroutine
may log (`LogNext`, `LogSends`): it takes a session number under the logger's own
mutex, which is not `muKeepSessionOrder`. Close may be called again. An answer
records in `from` the socket it came over or, for Disconnected, the goroutine
that told it.

### Composition

`AsyncSocket` instantiates `FifoChannel` twice, which is justified by the theorem
`AsyncSocket_proofs!BuffIsFifoChannel`. `WorkerSessions` and `WorkerControl` split the
worker's main loop by kinds of messages: the messages that one models are
`"other"` or absent in the other. `HttpHandler` is one handler of
`WorkerSessions` seen from inside: it sends through the same response, whose
`closed` drops what follows an end, and leaves to the same trap. `Proxy` extends
`HttpHandler`, with both ends of the answer in one state. `Service` uses of a
channel what `Rx` shows: a queue of results in order of their push.

## Runs and bounds

| Run | Model | Bounds | Shows |
|---|---|---|---|
| `socket` | AsyncBuff, AsyncSocket | the buffer: 4 messages of 2 kinds, one caller of Stop or Drain; the socket: 1 sender, 2 messages out (each may be unencodable), 2 in | FifoChannel is implemented: no loss without leave; Stop and Drain end the loop. No gap in what reaches the peer; all input before the end; Send returns; a disconnect is noticed; Close releases the writing side |
| `request` | RequestStream | chunks of 0, 1, 3 bytes, slices of 1, 2; 3 messages | bytes unchanged and in order; EOF last; FifoChannel; push returns |
| `worker_sessions` | WorkerSessions | 2 sessions, 4 messages of any kind, 1 chunk per handler | one final message, last; a done handler has answered; streams closed once; routing, and no session started twice |
| `worker_control` | WorkerControl | 1 application goroutine in Stop, 2 waiting messages | Stop is no lost connection; clocks are watched; Run ends after Stop; heartbeats go on |
| `worker11` | Worker11 | 1 session, 3 messages of 2 bytes cut anywhere (2 if one is of no session), 2 words of the handler's own | decoding in order, up to what does not decode; chunks and answers in order; answers go out; a lost connection ends the worker |
| `http` | Proxy with HttpHandler | 3 Writes of 0, 1 or 2 bytes; Content-Length -2, 0, 1, 3, garbage or absent; codes 200, 304 | one head, first; one end, last; the body has no gap and fits the head; a return is an answer; the proxy's client sees the reply |
| `bridge` | Bridge | a body of 3 pieces, one request | the reply is the child's; the child's exit ends the bridge |
| `channel` | Rx | 2 pushers, 4 results, tree of 2 nodes that disagree on every method | Get in order; no result missed; every result returned |
| `service` | Service | 2 goroutines that call or log, 1 forced reconnection, 1 that Closes (again), 1 successful reconnection, 3 sessions | calls open in order; answers are own; Disconnected is true; a message that strays belongs to a call that was told |
| `bridge_signal`, `service_deadlock`, `service_order` | | smallest that shows it | [disagreements](#disagreements-with-the-repository) |

Why these bounds are enough. A queue of two with one message on each side of an
event shows any loss, repetition or reordering at that event; the buffer and
the channel have four. In `socket` the buffer and the socket are checked apart:
a behaviour is one of either beside the other's initial state, since the socket
uses of a buffer only that it is a FifoChannel. A chunk of three bytes against slices of one and two
meets every case of `copy` (all fits, exactly fits, does not fit, several
rests), and the empty chunk the boundary. Two sessions and four messages contain
every pair of events of one session with a second session before, between or
behind. One reconnection gives an old and a new socket with a loop each, which is
all that the epoch check distinguishes. In `worker11` two bytes per message are
the least that can be cut; three messages are an invoke with its chunk and its
choke, and two put one that does not decode or unpack before or behind another.
What the bounds leave open is what the proofs are for.

`DisconnectedIsTrue` has an exception, `Torn`: `Service.loop` reads
`service.epoch` and `service.socketIO` without the lock, and Reconnect assigns
them one after the other; a loop that starts between the two watches the old
socket under the new epoch and at its end fails the calls of the new connection.
It needs a loop goroutine that has not run since its own socket was made. Only
what such a loop tells is exempt, and what a forced Reconnect tells; in a service
that has a torn loop the property still binds everyone else. `CallsOpenInOrder`
compares calls with calls and log entries with log entries; between the two the
code does not keep the order, which is the run `service_order`.

Other exemptions, each in the property's own text: `ReturnIsAnswered` speaks of
handlers that return and not of those that panic; `ReplyIsTheChilds` lets a body
end early when the connection to the child broke (`dropped`), and
`ClientSeesTheReply` one that a failing Get cut (`cut`), since the code passes
neither failure on; `LostConnectionEnds` assumes that from some time on the disown
timeout is below the heartbeat's; `EveryResultReturned` ends with the stream or
with a panic.

Deadlock is checked in `request`, whose reader can always call again. In the
others every goroutine may come to its end, or a panic ends the process, and the
models stop.

## Fairness

- Goroutines that can run, run: weak fairness of the steps of each loop. The Go
  scheduler guarantees it.
- A select chooses at random among the ready cases, so a case that is ready
  again and again is taken: strong fairness of `StoppedSeen`, `DisownTick` and
  `HeartbeatTick` against a flood of messages, and of `GetWaited` against a
  context that is always cancelled.
- The same for the select of the 0.11 worker, whose `Read()` is always ready once
  it is closed: strong fairness of `HeartbeatTick`, `DisownTick` and `Outcoming`.
- Timers fire: weak fairness of `TimerFires`, `DisownFires`, `HeartbeatFires`. Of
  the two timers of the 0.11 worker the shorter fires first, as both are reset
  together; a disown timer set to 20 s or more need not fire at all.
- Nothing is assumed of the other side: the runtime, the peer, the remote service,
  the bridge's child and the application may fall silent, a handler may stop reading, nobody has to
  call Stop or Close. A write to a living peer may block for ever; it returns
  once the connection is dead or closed (`~Alive` in `AsyncSocket!Fairness`).
  Without that, `SendReturns` is still to hold, and does: it rests on the
  unbounded buffer and on `closed`, not on the peer.

## Proofs

Every theorem is for all values of the constants: any messages, any number of
them, any sessions, pushers, trees and slice lengths. The assumptions are the
named ASSUMEs of the modules (that the model values differ, that the bounds are
natural numbers, that chunks are sequences of bytes); TLC evaluates them in each
run.

| Module | Inductive invariant | Theorems |
|---|---|---|
| `AsyncSocket_proofs` | `BuffInv` | of the buffer: `BuffTypeCorrect`, `FirstInFirstOut`, `NothingLost`, `BuffIsFifoChannel` |
| | `SocketInv` | `SocketInvariant`, `TypeCorrect`, `WritesInOrder`, `ReadsInOrder` |
| `RequestStream_proofs` | `StreamInv` | `TypeCorrect`, `MessagesArriveInOrder`, `BytesArriveInOrder`, `EofComesLast`, `Refinement` |
| `WorkerSessions_proofs` | `SessionsInv`, `RoutingInv` | `TypeCorrect`, `WellFormedAnswers`, `EveryAnswerEnds`, `StreamsClosedOnce`, `RoutesAsSent` |
| `WorkerControl_proofs` | `ControlInv` | `ControlInvariant`, `TypeCorrect`, `StopIsNoLoss`, `ClocksWatched` |
| | `BridgeInv` | of the bridge: `BridgeInvariant`, `BridgeTypeCorrect`, `BridgeReplies` |
| `Proxy_proofs` | `HttpInv` | of the handler: `TypeCorrect`, `HeadComesFirst`, `BodyHasNoGap`, `ReturnAnswers` |
| | `ProxyInv` | of the composition: `RepliesBehindProxy`, `ReplyIsPassedOn` |
| `Rx_proofs` | `RxInv` | `TypeCorrect`, `GetIsInOrder`, `GetMissesNothing` |
| `Service_proofs` | `ServiceInv` | `ServiceInvariant`, `TypeCorrect`, `MutualExclusion`, `CallsAreInOrder`, `OwnAnswers`, `StraysWereTold`, `DisconnectedUnlessTorn` |
| `Worker11_proofs` | `Worker11Inv` | `Worker11Invariant`, `TypeCorrect`, `DecodesInOrder`, `ChunksArriveInOrder`, `AnswersArriveInOrder` |

A proof module that extends two components (the socket and its buffer, the
worker's life and the bridge that runs a worker) is why the definitions of
`AsyncBuff` and `Bridge` have names of their own (`BuffSpec`, `BridgeSpec`, ...).

Along which argument:

- *Buffer.* `QueueIsTheGap` is inductive with the queue lemmas. That nothing is
  lost is not: one has to know why a loop may leave its select
  (`EndIsJustified`), and that the loop's `draining` cannot be set once the stop
  channel is closed, because only Drain's own offer sets it and Drain calls Stop
  after the offer (`OfferBeforeStop`). The refinement needs the same two facts:
  without them `DrainSeen` could take back a leave to drop that a peer has seen.
- *Socket.* One relation, "begins with", chained through the places a message
  passes: `written`, what writeloop took, what Send was accepted for; and down
  from what Read() handed over to what the peer sent. That nothing is skipped
  needs to know where each loop stands: while the connection lives writeloop has
  written all it took but the message it is encoding (`Writing`), and readloop has
  put all it decoded but the one it holds (`Reading`). That the reader's end is
  the peer's end needs `Ending`: without a Close the downstream buffer ends only
  behind readloop and empty.
- *Request stream.* The order of bytes rests on one lemma about `copy`
  (`CopyCuts`: the returned part, then the rest, is the whole). EOF is last by a
  chain: the reader sees the end only of a returned loop (`EofAfterDone`), a loop
  returns only with an empty queue after it saw the close (`DoneIsEmpty`), and it
  saw a close that happened (`SeenIsClosed`). The refinement also needs that the
  worker closes when it is not in push (`CloseAfterPush`), or a message could be
  put into an ended channel.
- *Dispatch.* That answers are well formed needs that two invocations never share
  a session, which holds because the numbers of accepted invocations grow and are
  bounded by `maxSession`; `closed` of a response then says exactly whether its
  session's answer has ended.
- *Life cycle.* `ClocksAreWatched` is not inductive: it says nothing of the Stop
  inside a terminate, from which the main goroutine comes back to its select;
  `Watched` includes it. That Stop is never reported as a loss follows from
  `EndIsCaused`: no part of the connection ends before `w.stopped` is closed,
  unless the runtime is gone or its bytes do not decode; it holds because Stop closes the channel before its
  first step on the connection.
- *HTTP.* The reply is framed as long as it is open (`Framed`), and has one end
  behind it once it is closed. That the body has no gap needs `RefusingForGood`:
  either no Write was refused so far, and there is a chunk for each, or status and
  count of bytes are such that every later Write is refused too. The second half
  is why `write` counts the bytes it refuses.
- *Proxy.* Every step of the composition is a step of the handler or leaves it
  alone, so the composition implements `HttpHandler` (the lemma
  `HandlerBehindProxy`, by the shape of the composition) and what is proved of the handler's reply holds behind the proxy. The handler only
  appends to `out`, so what the proxy has passed on stays a copy (`PassesOn`);
  that it stops only at the reply's end is `StopsAtTheEnd`.
- *Routing.* `RoutedAsSent` speaks of the places of what arrived: the n-th message
  of a stream is the one of rank n among those its handler may read. A message
  that arrives is behind all others, so it changes no rank and becomes the last of
  one stream or of none. Which one needs `RoutingInv`: `maxSession` is the highest
  invoke, every good invoke has its invocation, and the map leads to it until the
  first close.
- *Channel.* `NoMissedResult` is inductive only with the order of `push`'s steps:
  it fills the buffer from the head of the queue under the mutex, so the queue
  can be non-empty behind an empty buffer only between a Take and the next push
  or refill, and Get refills before it waits. The tree plays no part: the
  theorems hold for any tree, with methods missing or not.
- *Service.* Four layers, each resting on the one before. `LockInv`: where each
  kind of goroutine can be, and that who holds or waits for the RWMutex, and the
  count of each reader, are functions of these places. `SocketInv`: `epoch` and
  the number of `socketIO` agree except between the two assignments of Reconnect,
  every older socket is closed, and a loop past its range has seen the end of the
  socket it ranges over. `SessionInv`: no two goroutines hold the same number, a
  session has its home from its message on, and what a socket opened or holds in
  its inbox is at home there. `InTurn` and `Told`: the number about to be sent is
  the greatest of its kind, and a call is in the map or was told. The four
  properties follow; `OwnAnswers` and `DisconnectedUnlessTorn` need an induction
  of their own over what the channels hold (`Own`, `Gone`). The second rests on
  `TornKeeps`: whoever is exempt stays exempt, so what it told needs no excuse
  later.
- *Bridge.* `ReplyInv` tells from where the handler is how far its reply has come:
  nothing; the child's head and the pieces copied; a refusal of two chunks; each
  with one close behind it at the end.
- *0.11 worker.* `Framed` says where in the stream the decoder is: there are b and
  c such that the buffer starts with message b + 1, the decoder is behind message
  c, and none between them unpacked; or the message behind c has arrived and does
  not decode, and the decoder stays there (`Stuck`). The arithmetic is two lemmas,
  `Cut` and `Below`. What is on the wire and in the queue is what was said
  (`NothingUnsaid`), and whoever told the queue to quit has said a choke before
  (`ChokeSaid`): so a queue that ended, empty, has sent it.

The type invariants of the socket, the buffer, the request stream, the dispatch,
the life cycle, the channel and the handler are proved and not checked again by
a run; TLC evaluates every invariant of the runs on the same states.

What is only model-checked: liveness (`StopEndsTheLoop`, `SendReturns`,
`DisconnectIsNoticed`, `CloseReleases`, `PushReturns`, `StopEndsRun`,
`HeartbeatGoesOn`, `EveryResultReturned`, `AnswersGoOut`, `LostConnectionEnds`,
`ChildExitEndsBridge`), since the prover has no rules for fairness and ENABLED;
and the three violations below, which are counterexamples. Facts that need
induction over data are avoided by histories, by places and ranks instead of
filtered sequences (`Lists` in `Worker11`, `Rank` in `WorkerSessions`), and by
library lemmas on sequences.

## Disagreements with the repository

Three runs expect a violation of what a comment or a test says.

- `service_deadlock` (`service.go:354`): `call` holds the read lock and `sendMsg`
  takes it again; a writer that asks for the lock in between waits for the first
  and holds off the second. Everyone waits.
- `bridge_signal` (`bridge/bridge.go:216`): the `for` of the event loop has no way
  out, so `stopWorker` and `stopChild` behind it are never called. The bridge
  catches SIGTERM and goes on serving, where the comments speak of stopping the
  worker and of telling the event loop to stop.

- `service_order` (`clogger.go:105`): "We must create new sessions in the monotonic
  order" (`service.go:326`), and calls do, under `muKeepSessionOrder`. A log entry
  takes its number and sends its message without that mutex: between the number
  and the message of a call it opens a later session first, or the call does.

Every other property holds.

## Limits

Not modelled, and why:

- *locator*: a `Service` with a fixed API, used for one call; its loop over
  endpoints is inside the step of `Service` that connects or fails.
- *tokens*: a map of factories under one mutex, and a goroutine that is the only
  writer of a value that is read under a mutex. A refresh that fails keeps the
  old ticket.
- *tracing*, *header encoding*, *flags and defaults*: pure functions of one
  message or of the command line, and ids that no decision depends on.
- *the rest of the 0.11 framework* (socket, service, HTTP writer): replaced by the
  0.12 versions; `Worker11` uses its socket as a stream of bytes in order.
- *contents of messages*: msgpack is a vendored library; a message is encodable or
  not, a payload good or not, an invoke corrupted or not.
- logging to the console, the stack dump on SIGUSR1 (no state), and real time,
  except for the order of the two worker timers.
- `vendor/`, `example/`, `cocainetest/`: third party, samples and test buffers.

Behaviour of the code that the models have and that no property excludes:

- Socket: `readloop` may stay blocked on the downstream buffer's input after Close
  (`asocket.go:275`), so `CloseReleases` promises nothing about it.
- Worker: a tick of the disown timer that is already in its channel survives the
  reply to the heartbeat, and the next select may take it (`workerng.go:387`).
  Two goroutines in Stop look at `w.stopped` and close it without a lock
  (`workerng.go:215`). The reply to a terminate may be dropped by the Stop right
  behind it (`workerng.go:410`).
- HTTP: the wrapper's deferred Close runs before the worker's trap, which finds
  the response closed; the client of a handler that panics sees an ordinary end
  (`httphandler.go:127`).
- Service: a Call that found the connection alive may attach after the loop has
  told the sessions Disconnected, and waits until its context ends
  (`service.go:331`). A Close after Close, and a Reconnect after
  Close, close `service.stop` twice (`service.go:384`). A message of an open
  channel goes to whatever socket the service has (`channel.go:179`);
  `StrayCallsWereTold` says that its caller was told. A loop that starts inside a
  Reconnect may fail the calls of the new connection (`service.go:190-192`, `Torn`).
- Channel: with a nested tree push looks a method up in the node that Get has
  reached (`channel.go:133`): the session is detached early, late or never, or
  the lookup is a nil dereference, as it is in Get for a method that its node does
  not have (`channel.go:84-88`). The trees the framework declares are flat.
- Worker and socket: a frame that does not decode ends readloop, and the worker
  with a lost connection, though the runtime lives (`asocket.go:269-273`). An
  invoke with an empty payload panics the main goroutine (`worker_protocol.go:53`).
- Worker of 0.11: a chunk or choke of an unknown session ends the process, and so
  does a message of an unknown type. Bytes that do not decode stay at the head of
  the buffer and hold up everything behind them for ever (`message.go:257-262`). A
  handler that writes or closes after its Close may put a chunk or a second choke
  behind the choke, or wait for ever (`worker.go:126-141`). With `SetDisownTimeout` at
  20 s or more each heartbeat puts the disown timer off, and a worker whose
  connection is lost spins for ever (`worker.go:285`). The recover of a handler whose deferred
  Close has ended its queue waits for ever. A handler that waits for a chunk
  after the choke waits for ever.
- Bridge: if the child cannot be started, Close uses a nil Process
  (`bridge.go:272`). If the child does not listen in time the worker is never
  run, and Start goes on waiting for the child. When Run returns the child goes on.
  A body that breaks off is closed as if complete (`bridge.go:121`), and the
  request to the child has no timeout.

To repeat: `tlc -config MCRx.cfg MCRx` and likewise for the others (seconds each;
one to three minutes for `socket`, `service` and `worker11`); `tlapm AsyncSocket_proofs.tla` and likewise (a minute each; several
for `Service_proofs` and `Worker11_proofs`).
