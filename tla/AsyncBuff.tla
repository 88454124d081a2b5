----------------------------- MODULE AsyncBuff -----------------------------
(***************************************************************************)
(* asyncBuff of cocaine12/asocket.go: a goroutine between an input and an  *)
(* output channel (both unbuffered, so a hand-over is one joint step of    *)
(* the two goroutines), the goroutine that sends into it, the one that     *)
(* receives from it, and the one that calls Stop or Drain.                 *)
(***************************************************************************)
EXTENDS Naturals, Sequences

CONSTANTS
    Item,       \* the messages
    MaxItems    \* bound: how many messages are sent into the buffer

ASSUME MaxItemsAssumption == MaxItems \in Nat

VARIABLES
    accepted,   \* history: what the loop received from bf.in, in order
    delivered,  \* history: what was received from bf.out, in order
    pending,    \* loop: the queue
    finished,   \* loop: the input is closed and no longer selected
    draining,   \* loop: stopped = nil and quitAfterTimeout is set
    loop,       \* "running", "outClosed" (bf.out closed), "done" (and bf.wait)
    inputClosed, \* bf.in is closed
    stopClosed, \* bf.stop is closed
    timer,      \* Drain's time.After: "off", "running", "fired", "taken"
    caller      \* of Drain and Stop: "idle", "offer", "stop", "wait", "returned"

buffVars == <<accepted, delivered, pending, finished, draining, loop, inputClosed,
          stopClosed, timer, caller>>

loopVars == <<pending, finished, draining, loop>>
callVars == <<stopClosed, timer, caller>>

BuffTypeOK ==
    /\ accepted \in Seq(Item)
    /\ delivered \in Seq(Item)
    /\ pending \in Seq(Item)
    /\ finished \in BOOLEAN
    /\ draining \in BOOLEAN
    /\ loop \in {"running", "outClosed", "done"}
    /\ inputClosed \in BOOLEAN
    /\ stopClosed \in BOOLEAN
    /\ timer \in {"off", "running", "fired", "taken"}
    /\ caller \in {"idle", "offer", "stop", "wait", "returned"}

\* newAsyncBuf: make the channels, start the loop.
BuffInit ==
    /\ accepted = <<>> /\ delivered = <<>> /\ pending = <<>>
    /\ finished = FALSE /\ draining = FALSE /\ loop = "running"
    /\ inputClosed = FALSE /\ stopClosed = FALSE
    /\ timer = "off" /\ caller = "idle"

-----------------------------------------------------------------------------
\* The loop waits in its select, past the check at the top of the iteration.
Selecting == loop = "running" /\ ~(pending = <<>> /\ finished)

\* return: the deferred calls close bf.out, then bf.wait.
Return == loop' = "outClosed"

Receive(m) ==
    /\ Selecting
    /\ ~finished /\ ~inputClosed
    /\ Len(accepted) < MaxItems
    /\ pending' = Append(pending, m)
    /\ accepted' = Append(accepted, m)
    /\ UNCHANGED <<delivered, finished, draining, loop, inputClosed, callVars>>

InputClosed ==
    /\ Selecting
    /\ ~finished /\ inputClosed
    /\ finished' = TRUE
    /\ UNCHANGED <<accepted, delivered, pending, draining, loop, inputClosed, callVars>>

Deliver ==
    /\ Selecting
    /\ pending # <<>>
    /\ delivered' = Append(delivered, Head(pending))
    /\ pending' = Tail(pending)
    /\ UNCHANGED <<accepted, finished, draining, loop, inputClosed, callVars>>

StopSeen ==
    /\ Selecting
    /\ stopClosed /\ ~draining
    /\ Return
    /\ UNCHANGED <<accepted, delivered, pending, finished, draining, inputClosed, callVars>>

\* The loop receives the timeout channel that Drain offers on bf.stop.
DrainSeen ==
    /\ Selecting
    /\ caller = "offer" /\ ~draining
    /\ draining' = TRUE
    /\ caller' = "stop"
    /\ UNCHANGED <<accepted, delivered, pending, finished, loop, inputClosed, stopClosed, timer>>

\* Mutant: the timeout channel is received but not selected.
TimeoutForgotten ==
    /\ Selecting
    /\ FALSE
    /\ UNCHANGED buffVars

TimeoutSeen ==
    /\ Selecting
    /\ draining /\ timer = "fired"
    /\ timer' = "taken"
    /\ Return
    /\ UNCHANGED <<accepted, delivered, pending, finished, draining, inputClosed, stopClosed, caller>>

\* Mutant: the loop returns as soon as its input is closed.
FinishEarly ==
    /\ loop = "running"
    /\ finished
    /\ Return
    /\ UNCHANGED <<accepted, delivered, pending, finished, draining, inputClosed, callVars>>

Finish ==
    /\ loop = "running"
    /\ pending = <<>> /\ finished
    /\ Return
    /\ UNCHANGED <<accepted, delivered, pending, finished, draining, inputClosed, callVars>>

CloseWait ==
    /\ loop = "outClosed"
    /\ loop' = "done"
    /\ UNCHANGED <<accepted, delivered, pending, finished, draining, inputClosed, callVars>>

-----------------------------------------------------------------------------
\* The goroutine that owns bf.in closes it (asocket.go, readloop).
CloseIn ==
    /\ ~inputClosed
    /\ inputClosed' = TRUE
    /\ UNCHANGED <<accepted, delivered, loopVars, callVars>>

\* Drain starts the timer and offers its channel to the loop.
Drain ==
    /\ caller = "idle"
    /\ caller' = "offer"
    /\ timer' = "running"
    /\ UNCHANGED <<accepted, delivered, loopVars, inputClosed, stopClosed>>

\* Nobody took the offer in time; Drain goes on to Stop.
OfferExpires ==
    /\ caller = "offer" /\ timer = "fired"
    /\ timer' = "taken"
    /\ caller' = "stop"
    /\ UNCHANGED <<accepted, delivered, loopVars, inputClosed, stopClosed>>

\* Stop, called by itself or as the end of Drain.
Stop ==
    /\ caller \in {"idle", "stop"}
    /\ stopClosed' = TRUE
    /\ caller' = "wait"
    /\ UNCHANGED <<accepted, delivered, loopVars, inputClosed, timer>>

\* Stop returns when the loop is over, or after one second.
StopReturns ==
    /\ caller = "wait" /\ loop = "done"
    /\ caller' = "returned"
    /\ UNCHANGED <<accepted, delivered, loopVars, inputClosed, stopClosed, timer>>

StopGivesUp ==
    /\ caller = "wait"
    /\ caller' = "returned"
    /\ UNCHANGED <<accepted, delivered, loopVars, inputClosed, stopClosed, timer>>

TimerFires ==
    /\ timer = "running"
    /\ timer' = "fired"
    /\ UNCHANGED <<accepted, delivered, loopVars, inputClosed, stopClosed, caller>>

-----------------------------------------------------------------------------
LoopStep ==
    \/ InputClosed \/ StopSeen \/ DrainSeen \/ TimeoutSeen
    \/ Finish \/ CloseWait

CallerStep == OfferExpires \/ StopReturns \/ StopGivesUp

BuffNext ==
    \/ \E m \in Item : Receive(m)
    \/ Deliver \/ CloseIn
    \/ LoopStep
    \/ Drain \/ Stop \/ CallerStep \/ TimerFires

BuffSpec == BuffInit /\ [][BuffNext]_buffVars

(***************************************************************************)
(* Fairness.  The Go scheduler runs a goroutine that can run, and a select *)
(* does not pass over a ready case for ever: each case of the loop that    *)
(* needs nobody else is weakly fair.  Drain calls Stop; timers fire.       *)
(* Nothing is assumed of the sender and the receiver: they may stall.      *)
(***************************************************************************)
BuffFairness ==
    /\ WF_buffVars(InputClosed) /\ WF_buffVars(StopSeen) /\ WF_buffVars(TimeoutSeen)
    /\ WF_buffVars(Finish) /\ WF_buffVars(CloseWait)
    /\ WF_buffVars(DrainSeen \/ OfferExpires) /\ WF_buffVars(TimerFires)
    /\ WF_buffVars(caller = "stop" /\ Stop) /\ WF_buffVars(StopReturns \/ StopGivesUp)

FairBuffSpec == BuffSpec /\ BuffFairness

-----------------------------------------------------------------------------
(***************************************************************************)
(* The queue holds exactly the messages accepted and not yet delivered, in *)
(* the order of their arrival: the slice operations of the loop (append,   *)
(* pending[0], pending[1:]) lose, repeat and reorder nothing, whatever the *)
(* interleaving with Stop, Drain and the closing of the input.             *)
(***************************************************************************)
QueueIsTheGap == accepted = delivered \o pending

(***************************************************************************)
(* Somebody gave the loop leave to drop what it holds: Stop without a      *)
(* Drain the loop has seen, or the end of Drain's time.                    *)
(***************************************************************************)
LeaveToDrop == (stopClosed /\ ~draining) \/ timer \in {"fired", "taken"}

(***************************************************************************)
(* The loop ends with messages left only by leave.  In particular the Stop *)
(* that Drain itself calls, right after the loop took its offer, cuts      *)
(* nothing off ("protect from Stop() after Drain()").                      *)
(***************************************************************************)
NoLossWithoutLeave == loop # "running" /\ ~LeaveToDrop => delivered = accepted

(***************************************************************************)
(* The buffer is a FifoChannel: the goroutines at its ends may forget the  *)
(* loop, its flags and its timers.                                         *)
(***************************************************************************)
status ==
    IF loop # "running" THEN "closed" ELSE IF finished THEN "ended" ELSE "open"

Fifo == INSTANCE FifoChannel WITH
            Msg <- Item, sent <- accepted, got <- delivered, mayDrop <- LeaveToDrop

ImplementsFifoChannel == Fifo!Spec

(***************************************************************************)
(* Drain and Stop return, and the loop ends, even if nobody ever receives  *)
(* from bf.out again and the sender never closes bf.in.                    *)
(***************************************************************************)
StopEndsTheLoop ==
    /\ caller = "offer" ~> caller = "returned"
    /\ stopClosed ~> loop = "done"
=============================================================================
