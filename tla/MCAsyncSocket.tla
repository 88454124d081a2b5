--------------------------- MODULE MCAsyncSocket ---------------------------
(***************************************************************************)
(* The two halves of asocket.go for TLC: asyncBuff, which is shown to be a *)
(* FifoChannel, and asyncRWSocket, which uses FifoChannels in its place.   *)
(* They are checked apart: a behaviour is one of the buffer beside a socket*)
(* that nobody uses, or one of the socket beside an unused buffer, so that *)
(* the run has the sum of their states and not the product.  Nothing that  *)
(* is fair can happen in a half that is not used.                          *)
(*                                                                         *)
(* The buffer carries four messages of two kinds: enough for a queue of    *)
(* two on each side of every event (a delivery, the close of the input, a  *)
(* Stop or a Drain), and for a reordering to show.  The socket has two     *)
(* messages to send, each of which may be one that cannot be encoded, so   *)
(* that a failing write has messages before and behind it, and two         *)
(* different messages from the peer, so that one is queued while the other *)
(* is held by readloop.                                                    *)
(***************************************************************************)
EXTENDS AsyncSocket, AsyncBuff

CONSTANTS good, bad, m1, m2

MCMsg == {good, bad}
MCScript == <<good, bad>>
MCItem == {m1, m2}

MCInit == Init /\ BuffInit

MCNext ==
    \/ Init /\ BuffNext /\ UNCHANGED vars
    \/ BuffInit /\ Next /\ UNCHANGED buffVars

MCSpec ==
    /\ MCInit /\ [][MCNext]_<<vars, buffVars>>
    /\ Fairness /\ BuffFairness
=============================================================================
