-------------------------------- MODULE MCRx --------------------------------
(***************************************************************************)
(* Rx for TLC with a tree of two nodes that do not agree on any method: 0  *)
(* leads from the root into the stream and stays there, 1 ends the stream  *)
(* at the root and stays in the stream, 2 is unknown at the root and ends  *)
(* the stream in it.  A push that looks at the tree while Get is behind    *)
(* detaches too early or panics.  Two pushers (the service's loop and a    *)
(* Reconnect) and four results, so that the buffer and the queue are both  *)
(* in use on every path.                                                   *)
(***************************************************************************)
EXTENDS Rx, TLC

CONSTANTS root, stream

MCNode == {root, stream}
MCMethod == 0..2
MCTree == root :> (0 :> stream @@ 1 :> Empty @@ 2 :> Missing)
          @@ stream :> (0 :> Recursive @@ 1 :> Recursive @@ 2 :> Empty)
=============================================================================
