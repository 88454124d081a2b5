----------------------------- MODULE MCWorker11 -----------------------------
(***************************************************************************)
(* Worker11 for TLC: messages of two bytes, cut anywhere: an invoke with   *)
(* chunks and a choke behind it, or two messages of which one or both are  *)
(* of no session (one that does not unpack or decode before an invoke, a   *)
(* heartbeat's answer behind one).  The handler says two words by itself:  *)
(* enough for a chunk, an error or a second choke behind a choke.          *)
(***************************************************************************)
EXTENDS Worker11
=============================================================================
