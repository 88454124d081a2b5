-------------------------- MODULE MCRequestStream --------------------------
(***************************************************************************)
(* RequestStream for TLC: chunks of zero, one and three bytes, read with   *)
(* slices of one and two bytes, so that a chunk is cut into one, two or    *)
(* three reads; three messages, so that the queue holds several while one  *)
(* is half read.                                                           *)
(***************************************************************************)
EXTENDS RequestStream

CONSTANTS b1, b2, b3

MCByte == {b1, b2, b3}
MCChunk == {<<>>, <<b1>>, <<b1, b2, b3>>}
=============================================================================
