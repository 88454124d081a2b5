------------------------------ MODULE MCBridge ------------------------------
(***************************************************************************)
(* Bridge for TLC: a reply of three pieces, so that the child may die      *)
(* before, between and after them, at every point of start-up and shutdown.*)
(***************************************************************************)
EXTENDS Bridge
=============================================================================
