-------------------------- MODULE MCWorkerControl --------------------------
(***************************************************************************)
(* WorkerControl for TLC: a goroutine of the application that calls Stop   *)
(* beside the worker's own, and up to two waiting messages, so that a      *)
(* reply, a terminate or a session's message races every timer.            *)
(***************************************************************************)
EXTENDS WorkerControl
=============================================================================
