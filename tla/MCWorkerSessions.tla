-------------------------- MODULE MCWorkerSessions --------------------------
(***************************************************************************)
(* WorkerSessions for TLC: four messages of two sessions in any order      *)
(* (invokes that repeat, come late or are corrupted, chunks and closes of  *)
(* unknown, closed and live sessions), each handler writing one chunk.     *)
(***************************************************************************)
EXTENDS WorkerSessions
=============================================================================
