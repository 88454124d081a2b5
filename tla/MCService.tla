----------------------------- MODULE MCService -----------------------------
(***************************************************************************)
(* Service for TLC.  Two goroutines that call or log, one that forces a    *)
(* reconnection, one that Closes and may Close again, and one successful   *)
(* reconnection: an old and a new socket whose loops may start and end     *)
(* late, and the callers between them.  The callers are interchangeable,   *)
(* and the run that uses the symmetry checks invariants only.              *)
(***************************************************************************)
EXTENDS Service, TLC

CallerSymmetry == Permutations(Caller)
=============================================================================
