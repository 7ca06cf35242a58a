-------------------------- MODULE MCSessionManager --------------------------
(***************************************************************************)
(* SessionManager on small instances: two or three handles and one or two  *)
(* detached bootstraps, timeouts of one or two ticks.                      *)
(***************************************************************************)
EXTENDS SessionManager, TLC

Symmetric == Permutations(Handle) \cup Permutations(Task)
=============================================================================
