----------------------------- MODULE MCHandshake -----------------------------
(***************************************************************************)
(* Handshake on small instances: one client that may fill its link with    *)
(* repeated packets, or two honest ones that compete for slots, challenges *)
(* and objects.                                                            *)
(***************************************************************************)
EXTENDS Handshake, TLC

Symmetric == Permutations(Peer)
=============================================================================
