---------------------------- MODULE MCReplication ----------------------------
(***************************************************************************)
(* Replication on small instances.                                         *)
(***************************************************************************)
EXTENDS Replication, TLC

MCReach == 1 :> {1, 2} @@ 2 :> {1}
MCSettings == 1 :> {1} @@ 2 :> {}

=============================================================================
