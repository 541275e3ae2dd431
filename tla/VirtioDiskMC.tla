---------------------------- MODULE VirtioDiskMC ----------------------------
(* Three processes, each with a block of its own, that it reads or writes. *)
EXTENDS VirtioDisk

MCTransfer == {[buf |-> p, block |-> p, write |-> p = "p2"] : p \in Proc}
=============================================================================
