----------------------------- MODULE MCMessageQ -----------------------------
(***************************************************************************)
(* Instances of MessageQ for TLC.                                          *)
(***************************************************************************)
EXTENDS MessageQ, TLC

Symmetry == Permutations(Thread) \cup Permutations(Node)
=============================================================================
