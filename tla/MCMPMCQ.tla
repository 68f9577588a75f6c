------------------------------ MODULE MCMPMCQ ------------------------------
(***************************************************************************)
(* Instances of MPMCQ for TLC.                                             *)
(***************************************************************************)
EXTENDS MPMCQ, TLC

Symmetry ==
  Permutations(Thread) \cup Permutations(Node) \cup Permutations(Item)
=============================================================================
