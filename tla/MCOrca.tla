------------------------------- MODULE MCOrca -------------------------------
(***************************************************************************)
(* Instances of Orca for TLC.                                              *)
(***************************************************************************)
EXTENDS Orca, TLC

Symmetry == Permutations(Actor \ {Main}) \cup Permutations(Object)
=============================================================================
