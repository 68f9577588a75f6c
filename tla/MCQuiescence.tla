---------------------------- MODULE MCQuiescence ----------------------------
(***************************************************************************)
(* Instances of Quiescence for TLC.                                        *)
(***************************************************************************)
EXTENDS Quiescence, TLC

Symmetry == Permutations(Actor)
=============================================================================
