--------------------------- MODULE MCBackpressure ---------------------------
(***************************************************************************)
(* Instances of Backpressure for TLC.                                      *)
(***************************************************************************)
EXTENDS Backpressure, TLC

Symmetry == Permutations(Actor \ PinnedActor) \cup Permutations(Sched \ {Pinned})
=============================================================================
