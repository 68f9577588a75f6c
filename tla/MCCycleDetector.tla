-------------------------- MODULE MCCycleDetector --------------------------
(***************************************************************************)
(* Instances of CycleDetector for TLC.                                     *)
(***************************************************************************)
EXTENDS CycleDetector

CONSTANTS a1, b1

Graph(m, x, y) == [v \in Actor |-> IF v = Main THEN m ELSE IF v = a1 THEN x ELSE y]

At(g, to, n) == [refs |-> g, sent |-> to, work |-> n]

(* Main alone; Main and a1 that refer to each other, without and with a    *)
(* message that crosses their reports; a ring; a ring with a chord.        *)
MCStart ==
  { At(Graph({}, {}, {}), {}, 2),
    At(Graph({a1}, {Main}, {}), {}, 1),
    At(Graph({a1}, {Main}, {}), {a1}, 1),
    At(Graph({a1}, {b1}, {Main}), {}, 0),
    At(Graph({a1, b1}, {b1}, {Main}), {}, 0) }

MCStartLive ==
  { At(Graph({}, {}, {}), {}, 2),
    At(Graph({a1}, {Main}, {}), {a1}, 0),
    At(Graph({a1}, {b1}, {Main}), {}, 0) }
=============================================================================
