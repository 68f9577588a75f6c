----------------------------- MODULE CycleScan -----------------------------
(***************************************************************************)
(* The scans of detect() (gc/cycle.c): a trial deletion over the views     *)
(* reached from one of them.  scan_grey takes the references between the   *)
(* views off their counts, scan_white colours white what is left with none *)
(* and gives the others, and what they reach, their counts back            *)
(* (scan_black), and collect_white makes the white ones a perceived cycle. *)
(*                                                                         *)
(* Each scan has a stack of references, a sequence whose last is the top.  *)
(* The references of a view are pushed in the order of its hash map: here, *)
(* the order of the sequence ord, any order of the actors.                 *)
(***************************************************************************)
EXTENDS Integers, Sequences, SequencesExt

CONSTANT SizeMod   \* counts are of type size_t: they wrap around here

(* s maps each actor to its view: blocked, deferred, rc, refs and color.   *)
(* The references to push on a stack, with their counts.                   *)
Children(s, a, ord) ==
  LET held == SelectSeq(ord, LAMBDA b : s[a].refs[b] > 0)
  IN  [i \in DOMAIN held |-> <<held[i], s[a].refs[held[i]]>>]

Less(n, k) == (n - k) % SizeMod
More(n, k) == (n + k) % SizeMod

(* scan_grey with mark_grey.                                               *)
RECURSIVE ScanGrey(_, _, _)
ScanGrey(s, stack, ord) ==
  IF stack = <<>> THEN s
  ELSE LET a    == Last(stack)[1]
           rest == Front(stack)
           t    == [s EXCEPT ![a].rc = Less(@, Last(stack)[2]), ![a].deferred = FALSE, ![a].color = "grey"]
       IN  IF ~s[a].blocked THEN ScanGrey(s, rest, ord)
           ELSE ScanGrey(t, IF s[a].color = "grey" THEN rest ELSE rest \o Children(s, a, ord), ord)

(* Mutant: a view that is black already does not get the count back.       *)
RECURSIVE ScanBlackOnce(_, _, _, _)
ScanBlackOnce(s, n, stack, ord) ==
  IF stack = <<>> THEN [s |-> s, n |-> n]
  ELSE LET a    == Last(stack)[1]
           rest == Front(stack)
           t    == [s EXCEPT ![a].rc = More(@, Last(stack)[2]), ![a].color = "black"]
       IN  IF ~s[a].blocked \/ s[a].color = "black" THEN ScanBlackOnce(s, n, rest, ord)
           ELSE ScanBlackOnce(t, IF s[a].color = "white" THEN n + 1 ELSE n, rest \o Children(s, a, ord), ord)

(* scan_black with mark_black: n counts the white views coloured black.    *)
RECURSIVE ScanBlack(_, _, _, _)
ScanBlack(s, n, stack, ord) ==
  IF stack = <<>> THEN [s |-> s, n |-> n]
  ELSE LET a    == Last(stack)[1]
           rest == Front(stack)
           t    == [s EXCEPT ![a].rc = More(@, Last(stack)[2]), ![a].color = "black"]
       IN  IF ~s[a].blocked THEN ScanBlack(s, n, rest, ord)
           ELSE IF s[a].color = "black" THEN ScanBlack(t, n, rest, ord)
           ELSE ScanBlack(t, IF s[a].color = "white" THEN n + 1 ELSE n, rest \o Children(s, a, ord), ord)

(* scan_white with mark_white: n counts the white views.                   *)
RECURSIVE ScanWhite(_, _, _, _)
ScanWhite(s, n, stack, ord) ==
  IF stack = <<>> THEN [s |-> s, n |-> n]
  ELSE LET a    == Last(stack)[1]
           rest == Front(stack)
           blk  == ScanBlack(s, 0, <<<<a, 0>>>>, ord)
       IN  IF s[a].color # "grey" THEN ScanWhite(s, n, rest, ord)
           ELSE IF s[a].rc > 0 THEN ScanWhite(blk.s, n - blk.n, rest, ord)
           ELSE ScanWhite([s EXCEPT ![a].color = "white"], n + 1, rest \o Children(s, a, ord), ord)

(* collect_white with collect_view: members are the views put in the cycle.*)
(* The rest of a view's treatment is that of mark_black.                   *)
RECURSIVE CollectWhite(_, _, _, _, _)
CollectWhite(s, n, members, stack, ord) ==
  IF stack = <<>> THEN [s |-> s, n |-> n, members |-> members]
  ELSE LET a    == Last(stack)[1]
           rest == Front(stack)
           t    == [s EXCEPT ![a].rc = More(@, Last(stack)[2]), ![a].color = "black"]
       IN  IF ~s[a].blocked THEN CollectWhite(s, n, members, rest, ord)
           ELSE IF s[a].color = "black" THEN CollectWhite(t, n, members, rest, ord)
           ELSE IF s[a].color = "white"
             THEN CollectWhite(t, n + 1, members \cup {a}, rest \o Children(s, a, ord), ord)
             ELSE CollectWhite(t, n, members, rest \o Children(s, a, ord), ord)

(* detect(v): the views after it, the two counts of white views, and the   *)
(* members of the perceived cycle.                                         *)
DetectScan(s, v, ord) ==
  LET grey  == ScanGrey(s, <<<<v, 0>>>>, ord)
      white == ScanWhite(grey, 0, <<<<v, 0>>>>, ord)
  IN  IF white.n = 0
        THEN [s |-> white.s, n |-> 0, members |-> {}, n2 |-> 0]
        ELSE LET c == CollectWhite(white.s, 0, {}, <<<<v, 0>>>>, ord)
             IN  [s |-> c.s, n |-> white.n, members |-> c.members, n2 |-> c.n]
=============================================================================
