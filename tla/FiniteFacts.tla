---------------------------- MODULE FiniteFacts -----------------------------
(***************************************************************************)
(* The facts about finite sets that the proofs use.  The lemmas about a    *)
(* component assume them, and its last section takes them from the library *)
(* (FiniteSetTheorems): its theorems assume nothing.                       *)
(***************************************************************************)
EXTENDS Integers, FiniteSets

NoElement ==
  /\ IsFiniteSet({}) /\ Cardinality({}) = 0
  /\ \A S : IsFiniteSet(S) => (Cardinality(S) = 0 <=> S = {})

OneElement ==
  /\ \A x : IsFiniteSet({x}) /\ Cardinality({x}) = 1
  /\ \A S : IsFiniteSet(S) => (Cardinality(S) = 1 <=> \E x : S = {x})

AddElement ==
  \A S, x : IsFiniteSet(S) =>
    /\ IsFiniteSet(S \cup {x})
    /\ Cardinality(S \cup {x}) = IF x \in S THEN Cardinality(S) ELSE Cardinality(S) + 1

RemoveElement ==
  \A S, x : IsFiniteSet(S) =>
    /\ IsFiniteSet(S \ {x})
    /\ Cardinality(S \ {x}) = IF x \in S THEN Cardinality(S) - 1 ELSE Cardinality(S)

Parts ==
  \A S : IsFiniteSet(S) => \A T \in SUBSET S :
    /\ IsFiniteSet(T) /\ Cardinality(T) <= Cardinality(S)
    /\ Cardinality(S) = Cardinality(T) => S = T

SizeIsNat == \A S : IsFiniteSet(S) => Cardinality(S) \in Nat

Interval ==
  \A a, b \in Int :
    IsFiniteSet(a..b) /\ Cardinality(a..b) = IF a > b THEN 0 ELSE b - a + 1

Pairs == \A S, T : IsFiniteSet(S) /\ IsFiniteSet(T) => IsFiniteSet(S \X T)

SameSize ==
  \A S, T : \A f \in [S -> T] :
    /\ IsFiniteSet(S)
    /\ \A i, j \in S : f[i] = f[j] => i = j
    /\ \A j \in T : \E i \in S : f[i] = j
    => IsFiniteSet(T) /\ Cardinality(T) = Cardinality(S)

FiniteFacts ==
  /\ NoElement /\ OneElement /\ AddElement /\ RemoveElement
  /\ Parts /\ SizeIsNat /\ Interval /\ Pairs /\ SameSize
=============================================================================
