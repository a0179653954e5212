------------------------------ MODULE Counting ------------------------------
(***************************************************************************)
(* What proofs about finite sets count with.  The library of theorems on   *)
(* finite sets proves all of it; proofs take it as a hypothesis and        *)
(* discharge it at their end, so that they need only this much in scope.   *)
(***************************************************************************)
EXTENDS Integers, FiniteSets

CountNat == \A S : IsFiniteSet(S) => Cardinality(S) \in Nat

CountNone ==
  /\ IsFiniteSet({}) /\ Cardinality({}) = 0
  /\ \A S : IsFiniteSet(S) => (Cardinality(S) = 0 <=> S = {})

CountMore ==
  \A S, x : IsFiniteSet(S) =>
    /\ IsFiniteSet(S \cup {x})
    /\ Cardinality(S \cup {x}) = IF x \in S THEN Cardinality(S) ELSE Cardinality(S) + 1

CountLess ==
  \A S, x : IsFiniteSet(S) =>
    /\ IsFiniteSet(S \ {x})
    /\ Cardinality(S \ {x}) = IF x \in S THEN Cardinality(S) - 1 ELSE Cardinality(S)

CountPart ==
  \A S : IsFiniteSet(S) =>
    \A T \in SUBSET S : IsFiniteSet(T) /\ Cardinality(T) <= Cardinality(S)

CountRange ==
  \A k \in Nat : IsFiniteSet(1 .. k) /\ Cardinality(1 .. k) = k

CountPairs ==
  \A S, T : IsFiniteSet(S) /\ IsFiniteSet(T) =>
    IsFiniteSet(S \X T) /\ Cardinality(S \X T) = Cardinality(S) * Cardinality(T)

Counting ==
  CountNat /\ CountNone /\ CountMore /\ CountLess /\ CountPart /\ CountRange /\ CountPairs

=============================================================================
