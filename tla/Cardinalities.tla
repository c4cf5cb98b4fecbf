--------------------------- MODULE Cardinalities ---------------------------
(***************************************************************************)
(* What the proofs use of the cardinality of finite sets and of the order  *)
(* of the numbers.  The lemmas take these facts as assumptions, which the  *)
(* module that proves the theorems discharges: so the library's facts are  *)
(* only looked at where they are needed.                                   *)
(***************************************************************************)
EXTENDS Integers, FiniteSets

(* How the cardinality of a finite set follows its elements.               *)
Counting ==
    /\ Cardinality({}) = 0
    /\ \A S : IsFiniteSet(S) => Cardinality(S) \in Nat /\ (Cardinality(S) = 0 => S = {})
    /\ \A S : IsFiniteSet(S) =>
           \A T \in SUBSET S : IsFiniteSet(T) /\ Cardinality(T) <= Cardinality(S)
    /\ \A S, x : IsFiniteSet(S) =>
           IsFiniteSet(S \cup {x}) /\ (x \notin S => Cardinality(S \cup {x}) = Cardinality(S) + 1)
    /\ \A S, x : IsFiniteSet(S) =>
           IsFiniteSet(S \ {x}) /\ (x \in S => Cardinality(S \ {x}) = Cardinality(S) - 1)

(* A set of numbers has a least one.                                       *)
LeastNumber ==
    \A S \in SUBSET Nat : S # {} => \E x \in S : \A y \in S : x <= y

=============================================================================
