----------------------------- MODULE Iteration -----------------------------
(***************************************************************************)
(* Induction and recursion over the naturals, stated of sets and functions *)
(* instead of predicates and operators.  The models write recursion as a   *)
(* function f[i \in 0..n] == ... f[i - 1] ...; the lemmas below give such  *)
(* a definition its meaning and its type.                                  *)
(***************************************************************************)
EXTENDS Integers, WellFoundedInduction, TLAPS

(***************************************************************************)
(* A nonempty set of naturals has a least element.                         *)
(***************************************************************************)
LEMMA LeastNatural ==
  ASSUME NEW T, T \subseteq Nat, T # {}
  PROVE  \E x \in T : \A y \in T : x <= y
<1> DEFINE R == OpToRel(<, Nat)
<1>1. PICK x \in T : \A y \in T : ~ (<<y, x>> \in R)
  BY NatLessThanWellFounded, WFMin
<1>2. ASSUME NEW y \in T
      PROVE  x <= y
  <2>1. x \in Nat /\ y \in Nat
    OBVIOUS
  <2>2. ~ (y < x)
    BY <1>1, <2>1 DEF OpToRel
  <2> QED
    BY <2>1, <2>2
<1> QED
  BY <1>2

(***************************************************************************)
(* A set that holds 0, and with every number below n the next one, holds   *)
(* all numbers up to n.                                                    *)
(***************************************************************************)
LEMMA UpTo ==
  ASSUME NEW n \in Nat, NEW T, 0 \in T, \A i \in 1..n : i - 1 \in T => i \in T
  PROVE  \A i \in 0..n : i \in T
<1> SUFFICES ASSUME NEW k \in 0..n, k \notin T PROVE FALSE
  OBVIOUS
<1>1. PICK M : M = {i \in 0..n : i \notin T}
  OBVIOUS
<1>2. M \subseteq Nat /\ M # {}
  BY <1>1
<1>3. PICK m \in M : \A i \in M : m <= i
  BY <1>2, LeastNatural
<1>4. m \in 1..n /\ m - 1 \in 0..n
  BY <1>1
<1>5. m - 1 \in T
  BY <1>1, <1>3, <1>4
<1> QED
  BY <1>1, <1>4, <1>5

(***************************************************************************)
(* There is a function that starts with a and takes every step of F, and   *)
(* only one.                                                               *)
(***************************************************************************)
HasRun(n, S, a, F) ==
  \E w \in [0..n -> S] : w[0] = a /\ \A i \in 1..n : w[i] = F[i][w[i - 1]]

LEMMA Iterates ==
  ASSUME NEW n \in Nat, NEW S, NEW a \in S, NEW F \in [1..n -> [S -> S]]
  PROVE  HasRun(n, S, a, F)
<1> DEFINE Runs(w, k) == w[0] = a /\ \A i \in 1..k : w[i] = F[i][w[i - 1]]
           T == {k \in 0..n : \E w \in [0..k -> S] : Runs(w, k)}
<1>1. 0 \in T
  <2>1. PICK w : w = [i \in 0..0 |-> a]
    OBVIOUS
  <2>2. w \in [0..0 -> S] /\ Runs(w, 0)
    BY <2>1
  <2> QED
    BY <2>2
<1>2. ASSUME NEW k \in 1..n, k - 1 \in T
      PROVE  k \in T
  <2>0. k - 1 \in 0..n /\ k \in 0..n /\ 0 \in 0..(k - 1) /\ 0 # k
        /\ \A i \in 1..(k - 1) : i \in 1..k /\ i - 1 \in 0..(k - 1)
    BY <1>2
  <2>1. PICK w \in [0..(k - 1) -> S] : Runs(w, k - 1)
    BY <1>2
  <2>2. w[k - 1] \in S
    BY <2>0
  <2>3. PICK x \in S : x = F[k][w[k - 1]]
    BY <2>2
  <2>4. PICK v : v = [i \in 0..k |-> IF i = k THEN x ELSE w[i]]
    OBVIOUS
  <2>5. \A i \in 0..k : i = k \/ i \in 0..(k - 1)
    BY <2>0
  <2>6. v \in [0..k -> S] /\ v[k] = x /\ \A i \in 0..(k - 1) : v[i] = w[i]
    BY <2>0, <2>4, <2>5
  <2>7. ASSUME NEW i \in 1..k
        PROVE  v[i] = F[i][v[i - 1]]
    <3>1. i = k \/ i \in 1..(k - 1)
      BY <2>0
    <3>2. CASE i = k
      <4>1. v[k - 1] = w[k - 1]
        BY <2>0, <2>6
      <4> QED
        BY <2>3, <2>6, <3>2, <4>1
    <3>3. CASE i \in 1..(k - 1)
      <4>1. i \in 0..(k - 1) /\ i - 1 \in 0..(k - 1)
        BY <2>0, <3>3
      <4>2. v[i] = w[i] /\ v[i - 1] = w[i - 1]
        BY <2>6, <4>1
      <4>3. w[i] = F[i][w[i - 1]]
        BY <2>1, <3>3
      <4> QED
        BY <4>2, <4>3
    <3> QED
      BY <3>1, <3>2, <3>3
  <2>8. v[0] = a
    BY <2>0, <2>1, <2>6
  <2> QED
    BY <2>0, <2>6, <2>7, <2>8
<1>3. n \in T
  <2>1. n \in 0..n
    OBVIOUS
  <2> HIDE DEF T
  <2>2. \A i \in 0..n : i \in T
    BY <1>1, <1>2, UpTo
  <2> QED
    BY <2>1, <2>2
<1> QED
  BY <1>3 DEF HasRun

=============================================================================
