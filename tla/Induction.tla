------------------------------ MODULE Induction ------------------------------
(***************************************************************************)
(* Induction over the natural numbers, stated with a set in the place of a *)
(* predicate: the proofs about what a recursive function computes need it. *)
(***************************************************************************)
EXTENDS Integers, FiniteSetsExt, WellFoundedInduction, TLAPS

LEMMA LessPairs ==
  ASSUME NEW m \in Nat, NEW n \in Nat, m < n
  PROVE  <<m, n>> \in OpToRel(<, Nat)
BY DEF OpToRel

LEMMA Minimal ==
  ASSUME NEW R, IsWellFoundedOn(R, Nat), NEW S, S \subseteq Nat, S # {}
  PROVE  \E m \in S : \A n \in S : ~(<<n, m>> \in R)
BY WFMin

\* Every set of natural numbers that is not empty has a least element.
LEMMA Least ==
  ASSUME NEW S \in SUBSET Nat, S # {}
  PROVE  \E m \in S : \A n \in S : m <= n
<1>1. IsWellFoundedOn(OpToRel(<, Nat), Nat)
  BY NatLessThanWellFounded
<1>2. \A m, n \in Nat : m < n => <<m, n>> \in OpToRel(<, Nat)
  BY LessPairs
<1>3. \E R : IsWellFoundedOn(R, Nat) /\ \A m, n \in Nat : m < n => <<m, n>> \in R
  BY <1>1, <1>2, Zenon
<1>4. PICK R : IsWellFoundedOn(R, Nat) /\ \A m, n \in Nat : m < n => <<m, n>> \in R
  BY <1>3
<1>5. S \subseteq Nat
  OBVIOUS
<1>6. \E m \in S : \A n \in S : ~(<<n, m>> \in R)
  BY <1>4, <1>5, Minimal, Zenon
<1>7. \E m \in S : \A n \in S : ~(n < m)
  BY <1>4, <1>6, Zenon
<1> QED BY <1>7

\* A set that holds 0, and with each number the next, holds every number.
THEOREM SetInduction ==
  ASSUME NEW S \in SUBSET Nat, 0 \in S, \A n \in S : n + 1 \in S
  PROVE  \A n \in Nat : n \in S
<1> SUFFICES ASSUME Nat \ S # {} PROVE FALSE
  OBVIOUS
<1>1. PICK m \in Nat \ S : \A n \in Nat \ S : m <= n
  BY Least
<1>2. m # 0 /\ m - 1 \in Nat
  BY <1>1
<1>3. m - 1 \in S
  BY <1>1, <1>2
<1> QED BY <1>1, <1>2, <1>3

\* The same up to a bound.
LEMMA BoundedInduction ==
  ASSUME NEW N \in Nat, NEW S, 0 \in S, \A n \in 0 .. N - 1 : n \in S => n + 1 \in S
  PROVE  \A n \in 0 .. N : n \in S
<1> DEFINE T == {n \in Nat : n <= N => n \in S}
<1>1. \A n \in T : n + 1 \in T
  OBVIOUS
<1>2. 0 \in T /\ T \in SUBSET Nat
  OBVIOUS
<1> HIDE DEF T
<1>3. \A n \in Nat : n \in T
  BY <1>1, <1>2, SetInduction
<1> QED BY <1>3 DEF T

LEMMA MaxOfTwo ==
  ASSUME NEW a \in Int, NEW b \in Int
  PROVE  Max({a, b}) = IF a > b THEN a ELSE b
<1>1. \E x \in {a, b} : \A y \in {a, b} : x >= y
  OBVIOUS
<1>2. Max({a, b}) \in {a, b} /\ \A y \in {a, b} : Max({a, b}) >= y
  BY <1>1 DEF Max
<1> QED BY <1>2

\* Iterated functions exist: f starts with z, and goes on by d.
Iterates(f, N, S, z, d) ==
  /\ f \in [0 .. N -> S] /\ f[0] = z
  /\ \A n \in 1 .. N : f[n] = d[n][f[n - 1]]

LEMMA IteratesExist ==
  ASSUME NEW N \in Nat, NEW S, NEW z \in S, NEW d \in [1 .. N -> [S -> S]]
  PROVE  \E f : Iterates(f, N, S, z, d)
<1> DEFINE T == {n \in Nat : \E f : Iterates(f, n, S, z, d)}
<1>1. 0 \in T
  <2>1. Iterates([k \in 0 .. 0 |-> z], 0, S, z, d)
    BY DEF Iterates
  <2> QED BY <2>1
<1>2. ASSUME NEW n \in 0 .. N - 1, n \in T
      PROVE  n + 1 \in T
  <2>1. PICK f : Iterates(f, n, S, z, d)
    BY <1>2
  <2> DEFINE e == d[n + 1][f[n]]
             g == [k \in 0 .. n + 1 |-> IF k = n + 1 THEN e ELSE f[k]]
  <2>2. e \in S
    <3>1. n + 1 \in 1 .. N /\ n \in 0 .. n
      OBVIOUS
    <3>2. f[n] \in S
      BY <2>1, <3>1 DEF Iterates
    <3> QED BY <3>1, <3>2
  <2>3. g \in [0 .. n + 1 -> S] /\ g[0] = z
    <3> HIDE DEF e
    <3>1. \A k \in 0 .. n + 1 : k # n + 1 => k \in 0 .. n
      OBVIOUS
    <3> QED BY <2>1, <2>2, <3>1 DEF Iterates
  <2>4. ASSUME NEW k \in 1 .. n + 1
        PROVE  g[k] = d[k][g[k - 1]]
    <3>1. g[k - 1] = f[k - 1]
      OBVIOUS
    <3>2. CASE k = n + 1
      BY <3>1, <3>2
    <3>3. CASE k # n + 1
      <4>1. k \in 1 .. n /\ g[k] = f[k]
        BY <3>3
      <4> QED BY <2>1, <3>1, <4>1 DEF Iterates
    <3> QED BY <3>2, <3>3
  <2> HIDE DEF g
  <2>5. Iterates(g, n + 1, S, z, d)
    BY <2>3, <2>4, Zenon DEF Iterates
  <2> QED BY <2>5
<1> HIDE DEF T
<1>3. \A n \in 0 .. N : n \in T
  BY <1>1, <1>2, BoundedInduction
<1> QED BY <1>3 DEF T
=============================================================================
