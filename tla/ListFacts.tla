------------------------------- MODULE ListFacts -------------------------------
(***************************************************************************)
(* Facts about the members and the injectivity of sequences that the       *)
(* proofs of this project keep needing, and about what is defined or shown *)
(* number by number.                                                       *)
(***************************************************************************)
EXTENDS Integers, SequencesExt, SequenceTheorems, WellFoundedInduction, TLAPS

\* The members of a list, and of the lists made from it.
LEMMA ListOf ==
  ASSUME NEW S, NEW q \in Seq(S)
  PROVE  /\ ToSet(q) \subseteq S
         /\ q = <<>> <=> ToSet(q) = {}
         /\ Len(q) \in Nat /\ DOMAIN q = 1..Len(q)
         /\ \A i \in DOMAIN q : q[i] \in S
<1>1. Len(q) \in Nat /\ DOMAIN q = 1..Len(q) /\ q \in [1..Len(q) -> S]
  BY LenProperties
<1>2. q # <<>> => Len(q) # 0
  BY EmptySeq
<1>3. q # <<>> => 1 \in DOMAIN q
  BY <1>1, <1>2
<1>4. DOMAIN <<>> = {}
  OBVIOUS
<1>. QED  BY <1>1, <1>3, <1>4 DEF ToSet

\* What appending adds; it keeps a list without repetition so if the member is new.
LEMMA AppendList ==
  ASSUME NEW S, NEW q \in Seq(S), NEW e \in S
  PROVE  /\ Append(q, e) \in Seq(S)
         /\ ToSet(Append(q, e)) = ToSet(q) \cup {e}
         /\ IsInjective(q) /\ e \notin ToSet(q) => IsInjective(Append(q, e))
<1>. DEFINE u == Append(q, e)
<1>1. /\ u \in Seq(S) /\ Len(u) = Len(q) + 1
      /\ \A i \in 1..Len(q) : u[i] = q[i]
      /\ u[Len(q) + 1] = e
  BY AppendProperties
<1>2. /\ Len(q) \in Nat /\ DOMAIN q = 1..Len(q)
      /\ Len(u) \in Nat /\ DOMAIN u = 1..Len(u)
  BY <1>1, LenProperties
<1>3. DOMAIN u = DOMAIN q \cup {Len(q) + 1} /\ Len(q) + 1 \notin DOMAIN q
  BY <1>1, <1>2
<1>. HIDE DEF u
<1>4. ToSet(u) = ToSet(q) \cup {e}
  BY <1>1, <1>2, <1>3 DEF ToSet
<1>5. ASSUME IsInjective(q), e \notin ToSet(q)  PROVE IsInjective(u)
  BY <1>1, <1>2, <1>3, <1>5 DEF IsInjective, ToSet
<1>. QED  BY <1>1, <1>4, <1>5 DEF u

\* A list that is not empty is its head and its tail, in members and in order.
LEMMA HeadAndTail ==
  ASSUME NEW S, NEW q \in Seq(S), q # <<>>
  PROVE  /\ Head(q) \in S /\ Tail(q) \in Seq(S)
         /\ Len(Tail(q)) = Len(q) - 1
         /\ \A i \in DOMAIN Tail(q) : i + 1 \in DOMAIN q /\ Tail(q)[i] = q[i + 1]
         /\ 1 \in DOMAIN q /\ Head(q) = q[1]
         /\ ToSet(q) = {Head(q)} \cup ToSet(Tail(q))
         /\ IsInjective(q) => Head(q) \notin ToSet(Tail(q)) /\ IsInjective(Tail(q))
<1>. DEFINE t == Tail(q)
<1>1. /\ Head(q) \in S /\ t \in Seq(S) /\ Len(t) = Len(q) - 1
      /\ \A i \in 1..Len(t) : t[i] = q[i + 1]
  BY HeadTailProperties
<1>2. /\ Len(q) \in Nat \ {0} /\ DOMAIN q = 1..Len(q)
      /\ Len(t) \in Nat /\ DOMAIN t = 1..Len(t)
  BY <1>1, LenProperties, EmptySeq
<1>3. Head(q) = q[1] /\ 1 \in DOMAIN q
  BY <1>2
<1>. HIDE DEF t
<1>4. \A i \in DOMAIN t : i \in Nat /\ i + 1 \in DOMAIN q /\ i + 1 # 1 /\ t[i] = q[i + 1]
  BY <1>1, <1>2
<1>5. \A i \in DOMAIN q : i # 1 => i - 1 \in DOMAIN t /\ t[i - 1] = q[i]
  BY <1>1, <1>2
<1>6. ToSet(q) = {Head(q)} \cup ToSet(t)
  BY <1>3, <1>4, <1>5 DEF ToSet
<1>7. ASSUME IsInjective(q)
      PROVE  Head(q) \notin ToSet(t) /\ IsInjective(t)
  <2>1. Head(q) \notin ToSet(t)
    BY <1>3, <1>4, <1>7 DEF ToSet, IsInjective
  <2>2. ASSUME NEW i \in DOMAIN t, NEW j \in DOMAIN t, t[i] = t[j]  PROVE i = j
    <3>1. i + 1 = j + 1
      BY <1>4, <1>7, <2>2 DEF IsInjective
    <3>. QED  BY <1>4, <3>1
  <2>. QED  BY <2>1, <2>2 DEF IsInjective
<1>. QED  BY <1>1, <1>3, <1>4, <1>6, <1>7 DEF t

\* The empty list has no members.
LEMMA EmptyList ==
  /\ ToSet(<<>>) = {} /\ IsInjective(<<>>) /\ Len(<<>>) = 0 /\ DOMAIN <<>> = {}
  /\ \A S : <<>> \in Seq(S)
<1>1. DOMAIN <<>> = {} /\ Len(<<>>) = 0
  OBVIOUS
<1>. QED  BY <1>1, EmptySeq DEF ToSet, IsInjective

-----------------------------------------------------------------------------
(***************************************************************************)
(* Numbers.  The induction theorems of the library are about predicates;   *)
(* these are about sets and functions.                                     *)
(***************************************************************************)
\* Every set of numbers that is not empty has a smallest member.
LEMMA Smallest ==
  ASSUME NEW T \in SUBSET Nat, T # {}
  PROVE \E n \in T : \A m \in T : n =< m
<1>. DEFINE R == OpToRel(<, Nat)
<1>1. IsWellFoundedOn(R, Nat)
  BY NatLessThanWellFounded
<1>2. \A x, y \in Nat : x < y => <<x, y>> \in R
  BY DEF OpToRel
<1>. HIDE DEF R
<1>3. PICK n \in T : \A m \in T : ~(<<m, n>> \in R)
  BY <1>1, WFMin
<1>4. \A m \in T : ~(m < n)
  BY <1>2, <1>3
<1>5. n \in Nat /\ \A m \in T : m \in Nat
  BY <1>3
<1>. QED  BY <1>3, <1>4, <1>5

\* Induction: what holds of b, and of i + 1 when it holds of i, up to n, holds
\* of all numbers from b to n.  The set H is what it holds of.
LEMMA Induction ==
  ASSUME NEW b \in Nat, NEW n \in Nat, NEW H,
         b =< n => b \in H,
         \A i \in b..n : i # b /\ i - 1 \in H => i \in H
  PROVE  b..n \subseteq H
<1>. DEFINE T == {i \in b..n : i \notin H}
<1>1. SUFFICES ASSUME T # {}  PROVE FALSE
  OBVIOUS
<1>2. T \in SUBSET Nat
  OBVIOUS
<1>3. PICK i \in T : \A j \in T : i =< j
  BY <1>1, <1>2, Smallest
<1>4. i \in b..n /\ i # b /\ i - 1 \in b..n
  BY <1>3
<1>5. i - 1 \notin T
  BY <1>3, <1>4
<1>. QED  BY <1>3, <1>4, <1>5

\* f starts with a at b, and G yields each of its values from the one before.
ByRecursion(f, b, n, a, G) ==
  \A i \in b..n : f[i] = IF i = b THEN a ELSE G[<<i, f[i - 1]>>]

\* A function defined by recursion on the number before exists.
LEMMA Recursion ==
  ASSUME NEW D, NEW b \in Nat, NEW n \in Nat, NEW a \in D, NEW G \in [(b..n) \X D -> D]
  PROVE  \E f \in [b..n -> D] : ByRecursion(f, b, n, a, G)
<1>. DEFINE Solves(f, m) == ByRecursion(f, b, m, a, G)
            H == {m \in b..n : \E f \in [b..m -> D] : Solves(f, m)}
<1>1. CASE n < b
  <2>1. b..n = {}
    BY <1>1
  <2>2. [i \in b..n |-> a] \in [b..n -> D] /\ Solves([i \in b..n |-> a], n)
    BY <2>1 DEF ByRecursion
  <2>. QED  BY <2>2
<1>2. CASE b =< n
  <2>1. b \in H
    <3>1. b..b = {b} /\ b \in b..n
      BY <1>2
    <3>. DEFINE f == [i \in b..b |-> a]
    <3>2. f \in [b..b -> D] /\ Solves(f, b)
      BY <3>1 DEF ByRecursion
    <3>. QED  BY <3>1, <3>2
  <2>2. ASSUME NEW m \in b..n, m # b, m - 1 \in H  PROVE m \in H
    <3>1. PICK f \in [b..m - 1 -> D] : Solves(f, m - 1)
      BY <2>2
    <3>2. m \in Nat /\ m - 1 \in b..m - 1 /\ f[m - 1] \in D
      BY <2>2
    <3>. DEFINE g == [i \in b..m |-> IF i = m THEN G[<<m, f[m - 1]>>] ELSE f[i]]
    <3>3. G[<<m, f[m - 1]>>] \in D
      BY <3>2
    <3>4. \A i \in b..m : i # m => i \in b..m - 1 /\ f[i] \in D
      BY <3>2
    <3>5. g \in [b..m -> D]
      BY <3>3, <3>4
    <3>6. \A i \in b..m : i # b => i - 1 \in b..m /\ i - 1 # m /\ g[i - 1] = f[i - 1]
      BY <3>2
    <3>7. ASSUME NEW i \in b..m
          PROVE  g[i] = IF i = b THEN a ELSE G[<<i, g[i - 1]>>]
      <4>1. CASE i = m
        <5>1. g[i] = G[<<i, f[i - 1]>>]
          BY <4>1
        <5>. HIDE DEF g
        <5>. QED  BY <2>2, <3>6, <4>1, <5>1
      <4>2. CASE i # m
        <5>1. i \in b..m - 1 /\ g[i] = f[i]
          BY <3>4, <4>2
        <5>2. f[i] = IF i = b THEN a ELSE G[<<i, f[i - 1]>>]
          BY <3>1, <5>1 DEF ByRecursion
        <5>. HIDE DEF g
        <5>. QED  BY <3>6, <5>1, <5>2
      <4>. QED  BY <4>1, <4>2
    <3>. HIDE DEF g
    <3>8. Solves(g, m)
      BY <3>7 DEF ByRecursion
    <3>. QED  BY <3>5, <3>8
  <2>. HIDE DEF H
  <2>3. b..n \subseteq H
    BY <2>1, <2>2, Induction
  <2>4. n \in H
    BY <1>2, <2>3
  <2>. USE DEF H
  <2>. QED  BY <2>4
<1>. QED  BY <1>1, <1>2
=============================================================================
