---------------------------- MODULE TreeLocksProofs ----------------------------
(***************************************************************************)
(* Proofs about TreeLocks, for a tree of any size, any number of dumping   *)
(* threads and any calls of the handlers: no two threads come to a field   *)
(* together, one of them to write it, and a dump is one picture of the     *)
(* tree.                                                                   *)
(***************************************************************************)
EXTENDS TreeLocks, FileTreeProofs, FiniteSetTheorems

-----------------------------------------------------------------------------
(***************************************************************************)
(* What is left of a call is a path: it leads from what the thread holds   *)
(* now, step by step as R allows, to what it holds at the end.             *)
(***************************************************************************)
Path(R, x, s, y) ==
  \E at : /\ at[0] = x /\ at[Len(s)] = y
          /\ \A i \in 1..Len(s) : <<at[i - 1], s[i], at[i]>> \in R

\* Nothing left to do.
LEMMA PathEmpty ==
  ASSUME NEW R, NEW x, NEW y
  PROVE  Path(R, x, <<>>, y) <=> x = y
<1>1. Len(<<>>) = 0 /\ 1..0 = {}
  BY EmptyList
<1>2. ASSUME x = y  PROVE Path(R, x, <<>>, y)
  <2>. DEFINE at == [i \in {0} |-> x]
  <2>1. at[0] = x /\ \A i \in 1..0 : <<at[i - 1], <<>>[i], at[i]>> \in R
    OBVIOUS
  <2>. HIDE DEF at
  <2>. QED  BY <1>1, <1>2, <2>1 DEF Path
<1>. QED  BY <1>1, <1>2 DEF Path

\* One step.
LEMMA PathOne ==
  ASSUME NEW R, NEW x, NEW a, NEW y, <<x, a, y>> \in R
  PROVE  Path(R, x, <<a>>, y)
<1>. DEFINE s == <<a>>
            at == [i \in 0..1 |-> IF i = 0 THEN x ELSE y]
<1>1. Len(s) = 1 /\ s[1] = a
  OBVIOUS
<1>2. at[0] = x /\ at[1] = y /\ 1..1 = {1} /\ 1 - 1 = 0
  OBVIOUS
<1>. HIDE DEF s, at
<1>3. \A i \in 1..1 : <<at[i - 1], s[i], at[i]>> \in R
  BY <1>1, <1>2
<1>. QED  BY <1>1, <1>2, <1>3 DEF Path, s

\* One after the other.
LEMMA PathJoin ==
  ASSUME NEW R, NEW S, NEW s \in Seq(S), NEW u \in Seq(S), NEW x, NEW y, NEW z,
         Path(R, x, s, y), Path(R, y, u, z)
  PROVE  s \o u \in Seq(S) /\ Path(R, x, s \o u, z)
<1>. DEFINE m == Len(s)
            n == Len(u)
            v == s \o u
<1>1. m \in Nat /\ n \in Nat
  BY LenProperties
<1>2. /\ v \in Seq(S) /\ Len(v) = m + n
      /\ \A i \in 1..m + n : v[i] = IF i <= m THEN s[i] ELSE u[i - m]
  BY ConcatProperties
<1>3. PICK at : /\ at[0] = x /\ at[m] = y
                /\ \A i \in 1..m : <<at[i - 1], s[i], at[i]>> \in R
  BY DEF Path
<1>4. PICK bt : /\ bt[0] = y /\ bt[n] = z
                /\ \A i \in 1..n : <<bt[i - 1], u[i], bt[i]>> \in R
  BY DEF Path
<1>. DEFINE ct == [i \in 0..m + n |-> IF i <= m THEN at[i] ELSE bt[i - m]]
<1>. HIDE DEF m, n, v
<1>5. \A i \in 0..m + n : ct[i] = IF i <= m THEN at[i] ELSE bt[i - m]
  OBVIOUS
<1>. HIDE DEF ct
<1>6. ct[0] = x /\ ct[m + n] = z
  <2>1. 0 \in 0..m + n /\ m + n \in 0..m + n /\ 0 <= m /\ m + n - m = n
    BY <1>1
  <2>2. CASE n = 0
    BY <1>1, <1>3, <1>4, <1>5, <2>1, <2>2
  <2>3. CASE n # 0
    <3>1. ~(m + n <= m)
      BY <1>1, <2>3
    <3>2. ct[m + n] = bt[m + n - m]
      BY <1>1, <1>5, <2>1, <3>1
    <3>3. ct[0] = at[0]
      BY <1>1, <1>5, <2>1
    <3>4. bt[m + n - m] = bt[n]
      BY <2>1
    <3>. QED  BY <1>3, <1>4, <3>2, <3>3, <3>4
  <2>. QED  BY <2>2, <2>3
<1>7. ASSUME NEW i \in 1..m + n  PROVE <<ct[i - 1], v[i], ct[i]>> \in R
  <2>0. i \in Int /\ i - 1 \in 0..m + n /\ i \in 0..m + n
    BY <1>1
  <2>1. CASE i <= m
    <3>1. i \in 1..m /\ i - 1 <= m
      BY <1>1, <2>1
    <3>2. ct[i - 1] = at[i - 1] /\ ct[i] = at[i] /\ v[i] = s[i]
      BY <1>2, <1>5, <2>0, <2>1, <3>1
    <3>. QED  BY <1>3, <3>1, <3>2
  <2>2. CASE i = m + 1
    <3>1. i - 1 = m /\ i - m = 1 /\ 1 \in 1..n /\ ~(i <= m) /\ m <= m
      BY <1>1, <2>2
    <3>2. ct[i - 1] = bt[0] /\ ct[i] = bt[1] /\ v[i] = u[1]
      BY <1>2, <1>3, <1>4, <1>5, <2>0, <3>1
    <3>3. <<bt[1 - 1], u[1], bt[1]>> \in R
      BY <1>4, <3>1
    <3>4. 1 - 1 = 0
      OBVIOUS
    <3>. QED  BY <3>2, <3>3, <3>4
  <2>3. CASE i > m + 1
    <3>1. i - m \in 1..n /\ i - m - 1 = i - 1 - m /\ ~(i <= m) /\ ~(i - 1 <= m)
      BY <1>1, <2>0, <2>3
    <3>2. ct[i - 1] = bt[i - m - 1] /\ ct[i] = bt[i - m] /\ v[i] = u[i - m]
      BY <1>2, <1>5, <2>0, <3>1
    <3>. QED  BY <1>4, <3>1, <3>2
  <2>. QED  BY <1>1, <2>0, <2>1, <2>2, <2>3
<1>. QED  BY <1>2, <1>6, <1>7 DEF Path, v

\* The next step of a path, and the path that is left.
LEMMA PathNext ==
  ASSUME NEW R, NEW S, NEW s \in Seq(S), s # <<>>, NEW x, NEW z, Path(R, x, s, z)
  PROVE  \E y : <<x, Head(s), y>> \in R /\ Path(R, y, Tail(s), z)
<1>. DEFINE n == Len(s)
            u == Tail(s)
<1>1. n \in Nat /\ n # 0
  BY EmptySeq, LenProperties
<1>2. /\ u \in Seq(S) /\ Len(u) = n - 1 /\ Head(s) = s[1]
      /\ \A i \in 1..n - 1 : u[i] = s[i + 1]
  <2>1. /\ u \in Seq(S) /\ Len(u) = n - 1 /\ Head(s) = s[1]
        /\ \A i \in DOMAIN u : u[i] = s[i + 1]
    BY HeadAndTail
  <2>2. DOMAIN u = 1..n - 1
    BY <2>1, LenProperties
  <2>. QED  BY <2>1, <2>2
<1>3. PICK at : /\ at[0] = x /\ at[n] = z
                /\ \A i \in 1..n : <<at[i - 1], s[i], at[i]>> \in R
  BY DEF Path
<1>. DEFINE bt == [i \in 0..n - 1 |-> at[i + 1]]
<1>. HIDE DEF n, u
<1>4. \A i \in 0..n - 1 : bt[i] = at[i + 1]
  OBVIOUS
<1>5. bt[0] = at[1] /\ bt[n - 1] = z
  <2>1. 0 \in 0..n - 1 /\ n - 1 \in 0..n - 1 /\ 0 + 1 = 1 /\ n - 1 + 1 = n
    BY <1>1
  <2>. QED  BY <1>3, <1>4, <2>1
<1>. HIDE DEF bt
<1>6. <<x, Head(s), at[1]>> \in R
  <2>1. 1 \in 1..n /\ 1 - 1 = 0
    BY <1>1
  <2>. QED  BY <1>2, <1>3, <2>1
<1>7. ASSUME NEW i \in 1..n - 1  PROVE <<bt[i - 1], u[i], bt[i]>> \in R
  <2>1. i + 1 \in 1..n /\ i + 1 - 1 = i /\ i - 1 + 1 = i /\ i - 1 \in 0..n - 1 /\ i \in 0..n - 1
    BY <1>1
  <2>2. <<at[i + 1 - 1], s[i + 1], at[i + 1]>> \in R
    BY <1>3, <2>1
  <2>3. bt[i - 1] = at[i] /\ bt[i] = at[i + 1]
    BY <1>4, <2>1
  <2>. QED  BY <1>2, <2>1, <2>2, <2>3
<1>8. Path(R, at[1], u, z)
  BY <1>2, <1>5, <1>7 DEF Path
<1>. QED  BY <1>6, <1>8 DEF u

\* Three steps, one after the other.
LEMMA ThreeSteps ==
  ASSUME NEW S, NEW a \in S, NEW b \in S, NEW c \in S
  PROVE  <<a, b, c>> = (<<a>> \o <<b>>) \o <<c>> /\ <<a, b>> = <<a>> \o <<b>>
<1>. DEFINE x == <<a>>
            y == <<b>>
            z == <<c>>
            u == <<a, b>>
            v == <<a, b, c>>
<1>1. /\ x \in Seq(S) /\ Len(x) = 1 /\ x[1] = a
      /\ y \in Seq(S) /\ Len(y) = 1 /\ y[1] = b
      /\ z \in Seq(S) /\ Len(z) = 1 /\ z[1] = c
  OBVIOUS
<1>2. u \in Seq(S) /\ Len(u) = 2 /\ u[1] = a /\ u[2] = b
  OBVIOUS
<1>3. v \in Seq(S) /\ Len(v) = 3 /\ v[1] = a /\ v[2] = b /\ v[3] = c
  OBVIOUS
<1>. HIDE DEF x, y, z, u, v
<1>4. u = x \o y
  <2>1. /\ x \o y \in Seq(S) /\ Len(x \o y) = 2
        /\ \A i \in 1..2 : (x \o y)[i] = IF i <= 1 THEN x[i] ELSE y[i - 1]
    BY <1>1, ConcatProperties
  <2>2. \A i \in 1..2 : (x \o y)[i] = u[i]
    BY <1>1, <1>2, <2>1
  <2>. QED  BY <1>2, <2>1, <2>2, SeqEqual
<1>5. v = u \o z
  <2>1. /\ u \o z \in Seq(S) /\ Len(u \o z) = 3
        /\ \A i \in 1..3 : (u \o z)[i] = IF i <= 2 THEN u[i] ELSE z[i - 2]
    BY <1>1, <1>2, ConcatProperties
  <2>2. \A i \in 1..3 : (u \o z)[i] = v[i]
    BY <1>1, <1>2, <1>3, <2>1
  <2>. QED  BY <1>3, <2>1, <2>2, SeqEqual
<1>. QED  BY <1>4, <1>5 DEF u, v, x, y, z

\* A lock that is taken and given back around some steps.
LEMMA PathAround ==
  ASSUME NEW R, NEW S, NEW x, NEW a \in S, NEW y, NEW s \in Seq(S), NEW z, NEW b \in S, NEW w,
         <<x, a, y>> \in R, Path(R, y, s, z), <<z, b, w>> \in R
  PROVE  /\ <<a>> \o s \o <<b>> \in Seq(S) /\ Path(R, x, <<a>> \o s \o <<b>>, w)
         /\ <<a>> \o s \in Seq(S) /\ Path(R, x, <<a>> \o s, z)
<1>. DEFINE f == <<a>>
            l == <<b>>
<1>1. f \in Seq(S) /\ l \in Seq(S)
  OBVIOUS
<1>2. Path(R, x, f, y) /\ Path(R, z, l, w)
  BY PathOne
<1>. HIDE DEF f, l
<1>3. f \o s \in Seq(S) /\ Path(R, x, f \o s, z)
  BY <1>1, <1>2, PathJoin
<1>. DEFINE u == f \o s
<1>4. u \in Seq(S) /\ Path(R, x, u, z)
  BY <1>3
<1>. HIDE DEF u
<1>5. u \o l \in Seq(S) /\ Path(R, x, u \o l, w)
  BY <1>1, <1>2, <1>4, PathJoin
<1>. QED  BY <1>3, <1>5 DEF u, f, l

\* A lock taken for one step.
LEMMA PathOfThree ==
  ASSUME NEW R, NEW S, NEW x, NEW a \in S, NEW y, NEW b \in S, NEW z, NEW c \in S, NEW w,
         <<x, a, y>> \in R, <<y, b, z>> \in R, <<z, c, w>> \in R
  PROVE  <<a, b, c>> \in Seq(S) /\ Path(R, x, <<a, b, c>>, w)
<1>. DEFINE s == <<b>>
<1>1. s \in Seq(S) /\ Path(R, y, s, z)
  BY PathOne
<1>. HIDE DEF s
<1>2. <<a>> \o s \o <<c>> \in Seq(S) /\ Path(R, x, <<a>> \o s \o <<c>>, w)
  BY <1>1, PathAround
<1>3. <<a, b, c>> = <<a>> \o s \o <<c>>
  BY ThreeSteps DEF s
<1>. QED  BY <1>2, <1>3

\* Two steps.
LEMMA PathOfTwo ==
  ASSUME NEW R, NEW S, NEW x, NEW a \in S, NEW y, NEW b \in S, NEW z,
         <<x, a, y>> \in R, <<y, b, z>> \in R
  PROVE  <<a, b>> \in Seq(S) /\ Path(R, x, <<a, b>>, z)
<1>. DEFINE s == <<a>>
            u == <<b>>
<1>1. s \in Seq(S) /\ u \in Seq(S)
  OBVIOUS
<1>2. Path(R, x, s, y) /\ Path(R, y, u, z)
  BY PathOne
<1>. DEFINE v == <<a, b>>
<1>3. v = s \o u
  BY ThreeSteps
<1>. HIDE DEF s, u, v
<1>4. s \o u \in Seq(S) /\ Path(R, x, s \o u, z)
  BY <1>1, <1>2, PathJoin
<1>. QED  BY <1>3, <1>4 DEF v

-----------------------------------------------------------------------------
(***************************************************************************)
(* AllOf().                                                                *)
(***************************************************************************)
\* The members of two lists, one after the other.
LEMMA ConcatList ==
  ASSUME NEW S, NEW s \in Seq(S), NEW u \in Seq(S)
  PROVE  s \o u \in Seq(S) /\ ToSet(s \o u) = ToSet(s) \cup ToSet(u)
<1>. DEFINE m == Len(s)
            n == Len(u)
            v == s \o u
<1>1. m \in Nat /\ n \in Nat /\ DOMAIN s = 1..m /\ DOMAIN u = 1..n
  BY ListOf
<1>0. m \in Nat /\ n \in Nat
  BY <1>1
<1>2. /\ v \in Seq(S) /\ Len(v) = m + n
      /\ \A i \in 1..m + n : v[i] = IF i <= m THEN s[i] ELSE u[i - m]
  BY ConcatProperties
<1>3. DOMAIN v = 1..m + n
  BY <1>2, ListOf
<1>. HIDE DEF m, n, v
<1>4. \A i \in 1..m : i \in 1..m + n /\ v[i] = s[i]
  BY <1>1, <1>2
<1>5. ASSUME NEW i \in 1..n  PROVE i + m \in 1..m + n /\ v[i + m] = u[i]
  <2>1. i \in Int /\ 1 <= i /\ i <= n
    BY <1>1
  <2>. DEFINE j == i + m
  <2>2. j \in 1..m + n
    BY <1>0, <2>1
  <2>3. ~(j <= m)
    BY <1>0, <2>1
  <2>4. j - m = i
    BY <1>0, <2>1
  <2>. HIDE DEF j
  <2>5. v[j] = u[j - m]
    BY <1>2, <2>2, <2>3
  <2>6. u[j - m] = u[i]
    BY <2>4
  <2>. QED  BY <2>2, <2>5, <2>6 DEF j
<1>6. ASSUME NEW i \in 1..m + n  PROVE i \in 1..m \/ (i - m \in 1..n /\ ~(i <= m))
  BY <1>1
<1>7. ASSUME NEW i \in 1..m + n  PROVE v[i] \in ToSet(s) \cup ToSet(u)
  <2>1. CASE i \in 1..m
    BY <1>1, <1>4, <2>1 DEF ToSet
  <2>2. CASE i - m \in 1..n /\ ~(i <= m)
    <3>1. v[i] = u[i - m] /\ u[i - m] \in ToSet(u)
      BY <1>1, <1>2, <2>2 DEF ToSet
    <3>. QED  BY <3>1
  <2>. QED  BY <1>6, <2>1, <2>2
<1>8. ToSet(v) = ToSet(s) \cup ToSet(u)
  <2>1. ToSet(v) \subseteq ToSet(s) \cup ToSet(u)
    BY <1>3, <1>7 DEF ToSet
  <2>2. ToSet(s) \subseteq ToSet(v) /\ ToSet(u) \subseteq ToSet(v)
    BY <1>1, <1>3, <1>4, <1>5 DEF ToSet
  <2>. QED  BY <2>1, <2>2
<1>. QED  BY <1>2, <1>8 DEF v

\* A finite set can be listed.
LEMMA ListedOnce ==
  ASSUME NEW K, IsFiniteSet(K)
  PROVE  SetToSeq(K) \in Seq(K) /\ \A q \in K : \E i \in 1..Len(SetToSeq(K)) : SetToSeq(K)[i] = q
<1>. DEFINE n == Cardinality(K)
            F == {f \in [1..n -> K] : IsInjective(f)}
<1>1. n \in Nat /\ \E f : f \in Bijection(1..n, K)
  BY FS_CardinalityType DEF ExistsBijection
<1>2. PICK f : f \in Bijection(1..n, K)
  BY <1>1
<1>3. f \in [1..n -> K] /\ IsInjective(f)
  <2>1. f \in [1..n -> K] /\ \A a, b \in 1..n : f[a] = f[b] => a = b
    BY <1>2 DEF Bijection, Injection, Surjection, IsInjective
  <2>. QED  BY <2>1 DEF IsInjective
<1>. DEFINE g == SetToSeq(K)
<1>4. g \in [1..n -> K] /\ IsInjective(g)
  BY <1>3 DEF SetToSeq
<1>. HIDE DEF g
<1>5. g \in Seq(K) /\ Len(g) = n
  BY <1>1, <1>4, SeqDef, LenProperties
<1>6. ASSUME NEW q \in K  PROVE \E i \in 1..n : g[i] = q
  <2>1. g \in Injection(1..n, K)
    BY <1>4 DEF Injection, IsInjective
  <2>2. Cardinality(1..n) = Cardinality(K)
    BY <1>1, FS_Interval
  <2>3. g \in Surjection(1..n, K)
    BY <2>1, <2>2, FS_Injection
  <2>. QED  BY <2>3 DEF Surjection
<1>. QED  BY <1>5, <1>6 DEF g

\* Some paths that lead back to where they start, one after the other.
LEMMA Flattened ==
  ASSUME NEW R, NEW S, NEW x, NEW parts \in Seq(Seq(S)),
         \A i \in 1..Len(parts) : Path(R, x, parts[i], x)
  PROVE  /\ FlattenSeq(parts) \in Seq(S)
         /\ Path(R, x, FlattenSeq(parts), x)
         /\ \A i \in 1..Len(parts) : ToSet(parts[i]) \subseteq ToSet(FlattenSeq(parts))
<1>. DEFINE n == Len(parts)
            D == {s \in Seq(S) : Path(R, x, s, x)}
            Asks(e) == e = [i \in 1..Len(parts) |-> IF i = 1 THEN parts[i] ELSE e[i - 1] \o parts[i]]
            flat == CHOOSE e : Asks(e)
            empty == <<>>
<1>1. n \in Nat /\ \A i \in 1..n : parts[i] \in Seq(S)
  BY LenProperties, ListOf
<1>2. \A i \in 1..n : parts[i] \in D
  BY <1>1
<1>3. \A i \in 1..n : \A s \in D : s \o parts[i] \in D
  BY <1>1, PathJoin
<1>4. empty \in Seq(S) /\ Path(R, x, empty, x) /\ ToSet(empty) = {}
  BY EmptyList, PathEmpty
<1>5. CASE n = 0
  <2>1. parts = empty
    BY <1>5, EmptySeq
  <2>2. FlattenSeq(parts) = parts
    BY <1>5 DEF FlattenSeq
  <2>. HIDE DEF empty
  <2>3. 1..n = {}
    BY <1>5
  <2>. QED  BY <1>4, <2>1, <2>2, <2>3
<1>6. CASE n # 0
  <2>0. 1 \in 1..n /\ n \in 1..n /\ 1 \in Nat
    BY <1>1, <1>6
  <2>. DEFINE p1 == parts[1]
  <2>1. p1 \in D
    BY <1>2, <2>0
  <2>. HIDE DEF D
  <2>2. PICK f \in [1..n -> D] : \A i \in 1..n : f[i] = IF i = 1 THEN p1 ELSE f[i - 1] \o parts[i]
    <3>. DEFINE G == [y \in (1..n) \X D |-> y[2] \o parts[y[1]]]
    <3>1. G \in [(1..n) \X D -> D]
      BY <1>3
    <3>2. PICK f \in [1..n -> D] : ByRecursion(f, 1, n, p1, G)
      <4>. HIDE DEF G, n, p1
      <4>. QED  BY <1>1, <2>0, <2>1, <3>1, Recursion
    <3>3. ASSUME NEW i \in 1..n
          PROVE  f[i] = IF i = 1 THEN p1 ELSE f[i - 1] \o parts[i]
      <4>1. CASE i = 1
        BY <3>2, <4>1 DEF ByRecursion
      <4>2. CASE i # 1
        <5>1. i - 1 \in 1..n
          BY <1>1, <4>2
        <5>2. <<i, f[i - 1]>> \in (1..n) \X D
          BY <3>2, <5>1
        <5>3. G[<<i, f[i - 1]>>] = f[i - 1] \o parts[i]
          BY <5>2
        <5>. HIDE DEF G
        <5>. QED  BY <3>2, <4>2, <5>3 DEF ByRecursion
      <4>. QED  BY <4>1, <4>2
    <3>. QED  BY <3>3
  <2>3. Asks(f)
    <3>1. f = [i \in 1..n |-> IF i = 1 THEN p1 ELSE f[i - 1] \o parts[i]]
      BY <2>2
    <3>2. \A i \in 1..n : (IF i = 1 THEN p1 ELSE f[i - 1] \o parts[i])
                        = (IF i = 1 THEN parts[i] ELSE f[i - 1] \o parts[i])
      OBVIOUS
    <3>. HIDE DEF p1
    <3>. QED  BY <3>1, <3>2
  <2>4. Asks(flat)
    <3>. HIDE DEF Asks
    <3>. QED  BY <2>3
  <2>5. FlattenSeq(parts) = flat[n]
    BY <1>6, Zenon DEF FlattenSeq, n, flat, Asks
  <2>6. \A i \in 1..n : flat[i] = IF i = 1 THEN parts[i] ELSE flat[i - 1] \o parts[i]
    BY <2>4
  <2>. HIDE DEF flat, Asks, n, p1
  <2>. DEFINE H == {i \in 1..n : flat[i] \in D /\ \A j \in 1..i : ToSet(parts[j]) \subseteq ToSet(flat[i])}
  <2>7. 1 \in H
    <3>1. 1..1 = {1}
      OBVIOUS
    <3>. QED  BY <1>2, <2>0, <2>6, <3>1
  <2>8. ASSUME NEW i \in 1..n, i # 1, i - 1 \in H  PROVE i \in H
    <3>1. i - 1 \in 1..n /\ \A j \in 1..i : j # i => j \in 1..i - 1
      BY <1>1, <2>8
    <3>2. flat[i] = flat[i - 1] \o parts[i] /\ flat[i - 1] \in D
      BY <2>6, <2>8
    <3>3. flat[i] \in D
      BY <1>3, <3>2
    <3>4. flat[i - 1] \in Seq(S) /\ parts[i] \in Seq(S)
      BY <1>1, <3>2 DEF D
    <3>5. ToSet(flat[i]) = ToSet(flat[i - 1]) \cup ToSet(parts[i])
      BY <3>2, <3>4, ConcatList
    <3>6. \A j \in 1..i - 1 : ToSet(parts[j]) \subseteq ToSet(flat[i - 1])
      BY <2>8
    <3>. QED  BY <3>1, <3>3, <3>5, <3>6
  <2>. HIDE DEF H
  <2>9. 1..n \subseteq H
    BY <1>1, <2>0, <2>7, <2>8, Induction
  <2>10. n \in H
    BY <2>0, <2>9
  <2>11. flat[n] \in D /\ \A j \in 1..n : ToSet(parts[j]) \subseteq ToSet(flat[n])
    BY <2>10 DEF H
  <2>. QED  BY <2>5, <2>11 DEF D, n
<1>. QED  BY <1>1, <1>5, <1>6

\* The steps for each of some items, each of which leads back to where it starts.
LEMMA AllOfPath ==
  ASSUME NEW R, NEW S, NEW x, NEW K, IsFiniteSet(K), NEW steps \in [K -> Seq(S)],
         \A q \in K : Path(R, x, steps[q], x)
  PROVE  /\ AllOf(steps) \in Seq(S)
         /\ Path(R, x, AllOf(steps), x)
         /\ \A q \in K : ToSet(steps[q]) \subseteq ToSet(AllOf(steps))
<1>. DEFINE keys == SetToSeq(K)
            parts == [i \in DOMAIN keys |-> steps[keys[i]]]
<1>1. keys \in Seq(K) /\ \A q \in K : \E i \in 1..Len(keys) : keys[i] = q
  BY ListedOnce
<1>2. DOMAIN steps = K
  OBVIOUS
<1>3. AllOf(steps) = FlattenSeq(parts)
  BY <1>2, Zenon DEF AllOf
<1>. HIDE DEF keys
<1>4. Len(keys) \in Nat /\ DOMAIN keys = 1..Len(keys) /\ \A i \in 1..Len(keys) : keys[i] \in K
  BY <1>1, ListOf
<1>5. /\ parts \in [1..Len(keys) -> Seq(S)]
      /\ \A i \in 1..Len(keys) : parts[i] = steps[keys[i]]
  BY <1>4
<1>. HIDE DEF parts
<1>6. parts \in Seq(Seq(S)) /\ Len(parts) = Len(keys)
  BY <1>4, <1>5, SeqDef, LenProperties
<1>7. \A i \in 1..Len(parts) : Path(R, x, parts[i], x)
  BY <1>4, <1>5, <1>6
<1>8. /\ FlattenSeq(parts) \in Seq(S) /\ Path(R, x, FlattenSeq(parts), x)
      /\ \A i \in 1..Len(parts) : ToSet(parts[i]) \subseteq ToSet(FlattenSeq(parts))
  BY <1>6, <1>7, Flattened
<1>. QED  BY <1>1, <1>3, <1>5, <1>6, <1>8

-----------------------------------------------------------------------------
(***************************************************************************)
(* The steps of calls and where they lead: At(d, h, sh) is a thread with   *)
(* the locks h, on a tree whose items and real paths are sh.  A thread     *)
(* that dumps (d) goes on only with the root's lock at the bottom, and     *)
(* reads what it has locked.                                               *)
(***************************************************************************)
Locks == [do : {"shared", "exclusive"}, key : Seq(Key)]
Fields == {"name", "real", "type", "parent", "deleted", "children"}

SoundTrees ==
  {t \in UNION {[K -> Item(Real)] : K \in SUBSET Seq(Key)} :
     Sound(t, Real) /\ IsFiniteSet(DOMAIN t)}

Shape(t) == [k \in DOMAIN t |-> t[k].real]
Shapes == {Shape(t) : t \in SoundTrees}

ReadSteps == [do : {"read"}, key : Seq(Key), field : Fields]
DescendSteps == [do : {"descend"}, key : Seq(Key), field : {"children"}, by : {"isEmpty", "dumpTree"}]
WriteSteps == [do : {"write"}, key : Seq(Key), field : Fields, tree : SoundTrees]
CallSteps == Locks \cup {Release} \cup ReadSteps \cup DescendSteps \cup WriteSteps

At(d, h, sh) == [dumps |-> d, locks |-> h, shape |-> sh]
States == [dumps : BOOLEAN, locks : Seq(Locks), shape : Shapes]

Holds(h, l) == \E i \in DOMAIN h : h[i] = l
Rooted(d, h) == d => h # <<>> /\ h[1] = Shared(<<>>)

Move(x, a, y) ==
  /\ y.dumps = x.dumps /\ Rooted(x.dumps, x.locks)
  /\ \/ /\ a.do = "shared" \/ (a.do = "exclusive" /\ ~x.dumps)
        /\ y.locks = Append(x.locks, a) /\ y.shape = x.shape
     \/ /\ a.do = "release" /\ x.locks # <<>>
        /\ y.locks = Front(x.locks) /\ y.shape = x.shape
     \/ /\ a.do \in {"read", "descend"} /\ a.key \in DOMAIN x.shape
        /\ x.dumps => Holds(x.locks, Shared(a.key))
        /\ y.locks = x.locks /\ y.shape = x.shape
     \/ /\ a.do = "write" /\ ~x.dumps
        /\ y.locks = x.locks /\ y.shape = Shape(a.tree)
        /\ \/ Holds(x.locks, Exclusive(<<>>))
           \/ Holds(x.locks, Exclusive(a.key)) /\ y.shape = x.shape

Moves == {e \in States \X CallSteps \X States : Move(e[1], e[2], e[3])}

\* What Moves relates.
LEMMA MovesAre ==
  ASSUME NEW x, NEW a, NEW y
  PROVE  <<x, a, y>> \in Moves <=> x \in States /\ a \in CallSteps /\ y \in States /\ Move(x, a, y)
<1>. DEFINE e == <<x, a, y>>
<1>1. e[1] = x /\ e[2] = a /\ e[3] = y
  OBVIOUS
<1>2. e \in States \X CallSteps \X States <=> x \in States /\ a \in CallSteps /\ y \in States
  OBVIOUS
<1>. HIDE DEF e
<1>3. e \in Moves <=> e \in States \X CallSteps \X States /\ Move(e[1], e[2], e[3])
  BY DEF Moves
<1>4. e \in Moves <=> x \in States /\ a \in CallSteps /\ y \in States /\ Move(x, a, y)
  BY <1>1, <1>2, <1>3, Zenon
<1>. QED  BY <1>4 DEF e

\* The trees the steps write are the sound, finite ones.
LEMMA SoundTreesAll ==
  ASSUME NEW t
  PROVE  t \in SoundTrees <=> Sound(t, Real) /\ IsFiniteSet(DOMAIN t)
<1>1. ASSUME Sound(t, Real)  PROVE t \in UNION {[K -> Item(Real)] : K \in SUBSET Seq(Key)}
  <2>1. DOMAIN t \in SUBSET Seq(Key) /\ t \in [DOMAIN t -> Item(Real)]
    BY <1>1 DEF Sound, IsTree
  <2>. QED  BY <2>1
<1>. QED  BY <1>1 DEF SoundTrees

\* The shape of a tree has the keys and the real paths of its items.
LEMMA ShapeOf ==
  ASSUME NEW t \in SoundTrees
  PROVE  /\ Shape(t) \in Shapes /\ DOMAIN Shape(t) = DOMAIN t
         /\ DOMAIN t \subseteq Seq(Key) /\ <<>> \in DOMAIN t /\ IsFiniteSet(DOMAIN t)
         /\ \A k \in DOMAIN t : Shape(t)[k] = t[k].real /\ t[k].real \in Real
<1>1. Sound(t, Real) /\ IsFiniteSet(DOMAIN t)
  BY SoundTreesAll
<1>2. DOMAIN t \subseteq Seq(Key) /\ <<>> \in DOMAIN t /\ \A k \in DOMAIN t : t[k] \in Item(Real)
  BY <1>1 DEF Sound, IsTree
<1>3. \A k \in DOMAIN t : t[k].real \in Real
  BY <1>2 DEF Item
<1>. QED  BY <1>1, <1>2, <1>3 DEF Shape, Shapes

\* The kinds of steps.
LEMMA StepKinds ==
  /\ \A k \in Seq(Key) :
       /\ Shared(k) \in Locks /\ Exclusive(k) \in Locks
       /\ Shared(k).do = "shared" /\ Exclusive(k).do = "exclusive"
       /\ Shared(k).key = k /\ Exclusive(k).key = k
       /\ Descend(k, "isEmpty") \in DescendSteps /\ Descend(k, "dumpTree") \in DescendSteps
  /\ \A k \in Seq(Key), f \in Fields : Reads(k, f) \in ReadSteps
  /\ \A k \in Seq(Key), f \in Fields, t \in SoundTrees : Writes(k, f, t) \in WriteSteps
  /\ Locks \subseteq CallSteps /\ Release \in CallSteps /\ ReadSteps \subseteq CallSteps
  /\ DescendSteps \subseteq CallSteps /\ WriteSteps \subseteq CallSteps
  /\ Release.do = "release"
<1>1. \A k \in Seq(Key) :
       /\ Shared(k) \in Locks /\ Exclusive(k) \in Locks
       /\ Shared(k).do = "shared" /\ Exclusive(k).do = "exclusive"
       /\ Shared(k).key = k /\ Exclusive(k).key = k
  BY DEF Shared, Exclusive, Locks
<1>2. \A k \in Seq(Key) : Descend(k, "isEmpty") \in DescendSteps /\ Descend(k, "dumpTree") \in DescendSteps
  BY DEF Descend, DescendSteps
<1>3. \A k \in Seq(Key), f \in Fields : Reads(k, f) \in ReadSteps
  BY DEF Reads, ReadSteps
<1>4. \A k \in Seq(Key), f \in Fields, t \in SoundTrees : Writes(k, f, t) \in WriteSteps
  BY DEF Writes, WriteSteps
<1>5. /\ Locks \subseteq CallSteps /\ Release \in CallSteps /\ ReadSteps \subseteq CallSteps
      /\ DescendSteps \subseteq CallSteps /\ WriteSteps \subseteq CallSteps
  BY DEF CallSteps
<1>6. Release.do = "release"
  BY DEF Release
<1>. QED  BY <1>1, <1>2, <1>3, <1>4, <1>5, <1>6

\* Threads and their locks.
LEMMA AtIs ==
  ASSUME NEW d \in BOOLEAN, NEW h \in Seq(Locks), NEW sh \in Shapes
  PROVE  /\ At(d, h, sh) \in States
         /\ At(d, h, sh).dumps = d /\ At(d, h, sh).locks = h /\ At(d, h, sh).shape = sh
BY DEF At, States

\* A state is made of its parts.
LEMMA StateIs ==
  ASSUME NEW x \in States
  PROVE  /\ x.dumps \in BOOLEAN /\ x.locks \in Seq(Locks) /\ x.shape \in Shapes
         /\ x = At(x.dumps, x.locks, x.shape)
BY DEF At, States

\* One more lock: it is held, and so are those that were.
LEMMA OneMore ==
  ASSUME NEW h \in Seq(Locks), NEW l \in Locks
  PROVE  /\ Append(h, l) \in Seq(Locks) /\ Append(h, l) # <<>>
         /\ Front(Append(h, l)) = h
         /\ Holds(Append(h, l), l)
         /\ \A m : Holds(h, m) => Holds(Append(h, l), m)
         /\ \A m : Holds(Append(h, l), m) => m = l \/ Holds(h, m)
         /\ \A d \in BOOLEAN : Rooted(d, h) => Rooted(d, Append(h, l))
         /\ h = <<>> => Append(h, l)[1] = l
<1>. DEFINE n == Len(h)
            u == Append(h, l)
            empty == <<>>
<1>1. /\ u \in Seq(Locks) /\ Len(u) = n + 1 /\ u[n + 1] = l
      /\ \A i \in 1..n : u[i] = h[i]
  BY AppendProperties
<1>2. n \in Nat /\ DOMAIN h = 1..n /\ DOMAIN u = 1..n + 1
  BY <1>1, ListOf
<1>3. u # empty
  <2>1. Len(u) # 0
    BY <1>1, <1>2
  <2>2. Len(empty) = 0
    BY EmptyList
  <2>. HIDE DEF u, empty
  <2>. QED  BY <2>1, <2>2
<1>4. Front(u) = h
  <2>1. Front(u) = SubSeq(u, 1, n)
    <3>1. n + 1 - 1 = n
      BY <1>2
    <3>. QED  BY <1>1, <3>1 DEF Front
  <2>2. /\ SubSeq(u, 1, n) \in Seq(Locks) /\ Len(SubSeq(u, 1, n)) = n
        /\ \A i \in 1..n : SubSeq(u, 1, n)[i] = u[i]
    <3>. HIDE DEF u, n
    <3>1. \A i \in 1..n : i \in 1..n + 1 /\ u[i] \in Locks
      BY <1>1, <1>2, ListOf
    <3>2. n >= 1 => n \in 1..n + 1
      BY <1>2
    <3>. QED  BY <1>1, <1>2, <3>1, SubSeqProperties
  <2>. HIDE DEF u
  <2>. QED  BY <1>1, <2>1, <2>2, SeqEqual
<1>. HIDE DEF u
<1>5. Holds(u, l)
  <2>1. n + 1 \in 1..n + 1
    BY <1>2
  <2>. QED  BY <1>1, <1>2, <2>1 DEF Holds
<1>6. ASSUME NEW m, Holds(h, m)  PROVE Holds(u, m)
  <2>1. PICK i \in 1..n : h[i] = m
    BY <1>2, <1>6 DEF Holds
  <2>2. i \in 1..n + 1 /\ u[i] = m
    BY <1>1, <1>2, <2>1
  <2>. QED  BY <1>2, <2>2 DEF Holds
<1>7. ASSUME NEW m, Holds(u, m), m # l  PROVE Holds(h, m)
  <2>1. PICK i \in 1..n + 1 : u[i] = m
    BY <1>2, <1>7 DEF Holds
  <2>2. i # n + 1
    BY <1>1, <1>7, <2>1
  <2>3. i \in 1..n
    BY <1>2, <2>1, <2>2
  <2>4. h[i] = m
    BY <1>1, <2>1, <2>3
  <2>. QED  BY <1>2, <2>3, <2>4 DEF Holds
<1>8. h # empty => n # 0
  BY EmptySeq
<1>9. h # empty => u[1] = h[1]
  <2>1. h # empty => 1 \in 1..n
    BY <1>2, <1>8
  <2>. QED  BY <1>1, <2>1
<1>10. h = empty => u[1] = l
  <2>1. h = empty => n + 1 = 1
    BY <1>2, EmptyList
  <2>. QED  BY <1>1, <2>1
<1>. HIDE DEF empty
<1>11. ASSUME NEW d \in BOOLEAN, Rooted(d, h)  PROVE Rooted(d, u)
  BY <1>3, <1>9, <1>11 DEF Rooted, empty
<1>. QED  BY <1>1, <1>3, <1>4, <1>5, <1>6, <1>7, <1>10, <1>11 DEF u, empty

\* Taking a lock.
LEMMA MoveTake ==
  ASSUME NEW d \in BOOLEAN, NEW h \in Seq(Locks), NEW sh \in Shapes, Rooted(d, h),
         NEW l \in Locks, d => l.do = "shared"
  PROVE  <<At(d, h, sh), l, At(d, Append(h, l), sh)>> \in Moves
<1>. DEFINE x == At(d, h, sh)
            u == Append(h, l)
            y == At(d, u, sh)
<1>1. l \in CallSteps /\ l.do \in {"shared", "exclusive"}
  BY StepKinds DEF Locks
<1>2. u \in Seq(Locks)
  BY OneMore
<1>3. x \in States /\ x.dumps = d /\ x.locks = h /\ x.shape = sh
  BY AtIs
<1>. HIDE DEF u
<1>4. y \in States /\ y.dumps = d /\ y.locks = u /\ y.shape = sh
  BY <1>2, AtIs
<1>. HIDE DEF x, y
<1>5. Move(x, l, y)
  BY <1>1, <1>3, <1>4 DEF Move, u
<1>6. <<x, l, y>> \in Moves
  BY <1>1, <1>3, <1>4, <1>5, MovesAre
<1>. QED  BY <1>6 DEF x, y, u

\* Giving it back.
LEMMA MoveRelease ==
  ASSUME NEW d \in BOOLEAN, NEW h \in Seq(Locks), NEW sh \in Shapes,
         NEW l \in Locks, Rooted(d, Append(h, l))
  PROVE  <<At(d, Append(h, l), sh), Release, At(d, h, sh)>> \in Moves
<1>. DEFINE y == At(d, h, sh)
            u == Append(h, l)
            x == At(d, u, sh)
            r == Release
<1>1. r \in CallSteps /\ r.do = "release"
  BY StepKinds
<1>2. u \in Seq(Locks) /\ u # <<>> /\ Front(u) = h
  BY OneMore
<1>3. y \in States /\ y.dumps = d /\ y.locks = h /\ y.shape = sh
  BY AtIs
<1>4. Rooted(d, u)
  OBVIOUS
<1>. HIDE DEF u, r
<1>5. x \in States /\ x.dumps = d /\ x.locks = u /\ x.shape = sh
  BY <1>2, AtIs
<1>. HIDE DEF x, y
<1>6. Move(x, r, y)
  BY <1>1, <1>2, <1>3, <1>4, <1>5 DEF Move
<1>7. <<x, r, y>> \in Moves
  BY <1>1, <1>3, <1>5, <1>6, MovesAre
<1>. QED  BY <1>7 DEF x, y, u, r

\* Reading a field, or going on with the children.
LEMMA MoveRead ==
  ASSUME NEW d \in BOOLEAN, NEW h \in Seq(Locks), NEW sh \in Shapes, Rooted(d, h),
         NEW a \in ReadSteps \cup DescendSteps, a.key \in DOMAIN sh,
         d => Holds(h, Shared(a.key))
  PROVE  <<At(d, h, sh), a, At(d, h, sh)>> \in Moves
<1>. DEFINE x == At(d, h, sh)
<1>1. a \in CallSteps
  BY StepKinds
<1>2. a.do \in {"read", "descend"}
  BY DEF ReadSteps, DescendSteps
<1>3. x \in States /\ x.dumps = d /\ x.locks = h /\ x.shape = sh
  BY AtIs
<1>. HIDE DEF x
<1>4. Move(x, a, x)
  BY <1>2, <1>3 DEF Move
<1>. QED  BY <1>1, <1>3, <1>4, MovesAre DEF x

\* Writing a field.
LEMMA MoveWrite ==
  ASSUME NEW h \in Seq(Locks), NEW sh \in Shapes, NEW a \in WriteSteps,
         \/ Holds(h, Exclusive(<<>>))
         \/ Holds(h, Exclusive(a.key)) /\ Shape(a.tree) = sh
  PROVE  <<At(FALSE, h, sh), a, At(FALSE, h, Shape(a.tree))>> \in Moves
<1>. DEFINE x == At(FALSE, h, sh)
            s == Shape(a.tree)
            y == At(FALSE, h, s)
<1>1. a \in CallSteps
  BY StepKinds
<1>2. a.do = "write" /\ a.tree \in SoundTrees
  BY DEF WriteSteps
<1>3. x \in States /\ x.dumps = FALSE /\ x.locks = h /\ x.shape = sh
  BY AtIs
<1>4. s \in Shapes
  BY <1>2, ShapeOf
<1>5. s = Shape(a.tree)
  OBVIOUS
<1>6. \/ Holds(h, Exclusive(<<>>))
      \/ Holds(h, Exclusive(a.key)) /\ s = sh
  OBVIOUS
<1>. HIDE DEF s
<1>7. y \in States /\ y.dumps = FALSE /\ y.locks = h /\ y.shape = s
  BY <1>4, AtIs
<1>. HIDE DEF x, y
<1>8. Move(x, a, y)
  BY <1>2, <1>3, <1>5, <1>6, <1>7 DEF Move, Rooted
<1>9. <<x, a, y>> \in Moves
  BY <1>1, <1>3, <1>7, <1>8, MovesAre
<1>. QED  BY <1>9 DEF x, y, s

-----------------------------------------------------------------------------
(***************************************************************************)
(* Parts of calls that leave locks, items and real paths as they are.      *)
(***************************************************************************)
Does(d, h, sh, s) == s \in Seq(CallSteps) /\ Path(Moves, At(d, h, sh), s, At(d, h, sh))

\* The keys of a shape are those of a tree.
LEMMA ShapeKeys ==
  ASSUME NEW sh \in Shapes
  PROVE  DOMAIN sh \subseteq Seq(Key) /\ <<>> \in DOMAIN sh /\ IsFiniteSet(DOMAIN sh)
<1>1. PICK t \in SoundTrees : sh = Shape(t)
  BY DEF Shapes
<1>. QED  BY <1>1, ShapeOf

\* Nothing is left to do.
LEMMA NothingDone ==
  ASSUME NEW d, NEW h, NEW sh
  PROVE  Does(d, h, sh, <<>>)
BY PathEmpty, EmptySeq DEF Does

\* One part after the other.
LEMMA DoneInTurn ==
  ASSUME NEW d, NEW h, NEW sh, NEW s, NEW u, Does(d, h, sh, s), Does(d, h, sh, u)
  PROVE  Does(d, h, sh, s \o u)
BY PathJoin DEF Does

\* A part for each of some items.
LEMMA DoneForAll ==
  ASSUME NEW d, NEW h, NEW sh, NEW K, IsFiniteSet(K), NEW steps, steps = [q \in K |-> steps[q]],
         \A q \in K : Does(d, h, sh, steps[q])
  PROVE  /\ Does(d, h, sh, AllOf(steps))
         /\ \A q \in K : ToSet(steps[q]) \subseteq ToSet(AllOf(steps))
<1>1. steps \in [K -> Seq(CallSteps)] /\ \A q \in K : Path(Moves, At(d, h, sh), steps[q], At(d, h, sh))
  BY DEF Does
<1>. QED  BY <1>1, AllOfPath DEF Does

\* One read; some reads without a lock are what find() and add() do.
LEMMA ReadDone ==
  ASSUME NEW d \in BOOLEAN, NEW h \in Seq(Locks), NEW sh \in Shapes, Rooted(d, h),
         NEW a \in ReadSteps \cup DescendSteps, a.key \in DOMAIN sh,
         d => Holds(h, Shared(a.key))
  PROVE  Does(d, h, sh, <<a>>)
<1>1. <<At(d, h, sh), a, At(d, h, sh)>> \in Moves
  BY MoveRead
<1>2. a \in CallSteps
  BY StepKinds
<1>3. Path(Moves, At(d, h, sh), <<a>>, At(d, h, sh))
  BY <1>1, PathOne
<1>4. <<a>> \in Seq(CallSteps)
  BY <1>2
<1>. QED  BY <1>3, <1>4 DEF Does

\* A lock taken and given back around a part of a call.
LEMMA AroundDone ==
  ASSUME NEW d \in BOOLEAN, NEW h \in Seq(Locks), NEW sh \in Shapes, Rooted(d, h),
         NEW l \in Locks, d => l.do = "shared",
         NEW s, Does(d, Append(h, l), sh, s)
  PROVE  Does(d, h, sh, <<l>> \o s \o <<Release>>)
<1>. DEFINE x == At(d, h, sh)
            g == Append(h, l)
            y == At(d, g, sh)
            r == Release
<1>1. <<x, l, y>> \in Moves
  BY MoveTake
<1>2. <<y, r, x>> \in Moves
  BY OneMore, MoveRelease
<1>3. s \in Seq(CallSteps) /\ Path(Moves, y, s, y)
  BY DEF Does
<1>4. l \in CallSteps /\ r \in CallSteps
  BY StepKinds
<1>. HIDE DEF x, y, r
<1>5. <<l>> \o s \o <<r>> \in Seq(CallSteps) /\ Path(Moves, x, <<l>> \o s \o <<r>>, x)
  BY <1>1, <1>2, <1>3, <1>4, PathAround
<1>. QED  BY <1>5 DEF Does, x, r

\* A lock taken and given back around one step.
LEMMA AroundOne ==
  ASSUME NEW d \in BOOLEAN, NEW h \in Seq(Locks), NEW sh \in Shapes, Rooted(d, h),
         NEW l \in Locks, d => l.do = "shared",
         NEW a \in CallSteps, <<At(d, Append(h, l), sh), a, At(d, Append(h, l), sh)>> \in Moves
  PROVE  Does(d, h, sh, <<l, a, Release>>)
<1>. DEFINE x == At(d, h, sh)
            g == Append(h, l)
            y == At(d, g, sh)
            r == Release
<1>1. <<x, l, y>> \in Moves
  BY MoveTake
<1>2. <<y, r, x>> \in Moves
  BY OneMore, MoveRelease
<1>3. l \in CallSteps /\ r \in CallSteps
  BY StepKinds
<1>4. <<y, a, y>> \in Moves
  OBVIOUS
<1>. HIDE DEF x, y, r
<1>5. <<l, a, r>> \in Seq(CallSteps) /\ Path(Moves, x, <<l, a, r>>, x)
  BY <1>1, <1>2, <1>3, <1>4, PathOfThree
<1>. QED  BY <1>5 DEF Does, x, r

\* A getter.
LEMMA GetterDone ==
  ASSUME NEW d \in BOOLEAN, NEW h \in Seq(Locks), NEW sh \in Shapes, Rooted(d, h),
         NEW k \in DOMAIN sh, NEW f \in Fields
  PROVE  Does(d, h, sh, Getter(k, f))
<1>. DEFINE l == Shared(k)
            a == Reads(k, f)
            g == Append(h, l)
<1>1. k \in Seq(Key)
  BY ShapeKeys
<1>2. l \in Locks /\ l.do = "shared" /\ a \in ReadSteps /\ a \in CallSteps
  BY <1>1, StepKinds
<1>3. a.key = k
  BY DEF Reads
<1>4. g \in Seq(Locks) /\ Rooted(d, g) /\ Holds(g, l)
  BY <1>2, OneMore
<1>. HIDE DEF g, a
<1>5. <<At(d, g, sh), a, At(d, g, sh)>> \in Moves
  BY <1>2, <1>3, <1>4, MoveRead
<1>. HIDE DEF l
<1>6. Does(d, h, sh, <<l, a, Release>>)
  BY <1>2, <1>5, AroundOne DEF g
<1>. QED  BY <1>6 DEF Getter, l, a

\* A setter, or a step of eraseInternal(), that leaves the shape of the tree.
LEMMA SetterDone ==
  ASSUME NEW h \in Seq(Locks), NEW k \in Seq(Key), NEW f \in Fields,
         NEW t \in SoundTrees
  PROVE  Does(FALSE, h, Shape(t), Setter(k, f, t))
<1>. DEFINE l == Exclusive(k)
            a == Writes(k, f, t)
            g == Append(h, l)
            sh == Shape(t)
<1>1. sh \in Shapes
  BY ShapeOf
<1>2. l \in Locks /\ a \in WriteSteps /\ a \in CallSteps
  BY StepKinds
<1>3. a.key = k /\ a.tree = t
  BY DEF Writes
<1>4. g \in Seq(Locks) /\ Holds(g, Exclusive(k))
  BY <1>2, OneMore
<1>. HIDE DEF a, g
<1>5. <<At(FALSE, g, sh), a, At(FALSE, g, Shape(a.tree))>> \in Moves
  BY <1>1, <1>2, <1>3, <1>4, MoveWrite
<1>6. <<At(FALSE, g, sh), a, At(FALSE, g, sh)>> \in Moves
  BY <1>3, <1>5
<1>. HIDE DEF l, sh
<1>7. Does(FALSE, h, sh, <<l, a, Release>>)
  BY <1>1, <1>2, <1>6, AroundOne DEF g, Rooted
<1>. QED  BY <1>7 DEF Setter, l, a, sh

\* isEmpty() of an item.
LEMMA IsEmptyDone ==
  ASSUME NEW d \in BOOLEAN, NEW h \in Seq(Locks), NEW sh \in Shapes, Rooted(d, h),
         NEW k \in DOMAIN sh
  PROVE  Does(d, h, sh, IsEmptySteps(k))
<1>. DEFINE l == Shared(k)
            a == Descend(k, "isEmpty")
            g == Append(h, l)
<1>1. k \in Seq(Key)
  BY ShapeKeys
<1>2. l \in Locks /\ l.do = "shared" /\ a \in DescendSteps /\ a \in CallSteps
  BY <1>1, StepKinds
<1>3. a.key = k
  BY DEF Descend
<1>4. g \in Seq(Locks) /\ Rooted(d, g) /\ Holds(g, l)
  BY <1>2, OneMore
<1>. HIDE DEF g, a
<1>5. <<At(d, g, sh), a, At(d, g, sh)>> \in Moves
  BY <1>2, <1>3, <1>4, MoveRead
<1>. HIDE DEF l
<1>6. Does(d, h, sh, <<l, a, Release>>)
  BY <1>2, <1>5, AroundOne DEF g
<1>. QED  BY <1>6 DEF IsEmptySteps, l, a

-----------------------------------------------------------------------------
(***************************************************************************)
(* The trees the calls write.                                              *)
(***************************************************************************)
\* A key is the key of itself.
LEMMA FoldOfKey ==
  ASSUME NEW k \in Seq(Key)
  PROVE  k \in Seq(Name) /\ Fold(k) = k
<1>1. Key \subseteq Name /\ \A n \in Key : Lower[n] = n
  BY LowerAssumption DEF Key
<1>2. Len(k) \in Nat /\ k \in [1..Len(k) -> Key]
  BY LenProperties
<1>3. k \in [1..Len(k) -> Name] /\ \A i \in 1..Len(k) : Lower[k[i]] = k[i]
  BY <1>1, <1>2
<1>4. k \in Seq(Name)
  BY <1>2, <1>3, SeqDef
<1>5. Fold(k) = [i \in 1..Len(k) |-> k[i]]
  BY <1>3 DEF Fold
<1>6. k = [i \in 1..Len(k) |-> k[i]]
  BY <1>3
<1>. QED  BY <1>4, <1>5, <1>6

\* No key of a finite tree is longer than some number.
LEMMA FiniteShallow ==
  ASSUME NEW t, DOMAIN t \subseteq Seq(Key), IsFiniteSet(DOMAIN t)
  PROVE  Shallow(t)
<1>. DEFINE K == DOMAIN t
            s == SetToSeq(K)
            n == Len(s)
            H == {i \in 0..n : \E m \in Nat : \A j \in 1..i : Len(s[j]) <= m}
<1>1. s \in Seq(K) /\ \A q \in K : \E i \in 1..n : s[i] = q
  BY ListedOnce
<1>. HIDE DEF s
<1>2. n \in Nat /\ \A i \in 1..n : s[i] \in K
  BY <1>1, ListOf
<1>3. \A q \in K : Len(q) \in Nat
  BY LenProperties
<1>. HIDE DEF K, n
<1>4. 0 \in H
  <2>1. 1..0 = {} /\ 0 \in 0..n
    BY <1>2
  <2>. QED  BY <2>1
<1>5. ASSUME NEW i \in 0..n, i # 0, i - 1 \in H  PROVE i \in H
  <2>1. PICK m \in Nat : \A j \in 1..i - 1 : Len(s[j]) <= m
    BY <1>5
  <2>2. i \in 1..n /\ \A j \in 1..i : j # i => j \in 1..i - 1
    BY <1>2, <1>5
  <2>. DEFINE l == Len(s[i])
  <2>3. l \in Nat
    BY <1>2, <1>3, <2>2
  <2>. HIDE DEF l
  <2>4. PICK b \in Nat : m <= b /\ l <= b
    BY <2>3
  <2>5. ASSUME NEW j \in 1..i  PROVE Len(s[j]) <= b
    <3>1. CASE j = i
      BY <2>4, <3>1 DEF l
    <3>2. CASE j # i
      <4>1. j \in 1..n
        BY <1>2, <2>2
      <4>2. Len(s[j]) \in Nat
        BY <1>2, <1>3, <4>1
      <4>3. Len(s[j]) <= m
        BY <2>1, <2>2, <3>2
      <4>. QED  BY <2>4, <4>2, <4>3
    <3>. QED  BY <3>1, <3>2
  <2>. QED  BY <1>5, <2>5
<1>. HIDE DEF H
<1>6. 0..n \subseteq H
  BY <1>2, <1>4, <1>5, Induction
<1>7. n \in 0..n
  BY <1>2
<1>8. PICK m \in Nat : \A j \in 1..n : Len(s[j]) <= m
  BY <1>6, <1>7 DEF H
<1>9. \A q \in K : Len(q) <= m
  BY <1>1, <1>8
<1>. QED  BY <1>9 DEF Shallow, K

\* A tree with the keys and real paths of another one.
LEMMA SameShape ==
  ASSUME NEW t \in SoundTrees, NEW u, Sound(u, Real), DOMAIN u = DOMAIN t,
         \A k \in DOMAIN t : u[k].real = t[k].real
  PROVE  u \in SoundTrees /\ Shape(u) = Shape(t)
<1>1. IsFiniteSet(DOMAIN u)
  BY SoundTreesAll
<1>. QED  BY <1>1, SoundTreesAll DEF Shape

\* A tree with one item marked, or unmarked.
LEMMA MarkedTree ==
  ASSUME NEW t \in SoundTrees, NEW k \in DOMAIN t, NEW b \in BOOLEAN
  PROVE  WithDeleted(t, k, b) \in SoundTrees /\ Shape(WithDeleted(t, k, b)) = Shape(t)
<1>. DEFINE u == WithDeleted(t, k, b)
<1>1. Sound(t, Real) /\ \A q \in DOMAIN t : t[q] \in Item(Real)
  BY SoundTreesAll DEF Sound, IsTree
<1>2. Sound(u, Real)
  BY <1>1, WithDeletedSound
<1>3. DOMAIN u = DOMAIN t /\ \A q \in DOMAIN t : u[q] \in {t[q], Marked(t[q], b)}
  BY DEF WithDeleted
<1>4. \A q \in DOMAIN t : u[q].real = t[q].real
  BY <1>1, <1>3, MarkedType
<1>. HIDE DEF u
<1>5. u \in SoundTrees /\ Shape(u) = Shape(t)
  BY <1>2, <1>3, <1>4, SameShape
<1>. QED  BY <1>5 DEF u

\* A tree with one item named again, by another spelling of its key.
LEMMA NamedTree ==
  ASSUME NEW t \in SoundTrees, NEW p \in Seq(Name), p # <<>>, Present(t, p)
  PROVE  /\ WithName(t, Fold(p), Base(p)) \in SoundTrees
         /\ Shape(WithName(t, Fold(p), Base(p))) = Shape(t)
<1>. DEFINE u == WithName(t, Fold(p), Base(p))
<1>1. Sound(t, Real) /\ \A q \in DOMAIN t : t[q] \in Item(Real)
  BY SoundTreesAll DEF Sound, IsTree
<1>2. Sound(u, Real)
  BY <1>1, WithNameSound
<1>3. DOMAIN u = DOMAIN t /\ \A q \in DOMAIN t : u[q] \in {t[q], Named(t[q], Base(p))}
  BY DEF WithName
<1>4. Base(p) \in Name
  BY FoldBase
<1>. HIDE DEF u
<1>5. ASSUME NEW q \in DOMAIN t  PROVE u[q].real = t[q].real
  <2>1. Named(t[q], Base(p)).real = t[q].real
    BY <1>1, <1>4, NamedType
  <2>. QED  BY <1>3, <2>1
<1>6. u \in SoundTrees /\ Shape(u) = Shape(t)
  BY <1>2, <1>3, <1>5, SameShape
<1>. QED  BY <1>6 DEF u

\* A tree with one item more.
LEMMA AddedTree ==
  ASSUME NEW t \in SoundTrees, NEW p \in Seq(Name), p # <<>>, Parent(Fold(p)) \in DOMAIN t,
         NEW real \in Real, NEW type \in {"file", "dir"}
  PROVE  Added(t, p, real, type) \in SoundTrees
<1>. DEFINE u == Added(t, p, real, type)
<1>1. Sound(t, Real) /\ IsFiniteSet(DOMAIN t)
  BY SoundTreesAll
<1>2. AddError(t, p, TRUE) = "ok"
  BY DEF AddError
<1>3. type \in Type
  BY DEF Type
<1>4. Sound(u, Real)
  BY <1>1, <1>2, <1>3, AddedSound
<1>5. DOMAIN u = DOMAIN t \cup {Fold(p)}
  BY DEF Added
<1>. HIDE DEF u
<1>6. IsFiniteSet(DOMAIN u)
  BY <1>1, <1>5, FS_AddElement
<1>7. u \in SoundTrees
  BY <1>4, <1>6, SoundTreesAll
<1>. QED  BY <1>7 DEF u

\* A tree without some items, or with them marked.
LEMMA ErasedTree ==
  ASSUME NEW t \in SoundTrees, NEW p \in Seq(Name), p # <<>>, Present(t, p)
  PROVE  /\ Erased(t, p, TRUE) \in SoundTrees
         /\ Erased(t, p, FALSE) \in SoundTrees /\ Shape(Erased(t, p, FALSE)) = Shape(t)
<1>. DEFINE u == Erased(t, p, TRUE)
            v == Erased(t, p, FALSE)
            k == Fold(p)
<1>1. /\ Sound(t, Real) /\ IsFiniteSet(DOMAIN t)
      /\ DOMAIN t \subseteq Seq(Key) /\ \A q \in DOMAIN t : t[q] \in Item(Real)
  BY SoundTreesAll DEF Sound, IsTree
<1>2. EraseError(t, p) = "ok"
  BY <1>1, FiniteShallow, EraseAllowed
<1>3. Sound(u, Real) /\ Sound(v, Real)
  BY <1>1, <1>2, ErasedSound
<1>4. DOMAIN u \subseteq DOMAIN t
  BY DEF Erased
<1>5. DOMAIN v = DOMAIN t /\ \A q \in DOMAIN t : v[q] \in {t[q], Marked(t[q], TRUE)}
  BY DEF Erased
<1>6. \A q \in DOMAIN t : v[q].real = t[q].real
  BY <1>1, <1>5, MarkedType
<1>. HIDE DEF u, v
<1>7. u \in SoundTrees
  BY <1>1, <1>3, <1>4, FS_Subset, SoundTreesAll
<1>8. v \in SoundTrees /\ Shape(v) = Shape(t)
  BY <1>3, <1>5, <1>6, SameShape
<1>. QED  BY <1>7, <1>8 DEF u, v

-----------------------------------------------------------------------------
(***************************************************************************)
(* The calls.  Each leads from no lock to no lock; find(), the getters and *)
(* the setters keep the shape of the tree.                                 *)
(***************************************************************************)
\* The directories a walk looks into.
LEMMA WalkDone ==
  ASSUME tree \in SoundTrees, NEW h \in Seq(Locks), NEW k \in Seq(Key)
  PROVE  Does(FALSE, h, Shape(tree), WalkTo(k))
<1>. DEFINE sh == Shape(tree)
            n == Len(k)
            parts == [i \in 1..Len(k) |-> LooksInto(SubSeq(k, 1, i - 1))]
<1>1. sh \in Shapes /\ DOMAIN sh = DOMAIN tree /\ DOMAIN tree \subseteq Seq(Key)
  BY ShapeOf
<1>2. n \in Nat
  BY LenProperties
<1>. HIDE DEF sh
<1>3. ASSUME NEW q  PROVE Does(FALSE, h, sh, LooksInto(q))
  <2>1. CASE q \in DOMAIN tree
    <3>. DEFINE a == Reads(q, "children")
    <3>1. a \in ReadSteps /\ a.key = q
      BY <1>1, <2>1, StepKinds DEF Fields, Reads
    <3>. HIDE DEF a
    <3>2. Does(FALSE, h, sh, <<a>>)
      BY <1>1, <2>1, <3>1, ReadDone DEF Rooted
    <3>. QED  BY <2>1, <3>2 DEF LooksInto, a
  <2>2. CASE q \notin DOMAIN tree
    BY <2>2, NothingDone DEF LooksInto
  <2>. QED  BY <2>1, <2>2
<1>4. \A i \in 1..n : parts[i] = LooksInto(SubSeq(k, 1, i - 1))
  OBVIOUS
<1>5. DOMAIN parts = 1..n /\ parts = [i \in 1..n |-> parts[i]]
  OBVIOUS
<1>6. WalkTo(k) = FlattenSeq(parts)
  BY DEF WalkTo
<1>. HIDE DEF parts, n
<1>7. \A i \in 1..n : parts[i] \in Seq(CallSteps) /\ Path(Moves, At(FALSE, h, sh), parts[i], At(FALSE, h, sh))
  BY <1>3, <1>4 DEF Does
<1>8. parts \in [1..n -> Seq(CallSteps)]
  BY <1>5, <1>7
<1>9. parts \in Seq(Seq(CallSteps)) /\ Len(parts) = n
  BY <1>2, <1>8, SeqDef, LenProperties
<1>10. Does(FALSE, h, sh, FlattenSeq(parts))
  BY <1>7, <1>9, Flattened DEF Does
<1>. QED  BY <1>6, <1>10 DEF sh

\* find()
LEMMA FindDone ==
  ASSUME tree \in SoundTrees, NEW k \in Seq(Key)
  PROVE  Does(FALSE, <<>>, Shape(tree), FindSteps(k))
<1>. DEFINE sh == Shape(tree)
            root == <<>>
            l == Shared(root)
            g == Append(root, l)
            walk == WalkTo(k)
            last == IF k \in DOMAIN tree THEN Getter(k, "deleted") ELSE <<>>
<1>1. sh \in Shapes /\ DOMAIN sh = DOMAIN tree /\ root \in Seq(Key) /\ root \in Seq(Locks)
  BY ShapeOf, EmptySeq
<1>2. l \in Locks
  BY <1>1, StepKinds
<1>3. g \in Seq(Locks)
  BY <1>1, <1>2, OneMore
<1>. HIDE DEF g
<1>4. Does(FALSE, g, sh, walk)
  BY <1>3, WalkDone
<1>5. Does(FALSE, g, sh, last)
  <2>1. CASE k \in DOMAIN tree
    <3>1. Does(FALSE, g, sh, Getter(k, "deleted"))
      <4>. HIDE DEF sh
      <4>. QED  BY <1>1, <1>3, <2>1, GetterDone DEF Rooted, Fields
    <3>. QED  BY <2>1, <3>1
  <2>2. CASE k \notin DOMAIN tree
    BY <2>2, NothingDone
  <2>. QED  BY <2>1, <2>2
<1>6. FindSteps(k) = <<l>> \o walk \o last \o <<Release>>
  BY DEF FindSteps
<1>. HIDE DEF sh, walk, last, l, root
<1>7. walk \in Seq(CallSteps) /\ last \in Seq(CallSteps)
  BY <1>4, <1>5 DEF Does
<1>8. <<l>> \in Seq(CallSteps)
  BY <1>2, StepKinds
<1>9. <<l>> \o walk \o last = <<l>> \o (walk \o last)
  <2>. DEFINE f == <<l>>
  <2>. HIDE DEF f
  <2>1. f \in Seq(CallSteps)
    BY <1>8 DEF f
  <2>2. (f \o walk) \o last = f \o (walk \o last)
    BY <1>7, <2>1, ConcatAssociative
  <2>. QED  BY <2>2 DEF f
<1>10. Does(FALSE, g, sh, walk \o last)
  BY <1>4, <1>5, DoneInTurn
<1>11. Does(FALSE, root, sh, <<l>> \o (walk \o last) \o <<Release>>)
  BY <1>1, <1>2, <1>10, AroundDone DEF g, Rooted
<1>. QED  BY <1>6, <1>9, <1>11 DEF root, sh

\* filePath()
LEMMA FilePathDone ==
  ASSUME tree \in SoundTrees, NEW k \in DOMAIN tree
  PROVE  Does(FALSE, <<>>, Shape(tree), FilePathSteps(k))
<1>. DEFINE sh == Shape(tree)
            n == Len(k)
            Prefix(i) == SubSeq(k, 1, i)
            Wrapped(i, s) ==
              <<Shared(Prefix(i)), Reads(Prefix(i), "parent")>> \o s \o <<Reads(Prefix(i), "name"), Release>>
            D == {s \in Seq(CallSteps) : \A h \in Seq(Locks) : Does(FALSE, h, sh, s)}
            Asks(e) ==
              e = [i \in 0..Len(k) |->
                     LET q == SubSeq(k, 1, i)
                     IN  IF i = 0 THEN Getter(q, "parent")
                         ELSE <<Shared(q), Reads(q, "parent")>> \o e[i - 1] \o <<Reads(q, "name"), Release>>]
            steps == CHOOSE e : Asks(e)
            first == Getter(Prefix(0), "parent")
<1>1. /\ sh \in Shapes /\ DOMAIN sh = DOMAIN tree /\ DOMAIN tree \subseteq Seq(Key)
      /\ Sound(tree, Real)
  BY ShapeOf, SoundTreesAll
<1>2. n \in Nat
  BY <1>1, LenProperties
<1>3. \A i \in 0..n : Prefix(i) \in DOMAIN tree /\ Prefix(i) \in Seq(Key)
  BY <1>1, PrefixesPresent
<1>. HIDE DEF sh, Prefix
<1>4. first \in D
  <2>1. Prefix(0) \in DOMAIN tree
    BY <1>2, <1>3
  <2>2. \A h \in Seq(Locks) : Does(FALSE, h, sh, first)
    BY <1>1, <2>1, GetterDone DEF Rooted, Fields
  <2>3. <<>> \in Seq(Locks)
    BY EmptySeq
  <2>4. first \in Seq(CallSteps)
    BY <2>2, <2>3 DEF Does
  <2>. QED  BY <2>2, <2>4
<1>5. ASSUME NEW i \in 0..n, NEW s \in D  PROVE Wrapped(i, s) \in D
  <2>. DEFINE q == Prefix(i)
              l == Shared(q)
              a == Reads(q, "parent")
              b == Reads(q, "name")
              r == Release
  <2>1. q \in DOMAIN tree /\ q \in Seq(Key)
    BY <1>3
  <2>2. /\ l \in Locks /\ a \in ReadSteps /\ b \in ReadSteps
        /\ a.key = q /\ b.key = q
    BY <2>1, StepKinds DEF Fields, Reads
  <2>3. l \in CallSteps /\ a \in CallSteps /\ b \in CallSteps /\ r \in CallSteps
    BY <2>2, StepKinds
  <2>. DEFINE u == <<l, a>>
              v == <<b, r>>
  <2>4. Wrapped(i, s) = u \o s \o v
    BY DEF Wrapped
  <2>. HIDE DEF q, l, a, b, r, u, v
  <2>5. ASSUME NEW h \in Seq(Locks)  PROVE Does(FALSE, h, sh, u \o s \o v)
    <3>. DEFINE g == Append(h, l)
                x == At(FALSE, h, sh)
                y == At(FALSE, g, sh)
    <3>1. g \in Seq(Locks)
      BY <2>2, OneMore
    <3>2. <<x, l, y>> \in Moves
      BY <1>1, <2>2, MoveTake DEF Rooted
    <3>3. <<y, r, x>> \in Moves
      BY <1>1, <2>2, MoveRelease DEF Rooted, r
    <3>. HIDE DEF g
    <3>4. <<y, a, y>> \in Moves /\ <<y, b, y>> \in Moves
      BY <1>1, <2>1, <2>2, <3>1, MoveRead DEF Rooted
    <3>5. s \in Seq(CallSteps) /\ Path(Moves, y, s, y)
      BY <3>1 DEF Does
    <3>. HIDE DEF x, y
    <3>6. u \in Seq(CallSteps) /\ Path(Moves, x, u, y)
      BY <2>3, <3>2, <3>4, PathOfTwo DEF u
    <3>7. v \in Seq(CallSteps) /\ Path(Moves, y, v, x)
      BY <2>3, <3>3, <3>4, PathOfTwo DEF v
    <3>8. u \o s \in Seq(CallSteps) /\ Path(Moves, x, u \o s, y)
      BY <3>5, <3>6, PathJoin
    <3>. DEFINE w == u \o s
    <3>9. w \in Seq(CallSteps) /\ Path(Moves, x, w, y)
      BY <3>8
    <3>. HIDE DEF w
    <3>10. w \o v \in Seq(CallSteps) /\ Path(Moves, x, w \o v, x)
      BY <3>7, <3>9, PathJoin
    <3>. QED  BY <3>10 DEF Does, x, w
  <2>6. <<>> \in Seq(Locks)
    BY EmptySeq
  <2>7. u \o s \o v \in Seq(CallSteps)
    BY <2>5, <2>6 DEF Does
  <2>. QED  BY <2>4, <2>5, <2>7
<1>. HIDE DEF Wrapped, D, first
<1>6. PICK f \in [0..n -> D] : \A i \in 0..n : f[i] = IF i = 0 THEN first ELSE Wrapped(i, f[i - 1])
  <2>. DEFINE G == [y \in (0..n) \X D |-> Wrapped(y[1], y[2])]
  <2>1. G \in [(0..n) \X D -> D]
    BY <1>5
  <2>2. PICK f \in [0..n -> D] : ByRecursion(f, 0, n, first, G)
    <3>. HIDE DEF G, n
    <3>. QED  BY <1>2, <1>4, <2>1, Recursion
  <2>3. ASSUME NEW i \in 0..n
        PROVE  f[i] = IF i = 0 THEN first ELSE Wrapped(i, f[i - 1])
    <3>1. CASE i = 0
      BY <2>2, <3>1 DEF ByRecursion
    <3>2. CASE i # 0
      <4>1. i - 1 \in 0..n
        BY <1>2, <3>2
      <4>2. <<i, f[i - 1]>> \in (0..n) \X D
        BY <2>2, <4>1
      <4>3. G[<<i, f[i - 1]>>] = Wrapped(i, f[i - 1])
        BY <4>2
      <4>. HIDE DEF G
      <4>. QED  BY <2>2, <3>2, <4>3 DEF ByRecursion
    <3>. QED  BY <3>1, <3>2
  <2>. QED  BY <2>3
<1>7. Asks(f)
  <2>1. f = [i \in 0..n |-> IF i = 0 THEN first ELSE Wrapped(i, f[i - 1])]
    BY <1>6
  <2>2. ASSUME NEW i \in 0..n
        PROVE  (IF i = 0 THEN first ELSE Wrapped(i, f[i - 1]))
               = LET q == SubSeq(k, 1, i)
                 IN  IF i = 0 THEN Getter(q, "parent")
                     ELSE <<Shared(q), Reads(q, "parent")>> \o f[i - 1] \o <<Reads(q, "name"), Release>>
    BY DEF first, Wrapped, Prefix
  <2>. QED  BY <2>1, <2>2
<1>8. Asks(steps)
  <2>. HIDE DEF Asks
  <2>. QED  BY <1>7
<1>9. FilePathSteps(k) = steps[n]
  BY Zenon DEF FilePathSteps, steps, Asks, n
<1>10. \A i \in 0..n : steps[i] = IF i = 0 THEN first ELSE Wrapped(i, steps[i - 1])
  <2>. HIDE DEF steps
  <2>1. \A i \in 0..n : steps[i] =
                     LET q == SubSeq(k, 1, i)
                     IN  IF i = 0 THEN Getter(q, "parent")
                         ELSE <<Shared(q), Reads(q, "parent")>> \o steps[i - 1] \o <<Reads(q, "name"), Release>>
    BY <1>8
  <2>. QED  BY <2>1 DEF first, Wrapped, Prefix
<1>. HIDE DEF steps, Asks, n
<1>. DEFINE H == {i \in 0..n : steps[i] \in D}
<1>11. 0 \in H
  BY <1>2, <1>4, <1>10
<1>12. ASSUME NEW i \in 0..n, i # 0, i - 1 \in H  PROVE i \in H
  BY <1>5, <1>10, <1>12
<1>. HIDE DEF H
<1>13. 0..n \subseteq H
  BY <1>2, <1>11, <1>12, Induction
<1>14. n \in H
  BY <1>2, <1>13
<1>15. steps[n] \in D /\ <<>> \in Seq(Locks)
  BY <1>14, EmptySeq DEF H
<1>. QED  BY <1>9, <1>15 DEF D, sh

\* readdir
LEMMA ReaddirDone ==
  ASSUME tree \in SoundTrees, NEW k \in DOMAIN tree
  PROVE  Does(FALSE, <<>>, Shape(tree), ReaddirSteps(k))
<1>. DEFINE sh == Shape(tree)
            root == <<>>
            K == Children(tree, k)
            Entry(c) == <<Reads(k, "children")>> \o Getter(c, "real") \o Getter(c, "name")
            entries == [c \in K |-> Entry(c)]
            first == Getter(k, "children")
<1>1. /\ sh \in Shapes /\ DOMAIN sh = DOMAIN tree /\ DOMAIN tree \subseteq Seq(Key)
      /\ IsFiniteSet(DOMAIN tree)
  BY ShapeOf
<1>2. root \in Seq(Locks)
  BY EmptySeq
<1>3. K \subseteq DOMAIN tree
  BY DEF Children
<1>4. IsFiniteSet(K)
  BY <1>1, <1>3, FS_Subset
<1>5. ReaddirSteps(k) = first \o AllOf(entries)
  BY DEF ReaddirSteps
<1>. HIDE DEF sh, root
<1>6. Does(FALSE, root, sh, first)
  BY <1>1, <1>2, GetterDone DEF Rooted, Fields
<1>7. ASSUME NEW c \in K  PROVE Does(FALSE, root, sh, Entry(c))
  <2>. DEFINE a == Reads(k, "children")
              s == <<a>>
              u == Getter(c, "real")
              v == Getter(c, "name")
  <2>1. a \in ReadSteps /\ a.key = k
    BY <1>1, StepKinds DEF Fields, Reads
  <2>. HIDE DEF a, K
  <2>2. Does(FALSE, root, sh, s)
    BY <1>1, <1>2, <2>1, ReadDone DEF Rooted
  <2>3. Does(FALSE, root, sh, u) /\ Does(FALSE, root, sh, v)
    BY <1>1, <1>2, <1>3, GetterDone DEF Rooted, Fields
  <2>. HIDE DEF s, u, v
  <2>4. Does(FALSE, root, sh, s \o u)
    BY <2>2, <2>3, DoneInTurn
  <2>. DEFINE w == s \o u
  <2>5. Does(FALSE, root, sh, w)
    BY <2>4
  <2>. HIDE DEF w
  <2>6. Does(FALSE, root, sh, w \o v)
    BY <2>3, <2>5, DoneInTurn
  <2>. QED  BY <2>6 DEF w, s, u, v, a
<1>. HIDE DEF K, first, Entry
<1>8. entries = [c \in K |-> entries[c]] /\ \A c \in K : entries[c] = Entry(c)
  OBVIOUS
<1>. HIDE DEF entries
<1>9. \A c \in K : Does(FALSE, root, sh, entries[c])
  BY <1>7, <1>8
<1>10. Does(FALSE, root, sh, AllOf(entries))
  BY <1>4, <1>8, <1>9, DoneForAll
<1>11. Does(FALSE, root, sh, first \o AllOf(entries))
  BY <1>6, <1>10, DoneInTurn
<1>. QED  BY <1>5, <1>11 DEF root, sh

\* A part of a call of the handlers that may change the tree.
Leads(h, sh, s, new) ==
  s \in Seq(CallSteps) /\ Path(Moves, At(FALSE, h, sh), s, At(FALSE, h, new))

\* One part after the other.
LEMMA LeadsInTurn ==
  ASSUME NEW h, NEW a, NEW b, NEW c, NEW s, NEW u, Leads(h, a, s, b), Leads(h, b, u, c)
  PROVE  Leads(h, a, s \o u, c)
BY PathJoin DEF Leads

\* What changes nothing.
LEMMA DoesLeads ==
  ASSUME NEW h, NEW sh, NEW s
  PROVE  Does(FALSE, h, sh, s) <=> Leads(h, sh, s, sh)
BY DEF Leads, Does

\* A write under the lock of the root.
LEMMA WriteLeads ==
  ASSUME NEW h \in Seq(Locks), Holds(h, Exclusive(<<>>)), NEW sh \in Shapes,
         NEW k \in Seq(Key), NEW f \in Fields, NEW t \in SoundTrees
  PROVE  Leads(h, sh, <<Writes(k, f, t)>>, Shape(t))
<1>. DEFINE a == Writes(k, f, t)
<1>1. a \in WriteSteps /\ a \in CallSteps
  BY StepKinds
<1>2. a.tree = t
  BY DEF Writes
<1>. HIDE DEF a
<1>3. <<At(FALSE, h, sh), a, At(FALSE, h, Shape(a.tree))>> \in Moves
  BY <1>1, MoveWrite
<1>4. <<At(FALSE, h, sh), a, At(FALSE, h, Shape(t))>> \in Moves
  BY <1>2, <1>3
<1>5. Path(Moves, At(FALSE, h, sh), <<a>>, At(FALSE, h, Shape(t)))
  BY <1>4, PathOne
<1>6. <<a>> \in Seq(CallSteps)
  BY <1>1
<1>. QED  BY <1>5, <1>6 DEF Leads, a

\* A call that holds the lock of the root.
LEMMA RootLocked ==
  ASSUME NEW sh \in Shapes, NEW new \in Shapes, NEW s, NEW u,
         Leads(Append(<<>>, Exclusive(<<>>)), sh, s, sh),
         Leads(Append(<<>>, Exclusive(<<>>)), sh, u, new)
  PROVE  Leads(<<>>, sh, <<Exclusive(<<>>)>> \o s \o u \o <<Release>>, new)
<1>. DEFINE root == <<>>
            l == Exclusive(root)
            g == Append(root, l)
            x == At(FALSE, root, sh)
            y == At(FALSE, g, sh)
            z == At(FALSE, g, new)
            w == At(FALSE, root, new)
            r == Release
            f == <<l>>
<1>1. root \in Seq(Key) /\ root \in Seq(Locks)
  BY EmptySeq
<1>2. l \in Locks /\ l \in CallSteps /\ r \in CallSteps
  BY <1>1, StepKinds
<1>3. Leads(g, sh, s, sh) /\ Leads(g, sh, u, new)
  OBVIOUS
<1>. HIDE DEF l, root
<1>4. <<x, l, y>> \in Moves
  BY <1>1, <1>2, MoveTake DEF Rooted
<1>5. <<z, r, w>> \in Moves
  BY <1>1, <1>2, MoveRelease DEF Rooted
<1>6. /\ s \in Seq(CallSteps) /\ u \in Seq(CallSteps)
      /\ Path(Moves, y, s, y) /\ Path(Moves, y, u, z)
  BY <1>3 DEF Leads
<1>. HIDE DEF x, y, z, w, r, g
<1>7. s \o u \in Seq(CallSteps) /\ Path(Moves, y, s \o u, z)
  BY <1>6, PathJoin
<1>. DEFINE v == s \o u
<1>8. v \in Seq(CallSteps) /\ Path(Moves, y, v, z)
  BY <1>7
<1>9. f \in Seq(CallSteps)
  BY <1>2
<1>10. f \o s \o u = f \o v
  <2>. HIDE DEF f
  <2>1. (f \o s) \o u = f \o (s \o u)
    BY <1>6, <1>9, ConcatAssociative
  <2>. QED  BY <2>1
<1>. HIDE DEF v
<1>11. <<l>> \o v \o <<r>> \in Seq(CallSteps) /\ Path(Moves, x, <<l>> \o v \o <<r>>, w)
  BY <1>2, <1>4, <1>5, <1>8, PathAround
<1>12. Leads(root, sh, <<l>> \o v \o <<r>>, new)
  BY <1>11 DEF Leads, x, w
<1>13. <<l>> \o v \o <<r>> = f \o s \o u \o <<r>>
  BY <1>10
<1>14. Leads(root, sh, f \o s \o u \o <<r>>, new)
  BY <1>12, <1>13
<1>. QED  BY <1>14 DEF r, f, l, root

\* The locks of a call that has locked the root.
LEMMA RootHeld ==
  /\ <<>> \in Seq(Locks) /\ <<>> \in Seq(Key) /\ Exclusive(<<>>) \in Locks
  /\ Append(<<>>, Exclusive(<<>>)) \in Seq(Locks)
  /\ Holds(Append(<<>>, Exclusive(<<>>)), Exclusive(<<>>))
<1>. DEFINE root == <<>>
            l == Exclusive(root)
<1>1. root \in Seq(Key) /\ root \in Seq(Locks)
  BY EmptySeq
<1>2. l \in Locks
  BY <1>1, StepKinds
<1>. HIDE DEF l, root
<1>3. Append(root, l) \in Seq(Locks) /\ Holds(Append(root, l), l)
  BY <1>1, <1>2, OneMore
<1>. QED  BY <1>1, <1>2, <1>3 DEF l, root

\* add()
LEMMA AddLeads ==
  ASSUME tree \in SoundTrees, NEW p \in Seq(Name), p # <<>>,
         NEW real \in Real, NEW type \in {"file", "dir"}
  PROVE  \E new \in Shapes : Leads(<<>>, Shape(tree), AddSteps(p, real, type), new)
<1>. DEFINE sh == Shape(tree)
            k == Fold(p)
            added == Added(tree, p, real, type)
            g == Append(<<>>, Exclusive(<<>>))
            walk == WalkTo(k)
            walking == AddWalking(p, real, type)
<1>1. /\ sh \in Shapes /\ DOMAIN sh = DOMAIN tree /\ DOMAIN tree \subseteq Seq(Key)
      /\ Sound(tree, Real)
  BY ShapeOf, SoundTreesAll
<1>2. k \in Seq(Key) /\ k # <<>>
  BY FoldProperties
<1>3. g \in Seq(Locks) /\ Holds(g, Exclusive(<<>>))
  BY RootHeld
<1>. HIDE DEF g, k
<1>4. Leads(g, sh, walk, sh)
  BY <1>2, <1>3, WalkDone, DoesLeads
<1>5. Parent(k) \in DOMAIN tree => added \in SoundTrees
  BY AddedTree DEF k
<1>. HIDE DEF sh, added, walk
<1>6. \E new \in Shapes : Leads(g, sh, walking, new)
  <2>1. CASE k \notin DOMAIN tree /\ Parent(k) \notin DOMAIN tree
    <3>1. walking = <<>>
      BY <2>1 DEF AddWalking, k
    <3>2. Leads(g, sh, <<>>, sh)
      BY NothingDone, DoesLeads
    <3>. QED  BY <1>1, <3>1, <3>2
  <2>2. CASE k \notin DOMAIN tree /\ Parent(k) \in DOMAIN tree
    <3>1. walking = <<Writes(Parent(k), "children", added)>>
      BY <2>2 DEF AddWalking, k, added
    <3>2. Leads(g, sh, <<Writes(Parent(k), "children", added)>>, Shape(added))
      BY <1>1, <1>3, <1>5, <2>2, WriteLeads DEF Fields
    <3>3. Shape(added) \in Shapes
      BY <1>5, <2>2, ShapeOf
    <3>. QED  BY <3>1, <3>2, <3>3
  <2>3. CASE k \in DOMAIN tree
    <3>. DEFINE get == Getter(k, "deleted")
                cleared == WithDeleted(tree, k, FALSE)
                set == Setter(k, "deleted", cleared)
                write == <<Writes(k, "real", added)>>
    <3>1. Leads(g, sh, get, sh)
      BY <1>1, <1>3, <2>3, GetterDone, DoesLeads DEF Rooted, Fields
    <3>2. cleared \in SoundTrees /\ Shape(cleared) = sh
      BY <2>3, MarkedTree DEF sh
    <3>. HIDE DEF cleared
    <3>3. Leads(g, sh, set, sh)
      BY <1>2, <1>3, <3>2, SetterDone, DoesLeads DEF Fields
    <3>4. Parent(k) \in DOMAIN tree
      BY <1>1, <1>2, <2>3 DEF Sound, PrefixClosed
    <3>5. Leads(g, sh, write, Shape(added)) /\ Shape(added) \in Shapes
      BY <1>1, <1>2, <1>3, <1>5, <3>4, WriteLeads, ShapeOf DEF Fields
    <3>6. walking = get \o (IF tree[k].deleted THEN set \o write ELSE <<>>)
      BY <2>3 DEF AddWalking, k, added, cleared
    <3>. HIDE DEF get, set, write, walking
    <3>7. CASE tree[k].deleted
      <4>1. Leads(g, sh, set \o write, Shape(added))
        BY <3>3, <3>5, LeadsInTurn
      <4>. DEFINE rest == set \o write
      <4>2. Leads(g, sh, rest, Shape(added)) /\ walking = get \o rest
        BY <3>6, <3>7, <4>1
      <4>. HIDE DEF rest
      <4>3. Leads(g, sh, get \o rest, Shape(added))
        BY <3>1, <4>2, LeadsInTurn
      <4>. QED  BY <3>5, <4>2, <4>3
    <3>8. CASE ~tree[k].deleted
      <4>1. Leads(g, sh, <<>>, sh)
        BY NothingDone, DoesLeads
      <4>. DEFINE rest == <<>>
      <4>2. Leads(g, sh, rest, sh) /\ walking = get \o rest
        BY <3>6, <3>8, <4>1
      <4>. HIDE DEF rest
      <4>3. Leads(g, sh, get \o rest, sh)
        BY <3>1, <4>2, LeadsInTurn
      <4>. QED  BY <1>1, <4>2, <4>3
    <3>. QED  BY <3>7, <3>8
  <2>. QED  BY <2>1, <2>2, <2>3
<1>. HIDE DEF walking
<1>7. PICK new \in Shapes : Leads(g, sh, walking, new)
  BY <1>6
<1>8. Leads(<<>>, sh, <<Exclusive(<<>>)>> \o walk \o walking \o <<Release>>, new)
  BY <1>1, <1>4, <1>7, RootLocked DEF g
<1>9. AddSteps(p, real, type) = <<Exclusive(<<>>)>> \o walk \o walking \o <<Release>>
  BY DEF AddSteps, walk, walking, k
<1>. QED  BY <1>7, <1>8, <1>9 DEF sh

\* The marks erase() leaves.
LEMMA MarkLeads ==
  ASSUME tree \in SoundTrees, NEW k \in DOMAIN tree, k # <<>>
  PROVE  Leads(Append(<<>>, Exclusive(<<>>)), Shape(tree), MarkSteps(k), Shape(tree))
<1>. DEFINE sh == Shape(tree)
            g == Append(<<>>, Exclusive(<<>>))
            below == {q \in DOMAIN tree : Under(k, q) /\ q # k}
            marked == Erased(tree, k, FALSE)
            one == WithDeleted(tree, k, TRUE)
            Entry(q) == <<Reads(Parent(q), "children"), Writes(q, "deleted", marked)>>
            entries == [q \in below |-> Entry(q)]
            set == Setter(k, "deleted", one)
<1>1. /\ sh \in Shapes /\ DOMAIN sh = DOMAIN tree /\ DOMAIN tree \subseteq Seq(Key)
      /\ Sound(tree, Real) /\ IsFiniteSet(DOMAIN tree)
  BY ShapeOf, SoundTreesAll
<1>2. g \in Seq(Locks) /\ Holds(g, Exclusive(<<>>))
  BY RootHeld
<1>3. k \in Seq(Name) /\ Present(tree, k)
  BY <1>1, FoldOfKey DEF Present
<1>4. marked \in SoundTrees /\ Shape(marked) = sh
  BY <1>3, ErasedTree
<1>5. one \in SoundTrees /\ Shape(one) = sh
  BY MarkedTree
<1>6. IsFiniteSet(below) /\ below \subseteq DOMAIN tree
  BY <1>1, FS_Subset
<1>7. \A q \in below : q # <<>>
  <2>1. Len(k) \in Nat /\ Len(k) # 0
    BY <1>1, LenProperties, EmptySeq
  <2>2. ASSUME NEW q \in below  PROVE Len(k) =< Len(q)
    BY DEF Under
  <2>3. Len(<<>>) = 0
    BY EmptyList
  <2>. QED  BY <2>1, <2>2, <2>3
<1>8. MarkSteps(k) = set \o AllOf(entries)
  BY DEF MarkSteps
<1>. HIDE DEF sh, g, marked, one, below
<1>9. Does(FALSE, g, sh, set)
  BY <1>1, <1>2, <1>5, SetterDone DEF Fields
<1>10. ASSUME NEW q \in below  PROVE Does(FALSE, g, sh, Entry(q))
  <2>. DEFINE a == Reads(Parent(q), "children")
              b == Writes(q, "deleted", marked)
              x == At(FALSE, g, sh)
  <2>1. q \in DOMAIN tree /\ q \in Seq(Key) /\ Parent(q) \in DOMAIN tree /\ Parent(q) \in Seq(Key)
    BY <1>1, <1>6, <1>7 DEF Sound, PrefixClosed
  <2>2. a \in ReadSteps /\ a.key = Parent(q) /\ b \in WriteSteps /\ b.tree = marked
    BY <1>4, <2>1, StepKinds DEF Fields, Reads, Writes
  <2>3. a \in CallSteps /\ b \in CallSteps
    BY <2>2, StepKinds
  <2>. HIDE DEF a, b
  <2>4. <<x, a, x>> \in Moves
    BY <1>1, <1>2, <2>1, <2>2, MoveRead DEF Rooted
  <2>5. <<x, b, At(FALSE, g, Shape(b.tree))>> \in Moves
    BY <1>1, <1>2, <2>2, MoveWrite
  <2>6. <<x, b, x>> \in Moves
    BY <1>4, <2>2, <2>5
  <2>. HIDE DEF x
  <2>7. <<a, b>> \in Seq(CallSteps) /\ Path(Moves, x, <<a, b>>, x)
    BY <2>3, <2>4, <2>6, PathOfTwo
  <2>. QED  BY <2>7 DEF Does, a, b, x
<1>. HIDE DEF set, Entry
<1>11. entries = [q \in below |-> entries[q]] /\ \A q \in below : entries[q] = Entry(q)
  OBVIOUS
<1>. HIDE DEF entries
<1>12. \A q \in below : Does(FALSE, g, sh, entries[q])
  BY <1>10, <1>11
<1>13. Does(FALSE, g, sh, AllOf(entries))
  BY <1>6, <1>11, <1>12, DoneForAll
<1>14. Does(FALSE, g, sh, set \o AllOf(entries))
  BY <1>9, <1>13, DoneInTurn
<1>. QED  BY <1>8, <1>14, DoesLeads DEF sh, g

\* erase()
LEMMA EraseLeads ==
  ASSUME tree \in SoundTrees, NEW p \in Seq(Name), p # <<>>, NEW reallyErase \in BOOLEAN
  PROVE  \E new \in Shapes : Leads(<<>>, Shape(tree), EraseSteps(p, reallyErase), new)
<1>. DEFINE sh == Shape(tree)
            k == Fold(p)
            erased == Erased(tree, p, TRUE)
            g == Append(<<>>, Exclusive(<<>>))
            walk == WalkTo(k)
            empty == IsEmptySteps(k)
            write == <<Writes(Parent(k), "children", erased)>>
            mark == MarkSteps(k)
            end == IF reallyErase THEN write ELSE mark
            rest == IF k \notin DOMAIN tree THEN <<>> ELSE empty \o end
<1>1. /\ sh \in Shapes /\ DOMAIN sh = DOMAIN tree /\ DOMAIN tree \subseteq Seq(Key)
      /\ Sound(tree, Real)
  BY ShapeOf, SoundTreesAll
<1>2. k \in Seq(Key) /\ k # <<>>
  BY FoldProperties
<1>3. g \in Seq(Locks) /\ Holds(g, Exclusive(<<>>))
  BY RootHeld
<1>4. k \in DOMAIN tree => erased \in SoundTrees
  BY ErasedTree DEF Present
<1>5. k \in DOMAIN tree => Leads(g, sh, mark, sh)
  BY <1>2, MarkLeads
<1>. HIDE DEF g, k
<1>6. Leads(g, sh, walk, sh)
  BY <1>2, <1>3, WalkDone, DoesLeads
<1>. HIDE DEF sh, erased, walk, mark
<1>7. \E new \in Shapes : Leads(g, sh, rest, new)
  <2>1. CASE k \notin DOMAIN tree
    <3>1. Leads(g, sh, <<>>, sh)
      BY NothingDone, DoesLeads
    <3>. QED  BY <1>1, <2>1, <3>1
  <2>2. CASE k \in DOMAIN tree
    <3>1. Leads(g, sh, empty, sh)
      BY <1>1, <1>3, <2>2, IsEmptyDone, DoesLeads DEF Rooted
    <3>2. Leads(g, sh, write, Shape(erased)) /\ Shape(erased) \in Shapes
      <4>1. Parent(k) \in Seq(Key)
        BY <1>2, ParentProperties
      <4>. QED  BY <1>1, <1>3, <1>4, <2>2, <4>1, WriteLeads, ShapeOf DEF Fields
    <3>3. PICK new \in Shapes : Leads(g, sh, end, new)
      BY <1>1, <1>5, <2>2, <3>2
    <3>. HIDE DEF empty, end
    <3>4. Leads(g, sh, empty \o end, new)
      BY <3>1, <3>3, LeadsInTurn
    <3>. QED  BY <2>2, <3>4
  <2>. QED  BY <2>1, <2>2
<1>. HIDE DEF rest
<1>8. PICK new \in Shapes : Leads(g, sh, rest, new)
  BY <1>7
<1>9. Leads(<<>>, sh, <<Exclusive(<<>>)>> \o walk \o rest \o <<Release>>, new)
  BY <1>1, <1>6, <1>8, RootLocked DEF g
<1>10. EraseSteps(p, reallyErase) = <<Exclusive(<<>>)>> \o walk \o rest \o <<Release>>
  BY DEF EraseSteps, walk, rest, k, empty, end, write, mark, erased
<1>. QED  BY <1>8, <1>9, <1>10 DEF sh

\* Whatever the handlers call, it ends without locks.
LEMMA CallsLead ==
  ASSUME tree \in SoundTrees, NEW p \in Paths, NEW steps \in Calls(p)
  PROVE  \E new \in Shapes : Leads(<<>>, Shape(tree), steps, new)
<1>. DEFINE k == Fold(p)
            sh == Shape(tree)
<1>1. p \in Seq(Name) /\ p # <<>>
  BY TreeLocksAssumption
<1>2. k \in Seq(Key) /\ k # <<>>
  BY <1>1, FoldProperties
<1>3. sh \in Shapes /\ DOMAIN sh = DOMAIN tree /\ <<>> \in Seq(Locks)
  BY ShapeOf, EmptySeq
<1>4. CASE steps = FindSteps(k)
  <2>1. Does(FALSE, <<>>, sh, steps)
    BY <1>2, <1>4, FindDone
  <2>. HIDE DEF sh, k
  <2>. QED  BY <1>3, <2>1, DoesLeads DEF sh
<1>5. CASE \E real \in Real, type \in {"file", "dir"} : steps = AddSteps(p, real, type)
  BY <1>1, <1>5, AddLeads
<1>6. CASE \E b \in BOOLEAN : steps = EraseSteps(p, b)
  BY <1>1, <1>6, EraseLeads
<1>7. CASE Present(tree, p) /\ steps \in ItemSteps(p)
  <2>1. k \in DOMAIN tree
    BY <1>7 DEF Present
  <2>2. SUFFICES Does(FALSE, <<>>, sh, steps)
    <3>. HIDE DEF sh
    <3>. QED  BY <1>3, <2>2, DoesLeads DEF sh
  <2>3. CASE \E field \in {"name", "real", "type", "parent"} : steps = Getter(k, field)
    <3>1. PICK field \in {"name", "real", "type", "parent"} : steps = Getter(k, field)
      BY <2>3
    <3>2. field \in Fields
      BY DEF Fields
    <3>. HIDE DEF sh, k
    <3>. QED  BY <1>3, <2>1, <3>1, <3>2, GetterDone DEF Rooted
  <2>4. CASE \E b \in BOOLEAN : steps = Setter(k, "deleted", WithDeleted(tree, k, b))
    <3>1. PICK b \in BOOLEAN : steps = Setter(k, "deleted", WithDeleted(tree, k, b))
      BY <2>4
    <3>. DEFINE t == WithDeleted(tree, k, b)
    <3>2. t \in SoundTrees /\ Shape(t) = sh
      BY <2>1, MarkedTree
    <3>. HIDE DEF t, sh, k
    <3>3. Does(FALSE, <<>>, Shape(t), Setter(k, "deleted", t))
      BY <1>2, <1>3, <3>2, SetterDone DEF Fields
    <3>. QED  BY <3>1, <3>2, <3>3 DEF t
  <2>5. CASE steps = SetNameSteps(k, Base(p))
    <3>. DEFINE t == WithName(tree, k, Base(p))
    <3>1. t \in SoundTrees /\ Shape(t) = sh
      BY <1>1, <1>7, NamedTree
    <3>2. steps = Setter(k, "name", t)
      BY <2>5 DEF SetNameSteps
    <3>. HIDE DEF t, sh, k
    <3>3. Does(FALSE, <<>>, Shape(t), Setter(k, "name", t))
      BY <1>2, <1>3, <3>1, SetterDone DEF Fields
    <3>. QED  BY <3>1, <3>2, <3>3
  <2>6. CASE steps = IsEmptySteps(k)
    <3>. HIDE DEF sh, k
    <3>. QED  BY <1>3, <2>1, <2>6, IsEmptyDone DEF Rooted
  <2>7. CASE steps = FilePathSteps(k)
    BY <2>1, <2>7, FilePathDone
  <2>8. CASE steps = ReaddirSteps(k)
    BY <2>1, <2>8, ReaddirDone
  <2>. QED  BY <1>7, <2>3, <2>4, <2>5, <2>6, <2>7, <2>8 DEF ItemSteps
<1>. QED  BY <1>4, <1>5, <1>6, <1>7 DEF Calls

-----------------------------------------------------------------------------
(***************************************************************************)
(* dumpTree().                                                             *)
(***************************************************************************)
\* What is left of dumpTree() of an item that is locked.
DumpRest(k) ==
  Getter(k, "name") \o Getter(k, "type") \o Getter(k, "real") \o <<Descend(k, "dumpTree"), Release>>

\* The getters of an item are calls.
LEMMA GetterType ==
  ASSUME NEW k \in Seq(Key), NEW f \in Fields
  PROVE  Getter(k, f) \in Seq(CallSteps) /\ Reads(k, f) \in ToSet(Getter(k, f))
<1>. DEFINE l == Shared(k)
            a == Reads(k, f)
            r == Release
            s == <<l, a, r>>
<1>1. l \in CallSteps /\ a \in CallSteps /\ r \in CallSteps
  BY StepKinds
<1>2. Getter(k, f) = s
  BY DEF Getter
<1>. HIDE DEF l, a, r
<1>3. s \in Seq(CallSteps) /\ Len(s) = 3 /\ s[2] = a
  BY <1>1
<1>. HIDE DEF s
<1>4. 2 \in DOMAIN s
  BY <1>3, ListOf
<1>5. a \in ToSet(s)
  BY <1>3, <1>4 DEF ToSet
<1>. QED  BY <1>2, <1>3, <1>5 DEF a

\* dumpTree() locks the item, and what is left prints it and goes on below.
LEMMA DumpParts ==
  ASSUME NEW k \in Seq(Key)
  PROVE  /\ DumpSteps(k) \in Seq(CallSteps) /\ DumpSteps(k) # <<>>
         /\ Head(DumpSteps(k)) = Shared(k) /\ Tail(DumpSteps(k)) = DumpRest(k)
         /\ DumpSteps(k) = <<Shared(k)>> \o DumpRest(k)
         /\ DumpRest(k) \in Seq(CallSteps)
         /\ Reads(k, "real") \in ToSet(DumpRest(k))
         /\ Descend(k, "dumpTree") \in ToSet(DumpRest(k))
         /\ ToSet(DumpRest(k)) \subseteq ToSet(DumpSteps(k))
<1>. DEFINE l == Shared(k)
            f == <<l>>
            a == Getter(k, "name")
            b == Getter(k, "type")
            c == Getter(k, "real")
            dn == Descend(k, "dumpTree")
            r == Release
            e == <<dn, r>>
            read == Reads(k, "real")
<1>1. l \in CallSteps /\ dn \in CallSteps /\ r \in CallSteps
  BY StepKinds
<1>2. /\ a \in Seq(CallSteps) /\ b \in Seq(CallSteps) /\ c \in Seq(CallSteps)
      /\ read \in ToSet(c)
  BY GetterType DEF Fields
<1>3. DumpRest(k) = a \o b \o c \o e
  BY DEF DumpRest
<1>4. DumpSteps(k) = f \o a \o b \o c \o e
  BY DEF DumpSteps
<1>. HIDE DEF l, a, b, c, dn, r, read
<1>5. f \in Seq(CallSteps) /\ Len(f) = 1 /\ f[1] = l
  BY <1>1
<1>6. e \in Seq(CallSteps) /\ Len(e) = 2 /\ e[1] = dn
  BY <1>1
<1>. HIDE DEF f, e
<1>7. dn \in ToSet(e)
  <2>1. 1 \in DOMAIN e
    BY <1>6, ListOf
  <2>. QED  BY <1>6, <2>1 DEF ToSet
<1>7a. /\ a \in Seq(CallSteps) /\ b \in Seq(CallSteps) /\ c \in Seq(CallSteps)
       /\ f \in Seq(CallSteps) /\ e \in Seq(CallSteps)
  BY <1>2, <1>5, <1>6
<1>7b. \A x, y, z \in Seq(CallSteps) : (x \o y) \o z = x \o (y \o z)
  BY ConcatAssociative
<1>. DEFINE ab == a \o b
            abc == ab \o c
            rest == abc \o e
<1>8. ab \in Seq(CallSteps)
  BY <1>2, ConcatList
<1>9. (f \o a) \o b = f \o ab
  BY <1>7a, <1>7b
<1>. HIDE DEF ab
<1>10. abc \in Seq(CallSteps) /\ read \in ToSet(abc)
  BY <1>2, <1>8, ConcatList
<1>11. (f \o ab) \o c = f \o abc
  BY <1>7a, <1>8, <1>7b
<1>. HIDE DEF abc
<1>12. rest \in Seq(CallSteps) /\ read \in ToSet(rest) /\ dn \in ToSet(rest)
  BY <1>6, <1>7, <1>10, ConcatList
<1>13. (f \o abc) \o e = f \o rest
  <2>1. abc \in Seq(CallSteps)
    BY <1>10
  <2>. QED  BY <1>7a, <2>1, <1>7b
<1>. HIDE DEF rest
<1>. DEFINE s == f \o rest
<1>14. DumpSteps(k) = s
  BY <1>4, <1>9, <1>11, <1>13
<1>15. DumpRest(k) = rest
  BY <1>3 DEF rest, abc, ab
<1>16. s \in Seq(CallSteps) /\ ToSet(s) = ToSet(f) \cup ToSet(rest)
  BY <1>5, <1>12, ConcatList
<1>17. Len(rest) \in Nat /\ Len(s) = 1 + Len(rest)
       /\ \A i \in 1..1 + Len(rest) : s[i] = IF i <= 1 THEN f[i] ELSE rest[i - 1]
  <2>1. rest \in Seq(CallSteps) /\ f \in Seq(CallSteps) /\ Len(f) = 1
    BY <1>5, <1>12
  <2>2. Len(rest) \in Nat
    BY <2>1, LenProperties
  <2>. DEFINE m == Len(f)
  <2>3. Len(s) = m + Len(rest) /\ \A i \in 1..m + Len(rest) : s[i] = IF i <= m THEN f[i] ELSE rest[i - m]
    BY <2>1, ConcatProperties
  <2>4. m = 1
    BY <2>1
  <2>. HIDE DEF m, s
  <2>. QED  BY <2>2, <2>3, <2>4
<1>. HIDE DEF s
<1>18. s # <<>>
  <2>1. Len(s) # 0
    BY <1>17
  <2>. QED  BY <2>1, EmptyList
<1>19. /\ Head(s) = s[1] /\ Tail(s) \in Seq(CallSteps) /\ Len(Tail(s)) = Len(s) - 1
       /\ \A i \in DOMAIN Tail(s) : Tail(s)[i] = s[i + 1]
  BY <1>16, <1>18, HeadAndTail
<1>20. Head(s) = l
  <2>1. 1 \in 1..1 + Len(rest) /\ 1 <= 1
    BY <1>17
  <2>. QED  BY <1>5, <1>17, <1>19, <2>1
<1>21. Tail(s) = rest
  <2>. DEFINE m == Len(rest)
              u == Tail(s)
  <2>1. m \in Nat /\ Len(u) = m
    BY <1>17, <1>19
  <2>2. DOMAIN u = 1..m
    BY <1>19, <2>1, ListOf
  <2>. HIDE DEF m, u
  <2>3. ASSUME NEW i \in 1..m  PROVE u[i] = rest[i]
    <3>1. i + 1 \in 1..1 + m /\ ~(i + 1 <= 1) /\ i + 1 - 1 = i
      BY <2>1
    <3>2. PICK j \in 1..1 + m : j = i + 1 /\ ~(j <= 1) /\ j - 1 = i
      BY <3>1
    <3>3. s[j] = rest[i]
      BY <1>17, <3>2 DEF m
    <3>4. u[i] = s[j]
      BY <1>19, <2>2, <3>2 DEF u
    <3>. QED  BY <3>3, <3>4
  <2>4. u \in Seq(CallSteps) /\ Len(u) = Len(rest)
    BY <1>19, <2>1 DEF u, m
  <2>5. u = rest
    BY <1>12, <2>3, <2>4, SeqEqual DEF m
  <2>. QED  BY <2>5 DEF u
<1>. QED  BY <1>12, <1>14, <1>15, <1>16, <1>18, <1>20, <1>21 DEF s, l, dn, read, f

\* What is left of dumpTree() gives the lock back.
LEMMA DumpGoesOn ==
  ASSUME NEW d \in BOOLEAN, NEW h \in Seq(Locks), NEW sh \in Shapes, NEW k \in DOMAIN sh,
         Rooted(d, Append(h, Shared(k)))
  PROVE  Path(Moves, At(d, Append(h, Shared(k)), sh), DumpRest(k), At(d, h, sh))
<1>. DEFINE l == Shared(k)
            g == Append(h, l)
            x == At(d, g, sh)
            y == At(d, h, sh)
            a == Getter(k, "name")
            b == Getter(k, "type")
            c == Getter(k, "real")
            dn == Descend(k, "dumpTree")
            r == Release
            e == <<dn, r>>
<1>1. k \in Seq(Key)
  BY ShapeKeys
<1>2. /\ l \in Locks /\ dn \in DescendSteps /\ dn.key = k
      /\ dn \in CallSteps /\ r \in CallSteps
  BY <1>1, StepKinds DEF Descend
<1>3. g \in Seq(Locks) /\ Holds(g, Shared(k)) /\ Rooted(d, g)
  BY <1>2, OneMore
<1>4. DumpRest(k) = a \o b \o c \o e
  BY DEF DumpRest
<1>5. <<x, r, y>> \in Moves
  BY <1>2, MoveRelease
<1>. HIDE DEF dn, l, g
<1>6. <<x, dn, x>> \in Moves
  BY <1>2, <1>3, MoveRead
<1>7. Does(d, g, sh, a) /\ Does(d, g, sh, b) /\ Does(d, g, sh, c)
  BY <1>3, GetterDone DEF Fields
<1>. HIDE DEF x, y, r
<1>8. e \in Seq(CallSteps) /\ Path(Moves, x, e, y)
  BY <1>2, <1>5, <1>6, PathOfTwo
<1>. HIDE DEF a, b, c, e
<1>. DEFINE ab == a \o b
            abc == ab \o c
<1>9. Does(d, g, sh, ab)
  BY <1>7, DoneInTurn
<1>. HIDE DEF ab
<1>10. Does(d, g, sh, abc)
  BY <1>7, <1>9, DoneInTurn
<1>. HIDE DEF abc
<1>11. abc \in Seq(CallSteps) /\ Path(Moves, x, abc, x)
  BY <1>10 DEF Does, x
<1>12. Path(Moves, x, abc \o e, y)
  BY <1>8, <1>11, PathJoin
<1>. QED  BY <1>4, <1>12 DEF x, y, g, l, abc, ab

\* dumpTree() of an item below the root.
LEMMA DumpDone ==
  ASSUME NEW d \in BOOLEAN, NEW h \in Seq(Locks), NEW sh \in Shapes, NEW k \in DOMAIN sh,
         Rooted(d, h)
  PROVE  Does(d, h, sh, DumpSteps(k))
<1>. DEFINE l == Shared(k)
            f == <<l>>
            rest == DumpRest(k)
            x == At(d, h, sh)
            y == At(d, Append(h, l), sh)
<1>1. k \in Seq(Key)
  BY ShapeKeys
<1>2. l \in Locks /\ l \in CallSteps /\ l.do = "shared"
  BY <1>1, StepKinds
<1>3. Rooted(d, Append(h, l))
  BY <1>2, OneMore
<1>4. Path(Moves, y, rest, x)
  BY <1>3, DumpGoesOn
<1>5. rest \in Seq(CallSteps) /\ DumpSteps(k) = f \o rest
  BY <1>1, DumpParts
<1>. HIDE DEF l
<1>6. <<x, l, y>> \in Moves
  BY <1>2, MoveTake
<1>. HIDE DEF x, y, rest
<1>7. f \in Seq(CallSteps) /\ Path(Moves, x, f, y)
  BY <1>2, <1>6, PathOne
<1>. HIDE DEF f
<1>8. f \o rest \in Seq(CallSteps) /\ Path(Moves, x, f \o rest, x)
  BY <1>4, <1>5, <1>7, PathJoin
<1>. QED  BY <1>5, <1>8 DEF Does, x

\* What dumpTree() and isEmpty() do with the children.
Below(k, by) ==
  AllOf([c \in Children(tree, k) |-> IF by = "isEmpty" THEN IsEmptySteps(c) ELSE DumpSteps(c)])

\* Going on with the children leads back to the locks there are, and a dump
\* comes to every child.
LEMMA BelowDone ==
  ASSUME tree \in SoundTrees, NEW d \in BOOLEAN, NEW h \in Seq(Locks), Rooted(d, h),
         NEW k, NEW by
  PROVE  /\ Does(d, h, Shape(tree), Below(k, by))
         /\ by # "isEmpty" =>
              \A c \in Children(tree, k) :
                Reads(c, "real") \in ToSet(Below(k, by)) /\ Descend(c, "dumpTree") \in ToSet(Below(k, by))
<1>. DEFINE sh == Shape(tree)
            K == Children(tree, k)
            Entry(c) == IF by = "isEmpty" THEN IsEmptySteps(c) ELSE DumpSteps(c)
            entries == [c \in K |-> Entry(c)]
<1>1. /\ sh \in Shapes /\ DOMAIN sh = DOMAIN tree /\ DOMAIN tree \subseteq Seq(Key)
      /\ IsFiniteSet(DOMAIN tree)
  BY ShapeOf
<1>2. K \subseteq DOMAIN tree
  BY DEF Children
<1>3. IsFiniteSet(K)
  BY <1>1, <1>2, FS_Subset
<1>4. Below(k, by) = AllOf(entries)
  BY DEF Below
<1>. HIDE DEF sh, K
<1>5. \A c \in K : Does(d, h, sh, Entry(c))
  BY <1>1, <1>2, IsEmptyDone, DumpDone
<1>6. by # "isEmpty" =>
        \A c \in K : Reads(c, "real") \in ToSet(Entry(c)) /\ Descend(c, "dumpTree") \in ToSet(Entry(c))
  BY <1>1, <1>2, DumpParts
<1>. HIDE DEF Entry
<1>7. entries = [c \in K |-> entries[c]] /\ \A c \in K : entries[c] = Entry(c)
  OBVIOUS
<1>. HIDE DEF entries
<1>8. \A c \in K : Does(d, h, sh, entries[c])
  BY <1>5, <1>7
<1>9. /\ Does(d, h, sh, AllOf(entries))
      /\ \A c \in K : ToSet(entries[c]) \subseteq ToSet(AllOf(entries))
  BY <1>3, <1>7, <1>8, DoneForAll
<1>10. by # "isEmpty" =>
         \A c \in K : Reads(c, "real") \in ToSet(AllOf(entries)) /\ Descend(c, "dumpTree") \in ToSet(AllOf(entries))
  BY <1>6, <1>7, <1>9
<1>. QED  BY <1>4, <1>9, <1>10 DEF sh, K

-----------------------------------------------------------------------------
(***************************************************************************)
(* The inductive invariant: locks exclude each other, what is left of each *)
(* call can be done on the tree there is and ends without locks, and what  *)
(* a dump has not printed is still to come.                                *)
(***************************************************************************)
Typed ==
  /\ tree \in SoundTrees
  /\ held \in [Threads -> Seq(Locks)]
  /\ todo \in [Threads -> Seq(CallSteps)]
  /\ lines \in [Dumpers -> SUBSET (Seq(Key) \X Real)]

\* Nobody holds a lock that g holds exclusively, or exclusively one that g holds.
Excludes(g, h) ==
  \A k \in Seq(Key) : Holds(g, Exclusive(k)) => ~Holds(h, Exclusive(k)) /\ ~Holds(h, Shared(k))

Exclusion == \A t, u \in Threads : t # u => Excludes(held[t], held[u])

\* The handlers' call may change the tree; it ends without locks.
HandlerPlan(h, s, sh) ==
  \E new \in Shapes : Path(Moves, At(FALSE, h, sh), s, At(FALSE, <<>>, new))

\* A line is still to come: it is next for its item, or for one above it.
Due(k, s) ==
  \/ Reads(k, "real") \in ToSet(s)
  \/ \E q \in Seq(Key) : Descend(q, "dumpTree") \in ToSet(s) /\ Under(q, k) /\ q # k

\* A dump that has locked the root.
Dumping(h, s, ls, sh) ==
  /\ s # <<>> /\ Path(Moves, At(TRUE, h, sh), s, At(TRUE, <<>>, sh))
  /\ ls \subseteq {<<k, sh[k]>> : k \in DOMAIN sh}
  /\ \A k \in DOMAIN sh : <<k, sh[k]>> \in ls \/ Due(k, s)

DumpPlan(h, s, ls, sh) ==
  \/ s = <<>> /\ h = <<>>
  \/ s = DumpSteps(<<>>) /\ h = <<>> /\ ls = {}
  \/ Dumping(h, s, ls, sh)

Plan(t) ==
  IF t = Handler THEN HandlerPlan(held[t], todo[t], Shape(tree))
  ELSE DumpPlan(held[t], todo[t], lines[t], Shape(tree))

IInv == Typed /\ Exclusion /\ \A t \in Threads : Plan(t)

\* What the next step of a path needs, and where it leads.
LEMMA NextMove ==
  ASSUME NEW d \in BOOLEAN, NEW h \in Seq(Locks), NEW sh \in Shapes, NEW s \in Seq(CallSteps),
         s # <<>>, NEW z, Path(Moves, At(d, h, sh), s, z)
  PROVE  /\ Head(s) \in CallSteps /\ Tail(s) \in Seq(CallSteps) /\ Rooted(d, h)
         /\ Head(s).do \in {"shared", "exclusive"} =>
              /\ Head(s) \in Locks /\ (d => Head(s).do = "shared")
              /\ Path(Moves, At(d, Append(h, Head(s)), sh), Tail(s), z)
         /\ Head(s).do = "release" => h # <<>> /\ Path(Moves, At(d, Front(h), sh), Tail(s), z)
         /\ Head(s).do \in {"read", "descend"} =>
              /\ Head(s).key \in DOMAIN sh /\ (d => Holds(h, Shared(Head(s).key)))
              /\ Path(Moves, At(d, h, sh), Tail(s), z)
         /\ Head(s).do = "write" =>
              /\ ~d /\ Head(s) \in WriteSteps /\ Head(s).tree \in SoundTrees
              /\ Path(Moves, At(d, h, Shape(Head(s).tree)), Tail(s), z)
              /\ \/ Holds(h, Exclusive(<<>>))
                 \/ Holds(h, Exclusive(Head(s).key)) /\ Shape(Head(s).tree) = sh
<1>. DEFINE x == At(d, h, sh)
            a == Head(s)
            rest == Tail(s)
<1>1. a \in CallSteps /\ rest \in Seq(CallSteps)
  BY HeadAndTail
<1>2. PICK y : <<x, a, y>> \in Moves /\ Path(Moves, y, rest, z)
  BY PathNext
<1>3. x \in States /\ x.dumps = d /\ x.locks = h /\ x.shape = sh
  BY AtIs
<1>. HIDE DEF a, rest, x
<1>4. y \in States /\ Move(x, a, y)
  BY <1>2, MovesAre
<1>5. y = At(y.dumps, y.locks, y.shape) /\ y.dumps = d /\ Rooted(d, h)
  BY <1>3, <1>4, StateIs DEF Move
<1>6. CASE a.do \in {"shared", "exclusive"}
  <2>1. a \in Locks
    BY <1>1, <1>6 DEF CallSteps, Release, ReadSteps, DescendSteps, WriteSteps
  <2>2. y.locks = Append(h, a) /\ y.shape = sh /\ (d => a.do = "shared")
    BY <1>3, <1>4, <1>6 DEF Move
  <2>3. Path(Moves, At(d, Append(h, a), sh), rest, z)
    BY <1>2, <1>5, <2>2
  <2>. QED  BY <1>1, <1>5, <1>6, <2>1, <2>2, <2>3 DEF a, rest
<1>7. CASE a.do = "release"
  <2>1. h # <<>> /\ y.locks = Front(h) /\ y.shape = sh
    BY <1>3, <1>4, <1>7 DEF Move
  <2>2. Path(Moves, At(d, Front(h), sh), rest, z)
    BY <1>2, <1>5, <2>1
  <2>. QED  BY <1>1, <1>5, <1>7, <2>1, <2>2 DEF a, rest
<1>8. CASE a.do \in {"read", "descend"}
  <2>1. /\ a.key \in DOMAIN sh /\ (d => Holds(h, Shared(a.key)))
        /\ y.locks = h /\ y.shape = sh
    BY <1>3, <1>4, <1>8 DEF Move
  <2>2. Path(Moves, At(d, h, sh), rest, z)
    BY <1>2, <1>5, <2>1
  <2>. QED  BY <1>1, <1>5, <1>8, <2>1, <2>2 DEF a, rest
<1>9. CASE a.do = "write"
  <2>1. a \in WriteSteps /\ a.tree \in SoundTrees
    BY <1>1, <1>9 DEF CallSteps, Release, ReadSteps, DescendSteps, Locks, WriteSteps
  <2>2. /\ ~d /\ y.locks = h /\ y.shape = Shape(a.tree)
        /\ \/ Holds(h, Exclusive(<<>>))
           \/ Holds(h, Exclusive(a.key)) /\ y.shape = sh
    BY <1>3, <1>4, <1>9 DEF Move
  <2>3. Path(Moves, At(d, h, Shape(a.tree)), rest, z)
    BY <1>2, <1>5, <2>2
  <2>. QED  BY <1>1, <1>5, <1>9, <2>1, <2>2, <2>3 DEF a, rest
<1>10. a.do \in {"shared", "exclusive", "release", "read", "descend", "write"}
  BY <1>1 DEF CallSteps, Release, ReadSteps, DescendSteps, Locks, WriteSteps
<1>. QED  BY <1>6, <1>7, <1>8, <1>9, <1>10 DEF a

\* Locks with and without the last one.
LEMMA OneLess ==
  ASSUME NEW h \in Seq(Locks), h # <<>>
  PROVE  Front(h) \in Seq(Locks) /\ \A m : Holds(Front(h), m) => Holds(h, m)
<1>. DEFINE n == Len(h)
            f == Front(h)
<1>1. n \in Nat /\ n # 0 /\ DOMAIN h = 1..n
  BY ListOf, EmptySeq
<1>2. f = SubSeq(h, 1, n - 1)
  BY DEF Front
<1>3. \A i \in 1..n : h[i] \in Locks
  BY <1>1, ListOf
<1>. HIDE DEF n, f
<1>4. /\ f \in Seq(Locks) /\ Len(f) = n - 1
      /\ \A i \in 1..n - 1 : f[i] = h[i]
  <2>1. n - 1 \in Int /\ \A i \in 1..n - 1 : i \in 1..n
    BY <1>1
  <2>2. \A i \in 1..n - 1 : h[i] \in Locks
    BY <1>3, <2>1
  <2>3. /\ SubSeq(h, 1, n - 1) \in Seq(Locks)
        /\ Len(SubSeq(h, 1, n - 1)) = IF 1 <= n - 1 THEN n - 1 - 1 + 1 ELSE 0
        /\ \A i \in 1..n - 1 - 1 + 1 : SubSeq(h, 1, n - 1)[i] = h[1 + i - 1]
    BY <2>1, <2>2, SubSeqProperties
  <2>4. Len(f) = n - 1
    BY <1>1, <1>2, <2>3
  <2>5. \A i \in 1..n - 1 : f[i] = h[i]
    BY <1>1, <1>2, <2>3
  <2>. QED  BY <1>2, <2>3, <2>4, <2>5
<1>5. DOMAIN f = 1..n - 1
  BY <1>4, ListOf
<1>6. ASSUME NEW m, Holds(f, m)  PROVE Holds(h, m)
  <2>1. PICK i \in 1..n - 1 : f[i] = m
    BY <1>5, <1>6 DEF Holds
  <2>2. i \in 1..n /\ h[i] = m
    BY <1>1, <1>4, <2>1
  <2>. QED  BY <1>1, <2>2 DEF Holds
<1>. QED  BY <1>4, <1>6 DEF f

-----------------------------------------------------------------------------
(***************************************************************************)
(* Steps of a dump.                                                        *)
(***************************************************************************)
\* A dump that has begun holds the lock of the root.
LEMMA DumpingHolds ==
  ASSUME NEW h \in Seq(Locks), NEW s \in Seq(CallSteps), NEW sh \in Shapes, NEW ls,
         Dumping(h, s, ls, sh)
  PROVE  Holds(h, Shared(<<>>))
<1>. DEFINE root == Shared(<<>>)
            empty == <<>>
<1>1. s # <<>> /\ Path(Moves, At(TRUE, h, sh), s, At(TRUE, <<>>, sh))
  BY DEF Dumping
<1>2. Rooted(TRUE, h)
  BY <1>1, NextMove
<1>3. h # empty /\ h[1] = root
  BY <1>2 DEF Rooted
<1>. HIDE DEF root, empty
<1>4. 1 \in DOMAIN h
  BY <1>3, HeadAndTail DEF empty
<1>5. Holds(h, root)
  BY <1>3, <1>4 DEF Holds
<1>. QED  BY <1>5 DEF root

\* What a dump has left after a step, with the lines it has printed.
LEMMA DumpStep ==
  ASSUME NEW h \in Seq(Locks), NEW s \in Seq(CallSteps), NEW sh \in Shapes, NEW ls,
         Path(Moves, At(TRUE, h, sh), s, At(TRUE, <<>>, sh)),
         ls \subseteq {<<k, sh[k]>> : k \in DOMAIN sh},
         \A k \in DOMAIN sh : <<k, sh[k]>> \in ls \/ Due(k, s)
  PROVE  DumpPlan(h, s, ls, sh)
<1>1. CASE s # <<>>
  BY <1>1 DEF DumpPlan, Dumping
<1>2. CASE s = <<>>
  <2>. DEFINE empty == <<>>
              x == At(TRUE, h, sh)
              y == At(TRUE, empty, sh)
  <2>1. Path(Moves, x, empty, y)
    BY <1>2
  <2>2. x.locks = h /\ y.locks = empty
    BY DEF At
  <2>. HIDE DEF x, y
  <2>3. x = y
    BY <2>1, PathEmpty
  <2>4. h = empty
    BY <2>2, <2>3
  <2>. QED  BY <1>2, <2>4 DEF DumpPlan
<1>. QED  BY <1>1, <1>2

\* A line that the next step does not print is still to come after it.
LEMMA DueLater ==
  ASSUME NEW s \in Seq(CallSteps), s # <<>>, NEW k \in Seq(Key), Due(k, s),
         Head(s) # Reads(k, "real"), \A q \in Seq(Key) : Head(s) # Descend(q, "dumpTree")
  PROVE  Due(k, Tail(s))
<1>1. ToSet(s) = {Head(s)} \cup ToSet(Tail(s))
  BY HeadAndTail
<1>. QED  BY <1>1, Zenon DEF Due

\* Going on with the children brings every item below nearer.
LEMMA DueBelow ==
  ASSUME tree \in SoundTrees, NEW q \in Seq(Key), NEW k \in DOMAIN tree, Under(q, k), q # k,
         NEW s, ToSet(Below(q, "dumpTree")) \subseteq ToSet(s)
  PROVE  Due(k, s)
<1>. DEFINE n == Len(q) + 1
            c == SubSeq(k, 1, n)
<1>1. Sound(tree, Real) /\ k \in Seq(Key)
  BY SoundTreesAll DEF Sound, IsTree
<1>2. Len(q) \in Nat /\ Len(k) \in Nat /\ Len(q) =< Len(k) /\ \A i \in 1..Len(q) : k[i] = q[i]
  BY <1>1, LenProperties DEF Under
<1>3. Len(q) # Len(k)
  BY <1>1, <1>2, SeqEqual
<1>4. n \in 0..Len(k) /\ n \in Nat /\ n =< Len(k) /\ n # 0
  BY <1>2, <1>3
<1>5. c \in DOMAIN tree
  <2>. HIDE DEF n
  <2>. QED  BY <1>1, <1>4, PrefixesPresent
<1>6. c \in Seq(Key) /\ Len(c) = n /\ \A i \in 1..n : c[i] = k[i]
  <2>1. \A i \in 1..n : k[i] \in Key
    <3>1. \A i \in 1..n : i \in 1..Len(k)
      BY <1>2, <1>4
    <3>. QED  BY <1>1, <3>1, ListOf
  <2>2. n \in Int
    BY <1>4
  <2>. HIDE DEF n
  <2>3. /\ c \in Seq(Key)
        /\ Len(c) = IF 1 <= n THEN n - 1 + 1 ELSE 0
        /\ \A i \in 1..n - 1 + 1 : c[i] = k[1 + i - 1]
    BY <2>1, <2>2, SubSeqProperties
  <2>4. Len(c) = n
    BY <1>4, <2>3
  <2>5. \A i \in 1..n : c[i] = k[i]
    <3>1. n - 1 + 1 = n /\ \A i \in 1..n : 1 + i - 1 = i
      BY <1>4
    <3>. HIDE DEF c
    <3>. QED  BY <2>3, <3>1
  <2>. QED  BY <2>3, <2>4, <2>5
<1>. HIDE DEF c
<1>7. c # <<>>
  BY <1>4, <1>6, EmptyList
<1>8. Parent(c) = q
  <2>1. /\ Parent(c) \in Seq(Key) /\ Len(Parent(c)) = n - 1
        /\ \A i \in 1..n - 1 : Parent(c)[i] = c[i]
    BY <1>6, <1>7, ParentProperties
  <2>2. n - 1 = Len(q) /\ \A i \in 1..Len(q) : i \in 1..n
    BY <1>2
  <2>. HIDE DEF n
  <2>3. \A i \in 1..Len(q) : Parent(c)[i] = q[i]
    BY <1>2, <1>6, <2>1, <2>2
  <2>. QED  BY <2>1, <2>2, <2>3, SeqEqual
<1>9. c \in Children(tree, q)
  BY <1>5, <1>7, <1>8 DEF Children
<1>. DEFINE h == Append(<<>>, Shared(<<>>))
<1>10. h \in Seq(Locks) /\ Rooted(TRUE, h)
  BY EmptySeq, StepKinds, OneMore DEF Rooted
<1>. HIDE DEF h
<1>11. Reads(c, "real") \in ToSet(s) /\ Descend(c, "dumpTree") \in ToSet(s)
  BY <1>9, <1>10, BelowDone
<1>12. Under(c, k)
  BY <1>4, <1>6 DEF Under
<1>. QED  BY <1>6, <1>11, <1>12 DEF Due

\* A dump that has just locked the root has everything still to print.
LEMMA DumpBegins ==
  ASSUME NEW sh \in Shapes
  PROVE  Dumping(Append(<<>>, Shared(<<>>)), DumpRest(<<>>), {}, sh)
<1>. DEFINE empty == <<>>
            root == Shared(empty)
            h == Append(empty, root)
            s == DumpRest(empty)
<1>1. /\ empty \in Seq(Locks) /\ empty \in Seq(Key) /\ empty \in DOMAIN sh
      /\ DOMAIN sh \subseteq Seq(Key)
  BY EmptySeq, ShapeKeys
<1>2. Len(empty) = 0
  BY EmptyList
<1>3. root \in Locks
  BY <1>1, StepKinds
<1>4. h # empty /\ h[1] = root
  BY <1>1, <1>3, OneMore
<1>5. Rooted(TRUE, h)
  BY <1>4 DEF Rooted
<1>. HIDE DEF empty
<1>6. Path(Moves, At(TRUE, h, sh), s, At(TRUE, empty, sh))
  BY <1>1, <1>5, DumpGoesOn
<1>7. s \in Seq(CallSteps) /\ Reads(empty, "real") \in ToSet(s) /\ Descend(empty, "dumpTree") \in ToSet(s)
  BY <1>1, DumpParts
<1>. HIDE DEF s, h
<1>8. s # <<>>
  BY <1>7, EmptyList
<1>9. ASSUME NEW k \in DOMAIN sh  PROVE Due(k, s)
  <2>1. Under(empty, k)
    <3>1. Len(k) \in Nat
      BY <1>1, LenProperties
    <3>. QED  BY <1>2, <3>1 DEF Under
  <2>. QED  BY <1>1, <1>7, <2>1, Zenon DEF Due
<1>10. {} \subseteq {<<k, sh[k]>> : k \in DOMAIN sh}
  OBVIOUS
<1>11. Dumping(h, s, {}, sh)
  BY <1>6, <1>8, <1>9, <1>10 DEF Dumping, empty
<1>. QED  BY <1>11 DEF h, s, root, empty

-----------------------------------------------------------------------------
(***************************************************************************)
(* A step of one thread.                                                   *)
(***************************************************************************)
\* What a step of t has to keep: locks that exclude those of the others, and a
\* plan for t.  The plans of the others stand, because the shape of the tree
\* changes only under the exclusive lock of the root, and a dump that has begun
\* holds that lock shared.
LEMMA OnlyOne ==
  ASSUME IInv, NEW t \in Threads, tree' \in SoundTrees,
         NEW h \in Seq(Locks), held' = [held EXCEPT ![t] = h],
         NEW s \in Seq(CallSteps), todo' = [todo EXCEPT ![t] = s],
         lines' \in [Dumpers -> SUBSET (Seq(Key) \X Real)],
         \A u \in Dumpers \ {t} : lines'[u] = lines[u],
         \A u \in Threads \ {t} : Excludes(h, held[u]) /\ Excludes(held[u], h),
         Shape(tree') = Shape(tree) \/ (t = Handler /\ Holds(held[t], Exclusive(<<>>))),
         t = Handler => HandlerPlan(h, s, Shape(tree')),
         t # Handler => DumpPlan(h, s, lines'[t], Shape(tree'))
  PROVE  IInv'
<1>1. /\ held \in [Threads -> Seq(Locks)] /\ todo \in [Threads -> Seq(CallSteps)]
      /\ tree \in SoundTrees
  BY DEF IInv, Typed
<1>2. held'[t] = h /\ todo'[t] = s
  BY <1>1
<1>3. \A u \in Threads \ {t} : held'[u] = held[u] /\ todo'[u] = todo[u]
  BY <1>1
<1>4. Typed'
  <2>1. held' \in [Threads -> Seq(Locks)]
    BY <1>1
  <2>2. todo' \in [Threads -> Seq(CallSteps)]
    BY <1>1
  <2>. QED  BY <2>1, <2>2 DEF Typed
<1>5. ASSUME NEW a \in Threads, NEW b \in Threads, a # b
      PROVE  Excludes(held'[a], held'[b])
  <2>1. CASE a = t
    <3>1. Excludes(h, held[b]) /\ held'[b] = held[b]
      BY <1>3, <1>5, <2>1
    <3>. QED  BY <1>2, <2>1, <3>1
  <2>2. CASE b = t
    <3>1. Excludes(held[a], h) /\ held'[a] = held[a]
      BY <1>3, <1>5, <2>2
    <3>. QED  BY <1>2, <2>2, <3>1
  <2>3. CASE a # t /\ b # t
    <3>1. Excludes(held[a], held[b]) /\ held'[a] = held[a] /\ held'[b] = held[b]
      BY <1>3, <1>5, <2>3 DEF IInv, Exclusion
    <3>. QED  BY <3>1
  <2>. QED  BY <2>1, <2>2, <2>3
<1>6. Exclusion'
  <2>1. \A a, b \in Threads : a # b => Excludes(held'[a], held'[b])
    BY <1>5
  <2>. QED  BY <2>1 DEF Exclusion, Excludes, Holds
<1>7. ASSUME NEW u \in Threads
      PROVE  /\ u = Handler => HandlerPlan(held'[u], todo'[u], Shape(tree'))
             /\ u # Handler => DumpPlan(held'[u], todo'[u], lines'[u], Shape(tree'))
  <2>1. CASE u = t
    BY <1>2, <2>1
  <2>2. CASE u # t /\ u = Handler
    <3>1. HandlerPlan(held[u], todo[u], Shape(tree)) /\ Shape(tree') = Shape(tree)
      BY <2>2 DEF IInv, Plan
    <3>. QED  BY <1>3, <2>2, <3>1
  <2>3. CASE u # t /\ u # Handler
    <3>1. DumpPlan(held[u], todo[u], lines[u], Shape(tree))
      BY <2>3 DEF IInv, Plan
    <3>2. /\ held'[u] = held[u] /\ todo'[u] = todo[u] /\ lines'[u] = lines[u]
          /\ held[u] \in Seq(Locks) /\ todo[u] \in Seq(CallSteps)
      BY <1>1, <1>3, <2>3 DEF Threads
    <3>3. CASE Shape(tree') = Shape(tree)
      BY <2>3, <3>1, <3>2, <3>3
    <3>4. CASE t = Handler /\ Holds(held[t], Exclusive(<<>>))
      <4>1. <<>> \in Seq(Key)
        BY EmptySeq
      <4>2. Excludes(held[t], held[u])
        BY <2>3 DEF IInv, Exclusion
      <4>3. ~Holds(held[u], Shared(<<>>))
        BY <3>4, <4>1, <4>2 DEF Excludes
      <4>4. Shape(tree) \in Shapes
        BY <1>1, ShapeOf
      <4>5. ~Dumping(held[u], todo[u], lines[u], Shape(tree))
        BY <3>2, <4>3, <4>4, DumpingHolds
      <4>6. \/ todo[u] = <<>> /\ held[u] = <<>>
            \/ todo[u] = DumpSteps(<<>>) /\ held[u] = <<>> /\ lines[u] = {}
        BY <3>1, <4>5 DEF DumpPlan
      <4>. QED  BY <2>3, <3>2, <4>6 DEF DumpPlan
    <3>. QED  BY <3>3, <3>4
  <2>. QED  BY <2>1, <2>2, <2>3
<1>8. \A u \in Threads : Plan(u)'
  <2>1. ASSUME NEW u \in Threads  PROVE Plan(u)'
    <3>1. CASE u = Handler
      <4>1. HandlerPlan(held'[u], todo'[u], Shape(tree'))
        BY <1>7, <3>1
      <4>. QED  BY <3>1, <4>1 DEF Plan, HandlerPlan, At, Shape
    <3>2. CASE u # Handler
      <4>1. DumpPlan(held'[u], todo'[u], lines'[u], Shape(tree'))
        BY <1>7, <3>2
      <4>. QED  BY <3>2, <4>1 DEF Plan, DumpPlan, Dumping, At, Shape, Due
    <3>. QED  BY <3>1, <3>2
  <2>. QED  BY <2>1
<1>. QED  BY <1>4, <1>6, <1>8 DEF IInv

\* Going on with the children first, then with the rest.
LEMMA BelowPath ==
  ASSUME tree \in SoundTrees, NEW d \in BOOLEAN, NEW h \in Seq(Locks), Rooted(d, h), NEW k, NEW by,
         NEW u \in Seq(CallSteps), NEW z, Path(Moves, At(d, h, Shape(tree)), u, z)
  PROVE  /\ Below(k, by) \o u \in Seq(CallSteps)
         /\ Path(Moves, At(d, h, Shape(tree)), Below(k, by) \o u, z)
         /\ ToSet(Below(k, by) \o u) = ToSet(Below(k, by)) \cup ToSet(u)
<1>. DEFINE b == Below(k, by)
            x == At(d, h, Shape(tree))
<1>1. b \in Seq(CallSteps) /\ Path(Moves, x, b, x)
  BY BelowDone DEF Does
<1>. HIDE DEF b, x
<1>2. Path(Moves, x, u, z)
  BY DEF x
<1>3. b \o u \in Seq(CallSteps) /\ Path(Moves, x, b \o u, z)
  BY <1>1, <1>2, PathJoin
<1>4. ToSet(b \o u) = ToSet(b) \cup ToSet(u)
  BY <1>1, ConcatList
<1>. QED  BY <1>3, <1>4 DEF b, x

\* What the handlers' next step needs, and what it leaves to do.
LEMMA HandlerNext ==
  ASSUME tree \in SoundTrees, NEW h \in Seq(Locks), NEW s \in Seq(CallSteps), s # <<>>,
         HandlerPlan(h, s, Shape(tree))
  PROVE  LET a == Head(s)
             sh == Shape(tree)
         IN  /\ a.do \in {"shared", "exclusive"} => a \in Locks /\ HandlerPlan(Append(h, a), Tail(s), sh)
             /\ a.do = "release" => h # <<>> /\ HandlerPlan(Front(h), Tail(s), sh)
             /\ a.do \in {"read", "descend"} => a.key \in DOMAIN sh /\ HandlerPlan(h, Tail(s), sh)
             /\ a.do = "descend" =>
                  /\ Below(a.key, a.by) \o Tail(s) \in Seq(CallSteps)
                  /\ HandlerPlan(h, Below(a.key, a.by) \o Tail(s), sh)
             /\ a.do = "write" =>
                  /\ a \in WriteSteps /\ a.tree \in SoundTrees
                  /\ HandlerPlan(h, Tail(s), Shape(a.tree))
                  /\ \/ Holds(h, Exclusive(<<>>))
                     \/ Holds(h, Exclusive(a.key)) /\ Shape(a.tree) = sh
<1>. DEFINE a == Head(s)
            sh == Shape(tree)
            rest == Tail(s)
<1>1. sh \in Shapes
  BY ShapeOf
<1>2. PICK new \in Shapes : Path(Moves, At(FALSE, h, sh), s, At(FALSE, <<>>, new))
  BY DEF HandlerPlan
<1>. DEFINE z == At(FALSE, <<>>, new)
<1>3. Path(Moves, At(FALSE, h, sh), s, z)
  BY <1>2
<1>. HIDE DEF z, sh
<1>4. /\ a \in CallSteps /\ rest \in Seq(CallSteps) /\ Rooted(FALSE, h)
      /\ a.do \in {"shared", "exclusive"} => a \in Locks /\ Path(Moves, At(FALSE, Append(h, a), sh), rest, z)
      /\ a.do = "release" => h # <<>> /\ Path(Moves, At(FALSE, Front(h), sh), rest, z)
      /\ a.do \in {"read", "descend"} => a.key \in DOMAIN sh /\ Path(Moves, At(FALSE, h, sh), rest, z)
      /\ a.do = "write" =>
           /\ a \in WriteSteps /\ a.tree \in SoundTrees
           /\ Path(Moves, At(FALSE, h, Shape(a.tree)), rest, z)
           /\ \/ Holds(h, Exclusive(<<>>))
              \/ Holds(h, Exclusive(a.key)) /\ Shape(a.tree) = sh
  BY <1>1, <1>3, NextMove
<1>. HIDE DEF a, rest
<1>5. \A g, u, r : Path(Moves, At(FALSE, g, r), u, z) => HandlerPlan(g, u, r)
  BY <1>2, Zenon DEF HandlerPlan, z
<1>6. a.do = "descend" =>
        /\ Below(a.key, a.by) \o rest \in Seq(CallSteps)
        /\ Path(Moves, At(FALSE, h, sh), Below(a.key, a.by) \o rest, z)
  BY <1>4, BelowPath DEF sh
<1>7. /\ a.do \in {"shared", "exclusive"} => a \in Locks /\ HandlerPlan(Append(h, a), rest, sh)
      /\ a.do = "release" => h # <<>> /\ HandlerPlan(Front(h), rest, sh)
      /\ a.do \in {"read", "descend"} => a.key \in DOMAIN sh /\ HandlerPlan(h, rest, sh)
  BY <1>4, <1>5
<1>8. a.do = "descend" =>
        /\ Below(a.key, a.by) \o rest \in Seq(CallSteps)
        /\ HandlerPlan(h, Below(a.key, a.by) \o rest, sh)
  BY <1>5, <1>6
<1>9. a.do = "write" =>
        /\ a \in WriteSteps /\ a.tree \in SoundTrees
        /\ HandlerPlan(h, rest, Shape(a.tree))
        /\ \/ Holds(h, Exclusive(<<>>))
           \/ Holds(h, Exclusive(a.key)) /\ Shape(a.tree) = sh
  BY <1>4, <1>5
<1>. QED  BY <1>7, <1>8, <1>9 DEF a, rest, sh

\* The same of a dump: it holds what it reads, and the root.
LEMMA DumperNext ==
  ASSUME tree \in SoundTrees, NEW h \in Seq(Locks), NEW s \in Seq(CallSteps), s # <<>>, NEW ls,
         DumpPlan(h, s, ls, Shape(tree))
  PROVE  LET a == Head(s)
             sh == Shape(tree)
         IN  /\ a.do \in {"shared", "exclusive"} =>
                  a \in Locks /\ a.do = "shared" /\ DumpPlan(Append(h, a), Tail(s), ls, sh)
             /\ a.do = "release" => h # <<>> /\ DumpPlan(Front(h), Tail(s), ls, sh)
             /\ a.do \in {"read", "descend"} =>
                  a.key \in DOMAIN sh /\ Holds(h, Shared(a.key)) /\ Holds(h, Shared(<<>>))
             /\ a.do = "read" =>
                  DumpPlan(h, Tail(s), IF a.field = "real" THEN ls \cup {<<a.key, sh[a.key]>>} ELSE ls, sh)
             /\ a.do = "descend" =>
                  /\ Below(a.key, a.by) \o Tail(s) \in Seq(CallSteps)
                  /\ DumpPlan(h, Below(a.key, a.by) \o Tail(s), ls, sh)
             /\ a.do # "write"
<1>. DEFINE a == Head(s)
            sh == Shape(tree)
            rest == Tail(s)
            empty == <<>>
            z == At(TRUE, empty, sh)
<1>1. /\ sh \in Shapes /\ DOMAIN sh = DOMAIN tree /\ DOMAIN sh \subseteq Seq(Key)
      /\ empty \in Seq(Key) /\ empty \in Seq(Locks)
  BY ShapeOf, EmptySeq
<1>2. CASE s = DumpSteps(empty) /\ h = empty /\ ls = {}
  <2>1. a = Shared(empty) /\ rest = DumpRest(empty) /\ rest \in Seq(CallSteps)
    BY <1>1, <1>2, DumpParts
  <2>2. a \in Locks /\ a.do = "shared"
    BY <1>1, <2>1, StepKinds
  <2>. HIDE DEF a, rest, sh
  <2>3. Dumping(Append(h, a), rest, ls, sh)
    BY <1>1, <1>2, <2>1, DumpBegins DEF empty
  <2>4. DumpPlan(Append(h, a), rest, ls, sh)
    BY <2>3 DEF DumpPlan
  <2>. QED  BY <2>2, <2>4 DEF a, rest, sh
<1>3. CASE Dumping(h, s, ls, sh)
  <2>1. /\ Path(Moves, At(TRUE, h, sh), s, z)
        /\ ls \subseteq {<<k, sh[k]>> : k \in DOMAIN sh}
        /\ \A k \in DOMAIN sh : <<k, sh[k]>> \in ls \/ Due(k, s)
    BY <1>3 DEF Dumping
  <2>2. Holds(h, Shared(<<>>))
    BY <1>1, <1>3, DumpingHolds
  <2>. HIDE DEF z, sh
  <2>3. /\ a \in CallSteps /\ rest \in Seq(CallSteps) /\ Rooted(TRUE, h)
        /\ a.do \in {"shared", "exclusive"} =>
             a \in Locks /\ a.do = "shared" /\ Path(Moves, At(TRUE, Append(h, a), sh), rest, z)
        /\ a.do = "release" => h # <<>> /\ Path(Moves, At(TRUE, Front(h), sh), rest, z)
        /\ a.do \in {"read", "descend"} =>
             /\ a.key \in DOMAIN sh /\ Holds(h, Shared(a.key))
             /\ Path(Moves, At(TRUE, h, sh), rest, z)
        /\ a.do # "write"
    BY <1>1, <2>1, NextMove
  <2>4. ASSUME NEW k \in DOMAIN sh, a.do \notin {"read", "descend"}
        PROVE  <<k, sh[k]>> \in ls \/ Due(k, rest)
    <3>1. a # Reads(k, "real") /\ \A q \in Seq(Key) : a # Descend(q, "dumpTree")
      BY <2>4 DEF Reads, Descend
    <3>. HIDE DEF a
    <3>. QED  BY <1>1, <2>1, <3>1, DueLater DEF a
  <2>. HIDE DEF a, rest
  <2>5. ASSUME a.do \in {"shared", "exclusive"}
        PROVE  a \in Locks /\ a.do = "shared" /\ DumpPlan(Append(h, a), rest, ls, sh)
    <3>1. a \in Locks /\ a.do = "shared" /\ Path(Moves, At(TRUE, Append(h, a), sh), rest, z)
      BY <2>3, <2>5
    <3>2. Append(h, a) \in Seq(Locks) /\ a.do \notin {"read", "descend"}
      BY <3>1, OneMore
    <3>. QED  BY <1>1, <2>1, <2>3, <2>4, <3>1, <3>2, DumpStep DEF z
  <2>6. ASSUME a.do = "release"
        PROVE  h # <<>> /\ DumpPlan(Front(h), rest, ls, sh)
    <3>1. h # <<>> /\ Path(Moves, At(TRUE, Front(h), sh), rest, z)
      BY <2>3, <2>6
    <3>2. Front(h) \in Seq(Locks) /\ a.do \notin {"read", "descend"}
      BY <2>6, <3>1, OneLess
    <3>. QED  BY <1>1, <2>1, <2>3, <2>4, <3>1, <3>2, DumpStep DEF z
  <2>7. ASSUME a.do = "read"
        PROVE  DumpPlan(h, rest, IF a.field = "real" THEN ls \cup {<<a.key, sh[a.key]>>} ELSE ls, sh)
    <3>. DEFINE new == IF a.field = "real" THEN ls \cup {<<a.key, sh[a.key]>>} ELSE ls
    <3>1. a.key \in DOMAIN sh /\ Path(Moves, At(TRUE, h, sh), rest, z)
      BY <2>3, <2>7
    <3>2. new \subseteq {<<k, sh[k]>> : k \in DOMAIN sh}
      BY <2>1, <3>1
    <3>3. ASSUME NEW k \in DOMAIN sh  PROVE <<k, sh[k]>> \in new \/ Due(k, rest)
      <4>1. CASE a = Reads(k, "real")
        <5>1. a.field = "real" /\ a.key = k
          BY <4>1 DEF Reads
        <5>. QED  BY <5>1
      <4>2. CASE a # Reads(k, "real")
        <5>1. \A q \in Seq(Key) : a # Descend(q, "dumpTree")
          BY <2>7 DEF Descend
        <5>2. <<k, sh[k]>> \in ls \/ Due(k, rest)
          BY <1>1, <2>1, <4>2, <5>1, DueLater DEF a, rest
        <5>3. ls \subseteq new
          OBVIOUS
        <5>. QED  BY <5>2, <5>3
      <4>. QED  BY <4>1, <4>2
    <3>. HIDE DEF new
    <3>4. DumpPlan(h, rest, new, sh)
      BY <1>1, <2>3, <3>1, <3>2, <3>3, DumpStep DEF z
    <3>. QED  BY <3>4 DEF new
  <2>8. ASSUME a.do = "descend"
        PROVE  /\ Below(a.key, a.by) \o rest \in Seq(CallSteps)
               /\ DumpPlan(h, Below(a.key, a.by) \o rest, ls, sh)
    <3>. DEFINE u == Below(a.key, a.by) \o rest
    <3>1. a.key \in DOMAIN sh /\ Path(Moves, At(TRUE, h, sh), rest, z)
      BY <2>3, <2>8
    <3>2. /\ u \in Seq(CallSteps) /\ Path(Moves, At(TRUE, h, sh), u, z)
          /\ ToSet(u) = ToSet(Below(a.key, a.by)) \cup ToSet(rest)
      <4>. DEFINE d == TRUE
                  r == Shape(tree)
      <4>1. d \in BOOLEAN /\ rest \in Seq(CallSteps) /\ Rooted(d, h) /\ Path(Moves, At(d, h, r), rest, z)
        BY <2>3, <3>1 DEF sh
      <4>. HIDE DEF d
      <4>2. ASSUME NEW key, NEW by
            PROVE  /\ Below(key, by) \o rest \in Seq(CallSteps)
                   /\ Path(Moves, At(d, h, r), Below(key, by) \o rest, z)
                   /\ ToSet(Below(key, by) \o rest) = ToSet(Below(key, by)) \cup ToSet(rest)
        BY <4>1, BelowPath
      <4>3. /\ u \in Seq(CallSteps) /\ Path(Moves, At(d, h, r), u, z)
            /\ ToSet(u) = ToSet(Below(a.key, a.by)) \cup ToSet(rest)
        BY <4>2
      <4>. QED  BY <4>3 DEF d, sh
    <3>. HIDE DEF u
    <3>3. ASSUME NEW k \in DOMAIN sh  PROVE <<k, sh[k]>> \in ls \/ Due(k, u)
      <4>1. <<k, sh[k]>> \in ls \/ Due(k, s)
        BY <2>1
      <4>2. ToSet(s) = {a} \cup ToSet(rest)
        BY HeadAndTail DEF a, rest
      <4>3. ASSUME Reads(k, "real") \in ToSet(s)  PROVE Due(k, u)
        <5>1. a # Reads(k, "real")
          BY <2>8 DEF Reads
        <5>2. Reads(k, "real") \in ToSet(u)
          BY <3>2, <4>2, <4>3, <5>1
        <5>. QED  BY <5>2 DEF Due
      <4>4. ASSUME NEW q \in Seq(Key), Descend(q, "dumpTree") \in ToSet(s), Under(q, k), q # k
            PROVE  Due(k, u)
        <5>1. CASE a = Descend(q, "dumpTree")
          <6>1. a.key = q /\ a.by = "dumpTree"
            BY <5>1 DEF Descend
          <6>2. ToSet(Below(q, "dumpTree")) \subseteq ToSet(u)
            BY <3>2, <6>1
          <6>3. k \in DOMAIN tree
            BY <1>1
          <6>. QED  BY <4>4, <6>2, <6>3, DueBelow
        <5>2. CASE a # Descend(q, "dumpTree")
          <6>1. Descend(q, "dumpTree") \in ToSet(u)
            BY <3>2, <4>2, <4>4, <5>2
          <6>. QED  BY <4>4, <6>1, Zenon DEF Due
        <5>. QED  BY <5>1, <5>2
      <4>. QED  BY <4>1, <4>3, <4>4, Zenon DEF Due
    <3>4. DumpPlan(h, u, ls, sh)
      BY <1>1, <2>1, <3>2, <3>3, DumpStep DEF z
    <3>. QED  BY <3>2, <3>4 DEF u
  <2>9. a.do \in {"read", "descend"} =>
          a.key \in DOMAIN sh /\ Holds(h, Shared(a.key)) /\ Holds(h, Shared(<<>>))
    BY <2>2, <2>3
  <2>10. a.do # "write"
    BY <2>3
  <2>. QED  BY <2>5, <2>6, <2>7, <2>8, <2>9, <2>10 DEF a, rest, sh
<1>4. (s = DumpSteps(empty) /\ h = empty /\ ls = {}) \/ Dumping(h, s, ls, sh)
  BY DEF DumpPlan
<1>. QED  BY <1>2, <1>3, <1>4

-----------------------------------------------------------------------------
(***************************************************************************)
(* Each action keeps the invariant.                                        *)
(***************************************************************************)
\* What the invariant says of a thread and of two threads.
LEMMA OfThread ==
  ASSUME IInv, NEW t \in Threads
  PROVE  /\ tree \in SoundTrees /\ Shape(tree) \in Shapes /\ Sound(tree, Real)
         /\ DOMAIN Shape(tree) = DOMAIN tree
         /\ held[t] \in Seq(Locks) /\ todo[t] \in Seq(CallSteps)
         /\ lines \in [Dumpers -> SUBSET (Seq(Key) \X Real)]
         /\ t = Handler => HandlerPlan(held[t], todo[t], Shape(tree))
         /\ t # Handler => t \in Dumpers /\ DumpPlan(held[t], todo[t], lines[t], Shape(tree))
         /\ \A u \in Threads \ {t} : Excludes(held[t], held[u]) /\ Excludes(held[u], held[t])
<1>1. /\ tree \in SoundTrees /\ held[t] \in Seq(Locks) /\ todo[t] \in Seq(CallSteps)
      /\ lines \in [Dumpers -> SUBSET (Seq(Key) \X Real)]
  BY DEF IInv, Typed
<1>2. /\ t = Handler => HandlerPlan(held[t], todo[t], Shape(tree))
      /\ t # Handler => t \in Dumpers /\ DumpPlan(held[t], todo[t], lines[t], Shape(tree))
  BY DEF IInv, Plan, Threads
<1>3. \A u \in Threads \ {t} : Excludes(held[t], held[u]) /\ Excludes(held[u], held[t])
  BY DEF IInv, Exclusion
<1>4. Shape(tree) \in Shapes /\ DOMAIN Shape(tree) = DOMAIN tree /\ Sound(tree, Real)
  BY <1>1, ShapeOf, SoundTreesAll
<1>. QED  BY <1>1, <1>2, <1>3, <1>4

\* A step that takes and gives back nothing, and writes nothing.
LEMMA SameLocks ==
  ASSUME IInv, NEW t \in Threads, UNCHANGED <<tree, held>>,
         NEW s \in Seq(CallSteps), todo' = [todo EXCEPT ![t] = s],
         lines' \in [Dumpers -> SUBSET (Seq(Key) \X Real)],
         \A u \in Dumpers \ {t} : lines'[u] = lines[u],
         t = Handler => HandlerPlan(held[t], s, Shape(tree)),
         t # Handler => DumpPlan(held[t], s, lines'[t], Shape(tree))
  PROVE  IInv'
<1>1. /\ tree \in SoundTrees /\ held[t] \in Seq(Locks)
      /\ \A u \in Threads \ {t} : Excludes(held[t], held[u]) /\ Excludes(held[u], held[t])
  BY OfThread
<1>2. held' = [held EXCEPT ![t] = held[t]]
  BY DEF IInv, Typed
<1>3. tree' \in SoundTrees /\ Shape(tree') = Shape(tree)
  BY <1>1
<1>4. /\ t = Handler => HandlerPlan(held[t], s, Shape(tree'))
      /\ t # Handler => DumpPlan(held[t], s, lines'[t], Shape(tree'))
  BY <1>3
<1>. QED  BY <1>1, <1>2, <1>3, <1>4, OnlyOne

\* A call of the handlers begins.
LEMMA CallKeeps ==
  ASSUME IInv, NEW p \in Paths, Call(p)
  PROVE  IInv'
<1>. DEFINE t == Handler
            empty == <<>>
<1>1. t \in Threads
  BY DEF Threads
<1>2. PICK s \in Calls(p) : todo[t] = empty /\ todo' = [todo EXCEPT ![t] = s]
  BY DEF Call, Begins
<1>3. UNCHANGED <<tree, held, lines>>
  BY DEF Call
<1>4. /\ tree \in SoundTrees /\ lines \in [Dumpers -> SUBSET (Seq(Key) \X Real)]
      /\ HandlerPlan(held[t], todo[t], Shape(tree))
  BY <1>1, OfThread
<1>5. PICK new \in Shapes : Leads(empty, Shape(tree), s, new)
  BY <1>4, CallsLead
<1>6. held[t] = empty
  <2>1. PICK old \in Shapes : Path(Moves, At(FALSE, held[t], Shape(tree)), todo[t], At(FALSE, empty, old))
    BY <1>4 DEF HandlerPlan
  <2>. DEFINE x == At(FALSE, held[t], Shape(tree))
              y == At(FALSE, empty, old)
  <2>2. x.locks = held[t] /\ y.locks = empty
    BY DEF At
  <2>3. Path(Moves, x, empty, y)
    BY <1>2, <2>1
  <2>. HIDE DEF x, y
  <2>4. x = y
    BY <2>3, PathEmpty
  <2>. QED  BY <2>2, <2>4
<1>7. s \in Seq(CallSteps) /\ HandlerPlan(held[t], s, Shape(tree))
  BY <1>5, <1>6 DEF Leads, HandlerPlan
<1>8. lines' \in [Dumpers -> SUBSET (Seq(Key) \X Real)] /\ \A u \in Dumpers \ {t} : lines'[u] = lines[u]
  BY <1>3, <1>4
<1>. QED  BY <1>1, <1>2, <1>3, <1>7, <1>8, SameLocks

\* A dump begins.
LEMMA DumpKeeps ==
  ASSUME IInv, NEW t \in Dumpers, Dump(t)
  PROVE  IInv'
<1>. DEFINE empty == <<>>
            s == DumpSteps(empty)
<1>1. t \in Threads /\ t # Handler
  BY TreeLocksAssumption DEF Threads
<1>2. /\ todo[t] = empty /\ todo' = [todo EXCEPT ![t] = s] /\ lines' = [lines EXCEPT ![t] = {}]
      /\ UNCHANGED <<tree, held>>
  BY DEF Dump, Begins
<1>3. /\ held[t] \in Seq(Locks) /\ Shape(tree) \in Shapes
      /\ lines \in [Dumpers -> SUBSET (Seq(Key) \X Real)]
      /\ DumpPlan(held[t], todo[t], lines[t], Shape(tree))
  BY <1>1, OfThread
<1>4. s \in Seq(CallSteps) /\ s # empty
  BY EmptySeq, DumpParts
<1>5. held[t] = empty
  BY <1>2, <1>3, <1>4 DEF DumpPlan, Dumping
<1>6. /\ lines' \in [Dumpers -> SUBSET (Seq(Key) \X Real)] /\ lines'[t] = {}
      /\ \A u \in Dumpers \ {t} : lines'[u] = lines[u]
  BY <1>2, <1>3
<1>7. DumpPlan(held[t], s, lines'[t], Shape(tree))
  BY <1>5, <1>6 DEF DumpPlan
<1>. QED  BY <1>1, <1>2, <1>4, <1>6, <1>7, SameLocks

\* A lock is taken: nobody else holds it so that the two exclude each other.
LEMMA TakeKeeps ==
  ASSUME IInv, NEW t \in Threads, TakeShared(t) \/ TakeExclusive(t)
  PROVE  IInv'
<1>. DEFINE a == Head(todo[t])
            h == Append(held[t], a)
            s == Tail(todo[t])
<1>1. /\ todo[t] # <<>> /\ a.do \in {"shared", "exclusive"}
      /\ held' = [held EXCEPT ![t] = h] /\ todo' = [todo EXCEPT ![t] = s]
      /\ UNCHANGED <<tree, lines>>
  BY DEF TakeShared, TakeExclusive, IsNext
<1>2. /\ Holders("exclusive", a.key) = {}
      /\ a.do = "exclusive" => Holders("shared", a.key) = {}
  BY <1>1 DEF TakeShared, TakeExclusive, IsNext
<1>3. /\ tree \in SoundTrees /\ held[t] \in Seq(Locks) /\ todo[t] \in Seq(CallSteps)
      /\ lines \in [Dumpers -> SUBSET (Seq(Key) \X Real)]
      /\ t = Handler => HandlerPlan(held[t], todo[t], Shape(tree))
      /\ t # Handler => DumpPlan(held[t], todo[t], lines[t], Shape(tree))
      /\ \A u \in Threads \ {t} : Excludes(held[t], held[u]) /\ Excludes(held[u], held[t])
  BY OfThread
<1>4. s \in Seq(CallSteps)
  BY <1>1, <1>3, HeadAndTail
<1>5. /\ a \in Locks
      /\ t = Handler => HandlerPlan(h, s, Shape(tree))
      /\ t # Handler => DumpPlan(h, s, lines[t], Shape(tree))
  <2>1. CASE t = Handler
    BY <1>1, <1>3, <2>1, HandlerNext
  <2>2. CASE t # Handler
    BY <1>1, <1>3, <2>2, DumperNext
  <2>. QED  BY <2>1, <2>2
<1>6. /\ h \in Seq(Locks)
      /\ \A m : Holds(h, m) => m = a \/ Holds(held[t], m)
  BY <1>3, <1>5, OneMore
<1>7. ASSUME NEW u \in Threads \ {t}
      PROVE  Excludes(h, held[u]) /\ Excludes(held[u], h)
  <2>1. /\ Excludes(held[t], held[u]) /\ Excludes(held[u], held[t])
    BY <1>3
  <2>2. ~Holds(held[u], Exclusive(a.key)) /\ (a.do = "exclusive" => ~Holds(held[u], Shared(a.key)))
    BY <1>2 DEF Holders, HasLock, Holds, Exclusive, Shared
  <2>3. ASSUME NEW k \in Seq(Key), Holds(h, Exclusive(k))
        PROVE  ~Holds(held[u], Exclusive(k)) /\ ~Holds(held[u], Shared(k))
    <3>1. CASE a = Exclusive(k)
      <4>1. a.do = "exclusive" /\ a.key = k
        BY <3>1 DEF Exclusive
      <4>. QED  BY <2>2, <4>1
    <3>2. CASE Holds(held[t], Exclusive(k))
      BY <2>1, <3>2 DEF Excludes
    <3>. HIDE DEF h, a
    <3>. QED  BY <1>6, <2>3, <3>1, <3>2
  <2>4. ASSUME NEW k \in Seq(Key), Holds(held[u], Exclusive(k))
        PROVE  ~Holds(h, Exclusive(k)) /\ ~Holds(h, Shared(k))
    <3>1. a.key # k
      BY <2>2, <2>4
    <3>2. a # Exclusive(k) /\ a # Shared(k)
      BY <3>1 DEF Exclusive, Shared
    <3>3. ~Holds(held[t], Exclusive(k)) /\ ~Holds(held[t], Shared(k))
      BY <2>1, <2>4 DEF Excludes
    <3>. HIDE DEF h, a
    <3>. QED  BY <1>6, <3>2, <3>3
  <2>. HIDE DEF h
  <2>. QED  BY <2>3, <2>4 DEF Excludes
<1>. HIDE DEF h, s
<1>8. /\ tree' \in SoundTrees /\ Shape(tree') = Shape(tree)
      /\ lines' \in [Dumpers -> SUBSET (Seq(Key) \X Real)]
      /\ \A u \in Dumpers \ {t} : lines'[u] = lines[u]
      /\ t = Handler => HandlerPlan(h, s, Shape(tree'))
      /\ t # Handler => DumpPlan(h, s, lines'[t], Shape(tree'))
  BY <1>1, <1>3, <1>5
<1>. QED  BY <1>1, <1>4, <1>6, <1>7, <1>8, OnlyOne

\* A lock is given back.
LEMMA GiveBackKeeps ==
  ASSUME IInv, NEW t \in Threads, GiveBack(t)
  PROVE  IInv'
<1>. DEFINE a == Head(todo[t])
            h == Front(held[t])
            s == Tail(todo[t])
<1>1. /\ todo[t] # <<>> /\ a.do = "release"
      /\ held' = [held EXCEPT ![t] = h] /\ todo' = [todo EXCEPT ![t] = s]
      /\ UNCHANGED <<tree, lines>>
  BY DEF GiveBack, IsNext
<1>2. /\ tree \in SoundTrees /\ held[t] \in Seq(Locks) /\ todo[t] \in Seq(CallSteps)
      /\ lines \in [Dumpers -> SUBSET (Seq(Key) \X Real)]
      /\ t = Handler => HandlerPlan(held[t], todo[t], Shape(tree))
      /\ t # Handler => DumpPlan(held[t], todo[t], lines[t], Shape(tree))
      /\ \A u \in Threads \ {t} : Excludes(held[t], held[u]) /\ Excludes(held[u], held[t])
  BY OfThread
<1>3. s \in Seq(CallSteps)
  BY <1>1, <1>2, HeadAndTail
<1>4. /\ held[t] # <<>>
      /\ t = Handler => HandlerPlan(h, s, Shape(tree))
      /\ t # Handler => DumpPlan(h, s, lines[t], Shape(tree))
  <2>1. CASE t = Handler
    BY <1>1, <1>2, <2>1, HandlerNext
  <2>2. CASE t # Handler
    BY <1>1, <1>2, <2>2, DumperNext
  <2>. QED  BY <2>1, <2>2
<1>5. h \in Seq(Locks) /\ \A m : Holds(h, m) => Holds(held[t], m)
  BY <1>2, <1>4, OneLess
<1>. HIDE DEF h, s
<1>6. \A u \in Threads \ {t} : Excludes(h, held[u]) /\ Excludes(held[u], h)
  BY <1>2, <1>5 DEF Excludes
<1>7. /\ tree' \in SoundTrees /\ Shape(tree') = Shape(tree)
      /\ lines' \in [Dumpers -> SUBSET (Seq(Key) \X Real)]
      /\ \A u \in Dumpers \ {t} : lines'[u] = lines[u]
      /\ t = Handler => HandlerPlan(h, s, Shape(tree'))
      /\ t # Handler => DumpPlan(h, s, lines'[t], Shape(tree'))
  BY <1>1, <1>2, <1>4
<1>. QED  BY <1>1, <1>3, <1>5, <1>6, <1>7, OnlyOne

\* A field is read; a dump prints the real path.
LEMMA ReadKeeps ==
  ASSUME IInv, NEW t \in Threads, Read(t)
  PROVE  IInv'
<1>. DEFINE a == Head(todo[t])
            s == Tail(todo[t])
            printed == <<a.key, tree[a.key].real>>
<1>1. /\ todo[t] # <<>> /\ a.do = "read"
      /\ todo' = [todo EXCEPT ![t] = s] /\ UNCHANGED <<tree, held>>
      /\ lines' = IF t # Handler /\ a.field = "real" THEN [lines EXCEPT ![t] = @ \cup {printed}] ELSE lines
  BY DEF Read, IsNext
<1>2. /\ tree \in SoundTrees /\ held[t] \in Seq(Locks) /\ todo[t] \in Seq(CallSteps)
      /\ DOMAIN Shape(tree) = DOMAIN tree
      /\ lines \in [Dumpers -> SUBSET (Seq(Key) \X Real)]
      /\ t = Handler => HandlerPlan(held[t], todo[t], Shape(tree))
      /\ t # Handler => t \in Dumpers /\ DumpPlan(held[t], todo[t], lines[t], Shape(tree))
  BY OfThread
<1>3. s \in Seq(CallSteps)
  BY <1>1, <1>2, HeadAndTail
<1>4. CASE t = Handler
  <2>1. HandlerPlan(held[t], s, Shape(tree))
    BY <1>1, <1>2, <1>4, HandlerNext
  <2>2. lines' = lines
    BY <1>1, <1>4
  <2>. HIDE DEF s
  <2>. QED  BY <1>1, <1>2, <1>3, <1>4, <2>1, <2>2, SameLocks
<1>5. CASE t # Handler
  <2>. DEFINE ls == IF a.field = "real" THEN lines[t] \cup {<<a.key, Shape(tree)[a.key]>>} ELSE lines[t]
  <2>1. a.key \in DOMAIN tree /\ DumpPlan(held[t], s, ls, Shape(tree))
    BY <1>1, <1>2, <1>5, DumperNext
  <2>2. printed = <<a.key, Shape(tree)[a.key]>> /\ printed \in Seq(Key) \X Real
    <3>1. Shape(tree)[a.key] = tree[a.key].real /\ tree[a.key].real \in Real /\ a.key \in Seq(Key)
      BY <1>2, <2>1, ShapeOf
    <3>. QED  BY <3>1
  <2>. HIDE DEF printed
  <2>3. /\ lines' \in [Dumpers -> SUBSET (Seq(Key) \X Real)]
        /\ \A u \in Dumpers \ {t} : lines'[u] = lines[u]
    <3>1. CASE a.field = "real"
      <4>1. lines' = [lines EXCEPT ![t] = @ \cup {printed}]
        BY <1>1, <1>5, <3>1
      <4>2. lines[t] \cup {printed} \in SUBSET (Seq(Key) \X Real)
        BY <1>2, <1>5, <2>2
      <4>. QED  BY <1>2, <1>5, <4>1, <4>2
    <3>2. CASE a.field # "real"
      BY <1>1, <1>2, <3>2
    <3>. QED  BY <3>1, <3>2
  <2>4. lines'[t] = ls
    BY <1>1, <1>2, <1>5, <2>2
  <2>5. DumpPlan(held[t], s, lines'[t], Shape(tree))
    BY <2>1, <2>4
  <2>. HIDE DEF s
  <2>. QED  BY <1>1, <1>3, <1>5, <2>3, <2>5, SameLocks
<1>. QED  BY <1>4, <1>5

\* The handlers write.
LEMMA WriteKeeps ==
  ASSUME IInv, NEW t \in Threads, Write(t)
  PROVE  IInv'
<1>. DEFINE a == Head(todo[t])
            s == Tail(todo[t])
<1>1. /\ todo[t] # <<>> /\ a.do = "write"
      /\ todo' = [todo EXCEPT ![t] = s] /\ UNCHANGED <<held, lines>>
      /\ tree' = a.tree
  BY DEF Write, IsNext
<1>2. /\ tree \in SoundTrees /\ held[t] \in Seq(Locks) /\ todo[t] \in Seq(CallSteps)
      /\ lines \in [Dumpers -> SUBSET (Seq(Key) \X Real)]
      /\ t = Handler => HandlerPlan(held[t], todo[t], Shape(tree))
      /\ t # Handler => t \in Dumpers /\ DumpPlan(held[t], todo[t], lines[t], Shape(tree))
      /\ \A u \in Threads \ {t} : Excludes(held[t], held[u]) /\ Excludes(held[u], held[t])
  BY OfThread
<1>3. s \in Seq(CallSteps)
  BY <1>1, <1>2, HeadAndTail
<1>4. t = Handler
  BY <1>1, <1>2, DumperNext
<1>5. /\ tree' \in SoundTrees /\ HandlerPlan(held[t], s, Shape(tree'))
      /\ Holds(held[t], Exclusive(<<>>)) \/ Shape(tree') = Shape(tree)
  BY <1>1, <1>2, <1>4, HandlerNext
<1>6. held' = [held EXCEPT ![t] = held[t]]
  BY <1>1 DEF IInv, Typed
<1>7. /\ lines' \in [Dumpers -> SUBSET (Seq(Key) \X Real)]
      /\ \A u \in Dumpers \ {t} : lines'[u] = lines[u]
  BY <1>1, <1>2
<1>. HIDE DEF s
<1>. QED  BY <1>1, <1>2, <1>3, <1>4, <1>5, <1>6, <1>7, OnlyOne

\* A thread goes on with the children.
LEMMA GoDownKeeps ==
  ASSUME IInv, NEW t \in Threads, GoDown(t)
  PROVE  IInv'
<1>. DEFINE a == Head(todo[t])
            s == Below(a.key, a.by) \o Tail(todo[t])
<1>1. /\ todo[t] # <<>> /\ a.do = "descend"
      /\ todo' = [todo EXCEPT ![t] = s] /\ UNCHANGED <<tree, held, lines>>
  <2>1. todo' = [todo EXCEPT ![t] = Below(a.key, a.by) \o Tail(todo[t])]
    BY DEF IInv, Typed, GoDown, Below
  <2>. QED  BY <2>1 DEF GoDown, IsNext
<1>2. /\ tree \in SoundTrees /\ held[t] \in Seq(Locks) /\ todo[t] \in Seq(CallSteps)
      /\ lines \in [Dumpers -> SUBSET (Seq(Key) \X Real)]
      /\ t = Handler => HandlerPlan(held[t], todo[t], Shape(tree))
      /\ t # Handler => t \in Dumpers /\ DumpPlan(held[t], todo[t], lines[t], Shape(tree))
  BY OfThread
<1>3. /\ s \in Seq(CallSteps)
      /\ t = Handler => HandlerPlan(held[t], s, Shape(tree))
      /\ t # Handler => DumpPlan(held[t], s, lines[t], Shape(tree))
  <2>1. CASE t = Handler
    BY <1>1, <1>2, <2>1, HandlerNext
  <2>2. CASE t # Handler
    BY <1>1, <1>2, <2>2, DumperNext
  <2>. QED  BY <2>1, <2>2
<1>4. /\ lines' \in [Dumpers -> SUBSET (Seq(Key) \X Real)]
      /\ \A u \in Dumpers \ {t} : lines'[u] = lines[u]
      /\ t # Handler => DumpPlan(held[t], s, lines'[t], Shape(tree))
  BY <1>1, <1>2, <1>3
<1>. HIDE DEF s
<1>. QED  BY <1>1, <1>3, <1>4, SameLocks

-----------------------------------------------------------------------------
(***************************************************************************)
(* The theorems.                                                           *)
(***************************************************************************)
\* At the start nobody calls and nobody holds a lock.
LEMMA InitHolds == Init => IInv
<1>. SUFFICES ASSUME Init  PROVE IInv
  OBVIOUS
<1>. DEFINE empty == <<>>
<1>1. tree = InitTree /\ tree \in SoundTrees
  BY TreeLocksAssumption, SoundTreesAll DEF Init, Sound
<1>2. Shape(tree) \in Shapes
  BY <1>1, ShapeOf
<1>3. empty \in Seq(Locks) /\ empty \in Seq(CallSteps) /\ DOMAIN empty = {}
  BY EmptySeq, EmptyList
<1>4. /\ held = [t \in Threads |-> empty] /\ todo = [t \in Threads |-> empty]
      /\ lines = [t \in Dumpers |-> {}]
  BY DEF Init
<1>5. Path(Moves, At(FALSE, empty, Shape(tree)), empty, At(FALSE, empty, Shape(tree)))
  BY PathEmpty
<1>. HIDE DEF empty
<1>6. Typed
  BY <1>1, <1>3, <1>4 DEF Typed
<1>7. Exclusion
  BY <1>3, <1>4 DEF Exclusion, Excludes, Holds
<1>8. ASSUME NEW t \in Threads  PROVE Plan(t)
  <2>1. held[t] = empty /\ todo[t] = empty
    BY <1>4
  <2>2. HandlerPlan(empty, empty, Shape(tree))
    BY <1>2, <1>5 DEF HandlerPlan, empty
  <2>3. \A ls : DumpPlan(empty, empty, ls, Shape(tree))
    BY DEF DumpPlan, empty
  <2>. QED  BY <2>1, <2>2, <2>3 DEF Plan
<1>. QED  BY <1>6, <1>7, <1>8 DEF IInv

\* Every step keeps the invariant.
LEMMA NextKeeps == IInv /\ [Next]_vars => IInv'
<1>. SUFFICES ASSUME IInv, [Next]_vars  PROVE IInv'
  OBVIOUS
<1>1. ASSUME NEW p \in Paths, Call(p)  PROVE IInv'
  BY <1>1, CallKeeps
<1>2. ASSUME NEW t \in Dumpers, Dump(t)  PROVE IInv'
  BY <1>2, DumpKeeps
<1>3. ASSUME NEW t \in Threads, Step(t)  PROVE IInv'
  <2>1. CASE TakeShared(t) \/ TakeExclusive(t)
    BY <2>1, TakeKeeps
  <2>2. CASE GiveBack(t)
    BY <2>2, GiveBackKeeps
  <2>3. CASE Read(t)
    BY <2>3, ReadKeeps
  <2>4. CASE Write(t)
    BY <2>4, WriteKeeps
  <2>5. CASE GoDown(t)
    BY <2>5, GoDownKeeps
  <2>. QED  BY <1>3, <2>1, <2>2, <2>3, <2>4, <2>5 DEF Step
<1>4. CASE UNCHANGED vars
  <2>1. /\ tree' = tree /\ held' = held /\ todo' = todo /\ lines' = lines
    BY <1>4 DEF vars
  <2>2. Typed' /\ Exclusion'
    BY <2>1 DEF IInv, Typed, Exclusion
  <2>3. \A t \in Threads : Plan(t)'
    BY <2>1 DEF IInv, Plan
  <2>. QED  BY <2>2, <2>3 DEF IInv
<1>. QED  BY <1>1, <1>2, <1>3, <1>4 DEF Next

\* What the next step of a thread finds: the lock it gives back, the item it
\* reads; only the handlers write, under the lock of the root or of the item.
LEMMA StepFinds ==
  ASSUME IInv, NEW t \in Threads
  PROVE  /\ todo[t] = <<>> => held[t] = <<>>
         /\ IsNext(t, "release") => held[t] # <<>>
         /\ IsNext(t, "read") \/ IsNext(t, "descend") =>
              /\ Head(todo[t]).key \in DOMAIN tree
              /\ t # Handler => /\ Holds(held[t], Shared(Head(todo[t]).key))
                                /\ Holds(held[t], Shared(<<>>))
         /\ IsNext(t, "write") =>
              /\ t = Handler /\ Head(todo[t]).key \in Seq(Key)
              /\ \/ Holds(held[t], Exclusive(<<>>))
                 \/ Holds(held[t], Exclusive(Head(todo[t]).key))
<1>1. /\ tree \in SoundTrees /\ held[t] \in Seq(Locks) /\ todo[t] \in Seq(CallSteps)
      /\ DOMAIN Shape(tree) = DOMAIN tree /\ Shape(tree) \in Shapes
      /\ t = Handler => HandlerPlan(held[t], todo[t], Shape(tree))
      /\ t # Handler => DumpPlan(held[t], todo[t], lines[t], Shape(tree))
  BY OfThread
<1>2. ASSUME todo[t] = <<>>  PROVE held[t] = <<>>
  <2>1. CASE t = Handler
    <3>. DEFINE empty == <<>>
    <3>1. PICK new \in Shapes : Path(Moves, At(FALSE, held[t], Shape(tree)), todo[t], At(FALSE, empty, new))
      BY <1>1, <2>1 DEF HandlerPlan
    <3>. DEFINE x == At(FALSE, held[t], Shape(tree))
                y == At(FALSE, empty, new)
    <3>2. x.locks = held[t] /\ y.locks = empty
      BY DEF At
    <3>3. Path(Moves, x, empty, y)
      BY <1>2, <3>1
    <3>. HIDE DEF x, y
    <3>4. x = y
      BY <3>3, PathEmpty
    <3>. QED  BY <3>2, <3>4
  <2>2. CASE t # Handler
    <3>1. <<>> \in Seq(Key)
      BY EmptySeq
    <3>2. DumpSteps(<<>>) # <<>>
      BY <3>1, DumpParts
    <3>. QED  BY <1>1, <1>2, <2>2, <3>2 DEF DumpPlan, Dumping
  <2>. QED  BY <2>1, <2>2
<1>3. ASSUME todo[t] # <<>>, t = Handler
      PROVE  LET a == Head(todo[t])
             IN  /\ a.do = "release" => held[t] # <<>>
                 /\ a.do \in {"read", "descend"} => a.key \in DOMAIN tree
                 /\ a.do = "write" =>
                      /\ a \in WriteSteps
                      /\ Holds(held[t], Exclusive(<<>>)) \/ Holds(held[t], Exclusive(a.key))
  BY <1>1, <1>3, HandlerNext
<1>4. ASSUME todo[t] # <<>>, t # Handler
      PROVE  LET a == Head(todo[t])
             IN  /\ a.do = "release" => held[t] # <<>>
                 /\ a.do \in {"read", "descend"} =>
                      a.key \in DOMAIN tree /\ Holds(held[t], Shared(a.key)) /\ Holds(held[t], Shared(<<>>))
                 /\ a.do # "write"
  BY <1>1, <1>4, DumperNext
<1>. QED  BY <1>2, <1>3, <1>4 DEF IsNext, WriteSteps

\* TypeOK, and that it follows from the invariant: no thread comes to an item
\* that is gone, or gives back a lock it does not hold.
LEMMA TypedFinds == IInv => TypeOK
<1>. SUFFICES ASSUME IInv  PROVE TypeOK
  OBVIOUS
<1>1. tree \in SoundTrees /\ held \in [Threads -> Seq(Locks)] /\ lines \in [Dumpers -> SUBSET (Seq(Key) \X Real)]
  BY DEF IInv, Typed
<1>2. IsTree(tree, Real) /\ PrefixClosed(tree) /\ NamedByKey(tree)
  BY <1>1, SoundTreesAll DEF Sound
<1>3. \A t \in Threads : held[t] \in Seq([do : {"shared", "exclusive"}, key : Seq(Key)])
  BY <1>1 DEF Locks
<1>4. \A t \in Threads :
        /\ todo[t] = <<>> => held[t] = <<>>
        /\ IsNext(t, "release") => held[t] # <<>>
        /\ IsNext(t, "read") \/ IsNext(t, "descend") => Head(todo[t]).key \in DOMAIN tree
  BY StepFinds
<1>5. \A t \in Dumpers : lines[t] \subseteq Seq(Key) \X Real
  BY <1>1
<1>. QED  BY <1>2, <1>3, <1>4, <1>5 DEF TypeOK

\* Who writes excludes who reads: the writer holds the root or the item
\* exclusively, a dump that reads holds both shared.
LEMMA WritersExclude == IInv => NoDataRaces
<1>. SUFFICES ASSUME IInv, NEW t \in Threads, NEW u \in Threads, t # u,
                     IsNext(t, "write"), Accesses(u), SameField(Head(todo[t]), Head(todo[u]))
              PROVE  FALSE
  BY DEF NoDataRaces
<1>. DEFINE k == Head(todo[t]).key
<1>1. /\ t = Handler /\ k \in Seq(Key)
      /\ Holds(held[t], Exclusive(<<>>)) \/ Holds(held[t], Exclusive(k))
  BY StepFinds
<1>2. u # Handler
  BY <1>1
<1>3. ~IsNext(u, "write")
  BY <1>2, StepFinds
<1>4. IsNext(u, "read") \/ IsNext(u, "descend")
  BY <1>3 DEF Accesses
<1>5. Holds(held[u], Shared(Head(todo[u]).key)) /\ Holds(held[u], Shared(<<>>))
  BY <1>2, <1>4, StepFinds
<1>6. Head(todo[u]).key = k
  BY DEF SameField
<1>7. Excludes(held[t], held[u])
  BY DEF IInv, Exclusion
<1>8. <<>> \in Seq(Key)
  BY EmptySeq
<1>. QED  BY <1>1, <1>5, <1>6, <1>7, <1>8 DEF Excludes

\* When nothing is left to print, everything is printed.
LEMMA AllPrinted == IInv => DumpIsSnapshot
<1>. SUFFICES ASSUME IInv, NEW t \in Dumpers, todo[t] = <<Release>>
              PROVE  lines[t] = {<<k, tree[k].real>> : k \in DOMAIN tree}
  BY DEF DumpIsSnapshot
<1>. DEFINE s == <<Release>>
            sh == Shape(tree)
<1>1. t \in Threads /\ t # Handler
  BY TreeLocksAssumption DEF Threads
<1>2. /\ tree \in SoundTrees /\ DOMAIN sh = DOMAIN tree
      /\ DumpPlan(held[t], s, lines[t], sh)
  BY <1>1, OfThread
<1>3. s \in Seq(CallSteps) /\ s # <<>> /\ Head(s) = Release /\ ToSet(s) = {Release}
  <2>. DEFINE r == Release
              u == <<r>>
  <2>1. r \in CallSteps
    BY StepKinds
  <2>2. Len(u) = 1 /\ u[1] = r /\ DOMAIN u = {1} /\ Head(u) = r
    OBVIOUS
  <2>3. u \in Seq(CallSteps)
    BY <2>1
  <2>. HIDE DEF u, r
  <2>4. u # <<>>
    BY <2>2, EmptyList
  <2>5. ToSet(u) = {r}
    BY <2>2 DEF ToSet
  <2>. QED  BY <2>2, <2>3, <2>4, <2>5 DEF u, r
<1>4. Release.do = "release"
  BY StepKinds
<1>. HIDE DEF s, sh
<1>5. s # DumpSteps(<<>>)
  <2>1. <<>> \in Seq(Key)
    BY EmptySeq
  <2>2. Head(DumpSteps(<<>>)) = Shared(<<>>) /\ Shared(<<>>).do = "shared"
    BY <2>1, DumpParts, StepKinds
  <2>. QED  BY <1>3, <1>4, <2>2
<1>6. /\ lines[t] \subseteq {<<k, sh[k]>> : k \in DOMAIN sh}
      /\ \A k \in DOMAIN sh : <<k, sh[k]>> \in lines[t] \/ Due(k, s)
  BY <1>2, <1>3, <1>5 DEF DumpPlan, Dumping
<1>7. \A k : ~Due(k, s)
  BY <1>3, <1>4 DEF Due, Reads, Descend
<1>8. \A k \in DOMAIN tree : sh[k] = tree[k].real
  BY <1>2, ShapeOf DEF sh
<1>. QED  BY <1>2, <1>6, <1>7, <1>8

\* The locks and calls keep their form, and no thread comes to an item that is
\* gone or gives back a lock it does not hold: find(), add(), erase() and
\* dumpTree() never meet an item another thread has taken away.
THEOREM TypeCorrect == Spec => []TypeOK
<1>1. Init => IInv
  BY InitHolds
<1>2. IInv /\ [Next]_vars => IInv'
  BY NextKeeps
<1>3. IInv => TypeOK
  BY TypedFinds
<1>. QED  BY <1>1, <1>2, <1>3, PTL DEF Spec

\* No two threads come to one field of one item together, one of them to write
\* it, although find(), add() and erase() walk over items they have not locked.
THEOREM NoDataRacesAlways == Spec => []NoDataRaces
<1>1. Init => IInv
  BY InitHolds
<1>2. IInv /\ [Next]_vars => IInv'
  BY NextKeeps
<1>3. IInv => NoDataRaces
  BY WritersExclude
<1>. QED  BY <1>1, <1>2, <1>3, PTL DEF Spec

\* usvfsCreateVFSDump() prints one picture of the tree, whatever the handlers
\* do meanwhile.
THEOREM DumpIsSnapshotAlways == Spec => []DumpIsSnapshot
<1>1. Init => IInv
  BY InitHolds
<1>2. IInv /\ [Next]_vars => IInv'
  BY NextKeeps
<1>3. IInv => DumpIsSnapshot
  BY AllPrinted
<1>. QED  BY <1>1, <1>2, <1>3, PTL DEF Spec
=============================================================================
