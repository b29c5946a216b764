----------------------------- MODULE LinkingProofs -----------------------------
(***************************************************************************)
(* Proofs about Linking, for every disk that is finite, any number of      *)
(* links, mounts and descriptors, and any order a directory is read in:    *)
(* what the map of a mount holds is open and leads to the directory it is  *)
(* kept for.                                                               *)
(***************************************************************************)
EXTENDS Linking, FileTreeProofs, FiniteSetTheorems

-----------------------------------------------------------------------------
(***************************************************************************)
(* The sets the proofs reason about.                                       *)
(***************************************************************************)
Reals == DOMAIN Disk \cup Files
Trees == {t \in UNION {[K -> Item(Reals)] : K \in SUBSET Seq(Key)} : Sound(t, Reals)}
Keys == {RealKey(r) : r \in DOMAIN Disk}
Maps == UNION {[K -> 1..MaxFds] : K \in SUBSET Keys}
Tables == [1..MaxFds -> {Closed} \cup {r \in DOMAIN Disk : IsDir(r)}]
MountStates == [mp : MountPoints, tree : Trees, fdMap : Maps]

\* Every sound tree is in the set of trees.
LEMMA TreesAll ==
  ASSUME NEW t, Sound(t, Reals)
  PROVE  t \in Trees
<1>1. t \in [DOMAIN t -> Item(Reals)] /\ DOMAIN t \in SUBSET Seq(Key)
  BY DEF Sound, IsTree
<1>. QED  BY <1>1 DEF Trees

\* A directory on disk is not the mark of a number that is free.
LEMMA DirsAreThere ==
  ASSUME NEW r, IsDir(r)
  PROVE  r \in DOMAIN Disk /\ r # Closed /\ RealKey(r) \in Keys
BY LinkingAssumption DEF IsDir, IsReal, Closed, Keys

\* A map with nothing in it.
LEMMA EmptyMap == <<>> \in Maps /\ DOMAIN <<>> = {}
<1>1. <<>> \in [{} -> 1..MaxFds]
  OBVIOUS
<1>. QED  BY <1>1 DEF Maps

\* A map with one more entry.
LEMMA PutMap ==
  ASSUME NEW m \in Maps, NEW r, RealKey(r) \in Keys, NEW fd \in 1..MaxFds
  PROVE  /\ Put(m, r, fd) \in Maps
         /\ DOMAIN Put(m, r, fd) = DOMAIN m \cup {RealKey(r)}
         /\ \A q \in DOMAIN m : q # RealKey(r) => Put(m, r, fd)[q] = m[q]
         /\ Put(m, r, fd)[RealKey(r)] = fd
<1>1. PICK K \in SUBSET Keys : m \in [K -> 1..MaxFds]
  BY DEF Maps
<1>. DEFINE k == RealKey(r)
            u == Put(m, r, fd)
<1>2. u = [q \in DOMAIN m \cup {k} |-> IF q = k THEN fd ELSE m[q]]
  BY DEF Put
<1>. HIDE DEF u, k
<1>3. u \in [K \cup {k} -> 1..MaxFds]
  BY <1>1, <1>2
<1>4. K \cup {k} \in SUBSET Keys
  BY DEF k
<1>5. u \in Maps
  BY <1>3, <1>4 DEF Maps
<1>6. /\ DOMAIN u = DOMAIN m \cup {k}
      /\ \A q \in DOMAIN m : q # k => u[q] = m[q]
      /\ u[k] = fd
  BY <1>2
<1>. QED  BY <1>5, <1>6 DEF u, k

-----------------------------------------------------------------------------
(***************************************************************************)
(* Walks.                                                                  *)
(***************************************************************************)
\* What a walk that began with the map b has done to the table and the map:
\* it has opened numbers that were free, each for the entry that is kept.
OpenedSince(table, map, b) ==
  /\ table \in Tables /\ map \in Maps
  /\ \A fd \in DOMAIN open : open[fd] # Closed => table[fd] = open[fd]
  /\ \A q \in DOMAIN map :
       \/ q \in DOMAIN b /\ map[q] = b[q]
       \/ /\ open[map[q]] = Closed
          /\ table[map[q]] # Closed /\ RealKey(table[map[q]]) = q

\* A walk, whatever its tree is.
OpensFrom(w, b) ==
  /\ w = [tree |-> w.tree, fdMap |-> w.fdMap, open |-> w.open, err |-> w.err]
  /\ OpenedSince(w.open, w.fdMap, b)
  /\ w.err \in {"ok", "ENOENT", "EMFILE", "EINVAL", "EEXIST"}

\* A walk, and the tree it has filled if nothing has failed.
WalkFrom(w, b) == OpensFrom(w, b) /\ (w.err = "ok" => w.tree \in Trees)

\* What open() answers.
LEMMA FreeInLowest ==
  ASSUME NEW table \in Tables, FreeIn(table) # {}
  PROVE  LET fd == CHOOSE fd \in FreeIn(table) : \A g \in FreeIn(table) : fd =< g
         IN  fd \in 1..MaxFds /\ table[fd] = Closed
<1>. DEFINE T == FreeIn(table)
<1>1. T \in SUBSET Nat /\ \A fd \in T : fd \in 1..MaxFds /\ table[fd] = Closed
  BY LinkingAssumption DEF FreeIn, Tables
<1>. HIDE DEF T
<1>2. \E n \in T : \A m \in T : n =< m
  BY <1>1, Smallest DEF T
<1>3. (CHOOSE fd \in T : \A g \in T : fd =< g) \in T
  BY <1>2
<1>. QED  BY <1>1, <1>3 DEF T

\* Opening a directory.
LEMMA OpenedKeepsWalk ==
  ASSUME NEW b, NEW w, OpensFrom(w, b), NEW r, open \in Tables
  PROVE  /\ OpensFrom(Opened(w, r), b)
         /\ Opened(w, r).tree = w.tree
         /\ Opened(w, r).err = "ok" => IsDir(r) /\ w.err = "ok"
<1>. DEFINE fd == CHOOSE fd \in FreeIn(w.open) : \A g \in FreeIn(w.open) : fd =< g
            v == Opened(w, r)
            map == Put(w.fdMap, r, fd)
            table == [w.open EXCEPT ![fd] = r]
<1>1. w.open \in Tables /\ w.fdMap \in Maps
  BY DEF OpensFrom, OpenedSince
<1>2. CASE ~IsDir(r)
  <2>1. v = [w EXCEPT !.err = "ENOENT"]
    BY <1>2 DEF Opened
  <2>2. v = [tree |-> w.tree, fdMap |-> w.fdMap, open |-> w.open, err |-> "ENOENT"]
    BY <2>1 DEF OpensFrom
  <2>. HIDE DEF v
  <2>3. /\ v = [tree |-> v.tree, fdMap |-> v.fdMap, open |-> v.open, err |-> v.err]
        /\ v.tree = w.tree /\ v.fdMap = w.fdMap /\ v.open = w.open
        /\ v.err \in {"ENOENT", "EMFILE"}
    BY <2>2
  <2>. QED  BY <2>3 DEF OpensFrom, v
<1>3. CASE IsDir(r) /\ FreeIn(w.open) = {}
  <2>1. v = [w EXCEPT !.err = "EMFILE"]
    BY <1>3 DEF Opened
  <2>2. v = [tree |-> w.tree, fdMap |-> w.fdMap, open |-> w.open, err |-> "EMFILE"]
    BY <2>1 DEF OpensFrom
  <2>. HIDE DEF v
  <2>3. /\ v = [tree |-> v.tree, fdMap |-> v.fdMap, open |-> v.open, err |-> v.err]
        /\ v.tree = w.tree /\ v.fdMap = w.fdMap /\ v.open = w.open
        /\ v.err \in {"ENOENT", "EMFILE"}
    BY <2>2
  <2>. QED  BY <2>3 DEF OpensFrom, v
<1>4. CASE IsDir(r) /\ FreeIn(w.open) # {}
  <2>1. fd \in 1..MaxFds /\ w.open[fd] = Closed
    BY <1>1, <1>4, FreeInLowest
  <2>2. v = [w EXCEPT !.open[fd] = r, !.fdMap = Put(@, r, fd)]
    BY <1>4 DEF Opened
  <2>. HIDE DEF fd
  <2>3. v = [tree |-> w.tree, fdMap |-> map, open |-> table, err |-> w.err]
    BY <2>2 DEF OpensFrom
  <2>4. r \in DOMAIN Disk /\ r # Closed /\ RealKey(r) \in Keys
    BY <1>4, DirsAreThere
  <2>5. /\ table \in Tables /\ table[fd] = r
        /\ \A g \in 1..MaxFds : g # fd => table[g] = w.open[g]
    BY <1>1, <1>4, <2>1, <2>4 DEF Tables
  <2>6. /\ map \in Maps
        /\ DOMAIN map = DOMAIN w.fdMap \cup {RealKey(r)}
        /\ \A q \in DOMAIN w.fdMap : q # RealKey(r) => map[q] = w.fdMap[q]
        /\ map[RealKey(r)] = fd
    <3>. DEFINE m == w.fdMap
    <3>1. m \in Maps
      BY <1>1
    <3>. HIDE DEF m
    <3>2. /\ Put(m, r, fd) \in Maps
          /\ DOMAIN Put(m, r, fd) = DOMAIN m \cup {RealKey(r)}
          /\ \A q \in DOMAIN m : q # RealKey(r) => Put(m, r, fd)[q] = m[q]
          /\ Put(m, r, fd)[RealKey(r)] = fd
      BY <2>1, <2>4, <3>1, PutMap
    <3>. QED  BY <3>2 DEF m
  <2>. HIDE DEF v, map, table
  <2>7. open \in [1..MaxFds -> {Closed} \cup {s \in DOMAIN Disk : IsDir(s)}]
    BY DEF Tables
  <2>8. \A g \in DOMAIN open : open[g] # Closed => table[g] = open[g]
    BY <2>1, <2>5, <2>7 DEF OpensFrom, OpenedSince
  <2>9. ASSUME NEW q \in DOMAIN map
        PROVE  \/ q \in DOMAIN b /\ map[q] = b[q]
               \/ /\ open[map[q]] = Closed
                  /\ table[map[q]] # Closed /\ RealKey(table[map[q]]) = q
    <3>1. CASE q = RealKey(r)
      <4>1. open[fd] = Closed
        BY <2>1, <2>7 DEF OpensFrom, OpenedSince
      <4>. QED  BY <3>1, <4>1, <2>4, <2>5, <2>6
    <3>2. CASE q # RealKey(r)
      <4>1. q \in DOMAIN w.fdMap /\ map[q] = w.fdMap[q]
        BY <2>6, <3>2
      <4>2. CASE q \in DOMAIN b /\ w.fdMap[q] = b[q]
        BY <4>1, <4>2
      <4>3. CASE /\ open[w.fdMap[q]] = Closed
                 /\ w.open[w.fdMap[q]] # Closed /\ RealKey(w.open[w.fdMap[q]]) = q
        <5>1. w.fdMap[q] \in 1..MaxFds
          BY <1>1, <4>1 DEF Maps
        <5>2. table[w.fdMap[q]] = w.open[w.fdMap[q]]
          BY <2>1, <2>5, <4>3, <5>1
        <5>. QED  BY <4>1, <4>3, <5>2
      <4>. QED  BY <4>1, <4>2, <4>3 DEF OpensFrom, OpenedSince
    <3>. QED  BY <3>1, <3>2
  <2>10. OpenedSince(table, map, b)
    BY <2>5, <2>6, <2>8, <2>9 DEF OpenedSince
  <2>11. /\ v = [tree |-> v.tree, fdMap |-> v.fdMap, open |-> v.open, err |-> v.err]
         /\ v.tree = w.tree /\ v.fdMap = map /\ v.open = table /\ v.err = w.err
    BY <2>3
  <2>12. OpensFrom(v, b)
    BY <2>10, <2>11 DEF OpensFrom
  <2>. QED  BY <1>4, <2>11, <2>12 DEF v
<1>. QED  BY <1>2, <1>3, <1>4


\* Opening a directory in the course of a walk.
LEMMA OpenedGood ==
  ASSUME NEW b, NEW w, WalkFrom(w, b), NEW r, open \in Tables
  PROVE  /\ WalkFrom(Opened(w, r), b)
         /\ Opened(w, r).tree = w.tree
         /\ Opened(w, r).err = "ok" => IsDir(r)
BY OpenedKeepsWalk DEF WalkFrom

\* What lies below a directory goes by names in its tree.
LEMMA RelativeNames ==
  ASSUME NEW top, IsDir(top), NEW r \in DOMAIN Disk, Under(top, r)
  PROVE  Relative(top, r) \in Seq(Name)
<1>. DEFINE n == Len(top)
            m == Len(r)
            p == SubSeq(r, n + 1, m)
<1>1. IsReal(top) /\ IsReal(r)
  BY LinkingAssumption DEF IsDir
<1>2. n \in Nat \ {0}
  <2>1. top \in Seq(Name \cup {top[1]}) /\ top # <<>>
    BY <1>1 DEF IsReal
  <2>. QED  BY <2>1, EmptySeq, LenProperties
<1>3. m \in Nat /\ n =< m /\ \A i \in 2..m : r[i] \in Name
  <2>1. r \in Seq(Name \cup {r[1]}) /\ \A i \in 2..Len(r) : r[i] \in Name
    BY <1>1 DEF IsReal
  <2>. QED  BY <2>1, LenProperties DEF Under
<1>4. p = [i \in 1..m - n |-> r[i + n]]
  <2>1. SubSeq(r, n + 1, m) = [i \in 1..(m - (n + 1) + 1) |-> r[i + (n + 1) - 1]]
    BY <1>2, <1>3
  <2>2. m - (n + 1) + 1 = m - n
    BY <1>2, <1>3
  <2>3. \A i \in 1..m - n : i + (n + 1) - 1 = i + n
    BY <1>2, <1>3
  <2>. HIDE DEF n, m
  <2>. QED  BY <2>1, <2>2, <2>3
<1>. HIDE DEF n, m, p
<1>5. \A i \in 1..m - n : r[i + n] \in Name
  BY <1>2, <1>3
<1>6. m - n \in Nat
  BY <1>2, <1>3
<1>7. p \in Seq(Name)
  BY <1>4, <1>5, <1>6, IsASeq
<1>. QED  BY <1>7 DEF Relative, p, n, m

\* An entry that is walked to.
LEMMA EnteredGood ==
  ASSUME NEW b, NEW w, WalkFrom(w, b), w.err = "ok", open \in Tables,
         NEW top, IsDir(top), NEW r \in Entries(top)
  PROVE  WalkFrom(Entered(w, top, r), b) /\ Entered(w, top, r).tree \in Trees
<1>. DEFINE x == Resolved(r)
            p == Relative(top, x)
            t == Added(w.tree, p, r, Disk[r])
            v == [w EXCEPT !.tree = t]
            u == Entered(w, top, r)
<1>1. r \in DOMAIN Disk /\ x \in DOMAIN Disk
  BY LinkingAssumption DEF Entries, Resolved
<1>2. CASE EnterError(w, top, r) # "ok"
  <2>. DEFINE e == EnterError(w, top, r)
  <2>1. u = [w EXCEPT !.err = e]
    BY <1>2 DEF Entered
  <2>. HIDE DEF e
  <2>2. u = [tree |-> w.tree, fdMap |-> w.fdMap, open |-> w.open, err |-> e]
    BY <2>1 DEF WalkFrom, OpensFrom
  <2>. HIDE DEF u
  <2>3. /\ u = [tree |-> u.tree, fdMap |-> u.fdMap, open |-> u.open, err |-> u.err]
        /\ u.tree = w.tree /\ u.fdMap = w.fdMap /\ u.open = w.open /\ u.err = e
    BY <2>2
  <2>4. e \in {"ENOENT", "EINVAL", "EEXIST"}
    BY <1>2 DEF e, EnterError, AddError
  <2>. QED  BY <2>3, <2>4 DEF WalkFrom, OpensFrom, u
<1>3. CASE EnterError(w, top, r) = "ok"
  <2>1. Under(top, x) /\ AddError(w.tree, p, FALSE) = "ok"
    BY <1>3 DEF EnterError
  <2>2. p \in Seq(Name)
    BY <1>1, <2>1, RelativeNames
  <2>3. Sound(w.tree, Reals)
    BY DEF WalkFrom, OpensFrom, Trees
  <2>4. r \in Reals /\ Disk[r] \in Type
    BY <1>1, LinkingAssumption DEF Reals, Type
  <2>. HIDE DEF x, p
  <2>5. t \in Trees
    BY <2>1, <2>2, <2>3, <2>4, AddedSound, TreesAll
  <2>. HIDE DEF t
  <2>6. v = [tree |-> t, fdMap |-> w.fdMap, open |-> w.open, err |-> w.err]
    BY DEF WalkFrom, OpensFrom
  <2>7. u = IF IsDir(r) THEN Opened(v, r) ELSE v
    BY <1>3, Zenon DEF Entered, u, v, t, p, x
  <2>. HIDE DEF v
  <2>8. /\ v = [tree |-> v.tree, fdMap |-> v.fdMap, open |-> v.open, err |-> v.err]
        /\ v.tree = t /\ v.fdMap = w.fdMap /\ v.open = w.open /\ v.err = w.err
    BY <2>6
  <2>9. WalkFrom(v, b)
    BY <2>5, <2>8 DEF WalkFrom, OpensFrom
  <2>. HIDE DEF u
  <2>10. WalkFrom(u, b) /\ u.tree \in Trees
    BY <2>5, <2>7, <2>8, <2>9, OpenedGood
  <2>. QED  BY <2>10 DEF u
<1>. QED  BY <1>2, <1>3


\* A walk over entries in any order.
LEMMA WalkedOnGood ==
  ASSUME NEW b, NEW w, WalkFrom(w, b), open \in Tables,
         NEW top, w.err = "ok" => IsDir(top),
         NEW order \in Seq(Entries(top)), NEW left
  PROVE  WalkFrom(WalkedOn(w, top, order, left), b)
<1>. DEFINE n == Len(order)
            Step(v, i) == IF v.err # "ok" \/ order[i] \in left THEN v ELSE Entered(v, top, order[i])
            Errs == {"ok", "ENOENT", "EMFILE", "EINVAL", "EEXIST"}
            D == {v \in [tree : Trees \cup {w.tree}, fdMap : Maps, open : Tables, err : Errs] :
                    WalkFrom(v, b) /\ (v.err = "ok" => IsDir(top))}
            Asks(e) ==
              e = [i \in 0..Len(order) |->
                     IF i = 0 THEN w
                     ELSE IF e[i - 1].err # "ok" \/ order[i] \in left THEN e[i - 1]
                     ELSE Entered(e[i - 1], top, order[i])]
            walk == CHOOSE e : Asks(e)
<1>1. n \in Nat /\ \A i \in 1..n : order[i] \in Entries(top)
  BY LenProperties, ListOf
<1>2. ASSUME NEW v, WalkFrom(v, b), v.tree \in Trees \cup {w.tree}, v.err = "ok" => IsDir(top)
      PROVE  v \in D
  <2>1. v.fdMap \in Maps /\ v.open \in Tables /\ v.err \in Errs
    BY <1>2 DEF WalkFrom, OpensFrom, OpenedSince
  <2>2. v = [tree |-> v.tree, fdMap |-> v.fdMap, open |-> v.open, err |-> v.err]
    BY <1>2 DEF WalkFrom, OpensFrom
  <2>. HIDE DEF Errs
  <2>3. v \in [tree : Trees \cup {w.tree}, fdMap : Maps, open : Tables, err : Errs]
    BY <1>2, <2>1, <2>2
  <2>. QED  BY <1>2, <2>3
<1>3. w \in D
  BY <1>2
<1>4. ASSUME NEW i \in 1..n, NEW v \in D
      PROVE  Step(v, i) \in D
  <2>1. WalkFrom(v, b) /\ v.tree \in Trees \cup {w.tree} /\ (v.err = "ok" => IsDir(top))
    OBVIOUS
  <2>2. CASE v.err # "ok" \/ order[i] \in left
    BY <2>2
  <2>3. CASE v.err = "ok" /\ order[i] \notin left
    <3>. DEFINE u == Entered(v, top, order[i])
    <3>1. WalkFrom(u, b) /\ u.tree \in Trees
      BY <1>1, <2>1, <2>3, EnteredGood
    <3>2. Step(v, i) = u
      BY <2>3
    <3>. HIDE DEF u, Step
    <3>3. IsDir(top)
      BY <2>1, <2>3
    <3>. QED  BY <1>2, <3>1, <3>2, <3>3
  <2>. QED  BY <2>2, <2>3
<1>. HIDE DEF D, Step
<1>5. PICK f \in [0..n -> D] : \A i \in 0..n : f[i] = IF i = 0 THEN w ELSE Step(f[i - 1], i)
  <2>. DEFINE H == [x \in (0..n) \X D |-> IF x[1] \in 1..n THEN Step(x[2], x[1]) ELSE x[2]]
  <2>1. H \in [(0..n) \X D -> D]
    BY <1>4
  <2>2. PICK f \in [0..n -> D] : ByRecursion(f, 0, n, w, H)
    <3>. HIDE DEF H, n
    <3>. QED  BY <1>1, <1>3, <2>1, Recursion
  <2>3. ASSUME NEW i \in 0..n
        PROVE  f[i] = IF i = 0 THEN w ELSE Step(f[i - 1], i)
    <3>1. CASE i = 0
      BY <2>2, <3>1 DEF ByRecursion
    <3>2. CASE i # 0
      <4>1. i - 1 \in 0..n /\ i \in 1..n
        BY <1>1, <3>2
      <4>2. <<i, f[i - 1]>> \in (0..n) \X D
        BY <2>2, <4>1
      <4>3. H[<<i, f[i - 1]>>] = Step(f[i - 1], i)
        BY <4>1, <4>2
      <4>. HIDE DEF H
      <4>. QED  BY <2>2, <3>2, <4>3 DEF ByRecursion
    <3>. QED  BY <3>1, <3>2
  <2>. QED  BY <2>3
<1>6. Asks(f)
  <2>1. f = [i \in 0..n |-> IF i = 0 THEN w ELSE Step(f[i - 1], i)]
    BY <1>5
  <2>. QED  BY <2>1 DEF Step
<1>7. Asks(walk)
  <2>. HIDE DEF Asks
  <2>. QED  BY <1>6
<1>8. WalkedOn(w, top, order, left) = walk[n]
  BY DEF WalkedOn
<1>9. \A i \in 0..n : walk[i] = IF i = 0 THEN w ELSE Step(walk[i - 1], i)
  <2>. HIDE DEF walk
  <2>. QED  BY <1>7 DEF Step
<1>. HIDE DEF walk, Asks
<1>. DEFINE H == {i \in Nat : walk[i] \in D}
<1>10. 0 \in H
  BY <1>1, <1>3, <1>9
<1>11. ASSUME NEW i \in 0..n, i # 0, i - 1 \in H
       PROVE  i \in H
  <2>1. i \in 1..n /\ i \in Nat
    BY <1>1, <1>11
  <2>2. Step(walk[i - 1], i) \in D
    BY <1>4, <1>11, <2>1
  <2>. QED  BY <1>9, <1>11, <2>1, <2>2
<1>. HIDE DEF H
<1>12. 0..n \subseteq H
  <2>. HIDE DEF n
  <2>. QED  BY <1>1, <1>10, <1>11, Induction
<1>13. walk[n] \in D
  BY <1>1, <1>12 DEF H
<1>. QED  BY <1>8, <1>13 DEF D


\* Each order a directory may be read in is a list of its entries.
LEMMA WalksAreLists ==
  ASSUME NEW top \in Sources \cup MountPoints, NEW order \in Walks[top]
  PROVE  order \in Seq(Entries(top))
<1>1. IsFiniteSet(Entries(top))
  <2>1. Entries(top) \subseteq DOMAIN Disk
    BY DEF Entries
  <2>. QED  BY <2>1, LinkingAssumption, FS_Subset
<1>2. Cardinality(Entries(top)) \in Nat
  BY <1>1, FS_CardinalityType
<1>3. order \in SetToSeqs(Entries(top))
  BY DEF Walks
<1>4. order \in [1..Cardinality(Entries(top)) -> Entries(top)]
  BY <1>3 DEF SetToSeqs
<1>. QED  BY <1>2, <1>4, SeqDef

\* A walk that begins at a root that is open, or could not be opened.
LEMMA RootOpenedGood ==
  ASSUME NEW b, open \in Tables, NEW w, NEW top,
         w = [tree |-> w.tree, fdMap |-> w.fdMap, open |-> w.open, err |-> w.err],
         OpenedSince(w.open, w.fdMap, b), w.err = "ok", w.tree = Root(top)
  PROVE  /\ WalkFrom(Opened(w, top), b)
         /\ Opened(w, top).err = "ok" => IsDir(top)
<1>1. CASE IsDir(top)
  <2>1. top \in Reals
    BY <1>1 DEF IsDir, Reals
  <2>2. w.tree \in Trees
    BY <2>1, RootSound, TreesAll
  <2>3. WalkFrom(w, b)
    BY <2>2 DEF WalkFrom, OpensFrom
  <2>. QED  BY <2>3, OpenedGood
<1>2. CASE ~IsDir(top)
  <2>. DEFINE v == Opened(w, top)
  <2>1. v = [w EXCEPT !.err = "ENOENT"]
    BY <1>2 DEF Opened
  <2>2. v = [tree |-> w.tree, fdMap |-> w.fdMap, open |-> w.open, err |-> "ENOENT"]
    BY <2>1
  <2>. HIDE DEF v
  <2>3. /\ v = [tree |-> v.tree, fdMap |-> v.fdMap, open |-> v.open, err |-> v.err]
        /\ v.tree = w.tree /\ v.fdMap = w.fdMap /\ v.open = w.open /\ v.err = "ENOENT"
    BY <2>2
  <2>. QED  BY <2>3 DEF WalkFrom, OpensFrom, v
<1>. QED  BY <1>1, <1>2

\* A walk that has opened nothing yet.
LEMMA NothingOpened ==
  ASSUME open \in Tables, NEW map \in Maps
  PROVE  OpenedSince(open, map, map)
BY DEF OpenedSince

\* The walk over a source.
LEMMA WalkedSourceGood ==
  ASSUME open \in Tables, NEW src \in Sources, NEW order \in Seq(Entries(src))
  PROVE  WalkFrom(WalkedSource(src, order), <<>>)
<1>. DEFINE s == [Started EXCEPT !.tree = Root(src)]
            w == Opened(s, src)
            left == {r \in Entries(src) : Skipped(r)}
<1>1. s = [tree |-> Root(src), fdMap |-> <<>>, open |-> open, err |-> "ok"]
  BY DEF Started
<1>. HIDE DEF s
<1>2. /\ s = [tree |-> s.tree, fdMap |-> s.fdMap, open |-> s.open, err |-> s.err]
      /\ s.tree = Root(src) /\ s.fdMap = <<>> /\ s.open = open /\ s.err = "ok"
  BY <1>1
<1>3. OpenedSince(s.open, s.fdMap, <<>>)
  BY <1>2, EmptyMap, NothingOpened
<1>4. WalkFrom(w, <<>>) /\ (w.err = "ok" => IsDir(src))
  BY <1>2, <1>3, RootOpenedGood
<1>5. WalkedSource(src, order) = WalkedOn(w, src, order, left)
  BY DEF WalkedSource, s
<1>. HIDE DEF w, left
<1>6. WalkFrom(WalkedOn(w, src, order, left), <<>>)
  BY <1>4, WalkedOnGood
<1>. QED  BY <1>5, <1>6

\* The walk over a mount point.
LEMMA CreateFileTreeGood ==
  ASSUME open \in Tables, NEW w, OpensFrom(w, <<>>), w.err = "ok",
         NEW mp \in MountPoints, NEW order \in Seq(Entries(mp))
  PROVE  WalkFrom(CreateFileTree(w, mp, order), <<>>)
<1>. DEFINE s == [w EXCEPT !.tree = Root(mp)]
            v == Opened(s, mp)
<1>1. s = [tree |-> Root(mp), fdMap |-> w.fdMap, open |-> w.open, err |-> w.err]
  BY DEF WalkFrom, OpensFrom
<1>. HIDE DEF s
<1>2. /\ s = [tree |-> s.tree, fdMap |-> s.fdMap, open |-> s.open, err |-> s.err]
      /\ s.tree = Root(mp) /\ s.fdMap = w.fdMap /\ s.open = w.open /\ s.err = "ok"
  BY <1>1
<1>3. OpenedSince(s.open, s.fdMap, <<>>)
  BY <1>2 DEF WalkFrom, OpensFrom
<1>4. WalkFrom(v, <<>>) /\ (v.err = "ok" => IsDir(mp))
  BY <1>2, <1>3, RootOpenedGood
<1>5. CreateFileTree(w, mp, order) = WalkedOn(v, mp, order, {})
  BY DEF CreateFileTree, s
<1>. HIDE DEF v
<1>6. WalkFrom(WalkedOn(v, mp, order, {}), <<>>)
  BY <1>4, WalkedOnGood
<1>. QED  BY <1>5, <1>6

-----------------------------------------------------------------------------
(***************************************************************************)
(* The inductive invariant.  A descriptor of a mount must not be closed or *)
(* used for another directory by what happens to another mount, so no two  *)
(* mounts that can end at different times may share one.                   *)
(***************************************************************************)
\* What a map holds is open and leads to where it is kept for.  Nothing of the
\* kind is kept once a mount has failed that shares the upper directory.
Leads(map, table) ==
  ~UpperShared => \A q \in DOMAIN map : table[map[q]] # Closed /\ RealKey(table[map[q]]) = q

\* Two maps share no descriptor.
Apart(m, n) == ~UpperShared => \A q \in DOMAIN m : \A p \in DOMAIN n : m[q] # n[p]

Typed ==
  /\ pending \in Seq(MountStates) /\ mounts \in Seq(MountStates)
  /\ open \in Tables
  /\ skipFiles \subseteq SkipFiles /\ skipDirs \subseteq SkipDirs

OnePerMountPoint == \A i, j \in DOMAIN pending : pending[i].mp = pending[j].mp => i = j

AllLead ==
  /\ \A i \in DOMAIN pending : Leads(pending[i].fdMap, open)
  /\ \A i \in DOMAIN mounts : Leads(mounts[i].fdMap, open)

Separate ==
  /\ \A i, j \in DOMAIN pending : i # j => Apart(pending[i].fdMap, pending[j].fdMap)
  /\ \A i \in DOMAIN pending : \A j \in DOMAIN mounts :
       Apart(pending[i].fdMap, mounts[j].fdMap)

IInv == Typed /\ OnePerMountPoint /\ AllLead /\ Separate

\* The parts of a mount.
LEMMA StateParts ==
  ASSUME NEW m \in MountStates
  PROVE  /\ m = [mp |-> m.mp, tree |-> m.tree, fdMap |-> m.fdMap]
         /\ m.mp \in MountPoints /\ m.tree \in Trees /\ m.fdMap \in Maps
         /\ \A q \in DOMAIN m.fdMap : m.fdMap[q] \in 1..MaxFds
<1>1. m.fdMap \in Maps
  BY DEF MountStates
<1>2. \A q \in DOMAIN m.fdMap : m.fdMap[q] \in 1..MaxFds
  BY <1>1 DEF Maps
<1>. QED  BY <1>1, <1>2 DEF MountStates

\* The elements of a list of mounts.
LEMMA ListParts ==
  ASSUME NEW q \in Seq(MountStates)
  PROVE  /\ Len(q) \in Nat /\ DOMAIN q = 1..Len(q)
         /\ \A i \in DOMAIN q : q[i] \in MountStates
BY LenProperties, ListOf


\* Sharing nothing goes both ways.
LEMMA ApartBothWays ==
  ASSUME NEW m, NEW n, Apart(m, n)
  PROVE  Apart(n, m)
BY DEF Apart

\* What was open stays open in the course of a walk.
LEMMA StillLeads ==
  ASSUME open \in Tables, NEW table, NEW map, NEW b, OpenedSince(table, map, b),
         NEW m \in Maps, Leads(m, open)
  PROVE  Leads(m, table)
<1>1. \A q \in DOMAIN m : m[q] \in DOMAIN open
  BY DEF Maps, Tables
<1>. QED  BY <1>1 DEF Leads, OpenedSince

\* A walk leaves a map that leads where it should.
LEMMA NewLeads ==
  ASSUME open \in Tables, NEW table, NEW map, NEW b \in Maps, OpenedSince(table, map, b),
         Leads(b, open)
  PROVE  Leads(map, table)
<1>1. Leads(b, table)
  BY StillLeads
<1>. QED  BY <1>1 DEF Leads, OpenedSince

\* What a walk opens is used by no other mount.
LEMMA NewApart ==
  ASSUME NEW table, NEW map, NEW b \in Maps, OpenedSince(table, map, b),
         NEW m \in Maps, Leads(m, open), Apart(b, m)
  PROVE  Apart(map, m)
<1>. SUFFICES ASSUME ~UpperShared, NEW q \in DOMAIN map, NEW p \in DOMAIN m
              PROVE  map[q] # m[p]
  BY DEF Apart
<1>1. open[m[p]] # Closed
  BY DEF Leads
<1>2. CASE q \in DOMAIN b /\ map[q] = b[q]
  BY <1>2 DEF Apart
<1>3. CASE open[map[q]] = Closed
  BY <1>1, <1>3
<1>. QED  BY <1>2, <1>3 DEF OpenedSince

\* A walk of its own shares nothing with any mount.
LEMMA FreshApart ==
  ASSUME NEW table, NEW map, OpenedSince(table, map, <<>>),
         NEW m \in Maps, Leads(m, open)
  PROVE  Apart(map, m)
<1>1. Apart(<<>>, m)
  BY EmptyMap DEF Apart
<1>. QED  BY <1>1, EmptyMap, NewApart

\* One map laid over another.
LEMMA LaidParts ==
  ASSUME NEW m \in Maps, NEW w, w.fdMap \in Maps
  PROVE  /\ Laid(m, w) \in Maps
         /\ \A q \in DOMAIN Laid(m, w) :
              \/ q \in DOMAIN w.fdMap /\ Laid(m, w)[q] = w.fdMap[q]
              \/ q \in DOMAIN m /\ Laid(m, w)[q] = m[q]
<1>. DEFINE n == w.fdMap
            u == Laid(m, w)
<1>1. u = [q \in DOMAIN m \cup DOMAIN n |-> IF q \in DOMAIN n THEN n[q] ELSE m[q]]
  BY DEF Laid
<1>2. n \in Maps
  OBVIOUS
<1>. HIDE DEF n, u
<1>3. PICK K \in SUBSET Keys : m \in [K -> 1..MaxFds]
  BY DEF Maps
<1>4. PICK L \in SUBSET Keys : n \in [L -> 1..MaxFds]
  BY <1>2 DEF Maps
<1>5. u \in [K \cup L -> 1..MaxFds] /\ K \cup L \in SUBSET Keys
  BY <1>1, <1>3, <1>4
<1>6. u \in Maps
  BY <1>5 DEF Maps
<1>7. \A q \in DOMAIN u :
        \/ q \in DOMAIN n /\ u[q] = n[q]
        \/ q \in DOMAIN m /\ u[q] = m[q]
  BY <1>1
<1>. QED  BY <1>6, <1>7 DEF n, u

\* It leads where both lead, and shares what either shares.
LEMMA LaidGood ==
  ASSUME NEW m \in Maps, NEW w, w.fdMap \in Maps, NEW table,
         Leads(m, table), Leads(w.fdMap, table)
  PROVE  Leads(Laid(m, w), table)
BY LaidParts DEF Leads

LEMMA LaidApart ==
  ASSUME NEW m \in Maps, NEW w, w.fdMap \in Maps, NEW n,
         Apart(m, n), Apart(w.fdMap, n)
  PROVE  Apart(Laid(m, w), n)
BY LaidParts DEF Apart

-----------------------------------------------------------------------------
(***************************************************************************)
(* What a link does to the mounts.                                         *)
(***************************************************************************)
\* A mount that waits is given another tree and another map.
LEMMA ReplacedKeeps ==
  ASSUME IInv, NEW i \in DOMAIN pending, NEW t \in Trees, NEW map \in Maps,
         pending' = [pending EXCEPT ![i].tree = t, ![i].fdMap = map],
         open' \in Tables,
         Leads(map, open'),
         \A j \in DOMAIN pending : j # i => Leads(pending[j].fdMap, open'),
         \A j \in DOMAIN mounts : Leads(mounts[j].fdMap, open'),
         \A j \in DOMAIN pending : j # i => Apart(map, pending[j].fdMap),
         \A j \in DOMAIN mounts : Apart(map, mounts[j].fdMap),
         UNCHANGED <<mounts, config>>
  PROVE  IInv'
<1>. DEFINE s == pending[i]
            x == [mp |-> s.mp, tree |-> t, fdMap |-> map]
<1>1. /\ pending \in Seq(MountStates) /\ Len(pending) \in Nat /\ DOMAIN pending = 1..Len(pending)
      /\ \A j \in DOMAIN pending : pending[j] \in MountStates
  BY ListParts DEF IInv, Typed
<1>2. s = [mp |-> s.mp, tree |-> s.tree, fdMap |-> s.fdMap] /\ s.mp \in MountPoints
  BY <1>1, StateParts
<1>3. /\ DOMAIN pending' = DOMAIN pending
      /\ \A j \in DOMAIN pending : j # i => pending'[j] = pending[j]
      /\ pending'[i] = [[s EXCEPT !.tree = t] EXCEPT !.fdMap = map]
      /\ pending' = [j \in DOMAIN pending |-> pending'[j]]
  BY <1>1
<1>8. pending'[i] = x
  <2>. HIDE DEF s
  <2>. DEFINE a == s.mp
              b == s.tree
              c == s.fdMap
  <2>2. s = [mp |-> a, tree |-> b, fdMap |-> c] /\ x = [mp |-> a, tree |-> t, fdMap |-> map]
    BY <1>2
  <2>. HIDE DEF a, b, c, x
  <2>. DEFINE y == [s EXCEPT !.tree = t]
              z == [y EXCEPT !.fdMap = map]
  <2>1. y = [mp |-> a, tree |-> t, fdMap |-> c]
    BY <2>2
  <2>3. pending'[i] = z
    BY <1>3
  <2>. HIDE DEF y
  <2>4. z = [mp |-> a, tree |-> t, fdMap |-> map]
    BY <2>1
  <2>. HIDE DEF z
  <2>. QED  BY <2>2, <2>3, <2>4
<1>4. x \in MountStates
  BY <1>2 DEF MountStates
<1>5. x.mp = s.mp /\ x.fdMap = map
  OBVIOUS
<1>. HIDE DEF x
<1>6. /\ pending' \in Seq(MountStates) /\ DOMAIN pending' = DOMAIN pending
      /\ pending'[i] = x
      /\ \A j \in DOMAIN pending : j # i => pending'[j] = pending[j]
  <2>. DEFINE p == pending'
              n == Len(pending)
  <2>1. \A j \in 1..n : p[j] \in MountStates
    BY <1>1, <1>3, <1>4, <1>8
  <2>2. p = [j \in 1..n |-> p[j]] /\ n \in Nat
    BY <1>1, <1>3
  <2>. HIDE DEF p, n
  <2>3. p \in [1..n -> MountStates]
    BY <2>1, <2>2
  <2>4. p \in Seq(MountStates)
    BY <2>2, <2>3, SeqDef
  <2>. QED  BY <1>3, <1>8, <2>4 DEF p
<1>7. \A j \in DOMAIN pending : pending'[j].mp = pending[j].mp
  BY <1>5, <1>6
<1>12. Typed'
  BY <1>6 DEF IInv, Typed, config
<1>9. OnePerMountPoint'
  BY <1>6, <1>7 DEF IInv, OnePerMountPoint
<1>10. AllLead'
  BY <1>5, <1>6 DEF AllLead
<1>11. Separate'
  <2>1. ASSUME NEW j \in DOMAIN pending, NEW k \in DOMAIN pending, j # k
        PROVE  Apart(pending'[j].fdMap, pending'[k].fdMap)
    <3>1. CASE j = i
      BY <1>5, <1>6, <2>1, <3>1
    <3>2. CASE k = i
      BY <1>5, <1>6, <2>1, <3>2, ApartBothWays
    <3>3. CASE j # i /\ k # i
      BY <1>6, <2>1, <3>3 DEF IInv, Separate
    <3>. QED  BY <3>1, <3>2, <3>3
  <2>2. ASSUME NEW j \in DOMAIN pending, NEW k \in DOMAIN mounts
        PROVE  Apart(pending'[j].fdMap, mounts[k].fdMap)
    <3>1. CASE j = i
      BY <1>5, <1>6, <3>1
    <3>2. CASE j # i
      BY <1>6, <3>2 DEF IInv, Separate
    <3>. QED  BY <3>1, <3>2
  <2>. QED  BY <1>6, <2>1, <2>2 DEF Separate
<1>. QED  BY <1>12, <1>9, <1>10, <1>11 DEF IInv


\* A mount joins those that wait.
LEMMA AppendedKeeps ==
  ASSUME IInv, NEW mp \in MountPoints, PendingAt(mp) = {},
         NEW t \in Trees, NEW map \in Maps,
         pending' = Append(pending, [mp |-> mp, tree |-> t, fdMap |-> map]),
         OpenedSince(open', map, <<>>),
         UNCHANGED <<mounts, config>>
  PROVE  IInv'
<1>. DEFINE n == Len(pending)
            x == [mp |-> mp, tree |-> t, fdMap |-> map]
<1>1. /\ pending \in Seq(MountStates) /\ n \in Nat /\ DOMAIN pending = 1..n
      /\ \A j \in DOMAIN pending : pending[j] \in MountStates
  BY ListParts DEF IInv, Typed
<1>2. x \in MountStates /\ x.mp = mp /\ x.fdMap = map
  BY DEF MountStates
<1>3. pending' = Append(pending, x)
  OBVIOUS
<1>. HIDE DEF x
<1>4. /\ pending' \in Seq(MountStates) /\ Len(pending') = n + 1
      /\ pending'[n + 1] = x
      /\ \A j \in 1..n : pending'[j] = pending[j]
  BY <1>1, <1>2, <1>3, AppendProperties
<1>5. DOMAIN pending' = 1..n + 1
  BY <1>4, ListParts
<1>6. open \in Tables /\ open' \in Tables
  BY DEF IInv, Typed, OpenedSince
<1>7. /\ \A j \in DOMAIN pending : Leads(pending[j].fdMap, open) /\ pending[j].fdMap \in Maps
      /\ \A j \in DOMAIN mounts : Leads(mounts[j].fdMap, open) /\ mounts[j].fdMap \in Maps
  <2>1. \A j \in DOMAIN mounts : mounts[j] \in MountStates
    BY ListParts DEF IInv, Typed
  <2>. QED  BY <1>1, <2>1, StateParts DEF IInv, AllLead
<1>8. Leads(map, open')
  <2>1. Leads(<<>>, open)
    BY EmptyMap DEF Leads
  <2>. QED  BY <1>6, <2>1, EmptyMap, NewLeads
<1>9. Typed'
  BY <1>4, <1>6 DEF IInv, Typed, config
<1>10. OnePerMountPoint'
  <2>1. \A j \in DOMAIN pending : pending[j].mp # mp
    BY DEF PendingAt
  <2>2. \A j \in 1..n + 1 : j = n + 1 \/ j \in 1..n
    BY <1>1
  <2>3. \A j, k \in 1..n : pending[j].mp = pending[k].mp => j = k
    BY <1>1 DEF IInv, OnePerMountPoint
  <2>4. \A j, k \in 1..n + 1 : pending'[j].mp = pending'[k].mp => j = k
    BY <1>1, <1>2, <1>4, <2>1, <2>2, <2>3
  <2>. HIDE DEF n
  <2>. QED  BY <1>5, <2>4 DEF OnePerMountPoint
<1>11. AllLead'
  <2>1. \A j \in DOMAIN pending : Leads(pending[j].fdMap, open')
    BY <1>6, <1>7, StillLeads
  <2>2. \A j \in DOMAIN mounts : Leads(mounts[j].fdMap, open')
    BY <1>6, <1>7, StillLeads
  <2>3. \A j \in 1..n + 1 : j = n + 1 \/ j \in 1..n
    BY <1>1
  <2>. HIDE DEF n
  <2>4. \A j \in DOMAIN pending' : Leads(pending'[j].fdMap, open')
    BY <1>1, <1>2, <1>4, <1>5, <1>8, <2>1, <2>3
  <2>. QED  BY <2>2, <2>4 DEF AllLead
<1>12. Separate'
  <2>1. /\ \A j \in DOMAIN pending : Apart(map, pending[j].fdMap)
        /\ \A j \in DOMAIN mounts : Apart(map, mounts[j].fdMap)
    BY <1>7, FreshApart
  <2>2. \A j \in 1..n + 1 : j = n + 1 \/ j \in 1..n
    BY <1>1
  <2>. HIDE DEF n
  <2>3. ASSUME NEW j \in 1..n + 1, NEW k \in 1..n + 1, j # k
        PROVE  Apart(pending'[j].fdMap, pending'[k].fdMap)
    <3>1. CASE j = n + 1
      BY <1>1, <1>2, <1>4, <2>1, <2>2, <2>3, <3>1
    <3>2. CASE k = n + 1
      BY <1>1, <1>2, <1>4, <2>1, <2>2, <2>3, <3>2, ApartBothWays
    <3>3. CASE j \in 1..n /\ k \in 1..n
      BY <1>1, <1>4, <2>3, <3>3 DEF IInv, Separate
    <3>. QED  BY <2>2, <3>1, <3>2, <3>3
  <2>4. ASSUME NEW j \in 1..n + 1, NEW k \in DOMAIN mounts
        PROVE  Apart(pending'[j].fdMap, mounts[k].fdMap)
    <3>1. CASE j = n + 1
      BY <1>2, <1>4, <2>1, <3>1
    <3>2. CASE j \in 1..n
      BY <1>1, <1>4, <3>2 DEF IInv, Separate
    <3>. QED  BY <2>2, <3>1, <3>2
  <2>. QED  BY <1>5, <2>3, <2>4 DEF Separate
<1>. QED  BY <1>9, <1>10, <1>11, <1>12 DEF IInv

\* A link that gives up has only opened what no mount holds.
LEMMA RefusedKeeps ==
  ASSUME IInv, NEW op, NEW w, NEW map, OpenedSince(w.open, map, <<>>), Refused(op, w)
  PROVE  IInv'
<1>1. open' = w.open /\ UNCHANGED <<pending, mounts, config>>
  BY DEF Refused
<1>2. open \in Tables /\ open' \in Tables
  BY <1>1 DEF IInv, Typed, OpenedSince
<1>3. Typed'
  BY <1>1, <1>2 DEF IInv, Typed, config
<1>4. OnePerMountPoint' /\ Separate'
  BY <1>1 DEF IInv, OnePerMountPoint, Separate
<1>5. AllLead'
  <2>1. /\ \A j \in DOMAIN pending : pending[j].fdMap \in Maps
        /\ \A j \in DOMAIN mounts : mounts[j].fdMap \in Maps
    BY ListParts, StateParts DEF IInv, Typed
  <2>2. \A j \in DOMAIN pending : Leads(pending[j].fdMap, open')
    BY <1>1, <1>2, <2>1, StillLeads DEF IInv, AllLead
  <2>3. \A j \in DOMAIN mounts : Leads(mounts[j].fdMap, open')
    BY <1>1, <1>2, <2>1, StillLeads DEF IInv, AllLead
  <2>. QED  BY <1>1, <2>2, <2>3 DEF AllLead
<1>. QED  BY <1>3, <1>4, <1>5 DEF IInv

\* No mount, no settings, and no descriptor.
LEMMA EmptyKeeps ==
  ASSUME pending' = <<>>, mounts' = <<>>, open' \in Tables,
         skipFiles' \subseteq SkipFiles, skipDirs' \subseteq SkipDirs
  PROVE  IInv'
<1>1. <<>> \in Seq(MountStates) /\ DOMAIN <<>> = {}
  BY EmptyList
<1>2. Typed'
  BY <1>1 DEF Typed
<1>3. OnePerMountPoint' /\ AllLead' /\ Separate'
  BY <1>1 DEF OnePerMountPoint, AllLead, Separate
<1>. QED  BY <1>2, <1>3 DEF IInv

\* An exception leaves nothing.
LEMMA TerminatedKeeps ==
  ASSUME IInv, Terminated
  PROVE  IInv'
<1>1. open' = [fd \in 1..MaxFds |-> Closed]
  BY DEF IInv, Typed, Tables, Terminated
<1>2. open' \in Tables
  BY <1>1 DEF Tables
<1>. QED  BY <1>2, EmptyKeeps DEF Terminated

-----------------------------------------------------------------------------
(***************************************************************************)
(* The calls that link.                                                    *)
(***************************************************************************)
\* The walk over the mount point, which ends in an exception or a mount.
LEMMA FirstKeeps ==
  ASSUME IInv, NEW w, OpensFrom(w, <<>>), w.err = "ok",
         NEW mp \in MountPoints, PendingAt(mp) = {},
         NEW order \in Walks[mp], NEW t,
         CreateFileTree(w, mp, order).err = "ok" => t \in Trees,
         LET v == CreateFileTree(w, mp, order)
         IN  \/ v.err # "ok" /\ Terminated
             \/ /\ v.err = "ok"
                /\ pending' = Append(pending, [mp |-> mp, tree |-> t, fdMap |-> v.fdMap])
                /\ open' = v.open
                /\ UNCHANGED <<mounts, config>>
  PROVE  IInv'
<1>. DEFINE v == CreateFileTree(w, mp, order)
<1>1. WalkFrom(v, <<>>)
  <2>1. open \in Tables
    BY DEF IInv, Typed
  <2>2. order \in Seq(Entries(mp))
    BY WalksAreLists
  <2>. QED  BY <2>1, <2>2, CreateFileTreeGood
<1>. HIDE DEF v
<1>2. CASE v.err # "ok"
  BY <1>2, TerminatedKeeps DEF v
<1>3. CASE v.err = "ok"
  <2>1. t \in Trees /\ v.fdMap \in Maps /\ OpenedSince(v.open, v.fdMap, <<>>)
    BY <1>1, <1>3 DEF v, WalkFrom, OpensFrom, OpenedSince
  <2>2. /\ pending' = Append(pending, [mp |-> mp, tree |-> t, fdMap |-> v.fdMap])
        /\ open' = v.open
        /\ UNCHANGED <<mounts, config>>
    BY <1>3 DEF v
  <2>. QED  BY <2>1, <2>2, AppendedKeeps
<1>. QED  BY <1>2, <1>3

\* Joining a mount that waits.
LEMMA JoinedKeeps ==
  ASSUME IInv, NEW w, WalkFrom(w, <<>>), w.err = "ok",
         NEW i \in DOMAIN pending, Joined(i, w)
  PROVE  IInv'
<1>. DEFINE b == pending[i].fdMap
            t == Merged(pending[i].tree, w.tree)
            map == Laid(b, w)
<1>1. /\ pending' = [pending EXCEPT ![i].tree = t, ![i].fdMap = map]
      /\ open' = w.open /\ UNCHANGED <<mounts, config>>
  BY DEF Joined
<1>2. open \in Tables /\ w.open \in Tables /\ w.fdMap \in Maps /\ w.tree \in Trees
  BY DEF IInv, Typed, WalkFrom, OpensFrom, OpenedSince
<1>3. /\ \A j \in DOMAIN pending : /\ pending[j].fdMap \in Maps /\ pending[j].tree \in Trees
                                   /\ Leads(pending[j].fdMap, open)
      /\ \A j \in DOMAIN mounts : mounts[j].fdMap \in Maps /\ Leads(mounts[j].fdMap, open)
  BY ListParts, StateParts DEF IInv, Typed, AllLead
<1>4. t \in Trees
  <2>1. Sound(pending[i].tree, Reals) /\ Sound(w.tree, Reals)
    BY <1>2, <1>3 DEF Trees
  <2>. QED  BY <2>1, MergedSound, TreesAll
<1>5. OpenedSince(w.open, w.fdMap, <<>>)
  BY DEF WalkFrom, OpensFrom
<1>6. /\ \A j \in DOMAIN pending : Leads(pending[j].fdMap, w.open)
      /\ \A j \in DOMAIN mounts : Leads(mounts[j].fdMap, w.open)
  BY <1>2, <1>3, <1>5, StillLeads
<1>7. Leads(w.fdMap, w.open)
  <2>1. Leads(<<>>, open)
    BY EmptyMap DEF Leads
  <2>. QED  BY <1>2, <1>5, <2>1, EmptyMap, NewLeads
<1>8. /\ \A j \in DOMAIN pending : Apart(w.fdMap, pending[j].fdMap)
      /\ \A j \in DOMAIN mounts : Apart(w.fdMap, mounts[j].fdMap)
  BY <1>3, <1>5, FreshApart
<1>. HIDE DEF t, map
<1>9. map \in Maps /\ Leads(map, w.open)
  BY <1>2, <1>3, <1>6, <1>7, LaidParts, LaidGood DEF map
<1>10. \A j \in DOMAIN pending : j # i => Apart(map, pending[j].fdMap)
  <2>1. \A j \in DOMAIN pending : j # i => Apart(b, pending[j].fdMap)
    BY DEF IInv, Separate
  <2>. QED  BY <1>2, <1>3, <1>8, <2>1, LaidApart DEF map
<1>11. \A j \in DOMAIN mounts : Apart(map, mounts[j].fdMap)
  <2>1. \A j \in DOMAIN mounts : Apart(b, mounts[j].fdMap)
    BY DEF IInv, Separate
  <2>. QED  BY <1>2, <1>3, <1>8, <2>1, LaidApart DEF map
<1>. QED  BY <1>1, <1>2, <1>4, <1>6, <1>9, <1>10, <1>11, ReplacedKeeps


\* Linking a directory.
LEMMA LinkDirectoryKeeps ==
  ASSUME IInv, NEW src \in Sources, NEW mp \in MountPoints, NEW recursive \in BOOLEAN,
         LinkDirectory(src, mp, recursive)
  PROVE  IInv'
<1>1. PICK order \in IF recursive THEN Walks[src] ELSE {<<>>} :
        LET w == WalkedSource(src, order)
        IN  \/ w.err # "ok" /\ Refused("directory", w)
            \/ w.err = "ok" /\ \E i \in PendingAt(mp) : Joined(i, w)
            \/ w.err = "ok" /\ LinkedFirst("directory", w, mp, LAMBDA t : Merged(t, w.tree))
  BY DEF LinkDirectory
<1>. DEFINE w == WalkedSource(src, order)
<1>2. order \in Seq(Entries(src))
  BY WalksAreLists, EmptyList
<1>3. WalkFrom(w, <<>>)
  BY <1>2, WalkedSourceGood DEF IInv, Typed
<1>4. CASE w.err # "ok" /\ Refused("directory", w)
  <2>. HIDE DEF w
  <2>1. OpenedSince(w.open, w.fdMap, <<>>)
    BY <1>3 DEF WalkFrom, OpensFrom
  <2>. QED  BY <1>4, <2>1, RefusedKeeps
<1>5. CASE w.err = "ok" /\ \E i \in PendingAt(mp) : Joined(i, w)
  <2>1. PICK i \in DOMAIN pending : Joined(i, w)
    BY <1>5 DEF PendingAt
  <2>. HIDE DEF w
  <2>. QED  BY <1>3, <1>5, <2>1, JoinedKeeps
<1>6. CASE w.err = "ok" /\ LinkedFirst("directory", w, mp, LAMBDA t : Merged(t, w.tree))
  <2>1. PICK o \in Walks[mp] :
          LET v == CreateFileTree(w, mp, o)
          IN  \/ v.err # "ok" /\ Terminated
              \/ /\ v.err = "ok"
                 /\ pending' = Append(pending, [mp |-> mp, tree |-> Merged(v.tree, w.tree),
                                                fdMap |-> v.fdMap])
                 /\ open' = v.open
                 /\ UNCHANGED <<mounts, config>>
    BY <1>6 DEF LinkedFirst
  <2>2. PendingAt(mp) = {} /\ w.err = "ok"
    BY <1>6 DEF LinkedFirst
  <2>. HIDE DEF w
  <2>. DEFINE v == CreateFileTree(w, mp, o)
  <2>3. ASSUME v.err = "ok"
        PROVE  Merged(v.tree, w.tree) \in Trees
    <3>1. open \in Tables
      BY DEF IInv, Typed
    <3>2. o \in Seq(Entries(mp))
      BY WalksAreLists
    <3>3. WalkFrom(v, <<>>)
      BY <1>3, <2>2, <3>1, <3>2, CreateFileTreeGood DEF WalkFrom
    <3>. HIDE DEF v
    <3>4. Sound(v.tree, Reals) /\ Sound(w.tree, Reals)
      BY <1>3, <2>2, <2>3, <3>3 DEF WalkFrom, OpensFrom, Trees
    <3>. QED  BY <3>4, MergedSound, TreesAll
  <2>. DEFINE t == Merged(v.tree, w.tree)
  <2>4. \/ v.err # "ok" /\ Terminated
        \/ /\ v.err = "ok"
           /\ pending' = Append(pending, [mp |-> mp, tree |-> t, fdMap |-> v.fdMap])
           /\ open' = v.open
           /\ UNCHANGED <<mounts, config>>
    BY <2>1
  <2>5. v.err = "ok" => t \in Trees
    BY <2>3
  <2>. HIDE DEF t
  <2>. QED  BY <1>3, <2>2, <2>4, <2>5, FirstKeeps DEF v, WalkFrom
<1>. QED  BY <1>1, <1>4, <1>5, <1>6


\* The walk that has not begun, with a map that is there already.
LEMMA StartedOpens ==
  ASSUME open \in Tables, NEW b \in Maps
  PROVE  LET s == [Started EXCEPT !.fdMap = b]
         IN  OpensFrom(s, b) /\ s.err = "ok" /\ s.open = open
<1>. DEFINE s == [Started EXCEPT !.fdMap = b]
<1>1. s = [tree |-> Root(<<>>), fdMap |-> b, open |-> open, err |-> "ok"]
  BY DEF Started
<1>. HIDE DEF s
<1>2. /\ s = [tree |-> s.tree, fdMap |-> s.fdMap, open |-> s.open, err |-> s.err]
      /\ s.fdMap = b /\ s.open = open /\ s.err = "ok"
  BY <1>1
<1>3. OpenedSince(open, b, b)
  BY NothingOpened
<1>. QED  BY <1>2, <1>3 DEF OpensFrom, s

\* A file is linked to a mount that waits.
LEMMA LinkFileToPendingKeeps ==
  ASSUME IInv, NEW r \in Files, NEW n \in Targets, NEW i \in DOMAIN pending,
         LinkFileToPending(i, r, n)
  PROVE  IInv'
<1>. DEFINE b == pending[i].fdMap
            tree == pending[i].tree
            s == [Started EXCEPT !.fdMap = b]
            w == Opened(s, Parent(r))
            t == Added(tree, <<n>>, r, "file")
<1>1. /\ open \in Tables
      /\ \A j \in DOMAIN pending : /\ pending[j].fdMap \in Maps /\ pending[j].tree \in Trees
                                   /\ Leads(pending[j].fdMap, open)
      /\ \A j \in DOMAIN mounts : mounts[j].fdMap \in Maps /\ Leads(mounts[j].fdMap, open)
  BY ListParts, StateParts DEF IInv, Typed, AllLead
<1>2. \/ Refused("file", Started)
      \/ /\ AddError(tree, <<n>>, FALSE) = "ok"
         /\ pending' = [pending EXCEPT ![i].tree = t, ![i].fdMap = w.fdMap]
         /\ open' = w.open
         /\ UNCHANGED <<mounts, config>>
  BY DEF LinkFileToPending
<1>3. CASE Refused("file", Started)
  <2>1. Started.open = open /\ OpenedSince(open, <<>>, <<>>)
    BY <1>1, EmptyMap, NothingOpened DEF Started
  <2>. QED  BY <1>3, <2>1, RefusedKeeps
<1>4. CASE /\ AddError(tree, <<n>>, FALSE) = "ok"
           /\ pending' = [pending EXCEPT ![i].tree = t, ![i].fdMap = w.fdMap]
           /\ open' = w.open
           /\ UNCHANGED <<mounts, config>>
  <2>1. t \in Trees
    <3>1. <<n>> \in Seq(Name) /\ r \in Reals /\ "file" \in Type
      BY LinkingAssumption DEF Reals, Type
    <3>2. Sound(tree, Reals)
      BY <1>1 DEF Trees
    <3>. DEFINE p == <<n>>
    <3>. HIDE DEF tree, p
    <3>3. p \in Seq(Name) /\ AddError(tree, p, FALSE) = "ok"
      BY <1>4, <3>1 DEF p
    <3>4. Sound(Added(tree, p, r, "file"), Reals)
      BY <3>1, <3>2, <3>3, AddedSound
    <3>. QED  BY <3>4, TreesAll DEF p
  <2>2. b \in Maps /\ Leads(b, open)
    BY <1>1
  <2>. HIDE DEF b
  <2>3. OpensFrom(s, b)
    BY <1>1, <2>2, StartedOpens
  <2>. HIDE DEF s
  <2>4. OpensFrom(w, b)
    BY <1>1, <2>3, OpenedKeepsWalk
  <2>. HIDE DEF w
  <2>5. OpenedSince(w.open, w.fdMap, b) /\ w.fdMap \in Maps /\ w.open \in Tables
    BY <2>4 DEF OpensFrom, OpenedSince
  <2>6. Leads(w.fdMap, w.open)
    BY <1>1, <2>2, <2>5, NewLeads
  <2>7. /\ \A j \in DOMAIN pending : Leads(pending[j].fdMap, w.open)
        /\ \A j \in DOMAIN mounts : Leads(mounts[j].fdMap, w.open)
    BY <1>1, <2>5, StillLeads
  <2>8. \A j \in DOMAIN pending : j # i => Apart(w.fdMap, pending[j].fdMap)
    <3>1. \A j \in DOMAIN pending : j # i => Apart(b, pending[j].fdMap)
      BY DEF IInv, Separate, b
    <3>. QED  BY <1>1, <2>2, <2>5, <3>1, NewApart
  <2>9. \A j \in DOMAIN mounts : Apart(w.fdMap, mounts[j].fdMap)
    <3>1. \A j \in DOMAIN mounts : Apart(b, mounts[j].fdMap)
      BY DEF IInv, Separate, b
    <3>. QED  BY <1>1, <2>2, <2>5, <3>1, NewApart
  <2>. DEFINE map == w.fdMap
  <2>10. /\ pending' = [pending EXCEPT ![i].tree = t, ![i].fdMap = map]
         /\ open' = w.open /\ UNCHANGED <<mounts, config>>
    BY <1>4
  <2>. HIDE DEF t
  <2>11. /\ map \in Maps /\ open' \in Tables /\ Leads(map, open')
         /\ \A j \in DOMAIN pending : j # i => Leads(pending[j].fdMap, open')
         /\ \A j \in DOMAIN mounts : Leads(mounts[j].fdMap, open')
         /\ \A j \in DOMAIN pending : j # i => Apart(map, pending[j].fdMap)
         /\ \A j \in DOMAIN mounts : Apart(map, mounts[j].fdMap)
    BY <2>5, <2>6, <2>7, <2>8, <2>9, <2>10
  <2>. HIDE DEF map
  <2>. QED  BY <2>1, <2>10, <2>11, ReplacedKeeps
<1>. QED  BY <1>2, <1>3, <1>4

\* A file in the root of a tree has a place to be, taken or not.
LEMMA AddedToRoot ==
  ASSUME NEW t \in Trees, NEW n \in Targets, NEW r \in Files
  PROVE  Added(t, <<n>>, r, "file") \in Trees
<1>. DEFINE p == <<n>>
            k == Fold(p)
<1>1. p \in Seq(Name) /\ r \in Reals /\ "file" \in Type
  BY LinkingAssumption DEF Reals, Type
<1>2. Len(p) = 1 /\ p # <<>>
  BY EmptySeq
<1>. HIDE DEF p
<1>3. k \in Seq(Key) /\ Len(k) = 1
  BY <1>1, <1>2, FoldProperties
<1>. HIDE DEF k
<1>4. Parent(k) = <<>>
  <2>1. k # <<>>
    BY <1>3, EmptySeq
  <2>2. Parent(k) \in Seq(Key) /\ Len(Parent(k)) = 0
    BY <1>3, <2>1, ParentProperties
  <2>. QED  BY <2>2, EmptySeq
<1>5. Sound(t, Reals) /\ <<>> \in DOMAIN t
  BY DEF Trees, Sound, IsTree
<1>7. AddError(t, p, TRUE) = "ok"
  BY <1>2, <1>4, <1>5 DEF AddError, k
<1>8. Sound(Added(t, p, r, "file"), Reals)
  BY <1>1, <1>5, <1>7, AddedSound
<1>. QED  BY <1>8, TreesAll DEF p

\* A file is linked to a directory that has no mount waiting.
LEMMA LinkFileFirstKeeps ==
  ASSUME IInv, NEW r \in Files, NEW n \in Targets, NEW mp \in MountPoints,
         LinkFileFirst(r, mp, n)
  PROVE  IInv'
<1>. DEFINE w == Opened(Started, Parent(r))
            v == IF w.err = "ok" THEN Opened(w, mp) ELSE w
<1>1. \/ v.err # "ok" /\ Refused("file", v)
      \/ v.err = "ok" /\ LinkedFirst("file", v, mp, LAMBDA t : Added(t, <<n>>, r, "file"))
  BY DEF LinkFileFirst
<1>2. open \in Tables
  BY DEF IInv, Typed
<1>3. OpensFrom(Started, <<>>)
  <2>1. [Started EXCEPT !.fdMap = <<>>] = Started
    BY DEF Started
  <2>. QED  BY <1>2, <2>1, EmptyMap, StartedOpens
<1>4. OpensFrom(w, <<>>)
  BY <1>2, <1>3, OpenedKeepsWalk
<1>. HIDE DEF w
<1>5. OpensFrom(v, <<>>)
  BY <1>2, <1>4, OpenedKeepsWalk
<1>. HIDE DEF v
<1>6. CASE v.err # "ok" /\ Refused("file", v)
  <2>1. OpenedSince(v.open, v.fdMap, <<>>)
    BY <1>5 DEF OpensFrom
  <2>. QED  BY <1>6, <2>1, RefusedKeeps
<1>7. CASE v.err = "ok" /\ LinkedFirst("file", v, mp, LAMBDA t : Added(t, <<n>>, r, "file"))
  <2>1. PICK o \in Walks[mp] :
          LET x == CreateFileTree(v, mp, o)
          IN  \/ x.err # "ok" /\ Terminated
              \/ /\ x.err = "ok"
                 /\ pending' = Append(pending, [mp |-> mp, tree |-> Added(x.tree, <<n>>, r, "file"),
                                                fdMap |-> x.fdMap])
                 /\ open' = x.open
                 /\ UNCHANGED <<mounts, config>>
    BY <1>7 DEF LinkedFirst
  <2>2. PendingAt(mp) = {} /\ v.err = "ok"
    BY <1>7 DEF LinkedFirst
  <2>. DEFINE x == CreateFileTree(v, mp, o)
              t == Added(x.tree, <<n>>, r, "file")
  <2>3. OpensFrom(x, <<>>) /\ (x.err = "ok" => x.tree \in Trees)
    <3>1. o \in Seq(Entries(mp))
      BY WalksAreLists
    <3>. QED  BY <1>2, <1>5, <2>2, <3>1, CreateFileTreeGood DEF WalkFrom
  <2>. HIDE DEF x
  <2>4. x.err = "ok" => t \in Trees
    BY <2>3, AddedToRoot
  <2>5. \/ x.err # "ok" /\ Terminated
        \/ /\ x.err = "ok"
           /\ pending' = Append(pending, [mp |-> mp, tree |-> t, fdMap |-> x.fdMap])
           /\ open' = x.open
           /\ UNCHANGED <<mounts, config>>
    BY <2>1 DEF x
  <2>. HIDE DEF t
  <2>. QED  BY <1>5, <2>2, <2>4, <2>5, FirstKeeps DEF x
<1>. QED  BY <1>1, <1>6, <1>7

\* A step that leaves mounts and descriptors alone.
LEMMA SettingsKeep ==
  ASSUME IInv, UNCHANGED <<pending, mounts, open>>,
         skipFiles' \subseteq SkipFiles, skipDirs' \subseteq SkipDirs
  PROVE  IInv'
<1>1. Typed'
  BY DEF IInv, Typed
<1>2. OnePerMountPoint' /\ AllLead' /\ Separate'
  BY DEF IInv, OnePerMountPoint, AllLead, Separate
<1>. QED  BY <1>1, <1>2 DEF IInv

\* usvfsVirtualLinkFile().
LEMMA LinkFileKeeps ==
  ASSUME IInv, NEW r \in Files, NEW mp \in MountPoints, NEW n \in Targets,
         LinkFile(r, mp, n)
  PROVE  IInv'
<1>1. CASE LinkFileSkipped(r)
  BY <1>1, SettingsKeep DEF LinkFileSkipped, config, IInv, Typed
<1>2. CASE \E i \in PendingAt(mp) : LinkFileToPending(i, r, n)
  BY <1>2, LinkFileToPendingKeeps DEF PendingAt
<1>3. CASE LinkFileFirst(r, mp, n)
  BY <1>3, LinkFileFirstKeeps
<1>. QED  BY <1>1, <1>2, <1>3 DEF LinkFile

\* The settings.
LEMMA ConfigureKeeps ==
  ASSUME IInv, Configure
  PROVE  IInv'
<1>1. skipFiles' \subseteq SkipFiles /\ skipDirs' \subseteq SkipDirs
  BY DEF IInv, Typed, Configure, UsvfsAddSkipFileSuffix, UsvfsClearSkipFileSuffixes,
         UsvfsAddSkipDirectory, UsvfsClearSkipDirectories, SetUpperDir
<1>. QED  BY <1>1, SettingsKeep DEF Configure

-----------------------------------------------------------------------------
(***************************************************************************)
(* The end of mounts.                                                      *)
(***************************************************************************)
\* A descriptor that is closed is one of a map that goes.
LEMMA HeldBySome ==
  ASSUME NEW states, NEW fd \in Held(states)
  PROVE  \E i \in DOMAIN states : \E q \in DOMAIN states[i].fdMap : fd = states[i].fdMap[q]
BY DEF Held, ToSet

\* ~MountState() closes nothing of a map that shares nothing with those that go.
LEMMA DestroyedKeepsOthers ==
  ASSUME NEW table \in Tables, NEW states, NEW m \in Maps, Leads(m, table),
         \A i \in DOMAIN states : Apart(m, states[i].fdMap)
  PROVE  Leads(m, Destroyed(table, states))
<1>1. ~UpperShared => \A q \in DOMAIN m : m[q] \notin Held(states)
  BY HeldBySome DEF Apart
<1>2. \A q \in DOMAIN m : m[q] \in DOMAIN table
  BY DEF Maps, Tables
<1>. QED  BY <1>1, <1>2 DEF Leads, Destroyed

LEMMA DestroyedIsTable ==
  ASSUME NEW table \in Tables, NEW states
  PROVE  Destroyed(table, states) \in Tables
BY DEF Tables, Destroyed

\* No mount waits, and what is mounted still has its descriptors.
LEMMA NonePendingKeeps ==
  ASSUME IInv, pending' = <<>>, mounts' \in Seq(MountStates), open' \in Tables,
         \A i \in DOMAIN mounts' : Leads(mounts'[i].fdMap, open'),
         UNCHANGED config
  PROVE  IInv'
<1>1. <<>> \in Seq(MountStates) /\ DOMAIN <<>> = {}
  BY EmptyList
<1>2. Typed'
  BY <1>1 DEF IInv, Typed, config
<1>3. OnePerMountPoint' /\ AllLead' /\ Separate'
  BY <1>1 DEF OnePerMountPoint, AllLead, Separate
<1>. QED  BY <1>2, <1>3 DEF IInv

\* usvfsClearVirtualMappings().
LEMMA ClearKeeps ==
  ASSUME IInv, UsvfsClearVirtualMappings
  PROVE  IInv'
<1>1. /\ pending' = <<>> /\ mounts' = mounts /\ open' = Destroyed(open, pending)
      /\ UNCHANGED config
  BY DEF UsvfsClearVirtualMappings
<1>2. open \in Tables /\ mounts \in Seq(MountStates)
  BY DEF IInv, Typed
<1>3. \A j \in DOMAIN mounts : mounts[j].fdMap \in Maps
  BY <1>2, ListParts, StateParts
<1>4. ASSUME NEW j \in DOMAIN mounts  PROVE Leads(mounts[j].fdMap, open')
  <2>1. \A i \in DOMAIN pending : Apart(mounts[j].fdMap, pending[i].fdMap)
    BY ApartBothWays DEF IInv, Separate
  <2>. QED  BY <1>1, <1>2, <1>3, <2>1, DestroyedKeepsOthers DEF IInv, AllLead
<1>5. open' \in Tables
  BY <1>1, <1>2, DestroyedIsTable
<1>. QED  BY <1>1, <1>2, <1>4, <1>5, NonePendingKeeps

\* unmount().
LEMMA UnmountKeeps ==
  ASSUME IInv, Unmount
  PROVE  IInv'
<1>1. /\ mounts' = <<>> /\ pending' = pending /\ open' = Destroyed(open, mounts)
      /\ UNCHANGED config
  BY DEF Unmount
<1>2. open \in Tables /\ pending \in Seq(MountStates)
  BY DEF IInv, Typed
<1>3. \A j \in DOMAIN pending : pending[j].fdMap \in Maps
  BY <1>2, ListParts, StateParts
<1>4. ASSUME NEW j \in DOMAIN pending  PROVE Leads(pending[j].fdMap, open')
  BY <1>1, <1>2, <1>3, DestroyedKeepsOthers DEF IInv, AllLead, Separate
<1>5. open' \in Tables
  BY <1>1, <1>2, DestroyedIsTable
<1>6. <<>> \in Seq(MountStates) /\ DOMAIN <<>> = {}
  BY EmptyList
<1>7. Typed'
  BY <1>1, <1>5, <1>6 DEF IInv, Typed, config
<1>8. AllLead' /\ Separate' /\ OnePerMountPoint'
  BY <1>1, <1>4, <1>6 DEF IInv, AllLead, Separate, OnePerMountPoint
<1>. QED  BY <1>7, <1>8 DEF IInv

\* A mount with the upper directory's descriptor in its map.
LEMMA WithUpperParts ==
  ASSUME NEW m \in MountStates, NEW w, w.fdMap \in Maps
  PROVE  WithUpper(m, w) \in MountStates /\ WithUpper(m, w).fdMap = Laid(m.fdMap, w)
<1>. DEFINE a == m.mp
            b == m.tree
            c == m.fdMap
            map == Laid(c, w)
            u == WithUpper(m, w)
<1>1. m = [mp |-> a, tree |-> b, fdMap |-> c] /\ a \in MountPoints /\ b \in Trees /\ c \in Maps
  BY StateParts
<1>2. u = [m EXCEPT !.fdMap = Laid(@, w)]
  BY DEF WithUpper
<1>. HIDE DEF a, b, c, u
<1>3. map \in Maps
  BY <1>1, LaidParts
<1>4. u = [mp |-> a, tree |-> b, fdMap |-> map]
  <2>1. m.fdMap = c
    BY DEF c
  <2>2. u = [m EXCEPT !.fdMap = map]
    BY <1>2, <2>1
  <2>. HIDE DEF map
  <2>. QED  BY <1>1, <2>2
<1>. HIDE DEF map
<1>. QED  BY <1>1, <1>3, <1>4 DEF MountStates, u, map, c

\* The mounts that are made, and those that go: the one that failed and those
\* after it.
Parted(S, p, u, n) ==
  LET made == SubSeq(u, 1, n)
      failed == IF n = Len(p) THEN <<>> ELSE <<u[n + 1]>>
      dropped == SubSeq(p, n + 2, Len(p))
  IN  /\ made \in Seq(S) /\ Len(made) = n /\ \A i \in 1..n : made[i] = u[i]
      /\ \A k \in DOMAIN (failed \o dropped) :
           \/ n < Len(p) /\ (failed \o dropped)[k] = u[n + 1]
           \/ \E j \in n + 1..Len(p) : (failed \o dropped)[k] = p[j]

\* Every list is parted so.
LEMMA MadeAndGone ==
  ASSUME NEW S, NEW p \in Seq(S), NEW u \in Seq(S), Len(u) = Len(p), NEW n \in 0..Len(p)
  PROVE  Parted(S, p, u, n)
<1>. DEFINE made == SubSeq(u, 1, n)
            l == Len(p)
            failed == IF n = l THEN <<>> ELSE <<u[n + 1]>>
            dropped == SubSeq(p, n + 2, l)
            gone == failed \o dropped
<1>1. l \in Nat /\ n \in Nat /\ n =< l
  BY LenProperties
<1>2. /\ \A i \in 1..l : u[i] \in S /\ p[i] \in S
  BY LenProperties
<1>3. made \in Seq(S) /\ Len(made) = n /\ \A i \in 1..n : made[i] = u[i]
  <2>. DEFINE one == 1
  <2>1. one \in Int /\ n \in Int /\ (\A i \in one..n : u[i] \in S) /\ one = 1
    BY <1>1, <1>2
  <2>. HIDE DEF one
  <2>2. /\ SubSeq(u, one, n) \in Seq(S)
        /\ Len(SubSeq(u, one, n)) = IF one <= n THEN n - one + 1 ELSE 0
        /\ \A i \in 1..n - one + 1 : SubSeq(u, one, n)[i] = u[one + i - 1]
    BY <2>1, SubSeqProperties
  <2>. QED  BY <1>1, <2>1, <2>2
<1>4. ASSUME n = l
      PROVE  \A k \in DOMAIN gone : FALSE
  <2>1. failed = <<>> /\ dropped = <<>>
    BY <1>1, <1>4, SubSeqEmpty
  <2>2. gone = <<>>
    BY <2>1, EmptyList, ConcatEmptySeq
  <2>. HIDE DEF gone
  <2>. QED  BY <2>2, EmptyList
<1>5. ASSUME n < l
      PROVE  \A k \in DOMAIN gone : gone[k] = u[n + 1] \/ \E j \in n + 1..l : gone[k] = p[j]
  <2>. DEFINE e == u[n + 1]
              first == <<e>>
              b == n + 2
  <2>1. failed = first
    BY <1>1, <1>5
  <2>2. e \in S
    BY <1>1, <1>2, <1>5
  <2>3. first \in Seq(S) /\ Len(first) = 1 /\ first[1] = e
    BY <2>2
  <2>4. b \in Int /\ l \in Int /\ (\A i \in b..l : p[i] \in S) /\ b = n + 2
    BY <1>1, <1>2
  <2>. HIDE DEF first, b, e, failed
  <2>5. /\ SubSeq(p, b, l) \in Seq(S)
        /\ Len(SubSeq(p, b, l)) = IF b <= l THEN l - b + 1 ELSE 0
        /\ \A i \in 1..l - b + 1 : SubSeq(p, b, l)[i] = p[b + i - 1]
    BY <2>4, SubSeqProperties
  <2>6. dropped = SubSeq(p, b, l)
    BY DEF b
  <2>. HIDE DEF dropped
  <2>11. l \in Nat /\ n \in Nat /\ n < l /\ b = n + 2
    BY <1>1, <1>5, <2>4
  <2>12. l - b + 1 = l - n - 1 /\ (IF b <= l THEN l - b + 1 ELSE 0) = l - n - 1
    <3>. HIDE DEF l
    <3>. QED  BY <2>11
  <2>7. /\ dropped \in Seq(S) /\ Len(dropped) = l - n - 1
        /\ \A i \in 1..l - n - 1 : dropped[i] = p[n + 1 + i]
    <3>. HIDE DEF l
    <3>1. dropped \in Seq(S) /\ Len(dropped) = l - n - 1
      BY <2>5, <2>6, <2>12
    <3>2. ASSUME NEW i \in 1..l - n - 1  PROVE dropped[i] = p[n + 1 + i]
      <4>1. dropped[i] = p[b + i - 1]
        BY <2>5, <2>6, <2>12
      <4>2. b + i - 1 = n + 1 + i
        BY <2>11
      <4>. QED  BY <4>1, <4>2
    <3>. QED  BY <3>1, <3>2
  <2>8. /\ gone \in Seq(S) /\ Len(gone) = l - n
        /\ \A i \in 1..l - n : gone[i] = IF i <= 1 THEN first[i] ELSE dropped[i - 1]
    <3>1. /\ first \o dropped \in Seq(S)
          /\ Len(first \o dropped) = Len(first) + Len(dropped)
          /\ \A i \in 1..Len(first) + Len(dropped) : (first \o dropped)[i] =
                 IF i <= Len(first) THEN first[i] ELSE dropped[i - Len(first)]
      BY <2>3, <2>7, ConcatProperties
    <3>2. gone = first \o dropped
      BY <2>1
    <3>. HIDE DEF gone
    <3>. QED  BY <1>1, <2>3, <2>7, <3>1, <3>2
  <2>. HIDE DEF gone
  <2>9. DOMAIN gone = 1..l - n
    BY <2>8, LenProperties
  <2>10. ASSUME NEW k \in DOMAIN gone
         PROVE  gone[k] = e \/ \E j \in n + 1..l : gone[k] = p[j]
    <3>1. CASE k = 1
      BY <1>1, <1>5, <2>3, <2>8, <3>1
    <3>2. CASE k # 1
      <4>1. k - 1 \in 1..l - n - 1 /\ k \in 1..l - n /\ n + k \in n + 1..l /\ k \in Int
        BY <1>1, <1>5, <2>9, <3>2
      <4>2. gone[k] = dropped[k - 1]
        BY <2>8, <4>1
      <4>3. dropped[k - 1] = p[n + k]
        <5>1. dropped[k - 1] = p[n + 1 + (k - 1)]
          BY <2>7, <4>1
        <5>2. n + 1 + (k - 1) = n + k
          BY <1>1, <4>1
        <5>. QED  BY <5>1, <5>2
      <4>. QED  BY <4>1, <4>2, <4>3
    <3>. QED  BY <3>1, <3>2
  <2>. QED  BY <2>10 DEF e
<1>. HIDE DEF l, made, gone
<1>6. n < l \/ n = l
  BY <1>1
<1>7. \A k \in DOMAIN gone : \/ n < l /\ gone[k] = u[n + 1]
                             \/ \E j \in n + 1..l : gone[k] = p[j]
  BY <1>4, <1>5, <1>6
<1>. QED  BY <1>3, <1>7, Zenon DEF l, made, gone, Parted

\* mount() gets as far as the n-th mount: those that go share nothing with those
\* that stay, unless it is the descriptor of the upper directory.
LEMMA MountUpToKeeps ==
  ASSUME IInv, NEW w, OpensFrom(w, <<>>), NEW n \in 0..Len(pending),
         UpperShared \/ n \in {0, Len(pending)} \/ DOMAIN w.fdMap = {},
         pending' = <<>>, MountUpTo(n, w), UNCHANGED config
  PROVE  IInv'
<1>. DEFINE l == Len(pending)
            upper == [i \in DOMAIN pending |-> WithUpper(pending[i], w)]
            made == SubSeq(upper, 1, n)
            failed == IF n = l THEN <<>> ELSE <<upper[n + 1]>>
            dropped == SubSeq(pending, n + 2, l)
            gone == failed \o dropped
            map == w.fdMap
<1>1. /\ open \in Tables /\ l \in Nat /\ DOMAIN pending = 1..l
      /\ pending \in Seq(MountStates) /\ mounts \in Seq(MountStates)
      /\ \A i \in 1..l : /\ pending[i] \in MountStates /\ pending[i].fdMap \in Maps
                         /\ Leads(pending[i].fdMap, open)
      /\ \A i \in DOMAIN mounts : mounts[i].fdMap \in Maps /\ Leads(mounts[i].fdMap, open)
  BY ListParts, StateParts DEF IInv, Typed, AllLead
<1>2. /\ map \in Maps /\ w.open \in Tables /\ OpenedSince(w.open, map, <<>>)
      /\ Leads(map, w.open)
  <2>1. map \in Maps /\ w.open \in Tables /\ OpenedSince(w.open, map, <<>>)
    BY DEF OpensFrom, OpenedSince
  <2>2. <<>> \in Maps /\ Leads(<<>>, open)
    BY EmptyMap DEF Leads
  <2>. QED  BY <1>1, <2>1, <2>2, NewLeads
<1>3. /\ upper \in Seq(MountStates) /\ Len(upper) = l
      /\ \A i \in 1..l : upper[i].fdMap = Laid(pending[i].fdMap, w)
  <2>1. upper = [i \in 1..l |-> upper[i]] /\ \A i \in 1..l : upper[i] = WithUpper(pending[i], w)
    BY <1>1
  <2>. HIDE DEF upper, l
  <2>2. \A i \in 1..l : /\ upper[i] \in MountStates
                        /\ upper[i].fdMap = Laid(pending[i].fdMap, w)
    BY <1>1, <1>2, <2>1, WithUpperParts
  <2>3. upper \in [1..l -> MountStates]
    BY <2>1, <2>2
  <2>. QED  BY <1>1, <2>2, <2>3, LenProperties, SeqDef
<1>4. mounts' = mounts \o made /\ open' = Destroyed(w.open, gone)
  BY Zenon DEF MountUpTo
<1>5. /\ made \in Seq(MountStates) /\ Len(made) = n /\ \A i \in 1..n : made[i] = upper[i]
      /\ \A k \in DOMAIN gone : \/ n < l /\ gone[k] = upper[n + 1]
                                \/ \E j \in n + 1..l : gone[k] = pending[j]
  <2>. HIDE DEF upper
  <2>1. Len(upper) = Len(pending) /\ n \in 0..Len(pending)
    BY <1>3
  <2>2. pending \in Seq(MountStates) /\ upper \in Seq(MountStates)
    BY <1>1, <1>3
  <2>3. Parted(MountStates, pending, upper, n)
    BY <2>1, <2>2, MadeAndGone
  <2>. QED  BY <2>3, Zenon DEF Parted
<1>12. /\ l \in Nat /\ n \in 0..l /\ n \in Nat /\ n =< l
       /\ UpperShared \/ n \in {0, l} \/ DOMAIN map = {}
  <2>1. l \in Nat /\ n \in 0..l
    BY <1>1
  <2>2. UpperShared \/ n \in {0, l} \/ DOMAIN map = {}
    OBVIOUS
  <2>. HIDE DEF l, map
  <2>. QED  BY <2>1, <2>2
<1>. HIDE DEF l
<1>. HIDE DEF gone, made, upper
<1>6. ASSUME NEW j \in DOMAIN mounts, NEW k \in DOMAIN gone
      PROVE  Apart(mounts[j].fdMap, gone[k].fdMap)
  <2>. DEFINE m == mounts[j].fdMap
  <2>1. Apart(map, m)
    BY <1>1, <1>2, FreshApart
  <2>2. \A i \in 1..l : Apart(pending[i].fdMap, m)
    BY <1>1 DEF IInv, Separate
  <2>3. CASE n < l /\ gone[k] = upper[n + 1]
    <3>1. n + 1 \in 1..l
      BY <1>12, <2>3
    <3>2. Apart(Laid(pending[n + 1].fdMap, w), m)
      BY <1>1, <1>2, <2>1, <2>2, <3>1, LaidApart
    <3>. QED  BY <1>3, <2>3, <3>1, <3>2, ApartBothWays
  <2>4. CASE \E i \in n + 1..l : gone[k] = pending[i]
    <3>1. PICK i \in 1..l : gone[k] = pending[i]
      BY <1>5, <1>12, <2>4
    <3>. QED  BY <2>2, <3>1, ApartBothWays
  <2>. QED  BY <1>5, <2>3, <2>4
<1>7. ASSUME NEW i \in 1..n, NEW k \in DOMAIN gone
      PROVE  Apart(made[i].fdMap, gone[k].fdMap)
  <2>1. i \in 1..l
    BY <1>12
  <2>. DEFINE m == pending[i].fdMap
              x == gone[k].fdMap
  <2>2. made[i].fdMap = Laid(m, w) /\ m \in Maps
    BY <1>1, <1>3, <1>5, <2>1
  <2>3. \A j \in n + 1..l : j \in 1..l /\ j # i /\ Apart(m, pending[j].fdMap)
    <3>1. \A j \in n + 1..l : j \in 1..l /\ j # i
      BY <1>12
    <3>. QED  BY <1>1, <2>1, <3>1 DEF IInv, Separate
  <2>4. CASE n < l /\ gone[k] = upper[n + 1]
    <3>1. n + 1 \in n + 1..l /\ n + 1 \in 1..l
      BY <1>12, <2>4
    <3>2. x = Laid(pending[n + 1].fdMap, w)
      BY <1>3, <2>4, <3>1
    <3>3. UpperShared \/ DOMAIN map = {}
      BY <1>12, <2>4
    <3>4. Apart(map, m) /\ Apart(map, x)
      BY <3>3 DEF Apart
    <3>5. Apart(pending[n + 1].fdMap, m)
      BY <2>3, <3>1, ApartBothWays
    <3>6. Apart(x, m)
      BY <1>1, <1>2, <3>1, <3>2, <3>4, <3>5, LaidApart
    <3>7. Apart(m, x)
      BY <3>6, ApartBothWays
    <3>. HIDE DEF m, x
    <3>8. Apart(Laid(m, w), x)
      BY <1>2, <2>2, <3>4, <3>7, LaidApart
    <3>. QED  BY <2>2, <3>8 DEF x
  <2>5. CASE \E j \in n + 1..l : gone[k] = pending[j]
    <3>1. PICK j \in n + 1..l : gone[k] = pending[j]
      BY <2>5
    <3>2. Apart(map, x)
      BY <1>1, <1>2, <2>3, <3>1, FreshApart
    <3>3. Apart(m, x)
      BY <2>3, <3>1
    <3>. HIDE DEF m, x
    <3>4. Apart(Laid(m, w), x)
      BY <1>2, <2>2, <3>2, <3>3, LaidApart
    <3>. QED  BY <2>2, <3>4 DEF x
  <2>. QED  BY <1>5, <2>4, <2>5
<1>8. ASSUME NEW j \in DOMAIN mounts  PROVE Leads(mounts[j].fdMap, open')
  <2>1. Leads(mounts[j].fdMap, w.open)
    BY <1>1, <1>2, StillLeads
  <2>. QED  BY <1>1, <1>2, <1>4, <1>6, <2>1, DestroyedKeepsOthers
<1>9. ASSUME NEW i \in 1..n  PROVE Leads(made[i].fdMap, open')
  <2>1. i \in 1..l
    BY <1>12
  <2>. DEFINE m == pending[i].fdMap
              u == made[i].fdMap
  <2>2. u = Laid(m, w) /\ m \in Maps /\ Leads(m, w.open)
    BY <1>1, <1>2, <1>3, <1>5, <2>1, StillLeads
  <2>3. \A k \in DOMAIN gone : Apart(u, gone[k].fdMap)
    BY <1>7
  <2>. HIDE DEF m, u
  <2>4. u \in Maps /\ Leads(u, w.open)
    BY <1>2, <2>2, LaidGood, LaidParts
  <2>5. Leads(u, Destroyed(w.open, gone))
    BY <1>2, <2>3, <2>4, DestroyedKeepsOthers
  <2>. QED  BY <1>4, <2>5 DEF u
<1>10. /\ mounts' \in Seq(MountStates)
       /\ \A i \in DOMAIN mounts' : Leads(mounts'[i].fdMap, open')
  <2>. DEFINE c == mounts \o made
              a == Len(mounts)
  <2>1. a \in Nat /\ DOMAIN mounts = 1..a
    BY <1>1, ListParts
  <2>2. /\ c \in Seq(MountStates) /\ Len(c) = a + n
        /\ \A i \in 1..a + n : c[i] = IF i <= a THEN mounts[i] ELSE made[i - a]
    <3>1. mounts \in Seq(MountStates) /\ made \in Seq(MountStates) /\ Len(made) = n
      BY <1>1, <1>5
    <3>2. /\ c \in Seq(MountStates) /\ Len(c) = a + Len(made)
          /\ \A i \in 1..a + Len(made) : c[i] = IF i <= a THEN mounts[i] ELSE made[i - a]
      BY <3>1, ConcatProperties
    <3>. HIDE DEF c, a
    <3>. QED  BY <3>1, <3>2
  <2>3. mounts' = c
    BY <1>4
  <2>. HIDE DEF c, a
  <2>4. DOMAIN c = 1..a + n
    BY <2>2, LenProperties
  <2>5. ASSUME NEW i \in 1..a + n  PROVE Leads(c[i].fdMap, open')
    <3>1. CASE i <= a
      <4>1. i \in DOMAIN mounts /\ c[i] = mounts[i]
        BY <1>12, <2>1, <2>2, <3>1
      <4>. QED  BY <1>8, <4>1
    <3>2. CASE ~(i <= a)
      <4>1. i - a \in 1..n /\ c[i] = made[i - a]
        BY <1>12, <2>1, <2>2, <3>2
      <4>. QED  BY <1>9, <4>1
    <3>. QED  BY <3>1, <3>2
  <2>. QED  BY <2>2, <2>3, <2>4, <2>5
<1>11. open' \in Tables
  BY <1>2, <1>4, DestroyedIsTable
<1>. QED  BY <1>10, <1>11, NonePendingKeeps

\* mount().
LEMMA MountKeeps ==
  ASSUME IInv, Mount
  PROVE  IInv'
<1>. DEFINE w == IF upperDir = NoUpper THEN Started ELSE Opened(Started, upperDir)
<1>1. open \in Tables /\ mounts \in Seq(MountStates) /\ pending \in Seq(MountStates)
  BY DEF IInv, Typed
<1>2. OpensFrom(Started, <<>>) /\ DOMAIN Started.fdMap = {}
  <2>1. [Started EXCEPT !.fdMap = <<>>] = Started /\ Started.fdMap = <<>>
    BY DEF Started
  <2>. QED  BY <1>1, <2>1, EmptyMap, StartedOpens
<1>3. OpensFrom(w, <<>>) /\ (upperDir = NoUpper => DOMAIN w.fdMap = {})
  BY <1>1, <1>2, OpenedKeepsWalk
<1>4. /\ pending' = <<>> /\ UNCHANGED config
      /\ \/ pending = <<>> /\ UNCHANGED <<mounts, open>>
         \/ open' = Destroyed(w.open, pending) /\ UNCHANGED mounts
         \/ \E n \in 0..Len(pending) :
              /\ UpperShared \/ upperDir = NoUpper \/ n \in {0, Len(pending)}
              /\ MountUpTo(n, w)
  BY DEF Mount
<1>. HIDE DEF w
<1>5. CASE pending = <<>> /\ UNCHANGED <<mounts, open>>
  BY <1>1, <1>4, <1>5, NonePendingKeeps DEF IInv, AllLead
<1>6. CASE open' = Destroyed(w.open, pending) /\ UNCHANGED mounts
  <2>1. w.open \in Tables /\ OpenedSince(w.open, w.fdMap, <<>>)
    BY <1>3 DEF OpensFrom, OpenedSince
  <2>2. \A j \in DOMAIN mounts : mounts[j].fdMap \in Maps
    BY <1>1, ListParts, StateParts
  <2>3. ASSUME NEW j \in DOMAIN mounts  PROVE Leads(mounts[j].fdMap, open')
    <3>1. Leads(mounts[j].fdMap, w.open)
      BY <1>1, <2>1, <2>2, StillLeads DEF IInv, AllLead
    <3>2. \A i \in DOMAIN pending : Apart(mounts[j].fdMap, pending[i].fdMap)
      BY ApartBothWays DEF IInv, Separate
    <3>. QED  BY <1>6, <2>1, <2>2, <3>1, <3>2, DestroyedKeepsOthers
  <2>4. open' \in Tables
    BY <1>6, <2>1, DestroyedIsTable
  <2>. QED  BY <1>1, <1>4, <1>6, <2>3, <2>4, NonePendingKeeps
<1>7. ASSUME NEW n \in 0..Len(pending),
             UpperShared \/ upperDir = NoUpper \/ n \in {0, Len(pending)}, MountUpTo(n, w)
      PROVE  IInv'
  BY <1>3, <1>4, <1>7, MountUpToKeeps
<1>. QED  BY <1>4, <1>5, <1>6, <1>7

-----------------------------------------------------------------------------
(***************************************************************************)
(* The theorems.                                                           *)
(***************************************************************************)
\* At the start nothing is open.
LEMMA InitGood == Init => IInv
<1>. SUFFICES ASSUME Init  PROVE IInv
  OBVIOUS
<1>1. <<>> \in Seq(MountStates) /\ DOMAIN <<>> = {}
  BY EmptyList
<1>2. open \in Tables
  BY DEF Init, Tables
<1>3. Typed
  BY <1>1, <1>2 DEF Init, Typed
<1>4. OnePerMountPoint /\ AllLead /\ Separate
  BY <1>1 DEF Init, OnePerMountPoint, AllLead, Separate
<1>. QED  BY <1>3, <1>4 DEF IInv

\* Every step keeps the inductive invariant.
LEMMA NextKeeps == IInv /\ [Next]_vars => IInv'
<1>. SUFFICES ASSUME IInv, [Next]_vars  PROVE IInv'
  OBVIOUS
<1>1. ASSUME NEW src \in Sources, NEW mp \in MountPoints, NEW recursive \in BOOLEAN,
             LinkDirectory(src, mp, recursive)
      PROVE  IInv'
  BY <1>1, LinkDirectoryKeeps
<1>2. ASSUME NEW r \in Files, NEW mp \in MountPoints, NEW n \in Targets, LinkFile(r, mp, n)
      PROVE  IInv'
  BY <1>2, LinkFileKeeps
<1>3. CASE Configure
  BY <1>3, ConfigureKeeps
<1>4. CASE UsvfsClearVirtualMappings
  BY <1>4, ClearKeeps
<1>5. CASE Mount
  BY <1>5, MountKeeps
<1>6. CASE Unmount
  BY <1>6, UnmountKeeps
<1>7. CASE UNCHANGED vars
  BY <1>7, SettingsKeep DEF vars, config, IInv, Typed
<1>. QED  BY <1>1, <1>2, <1>3, <1>4, <1>5, <1>6, <1>7 DEF Next

\* What the inductive invariant says of every mount.
LEMMA StatesGood ==
  ASSUME IInv, NEW m \in States
  PROVE  /\ IsTree(m.tree, Reals) /\ PrefixClosed(m.tree) /\ NamedByKey(m.tree)
         /\ Leads(m.fdMap, open)
         /\ \A q \in DOMAIN m.fdMap : m.fdMap[q] \in DOMAIN open
<1>1. m \in MountStates /\ Leads(m.fdMap, open)
  <2>1. CASE m \in ToSet(pending)
    BY <2>1, ListParts DEF ToSet, IInv, Typed, AllLead
  <2>2. CASE m \in ToSet(mounts)
    BY <2>2, ListParts DEF ToSet, IInv, Typed, AllLead
  <2>. QED  BY <2>1, <2>2 DEF States
<1>2. Sound(m.tree, Reals)
  BY <1>1, StateParts DEF Trees
<1>3. \A q \in DOMAIN m.fdMap : m.fdMap[q] \in DOMAIN open
  BY <1>1, StateParts DEF IInv, Typed, Tables
<1>. QED  BY <1>1, <1>2, <1>3 DEF Sound

\* Every mount, waiting or made, has a tree that can be used and a map into the
\* table of descriptors, and no two mounts wait for the same directory:
\* usvfsVirtualLinkFile(), usvfsVirtualLinkDirectoryStatic(), mount() and
\* ~MountState().
THEOREM TypeCorrect == Spec => []TypeOK
<1>1. Init => IInv
  BY InitGood
<1>2. IInv /\ [Next]_vars => IInv'
  BY NextKeeps
<1>3. IInv => TypeOK
  <2>. SUFFICES ASSUME IInv  PROVE TypeOK
    OBVIOUS
  <2>1. \A fd \in DOMAIN open : open[fd] = Closed \/ IsDir(open[fd])
    BY DEF IInv, Typed, Tables
  <2>. QED  BY <2>1, StatesGood DEF TypeOK, IInv, Typed, OnePerMountPoint, Reals
<1>. QED  BY <1>1, <1>2, <1>3, PTL DEF Spec

\* A descriptor kept in the map of a mount is open and leads to the directory it
\* is kept for, whatever is linked, skipped, refused, mounted, unmounted and
\* closed, in any order: ~MountState() closes no descriptor of another mount,
\* and a number that is used again is in no map.
THEOREM DescriptorsLeadAlways == ~UpperShared => (Spec => []DescriptorsLead)
<1>. SUFFICES ASSUME ~UpperShared  PROVE Spec => []DescriptorsLead
  OBVIOUS
<1>1. Init => IInv
  BY InitGood
<1>2. IInv /\ [Next]_vars => IInv'
  BY NextKeeps
<1>3. IInv => DescriptorsLead
  BY StatesGood DEF DescriptorsLead, Leads
<1>. QED  BY <1>1, <1>2, <1>3, PTL DEF Spec
=============================================================================
