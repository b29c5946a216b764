------------------------------ MODULE UsvfsProofs ------------------------------
(***************************************************************************)
(* Proofs about Usvfs, for every set of names, every disk the directories  *)
(* are linked on, any number of layers, and every workload: the file tree, *)
(* the descriptor map and the disk keep their types, and a call that is    *)
(* refused leaves the tree as it was.                                      *)
(***************************************************************************)
EXTENDS Usvfs, FileTreeProofs

-----------------------------------------------------------------------------
(***************************************************************************)
(* The disk.                                                               *)
(***************************************************************************)
\* e has every inode d has, of the same kind.
KeepsInodes(d, e) ==
  /\ DOMAIN d \subseteq DOMAIN e
  /\ \A i \in DOMAIN d : e[i].kind = d[i].kind

\* What a disk is made of, without the type it is a sequence of.
LEMMA DiskParts ==
  ASSUME NEW d, IsDisk(d)
  PROVE  /\ Len(d) \in Nat /\ DOMAIN d = 1..Len(d)
         /\ d = [i \in 1..Len(d) |-> d[i]]
         /\ \A i \in DOMAIN d :
              /\ d[i] = [kind |-> d[i].kind, names |-> d[i].names]
              /\ d[i].kind \in NodeKinds
              /\ Entries(d, i) \subseteq Name
              /\ d[i].names \in [Entries(d, i) -> DOMAIN d]
<1>. DEFINE N == {d[i].names : i \in DOMAIN d}
            S == [kind : NodeKinds, names : N]
<1>1. d \in Seq(S)
  BY DEF IsDisk
<1>. HIDE DEF S
<1>2. Len(d) \in Nat /\ d \in [1..Len(d) -> S]
  BY <1>1, LenProperties
<1>3. DOMAIN d = 1..Len(d) /\ d = [i \in 1..Len(d) |-> d[i]] /\ \A i \in DOMAIN d : d[i] \in S
  BY <1>2
<1>. HIDE DEF N
<1>4. ASSUME NEW i \in DOMAIN d
      PROVE  d[i] = [kind |-> d[i].kind, names |-> d[i].names] /\ d[i].kind \in NodeKinds
  <2>1. d[i] \in S
    BY <1>3
  <2>. QED  BY <2>1 DEF S
<1>. QED  BY <1>2, <1>3, <1>4 DEF IsDisk

\* Whatever has these parts is a disk.
LEMMA DiskFromParts ==
  ASSUME NEW n \in Nat, NEW d, d = [i \in 1..n |-> d[i]],
         \A i \in 1..n :
           /\ d[i] = [kind |-> d[i].kind, names |-> d[i].names]
           /\ d[i].kind \in NodeKinds
           /\ Entries(d, i) \subseteq Name
           /\ d[i].names \in [Entries(d, i) -> 1..n]
  PROVE  IsDisk(d) /\ Len(d) = n /\ DOMAIN d = 1..n
<1>. DEFINE N == {d[i].names : i \in 1..n}
            S == [kind : NodeKinds, names : N]
<1>1. DOMAIN d = 1..n
  OBVIOUS
<1>2. ASSUME NEW i \in 1..n  PROVE d[i] \in S
  <2>1. d[i].names \in N
    OBVIOUS
  <2>2. d[i] = [kind |-> d[i].kind, names |-> d[i].names] /\ d[i].kind \in NodeKinds
    OBVIOUS
  <2>. HIDE DEF N
  <2>. QED  BY <2>1, <2>2
<1>3. d \in [1..n -> S]
  BY <1>1, <1>2
<1>. HIDE DEF S
<1>4. d \in Seq(S)
  BY <1>3, SeqDef
<1>5. Len(d) = n
  BY <1>1, <1>4, LenProperties
<1>. QED  BY <1>1, <1>4, <1>5 DEF IsDisk, S

\* A disk with a name more, or a name led elsewhere, is a disk.
LEMMA BoundDisk ==
  ASSUME NEW d, IsDisk(d), NEW h, NEW n \in Name, NEW i \in DOMAIN d
  PROVE  /\ IsDisk(Bound(d, h, n, i))
         /\ Len(Bound(d, h, n, i)) = Len(d)
         /\ KeepsInodes(d, Bound(d, h, n, i))
<1>. DEFINE names == [m \in DOMAIN d[h].names \cup {n} |-> IF m = n THEN i ELSE d[h].names[m]]
            e == Bound(d, h, n, i)
<1>1. Len(d) \in Nat /\ DOMAIN d = 1..Len(d)
  BY DiskParts
<1>2. e = [g \in 1..Len(d) |-> IF g = h THEN [kind |-> d[h].kind, names |-> names] ELSE d[g]]
  <2>1. \A g \in 1..Len(d) : d[g] = [kind |-> d[g].kind, names |-> d[g].names]
    BY <1>1, DiskParts
  <2>2. DOMAIN e = 1..Len(d) /\ e = [g \in 1..Len(d) |-> e[g]]
    BY <1>1 DEF Bound
  <2>3. \A g \in 1..Len(d) : g # h => e[g] = d[g]
    BY <1>1 DEF Bound
  <2>4. h \in 1..Len(d) => e[h] = [d[h] EXCEPT !.names = names]
    BY <1>1 DEF Bound
  <2>. HIDE DEF e, names
  <2>5. ASSUME h \in 1..Len(d)
        PROVE  [d[h] EXCEPT !.names = names] = [kind |-> d[h].kind, names |-> names]
    <3>. DEFINE r == d[h]
                a == d[h].kind
                b == d[h].names
    <3>1. r = [kind |-> a, names |-> b]
      BY <2>1, <2>5
    <3>. HIDE DEF r, a, b
    <3>2. [r EXCEPT !.names = names] = [kind |-> a, names |-> names]
      BY <3>1
    <3>. QED  BY <3>2 DEF r, a
  <2>6. \A g \in 1..Len(d) :
          e[g] = IF g = h THEN [kind |-> d[h].kind, names |-> names] ELSE d[g]
    BY <2>3, <2>4, <2>5
  <2>. QED  BY <2>2, <2>6
<1>. HIDE DEF e
<1>3. ASSUME h \in 1..Len(d)
      PROVE  names \in [Entries(d, h) \cup {n} -> 1..Len(d)]
  BY <1>1, <1>3, DiskParts DEF Entries
<1>4. \A g \in 1..Len(d) : e[g] = IF g = h THEN [kind |-> d[h].kind, names |-> names] ELSE d[g]
  BY <1>2
<1>. HIDE DEF names
<1>5. h \in 1..Len(d) => e[h].names = names /\ e[h].kind = d[h].kind
  BY <1>4
<1>6. \A g \in 1..Len(d) : g # h => e[g] = d[g]
  BY <1>4
<1>7. ASSUME NEW g \in 1..Len(d)
      PROVE  /\ e[g] = [kind |-> e[g].kind, names |-> e[g].names]
             /\ e[g].kind = d[g].kind
             /\ e[g].kind \in NodeKinds
             /\ Entries(e, g) \subseteq Name
             /\ e[g].names \in [Entries(e, g) -> 1..Len(d)]
  <2>1. CASE g # h
    BY <1>1, <1>6, <2>1, DiskParts DEF Entries
  <2>2. CASE g = h
    <3>1. Entries(e, h) = Entries(d, h) \cup {n}
      BY <1>3, <1>5, <2>2 DEF Entries
    <3>2. Entries(d, h) \subseteq Name /\ d[h].kind \in NodeKinds
      BY <1>1, <2>2, DiskParts
    <3>3. e[h] = [kind |-> d[h].kind, names |-> names]
      BY <1>4, <2>2
    <3>. QED  BY <1>3, <1>5, <2>2, <3>1, <3>2, <3>3
  <2>. QED  BY <2>1, <2>2
<1>8. e = [g \in 1..Len(d) |-> e[g]]
  BY <1>2, <1>4
<1>9. IsDisk(e) /\ Len(e) = Len(d) /\ DOMAIN e = 1..Len(d)
  BY <1>1, <1>7, <1>8, DiskFromParts
<1>. QED  BY <1>1, <1>6, <1>7, <1>9 DEF KeepsInodes, e

\* A disk with a name less is a disk.
LEMMA UnboundDisk ==
  ASSUME NEW d, IsDisk(d), NEW h, NEW n
  PROVE  /\ IsDisk(Unbound(d, h, n))
         /\ Len(Unbound(d, h, n)) = Len(d)
         /\ KeepsInodes(d, Unbound(d, h, n))
<1>. DEFINE names == [m \in DOMAIN d[h].names \ {n} |-> d[h].names[m]]
            e == Unbound(d, h, n)
<1>1. Len(d) \in Nat /\ DOMAIN d = 1..Len(d)
  BY DiskParts
<1>2. e = [g \in 1..Len(d) |-> IF g = h THEN [kind |-> d[h].kind, names |-> names] ELSE d[g]]
  <2>1. \A g \in 1..Len(d) : d[g] = [kind |-> d[g].kind, names |-> d[g].names]
    BY <1>1, DiskParts
  <2>2. DOMAIN e = 1..Len(d) /\ e = [g \in 1..Len(d) |-> e[g]]
    BY <1>1 DEF Unbound
  <2>3. \A g \in 1..Len(d) : g # h => e[g] = d[g]
    BY <1>1 DEF Unbound
  <2>4. h \in 1..Len(d) => e[h] = [d[h] EXCEPT !.names = names]
    BY <1>1 DEF Unbound
  <2>. HIDE DEF e, names
  <2>5. ASSUME h \in 1..Len(d)
        PROVE  [d[h] EXCEPT !.names = names] = [kind |-> d[h].kind, names |-> names]
    <3>. DEFINE r == d[h]
                a == d[h].kind
                b == d[h].names
    <3>1. r = [kind |-> a, names |-> b]
      BY <2>1, <2>5
    <3>. HIDE DEF r, a, b
    <3>2. [r EXCEPT !.names = names] = [kind |-> a, names |-> names]
      BY <3>1
    <3>. QED  BY <3>2 DEF r, a
  <2>6. \A g \in 1..Len(d) :
          e[g] = IF g = h THEN [kind |-> d[h].kind, names |-> names] ELSE d[g]
    BY <2>3, <2>4, <2>5
  <2>. QED  BY <2>2, <2>6
<1>. HIDE DEF e
<1>3. ASSUME h \in 1..Len(d)
      PROVE  /\ names \in [Entries(d, h) \ {n} -> 1..Len(d)]
             /\ \A m \in Entries(d, h) \ {n} : names[m] = d[h].names[m]
  BY <1>1, <1>3, DiskParts DEF Entries
<1>4. \A g \in 1..Len(d) : e[g] = IF g = h THEN [kind |-> d[h].kind, names |-> names] ELSE d[g]
  BY <1>2
<1>. HIDE DEF names
<1>5. h \in 1..Len(d) => e[h].names = names /\ e[h].kind = d[h].kind
  BY <1>4
<1>6. \A g \in 1..Len(d) : g # h => e[g] = d[g]
  BY <1>4
<1>7. ASSUME NEW g \in 1..Len(d)
      PROVE  /\ e[g] = [kind |-> e[g].kind, names |-> e[g].names]
             /\ e[g].kind = d[g].kind
             /\ e[g].kind \in NodeKinds
             /\ Entries(e, g) \subseteq Name
             /\ e[g].names \in [Entries(e, g) -> 1..Len(d)]
  <2>1. CASE g # h
    BY <1>1, <1>6, <2>1, DiskParts DEF Entries
  <2>2. CASE g = h
    <3>1. Entries(e, h) = Entries(d, h) \ {n}
      BY <1>3, <1>5, <2>2 DEF Entries
    <3>2. Entries(d, h) \subseteq Name /\ d[h].kind \in NodeKinds
      BY <1>1, <2>2, DiskParts
    <3>3. e[h] = [kind |-> d[h].kind, names |-> names]
      BY <1>4, <2>2
    <3>. QED  BY <1>3, <1>5, <2>2, <3>1, <3>2, <3>3
  <2>. QED  BY <2>1, <2>2
<1>8. e = [g \in 1..Len(d) |-> e[g]]
  BY <1>2, <1>4
<1>9. IsDisk(e) /\ Len(e) = Len(d) /\ DOMAIN e = 1..Len(d)
  BY <1>1, <1>7, <1>8, DiskFromParts
<1>. QED  BY <1>1, <1>3, <1>5, <1>6, <1>7, <1>9 DEF KeepsInodes, e

\* A disk with an inode more is a disk.
LEMMA AppendedDisk ==
  ASSUME NEW d, IsDisk(d), NEW kind \in NodeKinds
  PROVE  /\ IsDisk(Append(d, Node(kind)))
         /\ Len(Append(d, Node(kind))) = Len(d) + 1
         /\ KeepsInodes(d, Append(d, Node(kind)))
         /\ \A i \in DOMAIN d : Append(d, Node(kind))[i] = d[i]
         /\ Append(d, Node(kind))[Len(d) + 1] = Node(kind)
<1>. DEFINE e == Append(d, Node(kind))
            n == Len(d) + 1
<1>1. Len(d) \in Nat /\ DOMAIN d = 1..Len(d) /\ n \in Nat
  BY DiskParts
<1>2. /\ e = [i \in 1..n |-> e[i]]
      /\ \A i \in 1..Len(d) : e[i] = d[i]
      /\ e[n] = Node(kind)
  <2>. DEFINE S == {d[i] : i \in 1..Len(d)} \cup {Node(kind)}
  <2>1. d = [i \in 1..Len(d) |-> d[i]]
    BY DiskParts
  <2>2. d \in [1..Len(d) -> S] /\ Node(kind) \in S
    BY <2>1
  <2>. HIDE DEF S
  <2>3. d \in Seq(S)
    BY <1>1, <2>2, SeqDef
  <2>4. /\ e \in Seq(S) /\ Len(e) = n
        /\ \A i \in 1..Len(d) : e[i] = d[i]
        /\ e[n] = Node(kind)
    BY <2>2, <2>3, AppendProperties
  <2>. HIDE DEF e, n
  <2>5. e \in [1..n -> S]
    BY <2>4, LenProperties
  <2>. QED  BY <2>4, <2>5
<1>. HIDE DEF e
<1>3. ASSUME NEW i \in 1..n
      PROVE  /\ e[i] = [kind |-> e[i].kind, names |-> e[i].names]
             /\ e[i].kind \in NodeKinds
             /\ Entries(e, i) \subseteq Name
             /\ e[i].names \in [Entries(e, i) -> 1..n]
  <2>1. CASE i = n
    <3>1. e[i] = [kind |-> kind, names |-> <<>>]
      BY <1>2, <2>1 DEF Node
    <3>2. DOMAIN <<>> = {} /\ <<>> \in [{} -> 1..n]
      OBVIOUS
    <3>3. e[i].names = <<>> /\ e[i].kind = kind
      BY <3>1
    <3>. QED  BY <3>1, <3>2, <3>3 DEF Entries
  <2>2. CASE i # n
    <3>0. i \in 1..Len(d)
      BY <1>1, <2>2
    <3>1. i \in 1..Len(d) /\ e[i] = d[i]
      BY <1>2, <3>0
    <3>2. /\ d[i] = [kind |-> d[i].kind, names |-> d[i].names]
          /\ d[i].kind \in NodeKinds
          /\ Entries(d, i) \subseteq Name
          /\ d[i].names \in [Entries(d, i) -> 1..Len(d)]
      BY <1>1, <3>1, DiskParts
    <3>3. Entries(e, i) = Entries(d, i)
      BY <3>1 DEF Entries
    <3>4. 1..Len(d) \subseteq 1..n
      BY <1>1
    <3>5. d[i].names \in [Entries(d, i) -> 1..n]
      BY <3>2, <3>4
    <3>. QED  BY <3>1, <3>2, <3>3, <3>5
  <2>. QED  BY <2>1, <2>2
<1>4. IsDisk(e) /\ Len(e) = n /\ DOMAIN e = 1..n
  BY <1>1, <1>2, <1>3, DiskFromParts
<1>. QED  BY <1>1, <1>2, <1>4 DEF KeepsInodes, e

\* What mkdirat() and openat() leave is a disk, with the inode they have made.
LEMMA MadeDisk ==
  ASSUME NEW d, IsDisk(d), NEW h, NEW n \in Name, NEW kind \in NodeKinds
  PROVE  /\ IsDisk(Made(d, h, n, kind))
         /\ Len(Made(d, h, n, kind)) = Len(d) + 1
         /\ KeepsInodes(d, Made(d, h, n, kind))
         /\ Len(d) + 1 \in DOMAIN Made(d, h, n, kind)
         /\ Made(d, h, n, kind)[Len(d) + 1].kind = kind
<1>. DEFINE a == Append(d, Node(kind))
            l == Len(d) + 1
            e == Bound(a, h, n, l)
<1>1. Len(d) \in Nat /\ DOMAIN d = 1..Len(d)
  BY DiskParts
<1>2. /\ IsDisk(a) /\ Len(a) = Len(d) + 1 /\ KeepsInodes(d, a)
      /\ \A i \in DOMAIN d : a[i] = d[i]
      /\ a[Len(d) + 1].kind = kind
  BY AppendedDisk DEF Node
<1>. HIDE DEF a
<1>3. DOMAIN a = 1..Len(d) + 1
  BY <1>2, DiskParts
<1>4. l \in DOMAIN a
  BY <1>1, <1>3
<1>. HIDE DEF l
<1>5. IsDisk(e) /\ Len(e) = Len(a) /\ KeepsInodes(a, e)
  BY <1>2, <1>4, BoundDisk
<1>. HIDE DEF e
<1>6. KeepsInodes(d, e)
  BY <1>2, <1>5 DEF KeepsInodes
<1>7. l \in DOMAIN e /\ e[l].kind = kind
  BY <1>2, <1>4, <1>5 DEF KeepsInodes, l
<1>8. Made(d, h, n, kind) = e
  BY DEF Made, a, e, l
<1>. QED  BY <1>2, <1>5, <1>6, <1>7, <1>8 DEF l

\* What renameat2() leaves is a disk.
LEMMA RenamedDisk ==
  ASSUME NEW d, IsDisk(d), NEW g \in DOMAIN d, NEW h, NEW n \in Entries(d, g), NEW m \in Name,
         NEW exchange \in BOOLEAN, exchange => h \in DOMAIN d /\ m \in Entries(d, h)
  PROVE  /\ IsDisk(Renamed(d, g, n, h, m, exchange))
         /\ KeepsInodes(d, Renamed(d, g, n, h, m, exchange))
<1>. DEFINE i == d[g].names[n]
            j == d[h].names[m]
            b == Bound(d, g, n, j)
            u == Unbound(d, g, n)
<1>1. i \in DOMAIN d /\ n \in Name
  BY DiskParts
<1>. HIDE DEF i
<1>2. CASE exchange
  <2>1. j \in DOMAIN d
    BY <1>2, DiskParts
  <2>. HIDE DEF j
  <2>2. IsDisk(b) /\ KeepsInodes(d, b)
    BY <1>1, <2>1, BoundDisk
  <2>3. i \in DOMAIN b
    BY <1>1, <2>2 DEF KeepsInodes
  <2>. HIDE DEF b
  <2>4. IsDisk(Bound(b, h, m, i)) /\ KeepsInodes(b, Bound(b, h, m, i))
    BY <2>2, <2>3, BoundDisk
  <2>5. Renamed(d, g, n, h, m, exchange) = Bound(b, h, m, i)
    BY <1>2 DEF Renamed, b, i, j
  <2>. QED  BY <2>2, <2>4, <2>5 DEF KeepsInodes
<1>3. CASE ~exchange
  <2>1. IsDisk(u) /\ KeepsInodes(d, u)
    BY UnboundDisk
  <2>2. i \in DOMAIN u
    BY <1>1, <2>1 DEF KeepsInodes
  <2>. HIDE DEF u
  <2>3. IsDisk(Bound(u, h, m, i)) /\ KeepsInodes(u, Bound(u, h, m, i))
    BY <2>1, <2>2, BoundDisk
  <2>4. Renamed(d, g, n, h, m, exchange) \in {d, Bound(u, h, m, i)}
    BY <1>3 DEF Renamed, u, i
  <2>5. KeepsInodes(d, d) /\ KeepsInodes(d, Bound(u, h, m, i))
    BY <2>1, <2>3 DEF KeepsInodes
  <2>. QED  BY <2>3, <2>4, <2>5
<1>. QED  BY <1>2, <1>3

-----------------------------------------------------------------------------
(***************************************************************************)
(* Real paths.  Solves(id, d, r) says that id gives the inode of every     *)
(* directory on the way of the real path r.                                *)
(***************************************************************************)
\* The directories given to the program are directories of the disk.
GivenDirs(d) ==
  \A t \in DOMAIN HostDirs : HostDirs[t] \in DOMAIN d /\ d[HostDirs[t]].kind = "dir"

IsRealPath(r) == r \in Real /\ r # <<>> /\ r[1] \in DOMAIN HostDirs

StepTo(d, up, n) == IF up = NoFd \/ n \notin Entries(d, up) THEN NoFd ELSE d[up].names[n]

Solves(id, d, r) ==
  id = [i \in 1..Len(r) |-> IF i = 1 THEN HostDirs[r[1]] ELSE StepTo(d, id[i - 1], r[i])]

\* A name leads to an inode or nowhere.
LEMMA StepToType ==
  ASSUME NEW d, IsDisk(d), NEW up \in DOMAIN d \cup {NoFd}, NEW n
  PROVE  StepTo(d, up, n) \in DOMAIN d \cup {NoFd}
<1>1. CASE up = NoFd \/ n \notin Entries(d, up)
  BY <1>1 DEF StepTo
<1>2. CASE up # NoFd /\ n \in Entries(d, up)
  <2>1. StepTo(d, up, n) = d[up].names[n]
    BY <1>2 DEF StepTo
  <2>2. d[up].names \in [Entries(d, up) -> DOMAIN d]
    BY <1>2, DiskParts
  <2>. QED  BY <1>2, <2>1, <2>2
<1>. QED  BY <1>1, <1>2

\* What a real path leads to is an inode or nothing.
LEMMA HostIdSolves ==
  ASSUME NEW d, IsDisk(d), GivenDirs(d), NEW r, IsRealPath(r)
  PROVE  \E id : /\ Solves(id, d, r)
                 /\ \A i \in 1..Len(r) : id[i] \in DOMAIN d \cup {NoFd}
                 /\ HostId(d, r) = id[Len(r)]
<1>. DEFINE D == DOMAIN d \cup {NoFd}
            n == Len(r)
            a == HostDirs[r[1]]
            G == [x \in (1..n) \X D |-> StepTo(d, x[2], r[x[1]])]
<1>1. n \in Nat /\ n >= 1
  BY LenProperties, EmptySeq DEF IsRealPath, Real
<1>2. a \in D
  BY DEF IsRealPath, GivenDirs
<1>3. G \in [(1..n) \X D -> D]
  BY StepToType
<1>4. PICK f \in [1..n -> D] : ByRecursion(f, 1, n, a, G)
  <2>. HIDE DEF G, D, n, a
  <2>. QED  BY <1>1, <1>2, <1>3, Recursion
<1>5. ASSUME NEW i \in 1..n
      PROVE  f[i] = IF i = 1 THEN a ELSE StepTo(d, f[i - 1], r[i])
  <2>1. CASE i = 1
    BY <1>4, <2>1 DEF ByRecursion
  <2>2. CASE i # 1
    <3>1. i - 1 \in 1..n
      BY <1>1, <2>2
    <3>2. <<i, f[i - 1]>> \in (1..n) \X D
      BY <1>4, <3>1
    <3>3. G[<<i, f[i - 1]>>] = StepTo(d, f[i - 1], r[i])
      BY <3>2
    <3>. HIDE DEF G
    <3>. QED  BY <1>4, <2>2, <3>3 DEF ByRecursion
  <2>. QED  BY <2>1, <2>2
<1>6. f = [i \in 1..n |-> IF i = 1 THEN a ELSE StepTo(d, f[i - 1], r[i])]
  BY <1>4, <1>5
<1>. DEFINE Asks(e) ==
       e = [i \in 1..Len(r) |->
              IF i = 1 THEN HostDirs[r[1]]
              ELSE LET up == e[i - 1]
                   IN  IF up = NoFd \/ r[i] \notin Entries(d, up) THEN NoFd
                       ELSE d[up].names[r[i]]]
            id == CHOOSE e : Asks(e)
<1>7. Asks(f)
  BY <1>6 DEF StepTo
<1>8. Asks(id)
  <2>. HIDE DEF Asks
  <2>. QED  BY <1>7
<1>9. Solves(id, d, r)
  <2>. HIDE DEF id
  <2>. QED  BY <1>8 DEF Solves, StepTo
<1>10. HostId(d, r) = id[Len(r)]
  BY DEF HostId
<1>. HIDE DEF id, Asks, G, D
<1>11. \A i \in 1..n : id[i] = IF i = 1 THEN a ELSE StepTo(d, id[i - 1], r[i])
  BY <1>9 DEF Solves
<1>. DEFINE H == {i \in Nat : id[i] \in D}
<1>12. 1 \in H
  BY <1>1, <1>2, <1>11
<1>13. ASSUME NEW i \in 1..n, i # 1, i - 1 \in H  PROVE i \in H
  <2>1. StepTo(d, id[i - 1], r[i]) \in D
    BY <1>13, StepToType DEF D
  <2>. QED  BY <1>11, <1>13, <2>1
<1>. HIDE DEF H
<1>14. 1..n \subseteq H
  <2>1. 1 \in Nat
    OBVIOUS
  <2>. HIDE DEF n
  <2>. QED  BY <1>1, <1>12, <1>13, <2>1, Induction
<1>15. \A i \in 1..Len(r) : id[i] \in DOMAIN d \cup {NoFd}
  BY <1>14 DEF H, D
<1>. QED  BY <1>9, <1>10, <1>15

\* What a real path leads to is an inode or nothing; a directory that is given
\* to the program is there.
LEMMA HostIdType ==
  ASSUME NEW d, IsDisk(d), GivenDirs(d), NEW r, IsRealPath(r)
  PROVE  /\ HostId(d, r) \in DOMAIN d \cup {NoFd}
         /\ Len(r) = 1 => HostId(d, r) = HostDirs[r[1]]
<1>1. Len(r) \in Nat /\ Len(r) >= 1
  BY LenProperties, EmptySeq DEF IsRealPath, Real
<1>2. PICK id : /\ Solves(id, d, r)
                /\ \A i \in 1..Len(r) : id[i] \in DOMAIN d \cup {NoFd}
                /\ HostId(d, r) = id[Len(r)]
  BY HostIdSolves
<1>3. id[1] = HostDirs[r[1]]
  BY <1>1, <1>2 DEF Solves
<1>. QED  BY <1>1, <1>2, <1>3

\* The last name of a real path is looked up in what the names before lead to.
LEMMA HostIdStep ==
  ASSUME NEW d, IsDisk(d), GivenDirs(d),
         NEW r, IsRealPath(r), NEW s, IsRealPath(s),
         Len(r) = Len(s) + 1, \A i \in 1..Len(s) : s[i] = r[i]
  PROVE  HostId(d, r) = StepTo(d, HostId(d, s), r[Len(r)])
<1>. DEFINE n == Len(s)
<1>1. n \in Nat /\ n >= 1 /\ Len(r) = n + 1
  BY LenProperties, EmptySeq DEF IsRealPath, Real
<1>2. PICK id : /\ Solves(id, d, r)
                /\ \A i \in 1..Len(r) : id[i] \in DOMAIN d \cup {NoFd}
                /\ HostId(d, r) = id[Len(r)]
  BY HostIdSolves
<1>3. PICK is : /\ Solves(is, d, s)
                /\ \A i \in 1..Len(s) : is[i] \in DOMAIN d \cup {NoFd}
                /\ HostId(d, s) = is[Len(s)]
  BY HostIdSolves
<1>. HIDE DEF n
<1>4. \A i \in 1..n + 1 : id[i] = IF i = 1 THEN HostDirs[r[1]] ELSE StepTo(d, id[i - 1], r[i])
  BY <1>1, <1>2 DEF Solves
<1>5. \A i \in 1..n : is[i] = IF i = 1 THEN HostDirs[s[1]] ELSE StepTo(d, is[i - 1], s[i])
  BY <1>3 DEF Solves, n
<1>. DEFINE H == {i \in Nat : i \in 1..n => id[i] = is[i]}
<1>6. \A i \in 1..n : s[i] = r[i]
  BY DEF n
<1>7. 1 \in H
  BY <1>1, <1>4, <1>5, <1>6
<1>8. ASSUME NEW i \in 1..n, i # 1, i - 1 \in H  PROVE i \in H
  <2>1. i - 1 \in 1..n /\ i \in 1..n + 1
    BY <1>1, <1>8
  <2>2. id[i - 1] = is[i - 1] /\ s[i] = r[i]
    BY <1>6, <1>8, <2>1
  <2>3. id[i] = StepTo(d, id[i - 1], r[i]) /\ is[i] = StepTo(d, is[i - 1], s[i])
    BY <1>4, <1>5, <1>8, <2>1
  <2>. QED  BY <1>8, <2>2, <2>3
<1>. HIDE DEF H
<1>9. 1..n \subseteq H
  BY <1>1, <1>7, <1>8, Induction
<1>10. id[n] = is[n]
  BY <1>1, <1>9 DEF H
<1>11. id[n + 1] = StepTo(d, id[n], r[n + 1])
  <2>. DEFINE j == n + 1
  <2>1. j \in 1..n + 1 /\ j # 1 /\ j - 1 = n
    BY <1>1
  <2>. HIDE DEF j
  <2>2. id[j] = StepTo(d, id[j - 1], r[j])
    BY <1>4, <2>1
  <2>3. id[j] = StepTo(d, id[n], r[j])
    BY <2>1, <2>2
  <2>. QED  BY <2>3 DEF j
<1>. QED  BY <1>1, <1>2, <1>3, <1>10, <1>11 DEF n

\* A real path that is there is in a directory that is there.
LEMMA HostIdPrefix ==
  ASSUME NEW d, IsDisk(d), GivenDirs(d),
         NEW r, IsRealPath(r), NEW s, IsRealPath(s),
         Len(r) = Len(s) + 1, \A i \in 1..Len(s) : s[i] = r[i],
         HostId(d, r) # NoFd
  PROVE  HostId(d, s) # NoFd
BY HostIdStep DEF StepTo

-----------------------------------------------------------------------------
(***************************************************************************)
(* Linking.                                                                *)
(***************************************************************************)
\* The paths that are walked are paths of names, no longer than the bound.
LEMMA HostPathsType ==
  /\ \A p \in HostPaths : p \in Seq(Name) /\ Len(p) \in Nat /\ Len(p) =< Depth
  /\ <<>> \in HostPaths
  /\ \A p \in HostPaths : p # <<>> => Parent(p) \in HostPaths
<1>1. Depth \in Nat
  BY UsvfsAssumption
<1>2. ASSUME NEW n \in 0..Depth, NEW p \in [1..n -> Name]
      PROVE  p \in Seq(Name) /\ Len(p) = n
  <2>1. p \in Seq(Name)
    BY <1>1, <1>2, SeqDef
  <2>2. Len(p) \in Nat /\ DOMAIN p = 1..Len(p) /\ DOMAIN p = 1..n /\ n \in Nat
    BY <1>1, <2>1, LenProperties
  <2>. QED  BY <2>1, <2>2
<1>3. ASSUME NEW p \in HostPaths
      PROVE  p \in Seq(Name) /\ Len(p) \in Nat /\ Len(p) =< Depth
  BY <1>1, <1>2 DEF HostPaths
<1>4. ASSUME NEW p \in Seq(Name), Len(p) =< Depth
      PROVE  p \in HostPaths
  <2>1. Len(p) \in 0..Depth /\ p \in [1..Len(p) -> Name]
    BY <1>1, <1>4, LenProperties
  <2>. QED  BY <2>1 DEF HostPaths
<1>5. <<>> \in HostPaths
  <2>. DEFINE e == <<>>
  <2>1. e \in Seq(Name) /\ Len(e) = 0
    BY EmptyList
  <2>. HIDE DEF e
  <2>2. Len(e) =< Depth
    BY <1>1, <2>1
  <2>3. e \in HostPaths
    BY <1>4, <2>1, <2>2
  <2>. QED  BY <2>3 DEF e
<1>6. ASSUME NEW p \in HostPaths, p # <<>>
      PROVE  Parent(p) \in HostPaths
  <2>1. Parent(p) \in Seq(Name) /\ Len(Parent(p)) = Len(p) - 1
    BY <1>3, <1>6, ParentOf
  <2>. QED  BY <1>1, <1>3, <1>4, <2>1
<1>. QED  BY <1>3, <1>5, <1>6

\* A path below a directory that is given to the program is a real path.
LEMMA JoinedPath ==
  ASSUME NEW top \in DOMAIN HostDirs, NEW p \in Seq(Name)
  PROVE  /\ IsRealPath(<<top>> \o p)
         /\ Len(<<top>> \o p) = Len(p) + 1
         /\ (<<top>> \o p)[1] = top
         /\ \A i \in 2..Len(p) + 1 : (<<top>> \o p)[i] = p[i - 1]
<1>. DEFINE S == Name \cup DOMAIN HostDirs
            r == <<top>> \o p
<1>1. <<top>> \in Seq(S) /\ Len(<<top>>) = 1 /\ <<top>>[1] = top
  OBVIOUS
<1>2. p \in [1..Len(p) -> Name] /\ Len(p) \in Nat
  BY LenProperties
<1>3. p \in [1..Len(p) -> S]
  BY <1>2
<1>4. p \in Seq(S)
  BY <1>2, <1>3, SeqDef
<1>. HIDE DEF S
<1>5. /\ r \in Seq(S) /\ Len(r) = Len(<<top>>) + Len(p)
      /\ \A i \in 1..Len(<<top>>) + Len(p) :
           r[i] = IF i =< Len(<<top>>) THEN <<top>>[i] ELSE p[i - Len(<<top>>)]
  BY <1>1, <1>4, ConcatProperties
<1>. HIDE DEF r
<1>6. Len(r) = Len(p) + 1
  BY <1>1, <1>2, <1>5
<1>7. r[1] = top
  <2>1. 1 \in 1..Len(<<top>>) + Len(p) /\ 1 =< Len(<<top>>)
    BY <1>1, <1>2
  <2>. QED  BY <1>1, <1>5, <2>1
<1>8. \A i \in 2..Len(p) + 1 : r[i] = p[i - 1]
  BY <1>1, <1>2, <1>5
<1>9. r # <<>>
  BY <1>2, <1>5, <1>6, EmptySeq
<1>10. IsRealPath(r)
  BY <1>5, <1>7, <1>9 DEF IsRealPath, Real, S
<1>. QED  BY <1>6, <1>7, <1>8, <1>10 DEF r

\* A linked directory's own tree is a tree.
LEMMA ScanSound ==
  ASSUME NEW d, IsDisk(d), GivenDirs(d), NEW top \in DOMAIN HostDirs
  PROVE  Sound(Scan(d, top), Real) /\ Shallow(Scan(d, top))
<1>. DEFINE W == Walked(d, top)
            t == Scan(d, top)
            Kind(r) == IF d[HostId(d, r)].kind = "dir" THEN "dir" ELSE "file"
            P(k) == CHOOSE p \in W : Fold(p) = k
            Of(k) == NewItem(IF P(k) = <<>> THEN RootName ELSE Base(P(k)),
                             <<top>> \o P(k), Kind(<<top>> \o P(k)))
<1>1. \A p \in W : p \in HostPaths /\ p \in Seq(Name) /\ Len(p) \in Nat /\ Len(p) =< Depth
  BY HostPathsType DEF Walked
<1>2. DOMAIN t = {Fold(p) : p \in W} /\ t = [k \in DOMAIN t |-> Of(k)]
  BY DEF Scan
<1>3. <<>> \in W
  <2>. DEFINE e == <<>>
              r == <<top>> \o e
  <2>1. e \in HostPaths /\ e \in Seq(Name) /\ Len(e) = 0
    BY HostPathsType, EmptyList
  <2>. HIDE DEF e
  <2>2. IsRealPath(r) /\ Len(r) = Len(e) + 1 /\ r[1] = top
    BY <2>1, JoinedPath
  <2>. HIDE DEF r
  <2>3. HostId(d, r) = HostDirs[top]
    BY <2>1, <2>2, HostIdType
  <2>4. HostDirs[top] # NoFd
    BY DiskParts DEF GivenDirs, NoFd
  <2>5. e \in W
    BY <2>1, <2>3, <2>4 DEF Walked, r
  <2>. QED  BY <2>5 DEF e
<1>4. \A p \in W : p # <<>> => Parent(p) \in W
  <2>1. SUFFICES ASSUME NEW p \in W, p # <<>>  PROVE Parent(p) \in W
    OBVIOUS
  <2>. DEFINE q == Parent(p)
              r == <<top>> \o p
              s == <<top>> \o q
  <2>2. /\ Len(p) \in Nat \ {0} /\ q \in Seq(Name) /\ Len(q) = Len(p) - 1
        /\ \A i \in 1..Len(p) - 1 : q[i] = p[i]
    BY <1>1, <2>1, ParentOf
  <2>3. q \in HostPaths
    BY <1>1, <2>1, HostPathsType
  <2>. HIDE DEF q
  <2>4. /\ IsRealPath(r) /\ Len(r) = Len(p) + 1 /\ r[1] = top
        /\ \A i \in 2..Len(p) + 1 : r[i] = p[i - 1]
    BY <1>1, JoinedPath
  <2>5. /\ IsRealPath(s) /\ Len(s) = Len(p) /\ s[1] = top
        /\ \A i \in 2..Len(p) : s[i] = q[i - 1]
    BY <2>2, JoinedPath
  <2>6. HostId(d, r) # NoFd
    BY DEF Walked
  <2>. HIDE DEF r, s
  <2>7. \A i \in 1..Len(s) : s[i] = r[i]
    <3>1. SUFFICES ASSUME NEW i \in 1..Len(s), i # 1  PROVE s[i] = r[i]
      BY <2>4, <2>5
    <3>2. i \in 2..Len(p) /\ i \in 2..Len(p) + 1 /\ i - 1 \in 1..Len(p) - 1
      BY <2>2, <2>5, <3>1
    <3>. QED  BY <2>2, <2>4, <2>5, <3>2
  <2>8. HostId(d, s) # NoFd
    BY <2>2, <2>4, <2>5, <2>6, <2>7, HostIdPrefix
  <2>. QED  BY <2>3, <2>8 DEF Walked, q, s
<1>5. ASSUME NEW k \in DOMAIN t
      PROVE  P(k) \in W /\ Fold(P(k)) = k
  BY <1>2
<1>. HIDE DEF P
<1>6. ASSUME NEW k \in DOMAIN t
      PROVE  /\ k \in Seq(Key) /\ Len(k) =< Depth
             /\ t[k] \in Item(Real)
             /\ k # <<>> => t[k].name \in Name /\ Lower[t[k].name] = Base(k)
             /\ k # <<>> => Parent(k) \in DOMAIN t
  <2>. DEFINE p == P(k)
  <2>1. p \in W /\ Fold(p) = k /\ p \in Seq(Name) /\ Len(p) =< Depth
    BY <1>1, <1>5
  <2>2. t[k] = Of(k)
    BY <1>2
  <2>. HIDE DEF p, W
  <2>3. k \in Seq(Key) /\ Len(k) = Len(p) /\ (k = <<>> <=> p = <<>>)
    BY <2>1, FoldProperties
  <2>4. k # <<>> => Base(p) \in Name /\ Lower[Base(p)] = Base(k)
    BY <2>1, <2>3, FoldBase
  <2>5. k # <<>> => Parent(k) = Fold(Parent(p)) /\ Parent(p) \in W
    BY <1>4, <2>1, <2>3, FoldParent
  <2>. DEFINE n == IF p = <<>> THEN RootName ELSE Base(p)
              real == <<top>> \o p
              type == Kind(real)
  <2>6. n \in Name \cup {RootName} /\ (k # <<>> => n = Base(p))
    BY <2>3, <2>4
  <2>7. real \in Real
    BY <2>1, JoinedPath DEF IsRealPath
  <2>8. type \in Type
    BY DEF Type
  <2>9. t[k] = NewItem(n, real, type)
    BY <2>2 DEF p
  <2>. HIDE DEF n, real, type
  <2>10. t[k] \in Item(Real) /\ t[k].name = n
    BY <2>6, <2>7, <2>8, <2>9 DEF NewItem, Item
  <2>11. k # <<>> => Parent(k) \in DOMAIN t
    BY <1>2, <2>5
  <2>. QED  BY <2>1, <2>3, <2>4, <2>6, <2>10, <2>11
<1>7. <<>> \in DOMAIN t
  <2>1. Fold(<<>>) = <<>>
    BY EmptyList, FoldProperties
  <2>. QED  BY <1>2, <1>3, <2>1
<1>8. t = [k \in DOMAIN t |-> t[k]]
  BY <1>2
<1>. HIDE DEF t
<1>9. Sound(t, Real)
  BY <1>6, <1>7, <1>8 DEF Sound, IsTree, PrefixClosed, NamedByKey
<1>10. Shallow(t)
  BY <1>6, UsvfsAssumption DEF Shallow
<1>. QED  BY <1>9, <1>10 DEF t

\* The trees of a mount.
GoodTree(t) == Sound(t, Real) /\ Shallow(t)
GoodTrees == {t \in UNION {[K -> Item(Real)] : K \in SUBSET Seq(Key)} : GoodTree(t)}

\* Every good tree is one of them.
LEMMA GoodTreesAll ==
  ASSUME NEW t, GoodTree(t)
  PROVE  t \in GoodTrees
<1>1. t = [k \in DOMAIN t |-> t[k]] /\ DOMAIN t \in SUBSET Seq(Key)
      /\ \A k \in DOMAIN t : t[k] \in Item(Real)
  BY DEF GoodTree, Sound, IsTree
<1>2. t \in [DOMAIN t -> Item(Real)]
  BY <1>1
<1>. QED  BY <1>1, <1>2 DEF GoodTrees

\* Merging good trees yields a good one.
LEMMA MergedGood ==
  ASSUME NEW t, GoodTree(t), NEW s, GoodTree(s)
  PROVE  GoodTree(Merged(t, s))
<1>1. DOMAIN Merged(t, s) = DOMAIN t \cup DOMAIN s
  BY DEF Merged
<1>2. Shallow(Merged(t, s))
  BY <1>1, ShallowKeys DEF GoodTree
<1>3. Sound(Merged(t, s), Real)
  BY MergedSound DEF GoodTree
<1>. QED  BY <1>2, <1>3 DEF GoodTree

\* So does adding an item where there is a directory for it.
LEMMA AddedGood ==
  ASSUME NEW t, GoodTree(t), NEW p \in Seq(Name), NEW real \in Real, NEW type \in Type,
         NEW update \in BOOLEAN, AddError(t, p, update) = "ok"
  PROVE  GoodTree(Added(t, p, real, type))
<1>1. Sound(Added(t, p, real, type), Real)
  BY AddedSound DEF GoodTree
<1>2. Shallow(Added(t, p, real, type))
  BY AddedShallow DEF GoodTree
<1>. QED  BY <1>1, <1>2 DEF GoodTree

\* A file linked at the top of a tree is there in a good tree.
LEMMA WithLinksGood ==
  ASSUME NEW t, GoodTree(t)
  PROVE  GoodTree(WithLinks(t))
<1>. DEFINE link == CHOOSE l \in Links : TRUE
            p == <<link.name>>
<1>1. CASE Links = {}
  BY <1>1 DEF WithLinks
<1>2. CASE Links # {}
  <2>1. link \in Links
    BY <1>2
  <2>2. link.name \in Name /\ link.real \in Real
    BY <2>1, UsvfsAssumption
  <2>. HIDE DEF link
  <2>3. p \in Seq(Name) /\ Len(p) = 1 /\ p # <<>>
    BY <2>2
  <2>. HIDE DEF p
  <2>4. Fold(p) \in Seq(Key) /\ Len(Fold(p)) = 1 /\ Fold(p) # <<>>
    BY <2>3, FoldProperties
  <2>5. Parent(Fold(p)) \in Seq(Key) /\ Len(Parent(Fold(p))) = 0
    BY <2>4, ParentProperties
  <2>6. Parent(Fold(p)) = <<>>
    BY <2>5, EmptySeq
  <2>7. AddError(t, p, TRUE) = "ok"
    BY <2>3, <2>6 DEF AddError, GoodTree, Sound, IsTree
  <2>8. GoodTree(Added(t, p, link.real, "file"))
    BY <2>2, <2>3, <2>7, AddedGood DEF Type
  <2>9. WithLinks(t) = Added(t, p, link.real, "file")
    BY <1>2 DEF WithLinks, link, p
  <2>. QED  BY <2>8, <2>9
<1>. QED  BY <1>1, <1>2

\* The tree of a mount is laid layer over layer, and good after each.
LEMMA LinkedTreeLaid ==
  ASSUME NEW d, IsDisk(d), GivenDirs(d), NEW layers \in Seq(DOMAIN HostDirs), layers # <<>>
  PROVE  \E laid :
           /\ LinkedTree(d, layers) = laid[Len(layers)]
           /\ laid[1] = WithLinks(Scan(d, layers[1]))
           /\ \A i \in 1..Len(layers) :
                /\ GoodTree(laid[i])
                /\ i # 1 => laid[i] = Merged(laid[i - 1], Scan(d, layers[i]))
<1>. DEFINE n == Len(layers)
            First == WithLinks(Scan(d, layers[1]))
            Over(t, i) == Merged(t, Scan(d, layers[i]))
            G == [x \in (1..n) \X GoodTrees |-> Over(x[2], x[1])]
            Asks(e) ==
              e = [i \in 1..Len(layers) |->
                     IF i = 1 THEN WithLinks(Scan(d, layers[1]))
                     ELSE Merged(e[i - 1], Scan(d, layers[i]))]
            laid == CHOOSE e : Asks(e)
<1>1. n \in Nat /\ n >= 1 /\ \A i \in 1..n : layers[i] \in DOMAIN HostDirs
  BY LenProperties, EmptySeq
<1>2. \A i \in 1..n : GoodTree(Scan(d, layers[i]))
  BY <1>1, ScanSound DEF GoodTree
<1>3. GoodTree(First)
  BY <1>1, <1>2, WithLinksGood
<1>4. ASSUME NEW i \in 1..n, NEW t, GoodTree(t)
      PROVE  GoodTree(Over(t, i))
  BY <1>2, <1>4, MergedGood
<1>5. First \in GoodTrees /\ \A i \in 1..n : \A t \in GoodTrees : Over(t, i) \in GoodTrees
  <2>. HIDE DEF First, Over
  <2>. QED  BY <1>3, <1>4, GoodTreesAll DEF GoodTrees
<1>6. G \in [(1..n) \X GoodTrees -> GoodTrees]
  <2>. HIDE DEF Over
  <2>. QED  BY <1>5
<1>7. PICK f \in [1..n -> GoodTrees] : ByRecursion(f, 1, n, First, G)
  <2>. HIDE DEF G, First, n
  <2>. QED  BY <1>1, <1>5, <1>6, Recursion
<1>8. ASSUME NEW i \in 1..n
      PROVE  f[i] = IF i = 1 THEN First ELSE Over(f[i - 1], i)
  <2>. HIDE DEF First, Over
  <2>1. CASE i = 1
    BY <1>7, <2>1 DEF ByRecursion
  <2>2. CASE i # 1
    <3>1. i - 1 \in 1..n
      BY <1>1, <2>2
    <3>2. <<i, f[i - 1]>> \in (1..n) \X GoodTrees
      BY <1>7, <3>1
    <3>3. G[<<i, f[i - 1]>>] = Over(f[i - 1], i)
      BY <3>2
    <3>. HIDE DEF G
    <3>. QED  BY <1>7, <2>2, <3>3 DEF ByRecursion
  <2>. QED  BY <2>1, <2>2
<1>9. Asks(f)
  <2>1. f = [i \in 1..n |-> IF i = 1 THEN First ELSE Over(f[i - 1], i)]
    <3>. HIDE DEF First, Over
    <3>. QED  BY <1>7, <1>8
  <2>. QED  BY <2>1
<1>10. Asks(laid)
  <2>. HIDE DEF Asks
  <2>. QED  BY <1>9
<1>11. LinkedTree(d, layers) = laid[n]
  BY DEF LinkedTree
<1>12. \A i \in 1..n : laid[i] = IF i = 1 THEN First ELSE Over(laid[i - 1], i)
  <2>. HIDE DEF laid
  <2>. QED  BY <1>10
<1>. HIDE DEF laid, Asks, G, First, Over
<1>. DEFINE H == {i \in Nat : GoodTree(laid[i])}
<1>13. 1 \in H
  BY <1>1, <1>3, <1>12
<1>14. ASSUME NEW i \in 1..n, i # 1, i - 1 \in H  PROVE i \in H
  <2>1. GoodTree(Over(laid[i - 1], i))
    BY <1>4, <1>14
  <2>. QED  BY <1>12, <1>14, <2>1
<1>. HIDE DEF H
<1>15. 1..n \subseteq H
  <2>. HIDE DEF n
  <2>. QED  BY <1>1, <1>13, <1>14, Induction
<1>16. \A i \in 1..n : GoodTree(laid[i])
  BY <1>1, <1>15 DEF H
<1>17. laid[1] = First /\ \A i \in 1..n : i # 1 => laid[i] = Over(laid[i - 1], i)
  BY <1>1, <1>12
<1>. QED  BY <1>11, <1>16, <1>17 DEF First, Over

\* It is a good tree.
LEMMA LinkedTreeGood ==
  ASSUME NEW d, IsDisk(d), GivenDirs(d), NEW layers \in Seq(DOMAIN HostDirs), layers # <<>>
  PROVE  GoodTree(LinkedTree(d, layers))
<1>1. Len(layers) \in 1..Len(layers)
  BY LenProperties, EmptySeq
<1>. QED  BY <1>1, LinkedTreeLaid

-----------------------------------------------------------------------------
(***************************************************************************)
(* Descriptors.                                                            *)
(***************************************************************************)
\* A descriptor in the map is 0 or that of a directory; the upper directory has
\* one.
FdMapGood(m, d) ==
  /\ \A q \in DOMAIN m : m[q] = Stdin \/ (m[q] \in DOMAIN d /\ d[m[q]].kind = "dir")
  /\ UpperDir # "" => RealKey(<<UpperDir>>) \in DOMAIN m

\* A system call gets past its descriptor only on a directory.
LEMMA HandleType ==
  ASSUME NEW m, NEW d, FdMapGood(m, d), NEW r
  PROVE  /\ FdError(At(m, r)) = "ok" => At(m, r) \in DOMAIN d /\ d[At(m, r)].kind = "dir"
         /\ At(m, r) \in DOMAIN d \cup {NoFd, Stdin}
BY DEF FdMapGood, At, FdError

\* The map of a disk that has kept its inodes is still good.
LEMMA FdMapKeeps ==
  ASSUME NEW m, NEW d, FdMapGood(m, d), NEW e, KeepsInodes(d, e)
  PROVE  FdMapGood(m, e)
BY DEF FdMapGood, KeepsInodes

\* Putting in the descriptor of a directory keeps a map good, and so does 0.
LEMMA PutGood ==
  ASSUME NEW m, NEW d, FdMapGood(m, d), NEW r,
         NEW h, h = Stdin \/ (h \in DOMAIN d /\ d[h].kind = "dir")
  PROVE  FdMapGood(Put(m, r, h), d)
<1>1. DOMAIN Put(m, r, h) = DOMAIN m \cup {RealKey(r)}
  BY DEF Put
<1>2. \A q \in DOMAIN Put(m, r, h) : Put(m, r, h)[q] = IF q = RealKey(r) THEN h ELSE m[q]
  BY DEF Put
<1>. QED  BY <1>1, <1>2 DEF FdMapGood

\* What rename reads puts 0 into the map at most.
LEMMA TouchedGood ==
  ASSUME NEW m, NEW d, FdMapGood(m, d), NEW r
  PROVE  FdMapGood(Touched(m, r), d)
<1>1. FdMapGood(Put(m, r, Stdin), d)
  BY PutGood
<1>. QED  BY <1>1 DEF Touched

\* A directory that is given to the program is a real path.
LEMMA GivenPath ==
  ASSUME NEW top \in DOMAIN HostDirs
  PROVE  IsRealPath(<<top>>)
<1>. DEFINE S == Name \cup DOMAIN HostDirs
<1>1. <<top>> \in Seq(S) /\ Len(<<top>>) = 1 /\ <<top>>[1] = top
  OBVIOUS
<1>. HIDE DEF S
<1>2. <<top>> # <<>>
  BY <1>1, EmptySeq
<1>. QED  BY <1>1, <1>2 DEF IsRealPath, Real, S

\* What is opened is given, or below what is given.
LEMMA OpenedDirsType ==
  ASSUME NEW layers \in Seq(DOMAIN HostDirs), NEW r \in OpenedDirs(layers)
  PROVE  IsRealPath(r)
<1>. DEFINE Upper == IF UpperDir = "" THEN {} ELSE {<<UpperDir>>}
<1>0. OpenedDirs(layers) = DirsBelow(layers) \cup DirsOfLinks \cup Upper
  BY DEF OpenedDirs
<1>. HIDE DEF Upper
<1>1. CASE r \in DirsBelow(layers)
  <2>1. PICK top \in ToSet(layers), p \in HostPaths : r = <<top>> \o p
    BY <1>1 DEF DirsBelow
  <2>2. top \in DOMAIN HostDirs /\ p \in Seq(Name)
    BY ListOf, HostPathsType
  <2>. QED  BY <2>1, <2>2, JoinedPath
<1>2. CASE r \in DirsOfLinks
  <2>1. PICK l \in Links : r = Parent(l.real)
    BY <1>2 DEF DirsOfLinks
  <2>. DEFINE s == l.real
  <2>2. /\ s \in Seq(Name \cup DOMAIN HostDirs) /\ Len(s) > 1
        /\ s[1] \in DOMAIN HostDirs
    BY UsvfsAssumption DEF Real
  <2>. HIDE DEF s
  <2>3. s # <<>> /\ Len(s) \in Nat
    BY <2>2, EmptySeq, LenProperties
  <2>4. /\ Parent(s) \in Seq(Name \cup DOMAIN HostDirs)
        /\ Len(Parent(s)) = Len(s) - 1
        /\ \A i \in 1..Len(s) - 1 : Parent(s)[i] = s[i]
    BY <2>2, <2>3, ParentOf
  <2>5. Parent(s) # <<>> /\ Parent(s)[1] = s[1]
    BY <2>2, <2>3, <2>4, EmptySeq
  <2>6. r = Parent(s)
    BY <2>1 DEF s
  <2>. QED  BY <2>2, <2>4, <2>5, <2>6 DEF IsRealPath, Real
<1>3. CASE r \in Upper
  <2>1. UpperDir # "" /\ r = <<UpperDir>>
    BY <1>3 DEF Upper
  <2>2. UpperDir \in DOMAIN HostDirs
    BY <2>1, UsvfsAssumption
  <2>3. IsRealPath(<<UpperDir>>)
    BY <2>2, GivenPath
  <2>. QED  BY <2>1, <2>3
<1>. QED  BY <1>0, <1>1, <1>2, <1>3

\* The map of the directories that have been walked is good.
LEMMA InitFdMapGood ==
  ASSUME NEW d, IsDisk(d), GivenDirs(d), NEW layers \in Seq(DOMAIN HostDirs)
  PROVE  FdMapGood(InitFdMap(d, layers), d)
<1>. DEFINE opened == {r \in OpenedDirs(layers) :
                         HostId(d, r) # NoFd /\ d[HostId(d, r)].kind = "dir"}
            Of(q) == CHOOSE r \in opened : RealKey(r) = q
            m == InitFdMap(d, layers)
<1>. DEFINE Upper == IF UpperDir = "" THEN {} ELSE {<<UpperDir>>}
<1>0. OpenedDirs(layers) = DirsBelow(layers) \cup DirsOfLinks \cup Upper
  BY DEF OpenedDirs
<1>. HIDE DEF Upper
<1>1. \A r \in OpenedDirs(layers) : IsRealPath(r)
  BY OpenedDirsType
<1>2. DOMAIN m = {RealKey(r) : r \in opened} /\ \A q \in DOMAIN m : m[q] = HostId(d, Of(q))
  BY DEF InitFdMap
<1>3. ASSUME NEW q \in DOMAIN m
      PROVE  m[q] \in DOMAIN d /\ d[m[q]].kind = "dir"
  <2>1. Of(q) \in opened
    BY <1>2
  <2>. HIDE DEF Of
  <2>2. IsRealPath(Of(q)) /\ HostId(d, Of(q)) # NoFd /\ d[HostId(d, Of(q))].kind = "dir"
    BY <1>1, <2>1
  <2>3. HostId(d, Of(q)) \in DOMAIN d \cup {NoFd}
    BY <2>2, HostIdType
  <2>. HIDE DEF m
  <2>. QED  BY <1>2, <2>2, <2>3
<1>4. ASSUME UpperDir # ""
      PROVE  RealKey(<<UpperDir>>) \in DOMAIN m
  <2>. DEFINE r == <<UpperDir>>
  <2>8. r \in Upper
    BY <1>4 DEF Upper
  <2>1. r \in OpenedDirs(layers)
    BY <1>0, <2>8
  <2>2. UpperDir \in DOMAIN HostDirs
    BY <1>4, UsvfsAssumption
  <2>. DEFINE n == Len(r)
              top == r[1]
  <2>7. n = 1 /\ top = UpperDir
    OBVIOUS
  <2>. HIDE DEF r
  <2>3. HostId(d, r) = HostDirs[UpperDir]
    BY <1>1, <2>1, <2>7, HostIdType
  <2>4. HostDirs[UpperDir] # NoFd /\ d[HostDirs[UpperDir]].kind = "dir"
    BY <2>2, DiskParts DEF GivenDirs, NoFd
  <2>5. r \in opened
    BY <2>1, <2>3, <2>4
  <2>. HIDE DEF opened, m
  <2>6. RealKey(r) \in DOMAIN m
    BY <1>2, <2>5
  <2>. QED  BY <2>6 DEF r
<1>. HIDE DEF m
<1>5. FdMapGood(m, d)
  BY <1>3, <1>4 DEF FdMapGood
<1>. QED  BY <1>5 DEF m

\* What the system calls and the functions of the tree answer.
LEMMA ErrorTypes ==
  ASSUME NEW d, NEW g, NEW h, NEW n, NEW m, NEW b, NEW t, NEW p
  PROVE  /\ FdError(h) \in Errors /\ EntryError(d, h, n) \in Errors
         /\ FollowError(d, h, n) \in Errors /\ MakeError(d, h, n) \in Errors
         /\ UnlinkError(d, h, n, b) \in Errors /\ RenameError(d, g, n, h, m, b) \in Errors
         /\ AddError(t, p, b) \in Errors /\ EraseError(t, p) \in Errors
         /\ OpenCreateError(d, h, n, b) \in Errors
<1>1. FdError(h) \in Errors
  BY DEF FdError, Errors
<1>2. \A x, y : EntryError(d, x, y) \in Errors
  BY DEF EntryError, FdError, Errors
<1>3. FollowError(d, h, n) \in Errors
  BY <1>2 DEF FollowError, Errors
<1>4. MakeError(d, h, n) \in Errors
  BY <1>1 DEF MakeError, Errors
<1>5. UnlinkError(d, h, n, b) \in Errors
  BY <1>2 DEF UnlinkError, Errors
<1>6. RenameError(d, g, n, h, m, b) \in Errors
  BY <1>1, <1>2 DEF RenameError, Errors
<1>7. AddError(t, p, b) \in Errors /\ EraseError(t, p) \in Errors
  BY DEF AddError, EraseError, Errors
<1>8. OpenCreateError(d, h, n, b) \in Errors
  BY <1>3, <1>4 DEF OpenCreateError, Errors
<1>. QED  BY <1>1, <1>2, <1>3, <1>4, <1>5, <1>6, <1>7, <1>8


-----------------------------------------------------------------------------
(***************************************************************************)
(* The inductive invariant.  Beyond the types it says that the tree is of  *)
(* finite depth (isEmpty() then answers TRUE of every item, so erase()     *)
(* never refuses), that the directories given to the program stay where    *)
(* they are, and that the upper directory stays open.                      *)
(***************************************************************************)
IInv ==
  /\ GoodTree(tree)
  /\ IsDisk(disk) /\ GivenDirs(disk)
  /\ FdMapGood(fdMap, disk)
  /\ ret.call \in Calls \cup {"none"} /\ ret.err \in Errors

\* What each step has to be shown to do.
Kept == IInv' /\ (ret'.err # "ok" => tree' = tree)

\* Inodes that stay keep the directories given to the program.
LEMMA GivenDirsKept ==
  ASSUME NEW d, GivenDirs(d), NEW e, KeepsInodes(d, e)
  PROVE  GivenDirs(e)
BY DEF GivenDirs, KeepsInodes

\* A call that only answers.
LEMMA OnlyAnswers ==
  ASSUME IInv, UNCHANGED <<tree, fdMap, disk>>, ret'.call \in Calls, ret'.err \in Errors
  PROVE  Kept
BY DEF Kept, IInv

\* A call that is refused.
LEMMA FailsKeeps ==
  ASSUME IInv, NEW call \in Calls, NEW f, NEW t, NEW err \in Errors, Fails(call, f, t, err)
  PROVE  Kept
BY OnlyAnswers DEF Fails, Reply

\* A call that only reads.
LEMMA ReadsKeeps ==
  ASSUME IInv, NEW call \in Calls, NEW p, NEW err \in Errors, NEW h, NEW n,
         Reads(call, p, err, h, n)
  PROVE  Kept
BY OnlyAnswers DEF Reads, ReplyWith

\* Each call writes its own name.
LEMMA CallNames ==
  \A c \in {"readlink", "mkdir", "unlink", "rmdir", "rename", "chmod", "truncate", "create",
            "open", "statfs", "readdir", "remount"} : c \in Calls
BY DEF Calls

\* The parent of a path a process uses, and its last name.
LEMMA PathParts ==
  ASSUME NEW p \in Paths, p # <<>>
  PROVE  /\ p \in Seq(Name) /\ Base(p) \in Name /\ Parent(p) \in Seq(Name)
         /\ Fold(p) \in Seq(Key) /\ Fold(p) # <<>> /\ Fold(Parent(p)) = Parent(Fold(p))
<1>1. p \in Seq(Name)
  BY UsvfsAssumption
<1>. QED  BY <1>1, FoldProperties, FoldBase, FoldParent

\* What operator[] finds is a descriptor or 0.
LEMMA HandleThere ==
  ASSUME IInv, NEW q \in DOMAIN fdMap
  PROVE  fdMap[q] # NoFd
<1>. DEFINE h == fdMap[q]
<1>1. h = Stdin \/ h \in DOMAIN disk
  BY DEF IInv, FdMapGood
<1>2. DOMAIN disk = 1..Len(disk) /\ Len(disk) \in Nat
  BY DiskParts DEF IInv
<1>. HIDE DEF h
<1>3. h # NoFd
  BY <1>1, <1>2 DEF Stdin, NoFd
<1>. QED  BY <1>3 DEF h

\* The last part of a path below a directory is a name.
LEMMA LastOfPath ==
  ASSUME NEW top \in DOMAIN HostDirs, NEW q \in Seq(Name), NEW r, r = <<top>> \o q
  PROVE  /\ q = <<>> => r = <<top>>
         /\ q # <<>> => Base(r) \in Name
<1>1. ASSUME q = <<>>
      PROVE  r = <<top>>
  <2>. DEFINE s == <<top>>
  <2>1. s \in Seq(DOMAIN HostDirs)
    OBVIOUS
  <2>2. r = s \o <<>>
    BY <1>1
  <2>. HIDE DEF s
  <2>3. r = s
    BY <2>1, <2>2, ConcatEmptySeq
  <2>. QED  BY <2>3 DEF s
<1>2. ASSUME q # <<>>
      PROVE  Base(r) \in Name
  <2>. DEFINE n == Len(q)
              j == Len(q) + 1
  <2>1. n \in Nat \ {0} /\ \A i \in 1..n : q[i] \in Name
    BY <1>2, EmptySeq, LenProperties, ListOf
  <2>2. Len(r) = j /\ \A i \in 2..j : r[i] = q[i - 1]
    BY JoinedPath
  <2>3. j = n + 1
    OBVIOUS
  <2>. HIDE DEF n, j
  <2>4. j \in 2..j /\ j - 1 = n /\ n \in 1..n
    BY <2>1, <2>3
  <2>5. r[j] = q[n]
    BY <2>2, <2>4
  <2>6. q[n] \in Name
    BY <2>1, <2>4
  <2>. QED  BY <2>2, <2>5, <2>6 DEF Base
<1>. QED  BY <1>1, <1>2

\* Where a new item goes: its parent's real path, or one below the upper
\* directory, which is open.
LEMMA RealParentOf ==
  ASSUME NEW q \in Seq(Name), NEW real, IInv,
         \/ UpperDir = "" /\ real \in Real
         \/ UpperDir # "" /\ real = <<UpperDir>> \o q
  PROVE  /\ real \in Real
         /\ UpperDir # "" /\ At(fdMap, real) = NoFd => Base(real) \in Name
<1>1. CASE UpperDir = ""
  BY <1>1
<1>2. CASE UpperDir # ""
  <2>1. UpperDir \in DOMAIN HostDirs /\ real = <<UpperDir>> \o q
    BY <1>2, UsvfsAssumption
  <2>2. IsRealPath(real)
    BY <2>1, JoinedPath
  <2>3. CASE q = <<>>
    <3>1. real = <<UpperDir>>
      BY <2>1, <2>3, LastOfPath
    <3>2. RealKey(real) \in DOMAIN fdMap
      BY <3>1, <1>2 DEF IInv, FdMapGood
    <3>3. At(fdMap, real) # NoFd
      BY <3>2, HandleThere DEF At
    <3>. QED  BY <2>2, <3>3 DEF IsRealPath
  <2>4. CASE q # <<>>
    BY <2>1, <2>2, <2>4, LastOfPath DEF IsRealPath
  <2>. QED  BY <2>3, <2>4
<1>. QED  BY <1>1, <1>2

\* Whatever createParentDir() does, the disk and the map stay good.
LEMMA ParentDirGood ==
  ASSUME IInv, NEW real, NEW fails,
         UpperDir # "" /\ At(fdMap, real) = NoFd => Base(real) \in Name
  PROVE  LET in == ParentDir(real, fails)
         IN  /\ IsDisk(in.disk) /\ KeepsInodes(disk, in.disk)
             /\ FdMapGood(in.fdMap, in.disk)
             /\ in.err \in Errors
<1>. DEFINE fd == At(fdMap, real)
            up == At(fdMap, Parent(real))
            err == MakeError(disk, up, Base(real))
            made == Made(disk, up, Base(real), "dir")
            top == Opened(fdMap, Parent(real), Base(real), Len(made))
            in == ParentDir(real, fails)
<1>1. in = IF fd # NoFd \/ UpperDir = ""
           THEN [err |-> "ok", fd |-> fd, disk |-> disk, fdMap |-> fdMap]
           ELSE IF err # "ok" THEN [err |-> err, fd |-> NoFd, disk |-> disk, fdMap |-> fdMap]
           ELSE IF fails THEN [err |-> "EMFILE", fd |-> NoFd, disk |-> made, fdMap |-> fdMap]
           ELSE [err |-> "ok", fd |-> Len(made), disk |-> made, fdMap |-> top]
  BY Zenon DEF ParentDir
<1>2. IsDisk(disk) /\ FdMapGood(fdMap, disk) /\ KeepsInodes(disk, disk)
  BY DEF IInv, KeepsInodes
<1>3. err \in Errors
  BY ErrorTypes
<1>4. ASSUME ~(fd # NoFd \/ UpperDir = "")
      PROVE  /\ IsDisk(made) /\ KeepsInodes(disk, made)
             /\ FdMapGood(fdMap, made) /\ FdMapGood(top, made)
  <2>1. Base(real) \in Name
    BY <1>4
  <2>2. "dir" \in NodeKinds
    BY DEF NodeKinds
  <2>3. /\ IsDisk(made) /\ KeepsInodes(disk, made) /\ Len(made) = Len(disk) + 1
        /\ Len(disk) + 1 \in DOMAIN made /\ made[Len(disk) + 1].kind = "dir"
    BY <1>2, <2>1, <2>2, MadeDisk
  <2>. HIDE DEF made
  <2>4. FdMapGood(fdMap, made)
    BY <1>2, <2>3, FdMapKeeps
  <2>5. Len(made) \in DOMAIN made /\ made[Len(made)].kind = "dir"
    BY <2>3
  <2>6. FdMapGood(top, made)
    BY <2>4, <2>5, PutGood DEF Opened
  <2>. QED  BY <2>3, <2>4, <2>6
<1>5. "ok" \in Errors /\ "EMFILE" \in Errors
  BY DEF Errors
<1>. HIDE DEF fd, err, made, top, in
<1>6. /\ IsDisk(in.disk) /\ KeepsInodes(disk, in.disk)
      /\ FdMapGood(in.fdMap, in.disk)
      /\ in.err \in Errors
  <2>1. CASE fd # NoFd \/ UpperDir = ""
    <3>1. in.err = "ok" /\ in.disk = disk /\ in.fdMap = fdMap
      BY <1>1, <2>1
    <3>. QED  BY <3>1, <1>2, <1>5
  <2>2. CASE ~(fd # NoFd \/ UpperDir = "") /\ err # "ok"
    <3>1. in.err = err /\ in.disk = disk /\ in.fdMap = fdMap
      BY <1>1, <2>2
    <3>. QED  BY <3>1, <1>2, <1>3
  <2>3. CASE ~(fd # NoFd \/ UpperDir = "") /\ err = "ok" /\ fails
    <3>1. in.err = "EMFILE" /\ in.disk = made /\ in.fdMap = fdMap
      BY <1>1, <2>3
    <3>. QED  BY <3>1, <1>4, <1>5, <2>3
  <2>4. CASE ~(fd # NoFd \/ UpperDir = "") /\ err = "ok" /\ ~fails
    <3>1. in.err = "ok" /\ in.disk = made /\ in.fdMap = top
      BY <1>1, <2>4
    <3>. QED  BY <3>1, <1>4, <1>5, <2>4
  <2>. QED  BY <2>1, <2>2, <2>3, <2>4
<1>. QED  BY <1>6 DEF in


\* The real directory mkdir and rename make an item in.
LEMMA NewRealParentGood ==
  ASSUME IInv, NEW p \in Paths, p # <<>>, Visible(tree, Parent(p))
  PROVE  /\ NewRealParent(p) \in Real
         /\ UpperDir # "" /\ At(fdMap, NewRealParent(p)) = NoFd => Base(NewRealParent(p)) \in Name
<1>. DEFINE k == Fold(Parent(p))
            q == FilePath(tree, k)
<1>1. k \in DOMAIN tree
  BY DEF Visible, Present
<1>2. Sound(tree, Real)
  BY DEF IInv, GoodTree
<1>3. tree[k].real \in Real
  <2>1. tree[k] \in Item(Real)
    BY <1>1, <1>2 DEF Sound, IsTree
  <2>. QED  BY <2>1 DEF Item
<1>4. q \in Seq(Name)
  BY <1>1, <1>2, FilePathType
<1>5. NewRealParent(p) = IF UpperDir = "" THEN tree[k].real ELSE <<UpperDir>> \o q
  BY Zenon DEF NewRealParent
<1>. HIDE DEF k, q
<1>6. \/ UpperDir = "" /\ NewRealParent(p) \in Real
      \/ UpperDir # "" /\ NewRealParent(p) = <<UpperDir>> \o q
  BY <1>3, <1>5, Zenon
<1>. QED  BY <1>4, <1>6, RealParentOf

\* The real directory create makes a file in.
LEMMA CreateRealParentGood ==
  ASSUME IInv, NEW p \in Paths, p # <<>>, UpperDir # "" \/ Visible(tree, Parent(p))
  PROVE  /\ CreateRealParent(p) \in Real
         /\ UpperDir # "" /\ At(fdMap, CreateRealParent(p)) = NoFd
              => Base(CreateRealParent(p)) \in Name
<1>. DEFINE k == Fold(Parent(p))
            q == Parent(p)
<1>1. ASSUME UpperDir = ""
      PROVE  tree[k].real \in Real
  <2>1. k \in DOMAIN tree
    BY <1>1 DEF Visible, Present
  <2>2. tree[k] \in Item(Real)
    BY <2>1 DEF IInv, GoodTree, Sound, IsTree
  <2>. QED  BY <2>2 DEF Item
<1>2. q \in Seq(Name)
  BY PathParts
<1>3. CreateRealParent(p) = IF UpperDir = "" THEN tree[k].real ELSE <<UpperDir>> \o q
  BY Zenon DEF CreateRealParent
<1>. HIDE DEF k, q
<1>4. \/ UpperDir = "" /\ CreateRealParent(p) \in Real
      \/ UpperDir # "" /\ CreateRealParent(p) = <<UpperDir>> \o q
  BY <1>1, <1>3, Zenon
<1>. QED  BY <1>2, <1>4, RealParentOf

-----------------------------------------------------------------------------
(***************************************************************************)
(* The handlers.                                                           *)
(***************************************************************************)
\* A directory that was deleted is marked present again, with the spelling
\* the caller used.
LEMMA MkdirExistingKeeps ==
  ASSUME IInv, NEW p \in Paths, p # <<>>, MkdirExisting(p)
  PROVE  Kept
<1>. DEFINE k == Fold(p)
            u == WithDeleted(tree, k, FALSE)
            v == WithName(u, k, Base(p))
<1>1. CASE ~tree[Fold(p)].deleted
  <2>1. "EEXIST" \in Errors /\ "mkdir" \in Calls
    BY DEF Errors, Calls
  <2>2. Fails("mkdir", p, p, "EEXIST")
    BY <1>1 DEF MkdirExisting
  <2>. QED  BY <2>1, <2>2, FailsKeeps
<1>2. CASE tree[Fold(p)].deleted
  <2>1. k \in DOMAIN tree
    BY DEF MkdirExisting, Present
  <2>2. Sound(tree, Real) /\ Shallow(tree)
    BY DEF IInv, GoodTree
  <2>3. Sound(u, Real)
    BY <2>1, <2>2, WithDeletedSound
  <2>4. DOMAIN u = DOMAIN tree
    BY DEF WithDeleted
  <2>5. p \in Seq(Name)
    BY PathParts
  <2>6. Sound(v, Real)
    <3>. HIDE DEF u
    <3>1. Present(u, p)
      BY <2>1, <2>4 DEF Present
    <3>. QED  BY <2>3, <2>5, <3>1, WithNameSound
  <2>7. DOMAIN v = DOMAIN u
    BY DEF WithName
  <2>. HIDE DEF u, v
  <2>8. Shallow(v)
    BY <2>2, <2>4, <2>7, ShallowKeys
  <2>9. tree' = v /\ Reply("mkdir", p, p, "ok") /\ UNCHANGED <<fdMap, disk>>
    BY <1>2 DEF MkdirExisting, v, u
  <2>10. ret'.call = "mkdir" /\ ret'.err = "ok"
    BY <2>9 DEF Reply
  <2>11. "mkdir" \in Calls /\ "ok" \in Errors
    BY DEF Calls, Errors
  <2>12. GoodTree(tree')
    BY <2>6, <2>8, <2>9 DEF GoodTree
  <2>. QED  BY <2>9, <2>10, <2>11, <2>12 DEF Kept, IInv
<1>. QED  BY <1>1, <1>2

\* A new directory is made, opened, and added.
LEMMA MkdirNewKeeps ==
  ASSUME IInv, NEW p \in Paths, p # <<>>, NEW parentFails, NEW fails,
         MkdirNew(p, parentFails, fails)
  PROVE  Kept
<1>. DEFINE realParent == NewRealParent(p)
            n == Base(p)
            real == Append(realParent, n)
            in == ParentDir(realParent, parentFails)
            err == IF in.err # "ok" THEN in.err ELSE MakeError(in.disk, in.fd, n)
            made == Made(in.disk, in.fd, n, "dir")
            opened == Opened(in.fdMap, realParent, n, Len(in.disk) + 1)
            added == AddError(tree, p, FALSE)
<1>1. /\ p \in Seq(Name) /\ n \in Name
      /\ Visible(tree, Parent(p))
  BY PathParts DEF MkdirNew
<1>2. /\ realParent \in Real
      /\ UpperDir # "" /\ At(fdMap, realParent) = NoFd => Base(realParent) \in Name
  BY <1>1, NewRealParentGood
<1>3. real \in Real
  BY <1>1, <1>2, AppendProperties DEF Real
<1>4. /\ disk' = IF err = "ok" THEN made ELSE in.disk
      /\ \/ /\ err # "ok"
            /\ fdMap' = in.fdMap
            /\ Reply("mkdir", p, p, err)
            /\ UNCHANGED tree
         \/ /\ err = "ok" /\ fails
            /\ fdMap' = in.fdMap
            /\ Reply("mkdir", p, p, "EMFILE")
            /\ UNCHANGED tree
         \/ /\ err = "ok" /\ ~fails
            /\ fdMap' = opened
            /\ IF added = "ok"
               THEN tree' = Added(tree, p, real, "dir") /\ Reply("mkdir", p, p, "ok")
               ELSE Reply("mkdir", p, p, "EIO") /\ UNCHANGED tree
  BY Zenon DEF MkdirNew
<1>5. /\ IsDisk(in.disk) /\ KeepsInodes(disk, in.disk)
      /\ FdMapGood(in.fdMap, in.disk)
      /\ in.err \in Errors
  <2>. HIDE DEF realParent
  <2>. QED  BY <1>2, ParentDirGood
<1>. HIDE DEF in, realParent, n
<1>6. err \in Errors
  BY <1>5, ErrorTypes
<1>7. /\ IsDisk(made) /\ KeepsInodes(in.disk, made)
      /\ Len(in.disk) + 1 \in DOMAIN made /\ made[Len(in.disk) + 1].kind = "dir"
  <2>1. "dir" \in NodeKinds
    BY DEF NodeKinds
  <2>. QED  BY <1>1, <1>5, <2>1, MadeDisk
<1>8. KeepsInodes(disk, made)
  BY <1>5, <1>7 DEF KeepsInodes
<1>. HIDE DEF made
<1>9. FdMapGood(in.fdMap, made)
  BY <1>5, <1>7, FdMapKeeps
<1>10. FdMapGood(opened, made)
  BY <1>7, <1>9, PutGood DEF Opened
<1>. HIDE DEF err, opened, real, added
<1>11. IsDisk(disk') /\ GivenDirs(disk') /\ FdMapGood(fdMap', disk')
  <2>1. GivenDirs(disk)
    BY DEF IInv
  <2>2. CASE err = "ok"
    <3>1. disk' = made /\ (fdMap' = in.fdMap \/ fdMap' = opened)
      BY <1>4, <2>2
    <3>. QED  BY <2>1, <3>1, <1>7, <1>8, <1>9, <1>10, GivenDirsKept
  <2>3. CASE err # "ok"
    <3>1. disk' = in.disk /\ fdMap' = in.fdMap
      BY <1>4, <2>3
    <3>. QED  BY <2>1, <3>1, <1>5, GivenDirsKept
  <2>. QED  BY <2>2, <2>3
<1>12. "mkdir" \in Calls /\ {"ok", "EIO", "EMFILE"} \subseteq Errors
  BY DEF Calls, Errors
<1>13. \/ UNCHANGED tree /\ \E e \in Errors : Reply("mkdir", p, p, e)
       \/ added = "ok" /\ tree' = Added(tree, p, real, "dir") /\ Reply("mkdir", p, p, "ok")
  BY <1>4, <1>6, <1>12
<1>14. /\ ret'.call \in Calls /\ ret'.err \in Errors
       /\ ret'.err # "ok" => tree' = tree
  BY <1>12, <1>13 DEF Reply
<1>15. GoodTree(tree')
  <2>1. GoodTree(tree) /\ "dir" \in Type
    BY DEF IInv, Type
  <2>2. ASSUME added = "ok"
        PROVE  GoodTree(Added(tree, p, real, "dir"))
    BY <1>1, <1>3, <2>1, <2>2, AddedGood DEF added
  <2>. QED  BY <1>13, <2>1, <2>2
<1>. QED  BY <1>11, <1>14, <1>15 DEF Kept, IInv


\* mkdir, whatever it finds.
LEMMA MkdirKeeps ==
  ASSUME IInv, NEW p \in Paths, Mkdir(p)
  PROVE  Kept
<1>1. p # <<>>
  BY DEF Mkdir, Walkable
<1>2. CASE MkdirExisting(p)
  BY <1>1, <1>2, MkdirExistingKeeps
<1>3. CASE \E parentFails, fails \in Faults : MkdirNew(p, parentFails, fails)
  BY <1>1, <1>3, MkdirNewKeeps
<1>4. CASE MkdirNoParent(p)
  <2>1. "ENOENT" \in Errors /\ "mkdir" \in Calls
    BY DEF Errors, Calls
  <2>2. Fails("mkdir", p, p, "ENOENT")
    BY <1>4 DEF MkdirNoParent
  <2>. QED  BY <2>1, <2>2, FailsKeeps
<1>. QED  BY <1>2, <1>3, <1>4 DEF Mkdir

\* A file is opened, made on disk if it is not there, and added if the tree
\* does not show it.
LEMMA CreateFileKeeps ==
  ASSUME IInv, NEW p \in Paths, p # <<>>, NEW excl, NEW parentFails,
         CreateFile(p, excl, parentFails)
  PROVE  Kept
<1>. DEFINE realParent == CreateRealParent(p)
            n == Base(p)
            real == Append(realParent, n)
            in == ParentDir(realParent, parentFails)
            err == IF in.err # "ok" THEN in.err ELSE OpenCreateError(in.disk, in.fd, n, excl)
            made == Made(in.disk, in.fd, n, "file")
            opened == disk'[in.fd].names[n]
            added == AddError(tree, p, FALSE)
<1>1. /\ p \in Seq(Name) /\ n \in Name
      /\ UpperDir # "" \/ Visible(tree, Parent(p))
  BY PathParts DEF CreateFile
<1>2. /\ realParent \in Real
      /\ UpperDir # "" /\ At(fdMap, realParent) = NoFd => Base(realParent) \in Name
  BY <1>1, CreateRealParentGood
<1>3. real \in Real
  BY <1>1, <1>2, AppendProperties DEF Real
<1>4. /\ fdMap' = in.fdMap
      /\ IF err # "ok"
         THEN /\ disk' = in.disk
              /\ Reply("create", p, p, err)
              /\ UNCHANGED tree
         ELSE /\ disk' = IF n \in Entries(in.disk, in.fd) THEN in.disk ELSE made
              /\ IF Visible(tree, p)
                 THEN ReplyWith("create", p, "ok", opened) /\ UNCHANGED tree
                 ELSE /\ tree' = IF added = "ok" THEN Added(tree, p, real, "file") ELSE tree
                      /\ ReplyWith("create", p, added, opened)
  BY Zenon DEF CreateFile
<1>5. /\ IsDisk(in.disk) /\ KeepsInodes(disk, in.disk)
      /\ FdMapGood(in.fdMap, in.disk)
      /\ in.err \in Errors
  <2>. HIDE DEF realParent
  <2>. QED  BY <1>2, ParentDirGood
<1>. HIDE DEF in, realParent, n
<1>6. err \in Errors /\ added \in Errors
  BY <1>5, ErrorTypes
<1>7. IsDisk(made) /\ KeepsInodes(in.disk, made)
  <2>1. "file" \in NodeKinds
    BY DEF NodeKinds
  <2>. QED  BY <1>1, <1>5, <2>1, MadeDisk
<1>8. KeepsInodes(disk, made)
  BY <1>5, <1>7 DEF KeepsInodes
<1>. HIDE DEF made
<1>9. FdMapGood(in.fdMap, made)
  BY <1>5, <1>7, FdMapKeeps
<1>. HIDE DEF err, opened, real, added
<1>11. IsDisk(disk') /\ GivenDirs(disk') /\ FdMapGood(fdMap', disk')
  <2>1. GivenDirs(disk)
    BY DEF IInv
  <2>2. fdMap' = in.fdMap /\ (disk' = made \/ disk' = in.disk)
    BY <1>4
  <2>3. CASE disk' = made
    BY <2>1, <2>2, <2>3, <1>7, <1>8, <1>9, GivenDirsKept
  <2>4. CASE disk' = in.disk
    BY <2>1, <2>2, <2>4, <1>5, GivenDirsKept
  <2>. QED  BY <2>2, <2>3, <2>4
<1>12. "create" \in Calls /\ "ok" \in Errors
  BY DEF Calls, Errors
<1>13. /\ ret'.call = "create" /\ ret'.err \in Errors
       /\ \/ tree' = tree
          \/ added = "ok" /\ tree' = Added(tree, p, real, "file") /\ ret'.err = "ok"
  BY <1>4, <1>6, <1>12 DEF Reply, ReplyWith
<1>15. GoodTree(tree')
  <2>1. GoodTree(tree) /\ "file" \in Type
    BY DEF IInv, Type
  <2>2. ASSUME added = "ok"
        PROVE  GoodTree(Added(tree, p, real, "file"))
    BY <1>1, <1>3, <2>1, <2>2, AddedGood DEF added
  <2>. QED  BY <1>13, <2>1, <2>2
<1>. QED  BY <1>11, <1>12, <1>13, <1>15 DEF Kept, IInv

\* create, whatever it finds.
LEMMA CreateKeeps ==
  ASSUME IInv, NEW p \in Paths, Create(p)
  PROVE  Kept
<1>1. p # <<>>
  BY DEF Create, Walkable
<1>2. CASE \E excl \in BOOLEAN, parentFails \in Faults : CreateFile(p, excl, parentFails)
  BY <1>1, <1>2, CreateFileKeeps
<1>3. CASE CreateNoParent(p)
  <2>1. "ENOENT" \in Errors /\ "create" \in Calls
    BY DEF Errors, Calls
  <2>2. Fails("create", p, p, "ENOENT")
    BY <1>3 DEF CreateNoParent
  <2>. QED  BY <2>1, <2>2, FailsKeeps
<1>. QED  BY <1>2, <1>3 DEF Create

\* An item of a good tree can be erased, and the tree is good without it.
LEMMA ErasedGood ==
  ASSUME NEW t, GoodTree(t), NEW p \in Seq(Name), p # <<>>, Present(t, p),
         NEW reallyErase \in BOOLEAN
  PROVE  EraseError(t, p) = "ok" /\ GoodTree(Erased(t, p, reallyErase))
<1>1. EraseError(t, p) = "ok"
  BY EraseAllowed DEF GoodTree
<1>2. Sound(Erased(t, p, reallyErase), Real)
  BY <1>1, ErasedSound DEF GoodTree
<1>3. DOMAIN Erased(t, p, reallyErase) \subseteq DOMAIN t
  BY DEF Erased
<1>. DEFINE u == Erased(t, p, reallyErase)
<1>. HIDE DEF u
<1>4. DOMAIN u \subseteq DOMAIN t
  BY <1>3 DEF u
<1>5. Shallow(u)
  BY <1>4, ShallowKeys DEF GoodTree
<1>. QED  BY <1>1, <1>2, <1>5 DEF GoodTree, u

\* What is left on disk when a name is removed.
LEMMA RemovedGood ==
  ASSUME IInv, NEW p
  PROVE  /\ IsDisk(RemovedFromDisk(p)) /\ GivenDirs(RemovedFromDisk(p))
         /\ FdMapGood(fdMap, RemovedFromDisk(p))
<1>. DEFINE d == RemovedFromDisk(p)
<1>1. IsDisk(disk) /\ GivenDirs(disk) /\ FdMapGood(fdMap, disk)
  BY DEF IInv
<1>2. IsDisk(d) /\ KeepsInodes(disk, d)
  BY <1>1, UnboundDisk DEF RemovedFromDisk
<1>. HIDE DEF d
<1>3. GivenDirs(d) /\ FdMapGood(fdMap, d)
  BY <1>1, <1>2, GivenDirsKept, FdMapKeeps
<1>. QED  BY <1>2, <1>3 DEF d

\* unlink marks what it has removed from disk.
LEMMA UnlinkKeeps ==
  ASSUME IInv, NEW p \in Paths, Unlink(p)
  PROVE  Kept
<1>. DEFINE at == OnDisk(p)
            err == UnlinkError(disk, at.dir, at.name, FALSE)
            erased == EraseError(tree, p)
<1>1. /\ Walkable(p)
      /\ IF ~Visible(tree, p)
         THEN Fails("unlink", p, p, "ENOENT")
         ELSE IF err # "ok"
         THEN Fails("unlink", p, p, err)
         ELSE /\ disk' = RemovedFromDisk(p)
              /\ tree' = IF erased = "ok" THEN Erased(tree, p, FALSE) ELSE tree
              /\ Reply("unlink", p, p, erased)
              /\ UNCHANGED fdMap
  BY Zenon DEF Unlink
<1>2. p # <<>> /\ p \in Seq(Name)
  BY <1>1, UsvfsAssumption DEF Walkable
<1>3. err \in Errors /\ {"ok", "ENOENT"} \subseteq Errors /\ "unlink" \in Calls
  BY ErrorTypes DEF Errors, Calls
<1>. HIDE DEF err
<1>4. CASE ~Visible(tree, p)
  BY <1>1, <1>3, <1>4, FailsKeeps
<1>5. CASE Visible(tree, p) /\ err # "ok"
  BY <1>1, <1>3, <1>5, FailsKeeps
<1>6. CASE Visible(tree, p) /\ err = "ok"
  <2>1. GoodTree(tree) /\ Present(tree, p)
    BY <1>6 DEF IInv, Visible
  <2>2. erased = "ok" /\ GoodTree(Erased(tree, p, FALSE))
    BY <1>2, <2>1, ErasedGood
  <2>3. /\ disk' = RemovedFromDisk(p) /\ fdMap' = fdMap
        /\ tree' = Erased(tree, p, FALSE)
        /\ Reply("unlink", p, p, "ok")
    BY <1>1, <1>6, <2>2
  <2>4. ret'.call = "unlink" /\ ret'.err = "ok"
    BY <2>3 DEF Reply
  <2>5. IsDisk(disk') /\ GivenDirs(disk') /\ FdMapGood(fdMap', disk')
    BY <2>3, RemovedGood
  <2>. QED  BY <1>3, <2>2, <2>3, <2>4, <2>5 DEF Kept, IInv
<1>. QED  BY <1>4, <1>5, <1>6

\* rmdir marks the directory alone.
LEMMA RmdirKeeps ==
  ASSUME IInv, NEW p \in Paths, Rmdir(p)
  PROVE  Kept
<1>1. RmdirError(p) \in Errors
  BY ErrorTypes DEF RmdirError, Errors
<1>2. "rmdir" \in Calls /\ "ok" \in Errors
  BY DEF Calls, Errors
<1>3. CASE RmdirError(p) # "ok"
  <2>1. Fails("rmdir", p, p, RmdirError(p))
    BY <1>3 DEF Rmdir
  <2>. QED  BY <1>1, <1>2, <2>1, FailsKeeps
<1>4. CASE RmdirError(p) = "ok"
  <2>. DEFINE k == Fold(p)
              u == WithDeleted(tree, k, TRUE)
  <2>1. /\ disk' = RemovedFromDisk(p) /\ fdMap' = fdMap
        /\ tree' = u
        /\ Reply("rmdir", p, p, "ok")
    BY <1>4 DEF Rmdir
  <2>2. k \in DOMAIN tree
    BY <1>4 DEF RmdirError, Visible, Present
  <2>3. Sound(tree, Real) /\ Shallow(tree)
    BY DEF IInv, GoodTree
  <2>4. Sound(u, Real)
    BY <2>2, <2>3, WithDeletedSound
  <2>5. DOMAIN u = DOMAIN tree
    BY DEF WithDeleted
  <2>. HIDE DEF u
  <2>6. GoodTree(tree')
    BY <2>1, <2>3, <2>4, <2>5, ShallowKeys DEF GoodTree
  <2>7. ret'.call = "rmdir" /\ ret'.err = "ok"
    BY <2>1 DEF Reply
  <2>8. IsDisk(disk') /\ GivenDirs(disk') /\ FdMapGood(fdMap', disk')
    BY <2>1, RemovedGood
  <2>. QED  BY <1>2, <2>6, <2>7, <2>8 DEF Kept, IInv
<1>. QED  BY <1>3, <1>4


\* What follows a rename on disk: the new item is added, the old one erased.
LEMMA RenameInTreeKeeps ==
  ASSUME IInv, NEW f \in Paths, f # <<>>, Visible(tree, f),
         NEW t \in Paths, NEW real \in Real, RenameInTree(f, t, real)
  PROVE  /\ GoodTree(tree')
         /\ ret'.call = "rename" /\ ret'.err \in Errors
         /\ ret'.err # "ok" => tree' = tree
<1>. DEFINE added == AddError(tree, t, FALSE)
            type == tree[Fold(f)].type
            with == Added(tree, t, real, type)
            erased == EraseError(with, f)
<1>1. IF added # "ok"
      THEN Reply("rename", f, t, added) /\ UNCHANGED tree
      ELSE /\ tree' = IF erased = "ok" THEN Erased(with, f, TRUE) ELSE with
           /\ Reply("rename", f, t, erased)
  BY Zenon DEF RenameInTree
<1>2. f \in Seq(Name) /\ t \in Seq(Name)
  BY UsvfsAssumption
<1>3. GoodTree(tree) /\ Fold(f) \in DOMAIN tree
  BY DEF IInv, Visible, Present
<1>4. type \in Type
  <2>1. tree[Fold(f)] \in Item(Real)
    BY <1>3 DEF GoodTree, Sound, IsTree
  <2>. QED  BY <2>1 DEF Item
<1>5. CASE added # "ok"
  <2>1. added \in Errors
    BY ErrorTypes
  <2>2. Reply("rename", f, t, added) /\ tree' = tree
    BY <1>1, <1>5
  <2>. HIDE DEF added
  <2>. QED  BY <1>3, <2>1, <2>2 DEF Reply
<1>6. CASE added = "ok"
  <2>1. GoodTree(with)
    BY <1>2, <1>3, <1>4, <1>6, AddedGood
  <2>2. Present(with, f)
    BY <1>3 DEF Added, Present
  <2>. HIDE DEF with
  <2>3. erased = "ok" /\ GoodTree(Erased(with, f, TRUE))
    BY <1>2, <2>1, <2>2, ErasedGood
  <2>4. tree' = Erased(with, f, TRUE) /\ Reply("rename", f, t, "ok")
    BY <1>1, <1>6, <2>3
  <2>5. "ok" \in Errors
    BY DEF Errors
  <2>. QED  BY <2>3, <2>4, <2>5 DEF Reply
<1>. QED  BY <1>5, <1>6

\* rename, once the tree does not refuse it.
LEMMA RenameMovedKeeps ==
  ASSUME IInv, NEW f \in Paths, f # <<>>, Visible(tree, f),
         NEW t \in Paths, t # <<>>, Visible(tree, Parent(t)),
         NEW flag \in Flags, RenameMoved(f, t, flag)
  PROVE  Kept
<1>. DEFINE item == tree[Fold(f)]
            oldDir == Parent(item.real)
            newDir == NewRealParent(t)
            touched == Touched(Touched(fdMap, oldDir), newDir)
            from == At(touched, oldDir)
            to == At(touched, newDir)
            exchange == flag = "exchange"
            n == item.name
            m == Base(t)
            err == RenameError(disk, from, n, to, m, exchange)
            moved == Renamed(disk, from, n, to, m, exchange)
<1>1. /\ fdMap' = touched
      /\ IF err # "ok"
         THEN Reply("rename", f, t, err) /\ UNCHANGED <<tree, disk>>
         ELSE /\ disk' = moved
              /\ RenameInTree(f, t, newDir \o t)
  BY Zenon DEF RenameMoved
<1>2. /\ t \in Seq(Name) /\ m \in Name
      /\ newDir \in Real
  BY PathParts, NewRealParentGood
<1>3. newDir \o t \in Real
  <2>. DEFINE S == Name \cup DOMAIN HostDirs
  <2>1. newDir \in Seq(S) /\ t \in Seq(S)
    BY <1>2 DEF Real
  <2>. HIDE DEF S, newDir
  <2>2. newDir \o t \in Seq(S)
    BY <2>1, ConcatProperties
  <2>. QED  BY <2>2 DEF S, Real
<1>4. IsDisk(disk) /\ GivenDirs(disk) /\ FdMapGood(fdMap, disk)
  BY DEF IInv
<1>. HIDE DEF oldDir, newDir
<1>5. FdMapGood(touched, disk)
  BY <1>4, TouchedGood
<1>6. exchange \in BOOLEAN
  OBVIOUS
<1>. HIDE DEF touched, exchange, n, m
<1>7. err \in Errors
  BY ErrorTypes
<1>8. ASSUME err = "ok"
      PROVE  IsDisk(moved) /\ KeepsInodes(disk, moved)
  <2>1. FdError(to) = "ok" /\ EntryError(disk, from, n) = "ok"
    BY <1>8 DEF RenameError
  <2>2. FdError(from) = "ok" /\ n \in Entries(disk, from)
    BY <2>1 DEF EntryError
  <2>3. from \in DOMAIN disk /\ to \in DOMAIN disk
    BY <1>5, <2>1, <2>2, HandleType
  <2>. HIDE DEF from, to
  <2>4. exchange => m \in Entries(disk, to)
    BY <1>8, <2>1 DEF RenameError
  <2>. QED  BY <1>2, <1>4, <1>6, <2>2, <2>3, <2>4, RenamedDisk
<1>. HIDE DEF from, to, moved, err
<1>9. IsDisk(disk') /\ GivenDirs(disk') /\ FdMapGood(fdMap', disk')
  <2>1. CASE err = "ok"
    <3>1. disk' = moved /\ fdMap' = touched
      BY <1>1, <2>1
    <3>2. FdMapGood(touched, moved)
      BY <1>5, <1>8, <2>1, FdMapKeeps
    <3>3. GivenDirs(moved)
      BY <1>4, <1>8, <2>1, GivenDirsKept
    <3>. QED  BY <1>8, <2>1, <3>1, <3>2, <3>3
  <2>2. CASE err # "ok"
    BY <1>1, <1>4, <1>5, <2>2
  <2>. QED  BY <2>1, <2>2
<1>10. /\ GoodTree(tree')
       /\ ret'.call = "rename" /\ ret'.err \in Errors
       /\ ret'.err # "ok" => tree' = tree
  <2>1. CASE err = "ok"
    <3>. DEFINE r == newDir \o t
    <3>1. r \in Real /\ RenameInTree(f, t, r)
      BY <1>1, <1>3, <2>1
    <3>. HIDE DEF r
    <3>. QED  BY <3>1, RenameInTreeKeeps
  <2>2. CASE err # "ok"
    <3>1. tree' = tree /\ Reply("rename", f, t, err)
      BY <1>1, <2>2
    <3>. QED  BY <1>7, <3>1 DEF Reply, IInv
  <2>. QED  BY <2>1, <2>2
<1>11. "rename" \in Calls
  BY DEF Calls
<1>. QED  BY <1>9, <1>10, <1>11 DEF Kept, IInv

\* rename, whatever it finds.
LEMMA RenameKeeps ==
  ASSUME IInv, NEW f \in Paths, NEW t \in Paths, NEW flag \in Flags, Rename(f, t, flag)
  PROVE  Kept
<1>1. f # <<>> /\ t # <<>>
  BY DEF Rename, RenameKernel, Walkable
<1>2. RenameRefusal(f, t, flag) \in Errors /\ "rename" \in Calls
  BY DEF RenameRefusal, Errors, Calls
<1>3. CASE RenameRefusal(f, t, flag) # "ok"
  <2>1. Fails("rename", f, t, RenameRefusal(f, t, flag))
    BY <1>3 DEF Rename
  <2>. QED  BY <1>2, <2>1, FailsKeeps
<1>4. CASE RenameRefusal(f, t, flag) = "ok"
  <2>1. RenameMoved(f, t, flag)
    BY <1>4 DEF Rename
  <2>2. Visible(tree, f) /\ Visible(tree, Parent(t))
    BY <1>4 DEF RenameRefusal
  <2>. QED  BY <1>1, <2>1, <2>2, RenameMovedKeeps
<1>. QED  BY <1>3, <1>4

\* The calls that reach an inode through the directory it is in.
LEMMA ByParentKeeps ==
  ASSUME IInv, NEW call \in Calls, NEW p, ByParent(call, p)
  PROVE  Kept
<1>. DEFINE at == OnDisk(p)
            err == IF Visible(tree, p) THEN FollowError(disk, at.dir, at.name) ELSE "ENOENT"
<1>1. err \in Errors
  BY ErrorTypes DEF Errors
<1>2. Reads(call, p, err, at.dir, at.name)
  BY Zenon DEF ByParent
<1>. HIDE DEF err
<1>. QED  BY <1>1, <1>2, ReadsKeeps

\* The calls that change nothing.
LEMMA ReadersKeep ==
  ASSUME IInv, NEW p,
         Open(p) \/ Truncate(p) \/ Chmod(p) \/ Readlink(p) \/ Readdir(p) \/ Statfs
  PROVE  Kept
<1>1. {"open", "truncate", "chmod", "readlink", "readdir", "statfs"} \subseteq Calls
  BY DEF Calls
<1>2. {"ok", "ENOENT", "EISDIR", "EINVAL"} \subseteq Errors
  BY DEF Errors
<1>3. CASE Open(p)
  BY <1>1, <1>3, ByParentKeeps DEF Open
<1>4. CASE Truncate(p)
  <2>1. Fails("truncate", p, p, "EISDIR") \/ ByParent("truncate", p)
    BY <1>4 DEF Truncate
  <2>. QED  BY <1>1, <1>2, <2>1, FailsKeeps, ByParentKeeps
<1>5. CASE Chmod(p)
  BY <1>1, <1>5, ByParentKeeps DEF Chmod
<1>6. CASE Readlink(p)
  <2>. DEFINE dir == At(fdMap, tree[Fold(Parent(p))].real)
              name == tree[Fold(p)].name
              err == IF EntryError(disk, dir, name) # "ok" THEN EntryError(disk, dir, name)
                     ELSE IF KindOf(disk[dir].names[name]) # "link" THEN "EINVAL"
                     ELSE "ok"
  <2>1. \/ Fails("readlink", p, p, "ENOENT")
        \/ Fails("readlink", p, p, "EINVAL")
        \/ Reads("readlink", p, err, dir, name)
    BY <1>6, Zenon DEF Readlink
  <2>2. EntryError(disk, dir, name) \in Errors
    BY ErrorTypes
  <2>3. err \in Errors
    BY <1>2, <2>2
  <2>. HIDE DEF err, dir, name
  <2>. QED  BY <1>1, <1>2, <2>1, <2>3, FailsKeeps, ReadsKeeps
<1>7. CASE Readdir(p)
  <2>. DEFINE error(c) == FollowError(disk, OnDisk(c).dir, OnDisk(c).name)
              children == Children(tree, Fold(p))
  <2>1. \/ Fails("readdir", p, p, "ENOENT")
        \/ \E c \in children : Fails("readdir", p, p, error(c))
        \/ /\ ret' = [call |-> "readdir", from |-> Fold(p), to |-> Fold(p),
                      err |-> "ok", id |-> NoFd, names |-> children]
           /\ UNCHANGED <<tree, fdMap, disk>>
    BY <1>7 DEF Readdir
  <2>2. \A c : error(c) \in Errors
    BY ErrorTypes
  <2>. HIDE DEF error, children
  <2>3. CASE \E e \in Errors : Fails("readdir", p, p, e)
    BY <1>1, <2>3, FailsKeeps
  <2>4. CASE /\ ret' = [call |-> "readdir", from |-> Fold(p), to |-> Fold(p),
                        err |-> "ok", id |-> NoFd, names |-> children]
             /\ UNCHANGED <<tree, fdMap, disk>>
    BY <1>1, <1>2, <2>4, OnlyAnswers
  <2>. QED  BY <1>2, <2>1, <2>2, <2>3, <2>4
<1>8. CASE Statfs
  <2>. DEFINE h == At(fdMap, <<Layers[1]>>)
  <2>1. ReplyWith("statfs", <<>>, FdError(h), h) /\ UNCHANGED <<tree, fdMap, disk>>
    BY <1>8, Zenon DEF Statfs
  <2>2. FdError(h) \in Errors
    BY ErrorTypes
  <2>. HIDE DEF h
  <2>3. ret'.call = "statfs" /\ ret'.err = FdError(h)
    BY <2>1 DEF ReplyWith
  <2>. QED  BY <1>1, <2>1, <2>2, <2>3, OnlyAnswers
<1>. QED  BY <1>3, <1>4, <1>5, <1>6, <1>7, <1>8


\* Linking over a disk gives a good tree and a good map.
LEMMA LinkedGood ==
  ASSUME NEW d, IsDisk(d), GivenDirs(d), NEW layers \in {Layers, Relayers}
  PROVE  GoodTree(LinkedTree(d, layers)) /\ FdMapGood(InitFdMap(d, layers), d)
<1>1. layers \in Seq(DOMAIN HostDirs) /\ layers # <<>>
  BY UsvfsAssumption
<1>. QED  BY <1>1, LinkedTreeGood, InitFdMapGood

\* A mount after a mount.
LEMMA RemountKeeps ==
  ASSUME IInv, Remount
  PROVE  Kept
<1>1. /\ tree' = LinkedTree(disk, Relayers)
      /\ fdMap' = InitFdMap(disk, Relayers)
      /\ disk' = disk /\ Reply("remount", <<>>, <<>>, "ok")
  BY DEF Remount
<1>2. GoodTree(tree') /\ FdMapGood(fdMap', disk')
  BY <1>1, LinkedGood DEF IInv
<1>3. ret'.call = "remount" /\ ret'.err = "ok"
  BY <1>1 DEF Reply
<1>4. "remount" \in Calls /\ "ok" \in Errors
  BY DEF Calls, Errors
<1>. QED  BY <1>1, <1>2, <1>3, <1>4 DEF Kept, IInv

\* The first mount.
LEMMA InitGood == Init => IInv
<1>. SUFFICES ASSUME Init PROVE IInv
  OBVIOUS
<1>1. /\ disk = InitDisk
      /\ tree = LinkedTree(InitDisk, Layers)
      /\ fdMap = InitFdMap(InitDisk, Layers)
      /\ ret.call = "none" /\ ret.err = "ok"
  BY DEF Init
<1>2. IsDisk(InitDisk) /\ GivenDirs(InitDisk)
  BY UsvfsAssumption DEF GivenDirs
<1>3. GoodTree(tree) /\ FdMapGood(fdMap, disk)
  BY <1>1, <1>2, LinkedGood
<1>4. "ok" \in Errors
  BY DEF Errors
<1>. QED  BY <1>1, <1>2, <1>3, <1>4 DEF IInv

\* Every call keeps the invariant, and a refused one the tree.
LEMMA NextKeeps == IInv /\ Next => Kept
<1>. SUFFICES ASSUME IInv, Next PROVE Kept
  OBVIOUS
<1>1. CASE \E p \in Paths : Mkdir(p)
  BY <1>1, MkdirKeeps
<1>2. CASE \E p \in Paths : Create(p)
  BY <1>2, CreateKeeps
<1>3. CASE \E p \in Paths : Unlink(p)
  BY <1>3, UnlinkKeeps
<1>4. CASE \E p \in Paths : Rmdir(p)
  BY <1>4, RmdirKeeps
<1>5. CASE \E p \in Paths : Open(p) \/ Truncate(p) \/ Chmod(p) \/ Readlink(p) \/ Readdir(p)
  BY <1>5, ReadersKeep
<1>6. CASE \E f, t \in Paths, flag \in Flags : Rename(f, t, flag)
  BY <1>6, RenameKeeps
<1>7. CASE Statfs
  BY <1>7, ReadersKeep
<1>8. CASE Remount
  BY <1>8, RemountKeeps
<1>. QED  BY <1>1, <1>2, <1>3, <1>4, <1>5, <1>6, <1>7, <1>8 DEF Next

\* A step that changes nothing changes nothing.
LEMMA StutterKeeps == IInv /\ UNCHANGED vars => IInv'
BY DEF IInv, vars

\* The invariant says what TypeOK says.
LEMMA InvariantTypes == IInv => TypeOK
<1>. SUFFICES ASSUME IInv PROVE TypeOK
  OBVIOUS
<1>1. IsTree(tree, Real) /\ PrefixClosed(tree) /\ NamedByKey(tree)
  BY DEF IInv, GoodTree, Sound
<1>2. \A q \in DOMAIN fdMap :
        \/ fdMap[q] = Stdin
        \/ fdMap[q] \in DOMAIN disk /\ disk[fdMap[q]].kind = "dir"
  BY DEF IInv, FdMapGood
<1>. QED  BY <1>1, <1>2 DEF TypeOK, IInv

-----------------------------------------------------------------------------
(***************************************************************************)
(* The theorems.                                                           *)
(***************************************************************************)
\* Whatever processes do, in whatever order, and whichever of their calls
\* fail half way, the tree stays a tree of items without orphans, named as
\* they are found; the descriptor map leads to directories (or to 0).
THEOREM TypeCorrect == Spec => []TypeOK
<1>1. Init => IInv
  BY InitGood
<1>2. IInv /\ [Next]_vars => IInv'
  BY NextKeeps, StutterKeeps DEF Kept
<1>3. IInv => TypeOK
  BY InvariantTypes
<1>. QED  BY <1>1, <1>2, <1>3, PTL DEF Spec

\* A call that reports an error has left the tree as it was.  For rename this
\* rests on erase() never refusing an item of a tree of finite depth: by then
\* the file has been moved and the new item added.
THEOREM RefusedKeepsTreeAlways == Spec => RefusedKeepsTree
<1>1. Init => IInv
  BY InitGood
<1>2. IInv /\ [Next]_vars => IInv'
  BY NextKeeps, StutterKeeps DEF Kept
<1>3. IInv /\ [Next]_vars => [ret'.err # "ok" => tree' = tree]_vars
  BY NextKeeps DEF Kept
<1>. QED  BY <1>1, <1>2, <1>3, PTL DEF Spec, RefusedKeepsTree
=============================================================================
