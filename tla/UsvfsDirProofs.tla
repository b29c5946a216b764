------------------------------ MODULE UsvfsDirProofs ------------------------------
(***************************************************************************)
(* Proofs about the directories of Usvfs: where on the disk the            *)
(* descriptors that are kept for them lead, what is made in them, and what *)
(* the tree knows of the names they have.                                  *)
(***************************************************************************)
EXTENDS UsvfsProofs, FiniteSetTheorems

-----------------------------------------------------------------------------
(***************************************************************************)
(* Names on the disk.  StepTo(d, g, n) is what the name n of the directory *)
(* g leads to, or NoFd.                                                    *)
(***************************************************************************)
\* What StepTo says of entries, for a directory of the disk.
LEMMA StepToEntries ==
  ASSUME NEW d, IsDisk(d), NEW g \in DOMAIN d, NEW n
  PROVE  /\ n \in Entries(d, g) <=> StepTo(d, g, n) # NoFd
         /\ n \in Entries(d, g) => StepTo(d, g, n) = d[g].names[n]
         /\ StepTo(d, g, n) # NoFd => StepTo(d, g, n) \in DOMAIN d /\ n \in Name
         /\ g # NoFd
<1>1. DOMAIN d = 1..Len(d) /\ Len(d) \in Nat
  BY DiskParts
<1>2. g # NoFd /\ NoFd \notin DOMAIN d
  BY <1>1 DEF NoFd
<1>3. Entries(d, g) \subseteq Name /\ d[g].names \in [Entries(d, g) -> DOMAIN d]
  BY DiskParts
<1>4. n \in Entries(d, g) => d[g].names[n] \in DOMAIN d
  BY <1>3
<1>. HIDE DEF NoFd
<1>. QED  BY <1>2, <1>3, <1>4, Zenon DEF StepTo

\* Binding a name changes where that name leads and nothing else.
LEMMA BoundSteps ==
  ASSUME NEW d, IsDisk(d), NEW h \in DOMAIN d, NEW n \in Name, NEW i \in DOMAIN d
  PROVE  \A g \in DOMAIN d : \A m :
           StepTo(Bound(d, h, n, i), g, m) =
             IF g = h /\ m = n THEN i ELSE StepTo(d, g, m)
<1>. DEFINE e == Bound(d, h, n, i)
            names == [m \in DOMAIN d[h].names \cup {n} |-> IF m = n THEN i ELSE d[h].names[m]]
<1>1. DOMAIN e = DOMAIN d /\ \A g \in DOMAIN d : g # h => e[g] = d[g]
  BY DEF Bound
<1>2. e[h] = [d[h] EXCEPT !.names = names]
  BY DEF Bound
<1>3. d[h] = [kind |-> d[h].kind, names |-> d[h].names]
  BY DiskParts
<1>4. e[h].names = names
  <2>. HIDE DEF e, names
  <2>. QED  BY <1>2, <1>3
<1>5. DOMAIN names = Entries(d, h) \cup {n}
      /\ \A m \in DOMAIN names : names[m] = IF m = n THEN i ELSE d[h].names[m]
  BY DEF Entries
<1>6. \A g \in DOMAIN d : g # NoFd
  BY StepToEntries
<1>. HIDE DEF e, names
<1>. SUFFICES ASSUME NEW g \in DOMAIN d, NEW m
              PROVE  StepTo(e, g, m) = IF g = h /\ m = n THEN i ELSE StepTo(d, g, m)
  BY DEF e
<1>7. CASE g # h
  BY <1>1, <1>7 DEF StepTo, Entries
<1>8. CASE g = h
  <2>1. Entries(e, g) = Entries(d, h) \cup {n}
    BY <1>4, <1>5, <1>8 DEF Entries
  <2>2. m \in Entries(e, g) => e[g].names[m] = IF m = n THEN i ELSE d[h].names[m]
    BY <1>4, <1>5, <1>8, <2>1
  <2>. QED  BY <1>6, <1>8, <2>1, <2>2, Zenon DEF StepTo
<1>. QED  BY <1>7, <1>8

\* Unbinding a name leaves it leading nowhere, and changes nothing else.
LEMMA UnboundSteps ==
  ASSUME NEW d, IsDisk(d), NEW h \in DOMAIN d, NEW n
  PROVE  \A g \in DOMAIN d : \A m :
           StepTo(Unbound(d, h, n), g, m) =
             IF g = h /\ m = n THEN NoFd ELSE StepTo(d, g, m)
<1>. DEFINE e == Unbound(d, h, n)
            names == [m \in DOMAIN d[h].names \ {n} |-> d[h].names[m]]
<1>1. DOMAIN e = DOMAIN d /\ \A g \in DOMAIN d : g # h => e[g] = d[g]
  BY DEF Unbound
<1>2. e[h] = [d[h] EXCEPT !.names = names]
  BY DEF Unbound
<1>3. d[h] = [kind |-> d[h].kind, names |-> d[h].names]
  BY DiskParts
<1>4. e[h].names = names
  <2>. HIDE DEF e, names
  <2>. QED  BY <1>2, <1>3
<1>5. DOMAIN names = Entries(d, h) \ {n} /\ \A m \in DOMAIN names : names[m] = d[h].names[m]
  BY DEF Entries
<1>6. \A g \in DOMAIN d : g # NoFd
  BY StepToEntries
<1>. HIDE DEF e, names
<1>. SUFFICES ASSUME NEW g \in DOMAIN d, NEW m
              PROVE  StepTo(e, g, m) = IF g = h /\ m = n THEN NoFd ELSE StepTo(d, g, m)
  BY DEF e
<1>7. CASE g # h
  BY <1>1, <1>7 DEF StepTo, Entries
<1>8. CASE g = h
  <2>1. Entries(e, g) = Entries(d, h) \ {n}
    BY <1>4, <1>5, <1>8 DEF Entries
  <2>2. m \in Entries(e, g) => e[g].names[m] = d[h].names[m]
    BY <1>4, <1>5, <1>8, <2>1
  <2>. QED  BY <1>6, <1>8, <2>1, <2>2, Zenon DEF StepTo
<1>. QED  BY <1>7, <1>8

\* What is made is empty, and the name leads to it.
LEMMA MadeSteps ==
  ASSUME NEW d, IsDisk(d), NEW h \in DOMAIN d, NEW n \in Name, NEW kind \in NodeKinds,
         NEW e, e = Made(d, h, n, kind), NEW i, i = Len(d) + 1
  PROVE  /\ \A x : x \in DOMAIN e <=> x \in DOMAIN d \/ x = i
         /\ i \notin DOMAIN d /\ e[i].kind = kind
         /\ \A g \in DOMAIN d : \A m :
              StepTo(e, g, m) = IF g = h /\ m = n THEN i ELSE StepTo(d, g, m)
         /\ \A m : StepTo(e, i, m) = NoFd
<1>. DEFINE a == Append(d, Node(kind))
<1>1. DOMAIN d = 1..Len(d) /\ Len(d) \in Nat
  BY DiskParts
<1>2. /\ IsDisk(a) /\ Len(a) = i
      /\ \A g \in DOMAIN d : a[g] = d[g]
      /\ a[i] = Node(kind)
  BY AppendedDisk
<1>. HIDE DEF a
<1>3. DOMAIN a = 1..i
  BY <1>2, DiskParts
<1>4. i \in DOMAIN a /\ i \notin DOMAIN d /\ DOMAIN a = DOMAIN d \cup {i} /\ h \in DOMAIN a /\ h # i
  BY <1>1, <1>3
<1>5. e = Bound(a, h, n, i)
  BY DEF Made, a
<1>6. \A g \in DOMAIN a : \A m :
        StepTo(Bound(a, h, n, i), g, m) = IF g = h /\ m = n THEN i ELSE StepTo(a, g, m)
  BY <1>2, <1>4, BoundSteps
<1>7. \A g \in DOMAIN d : \A m : StepTo(a, g, m) = StepTo(d, g, m)
  BY <1>2 DEF StepTo, Entries
<1>8. \A m : StepTo(a, i, m) = NoFd
  <2>1. Entries(a, i) = {}
    BY <1>2 DEF Node, Entries
  <2>. QED  BY <2>1 DEF StepTo
<1>9. e[i].kind = kind /\ DOMAIN e = DOMAIN a
  <2>1. e[i].kind = kind /\ Len(e) = Len(d) + 1 /\ IsDisk(e)
    BY MadeDisk
  <2>2. DOMAIN e = 1..Len(e)
    BY <2>1, DiskParts
  <2>. QED  BY <1>3, <2>1, <2>2
<1>10. \A g \in DOMAIN d : \A m :
         StepTo(e, g, m) = IF g = h /\ m = n THEN i ELSE StepTo(d, g, m)
  BY <1>4, <1>5, <1>6, <1>7
<1>11. \A m : StepTo(e, i, m) = NoFd
  BY <1>4, <1>5, <1>6, <1>8
<1>. QED  BY <1>4, <1>9, <1>10, <1>11


\* What renameat2() does to names: nothing, if both lead to one inode; or the
\* new name leads where the old one led, which leads nowhere now, or to what
\* the new one led to.
LEMMA RenamedSteps ==
  ASSUME NEW d, IsDisk(d), NEW g \in DOMAIN d, NEW h \in DOMAIN d,
         NEW n \in Entries(d, g), NEW m \in Name,
         NEW exchange \in BOOLEAN, exchange => m \in Entries(d, h),
         NEW e, e = Renamed(d, g, n, h, m, exchange),
         NEW v, v = IF exchange THEN StepTo(d, h, m) ELSE NoFd
  PROVE  /\ DOMAIN e = DOMAIN d
         /\ \/ e = d /\ ~exchange /\ StepTo(d, h, m) = StepTo(d, g, n)
            \/ /\ exchange \/ StepTo(d, h, m) # StepTo(d, g, n)
               /\ \A x \in DOMAIN d : \A y :
                    StepTo(e, x, y) =
                      IF x = h /\ y = m THEN StepTo(d, g, n)
                      ELSE IF x = g /\ y = n THEN v
                      ELSE StepTo(d, x, y)
<1>. DEFINE i == d[g].names[n]
            j == d[h].names[m]
            b == Bound(d, g, n, j)
            u == Unbound(d, g, n)
<1>1. i = StepTo(d, g, n) /\ i \in DOMAIN d /\ n \in Name /\ i # NoFd
  BY StepToEntries
<1>2. m \in Entries(d, h) => j = StepTo(d, h, m) /\ j \in DOMAIN d
  BY StepToEntries
<1>3. m \in Entries(d, h) <=> StepTo(d, h, m) # NoFd
  BY StepToEntries
<1>. HIDE DEF i, j
<1>4. CASE exchange
  <2>1. j = StepTo(d, h, m) /\ j \in DOMAIN d
    BY <1>2, <1>4
  <2>2. IsDisk(b) /\ Len(b) = Len(d)
    BY <1>1, <2>1, BoundDisk
  <2>3. DOMAIN b = DOMAIN d
    BY <2>2, DiskParts
  <2>4. \A x \in DOMAIN d : \A y :
          StepTo(b, x, y) = IF x = g /\ y = n THEN j ELSE StepTo(d, x, y)
    BY <1>1, <2>1, BoundSteps
  <2>5. e = Bound(b, h, m, i)
    BY <1>4 DEF Renamed, i, j
  <2>. HIDE DEF b
  <2>8. IsDisk(b) /\ h \in DOMAIN b /\ i \in DOMAIN b
    BY <1>1, <2>2, <2>3
  <2>9. \A x \in DOMAIN b : \A y :
          StepTo(Bound(b, h, m, i), x, y) = IF x = h /\ y = m THEN i ELSE StepTo(b, x, y)
    BY <2>8, BoundSteps
  <2>6. \A x \in DOMAIN d : \A y :
          StepTo(e, x, y) = IF x = h /\ y = m THEN i ELSE StepTo(b, x, y)
    BY <2>5, <2>9, <2>3
  <2>7. DOMAIN e = DOMAIN b
    BY <2>5 DEF Bound
  <2>10. v = j
    BY <1>4, <2>1
  <2>11. \A x \in DOMAIN d : \A y :
           StepTo(e, x, y) =
             IF x = h /\ y = m THEN i ELSE IF x = g /\ y = n THEN v ELSE StepTo(d, x, y)
    BY <2>4, <2>6, <2>10
  <2>. QED  BY <1>1, <1>4, <2>3, <2>7, <2>11
<1>5. CASE ~exchange /\ StepTo(d, h, m) = StepTo(d, g, n)
  <2>1. m \in Entries(d, h) /\ j = i
    BY <1>1, <1>2, <1>3, <1>5
  <2>2. e = d
    BY <1>5, <2>1 DEF Renamed, i, j
  <2>. QED  BY <1>5, <2>2
<1>6. CASE ~exchange /\ StepTo(d, h, m) # StepTo(d, g, n)
  <2>1. IsDisk(u) /\ Len(u) = Len(d)
    BY UnboundDisk
  <2>2. DOMAIN u = DOMAIN d
    BY <2>1, DiskParts
  <2>3. \A x \in DOMAIN d : \A y :
          StepTo(u, x, y) = IF x = g /\ y = n THEN NoFd ELSE StepTo(d, x, y)
    BY UnboundSteps
  <2>4. ~(m \in Entries(d, h) /\ j = i)
    BY <1>1, <1>2, <1>6
  <2>5. e = Bound(u, h, m, i)
    BY <1>6, <2>4 DEF Renamed, i, j
  <2>. HIDE DEF u
  <2>8. IsDisk(u) /\ h \in DOMAIN u /\ i \in DOMAIN u
    BY <1>1, <2>1, <2>2
  <2>9. \A x \in DOMAIN u : \A y :
          StepTo(Bound(u, h, m, i), x, y) = IF x = h /\ y = m THEN i ELSE StepTo(u, x, y)
    BY <2>8, BoundSteps
  <2>6. \A x \in DOMAIN d : \A y :
          StepTo(e, x, y) = IF x = h /\ y = m THEN i ELSE StepTo(u, x, y)
    BY <2>5, <2>9, <2>2
  <2>7. DOMAIN e = DOMAIN u
    BY <2>5 DEF Bound
  <2>10. v = NoFd
    BY <1>6
  <2>11. \A x \in DOMAIN d : \A y :
           StepTo(e, x, y) =
             IF x = h /\ y = m THEN i ELSE IF x = g /\ y = n THEN v ELSE StepTo(d, x, y)
    BY <2>3, <2>6, <2>10
  <2>. QED  BY <1>1, <1>6, <2>2, <2>7, <2>11
<1>. QED  BY <1>4, <1>5, <1>6

-----------------------------------------------------------------------------
(***************************************************************************)
(* The directories given to the program are apart: no two are one, none    *)
(* lies in another (the disk modelled here begins with them), and, as on   *)
(* every disk, only directories have entries, and a directory has one name *)
(* at most.                                                                *)
(***************************************************************************)
Apart(d) ==
  /\ \A s, t \in DOMAIN HostDirs : HostDirs[s] = HostDirs[t] => s = t
  /\ \A g \in DOMAIN d, n \in Name :
       StepTo(d, g, n) # NoFd =>
         /\ d[g].kind = "dir"
         /\ \A t \in DOMAIN HostDirs : StepTo(d, g, n) # HostDirs[t]
         /\ d[StepTo(d, g, n)].kind = "dir" =>
              \A h \in DOMAIN d, m \in Name :
                StepTo(d, h, m) = StepTo(d, g, n) => h = g /\ m = n

\* A directory made with a new name keeps them apart.
LEMMA MadeApart ==
  ASSUME NEW d, IsDisk(d), GivenDirs(d), Apart(d), NEW h \in DOMAIN d, d[h].kind = "dir",
         NEW n \in Name, StepTo(d, h, n) = NoFd, NEW kind \in NodeKinds,
         NEW e, e = Made(d, h, n, kind)
  PROVE  Apart(e)
<1>0. PICK i : i = Len(d) + 1
  OBVIOUS
<1>1. /\ \A x : x \in DOMAIN e <=> x \in DOMAIN d \/ x = i
      /\ i \notin DOMAIN d
      /\ \A g \in DOMAIN d : \A m :
           StepTo(e, g, m) = IF g = h /\ m = n THEN i ELSE StepTo(d, g, m)
      /\ \A m : StepTo(e, i, m) = NoFd
  BY <1>0, MadeSteps
<1>2. \A g \in DOMAIN d : e[g].kind = d[g].kind
  BY MadeDisk DEF KeepsInodes
<1>3. \A g \in DOMAIN d : \A m : StepTo(d, g, m) # NoFd => StepTo(d, g, m) \in DOMAIN d
  BY StepToEntries
<1>4. \A t \in DOMAIN HostDirs : HostDirs[t] \in DOMAIN d
  BY DEF GivenDirs
<1>5. ASSUME NEW g \in DOMAIN e, NEW m \in Name, StepTo(e, g, m) # NoFd
      PROVE  /\ e[g].kind = "dir"
             /\ \A t \in DOMAIN HostDirs : StepTo(e, g, m) # HostDirs[t]
             /\ e[StepTo(e, g, m)].kind = "dir" =>
                  \A x \in DOMAIN e, y \in Name :
                    StepTo(e, x, y) = StepTo(e, g, m) => x = g /\ y = m
  <2>1. g \in DOMAIN d
    BY <1>1, <1>5
  <2>2. CASE g = h /\ m = n
    <3>1. StepTo(e, g, m) = i
      BY <1>1, <2>2
    <3>. QED  BY <1>1, <1>2, <1>3, <1>4, <1>5, <2>2, <3>1
  <2>3. CASE ~(g = h /\ m = n)
    <3>1. StepTo(e, g, m) = StepTo(d, g, m) /\ StepTo(d, g, m) \in DOMAIN d
      BY <1>1, <1>3, <1>5, <2>1, <2>3
    <3>. QED  BY <1>1, <1>2, <1>5, <2>1, <2>3, <3>1 DEF Apart
  <2>. QED  BY <2>2, <2>3
<1>. QED  BY <1>5 DEF Apart

\* Taking a name away keeps them apart.
LEMMA UnboundApart ==
  ASSUME NEW d, IsDisk(d), Apart(d), NEW h \in DOMAIN d, NEW n,
         NEW e, e = Unbound(d, h, n)
  PROVE  Apart(e)
<1>1. \A g \in DOMAIN d : \A m :
        StepTo(e, g, m) = IF g = h /\ m = n THEN NoFd ELSE StepTo(d, g, m)
  BY UnboundSteps
<1>2. DOMAIN e = DOMAIN d
  BY DEF Unbound
<1>3. \A g \in DOMAIN d : e[g].kind = d[g].kind
  BY UnboundDisk DEF KeepsInodes
<1>4. \A g \in DOMAIN d : \A m : StepTo(d, g, m) # NoFd => StepTo(d, g, m) \in DOMAIN d
  BY StepToEntries
<1>5. ASSUME NEW g \in DOMAIN e, NEW m \in Name, StepTo(e, g, m) # NoFd
      PROVE  /\ e[g].kind = "dir"
             /\ \A t \in DOMAIN HostDirs : StepTo(e, g, m) # HostDirs[t]
             /\ e[StepTo(e, g, m)].kind = "dir" =>
                  \A x \in DOMAIN e, y \in Name :
                    StepTo(e, x, y) = StepTo(e, g, m) => x = g /\ y = m
  <2>1. StepTo(e, g, m) = StepTo(d, g, m) /\ StepTo(d, g, m) \in DOMAIN d
    BY <1>1, <1>2, <1>4, <1>5
  <2>. QED  BY <1>1, <1>2, <1>3, <1>5, <2>1 DEF Apart
<1>. QED  BY <1>5 DEF Apart

\* So does renaming.
LEMMA RenamedApart ==
  ASSUME NEW d, IsDisk(d), Apart(d), NEW g \in DOMAIN d, NEW h \in DOMAIN d,
         d[h].kind = "dir", NEW n \in Entries(d, g), NEW m \in Name,
         NEW exchange \in BOOLEAN, exchange => m \in Entries(d, h),
         NEW e, e = Renamed(d, g, n, h, m, exchange)
  PROVE  Apart(e)
<1>. DEFINE i == StepTo(d, g, n)
            j == StepTo(d, h, m)
            v == IF exchange THEN j ELSE NoFd
<1>1. /\ DOMAIN e = DOMAIN d
      /\ \/ e = d
         \/ /\ exchange \/ j # i
            /\ \A x \in DOMAIN d : \A y :
                 StepTo(e, x, y) =
                   IF x = h /\ y = m THEN i ELSE IF x = g /\ y = n THEN v ELSE StepTo(d, x, y)
  BY RenamedSteps
<1>2. \A x \in DOMAIN d : e[x].kind = d[x].kind
  BY RenamedDisk DEF KeepsInodes
<1>3. \A x \in DOMAIN d : \A y : StepTo(d, x, y) # NoFd => StepTo(d, x, y) \in DOMAIN d
  BY StepToEntries
<1>4. i # NoFd /\ n \in Name /\ (exchange => j # NoFd)
  BY StepToEntries
<1>5. CASE e = d
  BY <1>5
<1>6. CASE /\ exchange \/ j # i
           /\ \A x \in DOMAIN d : \A y :
                StepTo(e, x, y) =
                  IF x = h /\ y = m THEN i ELSE IF x = g /\ y = n THEN v ELSE StepTo(d, x, y)
  <2>1. ASSUME NEW x \in DOMAIN e, NEW y \in Name, StepTo(e, x, y) # NoFd
        PROVE  \E x0 \in DOMAIN d, y0 \in Name :
                 /\ StepTo(d, x0, y0) = StepTo(e, x, y)
                 /\ x = h /\ y = m => x0 = g /\ y0 = n
                 /\ ~(x = h /\ y = m) /\ x = g /\ y = n => exchange /\ x0 = h /\ y0 = m
                 /\ ~(x = h /\ y = m) /\ ~(x = g /\ y = n) => x0 = x /\ y0 = y
    <3>1. CASE x = h /\ y = m
      BY <1>1, <1>4, <1>6, <3>1
    <3>2. CASE ~(x = h /\ y = m) /\ x = g /\ y = n
      <4>1. exchange /\ StepTo(e, x, y) = j
        BY <1>1, <1>6, <2>1, <3>2
      <4>. QED  BY <3>2, <4>1
    <3>3. CASE ~(x = h /\ y = m) /\ ~(x = g /\ y = n)
      <4>1. StepTo(e, x, y) = StepTo(d, x, y) /\ x \in DOMAIN d
        BY <1>1, <1>6, <3>3
      <4>. QED  BY <3>3, <4>1
    <3>. QED  BY <3>1, <3>2, <3>3
  <2>2. ASSUME NEW x \in DOMAIN e, NEW y \in Name, StepTo(e, x, y) # NoFd
        PROVE  /\ e[x].kind = "dir"
               /\ \A t \in DOMAIN HostDirs : StepTo(e, x, y) # HostDirs[t]
               /\ e[StepTo(e, x, y)].kind = "dir" =>
                    \A z \in DOMAIN e, w \in Name :
                      StepTo(e, z, w) = StepTo(e, x, y) => z = x /\ w = y
    <3>1. PICK x0 \in DOMAIN d, y0 \in Name :
                 /\ StepTo(d, x0, y0) = StepTo(e, x, y)
                 /\ x = h /\ y = m => x0 = g /\ y0 = n
                 /\ ~(x = h /\ y = m) /\ x = g /\ y = n => exchange /\ x0 = h /\ y0 = m
                 /\ ~(x = h /\ y = m) /\ ~(x = g /\ y = n) => x0 = x /\ y0 = y
      BY <2>1, <2>2
    <3>2. StepTo(d, x0, y0) \in DOMAIN d /\ d[x0].kind = "dir"
      BY <1>3, <2>2, <3>1 DEF Apart
    <3>3. e[x].kind = "dir"
      <4>1. d[g].kind = "dir"
        BY <1>4 DEF Apart
      <4>. QED  BY <1>1, <1>2, <3>1, <3>2, <4>1
    <3>4. \A t \in DOMAIN HostDirs : StepTo(e, x, y) # HostDirs[t]
      BY <2>2, <3>1 DEF Apart
    <3>5. ASSUME e[StepTo(e, x, y)].kind = "dir", NEW z \in DOMAIN e, NEW w \in Name,
                 StepTo(e, z, w) = StepTo(e, x, y)
          PROVE  z = x /\ w = y
      <4>1. d[StepTo(d, x0, y0)].kind = "dir"
        BY <1>2, <3>1, <3>2, <3>5
      <4>2. PICK z0 \in DOMAIN d, w0 \in Name :
                 /\ StepTo(d, z0, w0) = StepTo(e, z, w)
                 /\ z = h /\ w = m => z0 = g /\ w0 = n
                 /\ ~(z = h /\ w = m) /\ z = g /\ w = n => exchange /\ z0 = h /\ w0 = m
                 /\ ~(z = h /\ w = m) /\ ~(z = g /\ w = n) => z0 = z /\ w0 = w
        BY <2>1, <2>2, <3>5
      <4>3. z0 = x0 /\ w0 = y0
        BY <2>2, <3>1, <3>5, <4>1, <4>2 DEF Apart
      <4>4. CASE x = h /\ y = m
        <5>1. x0 = g /\ y0 = n
          BY <3>1, <4>4
        <5>2. CASE z = h /\ w = m
          BY <4>4, <5>2
        <5>3. CASE ~(z = h /\ w = m)
          BY <4>2, <4>3, <5>1, <5>3, <4>4
        <5>. QED  BY <5>2, <5>3
      <4>5. CASE ~(x = h /\ y = m)
        BY <3>1, <4>2, <4>3, <4>5
      <4>. QED  BY <4>4, <4>5
    <3>. QED  BY <3>3, <3>4, <3>5
  <2>. QED  BY <2>2 DEF Apart
<1>. QED  BY <1>1, <1>5, <1>6

-----------------------------------------------------------------------------
(***************************************************************************)
(* Real paths and the directories they lead to.                            *)
(***************************************************************************)
\* Two sequences with the same elements are one.
LEMMA SameSequence ==
  ASSUME NEW S, NEW r \in Seq(S), NEW s \in Seq(S), Len(r) = Len(s),
         \A i \in 1..Len(r) : r[i] = s[i]
  PROVE  r = s
OBVIOUS

\* A real path of two names or more is in the directory its other names lead to.
LEMMA RealPathParent ==
  ASSUME NEW r, IsRealPath(r), Len(r) # 1
  PROVE  /\ IsRealPath(Parent(r))
         /\ Len(r) \in Nat /\ Len(r) > 1 /\ Len(Parent(r)) = Len(r) - 1
         /\ \A i \in 1..Len(Parent(r)) : Parent(r)[i] = r[i]
         /\ Parent(r)[1] = r[1]
<1>. DEFINE S == Name \cup DOMAIN HostDirs
<1>1. r \in Seq(S) /\ r # <<>> /\ r[1] \in DOMAIN HostDirs
  BY DEF IsRealPath, Real
<1>2. /\ Len(r) \in Nat \ {0} /\ Parent(r) \in Seq(S) /\ Len(Parent(r)) = Len(r) - 1
      /\ \A i \in 1..Len(r) - 1 : Parent(r)[i] = r[i]
  <2>. HIDE DEF S
  <2>. QED  BY <1>1, ParentOf
<1>3. Len(r) > 1 /\ Parent(r)[1] = r[1]
  BY <1>2
<1>4. Parent(r) # <<>>
  BY <1>2, <1>3
<1>. QED  BY <1>1, <1>2, <1>3, <1>4 DEF IsRealPath, Real

\* What it leads to is what its last name leads to from there.
LEMMA HostIdUp ==
  ASSUME NEW d, IsDisk(d), GivenDirs(d), NEW r, IsRealPath(r), Len(r) # 1
  PROVE  HostId(d, r) = StepTo(d, HostId(d, Parent(r)), Base(r))
BY RealPathParent, HostIdStep DEF Base

\* Where the directories are apart, two real paths lead to one directory only
\* if they are one.
LEMMA HostIdOne ==
  ASSUME NEW d, IsDisk(d), GivenDirs(d), Apart(d),
         NEW r, IsRealPath(r), NEW s, IsRealPath(s),
         HostId(d, r) # NoFd, d[HostId(d, r)].kind = "dir", HostId(d, r) = HostId(d, s)
  PROVE  r = s
<1>. DEFINE Leads(x) == IsRealPath(x) /\ HostId(d, x) # NoFd /\ d[HostId(d, x)].kind = "dir"
            H == {n \in Nat : \A x \in Real, y \in Real :
                    Len(x) = n /\ Leads(x) /\ IsRealPath(y) /\ HostId(d, x) = HostId(d, y)
                      => x = y}
<1>1. ASSUME NEW x, Leads(x), Len(x) # 1
      PROVE  /\ HostId(d, Parent(x)) \in DOMAIN d /\ Base(x) \in Name
             /\ Leads(Parent(x)) /\ Len(Parent(x)) = Len(x) - 1
             /\ StepTo(d, HostId(d, Parent(x)), Base(x)) = HostId(d, x)
             /\ \A t \in DOMAIN HostDirs : HostId(d, x) # HostDirs[t]
             /\ \A h \in DOMAIN d, m \in Name :
                  StepTo(d, h, m) = HostId(d, x) => h = HostId(d, Parent(x)) /\ m = Base(x)
  <2>1. IsRealPath(Parent(x)) /\ Len(Parent(x)) = Len(x) - 1
    BY <1>1, RealPathParent
  <2>2. HostId(d, x) = StepTo(d, HostId(d, Parent(x)), Base(x))
    BY <1>1, HostIdUp
  <2>3. HostId(d, Parent(x)) # NoFd
    BY <1>1, <2>2 DEF StepTo
  <2>4. HostId(d, Parent(x)) \in DOMAIN d
    BY <2>1, <2>3, HostIdType
  <2>5. Base(x) \in Name
    BY <1>1, <2>2, <2>4, StepToEntries
  <2>. QED  BY <1>1, <2>1, <2>2, <2>3, <2>4, <2>5 DEF Apart
<1>2. ASSUME NEW x, Leads(x), NEW y, IsRealPath(y), HostId(d, x) = HostId(d, y)
      PROVE  Leads(y)
  BY <1>2
<1>3. \A x : IsRealPath(x) => x \in Seq(Name \cup DOMAIN HostDirs) /\ Len(x) \in Nat /\ Len(x) >= 1
  BY LenProperties, EmptySeq DEF IsRealPath, Real
<1>4. \A s1, t1 \in DOMAIN HostDirs : HostDirs[s1] = HostDirs[t1] => s1 = t1
  BY DEF Apart
<1>. HIDE DEF Leads
<1>5. \A x : IsRealPath(x) <=> x \in Real /\ x # <<>> /\ x[1] \in DOMAIN HostDirs
  BY DEF IsRealPath
<1>6. \A x : Leads(x) => IsRealPath(x)
  BY DEF Leads
<1>7. ASSUME NEW x, Leads(x), NEW y, IsRealPath(y), HostId(d, x) = HostId(d, y), Len(x) = 1
      PROVE  x = y
  <2>1. HostId(d, x) = HostDirs[x[1]] /\ x[1] \in DOMAIN HostDirs
    BY <1>5, <1>6, <1>7, HostIdType
  <2>2. Leads(y)
    BY <1>2, <1>7
  <2>3. Len(y) = 1
    BY <1>1, <1>7, <2>1, <2>2
  <2>4. HostId(d, y) = HostDirs[y[1]] /\ y[1] \in DOMAIN HostDirs
    BY <1>5, <1>7, <2>3, HostIdType
  <2>5. y[1] = x[1]
    BY <1>4, <1>7, <2>1, <2>4
  <2>. QED  BY <1>3, <1>6, <1>7, <2>3, <2>5, SameSequence
<1>8. 1 \in H
  BY <1>7
<1>9. ASSUME NEW n \in 1..Len(r), n # 1, n - 1 \in H
      PROVE  n \in H
  <2>1. n \in Nat /\ n - 1 \in Nat /\ n > 1
    BY <1>3, <1>9
  <2>2. ASSUME NEW x \in Real, NEW y \in Real, Len(x) = n, Leads(x), IsRealPath(y),
               HostId(d, x) = HostId(d, y)
        PROVE  x = y
    <3>1. Leads(y)
      BY <1>2, <2>2
    <3>2. Len(x) # 1
      BY <2>1, <2>2
    <3>3. Len(y) # 1
      <4>1. HostId(d, y) = HostId(d, x) /\ IsRealPath(x)
        BY <1>6, <2>2
      <4>2. Len(y) = 1 => y = x
        BY <1>7, <3>1, <4>1
      <4>. QED  BY <3>2, <4>2
    <3>4. /\ HostId(d, Parent(y)) \in DOMAIN d /\ Base(y) \in Name
          /\ StepTo(d, HostId(d, Parent(y)), Base(y)) = HostId(d, x)
          /\ Leads(Parent(y)) /\ Len(Parent(y)) = Len(y) - 1
      BY <1>1, <2>2, <3>1, <3>3
    <3>5. /\ HostId(d, Parent(y)) = HostId(d, Parent(x)) /\ Base(y) = Base(x)
          /\ Leads(Parent(x)) /\ Len(Parent(x)) = Len(x) - 1
      BY <1>1, <2>2, <3>2, <3>4
    <3>6. Parent(x) = Parent(y)
      BY <1>5, <1>6, <1>9, <2>1, <2>2, <3>4, <3>5
    <3>9. /\ \A i \in 1..Len(Parent(x)) : Parent(x)[i] = x[i]
          /\ \A i \in 1..Len(Parent(y)) : Parent(y)[i] = y[i]
      BY <1>6, <2>2, <3>1, <3>2, <3>3, RealPathParent
    <3>7. Len(x) = Len(y)
      BY <1>3, <1>6, <2>2, <3>1, <3>4, <3>5, <3>6
    <3>8. \A i \in 1..Len(x) : x[i] = y[i]
      BY <2>1, <2>2, <3>5, <3>6, <3>7, <3>9 DEF Base
    <3>. QED  BY <1>3, <1>6, <2>2, <3>1, <3>7, <3>8, SameSequence
  <2>. QED  BY <2>1, <2>2
<1>. HIDE DEF H
<1>10. 1..Len(r) \subseteq H
  BY <1>3, <1>8, <1>9, Induction
<1>11. Len(r) \in H
  BY <1>3, <1>10
<1>12. Leads(r) /\ r \in Real /\ s \in Real
  BY <1>5 DEF Leads
<1>. QED  BY <1>11, <1>12 DEF H

-----------------------------------------------------------------------------
(***************************************************************************)
(* Real paths and keys.  An item's real path has the item's key below the  *)
(* directory the item comes from, so it is the real path of no other item. *)
(***************************************************************************)
KeyedReal(k, r) ==
  /\ IsRealPath(r) /\ Len(r) = Len(k) + 1
  /\ \A i \in 1..Len(k) : r[i + 1] \in Name /\ Lower[r[i + 1]] = k[i]

\* The key of a real path, element by element.
LEMMA RealKeyParts ==
  ASSUME NEW k \in Seq(Key), NEW r, KeyedReal(k, r)
  PROVE  /\ DOMAIN RealKey(r) = 1..Len(k) + 1 /\ Len(k) \in Nat
         /\ RealKey(r)[1] = r[1]
         /\ \A i \in 1..Len(k) : RealKey(r)[i + 1] = k[i]
<1>1. Len(k) \in Nat /\ Len(r) = Len(k) + 1
  BY LenProperties DEF KeyedReal
<1>2. r[1] \notin Name
  BY UsvfsAssumption DEF KeyedReal, IsRealPath
<1>3. RealKey(r) = [i \in 1..Len(k) + 1 |-> IF r[i] \in Name THEN Lower[r[i]] ELSE r[i]]
  BY <1>1 DEF RealKey
<1>4. 1 \in 1..Len(k) + 1 /\ \A i \in 1..Len(k) : i + 1 \in 1..Len(k) + 1
  BY <1>1
<1>. QED  BY <1>1, <1>2, <1>3, <1>4 DEF KeyedReal

\* Items of one real path are one, and come from one directory.
LEMMA KeyedSame ==
  ASSUME NEW k \in Seq(Key), NEW r, KeyedReal(k, r),
         NEW q \in Seq(Key), NEW s, KeyedReal(q, s), RealKey(r) = RealKey(s)
  PROVE  k = q /\ r[1] = s[1]
<1>1. /\ DOMAIN RealKey(r) = 1..Len(k) + 1 /\ Len(k) \in Nat
      /\ RealKey(r)[1] = r[1]
      /\ \A i \in 1..Len(k) : RealKey(r)[i + 1] = k[i]
  BY RealKeyParts
<1>2. /\ DOMAIN RealKey(s) = 1..Len(q) + 1 /\ Len(q) \in Nat
      /\ RealKey(s)[1] = s[1]
      /\ \A i \in 1..Len(q) : RealKey(s)[i + 1] = q[i]
  BY RealKeyParts
<1>3. Len(k) = Len(q)
  <2>1. 1..Len(k) + 1 = 1..Len(q) + 1
    BY <1>1, <1>2
  <2>2. Len(k) + 1 \in 1..Len(q) + 1 /\ Len(q) + 1 \in 1..Len(k) + 1
    BY <1>1, <1>2, <2>1
  <2>. QED  BY <1>1, <1>2, <2>2
<1>4. \A i \in 1..Len(k) : k[i] = q[i]
  BY <1>1, <1>2, <1>3
<1>. QED  BY <1>1, <1>2, <1>3, <1>4, SameSequence

\* What is above a real path with a key has the key above.
LEMMA KeyedParent ==
  ASSUME NEW k \in Seq(Key), k # <<>>, NEW r, KeyedReal(k, r)
  PROVE  /\ Parent(k) \in Seq(Key) /\ KeyedReal(Parent(k), Parent(r))
         /\ Base(r) \in Name /\ Lower[Base(r)] = Base(k)
         /\ Len(r) # 1
<1>1. /\ Len(k) \in Nat \ {0} /\ Parent(k) \in Seq(Key) /\ Len(Parent(k)) = Len(k) - 1
      /\ \A i \in 1..Len(k) - 1 : Parent(k)[i] = k[i]
  BY ParentProperties
<1>2. IsRealPath(r) /\ Len(r) = Len(k) + 1 /\ Len(r) # 1
  BY <1>1 DEF KeyedReal
<1>3. /\ IsRealPath(Parent(r)) /\ Len(Parent(r)) = Len(r) - 1
      /\ \A i \in 1..Len(Parent(r)) : Parent(r)[i] = r[i]
  BY <1>2, RealPathParent
<1>4. Len(k) \in 1..Len(k) /\ \A i \in 1..Len(k) : r[i + 1] \in Name /\ Lower[r[i + 1]] = k[i]
  BY <1>1 DEF KeyedReal
<1>5. Base(r) = r[Len(k) + 1] /\ Base(k) = k[Len(k)]
  BY <1>2 DEF Base
<1>6. ASSUME NEW i \in 1..Len(Parent(k))
      PROVE  Parent(r)[i + 1] \in Name /\ Lower[Parent(r)[i + 1]] = Parent(k)[i]
  <2>1. i \in 1..Len(k) - 1 /\ i \in 1..Len(k) /\ i + 1 \in 1..Len(Parent(r))
    BY <1>1, <1>2, <1>3
  <2>. QED  BY <1>1, <1>3, <1>4, <2>1
<1>7. Len(Parent(r)) = Len(Parent(k)) + 1
  BY <1>1, <1>2, <1>3
<1>. QED  BY <1>1, <1>2, <1>3, <1>4, <1>5, <1>6, <1>7 DEF KeyedReal

\* A real path is the path above it and its last name.
LEMMA PathAndName ==
  ASSUME NEW r, IsRealPath(r), NEW n \in Name
  PROVE  /\ IsRealPath(Append(r, n))
         /\ Parent(Append(r, n)) = r /\ Base(Append(r, n)) = n
         /\ Len(Append(r, n)) = Len(r) + 1 /\ Len(r) \in Nat
         /\ Append(r, n)[Len(r) + 1] = n
         /\ \A i \in 1..Len(r) : Append(r, n)[i] = r[i]
         /\ RealKey(Append(r, n)) # RealKey(r)
<1>. DEFINE S == Name \cup DOMAIN HostDirs
            s == Append(r, n)
<1>1. r \in Seq(S) /\ r # <<>> /\ r[1] \in DOMAIN HostDirs /\ n \in S
  BY DEF IsRealPath, Real
<1>. HIDE DEF S
<1>2. /\ s \in Seq(S) /\ Len(s) = Len(r) + 1 /\ Len(r) \in Nat /\ Len(r) >= 1
      /\ s[Len(r) + 1] = n
      /\ \A i \in 1..Len(r) : s[i] = r[i]
  BY <1>1, AppendProperties, LenProperties, EmptySeq
<1>. HIDE DEF s
<1>3. s # <<>> /\ s[1] = r[1] /\ IsRealPath(s)
  BY <1>1, <1>2 DEF IsRealPath, Real, S
<1>4. Parent(s) = r
  <2>1. /\ Parent(s) \in Seq(S) /\ Len(Parent(s)) = Len(s) - 1
        /\ \A i \in 1..Len(s) - 1 : Parent(s)[i] = s[i]
    BY <1>2, <1>3, ParentOf
  <2>2. Len(Parent(s)) = Len(r) /\ \A i \in 1..Len(Parent(s)) : Parent(s)[i] = r[i]
    BY <1>2, <2>1
  <2>. QED  BY <1>1, <2>1, <2>2, SameSequence
<1>5. Base(s) = n
  BY <1>2 DEF Base
<1>6. RealKey(s) # RealKey(r)
  <2>1. DOMAIN RealKey(s) = 1..Len(r) + 1 /\ DOMAIN RealKey(r) = 1..Len(r)
    BY <1>2 DEF RealKey
  <2>2. Len(r) + 1 \in 1..Len(r) + 1 /\ Len(r) + 1 \notin 1..Len(r)
    BY <1>2
  <2>. QED  BY <2>1, <2>2
<1>. QED  BY <1>2, <1>3, <1>4, <1>5, <1>6 DEF s

\* Taken apart and put together again, a real path is the same.
LEMMA SplitAgain ==
  ASSUME NEW r, IsRealPath(r), Len(r) # 1, Base(r) \in Name
  PROVE  Append(Parent(r), Base(r)) = r
<1>. DEFINE S == Name \cup DOMAIN HostDirs
            s == Append(Parent(r), Base(r))
<1>1. /\ IsRealPath(Parent(r)) /\ Len(Parent(r)) = Len(r) - 1 /\ Len(r) \in Nat
      /\ \A i \in 1..Len(Parent(r)) : Parent(r)[i] = r[i]
  BY RealPathParent
<1>2. /\ IsRealPath(s) /\ Len(s) = Len(Parent(r)) + 1
      /\ s[Len(Parent(r)) + 1] = Base(r)
      /\ \A i \in 1..Len(Parent(r)) : s[i] = Parent(r)[i]
  BY <1>1, PathAndName
<1>. HIDE DEF s
<1>3. Len(s) = Len(r) /\ \A i \in 1..Len(s) : s[i] = r[i]
  BY <1>1, <1>2 DEF Base
<1>4. s \in Seq(S) /\ r \in Seq(S)
  BY <1>2 DEF IsRealPath, Real
<1>. QED  BY <1>3, <1>4, SameSequence DEF s

\* A name appended to the real path of the directory above has the key of the path.
LEMMA KeyedChild ==
  ASSUME NEW p \in Seq(Name), p # <<>>, NEW r, KeyedReal(Parent(Fold(p)), r)
  PROVE  KeyedReal(Fold(p), Append(r, Base(p)))
<1>. DEFINE k == Fold(p)
            s == Append(r, Base(p))
<1>1. /\ k \in Seq(Key) /\ k # <<>> /\ Base(p) \in Name /\ Lower[Base(p)] = Base(k)
  BY FoldProperties, FoldBase
<1>. HIDE DEF k
<1>2. /\ Len(k) \in Nat \ {0} /\ Len(Parent(k)) = Len(k) - 1
      /\ \A i \in 1..Len(k) - 1 : Parent(k)[i] = k[i]
  BY <1>1, ParentProperties
<1>3. /\ IsRealPath(r) /\ Len(r) = Len(Parent(k)) + 1
      /\ \A i \in 1..Len(Parent(k)) : r[i + 1] \in Name /\ Lower[r[i + 1]] = Parent(k)[i]
  BY DEF KeyedReal, k
<1>4. /\ IsRealPath(s) /\ Len(s) = Len(r) + 1 /\ s[Len(r) + 1] = Base(p)
      /\ \A i \in 1..Len(r) : s[i] = r[i]
  BY <1>1, <1>3, PathAndName
<1>. HIDE DEF s
<1>5. Len(r) = Len(k) /\ Len(s) = Len(k) + 1
  BY <1>2, <1>3, <1>4
<1>6. ASSUME NEW i \in 1..Len(k)
      PROVE  s[i + 1] \in Name /\ Lower[s[i + 1]] = k[i]
  <2>1. CASE i = Len(k)
    BY <1>1, <1>4, <1>5, <2>1 DEF Base
  <2>2. CASE i # Len(k)
    <3>1. i \in 1..Len(k) - 1 /\ i + 1 \in 1..Len(r) /\ i \in 1..Len(Parent(k))
      BY <1>2, <1>5, <2>2
    <3>. QED  BY <1>2, <1>3, <1>4, <3>1
  <2>. QED  BY <2>1, <2>2
<1>7. KeyedReal(k, s)
  BY <1>4, <1>5, <1>6 DEF KeyedReal
<1>. QED  BY <1>7 DEF k, s

\* A path below a directory has the key it is folded to.
LEMMA KeyedJoin ==
  ASSUME NEW top \in DOMAIN HostDirs, NEW p \in Seq(Name), NEW k \in Seq(Key), Len(k) = Len(p),
         \A i \in 1..Len(p) : Lower[p[i]] = k[i]
  PROVE  KeyedReal(k, <<top>> \o p)
<1>. DEFINE r == <<top>> \o p
<1>1. /\ IsRealPath(r) /\ Len(r) = Len(p) + 1
      /\ \A i \in 2..Len(p) + 1 : r[i] = p[i - 1]
  BY JoinedPath
<1>. HIDE DEF r
<1>2. Len(p) \in Nat /\ \A i \in 1..Len(p) : p[i] \in Name
  BY LenProperties, ElementOfSeq
<1>3. ASSUME NEW i \in 1..Len(k)
      PROVE  r[i + 1] \in Name /\ Lower[r[i + 1]] = k[i]
  <2>1. i + 1 \in 2..Len(p) + 1 /\ (i + 1) - 1 = i /\ i \in 1..Len(p)
    BY <1>2
  <2>. QED  BY <1>1, <1>2, <2>1
<1>4. KeyedReal(k, r)
  BY <1>1, <1>3 DEF KeyedReal
<1>. QED  BY <1>4 DEF r

-----------------------------------------------------------------------------
(***************************************************************************)
(* The invariant.  Every item's real path has the item's key; no           *)
(* descriptor but 0 is kept for two real paths; and a directory of the     *)
(* tree is, in the directory kept for the real path of its parent, what    *)
(* its own descriptor was opened on.                                       *)
(***************************************************************************)
Keyed(t) == \A k \in DOMAIN t : KeyedReal(k, t[k].real)

OneKey(m) == \A q, r \in DOMAIN m : m[q] = m[r] /\ m[q] # Stdin => q = r

Led(m, d, r) ==
  /\ At(m, Parent(r)) \in DOMAIN d
  /\ StepTo(d, At(m, Parent(r)), Base(r)) = At(m, r)
  /\ At(m, r) # NoFd

DirsLed(t, m, d) ==
  \A k \in DOMAIN t :
    k # <<>> /\ t[k].type = "dir" /\ ~t[k].deleted => Led(m, d, t[k].real)

LInv == IInv /\ Apart(disk) /\ Keyed(tree) /\ OneKey(fdMap) /\ DirsLed(tree, fdMap, disk)

\* The map e and the disk c have all the map m and the disk d have.
Grown(m, d, e, c) ==
  /\ \A q \in DOMAIN m : q \in DOMAIN e /\ e[q] = m[q]
  /\ DOMAIN d \subseteq DOMAIN c
  /\ \A g \in DOMAIN d : \A n : StepTo(d, g, n) # NoFd => StepTo(c, g, n) = StepTo(d, g, n)

\* No descriptor of a directory is that of a missing key.
LEMMA NoFdNotThere ==
  ASSUME NEW d, IsDisk(d)
  PROVE  NoFd \notin DOMAIN d /\ Stdin \notin DOMAIN d /\ NoFd # Stdin
BY DiskParts DEF NoFd, Stdin

\* A directory that is led to stays so when the map and the disk only grow.
LEMMA GrownLeads ==
  ASSUME NEW m, NEW d, IsDisk(d), NEW e, NEW c, Grown(m, d, e, c), NEW r, Led(m, d, r)
  PROVE  Led(e, c, r)
<1>1. NoFd \notin DOMAIN d
  BY NoFdNotThere
<1>2. \A q : At(m, q) # NoFd => At(e, q) = At(m, q)
  BY DEF At, Grown
<1>3. At(e, Parent(r)) = At(m, Parent(r)) /\ At(e, r) = At(m, r)
  BY <1>1, <1>2 DEF Led
<1>. QED  BY <1>3 DEF Led, Grown

\* A descriptor that was just opened is kept for one real path.
LEMMA PutOneKey ==
  ASSUME NEW m, OneKey(m), NEW r, NEW h, \A q \in DOMAIN m : m[q] # h
  PROVE  OneKey(Put(m, r, h))
BY DEF OneKey, Put

\* What the map holds after a descriptor is kept.
LEMMA PutParts ==
  ASSUME NEW m, NEW r, NEW h
  PROVE  /\ At(Put(m, r, h), r) = h
         /\ \A s : RealKey(s) # RealKey(r) => At(Put(m, r, h), s) = At(m, s)
         /\ RealKey(r) \notin DOMAIN m =>
              \A q \in DOMAIN m : q \in DOMAIN Put(m, r, h) /\ Put(m, r, h)[q] = m[q]
<1>. DEFINE e == Put(m, r, h)
<1>1. DOMAIN e = DOMAIN m \cup {RealKey(r)}
      /\ \A q \in DOMAIN e : e[q] = IF q = RealKey(r) THEN h ELSE m[q]
  BY DEF Put
<1>. HIDE DEF e
<1>2. At(e, r) = h
  BY <1>1 DEF At
<1>3. \A s : RealKey(s) # RealKey(r) => At(e, s) = At(m, s)
  BY <1>1 DEF At
<1>4. RealKey(r) \notin DOMAIN m => \A q \in DOMAIN m : q \in DOMAIN e /\ e[q] = m[q]
  BY <1>1
<1>. QED  BY <1>2, <1>3, <1>4 DEF e

\* Making something where the call may be made adds to the disk.
LEMMA MadeGrows ==
  ASSUME NEW d, IsDisk(d), GivenDirs(d), Apart(d), NEW m, FdMapGood(m, d), OneKey(m),
         NEW h, h = NoFd \/ h = Stdin \/ (h \in DOMAIN d /\ d[h].kind = "dir"),
         NEW n \in Name, MakeError(d, h, n) = "ok",
         NEW kind \in NodeKinds, NEW e, e = Made(d, h, n, kind)
  PROVE  /\ IsDisk(e) /\ GivenDirs(e) /\ Apart(e) /\ Grown(m, d, m, e)
         /\ h \in DOMAIN d /\ StepTo(e, h, n) = Len(d) + 1
         /\ Len(e) = Len(d) + 1 /\ Len(e) \in DOMAIN e /\ e[Len(e)].kind = kind
         /\ Len(d) + 1 # NoFd
         /\ \A q \in DOMAIN m : m[q] # Len(d) + 1
<1>1. FdError(h) = "ok" /\ n \notin Entries(d, h)
  BY DEF MakeError
<1>2. h \in DOMAIN d /\ d[h].kind = "dir"
  BY <1>1 DEF FdError
<1>3. StepTo(d, h, n) = NoFd
  BY <1>1 DEF StepTo
<1>4. PICK i : i = Len(d) + 1
  OBVIOUS
<1>5. /\ \A x : x \in DOMAIN e <=> x \in DOMAIN d \/ x = i
      /\ i \notin DOMAIN d
      /\ \A g \in DOMAIN d : \A y :
           StepTo(e, g, y) = IF g = h /\ y = n THEN i ELSE StepTo(d, g, y)
  BY <1>2, <1>4, MadeSteps
<1>6. /\ IsDisk(e) /\ Len(e) = Len(d) + 1 /\ KeepsInodes(d, e)
      /\ Len(d) + 1 \in DOMAIN e /\ e[Len(d) + 1].kind = kind
  BY MadeDisk
<1>7. Apart(e)
  BY <1>2, <1>3, MadeApart
<1>8. GivenDirs(e)
  BY <1>6, GivenDirsKept
<1>9. Grown(m, d, m, e)
  BY <1>3, <1>5 DEF Grown
<1>10. \A q \in DOMAIN m : m[q] # i
  <2>1. Len(d) \in Nat
    BY DiskParts
  <2>2. i # Stdin
    BY <1>4, <2>1 DEF Stdin
  <2>. QED  BY <1>5, <2>2 DEF FdMapGood
<1>11. i # NoFd
  BY <1>4, DiskParts DEF NoFd
<1>. QED  BY <1>2, <1>4, <1>5, <1>6, <1>7, <1>8, <1>9, <1>10, <1>11

HasUpper == UpperDir # ""

\* createParentDir() adds to the disk and to the map, and answers with the
\* descriptor that is kept for the real path then.
LEMMA ParentDirLeads ==
  ASSUME LInv, NEW k \in Seq(Key), NEW real, KeyedReal(k, real), NEW fails,
         HasUpper /\ At(fdMap, real) = NoFd => k # <<>>,
         NEW in, in = ParentDir(real, fails)
  PROVE  /\ IsDisk(in.disk) /\ GivenDirs(in.disk) /\ Apart(in.disk)
         /\ FdMapGood(in.fdMap, in.disk) /\ OneKey(in.fdMap)
         /\ Grown(fdMap, disk, in.fdMap, in.disk)
         /\ in.err = "ok" => in.fd = At(in.fdMap, real)
<1>. DEFINE fd == At(fdMap, real)
            up == At(fdMap, Parent(real))
            n == Base(real)
            err == MakeError(disk, up, n)
            made == Made(disk, up, n, "dir")
            top == Opened(fdMap, Parent(real), n, Len(made))
<1>1. in = IF fd # NoFd \/ ~HasUpper
           THEN [err |-> "ok", fd |-> fd, disk |-> disk, fdMap |-> fdMap]
           ELSE IF err # "ok" THEN [err |-> err, fd |-> NoFd, disk |-> disk, fdMap |-> fdMap]
           ELSE IF fails THEN [err |-> "EMFILE", fd |-> NoFd, disk |-> made, fdMap |-> fdMap]
           ELSE [err |-> "ok", fd |-> Len(made), disk |-> made, fdMap |-> top]
  BY Zenon DEF ParentDir, HasUpper
<1>2. /\ IsDisk(disk) /\ GivenDirs(disk) /\ Apart(disk) /\ FdMapGood(fdMap, disk)
      /\ OneKey(fdMap)
  BY DEF LInv, IInv
<1>3. Grown(fdMap, disk, fdMap, disk)
  BY DEF Grown
<1>4. ASSUME ~(fd # NoFd \/ ~HasUpper), err = "ok"
      PROVE  /\ IsDisk(made) /\ GivenDirs(made) /\ Apart(made)
             /\ FdMapGood(fdMap, made) /\ Grown(fdMap, disk, fdMap, made)
             /\ FdMapGood(top, made) /\ OneKey(top) /\ Grown(fdMap, disk, top, made)
             /\ At(top, real) = Len(made)
  <2>1. n \in Name /\ Len(real) # 1 /\ IsRealPath(real)
    BY <1>4, KeyedParent DEF KeyedReal
  <2>2. Append(Parent(real), n) = real
    BY <2>1, SplitAgain
  <2>3. up = NoFd \/ up = Stdin \/ (up \in DOMAIN disk /\ disk[up].kind = "dir")
    BY <1>2 DEF At, FdMapGood
  <2>4. "dir" \in NodeKinds
    BY DEF NodeKinds
  <2>5. top = Put(fdMap, real, Len(made))
    BY <2>2 DEF Opened
  <2>6. RealKey(real) \notin DOMAIN fdMap
    BY <1>4, HandleThere DEF At, LInv
  <2>. HIDE DEF n, up, made, top, err
  <2>7. /\ IsDisk(made) /\ GivenDirs(made) /\ Apart(made) /\ Grown(fdMap, disk, fdMap, made)
        /\ Len(made) \in DOMAIN made /\ made[Len(made)].kind = "dir"
        /\ \A q \in DOMAIN fdMap : fdMap[q] # Len(made)
    <3>1. err = "ok" /\ err = MakeError(disk, up, n) /\ made = Made(disk, up, n, "dir")
      BY <1>4 DEF err, made
    <3>. QED  BY <1>2, <2>1, <2>3, <2>4, <3>1, MadeGrows
  <2>8. FdMapGood(fdMap, made)
    <3>1. KeepsInodes(disk, made)
      BY <1>2, <2>1, <2>4, MadeDisk DEF made
    <3>. QED  BY <1>2, <3>1, FdMapKeeps
  <2>9. FdMapGood(top, made)
    BY <2>5, <2>7, <2>8, PutGood
  <2>10. OneKey(top)
    BY <1>2, <2>5, <2>7, PutOneKey
  <2>11. /\ At(top, real) = Len(made)
         /\ \A q \in DOMAIN fdMap : q \in DOMAIN top /\ top[q] = fdMap[q]
    BY <2>5, <2>6, PutParts
  <2>12. Grown(fdMap, disk, top, made)
    BY <2>7, <2>11 DEF Grown
  <2>. QED  BY <2>7, <2>8, <2>9, <2>10, <2>11, <2>12
<1>. HIDE DEF fd, up, n, err, made, top
<1>5. CASE fd # NoFd \/ ~HasUpper
  <2>1. in.err = "ok" /\ in.disk = disk /\ in.fdMap = fdMap /\ in.fd = fd
    BY <1>1, <1>5
  <2>. QED  BY <2>1, <1>2, <1>3 DEF fd
<1>6. CASE ~(fd # NoFd \/ ~HasUpper) /\ err # "ok"
  <2>1. in.err = err /\ in.disk = disk /\ in.fdMap = fdMap
    BY <1>1, <1>6
  <2>. QED  BY <2>1, <1>2, <1>3, <1>6
<1>7. CASE ~(fd # NoFd \/ ~HasUpper) /\ err = "ok" /\ fails
  <2>1. in.err = "EMFILE" /\ in.disk = made /\ in.fdMap = fdMap
    BY <1>1, <1>7
  <2>. QED  BY <2>1, <1>2, <1>4, <1>7
<1>8. CASE ~(fd # NoFd \/ ~HasUpper) /\ err = "ok" /\ ~fails
  <2>1. in.err = "ok" /\ in.disk = made /\ in.fdMap = top /\ in.fd = Len(made)
    BY <1>1, <1>8
  <2>. QED  BY <2>1, <1>4, <1>8
<1>. QED  BY <1>5, <1>6, <1>7, <1>8

\* The spelling of the items down to one has the item's key.
LEMMA FilePathKeyed ==
  ASSUME NEW t, GoodTree(t), NEW k \in DOMAIN t, NEW top \in DOMAIN HostDirs
  PROVE  KeyedReal(k, <<top>> \o FilePath(t, k))
<1>. DEFINE q == FilePath(t, k)
<1>1. Sound(t, Real) /\ k \in Seq(Key)
  BY DEF GoodTree, Sound, IsTree
<1>2. q \in Seq(Name) /\ Len(q) = Len(k)
  BY <1>1, FilePathType
<1>3. ASSUME NEW i \in 1..Len(q)
      PROVE  Lower[q[i]] = k[i]
  <2>. DEFINE s == SubSeq(k, 1, i)
  <2>1. Len(k) \in Nat /\ i \in 0..Len(k) /\ i \in 1..Len(k)
    BY <1>1, <1>2, LenProperties
  <2>2. s \in DOMAIN t /\ Len(s) = i
    BY <1>1, <2>1, PrefixesPresent
  <2>3. s # <<>>
    BY <2>1, <2>2
  <2>4. Base(s) = k[i]
    BY <1>1, <2>1, <2>2 DEF Base
  <2>5. q[i] = t[s].name
    BY <2>1 DEF FilePath
  <2>. HIDE DEF s, q
  <2>6. Lower[t[s].name] = Base(s)
    BY <1>1, <2>2, <2>3 DEF Sound, NamedByKey
  <2>. QED  BY <2>4, <2>5, <2>6
<1>. HIDE DEF q
<1>4. KeyedReal(k, <<top>> \o q)
  BY <1>1, <1>2, <1>3, KeyedJoin
<1>. QED  BY <1>4 DEF q

\* The real directory mkdir and rename make an item in has the parent's key.
LEMMA NewRealParentKeyed ==
  ASSUME LInv, NEW p \in Paths, p # <<>>, Visible(tree, Parent(p))
  PROVE  /\ Parent(Fold(p)) \in Seq(Key) /\ Parent(Fold(p)) \in DOMAIN tree
         /\ KeyedReal(Parent(Fold(p)), NewRealParent(p))
         /\ HasUpper /\ At(fdMap, NewRealParent(p)) = NoFd => Parent(Fold(p)) # <<>>
<1>. DEFINE k == Parent(Fold(p))
            q == FilePath(tree, k)
<1>1. Fold(Parent(p)) = k /\ k \in DOMAIN tree
  BY PathParts DEF Visible, Present
<1>2. GoodTree(tree) /\ k \in Seq(Key)
  BY <1>1 DEF LInv, IInv, GoodTree, Sound, IsTree
<1>3. NewRealParent(p) = IF ~HasUpper THEN tree[k].real ELSE <<UpperDir>> \o q
  BY <1>1, Zenon DEF NewRealParent, HasUpper
<1>4. KeyedReal(k, tree[k].real)
  BY <1>1 DEF LInv, Keyed
<1>5. ASSUME HasUpper
      PROVE  /\ KeyedReal(k, <<UpperDir>> \o q)
             /\ k = <<>> => <<UpperDir>> \o q = <<UpperDir>>
  <2>1. UpperDir \in DOMAIN HostDirs
    BY <1>5, UsvfsAssumption DEF HasUpper
  <2>2. KeyedReal(k, <<UpperDir>> \o q)
    BY <1>1, <1>2, <2>1, FilePathKeyed
  <2>3. q \in Seq(Name) /\ Len(q) = Len(k)
    BY <1>1, <1>2, FilePathType DEF GoodTree
  <2>4. k = <<>> => q = <<>>
    BY <2>3, EmptySeq
  <2>. QED  BY <2>1, <2>2, <2>3, <2>4, LastOfPath
<1>6. HasUpper => At(fdMap, <<UpperDir>>) # NoFd
  <2>1. HasUpper => RealKey(<<UpperDir>>) \in DOMAIN fdMap
    BY DEF LInv, IInv, FdMapGood, HasUpper
  <2>. QED  BY <2>1, HandleThere DEF At, LInv
<1>. HIDE DEF q, k
<1>7. k \in Seq(Key) /\ k \in DOMAIN tree /\ KeyedReal(k, NewRealParent(p))
      /\ (HasUpper /\ At(fdMap, NewRealParent(p)) = NoFd => k # <<>>)
  BY <1>1, <1>2, <1>3, <1>4, <1>5, <1>6
<1>. QED  BY <1>7 DEF k

\* So has the real directory create makes a file in.
LEMMA CreateRealParentKeyed ==
  ASSUME LInv, NEW p \in Paths, p # <<>>, HasUpper \/ Visible(tree, Parent(p))
  PROVE  /\ Parent(Fold(p)) \in Seq(Key)
         /\ KeyedReal(Parent(Fold(p)), CreateRealParent(p))
         /\ HasUpper /\ At(fdMap, CreateRealParent(p)) = NoFd => Parent(Fold(p)) # <<>>
<1>. DEFINE k == Parent(Fold(p))
            q == Parent(p)
<1>1. /\ Fold(q) = k /\ q \in Seq(Name) /\ k \in Seq(Key) /\ Len(k) = Len(q)
      /\ k = <<>> <=> q = <<>>
  BY PathParts, FoldProperties
<1>2. CreateRealParent(p) = IF ~HasUpper THEN tree[k].real ELSE <<UpperDir>> \o q
  BY <1>1, Zenon DEF CreateRealParent, HasUpper
<1>3. ~HasUpper => KeyedReal(k, tree[k].real)
  BY <1>1 DEF LInv, Keyed, Visible, Present
<1>4. ASSUME HasUpper
      PROVE  /\ KeyedReal(k, <<UpperDir>> \o q)
             /\ k = <<>> => <<UpperDir>> \o q = <<UpperDir>>
  <2>1. UpperDir \in DOMAIN HostDirs
    BY <1>4, UsvfsAssumption DEF HasUpper
  <2>2. \A i \in 1..Len(q) : Lower[q[i]] = k[i]
    BY <1>1 DEF Fold
  <2>. HIDE DEF k, q
  <2>. QED  BY <1>1, <2>1, <2>2, KeyedJoin, LastOfPath
<1>5. HasUpper => At(fdMap, <<UpperDir>>) # NoFd
  <2>1. HasUpper => RealKey(<<UpperDir>>) \in DOMAIN fdMap
    BY DEF LInv, IInv, FdMapGood, HasUpper
  <2>. QED  BY <2>1, HandleThere DEF At, LInv
<1>. HIDE DEF q, k
<1>6. k \in Seq(Key) /\ KeyedReal(k, CreateRealParent(p))
      /\ (HasUpper /\ At(fdMap, CreateRealParent(p)) = NoFd => k # <<>>)
  BY <1>1, <1>2, <1>3, <1>4, <1>5
<1>. QED  BY <1>6 DEF k

-----------------------------------------------------------------------------
(***************************************************************************)
(* The handlers that make something.                                       *)
(***************************************************************************)
\* The directories of the tree stay led to when the map and the disk only grow.
LEMMA GrownDirsLed ==
  ASSUME NEW t, NEW m, NEW d, IsDisk(d), DirsLed(t, m, d), NEW e, NEW c, Grown(m, d, e, c)
  PROVE  DirsLed(t, e, c)
BY GrownLeads DEF DirsLed

\* What add() does to items: that of the path gets the real path, and keeps
\* its type if it was there.
LEMMA AddedItems ==
  ASSUME NEW t, GoodTree(t), NEW p, NEW real \in Real, NEW type \in Type,
         NEW u, u = Added(t, p, real, type)
  PROVE  /\ \A k : k \in DOMAIN u <=> k \in DOMAIN t \/ k = Fold(p)
         /\ \A k \in DOMAIN t : k # Fold(p) => u[k] = t[k]
         /\ u[Fold(p)].real = real
         /\ Fold(p) \in DOMAIN t => u[Fold(p)].type = t[Fold(p)].type
         /\ Fold(p) \notin DOMAIN t => u[Fold(p)].type = type
<1>. DEFINE k == Fold(p)
            item == IF k \in DOMAIN t THEN Revived(t[k], real) ELSE NewItem(Base(p), real, type)
<1>1. u = [q \in DOMAIN t \cup {k} |-> IF q # k THEN t[q] ELSE item]
  BY Zenon DEF Added
<1>2. k \in DOMAIN t => /\ t[k] \in Item(Real)
  BY DEF GoodTree, Sound, IsTree
<1>3. k \in DOMAIN t => Revived(t[k], real).real = real /\ Revived(t[k], real).type = t[k].type
  <2>. HIDE DEF k
  <2>. QED  BY <1>2 DEF Revived, Item
<1>4. NewItem(Base(p), real, type).real = real /\ NewItem(Base(p), real, type).type = type
  BY DEF NewItem
<1>5. /\ item.real = real
      /\ item.type = IF k \in DOMAIN t THEN t[k].type ELSE type
  <2>. HIDE DEF k
  <2>. QED  BY <1>3, <1>4
<1>. HIDE DEF k, item
<1>6. /\ DOMAIN u = DOMAIN t \cup {k} /\ u[k] = item
      /\ \A q \in DOMAIN t : q # k => u[q] = t[q]
  BY <1>1
<1>. QED  BY <1>5, <1>6 DEF k

\* A real path with the path's key keeps the tree's real paths keyed.
LEMMA AddedKeyed ==
  ASSUME NEW t, GoodTree(t), Keyed(t), NEW p, NEW real, KeyedReal(Fold(p), real),
         NEW type \in Type, NEW u, u = Added(t, p, real, type)
  PROVE  Keyed(u)
<1>1. real \in Real
  BY DEF KeyedReal, IsRealPath
<1>2. /\ \A k : k \in DOMAIN u <=> k \in DOMAIN t \/ k = Fold(p)
      /\ \A k \in DOMAIN t : k # Fold(p) => u[k] = t[k]
      /\ u[Fold(p)].real = real
  BY <1>1, AddedItems
<1>. QED  BY <1>2 DEF Keyed

\* A descriptor kept for a real path that is no item's leaves the directories
\* of the tree led to.
LEMMA PutDirsLed ==
  ASSUME NEW t, GoodTree(t), Keyed(t), NEW m, NEW d, DirsLed(t, m, d),
         NEW k \in Seq(Key), k \notin DOMAIN t, NEW real, KeyedReal(k, real), NEW h
  PROVE  DirsLed(t, Put(m, real, h), d)
<1>. DEFINE e == Put(m, real, h)
<1>1. \A s : RealKey(s) # RealKey(real) => At(e, s) = At(m, s)
  BY PutParts
<1>. HIDE DEF e
<1>2. ASSUME NEW q \in DOMAIN t, q # <<>>
      PROVE  /\ RealKey(t[q].real) # RealKey(real)
             /\ RealKey(Parent(t[q].real)) # RealKey(real)
  <2>1. q \in Seq(Key) /\ KeyedReal(q, t[q].real) /\ Parent(q) \in DOMAIN t
    BY <1>2 DEF GoodTree, Sound, IsTree, PrefixClosed, Keyed
  <2>2. Parent(q) \in Seq(Key) /\ KeyedReal(Parent(q), Parent(t[q].real))
    BY <1>2, <2>1, KeyedParent
  <2>3. q # k /\ Parent(q) # k
    BY <2>1
  <2>. QED  BY <2>1, <2>2, <2>3, KeyedSame
<1>3. DirsLed(t, e, d)
  BY <1>1, <1>2 DEF DirsLed, Led
<1>. QED  BY <1>3 DEF e

\* mkdir: the descriptor of the new directory is kept for a real path that is
\* no other item's, and the directory is where that path says.
LEMMA MkdirNewLeads ==
  ASSUME LInv, NEW p \in Paths, p # <<>>, NEW parentFails, NEW fails,
         MkdirNew(p, parentFails, fails)
  PROVE  Apart(disk') /\ Keyed(tree') /\ OneKey(fdMap') /\ DirsLed(tree', fdMap', disk')
<1>. DEFINE realParent == NewRealParent(p)
            n == Base(p)
            k == Fold(p)
            real == Append(realParent, n)
            in == ParentDir(realParent, parentFails)
            err == IF in.err # "ok" THEN in.err ELSE MakeError(in.disk, in.fd, n)
            made == Made(in.disk, in.fd, n, "dir")
            i == Len(in.disk) + 1
            opened == Opened(in.fdMap, realParent, n, i)
            added == AddError(tree, p, FALSE)
<1>1. /\ p \in Seq(Name) /\ n \in Name /\ k \in Seq(Key) /\ k # <<>>
      /\ ~Present(tree, p) /\ Visible(tree, Parent(p))
  BY PathParts DEF MkdirNew
<1>2. /\ Parent(k) \in Seq(Key) /\ Parent(k) \in DOMAIN tree
      /\ KeyedReal(Parent(k), realParent)
      /\ HasUpper /\ At(fdMap, realParent) = NoFd => Parent(k) # <<>>
  BY <1>1, NewRealParentKeyed
<1>3. KeyedReal(k, real)
  BY <1>1, <1>2, KeyedChild
<1>4. /\ disk' = IF err = "ok" THEN made ELSE in.disk
      /\ \/ /\ err # "ok"
            /\ fdMap' = in.fdMap
            /\ Reply("mkdir", p, p, err)
            /\ UNCHANGED tree
         \/ /\ err = "ok" /\ fails
            /\ fdMap' = in.fdMap
            /\ Reply("mkdir", p, p, "EMFILE")
            /\ UNCHANGED tree
         \/ /\ err = "ok" /\ ~fails
            /\ fdMap' = opened
            /\ IF added = "ok"
               THEN tree' = Added(tree, p, real, "dir") /\ Reply("mkdir", p, p, "ok")
               ELSE Reply("mkdir", p, p, "EIO") /\ UNCHANGED tree
  BY Zenon DEF MkdirNew
<1>5. added = "ok"
  BY <1>1, <1>2 DEF AddError, Visible, Present
<1>6. /\ IsDisk(in.disk) /\ GivenDirs(in.disk) /\ Apart(in.disk)
      /\ FdMapGood(in.fdMap, in.disk) /\ OneKey(in.fdMap)
      /\ Grown(fdMap, disk, in.fdMap, in.disk)
      /\ in.err = "ok" => in.fd = At(in.fdMap, realParent)
  <2>. HIDE DEF realParent, k
  <2>. QED  BY <1>2, ParentDirLeads
<1>7. /\ GoodTree(tree) /\ IsDisk(disk) /\ Keyed(tree) /\ DirsLed(tree, fdMap, disk)
      /\ k \notin DOMAIN tree
  BY <1>1 DEF LInv, IInv, Present
<1>8. DirsLed(tree, in.fdMap, in.disk)
  <2>. HIDE DEF in
  <2>. QED  BY <1>6, <1>7, GrownDirsLed
<1>9. in.err = "ok" =>
        in.fd = NoFd \/ in.fd = Stdin \/ (in.fd \in DOMAIN in.disk /\ in.disk[in.fd].kind = "dir")
  <2>. HIDE DEF in, realParent
  <2>. QED  BY <1>6 DEF At, FdMapGood
<1>. HIDE DEF in, realParent, n, k
<1>10. ASSUME err = "ok"
       PROVE  /\ IsDisk(made) /\ Apart(made) /\ Grown(in.fdMap, in.disk, in.fdMap, made)
              /\ in.fd \in DOMAIN made /\ StepTo(made, in.fd, n) = i /\ i # NoFd
              /\ \A q \in DOMAIN in.fdMap : in.fdMap[q] # i
              /\ in.fd = At(in.fdMap, realParent)
  <2>1. in.err = "ok" /\ MakeError(in.disk, in.fd, n) = "ok"
    BY <1>10
  <2>2. "dir" \in NodeKinds
    BY DEF NodeKinds
  <2>. DEFINE d == in.disk
              m == in.fdMap
              h == in.fd
  <2>3. made = Made(d, h, n, "dir")
    OBVIOUS
  <2>. HIDE DEF made, d, m, h
  <2>4. /\ IsDisk(made) /\ Apart(made) /\ Grown(m, d, m, made)
        /\ h \in DOMAIN d /\ StepTo(made, h, n) = Len(d) + 1 /\ Len(d) + 1 # NoFd
        /\ \A q \in DOMAIN m : m[q] # Len(d) + 1
    <3>1. IsDisk(d) /\ GivenDirs(d) /\ Apart(d) /\ FdMapGood(m, d) /\ OneKey(m)
      BY <1>6 DEF d, m
    <3>2. /\ MakeError(d, h, n) = "ok" /\ n \in Name
          /\ h = NoFd \/ h = Stdin \/ (h \in DOMAIN d /\ d[h].kind = "dir")
      BY <1>1, <1>9, <2>1 DEF d, h
    <3>. QED  BY <2>2, <2>3, <3>1, <3>2, MadeGrows
  <2>. QED  BY <1>6, <2>1, <2>4 DEF Grown, d, m, h
<1>11. opened = Put(in.fdMap, real, i)
  BY DEF Opened
<1>. HIDE DEF made, err, opened, added, i
<1>12. CASE err # "ok"
  <2>1. disk' = in.disk /\ fdMap' = in.fdMap /\ tree' = tree
    BY <1>4, <1>12
  <2>. QED  BY <2>1, <1>6, <1>7, <1>8
<1>13. err = "ok" => DirsLed(tree, in.fdMap, made)
  BY <1>6, <1>8, <1>10, GrownDirsLed
<1>14. CASE err = "ok" /\ fails
  <2>1. disk' = made /\ fdMap' = in.fdMap /\ tree' = tree
    BY <1>4, <1>14
  <2>. QED  BY <2>1, <1>6, <1>7, <1>10, <1>13, <1>14
<1>15. CASE err = "ok" /\ ~fails
  <2>. DEFINE u == Added(tree, p, real, "dir")
  <2>1. disk' = made /\ fdMap' = opened /\ tree' = u
    BY <1>4, <1>5, <1>15
  <2>2. "dir" \in Type /\ real \in Real /\ IsRealPath(realParent)
    BY <1>2, <1>3 DEF Type, KeyedReal, IsRealPath
  <2>. DEFINE v == Put(in.fdMap, real, i)
  <2>3. v = opened
    BY <1>11
  <2>. HIDE DEF u, v
  <2>4. OneKey(opened)
    BY <1>6, <1>10, <1>11, <1>15, PutOneKey
  <2>5. Keyed(u)
    BY <1>3, <1>7, <2>2, AddedKeyed DEF k, u
  <2>6. DirsLed(tree, opened, made)
    BY <1>1, <1>3, <1>7, <1>11, <1>13, <1>15, PutDirsLed
  <2>7. Led(opened, made, real)
    <3>1. Parent(real) = realParent /\ Base(real) = n /\ RealKey(real) # RealKey(realParent)
      BY <1>1, <2>2, PathAndName
    <3>. HIDE DEF real
    <3>2. /\ At(Put(in.fdMap, real, i), real) = i
          /\ At(Put(in.fdMap, real, i), realParent) = At(in.fdMap, realParent)
      BY <3>1, PutParts
    <3>3. At(opened, real) = i /\ At(opened, realParent) = in.fd
      BY <1>10, <1>11, <1>15, <3>2
    <3>. QED  BY <1>10, <1>15, <3>1, <3>3 DEF Led
  <2>8. /\ \A q : q \in DOMAIN u <=> q \in DOMAIN tree \/ q = k
        /\ \A q \in DOMAIN tree : q # k => u[q] = tree[q]
        /\ u[k].real = real
    <3>1. u = Added(tree, p, real, "dir")
      BY DEF u
    <3>. HIDE DEF real
    <3>. QED  BY <1>7, <2>2, <3>1, AddedItems DEF k
  <2>9. DirsLed(u, opened, made)
    BY <2>6, <2>7, <2>8, <1>7 DEF DirsLed
  <2>. QED  BY <2>1, <2>4, <2>5, <2>9, <1>10, <1>15
<1>. QED  BY <1>12, <1>14, <1>15

\* mkdir, where no item was, or one that is still there.
LEMMA MkdirLeads ==
  ASSUME LInv, NEW p \in Paths, ~Present(tree, p), Mkdir(p)
  PROVE  Apart(disk') /\ Keyed(tree') /\ OneKey(fdMap') /\ DirsLed(tree', fdMap', disk')
<1>1. p # <<>>
  BY DEF Mkdir, Walkable
<1>2. CASE \E parentFails, fails \in Faults : MkdirNew(p, parentFails, fails)
  BY <1>1, <1>2, MkdirNewLeads
<1>3. CASE MkdirNoParent(p)
  <2>1. UNCHANGED <<tree, fdMap, disk>>
    BY <1>3 DEF MkdirNoParent, Fails
  <2>. QED  BY <2>1 DEF LInv
<1>4. ~MkdirExisting(p)
  BY DEF MkdirExisting
<1>. QED  BY <1>2, <1>3, <1>4 DEF Mkdir

\* An item that is no directory changes nothing for the directories.
LEMMA AddedDirsLed ==
  ASSUME NEW t, GoodTree(t), NEW m, NEW d, DirsLed(t, m, d), NEW p, NEW real \in Real,
         NEW type \in Type, type # "dir", Fold(p) \in DOMAIN t => t[Fold(p)].type # "dir",
         NEW u, u = Added(t, p, real, type)
  PROVE  DirsLed(u, m, d)
<1>1. /\ \A k : k \in DOMAIN u <=> k \in DOMAIN t \/ k = Fold(p)
      /\ \A k \in DOMAIN t : k # Fold(p) => u[k] = t[k]
      /\ Fold(p) \in DOMAIN t => u[Fold(p)].type = t[Fold(p)].type
      /\ Fold(p) \notin DOMAIN t => u[Fold(p)].type = type
  BY AddedItems
<1>2. u[Fold(p)].type # "dir"
  BY <1>1
<1>. QED  BY <1>1, <1>2 DEF DirsLed

\* create: a file is made, or the one on disk opened.
LEMMA CreateFileLeads ==
  ASSUME LInv, NEW p \in Paths, p # <<>>, Present(tree, p) => tree[Fold(p)].type = "file",
         NEW excl, NEW parentFails, CreateFile(p, excl, parentFails)
  PROVE  Apart(disk') /\ Keyed(tree') /\ OneKey(fdMap') /\ DirsLed(tree', fdMap', disk')
<1>. DEFINE realParent == CreateRealParent(p)
            n == Base(p)
            k == Fold(p)
            real == Append(realParent, n)
            in == ParentDir(realParent, parentFails)
            err == IF in.err # "ok" THEN in.err ELSE OpenCreateError(in.disk, in.fd, n, excl)
            made == Made(in.disk, in.fd, n, "file")
            opened == disk'[in.fd].names[n]
            added == AddError(tree, p, FALSE)
            u == Added(tree, p, real, "file")
<1>1. /\ p \in Seq(Name) /\ n \in Name /\ k \in Seq(Key) /\ k # <<>>
      /\ HasUpper \/ Visible(tree, Parent(p))
  BY PathParts, Zenon DEF CreateFile, HasUpper
<1>2. /\ Parent(k) \in Seq(Key)
      /\ KeyedReal(Parent(k), realParent)
      /\ HasUpper /\ At(fdMap, realParent) = NoFd => Parent(k) # <<>>
  BY <1>1, CreateRealParentKeyed
<1>3. KeyedReal(k, real)
  BY <1>1, <1>2, KeyedChild
<1>4. /\ fdMap' = in.fdMap
      /\ IF err # "ok"
         THEN /\ disk' = in.disk
              /\ Reply("create", p, p, err)
              /\ UNCHANGED tree
         ELSE /\ disk' = IF n \in Entries(in.disk, in.fd) THEN in.disk ELSE made
              /\ IF Visible(tree, p)
                 THEN ReplyWith("create", p, "ok", opened) /\ UNCHANGED tree
                 ELSE /\ tree' = IF added = "ok" THEN u ELSE tree
                      /\ ReplyWith("create", p, added, opened)
  BY Zenon DEF CreateFile
<1>6. /\ IsDisk(in.disk) /\ GivenDirs(in.disk) /\ Apart(in.disk)
      /\ FdMapGood(in.fdMap, in.disk) /\ OneKey(in.fdMap)
      /\ Grown(fdMap, disk, in.fdMap, in.disk)
      /\ in.err = "ok" => in.fd = At(in.fdMap, realParent)
  <2>. HIDE DEF realParent, k
  <2>. QED  BY <1>2, ParentDirLeads
<1>7. /\ GoodTree(tree) /\ IsDisk(disk) /\ Keyed(tree) /\ DirsLed(tree, fdMap, disk)
      /\ k \in DOMAIN tree => tree[k].type # "dir"
  BY DEF LInv, IInv, Present
<1>8. DirsLed(tree, in.fdMap, in.disk)
  <2>. HIDE DEF in
  <2>. QED  BY <1>6, <1>7, GrownDirsLed
<1>9. in.err = "ok" =>
        in.fd = NoFd \/ in.fd = Stdin \/ (in.fd \in DOMAIN in.disk /\ in.disk[in.fd].kind = "dir")
  <2>. HIDE DEF in, realParent
  <2>. QED  BY <1>6 DEF At, FdMapGood
<1>. HIDE DEF in, realParent, n, k
<1>10. ASSUME err = "ok", n \notin Entries(in.disk, in.fd)
       PROVE  Apart(made) /\ DirsLed(tree, in.fdMap, made)
  <2>. DEFINE d == in.disk
              m == in.fdMap
              h == in.fd
  <2>1. in.err = "ok" /\ OpenCreateError(d, h, n, excl) = "ok"
    BY <1>10
  <2>2. "file" \in NodeKinds
    BY DEF NodeKinds
  <2>3. made = Made(d, h, n, "file")
    OBVIOUS
  <2>4. n \notin Entries(d, h)
    BY <1>10
  <2>. HIDE DEF made, d, m, h
  <2>5. MakeError(d, h, n) = "ok"
    <3>1. MakeError(d, h, n) # "EEXIST"
      BY <2>4 DEF MakeError, FdError
    <3>. QED  BY <2>1, <3>1 DEF OpenCreateError
  <2>6. IsDisk(d) /\ GivenDirs(d) /\ Apart(d) /\ FdMapGood(m, d) /\ OneKey(m)
    BY <1>6 DEF d, m
  <2>7. h = NoFd \/ h = Stdin \/ (h \in DOMAIN d /\ d[h].kind = "dir")
    BY <1>9, <2>1 DEF d, h
  <2>8. Apart(made) /\ Grown(m, d, m, made)
    BY <1>1, <2>2, <2>3, <2>5, <2>6, <2>7, MadeGrows
  <2>9. DirsLed(tree, m, d)
    BY <1>8 DEF m, d
  <2>10. DirsLed(tree, m, made)
    BY <2>6, <2>8, <2>9, GrownDirsLed
  <2>. QED  BY <2>8, <2>10 DEF m
<1>. HIDE DEF made, err, opened, added
<1>11. Apart(disk') /\ OneKey(fdMap') /\ DirsLed(tree, fdMap', disk')
  <2>1. fdMap' = in.fdMap
        /\ (disk' = in.disk \/ (err = "ok" /\ n \notin Entries(in.disk, in.fd) /\ disk' = made))
    BY <1>4
  <2>. QED  BY <2>1, <1>6, <1>8, <1>10
<1>12. "file" \in Type /\ "file" # "dir" /\ real \in Real
  BY <1>3 DEF Type, KeyedReal, IsRealPath
<1>13. u = Added(tree, p, real, "file")
  OBVIOUS
<1>. HIDE DEF u, real
<1>14. Keyed(u)
  BY <1>3, <1>7, <1>12, <1>13, AddedKeyed DEF k
<1>15. DirsLed(u, fdMap', disk')
  BY <1>7, <1>11, <1>12, <1>13, AddedDirsLed DEF k
<1>16. tree' = tree \/ tree' = u
  BY <1>4
<1>. QED  BY <1>7, <1>11, <1>14, <1>15, <1>16

\* create, where no directory was.
LEMMA CreateLeads ==
  ASSUME LInv, NEW p \in Paths, Present(tree, p) => tree[Fold(p)].type = "file", Create(p)
  PROVE  Apart(disk') /\ Keyed(tree') /\ OneKey(fdMap') /\ DirsLed(tree', fdMap', disk')
<1>1. p # <<>>
  BY DEF Create, Walkable
<1>2. CASE \E excl \in BOOLEAN, parentFails \in Faults : CreateFile(p, excl, parentFails)
  BY <1>1, <1>2, CreateFileLeads
<1>3. CASE CreateNoParent(p)
  <2>1. UNCHANGED <<tree, fdMap, disk>>
    BY <1>3 DEF CreateNoParent, Fails
  <2>. QED  BY <2>1 DEF LInv
<1>. QED  BY <1>2, <1>3 DEF Create

-----------------------------------------------------------------------------
(***************************************************************************)
(* The handlers that remove something.                                     *)
(***************************************************************************)
\* Where a directory of the tree is on disk.
LEMMA DirItem ==
  ASSUME LInv, NEW k \in DOMAIN tree, k # <<>>, tree[k].type = "dir", ~tree[k].deleted
  PROVE  LET r == tree[k].real
         IN  /\ k \in Seq(Key) /\ KeyedReal(k, r)
             /\ Parent(k) \in Seq(Key) /\ KeyedReal(Parent(k), Parent(r))
             /\ Base(r) \in Name /\ Lower[Base(r)] = Base(k)
             /\ At(fdMap, Parent(r)) \in DOMAIN disk
             /\ RealKey(Parent(r)) \in DOMAIN fdMap
             /\ fdMap[RealKey(Parent(r))] = At(fdMap, Parent(r))
             /\ At(fdMap, Parent(r)) # Stdin
             /\ RealKey(r) \in DOMAIN fdMap /\ fdMap[RealKey(r)] = At(fdMap, r)
             /\ StepTo(disk, At(fdMap, Parent(r)), Base(r)) = At(fdMap, r)
             /\ At(fdMap, r) \in DOMAIN disk /\ disk[At(fdMap, r)].kind = "dir"
             /\ At(fdMap, r) # Stdin
<1>. DEFINE r == tree[k].real
<1>1. k \in Seq(Key) /\ KeyedReal(k, r) /\ IsDisk(disk) /\ Led(fdMap, disk, r)
  BY DEF LInv, IInv, Keyed, DirsLed, GoodTree, Sound, IsTree
<1>2. NoFd \notin DOMAIN disk /\ Stdin \notin DOMAIN disk
  BY <1>1, NoFdNotThere
<1>. HIDE DEF r
<1>3. /\ Parent(k) \in Seq(Key) /\ KeyedReal(Parent(k), Parent(r))
      /\ Base(r) \in Name /\ Lower[Base(r)] = Base(k)
  BY <1>1, KeyedParent
<1>4. /\ At(fdMap, Parent(r)) \in DOMAIN disk /\ At(fdMap, r) # NoFd
      /\ StepTo(disk, At(fdMap, Parent(r)), Base(r)) = At(fdMap, r)
  BY <1>1 DEF Led
<1>5. At(fdMap, r) \in DOMAIN disk
  BY <1>1, <1>4, StepToEntries
<1>6. /\ RealKey(Parent(r)) \in DOMAIN fdMap /\ fdMap[RealKey(Parent(r))] = At(fdMap, Parent(r))
      /\ RealKey(r) \in DOMAIN fdMap /\ fdMap[RealKey(r)] = At(fdMap, r)
  BY <1>2, <1>4 DEF At
<1>7. disk[At(fdMap, r)].kind = "dir"
  BY <1>2, <1>5, <1>6 DEF LInv, IInv, FdMapGood
<1>. QED  BY <1>1, <1>2, <1>3, <1>4, <1>5, <1>6, <1>7 DEF r

\* Where items only go, become files or are marked, the names that lead to the
\* directories left stay, and so do the descriptors, they stay led to.
LEMMA DirsStayLed ==
  ASSUME NEW t, NEW m, NEW d, IsDisk(d), DirsLed(t, m, d), NEW u, NEW e, NEW c,
         \A k \in DOMAIN u :
           k # <<>> /\ u[k].type = "dir" /\ ~u[k].deleted =>
             /\ k \in DOMAIN t /\ t[k].type = "dir" /\ ~t[k].deleted
             /\ u[k].real = t[k].real
             /\ StepTo(c, At(m, Parent(t[k].real)), Base(t[k].real))
                  = StepTo(d, At(m, Parent(t[k].real)), Base(t[k].real)),
         DOMAIN d \subseteq DOMAIN c,
         \A s : At(m, s) # NoFd => At(e, s) = At(m, s)
  PROVE  DirsLed(u, e, c)
<1>1. NoFd \notin DOMAIN d
  BY NoFdNotThere
<1>2. ASSUME NEW k \in DOMAIN u, k # <<>>, u[k].type = "dir", ~u[k].deleted
      PROVE  Led(e, c, u[k].real)
  <2>. DEFINE r == t[k].real
  <2>1. Led(m, d, r) /\ u[k].real = r
        /\ StepTo(c, At(m, Parent(r)), Base(r)) = StepTo(d, At(m, Parent(r)), Base(r))
    BY <1>2 DEF DirsLed
  <2>. HIDE DEF r
  <2>2. At(m, Parent(r)) # NoFd /\ At(m, r) # NoFd
    BY <1>1, <2>1 DEF Led
  <2>3. At(e, Parent(r)) = At(m, Parent(r)) /\ At(e, r) = At(m, r)
    BY <2>2
  <2>. QED  BY <2>1, <2>3 DEF Led
<1>. QED  BY <1>2 DEF DirsLed

\* Marking an item changes neither its type nor its real path.
LEMMA MarkedItem ==
  ASSUME NEW t, GoodTree(t), NEW k \in DOMAIN t
  PROVE  /\ Marked(t[k], TRUE).deleted /\ Marked(t[k], TRUE).type = t[k].type
         /\ Marked(t[k], TRUE).real = t[k].real
<1>1. t[k] \in Item(Real)
  BY DEF GoodTree, Sound, IsTree
<1>. QED  BY <1>1 DEF Marked, Item

\* unlink removes what is no directory.
LEMMA UnlinkLeads ==
  ASSUME LInv, NEW p \in Paths, Unlink(p)
  PROVE  Apart(disk') /\ Keyed(tree') /\ OneKey(fdMap') /\ DirsLed(tree', fdMap', disk')
<1>. DEFINE at == OnDisk(p)
            err == UnlinkError(disk, at.dir, at.name, FALSE)
            erased == EraseError(tree, p)
            k == Fold(p)
            r == tree[k].real
            h == At(fdMap, Parent(r))
            n == Base(r)
            u == Erased(tree, p, FALSE)
            e == Unbound(disk, h, n)
<1>1. IF ~Visible(tree, p)
      THEN Fails("unlink", p, p, "ENOENT")
      ELSE IF err # "ok"
      THEN Fails("unlink", p, p, err)
      ELSE /\ disk' = RemovedFromDisk(p)
           /\ tree' = IF erased = "ok" THEN u ELSE tree
           /\ Reply("unlink", p, p, erased)
           /\ UNCHANGED fdMap
  BY Zenon DEF Unlink
<1>2. /\ GoodTree(tree) /\ IsDisk(disk) /\ Apart(disk) /\ Keyed(tree) /\ OneKey(fdMap)
      /\ FdMapGood(fdMap, disk) /\ DirsLed(tree, fdMap, disk)
  BY DEF LInv, IInv
<1>3. CASE ~Visible(tree, p) \/ err # "ok"
  <2>1. UNCHANGED <<tree, fdMap, disk>>
    BY <1>1, <1>3 DEF Fails
  <2>. QED  BY <1>2, <2>1
<1>4. CASE Visible(tree, p) /\ err = "ok"
  <2>1. at.dir = h /\ at.name = n
    BY DEF OnDisk
  <2>2. RemovedFromDisk(p) = e
    BY <2>1, Zenon DEF RemovedFromDisk
  <2>3. UnlinkError(disk, h, n, FALSE) = "ok"
    BY <1>4, <2>1, Zenon
  <2>4. disk' = e /\ fdMap' = fdMap /\ (tree' = u \/ tree' = tree)
    BY <1>1, <1>4, <2>2
  <2>. HIDE DEF h, n, at, err, e, erased
  <2>5. FdError(h) = "ok" /\ n \in Entries(disk, h) /\ disk[disk[h].names[n]].kind # "dir"
    <3>1. EntryError(disk, h, n) = "ok"
      BY <2>3 DEF UnlinkError
    <3>2. FdError(h) = "ok" /\ n \in Entries(disk, h)
      BY <3>1 DEF EntryError
    <3>. QED  BY <2>3, <3>1, <3>2 DEF UnlinkError
  <2>6. h \in DOMAIN disk
    BY <1>2, <2>5, HandleType DEF h
  <2>7. disk[StepTo(disk, h, n)].kind # "dir"
    BY <1>2, <2>5, <2>6, StepToEntries
  <2>8. Apart(e)
    BY <1>2, <2>6, UnboundApart DEF e
  <2>9. /\ \A g \in DOMAIN disk : \A y :
            StepTo(e, g, y) = IF g = h /\ y = n THEN NoFd ELSE StepTo(disk, g, y)
    BY <1>2, <2>6, UnboundSteps DEF e
  <2>10. DOMAIN e = DOMAIN disk
    BY DEF e, Unbound
  <2>11. ASSUME NEW q \in DOMAIN tree, q # <<>>, tree[q].type = "dir", ~tree[q].deleted
         PROVE  StepTo(e, At(fdMap, Parent(tree[q].real)), Base(tree[q].real))
                  = StepTo(disk, At(fdMap, Parent(tree[q].real)), Base(tree[q].real))
    <3>. DEFINE s == tree[q].real
    <3>1. /\ At(fdMap, Parent(s)) \in DOMAIN disk
          /\ StepTo(disk, At(fdMap, Parent(s)), Base(s)) = At(fdMap, s)
          /\ disk[At(fdMap, s)].kind = "dir"
      BY <2>11, DirItem
    <3>. HIDE DEF s
    <3>2. ~(At(fdMap, Parent(s)) = h /\ Base(s) = n)
      BY <2>7, <3>1
    <3>3. StepTo(e, At(fdMap, Parent(s)), Base(s)) = StepTo(disk, At(fdMap, Parent(s)), Base(s))
      BY <2>9, <3>1, <3>2
    <3>. QED  BY <3>3 DEF s
  <2>12. u = [q \in DOMAIN tree |-> IF Under(k, q) THEN Marked(tree[q], TRUE) ELSE tree[q]]
    BY DEF Erased
  <2>. HIDE DEF u, k
  <2>13. /\ DOMAIN u = DOMAIN tree
         /\ \A q \in DOMAIN tree : /\ u[q].type = tree[q].type /\ u[q].real = tree[q].real
                                   /\ ~u[q].deleted => ~tree[q].deleted
    BY <1>2, <2>12, MarkedItem
  <2>14. DirsLed(u, fdMap, e)
    BY <1>2, <2>10, <2>11, <2>13, DirsStayLed
  <2>15. DirsLed(tree, fdMap, e)
    BY <1>2, <2>10, <2>11, DirsStayLed
  <2>16. Keyed(u)
    BY <1>2, <2>13 DEF Keyed
  <2>. QED  BY <1>2, <2>4, <2>8, <2>14, <2>15, <2>16
<1>. QED  BY <1>3, <1>4

\* rmdir removes a directory no other item shows.
LEMMA RmdirLeads ==
  ASSUME LInv, NEW p \in Paths, Rmdir(p)
  PROVE  Apart(disk') /\ Keyed(tree') /\ OneKey(fdMap') /\ DirsLed(tree', fdMap', disk')
<1>1. /\ GoodTree(tree) /\ IsDisk(disk) /\ Apart(disk) /\ Keyed(tree) /\ OneKey(fdMap)
      /\ FdMapGood(fdMap, disk) /\ DirsLed(tree, fdMap, disk)
  BY DEF LInv, IInv
<1>2. CASE RmdirError(p) # "ok"
  <2>1. UNCHANGED <<tree, fdMap, disk>>
    BY <1>2 DEF Rmdir, Fails
  <2>. QED  BY <1>1, <2>1
<1>3. CASE RmdirError(p) = "ok"
  <2>. DEFINE k == Fold(p)
              u == WithDeleted(tree, k, TRUE)
              r == tree[k].real
              h == At(fdMap, Parent(r))
              n == Base(r)
              e == Unbound(disk, h, n)
  <2>1. /\ disk' = RemovedFromDisk(p) /\ fdMap' = fdMap /\ tree' = u
    BY <1>3 DEF Rmdir
  <2>2. OnDisk(p).dir = h /\ OnDisk(p).name = n
    BY DEF OnDisk
  <2>3. RemovedFromDisk(p) = e
    BY <2>2, Zenon DEF RemovedFromDisk
  <2>4. k \in DOMAIN tree /\ k # <<>> /\ tree[k].type = "dir" /\ ~tree[k].deleted
    <3>1. p # <<>>
      BY DEF Rmdir, Walkable
    <3>2. k # <<>>
      BY <3>1, PathParts
    <3>. QED  BY <1>3, <3>2 DEF RmdirError, Visible, Present
  <2>5. /\ KeyedReal(k, r) /\ k \in Seq(Key)
        /\ h \in DOMAIN disk /\ StepTo(disk, h, n) = At(fdMap, r)
        /\ At(fdMap, r) # Stdin
        /\ RealKey(r) \in DOMAIN fdMap /\ fdMap[RealKey(r)] = At(fdMap, r)
    BY <2>4, DirItem
  <2>. HIDE DEF h, n, e, r
  <2>6. Apart(e)
    BY <1>1, <2>5, UnboundApart DEF e
  <2>7. \A g \in DOMAIN disk : \A y :
          StepTo(e, g, y) = IF g = h /\ y = n THEN NoFd ELSE StepTo(disk, g, y)
    BY <1>1, <2>5, UnboundSteps DEF e
  <2>8. DOMAIN e = DOMAIN disk
    BY DEF e, Unbound
  <2>9. ASSUME NEW q \in DOMAIN tree, q # <<>>, tree[q].type = "dir", ~tree[q].deleted, q # k
        PROVE  StepTo(e, At(fdMap, Parent(tree[q].real)), Base(tree[q].real))
                 = StepTo(disk, At(fdMap, Parent(tree[q].real)), Base(tree[q].real))
    <3>. DEFINE s == tree[q].real
    <3>1. /\ KeyedReal(q, s) /\ q \in Seq(Key)
          /\ At(fdMap, Parent(s)) \in DOMAIN disk
          /\ StepTo(disk, At(fdMap, Parent(s)), Base(s)) = At(fdMap, s)
          /\ RealKey(s) \in DOMAIN fdMap /\ fdMap[RealKey(s)] = At(fdMap, s)
      BY <2>9, DirItem
    <3>. HIDE DEF s, k
    <3>2. RealKey(s) # RealKey(r)
      BY <2>5, <2>9, <3>1, KeyedSame
    <3>3. At(fdMap, s) # At(fdMap, r)
      BY <1>1, <2>5, <3>1, <3>2 DEF OneKey
    <3>4. ~(At(fdMap, Parent(s)) = h /\ Base(s) = n)
      BY <2>5, <3>1, <3>3
    <3>5. StepTo(e, At(fdMap, Parent(s)), Base(s)) = StepTo(disk, At(fdMap, Parent(s)), Base(s))
      BY <2>7, <3>1, <3>4
    <3>. QED  BY <3>5 DEF s
  <2>10. /\ DOMAIN u = DOMAIN tree /\ u[k] = Marked(tree[k], TRUE)
         /\ \A q \in DOMAIN tree : q # k => u[q] = tree[q]
    BY <2>4 DEF WithDeleted
  <2>. HIDE DEF u, k
  <2>11. u[k].deleted /\ u[k].real = tree[k].real
    BY <1>1, <2>4, <2>10, MarkedItem
  <2>12. \A s : At(fdMap, s) # NoFd => At(fdMap, s) = At(fdMap, s)
    OBVIOUS
  <2>13. \A q \in DOMAIN u :
           q # <<>> /\ u[q].type = "dir" /\ ~u[q].deleted =>
             /\ q \in DOMAIN tree /\ tree[q].type = "dir" /\ ~tree[q].deleted
             /\ u[q].real = tree[q].real
             /\ StepTo(e, At(fdMap, Parent(tree[q].real)), Base(tree[q].real))
                  = StepTo(disk, At(fdMap, Parent(tree[q].real)), Base(tree[q].real))
    BY <2>9, <2>10, <2>11
  <2>14. DirsLed(u, fdMap, e)
    BY <1>1, <2>8, <2>12, <2>13, DirsStayLed
  <2>15. Keyed(u)
    <3>1. \A q \in DOMAIN tree : u[q].real = tree[q].real
      BY <2>10, <2>11
    <3>. QED  BY <1>1, <2>10, <3>1 DEF Keyed
  <2>. QED  BY <1>1, <2>1, <2>3, <2>6, <2>14, <2>15
<1>. QED  BY <1>2, <1>3

-----------------------------------------------------------------------------
(***************************************************************************)
(* rename.                                                                 *)
(***************************************************************************)
\* Two keys of one parent and one last name are one.
LEMMA SameKey ==
  ASSUME NEW k \in Seq(Key), k # <<>>, NEW q \in Seq(Key), q # <<>>,
         Parent(k) = Parent(q), Base(k) = Base(q)
  PROVE  k = q
<1>1. /\ Len(k) \in Nat \ {0} /\ Len(Parent(k)) = Len(k) - 1
      /\ \A i \in 1..Len(k) - 1 : Parent(k)[i] = k[i]
  BY ParentProperties
<1>2. /\ Len(q) \in Nat \ {0} /\ Len(Parent(q)) = Len(q) - 1
      /\ \A i \in 1..Len(q) - 1 : Parent(q)[i] = q[i]
  BY ParentProperties
<1>3. Len(k) = Len(q)
  BY <1>1, <1>2
<1>4. ASSUME NEW i \in 1..Len(k)
      PROVE  k[i] = q[i]
  <2>1. CASE i = Len(k)
    BY <1>3, <2>1 DEF Base
  <2>2. CASE i # Len(k)
    <3>1. i \in 1..Len(k) - 1 /\ i \in 1..Len(q) - 1
      BY <1>1, <1>3, <2>2
    <3>. QED  BY <1>1, <1>2, <3>1
  <2>. QED  BY <2>1, <2>2
<1>. QED  BY <1>3, <1>4, SameSequence

\* A directory the tree shows is one for processes: getattr reaches it, unless
\* it cuts the path.
LEMMA DirItemShows ==
  ASSUME LInv, NEW p \in Paths, p # <<>>, Visible(tree, p), tree[Fold(p)].type = "dir", ~Cut(p)
  PROVE  Shows(p, "dir")
<1>. DEFINE k == Fold(p)
            own == At(fdMap, tree[k].real)
            dir == At(fdMap, Parent(tree[k].real))
            err == EntryError(disk, dir, Base(tree[k].real))
<1>1. k # <<>> /\ k \in DOMAIN tree /\ ~tree[k].deleted /\ tree[k].type = "dir"
  BY PathParts DEF Visible, Present
<1>2. own \in DOMAIN disk /\ disk[own].kind = "dir" /\ own # Stdin
  <2>. HIDE DEF k
  <2>. QED  BY <1>1, DirItem
<1>3. own # NoFd
  <2>1. IsDisk(disk)
    BY DEF LInv, IInv
  <2>. HIDE DEF own
  <2>. QED  BY <1>2, <2>1, NoFdNotThere
<1>4. Attributes(p) =
        IF ~Visible(tree, p) THEN [err |-> "ENOENT", id |-> NoFd]
        ELSE IF tree[k].type = "dir"
             THEN [err |-> IF own = NoFd THEN "EBADF" ELSE "ok", id |-> own]
             ELSE [err |-> err,
                   id |-> IF err = "ok" THEN disk[dir].names[Base(tree[k].real)] ELSE NoFd]
  BY Zenon DEF Attributes
<1>7. Lookup(p) = Attributes(p)
  BY DEF Lookup
<1>. HIDE DEF own, dir, err, k
<1>5. Lookup(p) = [err |-> "ok", id |-> own]
  BY <1>1, <1>3, <1>4, <1>7
<1>6. Lookup(p).err = "ok" /\ Lookup(p).id = own
  BY <1>5
<1>. QED  BY <1>2, <1>6 DEF Shows, KindOf

\* Whatever getattr says of it, what they see where the tree shows one, if they
\* see anything, is a directory: the root, where the path is cut to nothing, or
\* what they have cached.
LEMMA DirItemSeen ==
  ASSUME LInv, NEW p \in Paths, Walkable(p), Sees(p) # {},
         Visible(tree, p), tree[Fold(p)].type = "dir"
  PROVE  "dir" \in Sees(p)
<1>1. p # <<>> /\ p \in Seq(Name)
  BY PathParts DEF Walkable
<1>2. CASE ~Cut(p)
  BY <1>1, <1>2, DirItemShows DEF Sees
<1>3. CASE Cut(p) /\ Len(p) = 1
  <2>1. 0 \in 0..Len(p) - 1 /\ SubSeq(p, 1, 0) = <<>>
    BY <1>1, <1>3
  <2>2. "dir" \in Sees(<<>>)
    BY <2>1 DEF Walkable
  <2>3. Shows(<<>>, "dir")
    BY <2>2 DEF Sees
  <2>4. Lookup(p) = Lookup(<<>>)
    BY <1>3, Zenon DEF Lookup, Cut
  <2>. QED  BY <2>3, <2>4 DEF Sees, Shows
<1>4. CASE Cut(p) /\ Len(p) # 1
  <2>1. Lookup(p) = [err |-> "ENOENT", id |-> NoFd]
    BY <1>4, Zenon DEF Lookup
  <2>2. \A kind : ~Shows(p, kind)
    <3>1. Lookup(p).err = "ENOENT"
      BY <2>1
    <3>. QED  BY <3>1 DEF Shows
  <2>3. PICK kind \in {"dir", "file", "link", "other"} : Cached(p, kind)
    BY <2>2 DEF Sees
  <2>. QED  BY <1>1, <2>3 DEF Sees, Cached
<1>. QED  BY <1>2, <1>3, <1>4

\* What rename's operator[] does to the map.
LEMMA TouchedLeads ==
  ASSUME NEW m, OneKey(m), NEW r
  PROVE  /\ OneKey(Touched(m, r))
         /\ \A s : At(m, s) # NoFd => At(Touched(m, r), s) = At(m, s)
<1>1. CASE RealKey(r) \in DOMAIN m
  BY <1>1 DEF Touched
<1>2. CASE RealKey(r) \notin DOMAIN m
  <2>. DEFINE e == Put(m, r, Stdin)
  <2>1. Touched(m, r) = e
    BY <1>2 DEF Touched
  <2>2. \A q \in DOMAIN e : e[q] = IF q = RealKey(r) THEN Stdin ELSE m[q]
    BY DEF Put
  <2>3. DOMAIN e = DOMAIN m \cup {RealKey(r)}
    BY DEF Put
  <2>. HIDE DEF e
  <2>4. OneKey(e)
    BY <2>2, <2>3 DEF OneKey
  <2>5. \A s : At(m, s) # NoFd => At(e, s) = At(m, s)
    BY <1>2, <2>2, <2>3 DEF At
  <2>. QED  BY <2>1, <2>4, <2>5
<1>. QED  BY <1>1, <1>2

\* The tree after a rename of what is no directory.
LEMMA RenameInTreeLeads ==
  ASSUME NEW m, NEW d, GoodTree(tree), Keyed(tree), DirsLed(tree, m, d),
         NEW f \in Paths, Visible(tree, f), tree[Fold(f)].type # "dir",
         NEW t \in Paths, Present(tree, t) => tree[Fold(t)].type # "dir",
         NEW real, KeyedReal(Fold(t), real), RenameInTree(f, t, real)
  PROVE  Keyed(tree') /\ DirsLed(tree', m, d)
<1>. DEFINE added == AddError(tree, t, FALSE)
            type == tree[Fold(f)].type
            with == Added(tree, t, real, type)
            erased == EraseError(with, f)
            without == Erased(with, f, TRUE)
<1>1. IF added # "ok"
      THEN Reply("rename", f, t, added) /\ UNCHANGED tree
      ELSE /\ tree' = IF erased = "ok" THEN without ELSE with
           /\ Reply("rename", f, t, erased)
  BY Zenon DEF RenameInTree
<1>2. tree' = tree \/ tree' = with \/ tree' = without
  <2>. HIDE DEF added, with, erased, without
  <2>. QED  BY <1>1
<1>3. type \in Type /\ type # "dir" /\ real \in Real
  <2>1. Fold(f) \in DOMAIN tree
    BY DEF Visible, Present
  <2>2. tree[Fold(f)] \in Item(Real)
    BY <2>1 DEF GoodTree, Sound, IsTree
  <2>. QED  BY <2>2 DEF Item, KeyedReal, IsRealPath
<1>4. with = Added(tree, t, real, type) /\ (Fold(t) \in DOMAIN tree => tree[Fold(t)].type # "dir")
  BY DEF Present
<1>5. /\ DOMAIN without \subseteq DOMAIN with
      /\ \A q \in DOMAIN without : without[q] = with[q]
  BY DEF Erased
<1>. HIDE DEF with, type, without
<1>6. Keyed(with)
  BY <1>3, <1>4, AddedKeyed
<1>7. DirsLed(with, m, d)
  BY <1>3, <1>4, AddedDirsLed
<1>8. Keyed(without) /\ DirsLed(without, m, d)
  BY <1>5, <1>6, <1>7 DEF Keyed, DirsLed
<1>. QED  BY <1>2, <1>6, <1>7, <1>8

\* rename, of what is no directory, to the mount point and no directory's name.
LEMMA RenameMovedLeads ==
  ASSUME LInv, NEW f \in Paths, f # <<>>, Visible(tree, f), tree[Fold(f)].type # "dir",
         NEW t \in Paths, Len(t) = 1, Visible(tree, Parent(t)),
         Present(tree, t) => tree[Fold(t)].type # "dir",
         NEW flag \in Flags, RenameMoved(f, t, flag)
  PROVE  Apart(disk') /\ Keyed(tree') /\ OneKey(fdMap') /\ DirsLed(tree', fdMap', disk')
<1>. DEFINE a == Fold(f)
            b == Fold(t)
            item == tree[a]
            oldDir == Parent(item.real)
            newDir == NewRealParent(t)
            once == Touched(fdMap, oldDir)
            touched == Touched(once, newDir)
            from == At(touched, oldDir)
            to == At(touched, newDir)
            exchange == flag = "exchange"
            n == item.name
            m == Base(t)
            err == RenameError(disk, from, n, to, m, exchange)
            moved == Renamed(disk, from, n, to, m, exchange)
<1>1. /\ fdMap' = touched
      /\ IF err # "ok"
         THEN Reply("rename", f, t, err) /\ UNCHANGED <<tree, disk>>
         ELSE /\ disk' = moved
              /\ RenameInTree(f, t, newDir \o t)
  BY Zenon DEF RenameMoved
<1>2. /\ GoodTree(tree) /\ IsDisk(disk) /\ Apart(disk) /\ Keyed(tree) /\ OneKey(fdMap)
      /\ FdMapGood(fdMap, disk) /\ DirsLed(tree, fdMap, disk)
  BY DEF LInv, IInv
<1>3. t \in Seq(Name) /\ t # <<>> /\ m \in Name
  <2>1. t \in Seq(Name)
    BY UsvfsAssumption
  <2>2. t # <<>>
    <3>1. Len(<<>>) # 1
      BY EmptySeq
    <3>. QED  BY <3>1
  <2>. QED  BY <2>1, <2>2, PathParts
<1>4. b \in Seq(Key) /\ b # <<>> /\ Base(b) = Lower[m]
  BY <1>3, FoldProperties, FoldBase
<1>5. /\ a \in Seq(Key) /\ a # <<>> /\ a \in DOMAIN tree
      /\ n \in Name /\ Lower[n] = Base(a)
  <2>1. a \in Seq(Key) /\ a # <<>> /\ a \in DOMAIN tree
    BY PathParts DEF Visible, Present
  <2>. HIDE DEF a
  <2>. QED  BY <1>2, <2>1 DEF GoodTree, Sound, NamedByKey
<1>6. KeyedReal(Parent(a), oldDir) /\ Parent(a) \in Seq(Key)
  <2>1. KeyedReal(a, item.real)
    BY <1>2, <1>5 DEF Keyed
  <2>. HIDE DEF a, item
  <2>. QED  BY <1>5, <2>1, KeyedParent
<1>7. KeyedReal(Parent(b), newDir) /\ Parent(b) \in Seq(Key)
  BY <1>3, NewRealParentKeyed
<1>8. KeyedReal(b, newDir \o t)
  <2>. DEFINE S == Name \cup DOMAIN HostDirs
              s == Append(newDir, m)
              c == newDir \o t
  <2>1. KeyedReal(b, s)
    BY <1>3, <1>7, KeyedChild
  <2>2. newDir \in Seq(S) /\ t \in Seq(S) /\ m \in S
    BY <1>3, <1>7 DEF KeyedReal, IsRealPath, Real
  <2>. HIDE DEF newDir, m, S
  <2>3. /\ s \in Seq(S) /\ Len(s) = Len(newDir) + 1 /\ s[Len(newDir) + 1] = m
        /\ \A i \in 1..Len(newDir) : s[i] = newDir[i]
        /\ Len(newDir) \in Nat
    BY <2>2, AppendProperties, LenProperties
  <2>4. /\ c \in Seq(S) /\ Len(c) = Len(newDir) + 1
        /\ \A i \in 1..Len(newDir) : c[i] = newDir[i]
        /\ c[Len(newDir) + 1] = t[1]
    BY <2>2, <2>3, ConcatProperties
  <2>5. m = t[1]
    BY DEF m, Base
  <2>. HIDE DEF c, s
  <2>6. c = s
    BY <2>3, <2>4, <2>5, SameSequence
  <2>. QED  BY <2>1, <2>6 DEF c
<1>9. a \in DOMAIN tree => tree[a].type # "dir"
  OBVIOUS
<1>10. b \in DOMAIN tree => tree[b].type # "dir"
  BY DEF Present
<1>. HIDE DEF a, b, oldDir, newDir, item
<1>11. /\ OneKey(touched)
       /\ \A s : At(fdMap, s) # NoFd => At(touched, s) = At(fdMap, s)
  <2>1. OneKey(once) /\ \A s : At(fdMap, s) # NoFd => At(once, s) = At(fdMap, s)
    BY <1>2, TouchedLeads
  <2>. HIDE DEF once
  <2>2. OneKey(touched) /\ \A s : At(once, s) # NoFd => At(touched, s) = At(once, s)
    BY <2>1, TouchedLeads
  <2>. HIDE DEF touched
  <2>. QED  BY <2>1, <2>2
<1>12. FdMapGood(touched, disk)
  BY <1>2, TouchedGood
<1>13. exchange \in BOOLEAN
  OBVIOUS
<1>. HIDE DEF touched, exchange, n, m
<1>14. CASE err # "ok"
  <2>1. fdMap' = touched /\ disk' = disk /\ tree' = tree
    BY <1>1, <1>14
  <2>2. DirsLed(tree, touched, disk)
    BY <1>2, <1>11, DirsStayLed
  <2>. QED  BY <1>2, <1>11, <2>1, <2>2
<1>15. CASE err = "ok"
  <2>1. FdError(to) = "ok" /\ EntryError(disk, from, n) = "ok"
    BY <1>15 DEF RenameError
  <2>2. FdError(from) = "ok" /\ n \in Entries(disk, from)
    BY <2>1 DEF EntryError
  <2>3. from \in DOMAIN disk /\ to \in DOMAIN disk /\ disk[to].kind = "dir"
    BY <1>12, <2>1, <2>2, HandleType
  <2>4. from # Stdin /\ to # Stdin /\ from # NoFd /\ to # NoFd
    <3>. HIDE DEF from, to
    <3>. QED  BY <1>2, <2>3, NoFdNotThere
  <2>5. /\ RealKey(oldDir) \in DOMAIN touched /\ touched[RealKey(oldDir)] = from
        /\ RealKey(newDir) \in DOMAIN touched /\ touched[RealKey(newDir)] = to
    BY <2>4 DEF At
  <2>. HIDE DEF from, to
  <2>6. exchange => m \in Entries(disk, to)
    BY <1>15, <2>1 DEF RenameError
  <2>7. moved = Renamed(disk, from, n, to, m, exchange)
    OBVIOUS
  <2>. HIDE DEF moved, err
  <2>8. Apart(moved)
    BY <1>2, <1>3, <1>13, <2>2, <2>3, <2>6, <2>7, RenamedApart
  <2>. DEFINE v == IF exchange THEN StepTo(disk, to, m) ELSE NoFd
  <2>9. v = IF exchange THEN StepTo(disk, to, m) ELSE NoFd
    OBVIOUS
  <2>. HIDE DEF v
  <2>10. /\ DOMAIN moved = DOMAIN disk
         /\ \/ moved = disk /\ ~exchange /\ StepTo(disk, to, m) = StepTo(disk, from, n)
            \/ /\ exchange \/ StepTo(disk, to, m) # StepTo(disk, from, n)
               /\ \A x \in DOMAIN disk : \A y :
                    StepTo(moved, x, y) =
                      IF x = to /\ y = m THEN StepTo(disk, from, n)
                      ELSE IF x = from /\ y = n THEN v
                      ELSE StepTo(disk, x, y)
    BY <1>2, <1>3, <1>13, <2>2, <2>3, <2>6, <2>7, <2>9, RenamedSteps
  <2>11. ASSUME NEW q \in DOMAIN tree, q # <<>>, tree[q].type = "dir", ~tree[q].deleted
         PROVE  StepTo(moved, At(fdMap, Parent(tree[q].real)), Base(tree[q].real))
                  = StepTo(disk, At(fdMap, Parent(tree[q].real)), Base(tree[q].real))
    <3>. DEFINE s == tree[q].real
                h == At(fdMap, Parent(s))
    <3>1. /\ q \in Seq(Key) /\ KeyedReal(Parent(q), Parent(s)) /\ Parent(q) \in Seq(Key)
          /\ Lower[Base(s)] = Base(q) /\ h \in DOMAIN disk /\ h # Stdin
      BY <2>11, DirItem
    <3>. HIDE DEF s
    <3>2. At(touched, Parent(s)) = h
      <4>1. h # NoFd
        <5>. HIDE DEF h
        <5>. QED  BY <1>2, <3>1, NoFdNotThere
      <4>. QED  BY <1>11, <4>1
    <3>. HIDE DEF h
    <3>3. RealKey(Parent(s)) \in DOMAIN touched /\ touched[RealKey(Parent(s))] = h
      <4>1. h # NoFd
        BY <1>2, <3>1, NoFdNotThere
      <4>. QED  BY <3>2, <4>1 DEF At
    <3>4. ASSUME h = from, Base(s) = n
          PROVE  FALSE
      <4>1. RealKey(Parent(s)) = RealKey(oldDir)
        BY <1>11, <2>4, <2>5, <3>3, <3>4 DEF OneKey
      <4>2. Parent(q) = Parent(a)
        BY <1>6, <3>1, <4>1, KeyedSame
      <4>3. q = a
        BY <1>5, <2>11, <3>1, <3>4, <4>2, SameKey
      <4>. QED  BY <1>9, <2>11, <4>3
    <3>5. ASSUME h = to, Base(s) = m
          PROVE  FALSE
      <4>1. RealKey(Parent(s)) = RealKey(newDir)
        BY <1>11, <2>4, <2>5, <3>3, <3>5 DEF OneKey
      <4>2. Parent(q) = Parent(b)
        BY <1>7, <3>1, <4>1, KeyedSame
      <4>3. q = b
        BY <1>4, <2>11, <3>1, <3>5, <4>2, SameKey
      <4>. QED  BY <1>10, <2>11, <4>3
    <3>6. StepTo(moved, h, Base(s)) = StepTo(disk, h, Base(s))
      BY <2>10, <3>1, <3>4, <3>5
    <3>. QED  BY <3>6 DEF s, h
  <2>12. DirsLed(tree, touched, moved)
    BY <1>2, <1>11, <2>10, <2>11, DirsStayLed
  <2>13. fdMap' = touched /\ disk' = moved /\ RenameInTree(f, t, newDir \o t)
    BY <1>1, <1>15 DEF moved, err
  <2>14. Keyed(tree') /\ DirsLed(tree', touched, moved)
    <3>. DEFINE r == newDir \o t
    <3>1. RenameInTree(f, t, r) /\ KeyedReal(b, r)
      BY <1>8, <2>13
    <3>. HIDE DEF r
    <3>. QED  BY <1>2, <2>12, <3>1, RenameInTreeLeads DEF b
  <2>. QED  BY <1>11, <2>8, <2>13, <2>14
<1>. QED  BY <1>14, <1>15

-----------------------------------------------------------------------------
(***************************************************************************)
(* Linking: what is walked is led to.                                      *)
(***************************************************************************)
\* += keeps the type of the item below and takes the real path of the one above:
\* no directory of a layer may have a file of a later one over it, or a link.
DirAt(d, r) == HostId(d, r) # NoFd /\ d[HostId(d, r)].kind = "dir"

LayersMatch(d, layers) ==
  /\ \A i, j \in DOMAIN layers :
       \A p \in Walked(d, layers[i]), q \in Walked(d, layers[j]) :
         i < j /\ Fold(p) = Fold(q) /\ DirAt(d, <<layers[i]>> \o p)
           => DirAt(d, <<layers[j]>> \o q)
  /\ \A l \in Links, p \in Walked(d, layers[1]) :
       Fold(p) = Fold(<<l.name>>) => ~DirAt(d, <<layers[1]>> \o p)

\* A file is linked under its own name, from a directory given to the program.
LinksKeyed == \A l \in Links : KeyedReal(Fold(<<l.name>>), l.real)

\* An item of a linked directory's own tree is of the type the disk says.
LEMMA ScanItems ==
  ASSUME NEW d, IsDisk(d), GivenDirs(d), NEW top \in DOMAIN HostDirs, NEW t, t = Scan(d, top)
  PROVE  \A k \in DOMAIN t : \E p \in Walked(d, top) :
           /\ Fold(p) = k /\ t[k].real = <<top>> \o p
           /\ KeyedReal(k, <<top>> \o p)
           /\ t[k].type = "dir" <=> DirAt(d, <<top>> \o p)
<1>. DEFINE W == Walked(d, top)
            P(k) == CHOOSE p \in W : Fold(p) = k
<1>1. DOMAIN t = {Fold(p) : p \in W}
  BY DEF Scan
<1>2. SUFFICES ASSUME NEW k \in DOMAIN t
               PROVE  \E p \in Walked(d, top) :
                        /\ Fold(p) = k /\ t[k].real = <<top>> \o p
                        /\ KeyedReal(k, <<top>> \o p)
                        /\ t[k].type = "dir" <=> DirAt(d, <<top>> \o p)
  OBVIOUS
<1>. DEFINE p == P(k)
            r == <<top>> \o p
            n == IF p = <<>> THEN RootName ELSE Base(p)
            type == IF d[HostId(d, r)].kind = "dir" THEN "dir" ELSE "file"
<1>3. p \in W /\ Fold(p) = k
  BY <1>1, <1>2
<1>4. t[k] = NewItem(n, r, type)
  BY <1>1, <1>2 DEF Scan
<1>. HIDE DEF p, n
<1>5. p \in HostPaths /\ HostId(d, r) # NoFd
  BY <1>3 DEF Walked
<1>6. p \in Seq(Name)
  BY <1>5, HostPathsType
<1>7. /\ k \in Seq(Key) /\ Len(k) = Len(p)
      /\ \A i \in 1..Len(p) : Lower[p[i]] = k[i]
  <2>1. Fold(p) \in Seq(Key) /\ Len(Fold(p)) = Len(p)
    BY <1>6, FoldProperties
  <2>2. \A i \in 1..Len(p) : Fold(p)[i] = Lower[p[i]]
    BY DEF Fold
  <2>. QED  BY <1>3, <2>1, <2>2
<1>8. KeyedReal(k, r)
  BY <1>6, <1>7, KeyedJoin
<1>. HIDE DEF r
<1>9. t[k].real = r /\ t[k].type = type
  BY <1>4 DEF NewItem
<1>10. t[k].type = "dir" <=> DirAt(d, r)
  BY <1>5, <1>9 DEF DirAt
<1>. QED  BY <1>3, <1>8, <1>9, <1>10 DEF r

\* What += does to items: one that is in both trees keeps its type and takes
\* the real path of the upper one.
LEMMA MergedItems ==
  ASSUME NEW t, GoodTree(t), NEW s, GoodTree(s), NEW u, u = Merged(t, s)
  PROVE  /\ \A k : k \in DOMAIN u <=> k \in DOMAIN t \/ k \in DOMAIN s
         /\ \A k \in DOMAIN t : k \notin DOMAIN s => u[k] = t[k]
         /\ \A k \in DOMAIN s : u[k].real = s[k].real
         /\ \A k \in DOMAIN s : k \in DOMAIN t => u[k].type = t[k].type
         /\ \A k \in DOMAIN s : k \notin DOMAIN t => u[k].type = s[k].type
<1>1. /\ \A k : k \in DOMAIN u <=> k \in DOMAIN t \/ k \in DOMAIN s
      /\ \A k \in DOMAIN t : k \notin DOMAIN s => u[k] = t[k]
      /\ \A k \in DOMAIN s : k \in DOMAIN t => u[k] = Relinked(t[k], s[k])
      /\ \A k \in DOMAIN s : k \notin DOMAIN t => u[k] = Cloned(s[k], Parent(k) \in DOMAIN t)
  BY DEF Merged
<1>2. /\ \A k \in DOMAIN t : t[k] \in Item(Real)
      /\ \A k \in DOMAIN s : s[k] \in Item(Real)
  BY DEF GoodTree, Sound, IsTree
<1>3. ASSUME NEW i \in Item(Real), NEW j \in Item(Real)
      PROVE  Relinked(i, j).real = j.real /\ Relinked(i, j).type = i.type
  BY DEF Relinked, Item
<1>4. ASSUME NEW i \in Item(Real), NEW b
      PROVE  Cloned(i, b).real = i.real /\ Cloned(i, b).type = i.type
  BY DEF Cloned, Marked, Item
<1>. QED  BY <1>1, <1>2, <1>3, <1>4

\* A tree laid over some of the layers: real paths are keyed, and a directory
\* has been walked in one of them and is one on disk.
LaidOver(t, d, layers, i) ==
  /\ Keyed(t)
  /\ \A k \in DOMAIN t : t[k].type = "dir" =>
       \E j \in 1..i : \E p \in Walked(d, layers[j]) :
         /\ Fold(p) = k /\ t[k].real = <<layers[j]>> \o p
         /\ DirAt(d, <<layers[j]>> \o p)

\* The lowest layer, with the file that has been linked.
LEMMA FirstLaid ==
  ASSUME NEW d, IsDisk(d), GivenDirs(d), NEW layers \in Seq(DOMAIN HostDirs), layers # <<>>,
         LinksKeyed, LayersMatch(d, layers)
  PROVE  LaidOver(WithLinks(Scan(d, layers[1])), d, layers, 1)
<1>. DEFINE top == layers[1]
            s == Scan(d, top)
            t == WithLinks(s)
            link == CHOOSE l \in Links : TRUE
            p == <<link.name>>
            real == link.real
<1>1. top \in DOMAIN HostDirs
  BY LenProperties, EmptySeq
<1>2. GoodTree(s)
  BY <1>1, ScanSound DEF GoodTree
<1>3. \A k \in DOMAIN s : \E q \in Walked(d, top) :
        /\ Fold(q) = k /\ s[k].real = <<top>> \o q
        /\ KeyedReal(k, <<top>> \o q)
        /\ s[k].type = "dir" <=> DirAt(d, <<top>> \o q)
  BY <1>1, ScanItems
<1>4. Keyed(s)
  BY <1>3 DEF Keyed
<1>5. \A k \in DOMAIN s : s[k].type = "dir" =>
        \E q \in Walked(d, top) :
          Fold(q) = k /\ s[k].real = <<top>> \o q /\ DirAt(d, <<top>> \o q)
  BY <1>3
<1>6. \A x : x \in 1..1 <=> x = 1
  OBVIOUS
<1>7. CASE Links = {}
  <2>1. t = s
    BY <1>7 DEF WithLinks
  <2>. HIDE DEF s, t
  <2>2. LaidOver(t, d, layers, 1)
    BY <1>4, <1>5, <1>6, <2>1 DEF LaidOver
  <2>. QED  BY <2>2 DEF t, s
<1>8. CASE Links # {}
  <2>1. link \in Links
    BY <1>8
  <2>2. KeyedReal(Fold(p), real) /\ \A q \in Walked(d, top) : Fold(q) = Fold(p) => ~DirAt(d, <<top>> \o q)
    BY <2>1 DEF LinksKeyed, LayersMatch
  <2>3. t = Added(s, p, real, "file")
    BY <1>8 DEF WithLinks
  <2>4. real \in Real /\ "file" \in Type
    BY <2>2 DEF KeyedReal, IsRealPath, Type
  <2>. HIDE DEF s, t, p, real, link
  <2>5. /\ \A k : k \in DOMAIN t <=> k \in DOMAIN s \/ k = Fold(p)
        /\ \A k \in DOMAIN s : k # Fold(p) => t[k] = s[k]
        /\ Fold(p) \in DOMAIN s => t[Fold(p)].type = s[Fold(p)].type
        /\ Fold(p) \notin DOMAIN s => t[Fold(p)].type = "file"
    BY <1>2, <2>3, <2>4, AddedItems
  <2>6. Keyed(t)
    BY <1>2, <1>4, <2>2, <2>3, <2>4, AddedKeyed
  <2>7. t[Fold(p)].type # "dir"
    BY <1>5, <2>2, <2>5
  <2>8. ASSUME NEW k \in DOMAIN t, t[k].type = "dir"
        PROVE  \E q \in Walked(d, top) :
                 Fold(q) = k /\ t[k].real = <<top>> \o q /\ DirAt(d, <<top>> \o q)
    BY <1>5, <2>5, <2>7, <2>8
  <2>9. LaidOver(t, d, layers, 1)
    BY <1>6, <2>6, <2>8 DEF LaidOver
  <2>. QED  BY <2>9 DEF t, s
<1>. QED  BY <1>7, <1>8

\* One more layer.
LEMMA NextLaid ==
  ASSUME NEW d, IsDisk(d), GivenDirs(d), NEW layers \in Seq(DOMAIN HostDirs),
         LayersMatch(d, layers), NEW i \in 1..Len(layers), i # 1,
         NEW t, GoodTree(t), LaidOver(t, d, layers, i - 1)
  PROVE  LaidOver(Merged(t, Scan(d, layers[i])), d, layers, i)
<1>. DEFINE top == layers[i]
            s == Scan(d, top)
            u == Merged(t, s)
<1>0. DOMAIN layers = 1..Len(layers) /\ Len(layers) \in Nat
  BY LenProperties
<1>1. top \in DOMAIN HostDirs
  BY <1>0
<1>2. GoodTree(s)
  BY <1>1, ScanSound DEF GoodTree
<1>3. \A k \in DOMAIN s : \E q \in Walked(d, top) :
        /\ Fold(q) = k /\ s[k].real = <<top>> \o q
        /\ KeyedReal(k, <<top>> \o q)
        /\ s[k].type = "dir" <=> DirAt(d, <<top>> \o q)
  BY <1>1, ScanItems
<1>. HIDE DEF s
<1>4. /\ \A k : k \in DOMAIN u <=> k \in DOMAIN t \/ k \in DOMAIN s
      /\ \A k \in DOMAIN t : k \notin DOMAIN s => u[k] = t[k]
      /\ \A k \in DOMAIN s : u[k].real = s[k].real
      /\ \A k \in DOMAIN s : k \in DOMAIN t => u[k].type = t[k].type
      /\ \A k \in DOMAIN s : k \notin DOMAIN t => u[k].type = s[k].type
  BY <1>2, MergedItems
<1>. HIDE DEF u
<1>5. Keyed(u)
  <2>1. \A k \in DOMAIN s : KeyedReal(k, s[k].real)
    BY <1>3
  <2>2. \A k \in DOMAIN t : KeyedReal(k, t[k].real)
    BY DEF LaidOver, Keyed
  <2>3. \A k \in DOMAIN u : KeyedReal(k, u[k].real)
    BY <1>4, <2>1, <2>2
  <2>. QED  BY <2>3 DEF Keyed
<1>6. i \in 1..i /\ \A j \in 1..i - 1 : j \in 1..i /\ j \in DOMAIN layers /\ j < i
  BY <1>0
<1>7. ASSUME NEW k \in DOMAIN u, u[k].type = "dir"
      PROVE  \E j \in 1..i : \E p \in Walked(d, layers[j]) :
               /\ Fold(p) = k /\ u[k].real = <<layers[j]>> \o p
               /\ DirAt(d, <<layers[j]>> \o p)
  <2>1. CASE k \notin DOMAIN s
    <3>1. k \in DOMAIN t /\ u[k] = t[k]
      BY <1>4, <1>7, <2>1
    <3>2. PICK j \in 1..i - 1 : \E p \in Walked(d, layers[j]) :
                 /\ Fold(p) = k /\ t[k].real = <<layers[j]>> \o p
                 /\ DirAt(d, <<layers[j]>> \o p)
      BY <1>7, <3>1 DEF LaidOver
    <3>. QED  BY <1>6, <3>1, <3>2
  <2>2. CASE k \in DOMAIN s /\ k \notin DOMAIN t
    <3>1. s[k].type = "dir" /\ u[k].real = s[k].real
      BY <1>4, <1>7, <2>2
    <3>2. PICK q \in Walked(d, top) :
            Fold(q) = k /\ s[k].real = <<top>> \o q /\ DirAt(d, <<top>> \o q)
      BY <1>3, <2>2, <3>1
    <3>. QED  BY <1>6, <3>1, <3>2
  <2>3. CASE k \in DOMAIN s /\ k \in DOMAIN t
    <3>1. t[k].type = "dir" /\ u[k].real = s[k].real
      BY <1>4, <1>7, <2>3
    <3>2. PICK j \in 1..i - 1 : \E p \in Walked(d, layers[j]) :
                 Fold(p) = k /\ DirAt(d, <<layers[j]>> \o p)
      BY <3>1, <2>3 DEF LaidOver
    <3>3. PICK q \in Walked(d, top) : Fold(q) = k /\ s[k].real = <<top>> \o q
      BY <1>3, <2>3
    <3>4. DirAt(d, <<top>> \o q)
      BY <1>0, <1>6, <3>2, <3>3 DEF LayersMatch
    <3>. QED  BY <1>6, <3>1, <3>3, <3>4
  <2>. QED  BY <2>1, <2>2, <2>3
<1>8. LaidOver(u, d, layers, i)
  BY <1>5, <1>7 DEF LaidOver
<1>. QED  BY <1>8 DEF u, s

\* The tree of a mount.
LEMMA LinkedTreeLaidOver ==
  ASSUME NEW d, IsDisk(d), GivenDirs(d), NEW layers \in Seq(DOMAIN HostDirs), layers # <<>>,
         LinksKeyed, LayersMatch(d, layers)
  PROVE  LaidOver(LinkedTree(d, layers), d, layers, Len(layers))
<1>. DEFINE n == Len(layers)
<1>1. n \in Nat /\ n >= 1
  BY LenProperties, EmptySeq
<1>2. PICK laid :
        /\ LinkedTree(d, layers) = laid[n]
        /\ laid[1] = WithLinks(Scan(d, layers[1]))
        /\ \A i \in 1..n :
             /\ GoodTree(laid[i])
             /\ i # 1 => laid[i] = Merged(laid[i - 1], Scan(d, layers[i]))
  BY LinkedTreeLaid
<1>. DEFINE H == {i \in Nat : LaidOver(laid[i], d, layers, i)}
<1>3. 1 \in H
  BY <1>2, FirstLaid
<1>4. ASSUME NEW i \in 1..n, i # 1, i - 1 \in H  PROVE i \in H
  <2>1. i - 1 \in 1..n /\ i \in Nat
    BY <1>1, <1>4
  <2>2. GoodTree(laid[i - 1]) /\ LaidOver(laid[i - 1], d, layers, i - 1)
    BY <1>2, <1>4, <2>1
  <2>3. LaidOver(Merged(laid[i - 1], Scan(d, layers[i])), d, layers, i)
    BY <1>4, <2>2, NextLaid
  <2>. QED  BY <1>2, <1>4, <2>1, <2>3
<1>. HIDE DEF H
<1>5. 1..n \subseteq H
  <2>1. 1 \in Nat
    OBVIOUS
  <2>. HIDE DEF n
  <2>. QED  BY <1>1, <1>3, <1>4, <2>1, Induction
<1>6. n \in 1..n
  BY <1>1
<1>. QED  BY <1>2, <1>5, <1>6 DEF H

\* The path above a path below a directory.
LEMMA JoinedParent ==
  ASSUME NEW top \in DOMAIN HostDirs, NEW p \in Seq(Name), p # <<>>
  PROVE  /\ Parent(p) \in Seq(Name)
         /\ Parent(<<top>> \o p) = <<top>> \o Parent(p)
         /\ Len(<<top>> \o p) # 1 /\ Base(<<top>> \o p) \in Name
<1>. DEFINE q == Parent(p)
            r == <<top>> \o p
            s == <<top>> \o q
<1>1. /\ Len(p) \in Nat \ {0} /\ q \in Seq(Name) /\ Len(q) = Len(p) - 1
      /\ \A i \in 1..Len(p) - 1 : q[i] = p[i]
  BY ParentOf
<1>2. p[Len(p)] \in Name
  BY <1>1, LenProperties
<1>. HIDE DEF q
<1>3. /\ IsRealPath(r) /\ Len(r) = Len(p) + 1 /\ r[1] = top
      /\ \A i \in 2..Len(p) + 1 : r[i] = p[i - 1]
  BY JoinedPath
<1>4. /\ IsRealPath(s) /\ Len(s) = Len(p) /\ s[1] = top
      /\ \A i \in 2..Len(p) : s[i] = q[i - 1]
  BY <1>1, JoinedPath
<1>. HIDE DEF r, s
<1>5. Len(r) # 1
  BY <1>1, <1>3
<1>6. /\ IsRealPath(Parent(r)) /\ Len(Parent(r)) = Len(r) - 1
      /\ \A i \in 1..Len(Parent(r)) : Parent(r)[i] = r[i]
  BY <1>3, <1>5, RealPathParent
<1>7. ASSUME NEW i \in 1..Len(s)  PROVE Parent(r)[i] = s[i]
  <2>1. Parent(r)[i] = r[i]
    BY <1>1, <1>3, <1>4, <1>6
  <2>2. CASE i = 1
    BY <1>3, <1>4, <2>1, <2>2
  <2>3. CASE i # 1
    <3>1. i \in 2..Len(p) /\ i \in 2..Len(p) + 1 /\ i - 1 \in 1..Len(p) - 1
      BY <1>1, <1>4, <2>3
    <3>. QED  BY <1>1, <1>3, <1>4, <2>1, <3>1
  <2>. QED  BY <2>2, <2>3
<1>8. Len(Parent(r)) = Len(s)
  BY <1>1, <1>3, <1>4, <1>6
<1>9. Parent(r) \in Real /\ s \in Real
  BY <1>4, <1>6 DEF IsRealPath
<1>10. Parent(r) = s
  BY <1>7, <1>8, <1>9, SameSequence DEF Real
<1>11. Base(r) \in Name
  <2>1. Len(p) + 1 \in 2..Len(p) + 1 /\ Len(p) + 1 - 1 = Len(p)
    BY <1>1
  <2>2. r[Len(p) + 1] = p[Len(p)]
    BY <1>3, <2>1
  <2>. QED  BY <1>2, <1>3, <2>2 DEF Base
<1>. QED  BY <1>1, <1>5, <1>10, <1>11 DEF q, r, s

\* What linking opens.
OpenedOf(d, layers) ==
  {r \in OpenedDirs(layers) : HostId(d, r) # NoFd /\ d[HostId(d, r)].kind = "dir"}

\* What is opened has a key; where linking does not end the program, that of no
\* other directory.
LEMMA OpenedKeyed ==
  ASSUME NEW d, NEW layers \in Seq(DOMAIN HostDirs), LinksKeyed,
         NEW r \in OpenedOf(d, layers)
  PROVE  \E k \in Seq(Key) :
           /\ KeyedReal(k, r)
           /\ k # <<>> =>
                \E top \in ToSet(layers) : \E p \in Walked(d, top) :
                  r = <<top>> \o p /\ Fold(p) = k /\ r[1] = top
<1>. DEFINE Upper == IF UpperDir = "" THEN {} ELSE {<<UpperDir>>}
            e == <<>>
<1>0. OpenedDirs(layers) = DirsBelow(layers) \cup DirsOfLinks \cup Upper
  BY DEF OpenedDirs
<1>1. \A x \in Upper : x = <<UpperDir>>
  OBVIOUS
<1>. HIDE DEF Upper
<1>2. e \in Seq(Key) /\ e \in Seq(Name) /\ Len(e) = 0
  BY EmptyList
<1>. HIDE DEF e
<1>3. r \in OpenedDirs(layers) /\ HostId(d, r) # NoFd
  BY DEF OpenedOf
<1>4. IsRealPath(r)
  BY <1>3, OpenedDirsType
<1>5. CASE r \in DirsBelow(layers)
  <2>1. PICK top \in ToSet(layers), p \in HostPaths : r = <<top>> \o p
    BY <1>5 DEF DirsBelow
  <2>2. top \in DOMAIN HostDirs /\ p \in Seq(Name)
    BY ListOf, HostPathsType
  <2>3. p \in Walked(d, top)
    BY <1>3, <2>1 DEF Walked
  <2>4. Fold(p) \in Seq(Key) /\ Len(Fold(p)) = Len(p)
    BY <2>2, FoldProperties
  <2>5. \A i \in 1..Len(p) : Lower[p[i]] = Fold(p)[i]
    BY DEF Fold
  <2>6. KeyedReal(Fold(p), r)
    BY <2>1, <2>2, <2>4, <2>5, KeyedJoin
  <2>7. r[1] = top
    BY <2>1, <2>2, JoinedPath
  <2>. QED  BY <2>1, <2>3, <2>4, <2>6, <2>7
<1>6. ASSUME Len(r) = 1  PROVE KeyedReal(e, r)
  <2>1. 1..Len(e) = {}
    BY <1>2
  <2>. QED  BY <1>2, <1>4, <1>6, <2>1 DEF KeyedReal
<1>7. CASE r \in DirsOfLinks
  <2>1. PICK l \in Links : r = Parent(l.real)
    BY <1>7 DEF DirsOfLinks
  <2>. DEFINE p == <<l.name>>
  <2>2. l.name \in Name
    BY UsvfsAssumption
  <2>3. p \in Seq(Name) /\ Len(p) = 1
    BY <2>2
  <2>4. KeyedReal(Fold(p), l.real)
    BY DEF LinksKeyed
  <2>. HIDE DEF p
  <2>5. Len(Fold(p)) = 1
    BY <2>3, FoldProperties
  <2>. DEFINE real == l.real
  <2>6. r = Parent(real) /\ IsRealPath(real) /\ Len(real) = 2
    BY <2>1, <2>4, <2>5 DEF KeyedReal
  <2>. HIDE DEF real
  <2>7. Len(Parent(real)) = 1
    <3>1. Len(real) # 1
      BY <2>6
    <3>2. Len(Parent(real)) = Len(real) - 1
      BY <2>6, <3>1, RealPathParent
    <3>. QED  BY <2>6, <3>2
  <2>8. KeyedReal(e, r)
    BY <1>6, <2>6, <2>7
  <2>. QED  BY <1>2, <2>8 DEF e
<1>8. CASE r \in Upper
  <2>1. Len(r) = 1
    BY <1>1, <1>8
  <2>2. KeyedReal(e, r)
    BY <1>6, <2>1
  <2>. QED  BY <1>2, <2>2 DEF e
<1>. QED  BY <1>0, <1>3, <1>5, <1>7, <1>8

\* Where linking does not end the program, no two of the directories it opens
\* are kept under one key; none is open twice.
LEMMA InitFdMapLeads ==
  ASSUME NEW d, IsDisk(d), GivenDirs(d), Apart(d), NEW layers \in Seq(DOMAIN HostDirs),
         LinksKeyed, Linkable(d, layers), NEW m, m = InitFdMap(d, layers)
  PROVE  /\ \A r \in OpenedOf(d, layers) : At(m, r) = HostId(d, r)
         /\ OneKey(m)
<1>. DEFINE opened == OpenedOf(d, layers)
            Of(q) == CHOOSE r \in opened : RealKey(r) = q
<1>1. DOMAIN m = {RealKey(r) : r \in opened} /\ \A q \in DOMAIN m : m[q] = HostId(d, Of(q))
  BY DEF InitFdMap, OpenedOf
<1>2. ASSUME NEW r \in opened, NEW s \in opened, RealKey(r) = RealKey(s)
      PROVE  r = s
  <2>. HIDE DEF opened, Of
  <2>1. PICK k \in Seq(Key) :
          /\ KeyedReal(k, r)
          /\ k # <<>> =>
               \E top \in ToSet(layers) : \E p \in Walked(d, top) :
                 r = <<top>> \o p /\ Fold(p) = k /\ r[1] = top
    BY OpenedKeyed DEF opened
  <2>2. PICK q \in Seq(Key) :
          /\ KeyedReal(q, s)
          /\ q # <<>> =>
               \E top \in ToSet(layers) : \E p \in Walked(d, top) :
                 s = <<top>> \o p /\ Fold(p) = q /\ s[1] = top
    BY OpenedKeyed DEF opened
  <2>3. k = q /\ r[1] = s[1]
    BY <1>2, <2>1, <2>2, KeyedSame
  <2>4. CASE k = <<>>
    <3>1. Len(k) = 0
      BY <2>4, EmptyList
    <3>2. IsRealPath(r) /\ IsRealPath(s) /\ Len(r) = 1 /\ Len(s) = 1
      BY <2>1, <2>2, <2>3, <3>1 DEF KeyedReal
    <3>3. r \in Real /\ s \in Real /\ \A i \in 1..Len(r) : r[i] = s[i]
      BY <2>3, <3>2 DEF IsRealPath
    <3>. QED  BY <3>2, <3>3, SameSequence DEF Real
  <2>5. CASE k # <<>>
    BY <2>1, <2>2, <2>3, <2>5 DEF Linkable
  <2>. QED  BY <2>4, <2>5
<1>3. ASSUME NEW r \in opened
      PROVE  At(m, r) = HostId(d, r)
  <2>. DEFINE q == RealKey(r)
  <2>1. q \in DOMAIN m
    BY <1>1
  <2>2. Of(q) \in opened /\ RealKey(Of(q)) = q
    OBVIOUS
  <2>3. Of(q) = r
    <3>. HIDE DEF Of, opened
    <3>. QED  BY <1>2, <2>2
  <2>. HIDE DEF Of, opened
  <2>4. m[q] = HostId(d, r)
    BY <1>1, <2>1, <2>3
  <2>. QED  BY <2>1, <2>4 DEF At
<1>4. \A r \in opened : IsRealPath(r) /\ HostId(d, r) # NoFd /\ d[HostId(d, r)].kind = "dir"
  BY OpenedDirsType DEF OpenedOf
<1>. HIDE DEF Of, opened
<1>5. ASSUME NEW x \in DOMAIN m, NEW y \in DOMAIN m, m[x] = m[y]
      PROVE  x = y
  <2>1. PICK r \in opened : x = RealKey(r)
    BY <1>1
  <2>2. PICK s \in opened : y = RealKey(s)
    BY <1>1
  <2>3. m[x] = HostId(d, r) /\ m[y] = HostId(d, s)
    BY <1>3, <2>1, <2>2 DEF At
  <2>4. HostId(d, r) = HostId(d, s)
    BY <1>5, <2>3
  <2>5. r = s
    BY <1>4, <2>4, HostIdOne
  <2>. QED  BY <2>1, <2>2, <2>5
<1>6. OneKey(m)
  BY <1>5 DEF OneKey
<1>. QED  BY <1>3, <1>6 DEF opened

\* Linking leads to every directory it lays.
LEMMA LinkedLeads ==
  ASSUME NEW d, IsDisk(d), GivenDirs(d), Apart(d),
         NEW layers \in Seq(DOMAIN HostDirs), layers # <<>>,
         LinksKeyed, Linkable(d, layers), LayersMatch(d, layers)
  PROVE  /\ Keyed(LinkedTree(d, layers)) /\ OneKey(InitFdMap(d, layers))
         /\ DirsLed(LinkedTree(d, layers), InitFdMap(d, layers), d)
<1>. DEFINE t == LinkedTree(d, layers)
            m == InitFdMap(d, layers)
<1>1. LaidOver(t, d, layers, Len(layers)) /\ GoodTree(t)
  BY LinkedTreeLaidOver, LinkedTreeGood
<1>. HIDE DEF t
<1>2. OneKey(m) /\ \A r \in OpenedOf(d, layers) : At(m, r) = HostId(d, r)
  BY InitFdMapLeads
<1>. HIDE DEF m
<1>3. ASSUME NEW k \in DOMAIN t, k # <<>>, t[k].type = "dir"
      PROVE  Led(m, d, t[k].real)
  <2>1. PICK j \in 1..Len(layers) : \E p \in Walked(d, layers[j]) :
               /\ Fold(p) = k /\ t[k].real = <<layers[j]>> \o p
               /\ DirAt(d, <<layers[j]>> \o p)
    BY <1>1, <1>3 DEF LaidOver
  <2>2. PICK p \in Walked(d, layers[j]) :
               /\ Fold(p) = k /\ t[k].real = <<layers[j]>> \o p
               /\ DirAt(d, <<layers[j]>> \o p)
    BY <2>1
  <2>. DEFINE top == layers[j]
              r == <<top>> \o p
              s == Parent(r)
  <2>3. top \in DOMAIN HostDirs /\ top \in ToSet(layers)
    BY LenProperties DEF ToSet
  <2>4. p \in HostPaths
    BY DEF Walked
  <2>. HIDE DEF top
  <2>5. p \in Seq(Name) /\ p # <<>>
    <3>1. p \in Seq(Name)
      BY <2>4, HostPathsType
    <3>. QED  BY <1>3, <2>2, <3>1, FoldProperties
  <2>6. Parent(p) \in HostPaths
    BY <2>4, <2>5, HostPathsType
  <2>7. IsRealPath(r) /\ s = <<top>> \o Parent(p) /\ Len(r) # 1 /\ Base(r) \in Name
    BY <2>3, <2>5, JoinedPath, JoinedParent
  <2>8. r \in DirsBelow(layers) /\ s \in DirsBelow(layers)
    <3>1. \A q \in HostPaths : <<top>> \o q \in DirsBelow(layers)
      BY <2>3 DEF DirsBelow
    <3>. HIDE DEF s
    <3>. QED  BY <2>4, <2>6, <2>7, <3>1
  <2>9. HostId(d, r) # NoFd /\ d[HostId(d, r)].kind = "dir"
    BY <2>2 DEF DirAt, top
  <2>. HIDE DEF r
  <2>10. IsRealPath(s)
    BY <2>7, RealPathParent
  <2>. DEFINE g == HostId(d, s)
  <2>11. HostId(d, r) = StepTo(d, g, Base(r))
    BY <2>7, HostIdUp
  <2>12. g \in DOMAIN d \cup {NoFd}
    BY <2>10, HostIdType
  <2>. HIDE DEF g
  <2>13. g \in DOMAIN d
    <3>1. g # NoFd
      BY <2>9, <2>11 DEF StepTo
    <3>. QED  BY <2>12, <3>1
  <2>14. d[g].kind = "dir" /\ g # NoFd
    BY <2>7, <2>9, <2>11, <2>13, StepToEntries DEF Apart
  <2>. HIDE DEF s
  <2>15. r \in OpenedOf(d, layers) /\ s \in OpenedOf(d, layers)
    <3>1. r \in OpenedDirs(layers) /\ s \in OpenedDirs(layers)
      BY <2>8 DEF OpenedDirs
    <3>. QED  BY <2>9, <2>14, <3>1 DEF OpenedOf, g
  <2>16. At(m, r) = HostId(d, r) /\ At(m, s) = g
    BY <1>2, <2>15 DEF g
  <2>17. Led(m, d, r)
    BY <2>9, <2>11, <2>13, <2>16 DEF Led, s
  <2>. QED  BY <2>2, <2>17 DEF r, top
<1>4. Keyed(t) /\ DirsLed(t, m, d)
  BY <1>1, <1>3 DEF LaidOver, DirsLed
<1>. QED  BY <1>2, <1>4 DEF t, m

\* The workload without the calls that leave a directory that is shown where
\* its descriptor was not opened, or without one (see FdMapAgreesAlways).
Settled == {"remake", "nest", "moveDir"} \cap Workload = {}

\* rename, whatever it finds, of what is no directory.
LEMMA RenameLeads ==
  ASSUME LInv, Settled, NEW f \in Paths, NEW t \in Paths, NEW flag \in Flags,
         Does("nest", Len(t) > 1), Does("moveDir", "dir" \in Sees(f)),
         Does("remake", Present(tree, t) /\ tree[Fold(t)].type = "dir"),
         Rename(f, t, flag)
  PROVE  Apart(disk') /\ Keyed(tree') /\ OneKey(fdMap') /\ DirsLed(tree', fdMap', disk')
<1>1. f # <<>> /\ t # <<>> /\ Walkable(f) /\ Sees(f) # {}
  BY DEF Rename, RenameKernel, Walkable
<1>2. /\ ~(Len(t) > 1) /\ "dir" \notin Sees(f)
      /\ Present(tree, t) => tree[Fold(t)].type # "dir"
  <2>1. "remake" \notin Workload /\ "nest" \notin Workload /\ "moveDir" \notin Workload
    BY DEF Settled
  <2>. QED  BY <2>1 DEF Does
<1>3. Len(t) = 1
  <2>1. t \in Seq(Name)
    BY UsvfsAssumption
  <2>2. Len(t) \in Nat /\ Len(t) # 0
    BY <1>1, <2>1, LenProperties, EmptySeq
  <2>. DEFINE n == Len(t)
  <2>3. ~(n > 1)
    BY <1>2
  <2>. HIDE DEF n
  <2>4. n \in Nat /\ n # 0
    BY <2>2 DEF n
  <2>5. n = 1
    BY <2>3, <2>4
  <2>. QED  BY <2>5 DEF n
<1>4. CASE RenameRefusal(f, t, flag) # "ok"
  <2>1. UNCHANGED <<tree, fdMap, disk>>
    BY <1>4 DEF Rename, Fails
  <2>. QED  BY <2>1 DEF LInv
<1>5. CASE RenameRefusal(f, t, flag) = "ok"
  <2>1. RenameMoved(f, t, flag)
    BY <1>5 DEF Rename
  <2>2. Visible(tree, f) /\ Visible(tree, Parent(t))
    BY <1>5 DEF RenameRefusal
  <2>3. tree[Fold(f)].type # "dir"
    BY <1>1, <1>2, <2>2, DirItemSeen
  <2>. QED  BY <1>1, <1>2, <1>3, <2>1, <2>2, <2>3, RenameMovedLeads
<1>. QED  BY <1>4, <1>5

\* The calls that change nothing.
LEMMA ReadersChangeNothing ==
  ASSUME NEW p,
         Open(p) \/ Truncate(p) \/ Chmod(p) \/ Readlink(p) \/ Readdir(p) \/ Statfs
  PROVE  UNCHANGED <<tree, fdMap, disk>>
<1>1. ASSUME NEW call, NEW q, ByParent(call, q)  PROVE UNCHANGED <<tree, fdMap, disk>>
  BY <1>1, Zenon DEF ByParent, Reads
<1>2. CASE Open(p)
  BY <1>1, <1>2 DEF Open
<1>3. CASE Truncate(p)
  BY <1>1, <1>3, Zenon DEF Truncate, Fails
<1>4. CASE Chmod(p)
  BY <1>1, <1>4 DEF Chmod
<1>5. CASE Readlink(p)
  BY <1>5, Zenon DEF Readlink, Fails, Reads
<1>6. CASE Readdir(p)
  BY <1>6, Zenon DEF Readdir, Fails
<1>7. CASE Statfs
  BY <1>7, Zenon DEF Statfs
<1>. QED  BY <1>2, <1>3, <1>4, <1>5, <1>6, <1>7

\* A mount after a mount, over layers that match.
LEMMA RemountLeads ==
  ASSUME LInv, LinksKeyed, Remount, LayersMatch(disk, Relayers)
  PROVE  Apart(disk') /\ Keyed(tree') /\ OneKey(fdMap') /\ DirsLed(tree', fdMap', disk')
<1>1. /\ tree' = LinkedTree(disk, Relayers)
      /\ fdMap' = InitFdMap(disk, Relayers)
      /\ disk' = disk /\ Linkable(disk, Relayers)
  BY DEF Remount
<1>2. Relayers \in Seq(DOMAIN HostDirs) /\ Relayers # <<>>
  BY UsvfsAssumption
<1>3. IsDisk(disk) /\ GivenDirs(disk) /\ Apart(disk)
  BY DEF LInv, IInv
<1>. QED  BY <1>1, <1>2, <1>3, LinkedLeads

\* The first mount.
LEMMA InitLeads ==
  ASSUME Apart(InitDisk), Linkable(InitDisk, Layers), LayersMatch(InitDisk, Layers),
         LinksKeyed, Init
  PROVE  LInv
<1>1. /\ disk = InitDisk
      /\ tree = LinkedTree(InitDisk, Layers)
      /\ fdMap = InitFdMap(InitDisk, Layers)
  BY DEF Init
<1>2. Layers \in Seq(DOMAIN HostDirs) /\ Layers # <<>>
  BY UsvfsAssumption
<1>3. IInv
  BY InitGood
<1>4. IsDisk(InitDisk) /\ GivenDirs(InitDisk)
  BY <1>1, <1>3 DEF IInv
<1>5. Keyed(tree) /\ OneKey(fdMap) /\ DirsLed(tree, fdMap, disk)
  BY <1>1, <1>2, <1>4, LinkedLeads
<1>. QED  BY <1>1, <1>3, <1>5 DEF LInv

\* Every call of a settled workload keeps the invariant.
LEMMA NextLeads ==
  ASSUME LInv, Settled, LinksKeyed, Next, ret'.call = "remount" => LayersMatch(disk, Relayers)
  PROVE  LInv'
<1>1. IInv'
  BY NextKeeps DEF LInv, Kept
<1>. SUFFICES Apart(disk') /\ Keyed(tree') /\ OneKey(fdMap') /\ DirsLed(tree', fdMap', disk')
  BY <1>1 DEF LInv
<1>2. CASE \E p \in Paths : Does("remake", Occupied(p, "dir")) /\ Mkdir(p)
  <2>1. PICK p \in Paths : Does("remake", Occupied(p, "dir")) /\ Mkdir(p)
    BY <1>2
  <2>2. ~Present(tree, p)
    BY <2>1 DEF Does, Occupied, Settled
  <2>. QED  BY <2>1, <2>2, MkdirLeads
<1>3. CASE \E p \in Paths : Does("remake", Occupied(p, "file")) /\ Create(p)
  <2>1. PICK p \in Paths : Does("remake", Occupied(p, "file")) /\ Create(p)
    BY <1>3
  <2>2. Present(tree, p) => tree[Fold(p)].type = "file"
    BY <2>1 DEF Does, Occupied, Settled
  <2>. QED  BY <2>1, <2>2, CreateLeads
<1>4. CASE \E p \in Paths : Unlink(p)
  BY <1>4, UnlinkLeads
<1>5. CASE \E p \in Paths : Rmdir(p)
  BY <1>5, RmdirLeads
<1>6. CASE \E p \in Paths : Open(p) \/ Truncate(p) \/ Chmod(p) \/ Readlink(p) \/ Readdir(p)
  <2>1. UNCHANGED <<tree, fdMap, disk>>
    BY <1>6, ReadersChangeNothing
  <2>. QED  BY <2>1 DEF LInv
<1>7. CASE \E f, t \in Paths, flag \in Flags :
             /\ Does("nest", Len(t) > 1)
             /\ Does("moveDir", "dir" \in Sees(f) \/ (flag = "exchange" /\ "dir" \in Sees(t)))
             /\ Does("remake", Present(tree, t) /\ tree[Fold(t)].type = "dir")
             /\ Rename(f, t, flag)
  <2>1. PICK f \in Paths, t \in Paths, flag \in Flags :
             /\ Does("nest", Len(t) > 1)
             /\ Does("moveDir", "dir" \in Sees(f) \/ (flag = "exchange" /\ "dir" \in Sees(t)))
             /\ Does("remake", Present(tree, t) /\ tree[Fold(t)].type = "dir")
             /\ Rename(f, t, flag)
    BY <1>7
  <2>2. Does("moveDir", "dir" \in Sees(f))
    BY <2>1 DEF Does
  <2>. QED  BY <2>1, <2>2, RenameLeads
<1>8. CASE Statfs
  <2>1. UNCHANGED <<tree, fdMap, disk>>
    BY <1>8, ReadersChangeNothing
  <2>. QED  BY <2>1 DEF LInv
<1>9. CASE Remount
  <2>1. ret'.call = "remount"
    BY <1>9 DEF Remount, Reply
  <2>. QED  BY <1>9, <2>1, RemountLeads
<1>. QED  BY <1>2, <1>3, <1>4, <1>5, <1>6, <1>7, <1>8, <1>9 DEF Next

\* A key is folded already.
LEMMA FoldedKey ==
  ASSUME NEW k \in Seq(Key)
  PROVE  Fold(k) = k
<1>1. Len(k) \in Nat /\ DOMAIN k = 1..Len(k) /\ \A i \in 1..Len(k) : k[i] \in Key
  BY LenProperties
<1>2. \A n \in Key : Lower[n] = n
  BY LowerAssumption DEF Key
<1>3. k = [i \in 1..Len(k) |-> k[i]]
  BY <1>1
<1>. QED  BY <1>1, <1>2, <1>3 DEF Fold

\* The invariant says what FdMapAgrees says.
LEMMA InvariantLeads ==
  ASSUME LInv
  PROVE  FdMapAgrees
<1>. SUFFICES ASSUME NEW k \in DOMAIN tree, k # <<>>, tree[k].type = "dir", ~tree[k].deleted
              PROVE  /\ EntryError(disk, OnDisk(k).dir, OnDisk(k).name) = "ok"
                     /\ At(fdMap, tree[k].real) = disk[OnDisk(k).dir].names[OnDisk(k).name]
  BY DEF FdMapAgrees
<1>. DEFINE r == tree[k].real
            g == At(fdMap, Parent(r))
            n == Base(r)
<1>1. k \in Seq(Key) /\ Led(fdMap, disk, r) /\ IsDisk(disk)
  BY DEF LInv, IInv, GoodTree, Sound, IsTree, DirsLed
<1>2. Fold(k) = k
  BY <1>1, FoldedKey
<1>3. OnDisk(k).dir = g /\ OnDisk(k).name = n
  BY <1>2 DEF OnDisk
<1>. HIDE DEF r
<1>4. g \in DOMAIN disk /\ StepTo(disk, g, n) = At(fdMap, r) /\ At(fdMap, r) # NoFd
  BY <1>1 DEF Led
<1>. HIDE DEF g, n
<1>5. n \in Entries(disk, g) /\ StepTo(disk, g, n) = disk[g].names[n]
  BY <1>1, <1>4, StepToEntries
<1>6. EntryError(disk, g, n) = "ok"
  <2>1. g # NoFd /\ g # Stdin
    BY <1>1, <1>4, NoFdNotThere
  <2>. QED  BY <1>5, <2>1 DEF EntryError, FdError
<1>. QED  BY <1>3, <1>4, <1>5, <1>6 DEF r

\* A mount that is made again finds no directory of a layer under a file of a
\* later one.
RemountsMatch == [][ret'.call = "remount" => LayersMatch(disk, Relayers)]_vars

\* Whatever processes do that does not move directories or make them where
\* something was: the descriptor kept for each directory shown is open on what
\* the directory of its parent has under its name.
THEOREM FdMapAgreesAlways ==
  ASSUME Apart(InitDisk), Linkable(InitDisk, Layers), LayersMatch(InitDisk, Layers),
         LinksKeyed, Settled
  PROVE  Spec /\ RemountsMatch => []FdMapAgrees
<1>. DEFINE Matches == ret'.call = "remount" => LayersMatch(disk, Relayers)
<1>1. Init => LInv
  BY InitLeads
<1>2. LInv /\ [Next]_vars /\ [Matches]_vars => LInv'
  <2>1. LInv /\ UNCHANGED vars => LInv'
    BY StutterKeeps DEF LInv, vars
  <2>2. LInv /\ Next /\ Matches => LInv'
    BY NextLeads
  <2>. QED  BY <2>1, <2>2
<1>3. LInv => FdMapAgrees
  BY InvariantLeads
<1>. QED  BY <1>1, <1>2, <1>3, PTL DEF Spec, RemountsMatch

-----------------------------------------------------------------------------
(***************************************************************************)
(* What lies below a directory.  Inside() walks down as many times as the  *)
(* disk has inodes, which is enough: what it has reached then is closed    *)
(* under names, and the least such set.                                    *)
(***************************************************************************)
\* What the names in the directories of A lead to.
Beyond(d, A) == UNION {{d[g].names[e] : e \in Entries(d, g)} : g \in A}

\* What names lead to, by name.
LEMMA BeyondSteps ==
  ASSUME NEW d, IsDisk(d), NEW A \in SUBSET DOMAIN d
  PROVE  /\ Beyond(d, A) \in SUBSET DOMAIN d
         /\ \A g \in A : \A n : StepTo(d, g, n) # NoFd => StepTo(d, g, n) \in Beyond(d, A)
         /\ \A x \in Beyond(d, A) : \E g \in A : \E n : StepTo(d, g, n) = x /\ x # NoFd
<1>1. ASSUME NEW x \in Beyond(d, A)
      PROVE  x \in DOMAIN d /\ \E g \in A : \E n : StepTo(d, g, n) = x /\ x # NoFd
  <2>0. PICK g \in A : x \in {d[g].names[e] : e \in Entries(d, g)}
    BY DEF Beyond
  <2>1. PICK n \in Entries(d, g) : x = d[g].names[n]
    BY <2>0
  <2>2. /\ StepTo(d, g, n) # NoFd /\ StepTo(d, g, n) = d[g].names[n]
        /\ StepTo(d, g, n) \in DOMAIN d
    BY <2>1, StepToEntries
  <2>. QED  BY <2>1, <2>2
<1>2. ASSUME NEW g \in A, NEW n, StepTo(d, g, n) # NoFd
      PROVE  StepTo(d, g, n) \in Beyond(d, A)
  <2>1. n \in Entries(d, g) /\ StepTo(d, g, n) = d[g].names[n]
    BY <1>2, StepToEntries
  <2>. QED  BY <2>1 DEF Beyond
<1>. QED  BY <1>1, <1>2

\* Inside() is such a walk.
LEMMA InsideWalks ==
  ASSUME NEW d, IsDisk(d), NEW i \in DOMAIN d
  PROVE  \E b : /\ b[0] = {i}
                /\ \A n \in 1..Len(d) : b[n] = b[n - 1] \cup Beyond(d, b[n - 1])
                /\ \A n \in 0..Len(d) : b[n] \in SUBSET DOMAIN d
                /\ \A h : Inside(d, i, h) <=> h \in b[Len(d)]
<1>. DEFINE D == SUBSET DOMAIN d
            n == Len(d)
            a == {i}
            G == [x \in (0..n) \X D |-> x[2] \cup Beyond(d, x[2])]
<1>1. n \in Nat
  BY DiskParts
<1>2. a \in D
  OBVIOUS
<1>3. \A A \in D : A \cup Beyond(d, A) \in D
  BY BeyondSteps
<1>4. G \in [(0..n) \X D -> D]
  <2>. HIDE DEF D
  <2>. QED  BY <1>3
<1>5. PICK f \in [0..n -> D] : ByRecursion(f, 0, n, a, G)
  <2>1. 0 \in Nat
    OBVIOUS
  <2>. HIDE DEF G, D, n, a
  <2>. QED  BY <1>1, <1>2, <1>4, <2>1, Recursion
<1>6. ASSUME NEW m \in 0..n
      PROVE  f[m] = IF m = 0 THEN a ELSE f[m - 1] \cup Beyond(d, f[m - 1])
  <2>. HIDE DEF D
  <2>1. CASE m = 0
    BY <1>5, <2>1 DEF ByRecursion
  <2>2. CASE m # 0
    <3>1. m - 1 \in 0..n
      BY <1>1, <2>2
    <3>2. <<m, f[m - 1]>> \in (0..n) \X D
      BY <1>5, <3>1
    <3>3. G[<<m, f[m - 1]>>] = f[m - 1] \cup Beyond(d, f[m - 1])
      BY <3>2
    <3>. HIDE DEF G
    <3>. QED  BY <1>5, <2>2, <3>3 DEF ByRecursion
  <2>. QED  BY <2>1, <2>2
<1>. DEFINE Asks(e) ==
       e = [m \in 0..Len(d) |->
              IF m = 0 THEN {i}
              ELSE LET above == e[m - 1]
                   IN  above \cup UNION {{d[g].names[x] : x \in Entries(d, g)} : g \in above}]
            b == CHOOSE e : Asks(e)
<1>7. Asks(f)
  <2>1. f = [m \in 0..n |-> IF m = 0 THEN a ELSE f[m - 1] \cup Beyond(d, f[m - 1])]
    <3>. HIDE DEF a, D, n
    <3>. QED  BY <1>5, <1>6
  <2>. QED  BY <2>1 DEF Beyond
<1>8. Asks(b)
  <2>. HIDE DEF Asks
  <2>. QED  BY <1>7
<1>9. \A m \in 0..n : b[m] = IF m = 0 THEN a ELSE b[m - 1] \cup Beyond(d, b[m - 1])
  <2>. HIDE DEF b
  <2>. QED  BY <1>8 DEF Beyond
<1>10. \A h : Inside(d, i, h) <=> h \in b[n]
  BY DEF Inside
<1>. HIDE DEF b, Asks, G
<1>11. b[0] = a
  BY <1>1, <1>9
<1>12. ASSUME NEW m \in 1..n  PROVE b[m] = b[m - 1] \cup Beyond(d, b[m - 1])
  <2>1. m \in 0..n /\ m # 0
    BY <1>1, <1>12
  <2>. QED  BY <1>9, <2>1
<1>. DEFINE H == {m \in Nat : b[m] \in D}
<1>13. 0 \in H
  BY <1>2, <1>11
<1>14. ASSUME NEW m \in 0..n, m # 0, m - 1 \in H  PROVE m \in H
  <2>1. m \in 1..n /\ m \in Nat
    BY <1>1, <1>14
  <2>2. b[m] = b[m - 1] \cup Beyond(d, b[m - 1])
    BY <1>12, <2>1
  <2>. HIDE DEF D
  <2>. QED  BY <1>3, <1>14, <2>1, <2>2
<1>. HIDE DEF H
<1>15. 0..n \subseteq H
  <2>1. 0 \in Nat
    OBVIOUS
  <2>. HIDE DEF n
  <2>. QED  BY <1>1, <1>13, <1>14, <2>1, Induction
<1>16. \A m \in 0..n : b[m] \in D
  BY <1>15 DEF H
<1>. QED  BY <1>10, <1>11, <1>12, <1>16

\* What is inside is in every set that is closed under names and has the top.
LEMMA InsideLeast ==
  ASSUME NEW d, IsDisk(d), NEW i \in DOMAIN d, NEW C, i \in C,
         \A g \in DOMAIN d : \A n :
           g \in C /\ StepTo(d, g, n) # NoFd => StepTo(d, g, n) \in C
  PROVE  \A h : Inside(d, i, h) => h \in C
<1>. DEFINE N == Len(d)
<1>1. PICK b : /\ b[0] = {i}
               /\ \A n \in 1..N : b[n] = b[n - 1] \cup Beyond(d, b[n - 1])
               /\ \A n \in 0..N : b[n] \in SUBSET DOMAIN d
               /\ \A h : Inside(d, i, h) <=> h \in b[N]
  BY InsideWalks
<1>2. N \in Nat
  BY DiskParts
<1>. HIDE DEF N
<1>. DEFINE H == {n \in Nat : b[n] \subseteq C}
<1>3. 0 \in H
  BY <1>1
<1>4. ASSUME NEW n \in 0..N, n # 0, n - 1 \in H  PROVE n \in H
  <2>1. n \in 1..N /\ n - 1 \in 0..N /\ n \in Nat
    BY <1>2, <1>4
  <2>. DEFINE A == b[n - 1]
  <2>2. b[n] = A \cup Beyond(d, A) /\ A \in SUBSET DOMAIN d /\ A \subseteq C
    BY <1>1, <1>4, <2>1
  <2>. HIDE DEF A
  <2>3. Beyond(d, A) \subseteq C
    BY <2>2, BeyondSteps
  <2>. QED  BY <2>1, <2>2, <2>3
<1>. HIDE DEF H
<1>5. 0..N \subseteq H
  <2>1. 0 \in Nat
    OBVIOUS
  <2>. QED  BY <1>2, <1>3, <1>4, <2>1, Induction
<1>6. N \in H
  BY <1>2, <1>5
<1>. QED  BY <1>1, <1>6 DEF H

\* After as many steps as there are inodes nothing new is reached.
LEMMA InsideClosed ==
  ASSUME NEW d, IsDisk(d), NEW i \in DOMAIN d
  PROVE  /\ Inside(d, i, i)
         /\ \A g, n : Inside(d, i, g) /\ StepTo(d, g, n) # NoFd => Inside(d, i, StepTo(d, g, n))
         /\ \A g : Inside(d, i, g) => g \in DOMAIN d
<1>. DEFINE N == Len(d)
<1>1. PICK b : /\ b[0] = {i}
               /\ \A n \in 1..N : b[n] = b[n - 1] \cup Beyond(d, b[n - 1])
               /\ \A n \in 0..N : b[n] \in SUBSET DOMAIN d
               /\ \A h : Inside(d, i, h) <=> h \in b[N]
  BY InsideWalks
<1>2. N \in Nat /\ DOMAIN d = 1..N
  BY DiskParts, LenProperties DEF IsDisk
<1>. HIDE DEF N
<1>3. IsFiniteSet(DOMAIN d) /\ Cardinality(DOMAIN d) = N
  <2>1. IsFiniteSet(1..N) /\ Cardinality(1..N) = IF 1 > N THEN 0 ELSE N - 1 + 1
    BY <1>2, FS_Interval
  <2>. QED  BY <1>2, <2>1
<1>4. \A n \in 0..N : IsFiniteSet(b[n]) /\ Cardinality(b[n]) \in Nat /\ Cardinality(b[n]) =< N
  BY <1>1, <1>3, FS_Subset, FS_CardinalityType
<1>. DEFINE Closed(A) == Beyond(d, A) \subseteq A
            H == {n \in Nat : Closed(b[n]) \/ Cardinality(b[n]) > n}
            G == {n \in Nat : i \in b[n]}
<1>5. 0 \in H /\ 0 \in G
  <2>1. Cardinality({i}) = 1
    BY FS_Singleton
  <2>. HIDE DEF Closed
  <2>. QED  BY <1>1, <2>1
<1>6. ASSUME NEW n \in 0..N, n # 0, n - 1 \in H  PROVE n \in H
  <2>1. n \in 1..N /\ n - 1 \in 0..N /\ n \in Nat
    BY <1>2, <1>6
  <2>. DEFINE A == b[n - 1]
              B == b[n]
  <2>2. B = A \cup Beyond(d, A) /\ A \in SUBSET B
    BY <1>1, <2>1
  <2>3. CASE Closed(A)
    <3>1. B = A
      BY <2>2, <2>3
    <3>. HIDE DEF A, B
    <3>2. Closed(B)
      BY <2>3, <3>1
    <3>. QED  BY <2>1, <3>2 DEF B
  <2>4. CASE ~Closed(A)
    <3>. HIDE DEF A, B
    <3>1. A # B
      BY <2>2, <2>4
    <3>2. IsFiniteSet(B) /\ Cardinality(B) \in Nat /\ Cardinality(A) \in Nat
      BY <1>4, <2>1 DEF A, B
    <3>3. Cardinality(A) =< Cardinality(B) /\ Cardinality(A) # Cardinality(B)
      BY <2>2, <3>1, <3>2, FS_Subset
    <3>4. Cardinality(A) > n - 1
      BY <1>6, <2>4 DEF A
    <3>5. Cardinality(B) > n
      BY <2>1, <3>2, <3>3, <3>4
    <3>. QED  BY <2>1, <3>5 DEF B
  <2>. QED  BY <2>3, <2>4
<1>7. ASSUME NEW n \in 0..N, n # 0, n - 1 \in G  PROVE n \in G
  <2>1. n \in 1..N /\ n \in Nat
    BY <1>2, <1>7
  <2>2. b[n] = b[n - 1] \cup Beyond(d, b[n - 1])
    BY <1>1, <2>1
  <2>. QED  BY <1>7, <2>1, <2>2
<1>. HIDE DEF H, G
<1>8. N \in H /\ N \in G
  <2>1. 0 \in Nat
    OBVIOUS
  <2>2. 0..N \subseteq H /\ 0..N \subseteq G
    BY <1>2, <1>5, <1>6, <1>7, <2>1, Induction
  <2>. QED  BY <1>2, <2>2
<1>9. N \in 0..N
  BY <1>2
<1>10. Closed(b[N])
  <2>1. ~(Cardinality(b[N]) > N)
    BY <1>2, <1>4, <1>9
  <2>. HIDE DEF Closed
  <2>. QED  BY <1>8, <2>1 DEF H
<1>11. i \in b[N]
  BY <1>8 DEF G
<1>12. ASSUME NEW g, NEW n, g \in b[N], StepTo(d, g, n) # NoFd
       PROVE  StepTo(d, g, n) \in b[N]
  <2>. DEFINE A == b[N]
  <2>1. A \in SUBSET DOMAIN d /\ g \in A /\ Beyond(d, A) \subseteq A
    BY <1>1, <1>9, <1>10, <1>12
  <2>. HIDE DEF A
  <2>2. StepTo(d, g, n) \in Beyond(d, A)
    BY <1>12, <2>1, BeyondSteps
  <2>. QED  BY <2>1, <2>2 DEF A
<1>. QED  BY <1>1, <1>9, <1>11, <1>12

\* A linked inode is given to the program or has a name.
LEMMA LinkedSteps ==
  ASSUME NEW d, IsDisk(d), NEW i \in DOMAIN d
  PROVE  Linked(d, i) <=>
           \/ \E t \in DOMAIN HostDirs : HostDirs[t] = i
           \/ \E g \in DOMAIN d : \E n : StepTo(d, g, n) = i
<1>1. ASSUME NEW g \in DOMAIN d, NEW n, StepTo(d, g, n) = i
      PROVE  n \in Entries(d, g) /\ d[g].names[n] = i
  <2>1. i # NoFd
    BY NoFdNotThere
  <2>. QED  BY <1>1, <2>1, StepToEntries
<1>2. ASSUME NEW g \in DOMAIN d, NEW n \in Entries(d, g), d[g].names[n] = i
      PROVE  StepTo(d, g, n) = i
  BY <1>2, StepToEntries
<1>. QED  BY <1>1, <1>2 DEF Linked

-----------------------------------------------------------------------------
(***************************************************************************)
(* What lies below a directory u, when names come and go.                  *)
(***************************************************************************)
\* What is made adds to what lies below a directory.
LEMMA MadeWithin ==
  ASSUME NEW d, IsDisk(d), NEW u \in DOMAIN d, NEW h \in DOMAIN d, NEW n \in Name,
         StepTo(d, h, n) = NoFd, NEW kind \in NodeKinds, NEW e, e = Made(d, h, n, kind),
         NEW i, i = Len(d) + 1
  PROVE  /\ \A x : Inside(d, u, x) => Inside(e, u, x)
         /\ Inside(d, u, h) => Inside(e, u, i)
         /\ \A x \in DOMAIN d : Linked(e, x) => Linked(d, x)
         /\ \A x \in DOMAIN d : x # h => Entries(e, x) \subseteq Entries(d, x)
<1>1. /\ \A x : x \in DOMAIN e <=> x \in DOMAIN d \/ x = i
      /\ i \notin DOMAIN d
      /\ \A g \in DOMAIN d : \A y :
           StepTo(e, g, y) = IF g = h /\ y = n THEN i ELSE StepTo(d, g, y)
      /\ \A y : StepTo(e, i, y) = NoFd
  BY MadeSteps
<1>2. IsDisk(e)
  BY MadeDisk
<1>3. NoFd \notin DOMAIN d /\ NoFd \notin DOMAIN e
  BY <1>2, NoFdNotThere
<1>4. ASSUME NEW x, Inside(d, u, x)  PROVE Inside(e, u, x)
  <2>. DEFINE C == {y \in DOMAIN e : Inside(e, u, y)}
  <2>1. u \in DOMAIN e
    BY <1>1
  <2>2. /\ Inside(e, u, u)
        /\ \A g, y : Inside(e, u, g) /\ StepTo(e, g, y) # NoFd => Inside(e, u, StepTo(e, g, y))
        /\ \A g : Inside(e, u, g) => g \in DOMAIN e
    BY <1>2, <2>1, InsideClosed
  <2>3. ASSUME NEW g \in DOMAIN d, NEW y, g \in C, StepTo(d, g, y) # NoFd
        PROVE  StepTo(d, g, y) \in C
    <3>1. StepTo(e, g, y) = StepTo(d, g, y)
      BY <1>1, <2>3
    <3>. QED  BY <2>2, <2>3, <3>1
  <2>4. u \in C
    BY <2>1, <2>2
  <2>. HIDE DEF C
  <2>5. x \in C
    BY <1>4, <2>3, <2>4, InsideLeast
  <2>. QED  BY <2>5 DEF C
<1>5. ASSUME Inside(d, u, h)  PROVE Inside(e, u, i)
  <2>1. u \in DOMAIN e
    BY <1>1
  <2>2. StepTo(e, h, n) = i /\ i # NoFd
    BY <1>1, <1>3
  <2>3. Inside(e, u, h)
    BY <1>4, <1>5
  <2>. QED  BY <1>2, <2>1, <2>2, <2>3, InsideClosed
<1>6. ASSUME NEW x \in DOMAIN d, Linked(e, x)  PROVE Linked(d, x)
  <2>1. x \in DOMAIN e
    BY <1>1
  <2>2. CASE \E t \in DOMAIN HostDirs : HostDirs[t] = x
    BY <2>2, LinkedSteps
  <2>3. CASE \E g \in DOMAIN e : \E y : StepTo(e, g, y) = x
    <3>0. PICK g \in DOMAIN e : \E y : StepTo(e, g, y) = x
      BY <2>3
    <3>1. PICK y : StepTo(e, g, y) = x
      BY <3>0
    <3>2. g \in DOMAIN d /\ StepTo(d, g, y) = x
      BY <1>1, <1>3, <3>1
    <3>. QED  BY <3>2, LinkedSteps
  <2>. QED  BY <1>2, <1>6, <2>1, <2>2, <2>3, LinkedSteps
<1>7. ASSUME NEW x \in DOMAIN d, x # h, NEW y \in Entries(e, x)
      PROVE  y \in Entries(d, x)
  <2>1. x \in DOMAIN e /\ StepTo(e, x, y) # NoFd
    BY <1>1, <1>2, StepToEntries
  <2>2. StepTo(d, x, y) # NoFd
    BY <1>1, <1>7, <2>1
  <2>. QED  BY <2>2, StepToEntries
<1>. QED  BY <1>4, <1>5, <1>6, <1>7

\* What goes is all that goes from below a directory, if it has no entries.
LEMMA UnboundWithin ==
  ASSUME NEW d, IsDisk(d), Apart(d), NEW u \in DOMAIN d, NEW h \in DOMAIN d, NEW n,
         NEW i, i = StepTo(d, h, n), i # NoFd, \A y : StepTo(d, i, y) = NoFd,
         NEW e, e = Unbound(d, h, n)
  PROVE  /\ \A x : Inside(d, u, x) => Inside(e, u, x) \/ x = i
         /\ \A x \in DOMAIN d : Linked(e, x) => Linked(d, x)
         /\ d[i].kind = "dir" => ~Linked(e, i)
         /\ \A x \in DOMAIN d : Entries(e, x) \subseteq Entries(d, x)
<1>1. \A g \in DOMAIN d : \A y :
        StepTo(e, g, y) = IF g = h /\ y = n THEN NoFd ELSE StepTo(d, g, y)
  BY UnboundSteps
<1>2. IsDisk(e) /\ DOMAIN e = DOMAIN d
  BY UnboundDisk DEF Unbound
<1>3. NoFd \notin DOMAIN d /\ i \in DOMAIN d /\ n \in Name
  BY NoFdNotThere, StepToEntries
<1>4. ASSUME NEW x, Inside(d, u, x)  PROVE Inside(e, u, x) \/ x = i
  <2>. DEFINE C == {y \in DOMAIN e : Inside(e, u, y) \/ y = i}
  <2>1. /\ Inside(e, u, u)
        /\ \A g, y : Inside(e, u, g) /\ StepTo(e, g, y) # NoFd => Inside(e, u, StepTo(e, g, y))
        /\ \A g : Inside(e, u, g) => g \in DOMAIN e
    BY <1>2, InsideClosed
  <2>2. ASSUME NEW g \in DOMAIN d, NEW y, g \in C, StepTo(d, g, y) # NoFd
        PROVE  StepTo(d, g, y) \in C
    <3>1. CASE g = h /\ y = n
      BY <1>2, <1>3, <3>1
    <3>2. CASE ~(g = h /\ y = n)
      <4>1. StepTo(e, g, y) = StepTo(d, g, y) /\ g # i
        BY <1>1, <2>2, <3>2
      <4>. QED  BY <2>1, <2>2, <4>1
    <3>. QED  BY <3>1, <3>2
  <2>3. u \in C
    BY <1>2, <2>1
  <2>. HIDE DEF C
  <2>4. x \in C
    BY <1>4, <2>2, <2>3, InsideLeast
  <2>. QED  BY <2>4 DEF C
<1>5. ASSUME NEW x \in DOMAIN d, Linked(e, x)
      PROVE  Linked(d, x) /\ (x = i => d[i].kind # "dir")
  <2>2. CASE \E t \in DOMAIN HostDirs : HostDirs[t] = x
    <3>1. x # i
      BY <1>3, <2>2 DEF Apart
    <3>. QED  BY <2>2, <3>1, LinkedSteps
  <2>3. CASE \E g \in DOMAIN e : \E y : StepTo(e, g, y) = x
    <3>0. PICK g \in DOMAIN e : \E y : StepTo(e, g, y) = x
      BY <2>3
    <3>1. PICK y : StepTo(e, g, y) = x
      BY <3>0
    <3>2. g \in DOMAIN d /\ StepTo(d, g, y) = x /\ ~(g = h /\ y = n)
      BY <1>1, <1>2, <1>3, <3>1
    <3>3. y \in Name
      BY <1>3, <3>2, StepToEntries
    <3>4. x = i => d[i].kind # "dir"
      BY <1>3, <3>2, <3>3 DEF Apart
    <3>. QED  BY <3>2, <3>4, LinkedSteps
  <2>. QED  BY <1>2, <1>5, <2>2, <2>3, LinkedSteps
<1>6. ASSUME NEW x \in DOMAIN d, NEW y \in Entries(e, x)
      PROVE  y \in Entries(d, x)
  <2>1. StepTo(e, x, y) # NoFd
    BY <1>2, StepToEntries
  <2>2. StepTo(d, x, y) # NoFd
    BY <1>1, <2>1
  <2>. QED  BY <2>2, StepToEntries
<1>. QED  BY <1>3, <1>4, <1>5, <1>6

\* A directory that is linked was so before, and has stayed where it was.
StaysInside(d, e, u) ==
  \A x \in DOMAIN d : d[x].kind = "dir" /\ Linked(e, x) =>
    Linked(d, x) /\ (Inside(d, u, x) => Inside(e, u, x))

\* What renameat2() answers, without RENAME_EXCHANGE.
LEMMA RenameAllowed ==
  ASSUME NEW d, IsDisk(d), NEW g \in DOMAIN d, NEW h \in DOMAIN d,
         NEW n \in Entries(d, g), NEW m \in Name, NEW exchange \in BOOLEAN, ~exchange,
         RenameError(d, g, n, h, m, exchange) = "ok",
         NEW i, i = StepTo(d, g, n), NEW j, j = StepTo(d, h, m), i # j
  PROVE  ~Inside(d, i, h) /\ (j # NoFd => \A y : StepTo(d, j, y) = NoFd)
<1>1. h # NoFd /\ h # Stdin /\ g # NoFd /\ g # Stdin
  BY NoFdNotThere
<1>2. FdError(h) = "ok" /\ EntryError(d, g, n) = "ok"
  BY <1>1 DEF FdError, EntryError
<1>3. i = d[g].names[n] /\ i \in DOMAIN d
  BY StepToEntries
<1>4. CASE m \notin Entries(d, h)
  <2>1. RenameError(d, g, n, h, m, exchange) = "EINVAL" \/ ~Inside(d, i, h)
    <3>1. CASE Linked(d, h) /\ Inside(d, d[g].names[n], h)
      BY <1>2, <1>4, <3>1, Zenon DEF RenameError
    <3>2. CASE ~Linked(d, h)
      <4>1. RenameError(d, g, n, h, m, exchange) = "ENOENT"
        BY <1>2, <3>2, Zenon DEF RenameError
      <4>. QED  BY <4>1
    <3>. QED  BY <1>3, <3>1, <3>2
  <2>2. j = NoFd
    BY <1>4, StepToEntries
  <2>. QED  BY <2>1, <2>2
<1>5. CASE m \in Entries(d, h)
  <2>1. j = d[h].names[m] /\ j \in DOMAIN d
    BY <1>5, StepToEntries
  <2>2. Linked(d, h)
    <3>1. ~Linked(d, h) => RenameError(d, g, n, h, m, exchange) = "ENOENT"
      BY <1>2, Zenon DEF RenameError
    <3>. QED  BY <3>1
  <2>3. RenameError(d, g, n, h, m, exchange) =
          IF i = j THEN "ok"
          ELSE IF Inside(d, i, h) \/ (exchange /\ Inside(d, j, g)) THEN "EINVAL"
          ELSE IF exchange THEN "ok"
          ELSE IF d[i].kind = "dir" /\ d[j].kind # "dir" THEN "ENOTDIR"
          ELSE IF d[i].kind # "dir" /\ d[j].kind = "dir" THEN "EISDIR"
          ELSE IF Entries(d, j) # {} THEN "ENOTEMPTY"
          ELSE "ok"
    BY <1>2, <1>3, <1>5, <2>1, <2>2, Zenon DEF RenameError
  <2>4. ~Inside(d, i, h) /\ Entries(d, j) = {}
    <3>. DEFINE In == Inside(d, i, h)
                E == Entries(d, j)
    <3>1. RenameError(d, g, n, h, m, exchange) = IF In THEN "EINVAL"
            ELSE IF d[i].kind = "dir" /\ d[j].kind # "dir" THEN "ENOTDIR"
            ELSE IF d[i].kind # "dir" /\ d[j].kind = "dir" THEN "EISDIR"
            ELSE IF E # {} THEN "ENOTEMPTY" ELSE "ok"
      BY <2>3, Zenon
    <3>. HIDE DEF In, E
    <3>2. ~In /\ E = {}
      BY <3>1
    <3>. QED  BY <3>2 DEF In, E
  <2>5. \A y : StepTo(d, j, y) = NoFd
    BY <2>4 DEF StepTo
  <2>. QED  BY <2>4, <2>5
<1>. QED  BY <1>4, <1>5

\* What is renamed to a directory below u lies below u, and all else that did
\* and is still linked does.
LEMMA RenamedWithin ==
  ASSUME NEW d, IsDisk(d), Apart(d), NEW u \in DOMAIN d,
         NEW g \in DOMAIN d, NEW h \in DOMAIN d, Inside(d, u, h),
         NEW n \in Entries(d, g), NEW m \in Name, NEW exchange \in BOOLEAN, ~exchange,
         RenameError(d, g, n, h, m, exchange) = "ok",
         NEW e, e = Renamed(d, g, n, h, m, exchange)
  PROVE  /\ Inside(e, u, h) /\ StaysInside(d, e, u)
         /\ \A x \in DOMAIN d : x # h => Entries(e, x) \subseteq Entries(d, x)
<1>1. PICK i : i = StepTo(d, g, n)
  OBVIOUS
<1>2. PICK j : j = StepTo(d, h, m)
  OBVIOUS
<1>3. /\ DOMAIN e = DOMAIN d
      /\ \/ e = d
         \/ /\ i # j
            /\ \A x \in DOMAIN d : \A y :
                 StepTo(e, x, y) = IF x = h /\ y = m THEN i
                                   ELSE IF x = g /\ y = n THEN NoFd
                                   ELSE StepTo(d, x, y)
  <2>1. exchange => m \in Entries(d, h)
    OBVIOUS
  <2>2. PICK v : v = IF exchange THEN StepTo(d, h, m) ELSE NoFd
    OBVIOUS
  <2>. QED  BY <1>1, <1>2, <2>1, <2>2, RenamedSteps
<1>4. IsDisk(e)
  <2>1. exchange => h \in DOMAIN d /\ m \in Entries(d, h)
    OBVIOUS
  <2>. QED  BY <2>1, RenamedDisk
<1>5. CASE e = d
  BY <1>5 DEF StaysInside
<1>6. CASE /\ i # j
           /\ \A x \in DOMAIN d : \A y :
                StepTo(e, x, y) = IF x = h /\ y = m THEN i
                                  ELSE IF x = g /\ y = n THEN NoFd
                                  ELSE StepTo(d, x, y)
  <2>1. ~Inside(d, i, h) /\ (j # NoFd => \A y : StepTo(d, j, y) = NoFd)
    BY <1>1, <1>2, <1>6, RenameAllowed
  <2>2. i \in DOMAIN d /\ i # NoFd /\ n \in Name /\ NoFd \notin DOMAIN d
    BY <1>1, StepToEntries, NoFdNotThere
  <2>3. /\ Inside(e, u, u)
        /\ \A x, y : Inside(e, u, x) /\ StepTo(e, x, y) # NoFd => Inside(e, u, StepTo(e, x, y))
        /\ \A x : Inside(e, u, x) => x \in DOMAIN e
    BY <1>3, <1>4, InsideClosed
  <2>4. /\ Inside(d, i, i)
        /\ \A x, y : Inside(d, i, x) /\ StepTo(d, x, y) # NoFd => Inside(d, i, StepTo(d, x, y))
        /\ \A x : Inside(d, i, x) => x \in DOMAIN d
    BY <2>2, InsideClosed
  <2>5. h # j
    <3>1. CASE j = NoFd
      BY <2>2, <3>1
    <3>2. CASE j # NoFd
      BY <1>2, <2>1, <3>2
    <3>. QED  BY <3>1, <3>2
  <2>6. Inside(e, u, h)
    <3>. DEFINE C == {x \in DOMAIN d : Inside(e, u, x) \/ Inside(d, i, x) \/ x = j}
    <3>1. ASSUME NEW x \in DOMAIN d, NEW y, x \in C, StepTo(d, x, y) # NoFd
          PROVE  StepTo(d, x, y) \in C
      <4>0. StepTo(d, x, y) \in DOMAIN d
        BY <3>1, StepToEntries
      <4>1. CASE x = j
        BY <2>1, <2>2, <3>1, <4>1
      <4>2. CASE Inside(d, i, x)
        BY <2>4, <3>1, <4>0, <4>2
      <4>3. CASE Inside(e, u, x)
        <5>1. CASE x = h /\ y = m
          BY <1>2, <4>0, <5>1
        <5>2. CASE x = g /\ y = n
          BY <1>1, <2>4, <4>0, <5>2
        <5>3. CASE ~(x = h /\ y = m) /\ ~(x = g /\ y = n)
          <6>1. StepTo(e, x, y) = StepTo(d, x, y)
            BY <1>6, <5>3
          <6>. QED  BY <2>3, <3>1, <4>0, <4>3, <6>1
        <5>. QED  BY <5>1, <5>2, <5>3
      <4>. QED  BY <3>1, <4>1, <4>2, <4>3
    <3>2. u \in C
      BY <2>3
    <3>. HIDE DEF C
    <3>3. h \in C
      BY <3>1, <3>2, InsideLeast
    <3>. QED  BY <2>1, <2>5, <3>3 DEF C
  <2>7. Inside(e, u, i)
    <3>1. StepTo(e, h, m) = i
      BY <1>6
    <3>. QED  BY <2>2, <2>3, <2>6, <3>1
  <2>8. ASSUME NEW z, Inside(d, u, z)  PROVE Inside(e, u, z) \/ z = j
    <3>. DEFINE C == {x \in DOMAIN d : Inside(e, u, x) \/ x = j}
    <3>1. ASSUME NEW x \in DOMAIN d, NEW y, x \in C, StepTo(d, x, y) # NoFd
          PROVE  StepTo(d, x, y) \in C
      <4>0. StepTo(d, x, y) \in DOMAIN d
        BY <3>1, StepToEntries
      <4>1. CASE x = j
        BY <2>1, <2>2, <3>1, <4>1
      <4>2. CASE x # j /\ x = h /\ y = m
        BY <1>2, <4>0, <4>2
      <4>3. CASE x # j /\ x = g /\ y = n
        BY <1>1, <2>7, <4>0, <4>3
      <4>4. CASE x # j /\ ~(x = h /\ y = m) /\ ~(x = g /\ y = n)
        <5>1. StepTo(e, x, y) = StepTo(d, x, y)
          BY <1>6, <4>4
        <5>. QED  BY <2>3, <3>1, <4>0, <4>4, <5>1
      <4>. QED  BY <4>1, <4>2, <4>3, <4>4
    <3>2. u \in C
      BY <2>3
    <3>. HIDE DEF C
    <3>3. z \in C
      BY <2>8, <3>1, <3>2, InsideLeast
    <3>. QED  BY <3>3 DEF C
  <2>9. ASSUME NEW x \in DOMAIN d, d[x].kind = "dir", Linked(e, x)
        PROVE  Linked(d, x) /\ (Inside(d, u, x) => Inside(e, u, x))
    <3>1. CASE \E t \in DOMAIN HostDirs : HostDirs[t] = x
      <4>1. x # j
        BY <1>2, <2>2, <3>1 DEF Apart
      <4>. QED  BY <2>8, <3>1, <4>1, LinkedSteps
    <3>2. CASE \E p \in DOMAIN e : \E y : StepTo(e, p, y) = x
      <4>0. PICK p \in DOMAIN e : \E y : StepTo(e, p, y) = x
        BY <3>2
      <4>1. PICK y : StepTo(e, p, y) = x
        BY <4>0
      <4>2. CASE p = h /\ y = m
        <5>1. x = i
          BY <1>3, <1>6, <4>1, <4>2
        <5>. QED  BY <1>1, <2>7, <5>1, LinkedSteps
      <4>3. CASE ~(p = h /\ y = m)
        <5>1. p \in DOMAIN d /\ StepTo(d, p, y) = x /\ ~(p = g /\ y = n)
          BY <1>3, <1>6, <2>2, <4>1, <4>3
        <5>2. y \in Name
          BY <2>2, <5>1, StepToEntries
        <5>3. x # j
          <6>1. StepTo(d, h, m) = x /\ d[StepTo(d, h, m)].kind = "dir" => p = h /\ m = y
            BY <2>2, <2>9, <5>1, <5>2 DEF Apart
          <6>. QED  BY <1>2, <2>9, <4>3, <6>1
        <5>. QED  BY <2>8, <5>1, <5>3, LinkedSteps
      <4>. QED  BY <4>2, <4>3
    <3>3. x \in DOMAIN e
      BY <1>3
    <3>. QED  BY <1>4, <2>9, <3>1, <3>2, <3>3, LinkedSteps
  <2>10. ASSUME NEW x \in DOMAIN d, x # h, NEW y \in Entries(e, x)
         PROVE  y \in Entries(d, x)
    <3>1. StepTo(e, x, y) # NoFd
      BY <1>3, <1>4, StepToEntries
    <3>2. StepTo(d, x, y) # NoFd
      BY <1>6, <2>10, <3>1
    <3>. QED  BY <3>2, StepToEntries
  <2>. QED  BY <2>6, <2>9, <2>10 DEF StaysInside
<1>. QED  BY <1>3, <1>5, <1>6


-----------------------------------------------------------------------------
(***************************************************************************)
(* What is kept for the real paths below the upper directory lies there,   *)
(* unless it is gone from the disk, so that nothing can be made in it.     *)
(***************************************************************************)
UpperPath(r) == IsRealPath(r) /\ r[1] = UpperDir

\* What the program has open below the upper directory.
Within(m, d) ==
  \A q \in DOMAIN m :
    q # <<>> /\ q[1] = UpperDir /\ m[q] # Stdin /\ Linked(d, m[q]) =>
      Inside(d, HostDirs[UpperDir], m[q])

\* Where names have come from the disk d to the disk e.
NewNames(d, e) ==
  \A i \in DOMAIN d : Entries(e, i) \subseteq Entries(d, i) \/ Inside(e, HostDirs[UpperDir], i)

\* It has gained names below the upper directory only, and lost nothing there.
Gained(d, e) ==
  /\ NewNames(d, e) /\ KeepsInodes(d, e)
  /\ \A x : Inside(d, HostDirs[UpperDir], x) => Inside(e, HostDirs[UpperDir], x)

\* The upper directory is one of those given to the program.
LEMMA UpperGiven ==
  ASSUME HasUpper
  PROVE  UpperDir \in DOMAIN HostDirs /\ UpperDir \notin Name
<1>1. UpperDir \in DOMAIN HostDirs
  BY UsvfsAssumption DEF HasUpper
<1>2. Name \cap DOMAIN HostDirs = {}
  BY UsvfsAssumption
<1>. QED  BY <1>1, <1>2

\* The key of a path below it starts with it.
LEMMA UpperKey ==
  ASSUME HasUpper, NEW r, UpperPath(r)
  PROVE  RealKey(r) # <<>> /\ RealKey(r)[1] = UpperDir
<1>1. Len(r) \in Nat /\ Len(r) # 0
  BY EmptySeq DEF UpperPath, IsRealPath, Real
<1>2. DOMAIN RealKey(r) = 1..Len(r) /\ 1 \in 1..Len(r)
  BY <1>1 DEF RealKey
<1>3. RealKey(r)[1] = IF r[1] \in Name THEN Lower[r[1]] ELSE r[1]
  BY <1>2 DEF RealKey
<1>4. r[1] = UpperDir
  BY DEF UpperPath
<1>5. DOMAIN <<>> = {}
  OBVIOUS
<1>. QED  BY <1>2, <1>3, <1>4, <1>5, UpperGiven

\* Keeping a descriptor that lies below the upper directory, or 0.
LEMMA PutWithin ==
  ASSUME NEW m, NEW d, Within(m, d), NEW r, NEW h,
         h = Stdin \/ Inside(d, HostDirs[UpperDir], h)
  PROVE  Within(Put(m, r, h), d)
<1>1. DOMAIN Put(m, r, h) = DOMAIN m \cup {RealKey(r)}
  BY DEF Put
<1>2. \A q \in DOMAIN Put(m, r, h) : Put(m, r, h)[q] = IF q = RealKey(r) THEN h ELSE m[q]
  BY DEF Put
<1>. QED  BY <1>1, <1>2 DEF Within

\* What the map holds lies below the upper directory while directories stay.
LEMMA StaysWithin ==
  ASSUME NEW m, NEW d, FdMapGood(m, d), Within(m, d),
         NEW e, StaysInside(d, e, HostDirs[UpperDir])
  PROVE  Within(m, e)
BY DEF FdMapGood, Within, StaysInside

\* The directory open for a path below the upper directory lies there, if it
\* is still on the disk.
LEMMA OpenInside ==
  ASSUME HasUpper, NEW d, NEW m, FdMapGood(m, d), Within(m, d),
         NEW r, UpperPath(r), NEW h, h = At(m, r), FdError(h) = "ok", Linked(d, h)
  PROVE  h \in DOMAIN d /\ d[h].kind = "dir" /\ Inside(d, HostDirs[UpperDir], h)
<1>1. h # NoFd /\ h # Stdin
  BY DEF FdError
<1>2. RealKey(r) \in DOMAIN m /\ h = m[RealKey(r)]
  BY <1>1 DEF At
<1>. QED  BY <1>1, <1>2, UpperKey DEF Within, FdMapGood

\* Gains add up.
LEMMA GainedTwice ==
  ASSUME NEW d, NEW e, Gained(d, e), NEW c, Gained(e, c)
  PROVE  Gained(d, c)
BY DEF Gained, NewNames, KeepsInodes

\* What is made in such a directory.
LEMMA UpperMakes ==
  ASSUME HasUpper, NEW d, IsDisk(d), GivenDirs(d), Apart(d),
         NEW m, FdMapGood(m, d), Within(m, d), NEW r, UpperPath(r), NEW h, h = At(m, r),
         NEW n \in Name, MakeError(d, h, n) = "ok",
         NEW kind \in NodeKinds, NEW e, e = Made(d, h, n, kind)
  PROVE  /\ IsDisk(e) /\ GivenDirs(e) /\ Apart(e) /\ FdMapGood(m, e) /\ Within(m, e)
         /\ Gained(d, e) /\ Len(e) = Len(d) + 1
         /\ Len(e) \in DOMAIN e /\ e[Len(e)].kind = kind
         /\ Inside(e, HostDirs[UpperDir], Len(e))
<1>. DEFINE u == HostDirs[UpperDir]
<1>1. FdError(h) = "ok" /\ n \notin Entries(d, h) /\ Linked(d, h)
  BY DEF MakeError
<1>2. h \in DOMAIN d /\ d[h].kind = "dir" /\ Inside(d, u, h)
  BY <1>1, OpenInside
<1>3. u \in DOMAIN d
  BY UpperGiven DEF GivenDirs
<1>4. StepTo(d, h, n) = NoFd
  BY <1>1 DEF StepTo
<1>5. /\ IsDisk(e) /\ Len(e) = Len(d) + 1 /\ KeepsInodes(d, e)
      /\ Len(d) + 1 \in DOMAIN e /\ e[Len(d) + 1].kind = kind
  BY MadeDisk
<1>6. Apart(e) /\ GivenDirs(e) /\ FdMapGood(m, e)
  BY <1>2, <1>4, <1>5, MadeApart, GivenDirsKept, FdMapKeeps
<1>7. PICK i : i = Len(d) + 1
  OBVIOUS
<1>8. /\ \A x : Inside(d, u, x) => Inside(e, u, x)
      /\ Inside(e, u, i)
      /\ \A x \in DOMAIN d : Linked(e, x) => Linked(d, x)
      /\ \A x \in DOMAIN d : x # h => Entries(e, x) \subseteq Entries(d, x)
  <2>. HIDE DEF u
  <2>. QED  BY <1>2, <1>3, <1>4, <1>7, MadeWithin
<1>9. Within(m, e)
  <2>1. StaysInside(d, e, u)
    BY <1>8 DEF StaysInside
  <2>. QED  BY <2>1, StaysWithin
<1>10. Gained(d, e)
  BY <1>2, <1>5, <1>8 DEF Gained, NewNames
<1>. QED  BY <1>5, <1>6, <1>7, <1>8, <1>9, <1>10


UInv == IInv /\ Apart(disk) /\ Within(fdMap, disk)

\* What each call has to be shown to do.
UKept == Apart(disk') /\ Within(fdMap', disk') /\ NewNames(disk, disk')

-----------------------------------------------------------------------------
(***************************************************************************)
(* The handlers that make something.                                       *)
(***************************************************************************)
\* createParentDir() makes at most one directory, below the upper directory.
LEMMA ParentDirWithin ==
  ASSUME HasUpper, UInv, NEW real, UpperPath(real), NEW fails,
         At(fdMap, real) = NoFd => Base(real) \in Name,
         NEW in, in = ParentDir(real, fails)
  PROVE  /\ IsDisk(in.disk) /\ GivenDirs(in.disk) /\ Apart(in.disk)
         /\ FdMapGood(in.fdMap, in.disk) /\ Within(in.fdMap, in.disk)
         /\ Gained(disk, in.disk)
         /\ in.err = "ok" => in.fd = At(in.fdMap, real)
<1>. DEFINE fd == At(fdMap, real)
            up == At(fdMap, Parent(real))
            n == Base(real)
            err == MakeError(disk, up, n)
            made == Made(disk, up, n, "dir")
            top == Opened(fdMap, Parent(real), n, Len(made))
<1>1. in = IF fd # NoFd
           THEN [err |-> "ok", fd |-> fd, disk |-> disk, fdMap |-> fdMap]
           ELSE IF err # "ok" THEN [err |-> err, fd |-> NoFd, disk |-> disk, fdMap |-> fdMap]
           ELSE IF fails THEN [err |-> "EMFILE", fd |-> NoFd, disk |-> made, fdMap |-> fdMap]
           ELSE [err |-> "ok", fd |-> Len(made), disk |-> made, fdMap |-> top]
  BY Zenon DEF ParentDir, HasUpper
<1>2. /\ IsDisk(disk) /\ GivenDirs(disk) /\ Apart(disk)
      /\ FdMapGood(fdMap, disk) /\ Within(fdMap, disk)
  BY DEF UInv, IInv
<1>3. Gained(disk, disk)
  BY DEF Gained, NewNames, KeepsInodes
<1>4. ASSUME fd = NoFd, err = "ok"
      PROVE  /\ IsDisk(made) /\ GivenDirs(made) /\ Apart(made)
             /\ FdMapGood(fdMap, made) /\ Within(fdMap, made)
             /\ FdMapGood(top, made) /\ Within(top, made)
             /\ Gained(disk, made) /\ At(top, real) = Len(made)
  <2>1. Len(real) # 1
    <3>1. ASSUME Len(real) = 1  PROVE FALSE
      <4>1. real \in Seq(Name \cup DOMAIN HostDirs) /\ real[1] = UpperDir
        BY DEF UpperPath, IsRealPath, Real
      <4>2. real = <<UpperDir>>
        BY <3>1, <4>1
      <4>3. RealKey(real) \in DOMAIN fdMap
        BY <1>2, <4>2 DEF FdMapGood, HasUpper
      <4>. QED  BY <1>4, <4>3, HandleThere DEF At, UInv
    <3>. QED  BY <3>1
  <2>2. n \in Name
    BY <1>4
  <2>3. Append(Parent(real), n) = real
    BY <2>1, <2>2, SplitAgain DEF UpperPath
  <2>4. UpperPath(Parent(real))
    BY <2>1, RealPathParent DEF UpperPath
  <2>5. "dir" \in NodeKinds
    BY DEF NodeKinds
  <2>6. top = Put(fdMap, real, Len(made))
    BY <2>3 DEF Opened
  <2>7. err = "ok" /\ err = MakeError(disk, up, n) /\ made = Made(disk, up, n, "dir")
        /\ up = At(fdMap, Parent(real))
    BY <1>4
  <2>. HIDE DEF n, up, made, top, err
  <2>8. /\ IsDisk(made) /\ GivenDirs(made) /\ Apart(made)
        /\ FdMapGood(fdMap, made) /\ Within(fdMap, made) /\ Gained(disk, made)
        /\ Len(made) \in DOMAIN made /\ made[Len(made)].kind = "dir"
        /\ Inside(made, HostDirs[UpperDir], Len(made))
    BY <1>2, <2>2, <2>4, <2>5, <2>7, UpperMakes
  <2>9. FdMapGood(top, made) /\ Within(top, made) /\ At(top, real) = Len(made)
    BY <2>6, <2>8, PutGood, PutWithin, PutParts
  <2>. QED  BY <2>8, <2>9
<1>. HIDE DEF fd, up, n, err, made, top
<1>5. CASE fd # NoFd
  <2>1. in.err = "ok" /\ in.disk = disk /\ in.fdMap = fdMap /\ in.fd = fd
    BY <1>1, <1>5
  <2>. QED  BY <2>1, <1>2, <1>3 DEF fd
<1>6. CASE fd = NoFd /\ err # "ok"
  <2>1. in.err = err /\ in.disk = disk /\ in.fdMap = fdMap
    BY <1>1, <1>6
  <2>. QED  BY <2>1, <1>2, <1>3, <1>6
<1>7. CASE fd = NoFd /\ err = "ok" /\ fails
  <2>1. in.err = "EMFILE" /\ in.disk = made /\ in.fdMap = fdMap
    BY <1>1, <1>7
  <2>. QED  BY <2>1, <1>4, <1>7
<1>8. CASE fd = NoFd /\ err = "ok" /\ ~fails
  <2>1. in.err = "ok" /\ in.disk = made /\ in.fdMap = top /\ in.fd = Len(made)
    BY <1>1, <1>8
  <2>. QED  BY <2>1, <1>4, <1>8
<1>. QED  BY <1>5, <1>6, <1>7, <1>8

\* With an upper directory, what is made is made below it.
LEMMA NewParentUpper ==
  ASSUME HasUpper, UInv, NEW p \in Paths, p # <<>>, Visible(tree, Parent(p)),
         NEW real, real = NewRealParent(p)
  PROVE  UpperPath(real) /\ (At(fdMap, real) = NoFd => Base(real) \in Name)
<1>. DEFINE q == FilePath(tree, Fold(Parent(p)))
<1>1. Fold(Parent(p)) \in DOMAIN tree /\ Sound(tree, Real)
  BY DEF Visible, Present, UInv, IInv, GoodTree
<1>2. q \in Seq(Name)
  BY <1>1, FilePathType
<1>3. real = <<UpperDir>> \o q
  BY Zenon DEF NewRealParent, HasUpper
<1>. HIDE DEF q
<1>4. UpperPath(real)
  BY <1>2, <1>3, UpperGiven, JoinedPath DEF UpperPath
<1>5. At(fdMap, real) = NoFd => Base(real) \in Name
  BY <1>2, <1>3, RealParentOf DEF HasUpper, UInv
<1>. QED  BY <1>4, <1>5

\* The same for create.
LEMMA CreateParentUpper ==
  ASSUME HasUpper, UInv, NEW p \in Paths, p # <<>>, NEW real, real = CreateRealParent(p)
  PROVE  UpperPath(real) /\ (At(fdMap, real) = NoFd => Base(real) \in Name)
<1>. DEFINE q == Parent(p)
<1>1. q \in Seq(Name)
  BY PathParts
<1>2. real = <<UpperDir>> \o q
  BY Zenon DEF CreateRealParent, HasUpper
<1>. HIDE DEF q
<1>3. UpperPath(real)
  BY <1>1, <1>2, UpperGiven, JoinedPath DEF UpperPath
<1>4. At(fdMap, real) = NoFd => Base(real) \in Name
  BY <1>1, <1>2, RealParentOf DEF HasUpper, UInv
<1>. QED  BY <1>3, <1>4

\* mkdir makes its directory there, and keeps its descriptor.
LEMMA MkdirNewWithin ==
  ASSUME HasUpper, UInv, NEW p \in Paths, p # <<>>, NEW parentFails, NEW fails,
         MkdirNew(p, parentFails, fails)
  PROVE  UKept
<1>. DEFINE realParent == NewRealParent(p)
            n == Base(p)
            in == ParentDir(realParent, parentFails)
            err == IF in.err # "ok" THEN in.err ELSE MakeError(in.disk, in.fd, n)
            made == Made(in.disk, in.fd, n, "dir")
            i == Len(in.disk) + 1
            opened == Opened(in.fdMap, realParent, n, i)
<1>1. n \in Name /\ Visible(tree, Parent(p))
  BY PathParts DEF MkdirNew
<1>2. UpperPath(realParent) /\ (At(fdMap, realParent) = NoFd => Base(realParent) \in Name)
  BY <1>1, NewParentUpper
<1>3. /\ disk' = IF err = "ok" THEN made ELSE in.disk
      /\ \/ err # "ok" /\ fdMap' = in.fdMap
         \/ err = "ok" /\ fdMap' = in.fdMap
         \/ err = "ok" /\ fdMap' = opened
  BY Zenon DEF MkdirNew
<1>4. /\ IsDisk(in.disk) /\ GivenDirs(in.disk) /\ Apart(in.disk)
      /\ FdMapGood(in.fdMap, in.disk) /\ Within(in.fdMap, in.disk)
      /\ Gained(disk, in.disk)
      /\ in.err = "ok" => in.fd = At(in.fdMap, realParent)
  <2>. HIDE DEF realParent
  <2>. QED  BY <1>2, ParentDirWithin
<1>. HIDE DEF in, realParent, n
<1>5. opened = Put(in.fdMap, Append(realParent, n), i)
  BY DEF Opened
<1>6. ASSUME err = "ok"
      PROVE  /\ Apart(made) /\ Within(in.fdMap, made) /\ Gained(disk, made)
             /\ Within(opened, made)
  <2>1. in.err = "ok" /\ MakeError(in.disk, in.fd, n) = "ok"
    BY <1>6
  <2>2. "dir" \in NodeKinds
    BY DEF NodeKinds
  <2>. DEFINE d == in.disk
              m == in.fdMap
              h == in.fd
  <2>3. made = Made(d, h, n, "dir") /\ i = Len(d) + 1
    OBVIOUS
  <2>4. opened = Put(m, Append(realParent, n), i)
    BY <1>5
  <2>5. /\ IsDisk(d) /\ GivenDirs(d) /\ Apart(d) /\ FdMapGood(m, d) /\ Within(m, d)
        /\ Gained(disk, d) /\ h = At(m, realParent) /\ MakeError(d, h, n) = "ok"
        /\ UpperPath(realParent)
    BY <1>2, <1>4, <2>1
  <2>6. Within(m, made) => Within(in.fdMap, made)
    OBVIOUS
  <2>. HIDE DEF made, d, m, h, i, opened
  <2>7. /\ Apart(made) /\ Within(m, made) /\ Gained(d, made) /\ Len(made) = i
        /\ Inside(made, HostDirs[UpperDir], Len(made))
    BY <1>1, <2>2, <2>3, <2>5, UpperMakes
  <2>8. Within(opened, made)
    BY <2>4, <2>7, PutWithin
  <2>9. Gained(disk, made)
    BY <2>5, <2>7, GainedTwice
  <2>. QED  BY <2>6, <2>7, <2>8, <2>9
<1>. HIDE DEF made, err, opened, i
<1>7. CASE err # "ok"
  BY <1>3, <1>4, <1>7 DEF UKept, Gained
<1>8. CASE err = "ok"
  BY <1>3, <1>6, <1>8 DEF UKept, Gained
<1>. QED  BY <1>7, <1>8

\* create makes its file there, or opens one.
LEMMA CreateFileWithin ==
  ASSUME HasUpper, UInv, NEW p \in Paths, p # <<>>, NEW excl, NEW parentFails,
         CreateFile(p, excl, parentFails)
  PROVE  UKept
<1>. DEFINE realParent == CreateRealParent(p)
            n == Base(p)
            in == ParentDir(realParent, parentFails)
            err == IF in.err # "ok" THEN in.err ELSE OpenCreateError(in.disk, in.fd, n, excl)
            made == Made(in.disk, in.fd, n, "file")
<1>1. n \in Name
  BY PathParts
<1>2. UpperPath(realParent) /\ (At(fdMap, realParent) = NoFd => Base(realParent) \in Name)
  BY CreateParentUpper
<1>3. /\ fdMap' = in.fdMap
      /\ \/ disk' = in.disk
         \/ err = "ok" /\ n \notin Entries(in.disk, in.fd) /\ disk' = made
  BY Zenon DEF CreateFile
<1>4. /\ IsDisk(in.disk) /\ GivenDirs(in.disk) /\ Apart(in.disk)
      /\ FdMapGood(in.fdMap, in.disk) /\ Within(in.fdMap, in.disk)
      /\ Gained(disk, in.disk)
      /\ in.err = "ok" => in.fd = At(in.fdMap, realParent)
  <2>. HIDE DEF realParent
  <2>. QED  BY <1>2, ParentDirWithin
<1>. HIDE DEF in, realParent, n
<1>5. ASSUME err = "ok", n \notin Entries(in.disk, in.fd)
      PROVE  Apart(made) /\ Within(in.fdMap, made) /\ Gained(disk, made)
  <2>. DEFINE d == in.disk
              m == in.fdMap
              h == in.fd
  <2>1. in.err = "ok" /\ OpenCreateError(d, h, n, excl) = "ok"
    BY <1>5
  <2>2. "file" \in NodeKinds
    BY DEF NodeKinds
  <2>3. made = Made(d, h, n, "file") /\ n \notin Entries(d, h)
    BY <1>5
  <2>4. /\ IsDisk(d) /\ GivenDirs(d) /\ Apart(d) /\ FdMapGood(m, d) /\ Within(m, d)
        /\ Gained(disk, d) /\ h = At(m, realParent) /\ UpperPath(realParent)
    BY <1>2, <1>4, <2>1
  <2>5. Within(m, made) => Within(in.fdMap, made)
    OBVIOUS
  <2>. HIDE DEF made, d, m, h
  <2>6. MakeError(d, h, n) = "ok"
    <3>1. MakeError(d, h, n) # "EEXIST"
      BY <2>3 DEF MakeError, FdError
    <3>. QED  BY <2>1, <3>1 DEF OpenCreateError
  <2>7. Apart(made) /\ Within(m, made) /\ Gained(d, made)
    BY <1>1, <2>2, <2>3, <2>4, <2>6, UpperMakes
  <2>. QED  BY <2>4, <2>5, <2>7, GainedTwice
<1>. HIDE DEF made, err
<1>. QED  BY <1>3, <1>4, <1>5 DEF UKept, Gained


-----------------------------------------------------------------------------
(***************************************************************************)
(* The handlers that remove and rename.                                    *)
(***************************************************************************)
\* What is removed is no directory with entries.
LEMMA RemovedWithin ==
  ASSUME HasUpper, UInv, NEW p, NEW removeDir \in BOOLEAN,
         UnlinkError(disk, OnDisk(p).dir, OnDisk(p).name, removeDir) = "ok",
         NEW e, e = RemovedFromDisk(p)
  PROVE  Apart(e) /\ Within(fdMap, e) /\ NewNames(disk, e)
<1>. DEFINE r == tree[Fold(p)].real
            h == At(fdMap, Parent(r))
            n == Base(r)
            i == StepTo(disk, h, n)
            u == HostDirs[UpperDir]
<1>1. OnDisk(p).dir = h /\ OnDisk(p).name = n
  BY DEF OnDisk
<1>2. UnlinkError(disk, h, n, removeDir) = "ok" /\ e = Unbound(disk, h, n)
  BY <1>1, Zenon DEF RemovedFromDisk
<1>3. /\ IsDisk(disk) /\ GivenDirs(disk) /\ Apart(disk)
      /\ FdMapGood(fdMap, disk) /\ Within(fdMap, disk)
  BY DEF UInv, IInv
<1>4. h \in DOMAIN disk \cup {NoFd, Stdin}
  BY <1>3, HandleType
<1>. HIDE DEF h, n, r
<1>5. EntryError(disk, h, n) = "ok"
  BY <1>2 DEF UnlinkError
<1>6. FdError(h) = "ok" /\ n \in Entries(disk, h)
  BY <1>5 DEF EntryError
<1>7. h \in DOMAIN disk
  BY <1>4, <1>6 DEF FdError
<1>8. i # NoFd /\ i \in DOMAIN disk /\ i = disk[h].names[n]
  BY <1>3, <1>6, <1>7, StepToEntries
<1>9. \A y : StepTo(disk, i, y) = NoFd
  <2>1. CASE removeDir
    <3>1. Entries(disk, i) = {}
      BY <1>2, <1>5, <1>8, <2>1 DEF UnlinkError
    <3>. QED  BY <3>1 DEF StepTo
  <2>2. CASE ~removeDir
    <3>1. disk[i].kind # "dir"
      BY <1>2, <1>5, <1>8, <2>2 DEF UnlinkError
    <3>. QED  BY <1>3, <1>8, <3>1, StepToEntries DEF Apart
  <2>. QED  BY <2>1, <2>2
<1>10. u \in DOMAIN disk
  BY <1>3, UpperGiven DEF GivenDirs
<1>11. i = StepTo(disk, h, n)
  OBVIOUS
<1>. HIDE DEF i, u
<1>12. /\ \A x : Inside(disk, u, x) => Inside(e, u, x) \/ x = i
       /\ \A x \in DOMAIN disk : Linked(e, x) => Linked(disk, x)
       /\ disk[i].kind = "dir" => ~Linked(e, i)
       /\ \A x \in DOMAIN disk : Entries(e, x) \subseteq Entries(disk, x)
  BY <1>2, <1>3, <1>7, <1>8, <1>9, <1>10, <1>11, UnboundWithin
<1>13. StaysInside(disk, e, u)
  BY <1>12 DEF StaysInside
<1>14. Within(fdMap, e)
  BY <1>3, <1>13, StaysWithin DEF u
<1>15. Apart(e)
  BY <1>2, <1>3, <1>7, UnboundApart
<1>. QED  BY <1>12, <1>14, <1>15 DEF NewNames

\* unlink.
LEMMA UnlinkWithin ==
  ASSUME HasUpper, UInv, NEW p \in Paths, Unlink(p)
  PROVE  UKept
<1>. DEFINE err == UnlinkError(disk, OnDisk(p).dir, OnDisk(p).name, FALSE)
            e == RemovedFromDisk(p)
<1>1. \/ UNCHANGED <<tree, fdMap, disk>>
      \/ err = "ok" /\ disk' = e /\ fdMap' = fdMap
  <2>1. \/ Fails("unlink", p, p, "ENOENT")
        \/ Fails("unlink", p, p, err)
        \/ err = "ok" /\ disk' = e /\ fdMap' = fdMap
    BY Zenon DEF Unlink
  <2>. HIDE DEF err, e
  <2>. QED  BY <2>1 DEF Fails
<1>2. FALSE \in BOOLEAN
  OBVIOUS
<1>3. err = "ok" => Apart(e) /\ Within(fdMap, e) /\ NewNames(disk, e)
  BY <1>2, RemovedWithin
<1>. HIDE DEF err, e
<1>. QED  BY <1>1, <1>3 DEF UKept, UInv, NewNames

\* rmdir.
LEMMA RmdirWithin ==
  ASSUME HasUpper, UInv, NEW p \in Paths, Rmdir(p)
  PROVE  UKept
<1>. DEFINE err == UnlinkError(disk, OnDisk(p).dir, OnDisk(p).name, TRUE)
            e == RemovedFromDisk(p)
<1>1. \/ UNCHANGED <<tree, fdMap, disk>>
      \/ RmdirError(p) = "ok" /\ disk' = e /\ fdMap' = fdMap
  BY DEF Rmdir, Fails
<1>2. RmdirError(p) = "ok" => err = "ok"
  <2>. HIDE DEF err
  <2>1. RmdirError(p) = "ENOENT" \/ RmdirError(p) = "ENOTDIR" \/ RmdirError(p) = "ENOTEMPTY"
        \/ RmdirError(p) = err
    BY Zenon DEF RmdirError, err
  <2>. QED  BY <2>1
<1>3. TRUE \in BOOLEAN
  OBVIOUS
<1>4. err = "ok" => Apart(e) /\ Within(fdMap, e) /\ NewNames(disk, e)
  BY <1>3, RemovedWithin
<1>. HIDE DEF err, e
<1>. QED  BY <1>1, <1>2, <1>4 DEF UKept, UInv, NewNames

\* rename, but for RENAME_EXCHANGE, moves things to below the upper directory.
LEMMA RenameMovedWithin ==
  ASSUME HasUpper, UInv, NEW f \in Paths, f # <<>>, Visible(tree, f),
         NEW t \in Paths, t # <<>>, Visible(tree, Parent(t)),
         NEW flag \in Flags, flag # "exchange", RenameMoved(f, t, flag)
  PROVE  UKept
<1>. DEFINE item == tree[Fold(f)]
            oldDir == Parent(item.real)
            newDir == NewRealParent(t)
            once == Touched(fdMap, oldDir)
            touched == Touched(once, newDir)
            from == At(touched, oldDir)
            to == At(touched, newDir)
            exchange == flag = "exchange"
            n == item.name
            m == Base(t)
            err == RenameError(disk, from, n, to, m, exchange)
            moved == Renamed(disk, from, n, to, m, exchange)
            u == HostDirs[UpperDir]
<1>1. /\ fdMap' = touched
      /\ \/ disk' = disk
         \/ err = "ok" /\ disk' = moved
  <2>1. /\ fdMap' = touched
        /\ IF err # "ok"
           THEN Reply("rename", f, t, err) /\ UNCHANGED <<tree, disk>>
           ELSE /\ disk' = moved
                /\ RenameInTree(f, t, newDir \o t)
    BY Zenon DEF RenameMoved
  <2>. HIDE DEF err, moved, touched
  <2>. QED  BY <2>1
<1>2. m \in Name
  BY PathParts
<1>3. /\ IsDisk(disk) /\ GivenDirs(disk) /\ Apart(disk)
      /\ FdMapGood(fdMap, disk) /\ Within(fdMap, disk)
  BY DEF UInv, IInv
<1>4. UpperPath(newDir)
  BY NewParentUpper
<1>5. u \in DOMAIN disk
  BY <1>3, UpperGiven DEF GivenDirs
<1>. HIDE DEF oldDir, newDir, item
<1>6. FdMapGood(touched, disk) /\ Within(touched, disk)
  <2>1. FdMapGood(once, disk) /\ Within(once, disk)
    BY <1>3, TouchedGood, PutWithin DEF Touched
  <2>. HIDE DEF once
  <2>. QED  BY <2>1, TouchedGood, PutWithin DEF Touched
<1>7. exchange \in BOOLEAN /\ ~exchange
  OBVIOUS
<1>. HIDE DEF touched, exchange, n, m
<1>8. ASSUME err = "ok"
      PROVE  Apart(moved) /\ Within(touched, moved) /\ NewNames(disk, moved)
  <2>1. FdError(to) = "ok" /\ EntryError(disk, from, n) = "ok"
    BY <1>8 DEF RenameError
  <2>2. FdError(from) = "ok" /\ n \in Entries(disk, from)
    BY <2>1 DEF EntryError
  <2>3. from \in DOMAIN disk
    BY <1>6, <2>2, HandleType
  <2>4. to = At(touched, newDir) /\ err = RenameError(disk, from, n, to, m, exchange)
        /\ moved = Renamed(disk, from, n, to, m, exchange)
    OBVIOUS
  <2>. HIDE DEF from, to, moved, err, u
  <2>5. Linked(disk, to)
    <3>1. ~Linked(disk, to) => err = "ENOENT"
      BY <2>1, <2>4, Zenon DEF RenameError
    <3>. QED  BY <1>8, <3>1
  <2>6. to \in DOMAIN disk /\ disk[to].kind = "dir" /\ Inside(disk, u, to)
    BY <1>4, <1>6, <2>1, <2>4, <2>5, OpenInside DEF u
  <2>7. /\ Inside(moved, u, to) /\ StaysInside(disk, moved, u)
        /\ \A x \in DOMAIN disk : x # to => Entries(moved, x) \subseteq Entries(disk, x)
    BY <1>2, <1>3, <1>5, <1>7, <1>8, <2>2, <2>3, <2>4, <2>6, RenamedWithin
  <2>8. Within(touched, moved)
    BY <1>6, <2>7, StaysWithin DEF u
  <2>9. Apart(moved)
    BY <1>2, <1>3, <1>7, <2>2, <2>3, <2>4, <2>6, RenamedApart
  <2>. QED  BY <2>7, <2>8, <2>9 DEF NewNames, u
<1>. HIDE DEF moved, err
<1>9. NewNames(disk, disk)
  BY DEF NewNames
<1>. QED  BY <1>1, <1>3, <1>6, <1>8, <1>9 DEF UKept

\* Where a path does not use the name, getattr cuts neither it nor its parent.
LEMMA UncutNames ==
  ASSUME NEW p \in Paths, ~NamesDirectory(p)
  PROVE  ~Cut(p) /\ ~Cut(Parent(p))
<1>1. p \in Seq(Name) /\ Len(p) \in Nat /\ \A i \in 1..Len(p) : p[i] # DirectorySuffix
  BY UsvfsAssumption, LenProperties DEF NamesDirectory, ToSet
<1>2. p # <<>> => Len(p) \in 1..Len(p)
  BY <1>1, EmptySeq
<1>3. ASSUME p # <<>>, Parent(p) # <<>>  PROVE Base(Parent(p)) # DirectorySuffix
  <2>1. /\ Parent(p) \in Seq(Name) /\ Len(Parent(p)) = Len(p) - 1
        /\ \A i \in 1..Len(p) - 1 : Parent(p)[i] = p[i]
    BY <1>1, <1>3, ParentOf
  <2>2. Len(p) - 1 \in 1..Len(p) - 1
    BY <1>1, <1>3, <2>1, EmptySeq
  <2>. QED  BY <1>1, <2>1, <2>2 DEF Base
<1>4. p = <<>> => Parent(p) = <<>>
  <2>1. ASSUME p = <<>>  PROVE Len(p) - 1 < 1
    BY <1>1, <2>1, EmptySeq
  <2>. QED  BY <2>1 DEF Parent
<1>. QED  BY <1>1, <1>2, <1>3, <1>4 DEF Cut, Base

\* The kernel asks for an exchange only where it sees the new name.
LEMMA NoExchange ==
  ASSUME "replace" \notin Workload, "stale" \notin Workload, NEW f, NEW t, ~Cut(t),
         NEW flag, Does("replace", Visible(tree, t)), RenameKernel(f, t, flag)
  PROVE  flag # "exchange"
<1>1. ~Visible(tree, t)
  BY DEF Does
<1>2. Lookup(t).err # "ok"
  BY <1>1 DEF Lookup, Attributes
<1>3. Sees(t) = {}
  BY <1>2 DEF Sees, Shows, Cached
<1>. QED  BY <1>3 DEF RenameKernel

\* rename, whatever it finds.
LEMMA RenameWithin ==
  ASSUME HasUpper, UInv, "replace" \notin Workload, "stale" \notin Workload,
         NEW f \in Paths, NEW t \in Paths, ~Cut(t), NEW flag \in Flags,
         Does("replace", Visible(tree, t)), Rename(f, t, flag)
  PROVE  UKept
<1>1. f # <<>> /\ t # <<>>
  BY DEF Rename, RenameKernel, Walkable
<1>2. flag # "exchange"
  BY NoExchange DEF Rename
<1>3. CASE RenameRefusal(f, t, flag) # "ok"
  <2>1. UNCHANGED <<tree, fdMap, disk>>
    BY <1>3 DEF Rename, Fails
  <2>. QED  BY <2>1 DEF UInv, UKept, NewNames
<1>4. CASE RenameRefusal(f, t, flag) = "ok"
  <2>1. RenameMoved(f, t, flag)
    BY <1>4 DEF Rename
  <2>2. Visible(tree, f) /\ Visible(tree, Parent(t))
    BY <1>4 DEF RenameRefusal
  <2>. QED  BY <1>1, <1>2, <2>1, <2>2, RenameMovedWithin
<1>. QED  BY <1>3, <1>4


-----------------------------------------------------------------------------
(***************************************************************************)
(* A mount.                                                                *)
(***************************************************************************)
\* What a path below the upper directory leads to lies there.
LEMMA HostIdInside ==
  ASSUME HasUpper, NEW d, IsDisk(d), GivenDirs(d), NEW r, UpperPath(r), HostId(d, r) # NoFd
  PROVE  Inside(d, HostDirs[UpperDir], HostId(d, r))
<1>. DEFINE u == HostDirs[UpperDir]
            H == {n \in Nat : \A x \in Real :
                    Len(x) = n /\ UpperPath(x) /\ HostId(d, x) # NoFd => Inside(d, u, HostId(d, x))}
<1>1. u \in DOMAIN d
  BY UpperGiven DEF GivenDirs
<1>2. /\ Inside(d, u, u)
      /\ \A g, n : Inside(d, u, g) /\ StepTo(d, g, n) # NoFd => Inside(d, u, StepTo(d, g, n))
  <2>. HIDE DEF u
  <2>. QED  BY <1>1, InsideClosed
<1>3. \A x : UpperPath(x) =>
        IsRealPath(x) /\ x \in Real /\ x[1] = UpperDir /\ Len(x) \in Nat /\ Len(x) >= 1
  BY LenProperties, EmptySeq DEF UpperPath, IsRealPath, Real
<1>4. 1 \in H
  <2>1. ASSUME NEW x \in Real, Len(x) = 1, UpperPath(x)  PROVE HostId(d, x) = u
    BY <1>3, <2>1, HostIdType
  <2>. HIDE DEF u
  <2>. QED  BY <1>2, <2>1
<1>5. ASSUME NEW n \in 1..Len(r), n # 1, n - 1 \in H  PROVE n \in H
  <2>1. n \in Nat /\ n > 1
    BY <1>3, <1>5
  <2>2. ASSUME NEW x \in Real, Len(x) = n, UpperPath(x), HostId(d, x) # NoFd
        PROVE  Inside(d, u, HostId(d, x))
    <3>1. IsRealPath(x) /\ Len(x) # 1
      BY <1>3, <2>1, <2>2
    <3>2. HostId(d, x) = StepTo(d, HostId(d, Parent(x)), Base(x))
      BY <3>1, HostIdUp
    <3>3. HostId(d, Parent(x)) # NoFd
      BY <2>2, <3>2 DEF StepTo
    <3>4. UpperPath(Parent(x)) /\ Len(Parent(x)) = n - 1
      BY <2>2, <3>1, RealPathParent DEF UpperPath
    <3>5. Parent(x) \in Real
      BY <1>3, <3>4
    <3>. HIDE DEF u
    <3>6. Inside(d, u, HostId(d, Parent(x)))
      BY <1>5, <3>3, <3>4, <3>5
    <3>. QED  BY <1>2, <2>2, <3>2, <3>6
  <2>. HIDE DEF u
  <2>. QED  BY <2>1, <2>2
<1>. HIDE DEF H
<1>6. 1..Len(r) \subseteq H
  BY <1>3, <1>4, <1>5, Induction
<1>7. Len(r) \in H /\ r \in Real
  BY <1>3, <1>6
<1>. QED  BY <1>7 DEF H

\* So the map of a mount is of descriptors of what lies there.
LEMMA InitFdMapWithin ==
  ASSUME HasUpper, NEW d, IsDisk(d), GivenDirs(d), NEW layers \in Seq(DOMAIN HostDirs),
         NEW m, m = InitFdMap(d, layers)
  PROVE  Within(m, d)
<1>. DEFINE opened == {r \in OpenedDirs(layers) :
                         HostId(d, r) # NoFd /\ d[HostId(d, r)].kind = "dir"}
            Of(q) == CHOOSE r \in opened : RealKey(r) = q
<1>1. DOMAIN m = {RealKey(r) : r \in opened} /\ \A q \in DOMAIN m : m[q] = HostId(d, Of(q))
  BY DEF InitFdMap
<1>2. ASSUME NEW q \in DOMAIN m, q # <<>>, q[1] = UpperDir
      PROVE  Inside(d, HostDirs[UpperDir], m[q])
  <2>1. Of(q) \in opened /\ RealKey(Of(q)) = q
    BY <1>1
  <2>. DEFINE r == Of(q)
  <2>2. m[q] = HostId(d, r)
    BY <1>1
  <2>. HIDE DEF Of, r
  <2>3. IsRealPath(r) /\ HostId(d, r) # NoFd /\ RealKey(r) = q
    BY <2>1, OpenedDirsType DEF r
  <2>4. Len(r) \in Nat /\ Len(r) # 0
    BY <2>3, EmptySeq DEF IsRealPath, Real
  <2>5. RealKey(r)[1] = IF r[1] \in Name THEN Lower[r[1]] ELSE r[1]
    BY <2>4 DEF RealKey
  <2>6. r[1] \notin Name
    BY <2>3, UsvfsAssumption DEF IsRealPath
  <2>7. UpperPath(r)
    BY <1>2, <2>3, <2>5, <2>6 DEF UpperPath
  <2>. QED  BY <2>2, <2>3, <2>7, HostIdInside
<1>. QED  BY <1>2 DEF Within

\* Every call, where names are neither replaced nor used after they are gone.
LEMMA NextWithin ==
  ASSUME HasUpper, UInv, {"replace", "stale", "dotDirectory"} \cap Workload = {}, Next
  PROVE  UKept
<1>1. CASE \E p \in Paths : Mkdir(p)
  <2>1. PICK p \in Paths : Mkdir(p)
    BY <1>1
  <2>2. p # <<>>
    BY <2>1 DEF Mkdir, Walkable
  <2>3. CASE \E parentFails, fails \in Faults : MkdirNew(p, parentFails, fails)
    BY <2>2, <2>3, MkdirNewWithin
  <2>4. CASE MkdirExisting(p) \/ MkdirNoParent(p)
    <3>1. UNCHANGED <<fdMap, disk>>
      BY <2>4 DEF MkdirExisting, MkdirNoParent, Fails
    <3>. QED  BY <3>1 DEF UInv, UKept, NewNames
  <2>. QED  BY <2>1, <2>3, <2>4 DEF Mkdir
<1>2. CASE \E p \in Paths : Create(p)
  <2>1. PICK p \in Paths : Create(p)
    BY <1>2
  <2>2. p # <<>>
    BY <2>1 DEF Create, Walkable
  <2>3. CASE \E excl \in BOOLEAN, parentFails \in Faults : CreateFile(p, excl, parentFails)
    BY <2>2, <2>3, CreateFileWithin
  <2>4. CASE CreateNoParent(p)
    <3>1. UNCHANGED <<fdMap, disk>>
      BY <2>4 DEF CreateNoParent, Fails
    <3>. QED  BY <3>1 DEF UInv, UKept, NewNames
  <2>. QED  BY <2>1, <2>3, <2>4 DEF Create
<1>3. CASE \E p \in Paths : Unlink(p)
  BY <1>3, UnlinkWithin
<1>4. CASE \E p \in Paths : Rmdir(p)
  BY <1>4, RmdirWithin
<1>5. CASE \E p \in Paths : Open(p) \/ Truncate(p) \/ Chmod(p) \/ Readlink(p) \/ Readdir(p)
  <2>1. UNCHANGED <<tree, fdMap, disk>>
    BY <1>5, ReadersChangeNothing
  <2>. QED  BY <2>1 DEF UInv, UKept, NewNames
<1>6. CASE \E f, t \in Paths, flag \in Flags :
             /\ Does("dotDirectory", NamesDirectory(f) \/ NamesDirectory(t))
             /\ Does("replace", Visible(tree, t))
             /\ Rename(f, t, flag)
  <2>1. PICK f \in Paths, t \in Paths, flag \in Flags :
             /\ Does("dotDirectory", NamesDirectory(f) \/ NamesDirectory(t))
             /\ Does("replace", Visible(tree, t))
             /\ Rename(f, t, flag)
    BY <1>6
  <2>2. ~Cut(t)
    BY <2>1, UncutNames DEF Does
  <2>. QED  BY <2>1, <2>2, RenameWithin
<1>7. CASE Statfs
  <2>1. UNCHANGED <<tree, fdMap, disk>>
    BY <1>7, ReadersChangeNothing
  <2>. QED  BY <2>1 DEF UInv, UKept, NewNames
<1>8. CASE Remount
  <2>1. fdMap' = InitFdMap(disk, Relayers) /\ disk' = disk
    BY <1>8 DEF Remount
  <2>2. Relayers \in Seq(DOMAIN HostDirs)
    BY UsvfsAssumption
  <2>3. IsDisk(disk) /\ GivenDirs(disk) /\ Apart(disk)
    BY DEF UInv, IInv
  <2>4. Within(fdMap', disk)
    BY <2>1, <2>2, <2>3, InitFdMapWithin
  <2>. QED  BY <2>1, <2>3, <2>4 DEF UKept, NewNames
<1>. QED  BY <1>1, <1>2, <1>3, <1>4, <1>5, <1>6, <1>7, <1>8 DEF Next

\* Whatever processes do but replace a name, use one that is gone or use the name
\* .directory, and whichever of their calls fail half way: what they make is made
\* below the upper directory, and nothing is moved anywhere else.
THEOREM CreationConfinedAlways ==
  ASSUME HasUpper, {"replace", "stale", "dotDirectory"} \cap Workload = {}, Apart(InitDisk)
  PROVE  Spec => CreationConfined
<1>1. Init => UInv
  <2>. SUFFICES ASSUME Init  PROVE UInv
    OBVIOUS
  <2>1. IInv /\ disk = InitDisk /\ fdMap = InitFdMap(InitDisk, Layers)
    BY InitGood DEF Init
  <2>2. IsDisk(disk) /\ GivenDirs(disk) /\ Apart(disk)
    BY <2>1 DEF IInv
  <2>3. Layers \in Seq(DOMAIN HostDirs)
    BY UsvfsAssumption
  <2>4. Within(fdMap, disk)
    BY <2>1, <2>2, <2>3, InitFdMapWithin
  <2>. QED  BY <2>1, <2>2, <2>4 DEF UInv
<1>2. UInv /\ [Next]_vars => UInv'
  <2>1. UInv /\ UNCHANGED vars => UInv'
    BY StutterKeeps DEF UInv, vars
  <2>2. UInv /\ Next => UInv'
    BY NextKeeps, NextWithin DEF UInv, UKept, Kept
  <2>. QED  BY <2>1, <2>2
<1>. DEFINE Confined ==
       \A i \in DOMAIN disk :
         Entries(disk', i) \subseteq Entries(disk, i) \/ Inside(disk', HostDirs[UpperDir], i)
<1>3. UInv /\ [Next]_vars => [Confined]_vars
  <2>1. UInv /\ Next => Confined
    BY NextWithin DEF UKept, NewNames
  <2>. QED  BY <2>1
<1>. QED  BY <1>1, <1>2, <1>3, PTL DEF Spec, CreationConfined

-----------------------------------------------------------------------------
(***************************************************************************)
(* From the disk to the tree.  Home is where what is made in the directory *)
(* k goes; every name on disk there has its item, which is shown under     *)
(* that name or is a directory that has been opened there (and comes from  *)
(* another layer).  What the tree shows as a file is one on disk, items    *)
(* lie in directories, and what is open is a directory of the tree.        *)
(***************************************************************************)
Home(t, k) == IF HasUpper THEN <<UpperDir>> \o k ELSE t[k].real

OpenAbove(t, m, k) == HasUpper => At(m, Home(t, k)) # NoFd

Known(t, m, d, k, n) ==
  LET h == At(m, Home(t, k))
      c == Append(k, Lower[n])
  IN  /\ c \in DOMAIN t
      /\ d[StepTo(d, h, n)].kind = "dir" => OpenAbove(t, m, c)
      /\ \/ ~t[c].deleted /\ At(m, Parent(t[c].real)) = h /\ Base(t[c].real) = n
         \/ HasUpper /\ t[c].type = "dir" /\ OpenAbove(t, m, c)

NamesKnown(t, m, d) ==
  \A k \in DOMAIN t, n \in Name :
    At(m, Home(t, k)) \in DOMAIN d /\ StepTo(d, At(m, Home(t, k)), n) # NoFd =>
      Known(t, m, d, k, n)

FileLed(m, d, r) ==
  /\ At(m, Parent(r)) \in DOMAIN d
  /\ StepTo(d, At(m, Parent(r)), Base(r)) # NoFd
  /\ d[StepTo(d, At(m, Parent(r)), Base(r))].kind # "dir"

FilesLed(t, m, d) ==
  \A k \in DOMAIN t :
    k # <<>> /\ t[k].type # "dir" /\ ~t[k].deleted => FileLed(m, d, t[k].real)

InDirs(t) ==
  t[<<>>].type = "dir" /\ \A k \in DOMAIN t : k # <<>> => t[Parent(k)].type = "dir"

DirsOpen(t, m) ==
  \A k \in Seq(Key) : \A r :
    KeyedReal(k, r) /\ At(m, r) # NoFd /\ At(m, r) # Stdin =>
      k \in DOMAIN t /\ t[k].type = "dir"

CaseFree(d) ==
  \A g \in DOMAIN d : \A m, n \in Name :
    StepTo(d, g, m) # NoFd /\ StepTo(d, g, n) # NoFd /\ Lower[m] = Lower[n] => m = n

NamesKept(t, m, d) ==
  /\ InDirs(t) /\ DirsOpen(t, m) /\ FilesLed(t, m, d) /\ NamesKnown(t, m, d) /\ CaseFree(d)

KInv == LInv /\ NamesKept(tree, fdMap, disk)

\* The home of a key is below a directory given, by that key.
LEMMA HomeKeyed ==
  ASSUME NEW t, GoodTree(t), Keyed(t), NEW k \in Seq(Key), HasUpper \/ k \in DOMAIN t
  PROVE  KeyedReal(k, Home(t, k))
<1>1. CASE HasUpper
  <2>1. UpperDir \in DOMAIN HostDirs
    BY <1>1, UpperGiven
  <2>2. Key \subseteq Name /\ \A x \in Key : Lower[x] = x
    BY LowerAssumption DEF Key
  <2>3. k \in Seq(Name) /\ \A i \in 1..Len(k) : Lower[k[i]] = k[i]
    BY <2>2
  <2>4. KeyedReal(k, <<UpperDir>> \o k)
    BY <2>1, <2>3, KeyedJoin
  <2>. QED  BY <1>1, <2>4 DEF Home
<1>2. CASE ~HasUpper
  BY <1>2 DEF Home, Keyed
<1>. QED  BY <1>1, <1>2

\* Paths of one key below one directory are the same to the map.
LEMMA SameHandle ==
  ASSUME NEW k \in Seq(Key), NEW r, KeyedReal(k, r), NEW s, KeyedReal(k, s), r[1] = s[1]
  PROVE  RealKey(r) = RealKey(s) /\ \A m : At(m, r) = At(m, s)
<1>1. /\ DOMAIN RealKey(r) = 1..Len(k) + 1 /\ Len(k) \in Nat
      /\ RealKey(r)[1] = r[1]
      /\ \A i \in 1..Len(k) : RealKey(r)[i + 1] = k[i]
  BY RealKeyParts
<1>2. /\ DOMAIN RealKey(s) = 1..Len(k) + 1
      /\ RealKey(s)[1] = s[1]
      /\ \A i \in 1..Len(k) : RealKey(s)[i + 1] = k[i]
  BY RealKeyParts
<1>3. \A i \in 1..Len(k) + 1 : RealKey(r)[i] = RealKey(s)[i]
  <2>. SUFFICES ASSUME NEW i \in 1..Len(k) + 1  PROVE RealKey(r)[i] = RealKey(s)[i]
    OBVIOUS
  <2>1. CASE i = 1
    BY <1>1, <1>2, <2>1
  <2>2. CASE i # 1
    <3>1. i - 1 \in 1..Len(k) /\ (i - 1) + 1 = i
      BY <1>1, <2>2
    <3>. QED  BY <1>1, <1>2, <3>1
  <2>. QED  BY <2>1, <2>2
<1>4. RealKey(r) = [i \in DOMAIN RealKey(r) |-> RealKey(r)[i]]
      /\ RealKey(s) = [i \in DOMAIN RealKey(s) |-> RealKey(s)[i]]
  BY DEF RealKey
<1>5. RealKey(r) = RealKey(s)
  BY <1>1, <1>2, <1>3, <1>4
<1>. QED  BY <1>5 DEF At

\* A descriptor is kept for the paths of one key only.
LEMMA OneHome ==
  ASSUME NEW m, OneKey(m), NEW d, FdMapGood(m, d), IsDisk(d),
         NEW k \in Seq(Key), NEW r, KeyedReal(k, r),
         NEW q \in Seq(Key), NEW s, KeyedReal(q, s),
         At(m, r) = At(m, s), At(m, r) \in DOMAIN d
  PROVE  k = q
<1>1. At(m, r) # NoFd /\ At(m, r) # Stdin
  BY NoFdNotThere
<1>2. RealKey(r) = RealKey(s)
  BY <1>1 DEF At, OneKey
<1>. QED  BY <1>2, KeyedSame

\* What an item's key and real path are made of.
LEMMA ItemKeys ==
  ASSUME NEW t, GoodTree(t), Keyed(t), NEW k \in DOMAIN t
  PROVE  /\ k \in Seq(Key) /\ KeyedReal(k, t[k].real)
         /\ k # <<>> =>
              /\ Parent(k) \in DOMAIN t /\ Parent(k) \in Seq(Key)
              /\ KeyedReal(Parent(k), Parent(t[k].real))
              /\ Base(t[k].real) \in Name /\ Lower[Base(t[k].real)] = Base(k)
<1>1. k \in Seq(Key) /\ PrefixClosed(t)
  BY DEF GoodTree, Sound, IsTree
<1>2. KeyedReal(k, t[k].real)
  BY DEF Keyed
<1>3. k # <<>> => Parent(k) \in DOMAIN t
  BY <1>1 DEF PrefixClosed
<1>. QED  BY <1>1, <1>2, <1>3, KeyedParent

\* The key of a name in a directory.
LEMMA ChildKey ==
  ASSUME NEW k \in Seq(Key), NEW n \in Name
  PROVE  /\ Append(k, Lower[n]) \in Seq(Key) /\ Append(k, Lower[n]) # <<>>
         /\ Parent(Append(k, Lower[n])) = k /\ Base(Append(k, Lower[n])) = Lower[n]
<1>1. Lower[n] \in Key
  BY DEF Key
<1>. DEFINE c == Append(k, Lower[n])
<1>2. /\ c \in Seq(Key) /\ Len(c) = Len(k) + 1 /\ Len(k) \in Nat /\ c[Len(k) + 1] = Lower[n]
      /\ \A i \in 1..Len(k) : c[i] = k[i]
  BY <1>1
<1>3. c # <<>>
  BY <1>2
<1>. HIDE DEF c
<1>4. /\ Parent(c) \in Seq(Key) /\ Len(Parent(c)) = Len(c) - 1
      /\ \A i \in 1..Len(c) - 1 : Parent(c)[i] = c[i]
  BY <1>2, <1>3, ParentProperties
<1>5. Parent(c) = k
  <2>1. Len(Parent(c)) = Len(k) /\ \A i \in 1..Len(Parent(c)) : Parent(c)[i] = k[i]
    BY <1>2, <1>4
  <2>. QED  BY <1>4, <2>1, SameSequence
<1>6. Base(c) = Lower[n]
  BY <1>2 DEF Base
<1>. QED  BY <1>2, <1>3, <1>5, <1>6 DEF c

\* Keys of the same name in the same directory are one.
LEMMA ChildIsOne ==
  ASSUME NEW k \in Seq(Key), NEW n \in Name, NEW c \in Seq(Key), c # <<>>,
         Parent(c) = k, Base(c) = Lower[n]
  PROVE  c = Append(k, Lower[n])
<1>. DEFINE q == Append(k, Lower[n])
<1>1. q \in Seq(Key) /\ q # <<>> /\ Parent(q) = k /\ Base(q) = Lower[n]
  BY ChildKey
<1>. HIDE DEF q
<1>2. c = q
  BY <1>1, SameKey
<1>. QED  BY <1>2 DEF q

\* A name that is removed from the disk, and whose item is marked, leaves the
\* rest as it was known.
LEMMA RemovedNames ==
  ASSUME NEW t, GoodTree(t), Keyed(t), NEW m, NEW d, IsDisk(d), FdMapGood(m, d), OneKey(m),
         NamesKept(t, m, d), NEW p \in DOMAIN t, p # <<>>,
         NEW a \in DOMAIN d, a = At(m, Parent(t[p].real)), NEW b, b = Base(t[p].real),
         NEW e, e = Unbound(d, a, b),
         NEW u, \A k : k \in DOMAIN u <=> k \in DOMAIN t,
         \A k \in DOMAIN t : k # p => u[k] = t[k],
         u[p].deleted, u[p].type = t[p].type, u[p].real = t[p].real
  PROVE  NamesKept(u, m, e)
<1>1. \A g \in DOMAIN d : \A n : StepTo(e, g, n) = IF g = a /\ n = b THEN NoFd ELSE StepTo(d, g, n)
  BY UnboundSteps
<1>2. DOMAIN e = DOMAIN d /\ \A x \in DOMAIN d : e[x].kind = d[x].kind
  <2>1. IsDisk(e) /\ Len(e) = Len(d) /\ KeepsInodes(d, e)
    BY UnboundDisk
  <2>2. DOMAIN d = 1..Len(d) /\ DOMAIN e = 1..Len(e)
    BY <2>1, DiskParts
  <2>. QED  BY <2>1, <2>2 DEF KeepsInodes
<1>3. \A k \in DOMAIN t : u[k].type = t[k].type /\ u[k].real = t[k].real
  OBVIOUS
<1>4. <<>> \in DOMAIN t
  BY DEF GoodTree, Sound, IsTree
<1>5. InDirs(t) /\ DirsOpen(t, m) /\ FilesLed(t, m, d) /\ NamesKnown(t, m, d) /\ CaseFree(d)
  BY DEF NamesKept
<1>6. InDirs(u)
  <2>1. \A k \in DOMAIN t : k # <<>> => Parent(k) \in DOMAIN t
    BY ItemKeys
  <2>. QED  BY <1>3, <1>4, <1>5, <2>1 DEF InDirs
<1>7. DirsOpen(u, m)
  BY <1>3, <1>5 DEF DirsOpen
<1>8. CaseFree(e)
  BY <1>1, <1>2, <1>5 DEF CaseFree
<1>9. \A k \in DOMAIN t : Home(u, k) = Home(t, k)
  BY <1>3 DEF Home
<1>10. FilesLed(u, m, e)
  <2>. SUFFICES ASSUME NEW k \in DOMAIN u, k # <<>>, u[k].type # "dir", ~u[k].deleted
                PROVE  FileLed(m, e, u[k].real)
    BY DEF FilesLed
  <2>. DEFINE r == t[k].real
  <2>1. k \in DOMAIN t /\ k # p /\ u[k] = t[k]
    OBVIOUS
  <2>2. FileLed(m, d, r)
    BY <1>5, <2>1 DEF FilesLed
  <2>3. /\ k \in Seq(Key) /\ Parent(k) \in Seq(Key) /\ KeyedReal(Parent(k), Parent(r))
        /\ Lower[Base(r)] = Base(k)
    BY <2>1, ItemKeys
  <2>4. /\ p \in Seq(Key) /\ Parent(p) \in Seq(Key) /\ KeyedReal(Parent(p), Parent(t[p].real))
        /\ Lower[b] = Base(p)
    BY ItemKeys
  <2>5. ~(At(m, Parent(r)) = a /\ Base(r) = b)
    <3>. SUFFICES ASSUME At(m, Parent(r)) = a, Base(r) = b  PROVE FALSE
      OBVIOUS
    <3>. HIDE DEF r
    <3>1. Parent(k) = Parent(p)
      BY <2>3, <2>4, OneHome
    <3>2. Base(k) = Base(p)
      BY <2>3, <2>4
    <3>. QED  BY <2>1, <2>3, <2>4, <3>1, <3>2, SameKey
  <2>. QED  BY <1>1, <1>2, <2>1, <2>2, <2>5, StepToType DEF FileLed
<1>11. NamesKnown(u, m, e)
  <2>. SUFFICES ASSUME NEW k \in DOMAIN u, NEW n \in Name, NEW h, h = At(m, Home(t, k)),
                       h \in DOMAIN d, StepTo(e, h, n) # NoFd
                PROVE  Known(u, m, e, k, n)
    BY <1>2, <1>9 DEF NamesKnown
  <2>. DEFINE c == Append(k, Lower[n])
  <2>1. ~(h = a /\ n = b) /\ StepTo(e, h, n) = StepTo(d, h, n)
    BY <1>1
  <2>2. Known(t, m, d, k, n)
    BY <1>5, <2>1 DEF NamesKnown
  <2>3. c \in DOMAIN t /\ Home(u, k) = Home(t, k) /\ Home(u, c) = Home(t, c)
    BY <1>9, <2>2 DEF Known
  <2>4. StepTo(d, h, n) \in DOMAIN d
    BY <2>1, StepToEntries
  <2>5. OpenAbove(u, m, c) <=> OpenAbove(t, m, c)
    BY <2>3 DEF OpenAbove
  <2>6. c = p => ~(At(m, Parent(t[c].real)) = h /\ Base(t[c].real) = n)
    BY <2>1
  <2>7. c # p => u[c] = t[c]
    BY <2>3
  <2>8. u[c].type = t[c].type
    BY <1>3, <2>3
  <2>9. d[StepTo(d, h, n)].kind = "dir" => OpenAbove(t, m, c)
    BY <2>2 DEF Known
  <2>10. \/ ~t[c].deleted /\ At(m, Parent(t[c].real)) = h /\ Base(t[c].real) = n
         \/ HasUpper /\ t[c].type = "dir" /\ OpenAbove(t, m, c)
    BY <2>2 DEF Known
  <2>11. e[StepTo(e, h, n)].kind = d[StepTo(d, h, n)].kind
    BY <1>2, <2>1, <2>4
  <2>12. \/ ~u[c].deleted /\ At(m, Parent(u[c].real)) = h /\ Base(u[c].real) = n
         \/ HasUpper /\ u[c].type = "dir" /\ OpenAbove(u, m, c)
    BY <2>5, <2>6, <2>7, <2>8, <2>10
  <2>13. At(m, Home(u, k)) = h /\ c \in DOMAIN u
    BY <2>3
  <2>. HIDE DEF c
  <2>. QED  BY <2>5, <2>9, <2>11, <2>12, <2>13 DEF Known, c
<1>. QED  BY <1>6, <1>7, <1>8, <1>10, <1>11 DEF NamesKept

\* rename reads the map with operator[]: a key that was missing is there.
LEMMA TouchedNames ==
  ASSUME NEW t, NEW m, NEW d, IsDisk(d), NamesKept(t, m, d), NEW u,
         \A s : At(m, s) # NoFd => At(u, s) = At(m, s),
         \A s : At(m, s) = NoFd => At(u, s) = NoFd \/ At(u, s) = Stdin
  PROVE  NamesKept(t, u, d)
<1>1. NoFd \notin DOMAIN d /\ Stdin \notin DOMAIN d /\ NoFd # Stdin
  BY NoFdNotThere
<1>. HIDE DEF NoFd, Stdin
<1>2. InDirs(t) /\ DirsOpen(t, m) /\ FilesLed(t, m, d) /\ NamesKnown(t, m, d) /\ CaseFree(d)
  BY DEF NamesKept
<1>3. \A s : At(u, s) \in DOMAIN d => At(u, s) = At(m, s)
  BY <1>1
<1>4. DirsOpen(t, u)
  <2>1. \A s : At(u, s) # NoFd /\ At(u, s) # Stdin => At(u, s) = At(m, s)
    OBVIOUS
  <2>. QED  BY <1>2, <2>1 DEF DirsOpen
<1>5. FilesLed(t, u, d)
  <2>1. \A r : FileLed(m, d, r) => FileLed(u, d, r)
    BY <1>1 DEF FileLed
  <2>. QED  BY <1>2, <2>1 DEF FilesLed
<1>6. NamesKnown(t, u, d)
  <2>. SUFFICES ASSUME NEW k \in DOMAIN t, NEW n \in Name, NEW h, h = At(u, Home(t, k)),
                       h \in DOMAIN d, StepTo(d, h, n) # NoFd
                PROVE  Known(t, u, d, k, n)
    BY DEF NamesKnown
  <2>. DEFINE c == Append(k, Lower[n])
  <2>1. h = At(m, Home(t, k))
    BY <1>3
  <2>2. Known(t, m, d, k, n)
    BY <1>2, <2>1 DEF NamesKnown
  <2>3. OpenAbove(t, m, c) => OpenAbove(t, u, c)
    BY DEF OpenAbove
  <2>4. \A s : At(m, s) = h => At(u, s) = h
    BY <1>1
  <2>5. c \in DOMAIN t /\ (d[StepTo(d, h, n)].kind = "dir" => OpenAbove(t, m, c))
    BY <2>1, <2>2 DEF Known
  <2>6. \/ ~t[c].deleted /\ At(m, Parent(t[c].real)) = h /\ Base(t[c].real) = n
        \/ HasUpper /\ t[c].type = "dir" /\ OpenAbove(t, m, c)
    BY <2>1, <2>2 DEF Known
  <2>. HIDE DEF c
  <2>7. \/ ~t[c].deleted /\ At(u, Parent(t[c].real)) = h /\ Base(t[c].real) = n
        \/ HasUpper /\ t[c].type = "dir" /\ OpenAbove(t, u, c)
    BY <2>3, <2>4, <2>6
  <2>. QED  BY <2>3, <2>5, <2>7 DEF Known, c
<1>. QED  BY <1>2, <1>4, <1>5, <1>6 DEF NamesKept

\* An item that is marked and no directory can go.
LEMMA DroppedNames ==
  ASSUME NEW t, GoodTree(t), Keyed(t), NEW m, NEW d, IsDisk(d), NamesKept(t, m, d),
         NEW f \in DOMAIN t, f # <<>>, t[f].deleted, t[f].type # "dir",
         NEW u, \A k : k \in DOMAIN u <=> k \in DOMAIN t /\ k # f,
         \A k \in DOMAIN u : u[k] = t[k]
  PROVE  NamesKept(u, m, d)
<1>1. InDirs(t) /\ DirsOpen(t, m) /\ FilesLed(t, m, d) /\ NamesKnown(t, m, d) /\ CaseFree(d)
  BY DEF NamesKept
<1>2. <<>> \in DOMAIN t
  BY DEF GoodTree, Sound, IsTree
<1>3. \A k \in DOMAIN t : k # <<>> => Parent(k) \in DOMAIN t /\ Parent(k) # f
  BY <1>1, ItemKeys DEF InDirs
<1>4. InDirs(u)
  BY <1>1, <1>2, <1>3 DEF InDirs
<1>5. DirsOpen(u, m)
  BY <1>1 DEF DirsOpen
<1>6. FilesLed(u, m, d)
  BY <1>1 DEF FilesLed
<1>7. NamesKnown(u, m, d)
  <2>1. \A k \in DOMAIN u : Home(u, k) = Home(t, k)
    BY DEF Home
  <2>. SUFFICES ASSUME NEW k \in DOMAIN u, NEW n \in Name, NEW h, h = At(m, Home(t, k)),
                       h \in DOMAIN d, StepTo(d, h, n) # NoFd
                PROVE  Known(u, m, d, k, n)
    BY <2>1 DEF NamesKnown
  <2>. DEFINE c == Append(k, Lower[n])
  <2>2. Known(t, m, d, k, n)
    BY <1>1 DEF NamesKnown
  <2>3. c \in DOMAIN t /\ c # f
    BY <2>2 DEF Known
  <2>4. c \in DOMAIN u /\ u[c] = t[c] /\ Home(u, c) = Home(t, c) /\ Home(u, k) = Home(t, k)
    BY <2>1, <2>3
  <2>5. OpenAbove(u, m, c) <=> OpenAbove(t, m, c)
    BY <2>4 DEF OpenAbove
  <2>. QED  BY <2>2, <2>4, <2>5 DEF Known
<1>. QED  BY <1>1, <1>4, <1>5, <1>6, <1>7 DEF NamesKept

\* In the home of a directory no name on disk has the key of an item that is
\* missing, or marked and no directory.
LEMMA NoNameOfGone ==
  ASSUME NEW t, NEW m, NEW d, NamesKnown(t, m, d),
         NEW k \in DOMAIN t, NEW h \in DOMAIN d, h = At(m, Home(t, k)), NEW n \in Name,
         LET c == Append(k, Lower[n])
         IN  c \in DOMAIN t => t[c].deleted /\ t[c].type # "dir"
  PROVE  \A x \in Name : Lower[x] = Lower[n] => StepTo(d, h, x) = NoFd
<1>. SUFFICES ASSUME NEW x \in Name, Lower[x] = Lower[n], StepTo(d, h, x) # NoFd  PROVE FALSE
  OBVIOUS
<1>. DEFINE c == Append(k, Lower[x])
<1>1. Known(t, m, d, k, x)
  BY DEF NamesKnown
<1>2. c \in DOMAIN t => t[c].deleted /\ t[c].type # "dir"
  OBVIOUS
<1>. QED  BY <1>1, <1>2 DEF Known

\* The paths of two keys differ to the map.
LEMMA OtherKey ==
  \A q, c \in Seq(Key) : \A r, s :
    KeyedReal(q, s) /\ KeyedReal(c, r) /\ q # c => RealKey(s) # RealKey(r)
BY KeyedSame

\* Those of one key below one directory do not.
LEMMA SamePlace ==
  \A k \in Seq(Key) : \A r, s : KeyedReal(k, r) /\ KeyedReal(k, s) /\ r[1] = s[1] =>
    \A m : At(m, r) = At(m, s)
BY SameHandle

\* The name n of h comes to i, which is new or a file that is renamed.
Brought(d, e, h, n, i, isDir) ==
  /\ IsDisk(e)
  /\ \A x : x \in DOMAIN e <=> x \in DOMAIN d \/ x = i
  /\ \A x \in DOMAIN d : e[x].kind = d[x].kind
  /\ (e[i].kind = "dir" <=> isDir) /\ (isDir => i \notin DOMAIN d)
  /\ \A g \in DOMAIN d : \A y :
       StepTo(e, g, y) = IF g = h /\ y = n THEN i ELSE StepTo(d, g, y)
  /\ i \notin DOMAIN d => \A y : StepTo(e, i, y) = NoFd

\* The item c comes to the real path r.
ShownAs(t, u, c, r, isDir) ==
  /\ \A q : q \in DOMAIN u <=> q \in DOMAIN t \/ q = c
  /\ \A q \in DOMAIN t : q # c => u[q] = t[q]
  /\ ~u[c].deleted /\ u[c].real = r /\ (u[c].type = "dir" <=> isDir)

\* A directory is kept open with the real path r.
KeptAs(m, w, r, i, isDir) ==
  /\ \A s : RealKey(s) # RealKey(r) => At(w, s) = At(m, s)
  /\ isDir => At(w, r) = i
  /\ ~isDir => w = m

\* A name that comes to the home of a directory, with its item: of a file, or
\* of a new directory that is kept open.
LEMMA BoundNames ==
  ASSUME NEW t, GoodTree(t), Keyed(t), NEW m, NEW d, IsDisk(d), FdMapGood(m, d), OneKey(m),
         NamesKept(t, m, d), NEW k \in DOMAIN t, t[k].type = "dir",
         NEW h \in DOMAIN d, h = At(m, Home(t, k)), NEW n \in Name,
         NEW c, c = Append(k, Lower[n]), c \in DOMAIN t => t[c].deleted /\ t[c].type # "dir",
         NEW isDir \in BOOLEAN, NEW i, NEW e, Brought(d, e, h, n, i, isDir),
         NEW r, KeyedReal(c, r), At(m, Parent(r)) = h, Base(r) = n, HasUpper => r[1] = UpperDir,
         NEW u, ShownAs(t, u, c, r, isDir), NEW w, KeptAs(m, w, r, i, isDir)
  PROVE  NamesKept(u, w, e)
<1>0. /\ IsDisk(e)
      /\ \A x : x \in DOMAIN e <=> x \in DOMAIN d \/ x = i
      /\ \A x \in DOMAIN d : e[x].kind = d[x].kind
      /\ (e[i].kind = "dir" <=> isDir) /\ (isDir => i \notin DOMAIN d)
      /\ \A g \in DOMAIN d : \A y :
           StepTo(e, g, y) = IF g = h /\ y = n THEN i ELSE StepTo(d, g, y)
      /\ i \notin DOMAIN d => \A y : StepTo(e, i, y) = NoFd
      /\ \A q : q \in DOMAIN u <=> q \in DOMAIN t \/ q = c
      /\ \A q \in DOMAIN t : q # c => u[q] = t[q]
      /\ ~u[c].deleted /\ u[c].real = r /\ (u[c].type = "dir" <=> isDir)
      /\ \A s : RealKey(s) # RealKey(r) => At(w, s) = At(m, s)
      /\ isDir => At(w, r) = i
      /\ ~isDir => w = m
  BY DEF Brought, ShownAs, KeptAs
<1>. USE <1>0
<1>1. InDirs(t) /\ DirsOpen(t, m) /\ FilesLed(t, m, d) /\ NamesKnown(t, m, d) /\ CaseFree(d)
  BY DEF NamesKept
<1>2. /\ k \in Seq(Key) /\ c \in Seq(Key) /\ c # <<>> /\ Parent(c) = k /\ Base(c) = Lower[n]
      /\ c # k
  <2>1. k \in Seq(Key)
    BY ItemKeys
  <2>2. c \in Seq(Key) /\ c # <<>> /\ Parent(c) = k /\ Base(c) = Lower[n]
    BY <2>1, ChildKey
  <2>3. Len(c) \in Nat \ {0} /\ Len(Parent(c)) = Len(c) - 1
    BY <2>2, ParentProperties
  <2>. QED  BY <2>1, <2>2, <2>3
<1>3. NoFd \notin DOMAIN e /\ Stdin \notin DOMAIN e /\ i # NoFd /\ NoFd # Stdin
  BY NoFdNotThere
<1>. HIDE DEF NoFd, Stdin
<1>4. <<>> \in DOMAIN t /\ \A q \in DOMAIN t : q # <<>> => Parent(q) \in DOMAIN t /\ Parent(q) # c
  <2>1. <<>> \in DOMAIN t /\ \A q \in DOMAIN t : q # <<>> => Parent(q) \in DOMAIN t
    BY ItemKeys DEF GoodTree, Sound, IsTree
  <2>. QED  BY <1>1, <2>1 DEF InDirs
<1>5. \A x \in Name : Lower[x] = Lower[n] => StepTo(d, h, x) = NoFd
  BY <1>1, NoNameOfGone
<1>6. \A q \in DOMAIN t : q # c => q \in Seq(Key) /\ KeyedReal(q, t[q].real)
  BY ItemKeys
<1>7. \A q \in Seq(Key) : \A s : q # c /\ KeyedReal(q, s) => At(w, s) = At(m, s)
  <2>. SUFFICES ASSUME NEW q \in Seq(Key), NEW s, q # c, KeyedReal(q, s)
                PROVE  RealKey(s) # RealKey(r)
    OBVIOUS
  <2>1. c \in Seq(Key)
    BY <1>2
  <2>. QED  BY <2>1, OtherKey
<1>8. \A q \in DOMAIN t : q # c =>
        Home(u, q) = Home(t, q) /\ At(w, Home(u, q)) = At(m, Home(t, q))
  <2>. SUFFICES ASSUME NEW q \in DOMAIN t, q # c
                PROVE  Home(u, q) = Home(t, q) /\ At(w, Home(u, q)) = At(m, Home(t, q))
    OBVIOUS
  <2>1. Home(u, q) = Home(t, q)
    BY DEF Home
  <2>2. q \in Seq(Key) /\ KeyedReal(q, Home(t, q))
    BY <1>6, HomeKeyed
  <2>. QED  BY <1>7, <2>1, <2>2
<1>9. \A q \in DOMAIN t : q # <<>> /\ q # c =>
        At(w, Parent(u[q].real)) = At(m, Parent(t[q].real))
  <2>. SUFFICES ASSUME NEW q \in DOMAIN t, q # <<>>, q # c
                PROVE  At(w, Parent(t[q].real)) = At(m, Parent(t[q].real))
    OBVIOUS
  <2>1. Parent(q) \in Seq(Key) /\ KeyedReal(Parent(q), Parent(t[q].real)) /\ Parent(q) # c
    BY <1>4, ItemKeys
  <2>. QED  BY <1>7, <2>1
<1>10. At(w, Parent(r)) = h
  <2>1. KeyedReal(k, Parent(r))
    BY <1>2, KeyedParent
  <2>. QED  BY <1>2, <1>7, <2>1
<1>11. \A s : At(m, s) \in DOMAIN e => At(m, s) \in DOMAIN d
  BY <1>3, HandleType
<1>12. InDirs(u)
  <2>1. u[<<>>] = t[<<>>] /\ u[k] = t[k]
    BY <1>2, <1>4
  <2>2. \A q \in DOMAIN t : q # <<>> => u[Parent(q)] = t[Parent(q)]
    BY <1>4
  <2>3. t[<<>>].type = "dir" /\ \A q \in DOMAIN t : q # <<>> => t[Parent(q)].type = "dir"
    BY <1>1 DEF InDirs
  <2>4. u[<<>>].type = "dir" /\ u[k].type = "dir"
    BY <2>1, <2>3
  <2>5. \A q \in DOMAIN u : q # <<>> => u[Parent(q)].type = "dir"
    <3>. SUFFICES ASSUME NEW q \in DOMAIN u, q # <<>>  PROVE u[Parent(q)].type = "dir"
      OBVIOUS
    <3>1. CASE q = c
      BY <1>2, <2>4, <3>1
    <3>2. CASE q # c
      BY <2>2, <2>3, <3>2
    <3>. QED  BY <3>1, <3>2
  <2>. QED  BY <2>4, <2>5 DEF InDirs
<1>13. DirsOpen(u, w)
  <2>. SUFFICES ASSUME NEW q \in Seq(Key), NEW s, KeyedReal(q, s),
                       At(w, s) # NoFd, At(w, s) # Stdin
                PROVE  q \in DOMAIN u /\ u[q].type = "dir"
    BY DEF DirsOpen
  <2>1. CASE q = c /\ isDir
    BY <2>1
  <2>2. CASE q = c /\ ~isDir
    BY <1>1, <2>2 DEF DirsOpen
  <2>3. CASE q # c
    BY <1>1, <1>7, <2>3 DEF DirsOpen
  <2>. QED  BY <2>1, <2>2, <2>3
<1>14. CaseFree(e)
  <2>. SUFFICES ASSUME NEW g \in DOMAIN e, NEW x \in Name, NEW y \in Name,
                       StepTo(e, g, x) # NoFd, StepTo(e, g, y) # NoFd, Lower[x] = Lower[y]
                PROVE  x = y
    BY DEF CaseFree
  <2>1. g \in DOMAIN d
    OBVIOUS
  <2>2. CASE g = h /\ (x = n \/ y = n)
    BY <1>5, <2>1, <2>2
  <2>3. CASE ~(g = h /\ (x = n \/ y = n))
    BY <1>1, <2>1, <2>3 DEF CaseFree
  <2>. QED  BY <2>2, <2>3
<1>15. FilesLed(u, w, e)
  <2>. SUFFICES ASSUME NEW q \in DOMAIN u, q # <<>>, u[q].type # "dir", ~u[q].deleted
                PROVE  FileLed(w, e, u[q].real)
    BY DEF FilesLed
  <2>1. CASE q = c
    <3>1. StepTo(e, h, n) = i /\ h \in DOMAIN e
      OBVIOUS
    <3>. QED  BY <1>3, <1>10, <2>1, <3>1 DEF FileLed
  <2>2. CASE q # c
    <3>. DEFINE g == At(m, Parent(t[q].real))
                b == Base(t[q].real)
    <3>1. q \in DOMAIN t /\ u[q] = t[q] /\ b \in Name
      BY <2>2, ItemKeys
    <3>2. FileLed(m, d, t[q].real)
      BY <1>1, <3>1 DEF FilesLed
    <3>3. g \in DOMAIN d /\ StepTo(d, g, b) # NoFd /\ d[StepTo(d, g, b)].kind # "dir"
      BY <3>2 DEF FileLed
    <3>4. At(w, Parent(u[q].real)) = g
      BY <1>9, <2>2, <3>1
    <3>. HIDE DEF g, b
    <3>5. ~(g = h /\ b = n)
      BY <1>5, <3>1, <3>3
    <3>6. StepTo(e, g, b) = StepTo(d, g, b) /\ StepTo(d, g, b) \in DOMAIN d
      BY <3>3, <3>5, StepToEntries
    <3>7. g \in DOMAIN e /\ e[StepTo(e, g, b)].kind # "dir" /\ StepTo(e, g, b) # NoFd
      BY <3>3, <3>6
    <3>8. Base(u[q].real) = b
      BY <3>1 DEF b
    <3>. QED  BY <3>4, <3>7, <3>8 DEF FileLed
  <2>. QED  BY <2>1, <2>2
<1>16. NamesKnown(u, w, e)
  <2>. SUFFICES ASSUME NEW q \in DOMAIN u, NEW y \in Name, NEW g, g = At(w, Home(u, q)),
                       g \in DOMAIN e, StepTo(e, g, y) # NoFd
                PROVE  Known(u, w, e, q, y)
    BY DEF NamesKnown
  <2>1. CASE q = c
    <3>1. KeyedReal(c, Home(u, c)) /\ Home(u, c)[1] = r[1]
      <4>1. CASE HasUpper
        <5>1. Home(u, c) = <<UpperDir>> \o c /\ Home(t, c) = <<UpperDir>> \o c
          BY <4>1 DEF Home
        <5>2. KeyedReal(c, Home(t, c))
          BY <1>2, <4>1, HomeKeyed
        <5>3. (<<UpperDir>> \o c)[1] = UpperDir
          BY <1>2
        <5>. QED  BY <4>1, <5>1, <5>2, <5>3
      <4>2. CASE ~HasUpper
        BY <4>2 DEF Home
      <4>. QED  BY <4>1, <4>2
    <3>2. \A v : At(v, Home(u, c)) = At(v, r)
      <4>1. c \in Seq(Key) /\ KeyedReal(c, r)
        BY <1>2
      <4>. QED  BY ONLY <3>1, <4>1, SamePlace
    <3>3. CASE isDir
      BY <2>1, <3>2, <3>3
    <3>4. CASE ~isDir
      <4>1. At(m, r) = g /\ c \in Seq(Key)
        BY <1>2, <2>1, <3>2, <3>4
      <4>2. At(m, r) # NoFd /\ At(m, r) # Stdin
        BY <1>3, <4>1
      <4>3. c \in DOMAIN t /\ t[c].type = "dir"
        BY <1>1, <4>1, <4>2, Zenon DEF DirsOpen
      <4>. QED  BY <4>3
    <3>. QED  BY <3>3, <3>4
  <2>2. CASE q # c
    <3>1. q \in DOMAIN t /\ q \in Seq(Key) /\ g = At(m, Home(t, q)) /\ g \in DOMAIN d
      BY <1>6, <1>8, <1>11, <2>2
    <3>2. CASE g = h /\ y = n
      <4>1. q = k
        <5>1. KeyedReal(q, Home(t, q)) /\ KeyedReal(k, Home(t, k))
          BY <1>2, <3>1, HomeKeyed
        <5>2. At(m, Home(t, q)) = At(m, Home(t, k)) /\ At(m, Home(t, q)) \in DOMAIN d
          BY <3>1, <3>2
        <5>3. /\ k \in Seq(Key) /\ q \in Seq(Key)
              /\ OneKey(m) /\ FdMapGood(m, d) /\ IsDisk(d)
          BY <1>2, <3>1
        <5>. QED  BY ONLY <5>1, <5>2, <5>3, OneHome
      <4>2. c = Append(q, Lower[y])
        BY <3>2, <4>1
      <4>3. ~u[c].deleted /\ At(w, Parent(u[c].real)) = g /\ Base(u[c].real) = y
        BY <1>10, <3>2
      <4>4. e[StepTo(e, g, y)].kind = "dir" => OpenAbove(u, w, c)
        <5>. SUFFICES ASSUME isDir, HasUpper  PROVE At(w, Home(u, c)) # NoFd
          BY <3>1, <3>2 DEF OpenAbove
        <5>1. Home(u, c) = <<UpperDir>> \o c /\ Home(t, c) = <<UpperDir>> \o c
          BY DEF Home
        <5>2. KeyedReal(c, Home(t, c)) /\ c \in Seq(Key)
          <6>1. c \in Seq(Key)
            BY <1>2
          <6>. QED  BY <6>1, HomeKeyed, Zenon
        <5>3. (<<UpperDir>> \o c)[1] = UpperDir
          BY <5>2
        <5>4. Home(u, c)[1] = r[1] /\ KeyedReal(c, Home(u, c))
          BY <5>1, <5>2, <5>3
        <5>5. At(w, Home(u, c)) = At(w, r)
          <6>1. KeyedReal(c, r)
            OBVIOUS
          <6>. QED  BY ONLY <5>2, <5>4, <6>1, SamePlace
        <5>. QED  BY <1>3, <5>5
      <4>. QED  BY <4>2, <4>3, <4>4 DEF Known
    <3>3. CASE ~(g = h /\ y = n)
      <4>. DEFINE x == Append(q, Lower[y])
      <4>1. StepTo(e, g, y) = StepTo(d, g, y) /\ StepTo(d, g, y) \in DOMAIN d
        BY <3>1, <3>3, StepToEntries
      <4>2. Known(t, m, d, q, y)
        BY <1>1, <3>1, <4>1 DEF NamesKnown
      <4>3. x \in Seq(Key) /\ x # <<>> /\ Parent(x) = q /\ Base(x) = Lower[y]
        BY <3>1, ChildKey
      <4>4. x # c
        <5>. SUFFICES ASSUME x = c  PROVE FALSE
          OBVIOUS
        <5>1. q = k /\ Lower[y] = Lower[n]
          BY <1>2, <4>3
        <5>. QED  BY <1>5, <3>1, <4>1, <5>1
      <4>5. /\ x \in DOMAIN t
            /\ d[StepTo(d, g, y)].kind = "dir" => OpenAbove(t, m, x)
            /\ \/ ~t[x].deleted /\ At(m, Parent(t[x].real)) = g /\ Base(t[x].real) = y
               \/ HasUpper /\ t[x].type = "dir" /\ OpenAbove(t, m, x)
        BY <3>1, <4>2 DEF Known
      <4>. HIDE DEF x
      <4>6. u[x] = t[x] /\ (OpenAbove(u, w, x) <=> OpenAbove(t, m, x))
        BY <1>8, <4>4, <4>5 DEF OpenAbove
      <4>7. At(w, Parent(u[x].real)) = At(m, Parent(t[x].real))
        BY <1>9, <4>3, <4>4, <4>5
      <4>8. /\ x \in DOMAIN u
            /\ e[StepTo(e, g, y)].kind = "dir" => OpenAbove(u, w, x)
            /\ \/ ~u[x].deleted /\ At(w, Parent(u[x].real)) = g /\ Base(u[x].real) = y
               \/ HasUpper /\ u[x].type = "dir" /\ OpenAbove(u, w, x)
        BY <4>1, <4>5, <4>6, <4>7
      <4>. QED  BY <4>8 DEF Known, x
    <3>. QED  BY <3>2, <3>3
  <2>. QED  BY <2>1, <2>2
<1>. QED  BY <1>12, <1>13, <1>14, <1>15, <1>16 DEF NamesKept

\* A directory of the tree that is opened, and made for it, in the upper one.
LEMMA OpenedNames ==
  ASSUME HasUpper, NEW t, GoodTree(t), Keyed(t),
         NEW m, NEW d, IsDisk(d), FdMapGood(m, d), OneKey(m), NamesKept(t, m, d),
         NEW c \in DOMAIN t, c # <<>>, t[c].type = "dir",
         NEW r, KeyedReal(c, r), r[1] = UpperDir, At(m, r) = NoFd,
         NEW h \in DOMAIN d, h = At(m, Parent(r)), NEW n, n = Base(r),
         \A x \in Name : Lower[x] = Lower[n] => StepTo(d, h, x) = NoFd,
         NEW i, NEW e, IsDisk(e), i \notin DOMAIN d,
         \A x : x \in DOMAIN e <=> x \in DOMAIN d \/ x = i,
         \A x \in DOMAIN d : e[x].kind = d[x].kind,
         \A g \in DOMAIN d : \A y :
           StepTo(e, g, y) = IF g = h /\ y = n THEN i ELSE StepTo(d, g, y),
         \A y : StepTo(e, i, y) = NoFd,
         NEW w, At(w, r) = i, \A s : RealKey(s) # RealKey(r) => At(w, s) = At(m, s)
  PROVE  NamesKept(t, w, e)
<1>1. InDirs(t) /\ DirsOpen(t, m) /\ FilesLed(t, m, d) /\ NamesKnown(t, m, d) /\ CaseFree(d)
  BY DEF NamesKept
<1>2. /\ c \in Seq(Key) /\ Parent(c) \in DOMAIN t /\ Parent(c) \in Seq(Key)
      /\ KeyedReal(Parent(c), Parent(r)) /\ n \in Name /\ Lower[n] = Base(c)
      /\ Parent(c) # c
  <2>1. c \in Seq(Key) /\ Parent(c) \in DOMAIN t
    BY ItemKeys
  <2>2. Len(c) \in Nat \ {0} /\ Len(Parent(c)) = Len(c) - 1
    BY <2>1, ParentProperties
  <2>. QED  BY <2>1, <2>2, KeyedParent
<1>3. NoFd \notin DOMAIN e /\ Stdin \notin DOMAIN e /\ i # NoFd
  BY NoFdNotThere
<1>. HIDE DEF NoFd, Stdin
<1>4. \A q \in Seq(Key) : \A s : q # c /\ KeyedReal(q, s) => At(w, s) = At(m, s)
  <2>. SUFFICES ASSUME NEW q \in Seq(Key), NEW s, q # c, KeyedReal(q, s)
                PROVE  RealKey(s) # RealKey(r)
    OBVIOUS
  <2>. QED  BY <1>2, OtherKey
<1>5. \A q \in DOMAIN t : q \in Seq(Key) /\ KeyedReal(q, Home(t, q))
  BY ItemKeys, HomeKeyed
<1>6. \A q \in DOMAIN t : q # c => At(w, Home(t, q)) = At(m, Home(t, q))
  BY <1>4, <1>5
<1>7. At(w, Home(t, c)) = i
  <2>1. Home(t, c)[1] = r[1]
    <3>1. (<<UpperDir>> \o c)[1] = UpperDir
      BY <1>2
    <3>. QED  BY <3>1 DEF Home
  <2>2. KeyedReal(c, Home(t, c)) /\ KeyedReal(c, r) /\ c \in Seq(Key)
    BY <1>2, <1>5
  <2>3. At(w, Home(t, c)) = At(w, r)
    BY ONLY <2>1, <2>2, SamePlace
  <2>. QED  BY <2>3
<1>8. \A s : At(m, s) \in DOMAIN d => At(w, s) = At(m, s)
  <2>1. \A s : RealKey(s) = RealKey(r) => At(m, s) = At(m, r)
    BY DEF At
  <2>. QED  BY <1>3, <2>1
<1>9. \A s : At(m, s) \in DOMAIN e => At(m, s) \in DOMAIN d
  <2>1. \A s : At(m, s) \in DOMAIN d \cup {NoFd, Stdin}
    BY HandleType
  <2>. QED  BY <1>3, <2>1
<1>10. DirsOpen(t, w)
  BY <1>1, <1>4 DEF DirsOpen
<1>11. CaseFree(e)
  <2>. SUFFICES ASSUME NEW g \in DOMAIN e, NEW x \in Name, NEW y \in Name,
                       StepTo(e, g, x) # NoFd, StepTo(e, g, y) # NoFd, Lower[x] = Lower[y]
                PROVE  x = y
    BY DEF CaseFree
  <2>1. g \in DOMAIN d
    OBVIOUS
  <2>2. CASE g = h /\ (x = n \/ y = n)
    BY <2>1, <2>2
  <2>3. CASE ~(g = h /\ (x = n \/ y = n))
    BY <1>1, <2>1, <2>3 DEF CaseFree
  <2>. QED  BY <2>2, <2>3
<1>12. FilesLed(t, w, e)
  <2>. SUFFICES ASSUME NEW q \in DOMAIN t, q # <<>>, t[q].type # "dir", ~t[q].deleted
                PROVE  FileLed(w, e, t[q].real)
    BY DEF FilesLed
  <2>. DEFINE g == At(m, Parent(t[q].real))
              b == Base(t[q].real)
  <2>1. FileLed(m, d, t[q].real)
    BY <1>1 DEF FilesLed
  <2>2. g \in DOMAIN d /\ StepTo(d, g, b) # NoFd /\ d[StepTo(d, g, b)].kind # "dir"
    BY <2>1 DEF FileLed
  <2>3. At(w, Parent(t[q].real)) = g
    BY <1>8, <2>2
  <2>. HIDE DEF g
  <2>4. b \in Name
    BY ItemKeys
  <2>5. ~(g = h /\ b = n)
    BY <2>2, <2>4
  <2>6. StepTo(e, g, b) = StepTo(d, g, b) /\ StepTo(d, g, b) \in DOMAIN d
    BY <2>2, <2>5, StepToEntries
  <2>. QED  BY <2>2, <2>3, <2>6 DEF FileLed
<1>13. NamesKnown(t, w, e)
  <2>. SUFFICES ASSUME NEW q \in DOMAIN t, NEW y \in Name, NEW g, g = At(w, Home(t, q)),
                       g \in DOMAIN e, StepTo(e, g, y) # NoFd
                PROVE  Known(t, w, e, q, y)
    BY DEF NamesKnown
  <2>1. q # c /\ g = At(m, Home(t, q)) /\ g \in DOMAIN d
    BY <1>6, <1>7, <1>9
  <2>2. \A x \in DOMAIN t : OpenAbove(t, m, x) => OpenAbove(t, w, x)
    BY <1>3, <1>6, <1>7 DEF OpenAbove
  <2>3. q \in Seq(Key)
    BY <1>5
  <2>4. CASE g = h /\ y = n
    <3>1. q = Parent(c)
      <4>1. KeyedReal(q, Home(t, q)) /\ KeyedReal(Parent(c), Parent(r))
        BY <1>2, <1>5
      <4>2. At(m, Home(t, q)) = At(m, Parent(r)) /\ At(m, Home(t, q)) \in DOMAIN d
        BY <2>1, <2>4
      <4>3. /\ q \in Seq(Key) /\ Parent(c) \in Seq(Key)
            /\ OneKey(m) /\ FdMapGood(m, d) /\ IsDisk(d)
        BY <1>2, <2>3
      <4>. QED  BY ONLY <4>1, <4>2, <4>3, OneHome
    <3>2. c = Append(q, Lower[y])
      BY <1>2, <2>4, <3>1, ChildIsOne
    <3>3. OpenAbove(t, w, c)
      BY <1>3, <1>7 DEF OpenAbove
    <3>. QED  BY <3>2, <3>3 DEF Known
  <2>5. CASE ~(g = h /\ y = n)
    <3>. DEFINE x == Append(q, Lower[y])
    <3>1. StepTo(e, g, y) = StepTo(d, g, y) /\ StepTo(d, g, y) \in DOMAIN d
      BY <2>1, <2>5, StepToEntries
    <3>2. Known(t, m, d, q, y)
      BY <1>1, <2>1, <3>1 DEF NamesKnown
    <3>3. /\ x \in DOMAIN t
          /\ d[StepTo(d, g, y)].kind = "dir" => OpenAbove(t, m, x)
          /\ \/ ~t[x].deleted /\ At(m, Parent(t[x].real)) = g /\ Base(t[x].real) = y
             \/ HasUpper /\ t[x].type = "dir" /\ OpenAbove(t, m, x)
      BY <2>1, <3>2 DEF Known
    <3>. HIDE DEF x
    <3>4. At(m, Parent(t[x].real)) = g => At(w, Parent(t[x].real)) = g
      BY <1>8, <2>1
    <3>5. e[StepTo(e, g, y)].kind = d[StepTo(d, g, y)].kind
      BY <3>1
    <3>. QED  BY <2>2, <3>3, <3>4, <3>5 DEF Known, x
  <2>. QED  BY <2>4, <2>5
<1>. QED  BY <1>1, <1>10, <1>11, <1>12, <1>13 DEF NamesKept

\* createParentDir() makes the directory in its home only where no name on disk
\* differs from it in case alone: the item would be of that directory.
LEMMA ParentDirNames ==
  ASSUME KInv, NEW k \in DOMAIN tree, tree[k].type = "dir", k # <<>> => ~tree[k].deleted,
         NEW real, KeyedReal(k, real), HasUpper => real[1] = UpperDir,
         HasUpper /\ At(fdMap, real) = NoFd => k # <<>>,
         NEW fails, ~fails, NEW in, in = ParentDir(real, fails)
  PROVE  NamesKept(tree, in.fdMap, in.disk)
<1>. DEFINE fd == At(fdMap, real)
            h == At(fdMap, Parent(real))
            n == Base(real)
            err == MakeError(disk, h, n)
            e == Made(disk, h, n, "dir")
            w == Opened(fdMap, Parent(real), n, Len(e))
            i == Len(disk) + 1
<1>1. in = IF fd # NoFd \/ ~HasUpper
           THEN [err |-> "ok", fd |-> fd, disk |-> disk, fdMap |-> fdMap]
           ELSE IF err # "ok" THEN [err |-> err, fd |-> NoFd, disk |-> disk, fdMap |-> fdMap]
           ELSE IF fails THEN [err |-> "EMFILE", fd |-> NoFd, disk |-> e, fdMap |-> fdMap]
           ELSE [err |-> "ok", fd |-> Len(e), disk |-> e, fdMap |-> w]
  BY Zenon DEF ParentDir, HasUpper
<1>2. /\ IsDisk(disk) /\ GivenDirs(disk) /\ FdMapGood(fdMap, disk) /\ OneKey(fdMap)
      /\ GoodTree(tree) /\ Keyed(tree) /\ Apart(disk)
      /\ DirsLed(tree, fdMap, disk) /\ NamesKept(tree, fdMap, disk)
  BY DEF KInv, LInv, IInv
<1>3. ASSUME fd = NoFd, HasUpper, err = "ok"
      PROVE  NamesKept(tree, w, e)
  <2>1. k # <<>> /\ k \in Seq(Key) /\ ~tree[k].deleted
    BY <1>2, <1>3, ItemKeys
  <2>2. /\ n \in Name /\ Lower[n] = Base(k) /\ Len(real) # 1 /\ IsRealPath(real)
        /\ Parent(k) \in DOMAIN tree /\ Parent(k) \in Seq(Key)
        /\ KeyedReal(Parent(k), Parent(real))
    BY <1>2, <2>1, KeyedParent, ItemKeys DEF KeyedReal
  <2>3. Append(Parent(real), n) = real
    BY <2>2, SplitAgain
  <2>4. h = NoFd \/ h = Stdin \/ (h \in DOMAIN disk /\ disk[h].kind = "dir")
    BY <1>2 DEF At, FdMapGood
  <2>5. "dir" \in NodeKinds
    BY DEF NodeKinds
  <2>6. w = Put(fdMap, real, Len(e))
    BY <2>3 DEF Opened
  <2>7. Parent(real)[1] = UpperDir
    BY <1>3, <2>2, RealPathParent
  <2>. HIDE DEF n, h, err, w, fd
  <2>8. /\ IsDisk(e) /\ Len(e) = i /\ KeepsInodes(disk, e) /\ h \in DOMAIN disk /\ i # NoFd
        /\ StepTo(disk, h, n) = NoFd
    <3>1. err = "ok" /\ err = MakeError(disk, h, n) /\ e = Made(disk, h, n, "dir")
      BY <1>3 DEF err
    <3>. HIDE DEF e
    <3>2. n \notin Entries(disk, h)
      BY <3>1 DEF MakeError
    <3>. QED  BY <1>2, <2>2, <2>4, <2>5, <3>1, <3>2, MadeGrows, MadeDisk DEF StepTo
  <2>9. /\ \A x : x \in DOMAIN e <=> x \in DOMAIN disk \/ x = i
        /\ i \notin DOMAIN disk
        /\ \A g \in DOMAIN disk : \A y :
             StepTo(e, g, y) = IF g = h /\ y = n THEN i ELSE StepTo(disk, g, y)
        /\ \A y : StepTo(e, i, y) = NoFd
    BY <1>2, <2>2, <2>5, <2>8, MadeSteps
  <2>10. \A x \in DOMAIN disk : e[x].kind = disk[x].kind
    BY <2>8 DEF KeepsInodes
  <2>11. At(w, real) = i /\ \A s : RealKey(s) # RealKey(real) => At(w, s) = At(fdMap, s)
    BY <2>6, <2>8, PutParts
  <2>. HIDE DEF e, i
  <2>12. \A x \in Name : Lower[x] = Lower[n] => StepTo(disk, h, x) = NoFd
    <3>. SUFFICES ASSUME NEW x \in Name, Lower[x] = Lower[n], StepTo(disk, h, x) # NoFd
                  PROVE  FALSE
      OBVIOUS
    <3>1. /\ KeyedReal(Parent(k), Home(tree, Parent(k)))
          /\ KeyedReal(k, Home(tree, k))
      BY <1>2, <2>1, <2>2, HomeKeyed
    <3>2. Home(tree, Parent(k))[1] = Parent(real)[1] /\ Home(tree, k)[1] = real[1]
      <4>1. \A q \in Seq(Key) : (<<UpperDir>> \o q)[1] = UpperDir
        OBVIOUS
      <4>. QED  BY <1>3, <2>1, <2>2, <2>7, <4>1 DEF Home
    <3>3. At(fdMap, Home(tree, Parent(k))) = h
      <4>1. KeyedReal(Parent(k), Parent(real)) /\ Parent(k) \in Seq(Key)
        BY <2>2
      <4>. QED  BY ONLY <3>1, <3>2, <4>1, SamePlace DEF h
    <3>4. At(fdMap, Home(tree, k)) = NoFd
      <4>1. KeyedReal(k, real) /\ k \in Seq(Key)
        BY <2>1
      <4>2. At(fdMap, Home(tree, k)) = At(fdMap, real)
        BY ONLY <3>1, <3>2, <4>1, SamePlace
      <4>. QED  BY <1>3, <4>2 DEF fd
    <3>5. Known(tree, fdMap, disk, Parent(k), x)
      BY <1>2, <2>2, <2>8, <3>3 DEF NamesKept, NamesKnown
    <3>6. k = Append(Parent(k), Lower[x])
      BY <2>1, <2>2, ChildIsOne
    <3>7. ~OpenAbove(tree, fdMap, k)
      BY <1>3, <3>4 DEF OpenAbove
    <3>8. /\ At(fdMap, Parent(tree[k].real)) = h /\ Base(tree[k].real) = x
          /\ disk[StepTo(disk, h, x)].kind # "dir"
      BY <3>3, <3>5, <3>6, <3>7 DEF Known
    <3>9. Led(fdMap, disk, tree[k].real)
      BY <1>2, <2>1 DEF DirsLed
    <3>10. StepTo(disk, h, x) = At(fdMap, tree[k].real) /\ StepTo(disk, h, x) \in DOMAIN disk
      BY <1>2, <2>8, <3>8, <3>9, StepToEntries DEF Led
    <3>11. disk[At(fdMap, tree[k].real)].kind = "dir"
      <4>1. At(fdMap, tree[k].real) # NoFd /\ At(fdMap, tree[k].real) # Stdin
        BY <1>2, <3>10, NoFdNotThere
      <4>. QED  BY <1>2, <4>1 DEF At, FdMapGood
    <3>. QED  BY <3>8, <3>10, <3>11
  <2>13. At(fdMap, real) = NoFd /\ h = At(fdMap, Parent(real)) /\ n = Base(real)
    BY <1>3 DEF fd, h, n
  <2>14. real[1] = UpperDir /\ HasUpper /\ KeyedReal(k, real) /\ tree[k].type = "dir"
         /\ k # <<>> /\ k \in DOMAIN tree /\ h \in DOMAIN disk /\ IsDisk(e)
    BY <1>3, <2>1, <2>8
  <2>. QED  BY ONLY <1>2, <2>9, <2>10, <2>11, <2>12, <2>13, <2>14, OpenedNames
<1>. HIDE DEF fd, h, n, err, e, w
<1>4. CASE fd # NoFd \/ ~HasUpper \/ err # "ok"
  <2>1. in.disk = disk /\ in.fdMap = fdMap
    BY <1>1, <1>4
  <2>. QED  BY <1>2, <2>1
<1>5. CASE fd = NoFd /\ HasUpper /\ err = "ok"
  <2>1. in.disk = e /\ in.fdMap = w
    BY <1>1, <1>5
  <2>. QED  BY <1>3, <1>5, <2>1
<1>. QED  BY <1>4, <1>5

\* The real path that mkdir, create and rename take for a directory is kept
\* open as its home.
LEMMA AtHome ==
  ASSUME NEW t, GoodTree(t), Keyed(t), NEW k \in DOMAIN t, NEW r, KeyedReal(k, r),
         IF HasUpper THEN r[1] = UpperDir ELSE r = t[k].real
  PROVE  \A m : At(m, Home(t, k)) = At(m, r)
<1>1. k \in Seq(Key) /\ KeyedReal(k, r)
  BY ItemKeys
<1>2. KeyedReal(k, Home(t, k))
  BY <1>1, HomeKeyed
<1>3. Home(t, k)[1] = r[1]
  <2>1. (<<UpperDir>> \o k)[1] = UpperDir
    BY <1>1
  <2>. QED  BY <2>1 DEF Home
<1>. QED  BY ONLY <1>1, <1>2, <1>3, SamePlace

\* add() leaves an item that is not marked.
LEMMA AddedShown ==
  ASSUME NEW t, GoodTree(t), NEW p, NEW real, NEW type
  PROVE  ~Added(t, p, real, type)[Fold(p)].deleted
<1>. DEFINE k == Fold(p)
            item == IF k \in DOMAIN t THEN Revived(t[k], real) ELSE NewItem(Base(p), real, type)
<1>1. Added(t, p, real, type) = [q \in DOMAIN t \cup {k} |-> IF q # k THEN t[q] ELSE item]
  BY Zenon DEF Added
<1>2. k \in DOMAIN t => t[k] \in Item(Real)
  BY DEF GoodTree, Sound, IsTree
<1>. HIDE DEF k
<1>3. ~item.deleted
  BY <1>2 DEF Revived, Item, NewItem
<1>. HIDE DEF item
<1>4. Added(t, p, real, type)[k] = item
  BY <1>1
<1>. QED  BY <1>3, <1>4 DEF k

\* What is made in the home of a directory, and added to the tree.
LEMMA MadeNames ==
  ASSUME NEW t, GoodTree(t), Keyed(t), NEW m, NEW d, IsDisk(d), FdMapGood(m, d), OneKey(m),
         NamesKept(t, m, d), NEW p \in Paths, p # <<>>,
         NEW k \in DOMAIN t, k = Parent(Fold(p)), t[k].type = "dir",
         Fold(p) \in DOMAIN t => t[Fold(p)].deleted /\ t[Fold(p)].type # "dir",
         NEW r, KeyedReal(k, r), IF HasUpper THEN r[1] = UpperDir ELSE r = t[k].real,
         NEW h \in DOMAIN d, h = At(m, r),
         NEW isDir \in BOOLEAN, isDir => Fold(p) \notin DOMAIN t,
         NEW type \in Type, type = "dir" <=> isDir, NEW kind \in NodeKinds, kind = "dir" <=> isDir,
         NEW e, e = Made(d, h, Base(p), kind), NEW i, i = Len(d) + 1,
         NEW real, real = Append(r, Base(p)), NEW u, u = Added(t, p, real, type),
         NEW w, isDir => w = Put(m, real, i), ~isDir => w = m
  PROVE  NamesKept(u, w, e)
<1>. DEFINE n == Base(p)
            c == Fold(p)
<1>1. n \in Name /\ c \in Seq(Key) /\ c # <<>> /\ Base(c) = Lower[n] /\ k \in Seq(Key)
  <2>1. p \in Seq(Name) /\ n \in Name /\ c \in Seq(Key) /\ c # <<>>
    BY PathParts
  <2>2. Base(c) = Lower[n]
    BY <2>1, FoldBase
  <2>. QED  BY <2>1, <2>2, ItemKeys
<1>2. c = Append(k, Lower[n])
  BY <1>1, ChildIsOne
<1>3. KeyedReal(c, real)
  <2>1. p \in Seq(Name)
    BY PathParts
  <2>. QED  BY <2>1, KeyedChild
<1>4. /\ IsRealPath(r) /\ Parent(real) = r /\ Base(real) = n
      /\ HasUpper => real[1] = UpperDir
  <2>1. IsRealPath(r)
    BY DEF KeyedReal
  <2>2. Len(r) \in Nat /\ Len(r) > 0
    BY <2>1 DEF IsRealPath
  <2>3. Parent(real) = r /\ Base(real) = n /\ real[1] = r[1]
    BY <1>1, <2>1, <2>2, PathAndName
  <2>. QED  BY <2>1, <2>3
<1>5. h = At(m, Home(t, k))
  BY AtHome
<1>6. real \in Real
  BY <1>3 DEF KeyedReal, IsRealPath
<1>7. /\ \A q : q \in DOMAIN u <=> q \in DOMAIN t \/ q = c
      /\ \A q \in DOMAIN t : q # c => u[q] = t[q]
      /\ u[c].real = real
      /\ c \in DOMAIN t => u[c].type = t[c].type
      /\ c \notin DOMAIN t => u[c].type = type
  <2>1. GoodTree(t) /\ u = Added(t, p, real, type) /\ type \in Type
    OBVIOUS
  <2>. QED  BY ONLY <1>6, <2>1, AddedItems DEF c
<1>8. ~u[c].deleted /\ (u[c].type = "dir" <=> isDir)
  BY <1>7, AddedShown
<1>9. /\ \A x : x \in DOMAIN e <=> x \in DOMAIN d \/ x = i
      /\ i \notin DOMAIN d /\ e[i].kind = kind
      /\ \A g \in DOMAIN d : \A y :
           StepTo(e, g, y) = IF g = h /\ y = n THEN i ELSE StepTo(d, g, y)
      /\ \A y : StepTo(e, i, y) = NoFd
  BY <1>1, MadeSteps
<1>10. IsDisk(e) /\ KeepsInodes(d, e)
  BY <1>1, MadeDisk
<1>11. \A x \in DOMAIN d : e[x].kind = d[x].kind
  BY <1>10 DEF KeepsInodes
<1>12. /\ \A s : RealKey(s) # RealKey(real) => At(w, s) = At(m, s)
       /\ isDir => At(w, real) = i
  BY PutParts
<1>. HIDE DEF n, c
<1>13. c \in DOMAIN t => t[c].deleted /\ t[c].type # "dir"
  BY DEF c
<1>14. Brought(d, e, h, n, i, isDir)
  BY <1>9, <1>10, <1>11 DEF Brought
<1>15. ShownAs(t, u, c, real, isDir) /\ KeptAs(m, w, real, i, isDir)
  BY <1>7, <1>8, <1>12 DEF ShownAs, KeptAs
<1>16. /\ GoodTree(t) /\ Keyed(t) /\ IsDisk(d) /\ FdMapGood(m, d) /\ OneKey(m)
       /\ NamesKept(t, m, d) /\ k \in DOMAIN t /\ t[k].type = "dir" /\ h \in DOMAIN d
       /\ isDir \in BOOLEAN /\ At(m, Parent(real)) = h /\ Base(real) = n
       /\ HasUpper => real[1] = UpperDir
  BY <1>4
<1>17. n \in Name
  BY <1>1
<1>. QED  BY ONLY <1>2, <1>3, <1>5, <1>13, <1>14, <1>15, <1>16, <1>17, BoundNames

\* What getattr says of an item of the tree, where it does not cut the path: a
\* directory is one on disk, and what is none is none there.
LEMMA LookupOf ==
  ASSUME KInv, NEW p, ~Cut(p), Visible(tree, p), NEW item, item = tree[Fold(p)]
  PROVE  /\ item.type = "dir" =>
              /\ Lookup(p).id = At(fdMap, item.real)
              /\ Lookup(p).err = IF At(fdMap, item.real) = NoFd THEN "EBADF" ELSE "ok"
         /\ item.type # "dir" => Lookup(p).err = "ok" /\ KindOf(Lookup(p).id) # "dir"
<1>. DEFINE k == Fold(p)
            own == At(fdMap, item.real)
            h == At(fdMap, Parent(item.real))
            n == Base(item.real)
            err == EntryError(disk, h, n)
<1>6. Attributes(p) =
        IF ~Visible(tree, p) THEN [err |-> "ENOENT", id |-> NoFd]
        ELSE IF item.type = "dir"
             THEN [err |-> IF own = NoFd THEN "EBADF" ELSE "ok", id |-> own]
             ELSE [err |-> err, id |-> IF err = "ok" THEN disk[h].names[n] ELSE NoFd]
  BY Zenon DEF Attributes
<1>1. Lookup(p) =
        IF ~Visible(tree, p) THEN [err |-> "ENOENT", id |-> NoFd]
        ELSE IF item.type = "dir"
             THEN [err |-> IF own = NoFd THEN "EBADF" ELSE "ok", id |-> own]
             ELSE [err |-> err, id |-> IF err = "ok" THEN disk[h].names[n] ELSE NoFd]
  <2>. HIDE DEF own, h, n, err
  <2>. QED  BY <1>6, Zenon DEF Lookup
<1>2. /\ k \in DOMAIN tree /\ item = tree[k] /\ (k # <<>> => ~item.deleted)
      /\ InDirs(tree) /\ FilesLed(tree, fdMap, disk) /\ IsDisk(disk)
  BY DEF KInv, NamesKept, LInv, IInv, Visible, Present
<1>. HIDE DEF k, own, h, n
<1>3. item.type = "dir" => Lookup(p) = [err |-> IF own = NoFd THEN "EBADF" ELSE "ok", id |-> own]
  BY <1>1
<1>4. ASSUME item.type # "dir"  PROVE Lookup(p).err = "ok" /\ KindOf(Lookup(p).id) # "dir"
  <2>1. FileLed(fdMap, disk, item.real)
    BY <1>2, <1>4 DEF InDirs, FilesLed
  <2>2. h \in DOMAIN disk /\ StepTo(disk, h, n) # NoFd /\ disk[StepTo(disk, h, n)].kind # "dir"
    BY <2>1 DEF FileLed, h, n
  <2>3. n \in Entries(disk, h) /\ StepTo(disk, h, n) = disk[h].names[n]
    BY <1>2, <2>2, StepToEntries
  <2>4. h # NoFd /\ h # Stdin
    BY <1>2, <2>2, NoFdNotThere
  <2>5. err = "ok"
    BY <2>3, <2>4 DEF EntryError, FdError
  <2>. HIDE DEF err
  <2>6. Lookup(p) = [err |-> "ok", id |-> disk[h].names[n]]
    BY <1>1, <1>4, <2>5
  <2>7. Lookup(p).id = StepTo(disk, h, n) /\ Lookup(p).err = "ok"
    BY <2>3, <2>6
  <2>. QED  BY <2>2, <2>7 DEF KindOf
<1>5. item.type = "dir" =>
        Lookup(p).id = own /\ Lookup(p).err = IF own = NoFd THEN "EBADF" ELSE "ok"
  BY <1>3
<1>. QED  BY <1>4, <1>5 DEF own

\* A path getattr knows nothing of has no item that is shown.
LEMMA LookupMissing ==
  ASSUME KInv, NEW p, ~Cut(p), Lookup(p).err = "ENOENT"
  PROVE  ~Visible(tree, p)
BY LookupOf

\* Where processes see a directory the tree has one.
LEMMA SeenDir ==
  ASSUME KInv, "stale" \notin Workload, NEW p, ~Cut(p), "dir" \in Sees(p)
  PROVE  Visible(tree, p) /\ Fold(p) \in DOMAIN tree /\ tree[Fold(p)].type = "dir"
<1>1. Shows(p, "dir")
  BY DEF Sees, Cached
<1>2. Lookup(p).err = "ok" /\ KindOf(Lookup(p).id) = "dir"
  BY <1>1 DEF Shows
<1>3. Visible(tree, p)
  <2>1. ~Visible(tree, p) => Lookup(p) = [err |-> "ENOENT", id |-> NoFd]
    BY Zenon DEF Lookup, Attributes
  <2>2. ~Visible(tree, p) => Lookup(p).err = "ENOENT"
    BY <2>1
  <2>. QED  BY <1>2, <2>2
<1>4. tree[Fold(p)].type = "dir"
  BY <1>2, <1>3, LookupOf
<1>. QED  BY <1>3, <1>4 DEF Visible, Present

\* Where they see something else it has none.
LEMMA SeenOther ==
  ASSUME KInv, "stale" \notin Workload, NEW p \in Paths, p # <<>>, ~Cut(p), Visible(tree, p),
         NEW kind \in Sees(p), kind # "dir"
  PROVE  tree[Fold(p)].type # "dir"
<1>1. Shows(p, kind)
  BY DEF Sees, Cached
<1>2. Lookup(p).err = "ok" /\ KindOf(Lookup(p).id) # "dir"
  BY <1>1 DEF Shows
<1>. SUFFICES ASSUME tree[Fold(p)].type = "dir"  PROVE FALSE
  OBVIOUS
<1>3. Lookup(p).id = At(fdMap, tree[Fold(p)].real)
  BY LookupOf
<1>4. Fold(p) # <<>> /\ Fold(p) \in DOMAIN tree /\ ~tree[Fold(p)].deleted
  BY PathParts DEF Visible, Present
<1>5. LET r == tree[Fold(p)].real
      IN  At(fdMap, r) \in DOMAIN disk /\ disk[At(fdMap, r)].kind = "dir" /\ At(fdMap, r) # Stdin
  BY <1>4, DirItem DEF KInv
<1>. QED  BY <1>2, <1>3, <1>5 DEF KindOf

\* Before a handler is called for a path its parent has been walked.
LEMMA WalkedParent ==
  ASSUME KInv, "stale" \notin Workload, NEW p \in Paths, ~NamesDirectory(p), Walkable(p)
  PROVE  /\ p # <<>> /\ Visible(tree, Parent(p))
         /\ Parent(Fold(p)) \in DOMAIN tree /\ tree[Parent(Fold(p))].type = "dir"
         /\ Parent(Fold(p)) # <<>> => ~tree[Parent(Fold(p))].deleted
<1>1. p # <<>> /\ p \in Seq(Name) /\ Fold(Parent(p)) = Parent(Fold(p))
  BY PathParts DEF Walkable
<1>2. Len(p) \in Nat \ {0}
  BY <1>1, EmptySeq
<1>3. "dir" \in Sees(Parent(p))
  <2>1. Len(p) - 1 \in 0..Len(p) - 1
    BY <1>2
  <2>. QED  BY <2>1 DEF Walkable, Parent
<1>. QED  BY <1>1, <1>3, SeenDir, UncutNames DEF Visible

\* The real paths mkdir and create take for a parent are those of its home.
LEMMA NewRealHome ==
  ASSUME NEW p \in Paths, p # <<>>
  PROVE  /\ IF HasUpper THEN NewRealParent(p)[1] = UpperDir
            ELSE NewRealParent(p) = tree[Parent(Fold(p))].real
         /\ IF HasUpper THEN CreateRealParent(p)[1] = UpperDir
            ELSE CreateRealParent(p) = tree[Parent(Fold(p))].real
<1>. DEFINE k == Parent(Fold(p))
            q == FilePath(tree, k)
<1>1. Fold(Parent(p)) = k /\ Parent(p) \in Seq(Name)
  BY PathParts
<1>2. NewRealParent(p) = IF ~HasUpper THEN tree[k].real ELSE <<UpperDir>> \o q
  BY <1>1, Zenon DEF NewRealParent, HasUpper
<1>3. CreateRealParent(p) = IF ~HasUpper THEN tree[k].real ELSE <<UpperDir>> \o Parent(p)
  BY <1>1, Zenon DEF CreateRealParent, HasUpper
<1>4. k \in Seq(Key)
  BY PathParts, ParentProperties
<1>5. Len(q) \in Nat /\ q = [i \in 1..Len(q) |-> q[i]]
  <2>1. Len(k) \in Nat
    BY <1>4
  <2>. HIDE DEF k
  <2>2. Len(q) = Len(k)
    BY <2>1 DEF FilePath
  <2>. QED  BY <2>1, <2>2 DEF FilePath
<1>. HIDE DEF q, k
<1>6. (<<UpperDir>> \o q)[1] = UpperDir
  <2>1. q \in Seq({q[i] : i \in 1..Len(q)})
    BY <1>5
  <2>. QED  BY <2>1
<1>7. (<<UpperDir>> \o Parent(p))[1] = UpperDir
  BY <1>1
<1>. QED  BY <1>2, <1>3, <1>6, <1>7 DEF k

\* mkdir, where no item was.
LEMMA MkdirNewNames ==
  ASSUME KInv, "stale" \notin Workload, NEW p \in Paths, ~NamesDirectory(p), Walkable(p),
         NEW parentFails, ~parentFails, NEW fails, ~fails, MkdirNew(p, parentFails, fails)
  PROVE  NamesKept(tree', fdMap', disk')
<1>. DEFINE realParent == NewRealParent(p)
            n == Base(p)
            k == Fold(p)
            real == Append(realParent, n)
            in == ParentDir(realParent, parentFails)
            err == IF in.err # "ok" THEN in.err ELSE MakeError(in.disk, in.fd, n)
            made == Made(in.disk, in.fd, n, "dir")
            i == Len(in.disk) + 1
            opened == Opened(in.fdMap, realParent, n, i)
            added == AddError(tree, p, FALSE)
            u == Added(tree, p, real, "dir")
<1>1. /\ p # <<>> /\ Visible(tree, Parent(p)) /\ k \notin DOMAIN tree
      /\ Parent(k) \in DOMAIN tree /\ tree[Parent(k)].type = "dir"
      /\ Parent(k) # <<>> => ~tree[Parent(k)].deleted
  BY WalkedParent DEF MkdirNew, Present
<1>2. LInv /\ GoodTree(tree) /\ Keyed(tree)
  BY DEF KInv, LInv, IInv
<1>3. /\ Parent(k) \in Seq(Key) /\ KeyedReal(Parent(k), realParent)
      /\ HasUpper /\ At(fdMap, realParent) = NoFd => Parent(k) # <<>>
  BY <1>1, <1>2, NewRealParentKeyed
<1>4. IF HasUpper THEN realParent[1] = UpperDir ELSE realParent = tree[Parent(k)].real
  BY <1>1, NewRealHome
<1>5. /\ disk' = IF err = "ok" THEN made ELSE in.disk
      /\ \/ /\ err # "ok"
            /\ fdMap' = in.fdMap
            /\ Reply("mkdir", p, p, err)
            /\ UNCHANGED tree
         \/ /\ err = "ok" /\ fails
            /\ fdMap' = in.fdMap
            /\ Reply("mkdir", p, p, "EMFILE")
            /\ UNCHANGED tree
         \/ /\ err = "ok" /\ ~fails
            /\ fdMap' = opened
            /\ IF added = "ok"
               THEN tree' = u /\ Reply("mkdir", p, p, "ok")
               ELSE Reply("mkdir", p, p, "EIO") /\ UNCHANGED tree
  BY Zenon DEF MkdirNew
<1>6. added = "ok"
  BY <1>1 DEF AddError, Visible, Present
<1>. HIDE DEF realParent, k
<1>7. /\ IsDisk(in.disk) /\ FdMapGood(in.fdMap, in.disk) /\ OneKey(in.fdMap)
      /\ in.err = "ok" => in.fd = At(in.fdMap, realParent)
  BY <1>2, <1>3, ParentDirLeads
<1>8. NamesKept(tree, in.fdMap, in.disk)
  BY <1>1, <1>3, <1>4, ParentDirNames
<1>. HIDE DEF in, n
<1>9. err = "ok" => in.err = "ok" /\ MakeError(in.disk, in.fd, n) = "ok"
  OBVIOUS
<1>10. opened = Put(in.fdMap, real, i)
  BY DEF Opened
<1>. HIDE DEF err, opened, added, made, i, u
<1>11. CASE err # "ok"
  <2>1. disk' = in.disk /\ fdMap' = in.fdMap /\ tree' = tree
    BY <1>5, <1>11
  <2>. QED  BY <1>8, <2>1
<1>12. CASE err = "ok"
  <2>1. disk' = made /\ fdMap' = opened /\ tree' = u
    BY <1>5, <1>6, <1>12
  <2>2. in.fd = At(in.fdMap, realParent) /\ FdError(in.fd) = "ok"
    BY <1>7, <1>9, <1>12 DEF MakeError
  <2>3. in.fd \in DOMAIN in.disk
    BY <1>7, <2>2, HandleType
  <2>. DEFINE c == Parent(k)
              m == in.fdMap
              d == in.disk
              h == in.fd
  <2>4. TRUE \in BOOLEAN /\ "dir" \in Type /\ "dir" \in NodeKinds
    BY DEF Type, NodeKinds
  <2>5. /\ made = Made(d, h, Base(p), "dir") /\ i = Len(d) + 1 /\ real = Append(realParent, Base(p))
        /\ u = Added(tree, p, real, "dir") /\ opened = Put(m, real, i)
    BY <1>10 DEF made, i, u, n
  <2>6. c = Parent(Fold(p)) /\ Fold(p) \notin DOMAIN tree /\ p # <<>> /\ p \in Paths
    BY <1>1 DEF k
  <2>7. /\ c \in DOMAIN tree /\ tree[c].type = "dir" /\ h \in DOMAIN d /\ h = At(m, realParent)
        /\ KeyedReal(c, realParent)
        /\ IF HasUpper THEN realParent[1] = UpperDir ELSE realParent = tree[c].real
    BY <1>1, <1>3, <1>4, <2>2, <2>3
  <2>8. NamesKept(tree, m, d) /\ IsDisk(d) /\ FdMapGood(m, d) /\ OneKey(m)
    BY <1>7, <1>8
  <2>. HIDE DEF c, m, d, h, real
  <2>9. NamesKept(u, opened, made)
    BY ONLY <1>2, <2>4, <2>5, <2>6, <2>7, <2>8, MadeNames
  <2>. QED  BY <2>1, <2>9
<1>. QED  BY <1>11, <1>12

\* create: a name on disk there would have an item that is shown, or be of a
\* directory; so the file is a new one.
LEMMA CreateFileNames ==
  ASSUME KInv, "stale" \notin Workload, NEW p \in Paths, ~NamesDirectory(p), Walkable(p),
         ~Visible(tree, p),
         Present(tree, p) => tree[Fold(p)].type = "file",
         NEW excl, NEW parentFails, ~parentFails, CreateFile(p, excl, parentFails)
  PROVE  NamesKept(tree', fdMap', disk')
<1>. DEFINE realParent == CreateRealParent(p)
            n == Base(p)
            k == Fold(p)
            real == Append(realParent, n)
            in == ParentDir(realParent, parentFails)
            err == IF in.err # "ok" THEN in.err ELSE OpenCreateError(in.disk, in.fd, n, excl)
            made == Made(in.disk, in.fd, n, "file")
            i == Len(in.disk) + 1
            opened == disk'[in.fd].names[n]
            added == AddError(tree, p, FALSE)
            u == Added(tree, p, real, "file")
<1>1. /\ p # <<>> /\ Visible(tree, Parent(p))
      /\ Parent(k) \in DOMAIN tree /\ tree[Parent(k)].type = "dir"
      /\ Parent(k) # <<>> => ~tree[Parent(k)].deleted
  BY WalkedParent
<1>2. LInv /\ GoodTree(tree) /\ Keyed(tree)
  BY DEF KInv, LInv, IInv
<1>3. /\ Parent(k) \in Seq(Key) /\ KeyedReal(Parent(k), realParent)
      /\ HasUpper /\ At(fdMap, realParent) = NoFd => Parent(k) # <<>>
  BY <1>1, <1>2, CreateRealParentKeyed
<1>4. IF HasUpper THEN realParent[1] = UpperDir ELSE realParent = tree[Parent(k)].real
  BY <1>1, NewRealHome
<1>5. /\ fdMap' = in.fdMap
      /\ IF err # "ok"
         THEN /\ disk' = in.disk
              /\ Reply("create", p, p, err)
              /\ UNCHANGED tree
         ELSE /\ disk' = IF n \in Entries(in.disk, in.fd) THEN in.disk ELSE made
              /\ IF Visible(tree, p)
                 THEN ReplyWith("create", p, "ok", opened) /\ UNCHANGED tree
                 ELSE /\ tree' = IF added = "ok" THEN u ELSE tree
                      /\ ReplyWith("create", p, added, opened)
  BY Zenon DEF CreateFile
<1>6. added = "ok"
  BY <1>1 DEF AddError, Visible, Present
<1>7. k \in DOMAIN tree => tree[k].deleted /\ tree[k].type # "dir"
  BY <1>1, PathParts DEF Visible, Present
<1>8. n \in Name /\ k = Append(Parent(k), Lower[n])
  <2>1. p \in Seq(Name) /\ n \in Name /\ k \in Seq(Key) /\ k # <<>>
    BY <1>1, PathParts
  <2>2. Base(k) = Lower[n]
    BY <1>1, <2>1, FoldBase
  <2>. HIDE DEF k, n
  <2>. QED  BY <1>3, <2>1, <2>2, ChildIsOne
<1>. HIDE DEF realParent, k
<1>9. /\ IsDisk(in.disk) /\ FdMapGood(in.fdMap, in.disk) /\ OneKey(in.fdMap)
      /\ in.err = "ok" => in.fd = At(in.fdMap, realParent)
  BY <1>2, <1>3, ParentDirLeads
<1>10. NamesKept(tree, in.fdMap, in.disk)
  BY <1>1, <1>3, <1>4, ParentDirNames
<1>11. At(in.fdMap, Home(tree, Parent(k))) = At(in.fdMap, realParent)
  BY <1>1, <1>2, <1>3, <1>4, AtHome
<1>. HIDE DEF in, n
<1>12. err = "ok" => in.err = "ok" /\ OpenCreateError(in.disk, in.fd, n, excl) = "ok"
  OBVIOUS
<1>. HIDE DEF err, opened, added, made, i, u
<1>13. CASE err # "ok"
  <2>1. disk' = in.disk /\ fdMap' = in.fdMap /\ tree' = tree
    BY <1>5, <1>13
  <2>. QED  BY <1>10, <2>1
<1>14. CASE err = "ok"
  <2>1. in.fd = At(in.fdMap, realParent) /\ FdError(in.fd) = "ok"
    <3>1. FdError(in.fd) # "ok" => MakeError(in.disk, in.fd, n) = FdError(in.fd)
      BY DEF MakeError
    <3>2. FdError(in.fd) # "EEXIST"
      BY DEF FdError
    <3>. QED  BY <1>9, <1>12, <1>14, <3>1, <3>2 DEF OpenCreateError
  <2>2. in.fd \in DOMAIN in.disk
    BY <1>9, <2>1, HandleType
  <2>. DEFINE c == Parent(k)
              m == in.fdMap
              d == in.disk
              h == in.fd
  <2>3. n \notin Entries(d, h)
    <3>1. c \in DOMAIN tree /\ h \in DOMAIN d /\ h = At(m, Home(tree, c)) /\ n \in Name
      BY <1>1, <1>8, <1>11, <2>1, <2>2
    <3>2. Append(c, Lower[n]) \in DOMAIN tree =>
            tree[Append(c, Lower[n])].deleted /\ tree[Append(c, Lower[n])].type # "dir"
      BY <1>7, <1>8
    <3>3. NamesKnown(tree, m, d) /\ IsDisk(d)
      BY <1>9, <1>10 DEF NamesKept
    <3>. HIDE DEF c, m, d, h
    <3>4. StepTo(d, h, n) = NoFd
      BY ONLY <3>1, <3>2, <3>3, NoNameOfGone
    <3>. QED  BY <3>1, <3>3, <3>4, StepToEntries
  <2>4. disk' = made /\ fdMap' = in.fdMap /\ tree' = u
    BY <1>5, <1>6, <1>14, <2>3
  <2>5. /\ FALSE \in BOOLEAN /\ "file" \in Type /\ "file" \in NodeKinds
        /\ ("file" = "dir" <=> FALSE)
    BY DEF Type, NodeKinds
  <2>6. /\ made = Made(d, h, Base(p), "file") /\ i = Len(d) + 1 /\ real = Append(realParent, Base(p))
        /\ u = Added(tree, p, real, "file")
    BY DEF made, i, u, n
  <2>7. /\ c = Parent(Fold(p)) /\ p # <<>> /\ p \in Paths
        /\ Fold(p) \in DOMAIN tree => tree[Fold(p)].deleted /\ tree[Fold(p)].type # "dir"
    BY <1>1, <1>7 DEF k
  <2>8. /\ c \in DOMAIN tree /\ tree[c].type = "dir" /\ h \in DOMAIN d /\ h = At(m, realParent)
        /\ KeyedReal(c, realParent)
        /\ IF HasUpper THEN realParent[1] = UpperDir ELSE realParent = tree[c].real
    BY <1>1, <1>3, <1>4, <2>1, <2>2
  <2>9. NamesKept(tree, m, d) /\ IsDisk(d) /\ FdMapGood(m, d) /\ OneKey(m)
    BY <1>9, <1>10
  <2>. HIDE DEF c, d, h, real
  <2>10. NamesKept(u, m, made)
    <3>. HIDE DEF m
    <3>. QED  BY ONLY <1>2, <2>5, <2>6, <2>7, <2>8, <2>9, MadeNames
  <2>. QED  BY <2>4, <2>10
<1>. QED  BY <1>13, <1>14

\* Nothing lies below an item that is no directory.
LEMMA NothingBelow ==
  ASSUME NEW t, GoodTree(t), InDirs(t), NEW k \in DOMAIN t, t[k].type # "dir",
         NEW q \in DOMAIN t, Under(k, q)
  PROVE  q = k
<1>1. /\ k \in Seq(Key) /\ q \in Seq(Key) /\ Len(k) \in Nat /\ Len(q) \in Nat
      /\ Len(k) =< Len(q) /\ \A i \in 1..Len(k) : q[i] = k[i]
  BY DEF GoodTree, Sound, IsTree, Under
<1>. SUFFICES ASSUME q # k  PROVE FALSE
  OBVIOUS
<1>2. Len(k) # Len(q)
  BY <1>1, SameSequence
<1>. DEFINE j == Len(k) + 1
            s == SubSeq(q, 1, j)
<1>3. j \in 0..Len(q) /\ j \in Nat \ {0} /\ Len(k) = j - 1
  BY <1>1, <1>2
<1>4. s \in DOMAIN t /\ Len(s) = j
  BY <1>3, PrefixesPresent DEF GoodTree
<1>5. \A i \in 1..j : s[i] = q[i]
  BY <1>1, <1>3
<1>6. s \in Seq(Key) /\ s # <<>>
  BY <1>3, <1>4 DEF GoodTree, Sound, IsTree
<1>. HIDE DEF s, j
<1>7. /\ Parent(s) \in Seq(Key) /\ Len(Parent(s)) = Len(s) - 1
      /\ \A i \in 1..Len(s) - 1 : Parent(s)[i] = s[i]
  BY <1>6, ParentProperties
<1>8. Len(Parent(s)) = Len(k) /\ \A i \in 1..Len(Parent(s)) : Parent(s)[i] = k[i]
  BY <1>1, <1>3, <1>4, <1>5, <1>7
<1>9. Parent(s) = k
  BY <1>1, <1>7, <1>8, SameSequence
<1>. QED  BY <1>4, <1>6, <1>9 DEF InDirs

\* unlink
LEMMA UnlinkNames ==
  ASSUME KInv, "stale" \notin Workload, NEW p \in Paths, ~NamesDirectory(p), Unlink(p)
  PROVE  NamesKept(tree', fdMap', disk')
<1>. DEFINE at == OnDisk(p)
            err == UnlinkError(disk, at.dir, at.name, FALSE)
            erased == EraseError(tree, p)
            k == Fold(p)
            r == tree[k].real
            h == At(fdMap, Parent(r))
            n == Base(r)
            u == Erased(tree, p, FALSE)
            e == Unbound(disk, h, n)
<1>1. /\ Walkable(p) /\ Sees(p) \ {"dir"} # {}
      /\ IF ~Visible(tree, p)
         THEN Fails("unlink", p, p, "ENOENT")
         ELSE IF err # "ok"
         THEN Fails("unlink", p, p, err)
         ELSE /\ disk' = RemovedFromDisk(p)
              /\ tree' = IF erased = "ok" THEN u ELSE tree
              /\ Reply("unlink", p, p, erased)
              /\ UNCHANGED fdMap
  BY Zenon DEF Unlink
<1>2. /\ GoodTree(tree) /\ IsDisk(disk) /\ Keyed(tree) /\ OneKey(fdMap)
      /\ FdMapGood(fdMap, disk) /\ NamesKept(tree, fdMap, disk)
  BY DEF KInv, LInv, IInv
<1>3. CASE ~Visible(tree, p) \/ err # "ok"
  <2>1. UNCHANGED <<tree, fdMap, disk>>
    BY <1>1, <1>3 DEF Fails
  <2>. QED  BY <1>2, <2>1
<1>4. CASE Visible(tree, p) /\ err = "ok"
  <2>1. p # <<>>
    BY <1>1 DEF Walkable
  <2>2. k \in DOMAIN tree /\ k # <<>> /\ k \in Seq(Key)
    BY <1>4, <2>1, PathParts DEF Visible, Present
  <2>3. tree[k].type # "dir"
    BY <1>1, <1>4, <2>1, SeenOther, UncutNames
  <2>4. erased = "ok"
    <3>1. p \in Seq(Name)
      BY <2>1, PathParts
    <3>. QED  BY <1>2, <1>4, <2>1, <3>1, EraseAllowed DEF GoodTree, Visible
  <2>5. at.dir = h /\ at.name = n
    BY DEF OnDisk
  <2>6. RemovedFromDisk(p) = e
    BY <2>5, Zenon DEF RemovedFromDisk
  <2>7. UnlinkError(disk, h, n, FALSE) = "ok"
    BY <1>4, <2>5, Zenon
  <2>8. disk' = e /\ fdMap' = fdMap /\ tree' = u
    BY <1>1, <1>4, <2>4, <2>6
  <2>9. u = [q \in DOMAIN tree |-> IF Under(k, q) THEN Marked(tree[q], TRUE) ELSE tree[q]]
    BY DEF Erased
  <2>. HIDE DEF h, n, at, err, e, erased, u, k
  <2>10. FdError(h) = "ok"
    <3>1. EntryError(disk, h, n) = "ok"
      BY <2>7 DEF UnlinkError
    <3>. QED  BY <3>1 DEF EntryError
  <2>11. h \in DOMAIN disk
    BY <1>2, <2>10, HandleType DEF h
  <2>12. \A q \in DOMAIN tree : Under(k, q) => q = k
    BY <1>2, <2>2, <2>3, NothingBelow DEF NamesKept
  <2>13. Under(k, k)
    BY <2>2 DEF Under
  <2>14. /\ \A q : q \in DOMAIN u <=> q \in DOMAIN tree
         /\ \A q \in DOMAIN tree : q # k => u[q] = tree[q]
         /\ u[k] = Marked(tree[k], TRUE)
    BY <2>2, <2>9, <2>12, <2>13
  <2>15. u[k].deleted /\ u[k].type = tree[k].type /\ u[k].real = tree[k].real
    <3>1. GoodTree(tree) /\ k \in DOMAIN tree
      BY <1>2, <2>2
    <3>2. /\ Marked(tree[k], TRUE).deleted /\ Marked(tree[k], TRUE).type = tree[k].type
          /\ Marked(tree[k], TRUE).real = tree[k].real
      BY ONLY <3>1, MarkedItem
    <3>. QED  BY <2>14, <3>2
  <2>16. h = At(fdMap, Parent(tree[k].real)) /\ n = Base(tree[k].real) /\ e = Unbound(disk, h, n)
    BY DEF h, n, e
  <2>17. NamesKept(u, fdMap, e)
    BY ONLY <1>2, <2>2, <2>11, <2>14, <2>15, <2>16, RemovedNames
  <2>. QED  BY <2>8, <2>17
<1>. QED  BY <1>3, <1>4

\* rmdir, of a directory with entries or without
LEMMA RmdirNames ==
  ASSUME KInv, NEW p \in Paths, Rmdir(p)
  PROVE  NamesKept(tree', fdMap', disk')
<1>1. /\ LInv /\ GoodTree(tree) /\ IsDisk(disk) /\ Keyed(tree) /\ OneKey(fdMap)
      /\ FdMapGood(fdMap, disk) /\ NamesKept(tree, fdMap, disk)
  BY DEF KInv, LInv, IInv
<1>2. CASE RmdirError(p) # "ok"
  <2>1. UNCHANGED <<tree, fdMap, disk>>
    BY <1>2 DEF Rmdir, Fails
  <2>. QED  BY <1>1, <2>1
<1>3. CASE RmdirError(p) = "ok"
  <2>. DEFINE k == Fold(p)
              u == WithDeleted(tree, k, TRUE)
              r == tree[k].real
              h == At(fdMap, Parent(r))
              n == Base(r)
              e == Unbound(disk, h, n)
  <2>1. /\ disk' = RemovedFromDisk(p) /\ fdMap' = fdMap /\ tree' = u
    BY <1>3 DEF Rmdir
  <2>2. OnDisk(p).dir = h /\ OnDisk(p).name = n
    BY DEF OnDisk
  <2>3. RemovedFromDisk(p) = e
    BY <2>2, Zenon DEF RemovedFromDisk
  <2>4. k \in DOMAIN tree /\ k # <<>> /\ tree[k].type = "dir" /\ ~tree[k].deleted
    <3>1. p # <<>>
      BY DEF Rmdir, Walkable
    <3>2. k # <<>>
      BY <3>1, PathParts
    <3>. QED  BY <1>3, <3>2 DEF RmdirError, Visible, Present
  <2>5. h \in DOMAIN disk
    BY <1>1, <2>4, DirItem
  <2>6. /\ DOMAIN u = DOMAIN tree /\ u[k] = Marked(tree[k], TRUE)
        /\ \A q \in DOMAIN tree : q # k => u[q] = tree[q]
    BY <2>4 DEF WithDeleted
  <2>. HIDE DEF u, k, e, h, n
  <2>7. u[k].deleted /\ u[k].type = tree[k].type /\ u[k].real = tree[k].real
    BY <1>1, <2>4, <2>6, MarkedItem
  <2>8. h = At(fdMap, Parent(tree[k].real)) /\ n = Base(tree[k].real) /\ e = Unbound(disk, h, n)
    BY DEF h, n, e
  <2>9. \A q : q \in DOMAIN u <=> q \in DOMAIN tree
    BY <2>6
  <2>10. NamesKept(u, fdMap, e)
    BY ONLY <1>1, <2>4, <2>5, <2>6, <2>7, <2>8, <2>9, RemovedNames
  <2>. QED  BY <2>1, <2>3, <2>10
<1>. QED  BY <1>2, <1>3

\* A name that is renamed goes where it was, and comes where none was.
LEMMA RenamedBrings ==
  ASSUME NEW d, IsDisk(d), NEW g \in DOMAIN d, NEW h \in DOMAIN d,
         NEW n \in Entries(d, g), NEW m \in Name, StepTo(d, h, m) = NoFd,
         NEW i, i = StepTo(d, g, n), d[i].kind # "dir",
         NEW no \in BOOLEAN, ~no,
         NEW e, e = Renamed(d, g, n, h, m, no), NEW c, c = Unbound(d, g, n)
  PROVE  /\ Brought(c, e, h, m, i, no)
         /\ IsDisk(c) /\ DOMAIN c = DOMAIN d /\ KeepsInodes(d, c)
<1>1. i \in DOMAIN d /\ i # NoFd
  BY StepToEntries
<1>2. IsDisk(c) /\ Len(c) = Len(d) /\ KeepsInodes(d, c)
  BY UnboundDisk
<1>3. DOMAIN c = DOMAIN d
  BY <1>2, DiskParts
<1>4. \A x \in DOMAIN d : \A y :
        StepTo(c, x, y) = IF x = g /\ y = n THEN NoFd ELSE StepTo(d, x, y)
  BY UnboundSteps
<1>5. no \in BOOLEAN /\ (no => m \in Entries(d, h))
  OBVIOUS
<1>6. IsDisk(e) /\ KeepsInodes(d, e)
  BY <1>5, RenamedDisk
<1>7. /\ DOMAIN e = DOMAIN d
      /\ \A x \in DOMAIN d : \A y :
           StepTo(e, x, y) =
             IF x = h /\ y = m THEN i
             ELSE IF x = g /\ y = n THEN NoFd
             ELSE StepTo(d, x, y)
  <2>. DEFINE exchange == no
              v == IF exchange THEN StepTo(d, h, m) ELSE NoFd
  <2>1. /\ exchange \in BOOLEAN /\ (exchange => m \in Entries(d, h))
        /\ e = Renamed(d, g, n, h, m, exchange) /\ ~exchange
        /\ v = IF exchange THEN StepTo(d, h, m) ELSE NoFd
    OBVIOUS
  <2>2. v = NoFd
    OBVIOUS
  <2>3. IsDisk(d) /\ g \in DOMAIN d /\ h \in DOMAIN d /\ n \in Entries(d, g) /\ m \in Name
    OBVIOUS
  <2>. HIDE DEF exchange, v
  <2>4. /\ DOMAIN e = DOMAIN d
        /\ \/ e = d /\ ~exchange /\ StepTo(d, h, m) = StepTo(d, g, n)
           \/ /\ exchange \/ StepTo(d, h, m) # StepTo(d, g, n)
              /\ \A x \in DOMAIN d : \A y :
                   StepTo(e, x, y) =
                     IF x = h /\ y = m THEN StepTo(d, g, n)
                     ELSE IF x = g /\ y = n THEN v
                     ELSE StepTo(d, x, y)
    BY ONLY <2>1, <2>3, RenamedSteps
  <2>. QED  BY <1>1, <2>2, <2>4
<1>8. /\ \A x : x \in DOMAIN e <=> x \in DOMAIN c \/ x = i
      /\ \A x \in DOMAIN c : e[x].kind = c[x].kind
      /\ e[i].kind # "dir" /\ i \in DOMAIN c
  BY <1>1, <1>2, <1>3, <1>6, <1>7 DEF KeepsInodes
<1>9. \A x \in DOMAIN c : \A y :
        StepTo(e, x, y) = IF x = h /\ y = m THEN i ELSE StepTo(c, x, y)
  <2>. SUFFICES ASSUME NEW x \in DOMAIN d, NEW y
                PROVE  StepTo(e, x, y) = IF x = h /\ y = m THEN i ELSE StepTo(c, x, y)
    BY <1>3
  <2>1. StepTo(c, x, y) = IF x = g /\ y = n THEN NoFd ELSE StepTo(d, x, y)
    BY ONLY <1>4, x \in DOMAIN d
  <2>2. StepTo(e, x, y) = IF x = h /\ y = m THEN i
                          ELSE IF x = g /\ y = n THEN NoFd
                          ELSE StepTo(d, x, y)
    BY ONLY <1>7, x \in DOMAIN d
  <2>. QED  BY ONLY <2>1, <2>2
<1>. QED  BY <1>2, <1>3, <1>6, <1>8, <1>9 DEF Brought

\* The tree after it, of a file that comes to the mount point: the old item is
\* marked, the new one is added, the old one goes.
LEMMA RenamedTree ==
  ASSUME GoodTree(tree), InDirs(tree),
         NEW f \in Paths, f # <<>>, Visible(tree, f), tree[Fold(f)].type # "dir",
         NEW t \in Paths, Len(t) = 1, ~Visible(tree, t),
         Present(tree, t) => tree[Fold(t)].type # "dir",
         NEW real \in Real, RenameInTree(f, t, real),
         NEW a, a = Fold(f), NEW b, b = Fold(t), NEW type, type = tree[a].type,
         NEW no \in BOOLEAN, ~no, NEW s, s = Erased(tree, f, no), NEW u, u = Added(s, t, real, type)
  PROVE  /\ GoodTree(s) /\ GoodTree(u) /\ a # b
         /\ \A q : q \in DOMAIN s <=> q \in DOMAIN tree
         /\ \A q \in DOMAIN tree : q # a => s[q] = tree[q]
         /\ s[a].deleted /\ s[a].type = tree[a].type /\ s[a].real = tree[a].real
         /\ ShownAs(s, u, b, real, no)
         /\ \A q : q \in DOMAIN tree' <=> q \in DOMAIN u /\ q # a
         /\ \A q \in DOMAIN tree' : tree'[q] = u[q]
<1>. DEFINE added == AddError(tree, t, FALSE)
            with == Added(tree, t, real, type)
            erased == EraseError(with, f)
            without == Erased(with, f, TRUE)
<1>1. /\ f \in Seq(Name) /\ t \in Seq(Name) /\ t # <<>>
      /\ a \in Seq(Key) /\ a # <<>> /\ b \in Seq(Key) /\ b # <<>> /\ Len(b) = 1
      /\ Parent(b) = <<>>
  <2>1. f \in Seq(Name) /\ t \in Seq(Name)
    BY UsvfsAssumption
  <2>2. t # <<>>
    <3>1. Len(<<>>) # 1
      BY EmptySeq
    <3>. QED  BY <3>1
  <2>3. a \in Seq(Key) /\ a # <<>> /\ b \in Seq(Key) /\ b # <<>> /\ Len(b) = Len(t)
    BY <2>1, <2>2, FoldProperties
  <2>4. Parent(b) \in Seq(Key) /\ Len(Parent(b)) = Len(b) - 1
    BY <2>3, ParentProperties
  <2>. QED  BY <2>1, <2>2, <2>3, <2>4, EmptySeq
<1>2. a \in DOMAIN tree /\ <<>> \in DOMAIN tree /\ ~tree[a].deleted
  BY <1>1 DEF Visible, Present, GoodTree, Sound, IsTree
<1>3. b \in DOMAIN tree => tree[b].deleted /\ tree[b].type # "dir"
  BY <1>1 DEF Visible, Present
<1>4. a # b
  BY <1>2, <1>3
<1>5. type \in Type /\ type # "dir"
  BY <1>2 DEF GoodTree, Sound, IsTree, Item
<1>6. added = "ok"
  BY <1>1, <1>2 DEF AddError
<1>7. GoodTree(with)
  <2>1. FALSE \in BOOLEAN
    OBVIOUS
  <2>. HIDE DEF with
  <2>. QED  BY <1>1, <1>5, <1>6, <2>1, AddedGood DEF with
<1>8. /\ \A q : q \in DOMAIN with <=> q \in DOMAIN tree \/ q = b
      /\ \A q \in DOMAIN tree : q # b => with[q] = tree[q]
      /\ with[b].real = real
      /\ b \in DOMAIN tree => with[b].type = tree[b].type
      /\ b \notin DOMAIN tree => with[b].type = type
      /\ ~with[b].deleted
  BY <1>5, AddedItems, AddedShown
<1>9. erased = "ok" /\ Present(with, f)
  <2>1. Present(with, f)
    BY <1>2, <1>8 DEF Present
  <2>. HIDE DEF with
  <2>. QED  BY <1>1, <1>7, <2>1, EraseAllowed DEF GoodTree
<1>10. tree' = without
  <2>1. IF added # "ok"
        THEN Reply("rename", f, t, added) /\ UNCHANGED tree
        ELSE /\ tree' = IF erased = "ok" THEN without ELSE with
             /\ Reply("rename", f, t, erased)
    BY Zenon DEF RenameInTree
  <2>. HIDE DEF added, erased, with, without
  <2>. QED  BY <1>6, <1>9, <2>1
<1>11. \A q \in DOMAIN tree : Under(a, q) <=> q = a
  <2>1. Under(a, a)
    BY <1>1 DEF Under
  <2>. QED  BY <1>2, <2>1, NothingBelow
<1>12. ~Under(a, b)
  <2>1. Len(a) \in Nat /\ Len(a) # 0
    BY <1>1, EmptySeq
  <2>. SUFFICES ASSUME Under(a, b)  PROVE FALSE
    OBVIOUS
  <2>2. Len(a) = 1 /\ \A i \in 1..Len(a) : b[i] = a[i]
    BY <1>1, <2>1 DEF Under
  <2>3. a = b
    BY <1>1, <2>2, SameSequence
  <2>. QED  BY <1>4, <2>3
<1>13. s = [q \in DOMAIN tree |-> IF Under(a, q) THEN Marked(tree[q], TRUE) ELSE tree[q]]
  BY DEF Erased
<1>14. without = [q \in {r \in DOMAIN with : ~Under(a, r)} |-> with[q]]
  BY DEF Erased
<1>15. GoodTree(s)
  <2>1. Present(tree, f) /\ no \in BOOLEAN
    BY DEF Visible
  <2>. QED  BY <1>1, <2>1, ErasedGood
<1>. HIDE DEF with, without, added, erased
<1>16. /\ DOMAIN s = DOMAIN tree /\ s[a] = Marked(tree[a], TRUE)
       /\ \A q \in DOMAIN tree : q # a => s[q] = tree[q]
  BY <1>2, <1>11, <1>13
<1>17. s[a].deleted /\ s[a].type = tree[a].type /\ s[a].real = tree[a].real
  <2>1. /\ Marked(tree[a], TRUE).deleted /\ Marked(tree[a], TRUE).type = tree[a].type
        /\ Marked(tree[a], TRUE).real = tree[a].real
    BY <1>2, MarkedItem
  <2>. QED  BY <1>16, <2>1
<1>18. /\ \A q : q \in DOMAIN u <=> q \in DOMAIN s \/ q = b
       /\ \A q \in DOMAIN s : q # b => u[q] = s[q]
       /\ u[b].real = real
       /\ b \in DOMAIN s => u[b].type = s[b].type
       /\ b \notin DOMAIN s => u[b].type = type
       /\ ~u[b].deleted
  <2>1. GoodTree(s) /\ real \in Real /\ type \in Type /\ u = Added(s, t, real, type) /\ b = Fold(t)
    BY <1>5, <1>15
  <2>2. /\ \A q : q \in DOMAIN u <=> q \in DOMAIN s \/ q = Fold(t)
        /\ \A q \in DOMAIN s : q # Fold(t) => u[q] = s[q]
        /\ u[Fold(t)].real = real
        /\ Fold(t) \in DOMAIN s => u[Fold(t)].type = s[Fold(t)].type
        /\ Fold(t) \notin DOMAIN s => u[Fold(t)].type = type
    BY ONLY <2>1, AddedItems
  <2>3. ~Added(s, t, real, type)[Fold(t)].deleted
    BY ONLY <2>1, AddedShown
  <2>. QED  BY ONLY <2>1, <2>2, <2>3
<1>19. b \in DOMAIN s => s[b].deleted /\ s[b].type # "dir"
  BY <1>3, <1>4, <1>16
<1>20. ShownAs(s, u, b, real, no)
  BY <1>5, <1>18, <1>19 DEF ShownAs
<1>21. GoodTree(u)
  <2>1. AddError(s, t, FALSE) = "ok" /\ FALSE \in BOOLEAN
    BY <1>1, <1>2, <1>16, <1>19 DEF AddError, Visible, Present
  <2>. QED  BY <1>1, <1>5, <1>15, <2>1, AddedGood
<1>22. \A q : q \in DOMAIN tree' <=> q \in DOMAIN u /\ q # a
  <2>1. \A q : q \in DOMAIN without <=> q \in DOMAIN with /\ ~Under(a, q)
    BY <1>14
  <2>. QED  BY <1>4, <1>8, <1>10, <1>11, <1>12, <1>16, <1>18, <2>1
<1>23. u[b] = with[b]
  <2>1. b \in DOMAIN tree => s[b] = tree[b]
    BY <1>4, <1>16
  <2>. DEFINE item(v) == IF b \in DOMAIN v THEN Revived(v[b], real) ELSE NewItem(Base(t), real, type)
  <2>2. \A v : Added(v, t, real, type) =
          [q \in DOMAIN v \cup {b} |-> IF q # b THEN v[q] ELSE item(v)]
    BY Zenon DEF Added
  <2>3. item(s) = item(tree)
    BY <1>16, <2>1
  <2>. HIDE DEF item
  <2>4. \A v : Added(v, t, real, type)[b] = item(v)
    BY <2>2
  <2>. QED  BY <2>3, <2>4 DEF with
<1>24. \A q \in DOMAIN tree' : tree'[q] = u[q]
  <2>. SUFFICES ASSUME NEW q \in DOMAIN tree'  PROVE tree'[q] = u[q]
    OBVIOUS
  <2>1. q \in DOMAIN u /\ q # a /\ tree'[q] = with[q]
    BY <1>10, <1>14, <1>22
  <2>2. CASE q = b
    BY <1>23, <2>1, <2>2
  <2>3. CASE q # b
    BY <1>8, <1>16, <1>18, <2>1, <2>3
  <2>. QED  BY <2>2, <2>3
<1>. QED  BY <1>4, <1>15, <1>16, <1>17, <1>20, <1>21, <1>22, <1>24

\* The real path a rename gives to what it brings to the mount point.
LEMMA OneNameReal ==
  ASSUME NEW t \in Paths, Len(t) = 1, NEW r, KeyedReal(Parent(Fold(t)), r)
  PROVE  /\ t # <<>> /\ KeyedReal(Fold(t), r \o t) /\ r \o t \in Real
         /\ Parent(r \o t) = r /\ Base(r \o t) = Base(t) /\ (r \o t)[1] = r[1]
<1>. DEFINE m == Base(t)
            S == Name \cup DOMAIN HostDirs
            s == Append(r, m)
            c == r \o t
<1>1. t # <<>>
  <2>1. Len(<<>>) # 1
    BY EmptySeq
  <2>. QED  BY <2>1
<1>2. t \in Seq(Name) /\ m \in Name
  BY <1>1, PathParts
<1>3. KeyedReal(Fold(t), s)
  BY <1>1, <1>2, KeyedChild
<1>4. IsRealPath(r)
  BY DEF KeyedReal
<1>5. r \in Seq(S) /\ t \in Seq(S) /\ m \in S
  BY <1>2, <1>4 DEF IsRealPath, Real
<1>6. m = t[1]
  BY DEF Base
<1>. HIDE DEF m, S
<1>7. /\ s \in Seq(S) /\ Len(s) = Len(r) + 1 /\ s[Len(r) + 1] = m
      /\ \A i \in 1..Len(r) : s[i] = r[i]
      /\ Len(r) \in Nat
  BY <1>5, AppendProperties, LenProperties
<1>8. /\ c \in Seq(S) /\ Len(c) = Len(r) + 1
      /\ \A i \in 1..Len(r) : c[i] = r[i]
      /\ c[Len(r) + 1] = t[1]
  <2>1. r \in Seq(S) /\ t \in Seq(S) /\ Len(t) = 1 /\ Len(r) \in Nat
    BY <1>5, <1>7
  <2>2. /\ c \in Seq(S) /\ Len(c) = Len(r) + Len(t)
        /\ \A i \in 1..Len(r) + Len(t) : c[i] = IF i =< Len(r) THEN r[i] ELSE t[i - Len(r)]
    BY ONLY <2>1, ConcatProperties
  <2>. HIDE DEF c
  <2>. QED  BY ONLY <2>1, <2>2
<1>. HIDE DEF c, s
<1>9. c = s
  BY <1>6, <1>7, <1>8, SameSequence
<1>10. Len(r) > 0
  BY <1>4 DEF IsRealPath
<1>11. Parent(s) = r /\ Base(s) = m /\ s[1] = r[1]
  BY <1>2, <1>4, <1>7, <1>10, PathAndName DEF s
<1>12. s \in Real
  BY <1>3 DEF KeyedReal, IsRealPath
<1>. QED  BY <1>1, <1>3, <1>9, <1>11, <1>12 DEF c, m

\* A renamed file: it leaves its name, comes to the mount point, and its old item goes.
LEMMA RenamedNames ==
  ASSUME KInv, NEW m, FdMapGood(m, disk), OneKey(m), NamesKept(tree, m, disk),
         NEW f \in Paths, f # <<>>, Visible(tree, f), tree[Fold(f)].type # "dir",
         NEW t \in Paths, Len(t) = 1, ~Visible(tree, t),
         Present(tree, t) => tree[Fold(t)].type # "dir",
         NEW k, k = Parent(Fold(t)), k \in DOMAIN tree, tree[k].type = "dir",
         NEW r, KeyedReal(k, r), IF HasUpper THEN r[1] = UpperDir ELSE r = tree[k].real,
         NEW g, g = At(m, Parent(tree[Fold(f)].real)), NEW h \in DOMAIN disk, h = At(m, r),
         NEW n \in Entries(disk, g), Lower[n] = Base(Fold(f)),
         RenameInTree(f, t, r \o t), NEW no \in BOOLEAN, ~no
  PROVE  /\ StepTo(disk, h, Base(t)) = NoFd
         /\ NamesKept(tree', m, Renamed(disk, g, n, h, Base(t), no))
<1>. DEFINE a == Fold(f)
            b == Fold(t)
            x == Base(t)
            real == r \o t
            type == tree[a].type
            s == Erased(tree, f, no)
            u == Added(s, t, real, type)
            c == Unbound(disk, g, n)
            e == Renamed(disk, g, n, h, x, no)
            i == StepTo(disk, g, n)
<1>1. /\ GoodTree(tree) /\ IsDisk(disk) /\ Keyed(tree)
      /\ InDirs(tree) /\ FilesLed(tree, m, disk) /\ NamesKnown(tree, m, disk) /\ CaseFree(disk)
  BY DEF KInv, LInv, IInv, NamesKept
<1>2. /\ t # <<>> /\ KeyedReal(b, real) /\ real \in Real
      /\ Parent(real) = r /\ Base(real) = x /\ real[1] = r[1]
  BY OneNameReal
<1>3. /\ x \in Name /\ b \in Seq(Key) /\ b # <<>> /\ Base(b) = Lower[x] /\ k \in Seq(Key)
      /\ a \in Seq(Key) /\ a # <<>> /\ a \in DOMAIN tree /\ ~tree[a].deleted
  <2>1. t \in Seq(Name) /\ x \in Name /\ b \in Seq(Key) /\ b # <<>>
    BY <1>2, PathParts
  <2>2. Base(b) = Lower[x]
    BY <1>2, <2>1, FoldBase
  <2>3. a \in Seq(Key) /\ a # <<>> /\ a \in DOMAIN tree /\ ~tree[a].deleted
    BY PathParts DEF Visible, Present
  <2>. QED  BY <1>1, <2>1, <2>2, <2>3, ItemKeys
<1>4. b = Append(k, Lower[x])
  BY <1>3, ChildIsOne
<1>5. tree[a].type # "dir" /\ (b \in DOMAIN tree => tree[b].deleted /\ tree[b].type # "dir")
  BY DEF Visible, Present
<1>6. RenameInTree(f, t, real)
  OBVIOUS
<1>. HIDE DEF a, b, x, real, type, s, u, c, e, i
<1>7. h = At(m, Home(tree, k))
  BY <1>1, AtHome
<1>8. StepTo(disk, h, x) = NoFd
  <2>1. LET q == Append(k, Lower[x])
        IN  q \in DOMAIN tree => tree[q].deleted /\ tree[q].type # "dir"
    BY <1>4, <1>5
  <2>2. k \in DOMAIN tree /\ h \in DOMAIN disk
    OBVIOUS
  <2>. QED  BY ONLY <1>1, <1>3, <1>7, <2>1, <2>2, NoNameOfGone
<1>9. /\ g \in DOMAIN disk /\ g = At(m, Parent(tree[a].real)) /\ n = Base(tree[a].real)
      /\ i # NoFd /\ disk[i].kind # "dir" /\ i = StepTo(disk, g, n)
  <2>1. FileLed(m, disk, tree[a].real)
    BY <1>1, <1>3, <1>5 DEF FilesLed
  <2>2. g = At(m, Parent(tree[a].real))
    BY DEF a
  <2>3. /\ g \in DOMAIN disk /\ StepTo(disk, g, Base(tree[a].real)) # NoFd
        /\ disk[StepTo(disk, g, Base(tree[a].real))].kind # "dir"
    BY <2>1, <2>2 DEF FileLed
  <2>4. Base(tree[a].real) \in Name /\ Lower[Base(tree[a].real)] = Base(a)
    BY <1>1, <1>3, ItemKeys
  <2>5. n \in Name /\ StepTo(disk, g, n) # NoFd
    BY <1>1, <2>3, StepToEntries
  <2>6. Lower[n] = Base(a)
    BY DEF a
  <2>7. n = Base(tree[a].real)
    BY <1>1, <2>3, <2>4, <2>5, <2>6 DEF CaseFree
  <2>. QED  BY <2>2, <2>3, <2>7 DEF i
<1>10. /\ Brought(c, e, h, x, i, no)
       /\ IsDisk(c) /\ DOMAIN c = DOMAIN disk /\ KeepsInodes(disk, c)
  <2>1. h \in DOMAIN disk /\ n \in Entries(disk, g) /\ no \in BOOLEAN /\ ~no
        /\ e = Renamed(disk, g, n, h, x, no) /\ c = Unbound(disk, g, n)
    BY DEF e, c
  <2>. QED  BY ONLY <1>1, <1>3, <1>8, <1>9, <2>1, RenamedBrings
<1>11. /\ GoodTree(s) /\ GoodTree(u) /\ a # b
       /\ \A q : q \in DOMAIN s <=> q \in DOMAIN tree
       /\ \A q \in DOMAIN tree : q # a => s[q] = tree[q]
       /\ s[a].deleted /\ s[a].type = tree[a].type /\ s[a].real = tree[a].real
       /\ ShownAs(s, u, b, real, no)
       /\ \A q : q \in DOMAIN tree' <=> q \in DOMAIN u /\ q # a
       /\ \A q \in DOMAIN tree' : tree'[q] = u[q]
  <2>1. GoodTree(tree) /\ InDirs(tree) /\ f \in Paths /\ f # <<>> /\ Visible(tree, f)
        /\ tree[Fold(f)].type # "dir" /\ t \in Paths /\ Len(t) = 1 /\ ~Visible(tree, t)
        /\ (Present(tree, t) => tree[Fold(t)].type # "dir")
    BY <1>1
  <2>2. a = Fold(f) /\ b = Fold(t) /\ type = tree[a].type /\ s = Erased(tree, f, no)
        /\ u = Added(s, t, real, type)
        /\ no \in BOOLEAN /\ ~no
    BY DEF a, b, type, s, u
  <2>. QED  BY ONLY <1>2, <1>6, <2>1, <2>2, RenamedTree
<1>12. NamesKept(s, m, c)
  <2>1. /\ GoodTree(tree) /\ Keyed(tree) /\ IsDisk(disk) /\ FdMapGood(m, disk) /\ OneKey(m)
        /\ NamesKept(tree, m, disk) /\ a \in DOMAIN tree /\ a # <<>> /\ g \in DOMAIN disk
        /\ g = At(m, Parent(tree[a].real)) /\ n = Base(tree[a].real) /\ c = Unbound(disk, g, n)
    BY <1>1, <1>3, <1>9 DEF c
  <2>. QED  BY ONLY <1>11, <2>1, RemovedNames
<1>13. Keyed(s)
  <2>1. \A q \in DOMAIN s : s[q].real = tree[q].real
    BY <1>11
  <2>. QED  BY <1>1, <1>11, <2>1 DEF Keyed
<1>14. k # a /\ k \in DOMAIN s /\ s[k] = tree[k]
  BY <1>5, <1>11
<1>15. h = At(m, Home(s, k))
  BY <1>7, <1>14 DEF Home
<1>16. b \in DOMAIN s => s[b].deleted /\ s[b].type # "dir"
  BY <1>5, <1>11
<1>17. KeptAs(m, m, real, i, no)
  BY DEF KeptAs
<1>18. NamesKept(u, m, e)
  <2>1. /\ GoodTree(s) /\ IsDisk(c) /\ FdMapGood(m, c) /\ OneKey(m) /\ k \in DOMAIN s
        /\ s[k].type = "dir" /\ h \in DOMAIN c /\ x \in Name /\ no \in BOOLEAN
        /\ At(m, Parent(real)) = h /\ Base(real) = x /\ (HasUpper => real[1] = UpperDir)
        /\ ShownAs(s, u, b, real, no) /\ KeyedReal(b, real)
    BY <1>2, <1>3, <1>10, <1>11, <1>14, FdMapKeeps
  <2>2. Brought(c, e, h, x, i, no)
    BY <1>10
  <2>. QED  BY ONLY <1>4, <1>12, <1>13, <1>15, <1>16, <1>17, <2>1, <2>2, BoundNames
<1>19. a \in DOMAIN u /\ u[a].deleted /\ u[a].type # "dir"
  BY <1>3, <1>5, <1>11 DEF ShownAs
<1>20. Keyed(u)
  <2>1. KeyedReal(Fold(t), real) /\ u = Added(s, t, real, type)
    BY <1>2 DEF b, u
  <2>2. type \in Type
    BY <1>1, <1>3 DEF type, GoodTree, Sound, IsTree, Item
  <2>. QED  BY ONLY <1>11, <1>13, <2>1, <2>2, AddedKeyed
<1>21. IsDisk(e)
  BY <1>10 DEF Brought
<1>22. NamesKept(tree', m, e)
  <2>1. /\ GoodTree(u) /\ a # <<>>
        /\ \A q : q \in DOMAIN tree' <=> q \in DOMAIN u /\ q # a
        /\ \A q \in DOMAIN tree' : tree'[q] = u[q]
    BY <1>3, <1>11
  <2>. QED  BY ONLY <1>18, <1>19, <1>20, <1>21, <2>1, DroppedNames
<1>. QED  BY <1>8, <1>22 DEF e, x

\* rename()'s operator[] of the map opens nothing: what it adds is 0.
LEMMA TouchedParts ==
  ASSUME NEW m, NEW r
  PROVE  \A s : At(m, s) = NoFd => At(Touched(m, r), s) = NoFd \/ At(Touched(m, r), s) = Stdin
<1>1. CASE RealKey(r) \in DOMAIN m
  BY <1>1 DEF Touched
<1>2. CASE RealKey(r) \notin DOMAIN m
  <2>1. Touched(m, r) = Put(m, r, Stdin)
    BY <1>2 DEF Touched
  <2>2. /\ At(Put(m, r, Stdin), r) = Stdin
        /\ \A s : RealKey(s) # RealKey(r) => At(Put(m, r, Stdin), s) = At(m, s)
    BY PutParts
  <2>3. \A s : RealKey(s) = RealKey(r) => At(Put(m, r, Stdin), s) = At(Put(m, r, Stdin), r)
    BY DEF At
  <2>. QED  BY <2>1, <2>2, <2>3
<1>. QED  BY <1>1, <1>2

\* What rename does, to a file that comes to the mount point where nothing is shown.
LEMMA RenameMovedNames ==
  ASSUME KInv, "stale" \notin Workload, NEW f \in Paths, f # <<>>, Visible(tree, f),
         tree[Fold(f)].type # "dir", NEW t \in Paths, ~NamesDirectory(t), Len(t) = 1,
         ~Visible(tree, t), Walkable(t),
         Present(tree, t) => tree[Fold(t)].type # "dir", NEW flag, RenameMoved(f, t, flag)
  PROVE  NamesKept(tree', fdMap', disk')
<1>. DEFINE a == Fold(f)
            k == Parent(Fold(t))
            oldDir == Parent(tree[a].real)
            newDir == NewRealParent(t)
            once == Touched(fdMap, oldDir)
            m == Touched(once, newDir)
            g == At(m, oldDir)
            h == At(m, newDir)
            exchange == flag = "exchange"
            n == tree[a].name
            x == Base(t)
            err == RenameError(disk, g, n, h, x, exchange)
            moved == Renamed(disk, g, n, h, x, exchange)
<1>1. /\ fdMap' = m
      /\ IF err # "ok"
         THEN Reply("rename", f, t, err) /\ UNCHANGED <<tree, disk>>
         ELSE /\ disk' = moved
              /\ RenameInTree(f, t, newDir \o t)
  BY Zenon DEF RenameMoved
<1>2. /\ LInv /\ GoodTree(tree) /\ IsDisk(disk) /\ Keyed(tree) /\ OneKey(fdMap)
      /\ FdMapGood(fdMap, disk) /\ NamesKept(tree, fdMap, disk)
  BY DEF KInv, LInv, IInv
<1>3. t # <<>> /\ k \in DOMAIN tree /\ tree[k].type = "dir" /\ Visible(tree, Parent(t))
  BY WalkedParent
<1>4. KeyedReal(k, newDir)
  BY <1>2, <1>3, NewRealParentKeyed
<1>5. IF HasUpper THEN newDir[1] = UpperDir ELSE newDir = tree[k].real
  BY <1>3, NewRealHome
<1>6. a \in DOMAIN tree /\ a # <<>> /\ n \in Name /\ Lower[n] = Base(a)
  <2>1. a \in Seq(Key) /\ a # <<>> /\ a \in DOMAIN tree
    BY PathParts DEF Visible, Present
  <2>. HIDE DEF a
  <2>. QED  BY <1>2, <2>1 DEF GoodTree, Sound, NamedByKey
<1>7. exchange \in BOOLEAN
  OBVIOUS
<1>. HIDE DEF a, k, oldDir, newDir, exchange, n, x
<1>8. OneKey(once) /\ NamesKept(tree, once, disk)
  <2>1. OneKey(once) /\ \A s : At(fdMap, s) # NoFd => At(once, s) = At(fdMap, s)
    BY <1>2, TouchedLeads
  <2>2. \A s : At(fdMap, s) = NoFd => At(once, s) = NoFd \/ At(once, s) = Stdin
    BY TouchedParts
  <2>. HIDE DEF once
  <2>. QED  BY ONLY <1>2, <2>1, <2>2, TouchedNames
<1>9. FdMapGood(m, disk)
  BY <1>2, TouchedGood
<1>. HIDE DEF once
<1>10. OneKey(m) /\ NamesKept(tree, m, disk)
  <2>1. OneKey(m) /\ \A s : At(once, s) # NoFd => At(m, s) = At(once, s)
    BY <1>8, TouchedLeads
  <2>2. \A s : At(once, s) = NoFd => At(m, s) = NoFd \/ At(m, s) = Stdin
    BY TouchedParts
  <2>. HIDE DEF m
  <2>. QED  BY ONLY <1>2, <1>8, <2>1, <2>2, TouchedNames
<1>. HIDE DEF m
<1>11. CASE err # "ok"
  <2>1. fdMap' = m /\ disk' = disk /\ tree' = tree
    BY <1>1, <1>11
  <2>. QED  BY <1>10, <2>1
<1>12. CASE err = "ok"
  <2>1. FdError(h) = "ok" /\ EntryError(disk, g, n) = "ok"
    BY <1>12 DEF RenameError
  <2>2. n \in Entries(disk, g)
    BY <2>1 DEF EntryError
  <2>3. h \in DOMAIN disk
    BY <1>9, <2>1, HandleType
  <2>4. g = At(m, Parent(tree[a].real)) /\ h = At(m, newDir)
    BY DEF oldDir
  <2>. HIDE DEF g, h
  <2>5. x \notin Entries(disk, h) => ~exchange
    BY <1>12, <2>1 DEF RenameError
  <2>6. /\ disk' = moved /\ fdMap' = m /\ RenameInTree(f, t, newDir \o t)
    BY <1>1, <1>12
  <2>. HIDE DEF err, moved
  <2>7. ASSUME NEW no \in BOOLEAN, ~no
        PROVE  /\ StepTo(disk, h, x) = NoFd
               /\ NamesKept(tree', m, Renamed(disk, g, n, h, x, no))
    <3>1. /\ KInv /\ FdMapGood(m, disk) /\ OneKey(m) /\ NamesKept(tree, m, disk)
          /\ f \in Paths /\ f # <<>> /\ Visible(tree, f) /\ tree[Fold(f)].type # "dir"
          /\ t \in Paths /\ Len(t) = 1 /\ ~Visible(tree, t)
          /\ (Present(tree, t) => tree[Fold(t)].type # "dir")
          /\ k = Parent(Fold(t)) /\ k \in DOMAIN tree /\ tree[k].type = "dir"
          /\ g = At(m, Parent(tree[Fold(f)].real)) /\ Lower[n] = Base(Fold(f))
          /\ no \in BOOLEAN /\ ~no
      BY <1>3, <1>6, <1>9, <1>10, <2>4, <2>7 DEF a, k
    <3>2. x = Base(t)
      BY DEF x
    <3>. QED  BY ONLY <1>4, <1>5, <2>2, <2>3, <2>4, <2>6, <3>1, <3>2, RenamedNames
  <2>8. StepTo(disk, h, x) = NoFd
    BY <2>7
  <2>9. ~exchange
    BY <1>2, <2>3, <2>5, <2>8, StepToEntries
  <2>10. NamesKept(tree', m, moved)
    BY <1>7, <2>7, <2>9 DEF moved
  <2>. QED  BY <2>6, <2>10
<1>. QED  BY <1>11, <1>12

\* rename, whatever it finds, to a name that is not taken.
LEMMA RenameNames ==
  ASSUME KInv, Settled, "stale" \notin Workload, NEW f \in Paths, NEW t \in Paths,
         ~NamesDirectory(t), NEW flag \in Flags,
         Does("nest", Len(t) > 1), Does("moveDir", "dir" \in Sees(f)), ~Visible(tree, t),
         Does("remake", Present(tree, t) /\ tree[Fold(t)].type = "dir"),
         Rename(f, t, flag)
  PROVE  NamesKept(tree', fdMap', disk')
<1>1. f # <<>> /\ t # <<>> /\ Walkable(f) /\ Sees(f) # {} /\ Walkable(t) /\ LInv
  BY DEF Rename, RenameKernel, Walkable, KInv
<1>2. /\ ~(Len(t) > 1) /\ "dir" \notin Sees(f)
      /\ Present(tree, t) => tree[Fold(t)].type # "dir"
  <2>1. "remake" \notin Workload /\ "nest" \notin Workload /\ "moveDir" \notin Workload
    BY DEF Settled
  <2>. QED  BY <2>1 DEF Does
<1>3. Len(t) = 1
  <2>1. t \in Seq(Name)
    BY UsvfsAssumption
  <2>2. Len(t) \in Nat /\ Len(t) # 0
    BY <1>1, <2>1, LenProperties, EmptySeq
  <2>. DEFINE n == Len(t)
  <2>3. ~(n > 1)
    BY <1>2
  <2>. HIDE DEF n
  <2>4. n \in Nat /\ n # 0
    BY <2>2 DEF n
  <2>5. n = 1
    BY <2>3, <2>4
  <2>. QED  BY <2>5 DEF n
<1>4. CASE RenameRefusal(f, t, flag) # "ok"
  <2>1. UNCHANGED <<tree, fdMap, disk>>
    BY <1>4 DEF Rename, Fails
  <2>. QED  BY <2>1 DEF KInv
<1>5. CASE RenameRefusal(f, t, flag) = "ok"
  <2>1. RenameMoved(f, t, flag)
    BY <1>5 DEF Rename
  <2>2. Visible(tree, f)
    BY <1>5 DEF RenameRefusal
  <2>3. tree[Fold(f)].type # "dir"
    BY <1>1, <1>2, <2>2, DirItemSeen
  <2>. QED  BY <1>1, <1>2, <1>3, <2>1, <2>2, <2>3, RenameMovedNames
<1>. QED  BY <1>4, <1>5

\* mkdir, where nothing has been before.
LEMMA MkdirNames ==
  ASSUME KInv, "stale" \notin Workload, Faults = {FALSE}, NEW p \in Paths, ~NamesDirectory(p),
         ~Present(tree, p), Mkdir(p)
  PROVE  NamesKept(tree', fdMap', disk')
<1>1. Walkable(p)
  BY DEF Mkdir
<1>2. CASE \E parentFails, fails \in Faults : MkdirNew(p, parentFails, fails)
  <2>1. PICK parentFails \in Faults, fails \in Faults : MkdirNew(p, parentFails, fails)
    BY <1>2
  <2>2. ~parentFails /\ ~fails
    OBVIOUS
  <2>. QED  BY <1>1, <2>1, <2>2, MkdirNewNames
<1>3. CASE MkdirNoParent(p)
  <2>1. UNCHANGED <<tree, fdMap, disk>>
    BY <1>3 DEF MkdirNoParent, Fails
  <2>. QED  BY <2>1 DEF KInv
<1>4. ~MkdirExisting(p)
  BY DEF MkdirExisting
<1>. QED  BY <1>2, <1>3, <1>4 DEF Mkdir

\* create, where no directory has been before.
LEMMA CreateNames ==
  ASSUME KInv, "stale" \notin Workload, Faults = {FALSE}, NEW p \in Paths, ~NamesDirectory(p),
         Present(tree, p) => tree[Fold(p)].type = "file", Create(p)
  PROVE  NamesKept(tree', fdMap', disk')
<1>1. Walkable(p) /\ Lookup(p).err = "ENOENT"
  BY DEF Create
<1>2. ~Visible(tree, p)
  BY <1>1, LookupMissing, UncutNames
<1>3. CASE \E excl \in BOOLEAN, parentFails \in Faults : CreateFile(p, excl, parentFails)
  <2>1. PICK excl \in BOOLEAN, parentFails \in Faults : CreateFile(p, excl, parentFails)
    BY <1>3
  <2>2. ~parentFails
    OBVIOUS
  <2>. QED  BY <1>1, <1>2, <2>1, <2>2, CreateFileNames
<1>4. CASE CreateNoParent(p)
  <2>1. UNCHANGED <<tree, fdMap, disk>>
    BY <1>4 DEF CreateNoParent, Fails
  <2>. QED  BY <2>1 DEF KInv
<1>. QED  BY <1>3, <1>4 DEF Create

\* The invariant says what NoCaseTwins says.
LEMMA InvariantFree ==
  ASSUME KInv
  PROVE  NoCaseTwins
<1>1. IsDisk(disk) /\ CaseFree(disk)
  BY DEF KInv, LInv, IInv, NamesKept
<1>2. SUFFICES ASSUME NEW i \in DOMAIN disk, NEW m \in Entries(disk, i), NEW n \in Entries(disk, i),
                      Lower[m] = Lower[n]
               PROVE  m = n
  BY DEF NoCaseTwins
<1>3. m \in Name /\ n \in Name /\ StepTo(disk, i, m) # NoFd /\ StepTo(disk, i, n) # NoFd
  BY <1>1, StepToEntries
<1>. QED  BY <1>1, <1>2, <1>3 DEF CaseFree

\* Directories that are linked over one another agree on what is a directory.
LayersAgree(d, layers) ==
  \A i, j \in DOMAIN layers :
    \A p \in Walked(d, layers[i]), q \in Walked(d, layers[j]) :
      Fold(p) = Fold(q) => (DirAt(d, <<layers[i]>> \o p) <=> DirAt(d, <<layers[j]>> \o q))

\* What has been walked in the last of the layers that have its key.
Topmost(d, layers, i, j, p) ==
  \A l \in 1..i : \A q \in Walked(d, layers[l]) : Fold(q) = Fold(p) => l =< j

LaidAs(t, d, layers, i) ==
  /\ \A j \in 1..i : \A p \in Walked(d, layers[j]) : Fold(p) \in DOMAIN t
  /\ \A k \in DOMAIN t :
       /\ ~t[k].deleted
       /\ \E j \in 1..i : \E p \in Walked(d, layers[j]) :
            /\ Topmost(d, layers, i, j, p)
            /\ Fold(p) = k /\ t[k].real = <<layers[j]>> \o p
            /\ t[k].type = "dir" <=> DirAt(d, <<layers[j]>> \o p)

\* Everything that is walked has its item, which is shown.
LEMMA ScanShown ==
  ASSUME NEW d, NEW top, NEW t, t = Scan(d, top)
  PROVE  /\ \A p \in Walked(d, top) : Fold(p) \in DOMAIN t
         /\ \A k \in DOMAIN t : ~t[k].deleted
<1>. DEFINE W == Walked(d, top)
            P(k) == CHOOSE p \in W : Fold(p) = k
            I(k) == NewItem(IF P(k) = <<>> THEN RootName ELSE Base(P(k)), <<top>> \o P(k),
                            IF d[HostId(d, <<top>> \o P(k))].kind = "dir" THEN "dir" ELSE "file")
<1>1. t = [k \in {Fold(p) : p \in W} |-> I(k)]
  BY Zenon DEF Scan
<1>2. \A k : ~I(k).deleted
  BY DEF NewItem
<1>. HIDE DEF I
<1>. QED  BY <1>1, <1>2

\* The lowest layer, without links.
LEMMA FirstLaidAs ==
  ASSUME NEW d, IsDisk(d), GivenDirs(d), NEW layers \in Seq(DOMAIN HostDirs), layers # <<>>
  PROVE  LaidAs(Scan(d, layers[1]), d, layers, 1)
<1>. DEFINE top == layers[1]
            t == Scan(d, top)
<1>1. top \in DOMAIN HostDirs
  BY LenProperties, EmptySeq
<1>2. \A k \in DOMAIN t : \E p \in Walked(d, top) :
        /\ Fold(p) = k /\ t[k].real = <<top>> \o p
        /\ t[k].type = "dir" <=> DirAt(d, <<top>> \o p)
  <2>1. IsDisk(d) /\ GivenDirs(d) /\ top \in DOMAIN HostDirs /\ t = Scan(d, top)
    BY <1>1
  <2>. HIDE DEF t, top
  <2>. QED  BY ONLY <2>1, ScanItems
<1>3. /\ \A p \in Walked(d, top) : Fold(p) \in DOMAIN t
      /\ \A k \in DOMAIN t : ~t[k].deleted
  BY ScanShown
<1>4. \A j : j \in 1..1 <=> j = 1
  OBVIOUS
<1>5. \A p : Topmost(d, layers, 1, 1, p)
  BY <1>4 DEF Topmost
<1>. HIDE DEF t
<1>6. LaidAs(t, d, layers, 1)
  BY <1>2, <1>3, <1>4, <1>5 DEF LaidAs
<1>. QED  BY <1>6 DEF t

\* One more layer.
LEMMA NextLaidAs ==
  ASSUME NEW d, IsDisk(d), GivenDirs(d), NEW layers \in Seq(DOMAIN HostDirs),
         LayersAgree(d, layers), NEW i \in 1..Len(layers), i # 1,
         NEW t, GoodTree(t), LaidAs(t, d, layers, i - 1)
  PROVE  LaidAs(Merged(t, Scan(d, layers[i])), d, layers, i)
<1>. DEFINE top == layers[i]
            s == Scan(d, top)
            u == Merged(t, s)
<1>1. DOMAIN layers = 1..Len(layers) /\ Len(layers) \in Nat /\ top \in DOMAIN HostDirs
  BY LenProperties
<1>2. /\ \A k \in DOMAIN s : \E p \in Walked(d, top) :
           /\ Fold(p) = k /\ s[k].real = <<top>> \o p
           /\ s[k].type = "dir" <=> DirAt(d, <<top>> \o p)
      /\ \A p \in Walked(d, top) : Fold(p) \in DOMAIN s
      /\ \A k \in DOMAIN s : ~s[k].deleted
  <2>1. \A k \in DOMAIN s : \E p \in Walked(d, top) :
           /\ Fold(p) = k /\ s[k].real = <<top>> \o p
           /\ s[k].type = "dir" <=> DirAt(d, <<top>> \o p)
    BY <1>1, ScanItems
  <2>. QED  BY <2>1, ScanShown
<1>3. GoodTree(s)
  BY <1>1, ScanSound DEF GoodTree
<1>. HIDE DEF s
<1>4. /\ \A k : k \in DOMAIN u <=> k \in DOMAIN t \/ k \in DOMAIN s
      /\ \A k \in DOMAIN t : k \notin DOMAIN s => u[k] = t[k]
      /\ \A k \in DOMAIN s : u[k].real = s[k].real
      /\ \A k \in DOMAIN s : k \in DOMAIN t => u[k].type = t[k].type
      /\ \A k \in DOMAIN s : k \notin DOMAIN t => u[k].type = s[k].type
  BY <1>3, MergedItems
<1>5. \A k \in DOMAIN u : ~u[k].deleted
  <2>1. /\ \A k : k \in DOMAIN u <=> k \in DOMAIN t \/ k \in DOMAIN s
        /\ \A k \in DOMAIN t : k \notin DOMAIN s => u[k] = t[k]
        /\ \A k \in DOMAIN s : k \in DOMAIN t => u[k] = Relinked(t[k], s[k])
        /\ \A k \in DOMAIN s : k \notin DOMAIN t => u[k] = Cloned(s[k], Parent(k) \in DOMAIN t)
    BY DEF Merged
  <2>2. /\ \A k \in DOMAIN t : t[k] \in Item(Real) /\ ~t[k].deleted
        /\ \A k \in DOMAIN s : s[k] \in Item(Real) /\ ~s[k].deleted
    BY <1>2, <1>3 DEF GoodTree, Sound, IsTree, LaidAs
  <2>3. ASSUME NEW x \in Item(Real), NEW y, ~x.deleted
        PROVE  ~Relinked(x, y).deleted
    BY <2>3 DEF Relinked, Item
  <2>4. ASSUME NEW x \in Item(Real), NEW b, ~x.deleted
        PROVE  ~Cloned(x, b).deleted
    BY <2>4 DEF Cloned, Marked, Item
  <2>. HIDE DEF u
  <2>. QED  BY <2>1, <2>2, <2>3, <2>4
<1>. HIDE DEF u
<1>6. /\ i \in DOMAIN layers /\ i \in 1..i
      /\ \A j \in 1..i - 1 : j \in 1..i /\ j \in DOMAIN layers
      /\ \A j \in 1..i : j =< i /\ (j = i \/ j \in 1..i - 1)
  BY <1>1
<1>7. \A j \in 1..i : \A p \in Walked(d, layers[j]) : Fold(p) \in DOMAIN u
  <2>. SUFFICES ASSUME NEW j \in 1..i, NEW p \in Walked(d, layers[j])
                PROVE  Fold(p) \in DOMAIN u
    OBVIOUS
  <2>1. CASE j = i
    BY <1>2, <1>4, <2>1
  <2>2. CASE j \in 1..i - 1
    BY <1>4, <2>2 DEF LaidAs
  <2>. QED  BY <1>6, <2>1, <2>2
<1>8. ASSUME NEW k \in DOMAIN u
      PROVE  \E j \in 1..i : \E p \in Walked(d, layers[j]) :
               /\ Topmost(d, layers, i, j, p)
               /\ Fold(p) = k /\ u[k].real = <<layers[j]>> \o p
               /\ u[k].type = "dir" <=> DirAt(d, <<layers[j]>> \o p)
  <2>1. CASE k \notin DOMAIN s
    <3>1. k \in DOMAIN t /\ u[k] = t[k]
      BY <1>4, <1>8, <2>1
    <3>2. PICK j \in 1..i - 1 : \E p \in Walked(d, layers[j]) :
                 /\ Topmost(d, layers, i - 1, j, p)
                 /\ Fold(p) = k /\ t[k].real = <<layers[j]>> \o p
                 /\ t[k].type = "dir" <=> DirAt(d, <<layers[j]>> \o p)
      BY <3>1 DEF LaidAs
    <3>3. PICK p \in Walked(d, layers[j]) :
                 /\ Topmost(d, layers, i - 1, j, p)
                 /\ Fold(p) = k /\ t[k].real = <<layers[j]>> \o p
                 /\ t[k].type = "dir" <=> DirAt(d, <<layers[j]>> \o p)
      BY <3>2
    <3>4. Topmost(d, layers, i, j, p)
      <4>. SUFFICES ASSUME NEW l \in 1..i, NEW q \in Walked(d, layers[l]), Fold(q) = Fold(p)
                    PROVE  l =< j
        BY DEF Topmost
      <4>1. l # i
        BY <1>2, <2>1, <3>3
      <4>. QED  BY <1>6, <3>3, <4>1 DEF Topmost
    <3>. QED  BY <1>6, <3>1, <3>3, <3>4
  <2>2. CASE k \in DOMAIN s
    <3>1. PICK q \in Walked(d, top) :
            /\ Fold(q) = k /\ s[k].real = <<top>> \o q
            /\ s[k].type = "dir" <=> DirAt(d, <<top>> \o q)
      BY <1>2, <2>2
    <3>2. u[k].real = <<top>> \o q
      BY <1>4, <2>2, <3>1
    <3>3. Topmost(d, layers, i, i, q)
      BY <1>6 DEF Topmost
    <3>4. u[k].type = "dir" <=> DirAt(d, <<top>> \o q)
      <4>1. CASE k \notin DOMAIN t
        BY <1>4, <2>2, <3>1, <4>1
      <4>2. CASE k \in DOMAIN t
        <5>1. PICK j \in 1..i - 1 : \E p \in Walked(d, layers[j]) :
                 /\ Fold(p) = k
                 /\ t[k].type = "dir" <=> DirAt(d, <<layers[j]>> \o p)
          BY <4>2 DEF LaidAs
        <5>2. PICK p \in Walked(d, layers[j]) :
                 /\ Fold(p) = k
                 /\ t[k].type = "dir" <=> DirAt(d, <<layers[j]>> \o p)
          BY <5>1
        <5>3. DirAt(d, <<layers[j]>> \o p) <=> DirAt(d, <<top>> \o q)
          BY <1>6, <3>1, <5>2 DEF LayersAgree
        <5>. QED  BY <1>4, <2>2, <4>2, <5>2, <5>3
      <4>. QED  BY <4>1, <4>2
    <3>. QED  BY <1>6, <3>1, <3>2, <3>3, <3>4
  <2>. QED  BY <2>1, <2>2
<1>9. LaidAs(u, d, layers, i)
  BY <1>5, <1>7, <1>8 DEF LaidAs
<1>. QED  BY <1>9 DEF u, s

\* The tree of a mount, without links.
LEMMA LinkedTreeLaidAs ==
  ASSUME NEW d, IsDisk(d), GivenDirs(d), NEW layers \in Seq(DOMAIN HostDirs), layers # <<>>,
         Links = {}, LayersAgree(d, layers)
  PROVE  LaidAs(LinkedTree(d, layers), d, layers, Len(layers))
<1>. DEFINE n == Len(layers)
<1>1. n \in Nat /\ n >= 1
  BY LenProperties, EmptySeq
<1>2. PICK laid :
        /\ LinkedTree(d, layers) = laid[n]
        /\ laid[1] = WithLinks(Scan(d, layers[1]))
        /\ \A i \in 1..n :
             /\ GoodTree(laid[i])
             /\ i # 1 => laid[i] = Merged(laid[i - 1], Scan(d, layers[i]))
  BY LinkedTreeLaid
<1>. DEFINE H == {i \in Nat : LaidAs(laid[i], d, layers, i)}
<1>3. 1 \in H
  <2>1. laid[1] = Scan(d, layers[1])
    BY <1>2 DEF WithLinks
  <2>2. LaidAs(Scan(d, layers[1]), d, layers, 1)
    BY FirstLaidAs
  <2>. QED  BY <2>1, <2>2
<1>4. ASSUME NEW i \in 1..n, i # 1, i - 1 \in H  PROVE i \in H
  <2>1. i - 1 \in 1..n /\ i \in Nat
    BY <1>1, <1>4
  <2>2. GoodTree(laid[i - 1]) /\ LaidAs(laid[i - 1], d, layers, i - 1)
    BY <1>2, <1>4, <2>1
  <2>3. LaidAs(Merged(laid[i - 1], Scan(d, layers[i])), d, layers, i)
    BY <1>4, <2>2, NextLaidAs
  <2>. QED  BY <1>2, <1>4, <2>1, <2>3
<1>. HIDE DEF H
<1>5. 1..n \subseteq H
  <2>1. 1 \in Nat
    OBVIOUS
  <2>. HIDE DEF n
  <2>. QED  BY <1>1, <1>3, <1>4, <2>1, Induction
<1>6. n \in 1..n
  BY <1>1
<1>. QED  BY <1>2, <1>5, <1>6 DEF H

\* What is found below a directory has been found in one that was walked.
LEMMA WalkedUp ==
  ASSUME NEW d, IsDisk(d), GivenDirs(d), Apart(d), NEW top \in DOMAIN HostDirs,
         NEW p \in Walked(d, top), p # <<>>
  PROVE  /\ Parent(p) \in Walked(d, top) /\ Base(p) \in Name
         /\ Parent(<<top>> \o p) = <<top>> \o Parent(p) /\ Base(<<top>> \o p) = Base(p)
         /\ HostId(d, <<top>> \o p) = StepTo(d, HostId(d, <<top>> \o Parent(p)), Base(p))
         /\ HostId(d, <<top>> \o Parent(p)) \in DOMAIN d /\ DirAt(d, <<top>> \o Parent(p))
<1>. DEFINE r == <<top>> \o p
            s == <<top>> \o Parent(p)
            g == HostId(d, s)
<1>1. p \in HostPaths /\ p \in Seq(Name) /\ Parent(p) \in HostPaths /\ HostId(d, r) # NoFd
  BY HostPathsType DEF Walked
<1>2. IsRealPath(r) /\ Parent(r) = s /\ Len(r) # 1 /\ Parent(p) \in Seq(Name)
  BY <1>1, JoinedPath, JoinedParent
<1>3. Base(r) = Base(p) /\ Base(p) \in Name
  <2>1. Len(r) = Len(p) + 1 /\ \A i \in 2..Len(p) + 1 : r[i] = p[i - 1]
    BY <1>1, JoinedPath
  <2>2. Len(p) \in Nat \ {0}
    BY <1>1, ParentOf
  <2>. DEFINE l == Len(p)
  <2>3. l + 1 \in 2..l + 1 /\ l + 1 - 1 = l
    BY <2>2
  <2>4. r[l + 1] = p[l]
    BY <2>1, <2>3
  <2>5. Base(p) \in Name
    BY <1>1, FoldBase
  <2>. QED  BY <2>1, <2>4, <2>5 DEF Base
<1>4. IsRealPath(s)
  BY <1>2, JoinedPath
<1>. HIDE DEF r, s
<1>5. HostId(d, r) = StepTo(d, g, Base(p))
  BY <1>2, <1>3, HostIdUp
<1>6. g \in DOMAIN d \cup {NoFd}
  BY <1>4, HostIdType
<1>. HIDE DEF g
<1>7. g # NoFd
  BY <1>1, <1>5 DEF StepTo
<1>8. g \in DOMAIN d /\ d[g].kind = "dir"
  BY <1>1, <1>3, <1>5, <1>6, <1>7 DEF Apart
<1>. QED  BY <1>1, <1>2, <1>3, <1>5, <1>7, <1>8 DEF Walked, DirAt, g, r, s

\* What is in a directory that was walked has been walked, if the depth allows.
LEMMA WalkedDown ==
  ASSUME NEW d, IsDisk(d), GivenDirs(d), NEW top \in DOMAIN HostDirs,
         NEW p \in Walked(d, top), Len(p) # Depth, NEW n \in Name,
         StepTo(d, HostId(d, <<top>> \o p), n) # NoFd
  PROVE  /\ Append(p, n) \in Walked(d, top) /\ Append(p, n) # <<>>
         /\ Parent(Append(p, n)) = p /\ Base(Append(p, n)) = n
         /\ Fold(Append(p, n)) = Append(Fold(p), Lower[n])
         /\ HostId(d, <<top>> \o Append(p, n)) = StepTo(d, HostId(d, <<top>> \o p), n)
<1>. DEFINE q == Append(p, n)
<1>1. p \in Seq(Name) /\ Len(p) \in Nat /\ Len(p) =< Depth
  BY HostPathsType DEF Walked
<1>2. /\ q \in Seq(Name) /\ Len(q) = Len(p) + 1 /\ q[Len(p) + 1] = n
      /\ \A i \in 1..Len(p) : q[i] = p[i]
  BY <1>1, AppendProperties
<1>. HIDE DEF q
<1>3. q # <<>>
  BY <1>1, <1>2, EmptyList
<1>4. Parent(q) = p /\ Base(q) = n
  <2>1. /\ Parent(q) \in Seq(Name) /\ Len(Parent(q)) = Len(q) - 1
        /\ \A i \in 1..Len(q) - 1 : Parent(q)[i] = q[i]
    BY <1>2, <1>3, ParentOf
  <2>2. Len(q) - 1 = Len(p)
    BY <1>1, <1>2
  <2>3. Parent(q) = p
    BY <1>1, <1>2, <2>1, <2>2, SameSequence
  <2>. QED  BY <1>2, <2>3 DEF Base
<1>5. Fold(q) = Append(Fold(p), Lower[n])
  <2>1. Fold(q) \in Seq(Key) /\ Fold(q) # <<>> /\ Fold(p) \in Seq(Key)
    BY <1>1, <1>2, <1>3, FoldProperties
  <2>2. Parent(Fold(q)) = Fold(p)
    BY <1>2, <1>3, <1>4, FoldParent
  <2>3. Base(Fold(q)) = Lower[n]
    BY <1>2, <1>3, <1>4, FoldBase
  <2>. QED  BY ONLY <2>1, <2>2, <2>3, n \in Name, ChildIsOne
<1>6. q \in HostPaths
  <2>1. Len(q) \in 0..Depth
    <3>1. Depth \in Nat
      BY UsvfsAssumption
    <3>. DEFINE l == Len(p)
    <3>2. l \in Nat /\ l =< Depth /\ l # Depth /\ Len(q) = l + 1
      BY <1>1, <1>2
    <3>. HIDE DEF l
    <3>. QED  BY ONLY <3>1, <3>2
  <2>2. q \in [1..Len(q) -> Name]
    <3>1. q \in Seq(Name)
      BY <1>2
    <3>. QED  BY ONLY <3>1, LenProperties
  <2>. DEFINE l == Len(q)
  <2>3. l \in 0..Depth /\ q \in [1..l -> Name]
    BY <2>1, <2>2
  <2>. HIDE DEF l
  <2>. QED  BY <2>3 DEF HostPaths
<1>7. HostId(d, <<top>> \o q) = StepTo(d, HostId(d, <<top>> \o p), n)
  <2>. DEFINE r == <<top>> \o q
  <2>1. IsRealPath(r) /\ Parent(r) = <<top>> \o p /\ Len(r) # 1
    <3>1. top \in DOMAIN HostDirs /\ q \in Seq(Name) /\ q # <<>>
      BY <1>2, <1>3
    <3>2. Parent(<<top>> \o q) = <<top>> \o Parent(q) /\ Len(<<top>> \o q) # 1
      BY ONLY <3>1, JoinedParent
    <3>3. IsRealPath(<<top>> \o q)
      BY ONLY <3>1, JoinedPath
    <3>. QED  BY <1>4, <3>2, <3>3
  <2>2. Base(r) = n
    <3>1. Len(r) = Len(q) + 1 /\ \A i \in 2..Len(q) + 1 : r[i] = q[i - 1]
      BY <1>2, JoinedPath
    <3>. DEFINE l == Len(q)
    <3>2. l \in Nat \ {0}
      BY <1>1, <1>2
    <3>3. l + 1 \in 2..l + 1 /\ l + 1 - 1 = l
      BY <3>2
    <3>4. r[l + 1] = q[l]
      BY <3>1, <3>3
    <3>. QED  BY <1>4, <3>1, <3>4 DEF Base
  <2>. HIDE DEF r
  <2>3. HostId(d, r) = StepTo(d, HostId(d, Parent(r)), Base(r))
    BY <2>1, HostIdUp
  <2>. QED  BY <2>1, <2>2, <2>3 DEF r
<1>8. q \in Walked(d, top)
  BY <1>6, <1>7 DEF Walked
<1>. QED  BY <1>3, <1>4, <1>5, <1>7, <1>8 DEF q

\* The walk gets everywhere, and what the upper directory has is linked last.
Fits(d, layers) ==
  /\ LayersAgree(d, layers)
  /\ \A i \in DOMAIN layers : \A p \in Walked(d, layers[i]) :
       Len(p) = Depth => \A n \in Name : StepTo(d, HostId(d, <<layers[i]>> \o p), n) = NoFd
  /\ HasUpper => \/ layers[Len(layers)] = UpperDir
                 \/ \A n \in Name : StepTo(d, HostDirs[UpperDir], n) = NoFd

\* Nothing is found below an empty directory.
LEMMA NothingWalked ==
  ASSUME NEW d, IsDisk(d), GivenDirs(d), Apart(d), NEW top \in DOMAIN HostDirs,
         \A n \in Name : StepTo(d, HostDirs[top], n) = NoFd
  PROVE  \A p \in Walked(d, top) : p = <<>>
<1>. DEFINE H == {i \in Nat : \A p \in Walked(d, top) : Len(p) # i}
<1>1. \A p \in Walked(d, top) : p \in Seq(Name) /\ Len(p) \in Nat
  BY HostPathsType DEF Walked
<1>2. ASSUME NEW n \in Nat  PROVE 1..n \subseteq H
  <2>1. 1 \in H
    <3>. SUFFICES ASSUME NEW p \in Walked(d, top), Len(p) = 1  PROVE FALSE
      BY DEF H
    <3>1. p \in Seq(Name) /\ p # <<>>
      BY <1>1, EmptyList
    <3>2. Parent(p) \in Seq(Name) /\ Len(Parent(p)) = 0
      BY <3>1, ParentOf
    <3>3. /\ Base(p) \in Name
          /\ HostId(d, <<top>> \o p) = StepTo(d, HostId(d, <<top>> \o Parent(p)), Base(p))
      BY <3>1, WalkedUp
    <3>. DEFINE s == <<top>> \o Parent(p)
    <3>4. IsRealPath(s) /\ Len(s) = 1 /\ s[1] = top
      <4>. DEFINE o == Parent(p)
      <4>1. top \in DOMAIN HostDirs /\ o \in Seq(Name) /\ Len(o) = 0 /\ s = <<top>> \o o
        BY <3>2
      <4>. HIDE DEF o, s
      <4>2. /\ IsRealPath(<<top>> \o o) /\ (<<top>> \o o)[1] = top
            /\ Len(<<top>> \o o) = Len(o) + 1
        BY ONLY <4>1, JoinedPath
      <4>. QED  BY ONLY <4>1, <4>2
    <3>. HIDE DEF s
    <3>5. HostId(d, s) = HostDirs[top]
      BY <3>4, HostIdType
    <3>. QED  BY <3>3, <3>5 DEF s, Walked
  <2>2. ASSUME NEW i \in 1..n, i # 1, i - 1 \in H  PROVE i \in H
    <3>. SUFFICES ASSUME NEW p \in Walked(d, top), Len(p) = i  PROVE FALSE
      BY DEF H
    <3>1. p \in Seq(Name) /\ p # <<>>
      BY <1>1, EmptyList
    <3>2. Parent(p) \in Walked(d, top)
      BY <3>1, WalkedUp
    <3>3. Len(Parent(p)) = i - 1
      BY <3>1, ParentOf
    <3>. QED  BY <2>2, <3>2, <3>3
  <2>. HIDE DEF H
  <2>3. 1 \in Nat
    OBVIOUS
  <2>. QED  BY <2>1, <2>2, <2>3, Induction
<1>. SUFFICES ASSUME NEW p \in Walked(d, top), p # <<>>  PROVE FALSE
  OBVIOUS
<1>3. p \in Seq(Name) /\ Len(p) \in Nat /\ Len(p) # 0
  BY <1>1, LenProperties, EmptySeq
<1>. DEFINE n == Len(p)
<1>4. n \in 1..n /\ n \in Nat
  BY <1>3
<1>5. n \in H
  <2>. HIDE DEF n, H
  <2>. QED  BY <1>2, <1>4
<1>. QED  BY <1>5

\* The item that shows what is walked by the name n in p, below top.
ShownOnTop(d, t, top, p, n, q, c) ==
  /\ q \in Walked(d, top) /\ q # <<>> /\ Fold(q) = c
  /\ HostId(d, <<top>> \o q) = StepTo(d, HostId(d, <<top>> \o p), n)
  /\ Parent(<<top>> \o q) = <<top>> \o p /\ Base(<<top>> \o q) = n
  /\ c \in DOMAIN t /\ ~t[c].deleted /\ t[c].real = <<top>> \o q

\* What is in a directory that is linked last with its key is what the tree shows there.
LEMMA NameOnTop ==
  ASSUME NEW d, IsDisk(d), GivenDirs(d), Apart(d), NEW layers \in Seq(DOMAIN HostDirs),
         Linkable(d, layers), Fits(d, layers), NEW t, LaidAs(t, d, layers, Len(layers)),
         NEW j \in 1..Len(layers), NEW top, top = layers[j],
         NEW p \in Walked(d, top), Topmost(d, layers, Len(layers), j, p),
         NEW n \in Name, StepTo(d, HostId(d, <<top>> \o p), n) # NoFd,
         NEW q, q = Append(p, n), NEW c, c = Append(Fold(p), Lower[n])
  PROVE  ShownOnTop(d, t, top, p, n, q, c)
<1>1. DOMAIN layers = 1..Len(layers) /\ Len(layers) \in Nat /\ top \in DOMAIN HostDirs
  BY LenProperties
<1>2. Len(p) # Depth
  BY <1>1 DEF Fits
<1>3. /\ q \in Walked(d, top) /\ q # <<>> /\ Parent(q) = p /\ Base(q) = n /\ Fold(q) = c
      /\ HostId(d, <<top>> \o q) = StepTo(d, HostId(d, <<top>> \o p), n)
  <2>1. /\ IsDisk(d) /\ GivenDirs(d) /\ top \in DOMAIN HostDirs /\ p \in Walked(d, top)
        /\ n \in Name /\ StepTo(d, HostId(d, <<top>> \o p), n) # NoFd /\ q = Append(p, n)
    BY <1>1
  <2>2. /\ q \in Walked(d, top) /\ q # <<>> /\ Parent(q) = p /\ Base(q) = n
        /\ Fold(q) = Append(Fold(p), Lower[n])
        /\ HostId(d, <<top>> \o q) = StepTo(d, HostId(d, <<top>> \o p), n)
    BY ONLY <1>2, <2>1, WalkedDown
  <2>. QED  BY <2>2
<1>4. Parent(<<top>> \o q) = <<top>> \o p /\ Base(<<top>> \o q) = n
  BY <1>1, <1>3, WalkedUp
<1>5. c \in DOMAIN t /\ ~t[c].deleted
  BY <1>3 DEF LaidAs
<1>6. PICK i \in 1..Len(layers) : \E x \in Walked(d, layers[i]) :
        /\ Topmost(d, layers, Len(layers), i, x)
        /\ Fold(x) = c /\ t[c].real = <<layers[i]>> \o x
  BY <1>5 DEF LaidAs
<1>7. PICK x \in Walked(d, layers[i]) :
        /\ Topmost(d, layers, Len(layers), i, x)
        /\ Fold(x) = c /\ t[c].real = <<layers[i]>> \o x
  BY <1>6
<1>8. j =< i
  BY <1>3, <1>7 DEF Topmost
<1>9. i =< j
  <2>1. x \in Seq(Name) /\ q \in Seq(Name)
    BY <1>3, HostPathsType DEF Walked
  <2>2. x # <<>>
    BY <1>3, <1>7, <2>1, FoldProperties
  <2>3. layers[i] \in DOMAIN HostDirs
    BY <1>1, LenProperties
  <2>4. Parent(x) \in Walked(d, layers[i])
    BY <1>7, <2>2, <2>3, WalkedUp
  <2>5. Fold(Parent(x)) = Fold(p)
    <3>1. Fold(Parent(x)) = Parent(c)
      BY <1>7, <2>1, <2>2, FoldParent
    <3>2. Fold(Parent(q)) = Parent(c)
      BY <1>3, <2>1, FoldParent
    <3>. QED  BY <1>3, <3>1, <3>2
  <2>. QED  BY <2>4, <2>5 DEF Topmost
<1>10. i = j
  BY <1>1, <1>8, <1>9
<1>11. x = q
  <2>1. top \in ToSet(layers) /\ x \in Walked(d, top) /\ Fold(x) = Fold(q)
    BY <1>1, <1>3, <1>7, <1>10 DEF ToSet
  <2>. QED  BY <1>3, <2>1 DEF Linkable
<1>. QED  BY <1>3, <1>4, <1>5, <1>7, <1>10, <1>11 DEF ShownOnTop

\* A directory that a mount has opened, which the map takes for r, of key k.
OpenedFor(d, layers, m, k, r) ==
  \E o \in OpenedOf(d, layers) :
    /\ At(m, r) = At(m, o) /\ KeyedReal(k, o) /\ o[1] = r[1]
    /\ k # <<>> =>
         \E j \in 1..Len(layers) : \E p \in Walked(d, layers[j]) :
           o = <<layers[j]>> \o p /\ Fold(p) = k /\ o[1] = layers[j]

\* The directories that the map of a mount has: given ones, or walked ones.
LEMMA OpenOnes ==
  ASSUME NEW d, NEW layers \in Seq(DOMAIN HostDirs), LinksKeyed,
         NEW m, m = InitFdMap(d, layers), NEW k \in Seq(Key), NEW r, KeyedReal(k, r),
         At(m, r) # NoFd
  PROVE  OpenedFor(d, layers, m, k, r)
<1>1. DOMAIN m = {RealKey(o) : o \in OpenedOf(d, layers)}
  BY DEF InitFdMap, OpenedOf
<1>2. RealKey(r) \in DOMAIN m
  BY DEF At
<1>3. PICK o \in OpenedOf(d, layers) : RealKey(r) = RealKey(o)
  BY <1>1, <1>2
<1>4. PICK q \in Seq(Key) :
        /\ KeyedReal(q, o)
        /\ q # <<>> =>
             \E top \in ToSet(layers) : \E p \in Walked(d, top) :
               o = <<top>> \o p /\ Fold(p) = q /\ o[1] = top
  BY OpenedKeyed
<1>5. k = q /\ r[1] = o[1]
  BY <1>3, <1>4, KeyedSame
<1>6. At(m, r) = At(m, o)
  BY <1>3 DEF At
<1>7. ASSUME k # <<>>
      PROVE  \E j \in 1..Len(layers) : \E p \in Walked(d, layers[j]) :
               o = <<layers[j]>> \o p /\ Fold(p) = k /\ o[1] = layers[j]
  <2>1. PICK top \in ToSet(layers) : \E p \in Walked(d, top) :
               o = <<top>> \o p /\ Fold(p) = k /\ o[1] = top
    BY <1>4, <1>5, <1>7
  <2>2. PICK j \in 1..Len(layers) : top = layers[j]
    BY LenProperties DEF ToSet
  <2>. QED  BY <2>1, <2>2
<1>. QED  BY <1>4, <1>5, <1>6, <1>7 DEF OpenedFor

\* What a mount without links shows, and what it has open.
LEMMA LinkedShows ==
  ASSUME NEW d, IsDisk(d), GivenDirs(d), Apart(d),
         NEW layers \in Seq(DOMAIN HostDirs), layers # <<>>, Links = {},
         Linkable(d, layers), Fits(d, layers),
         NEW t, t = LinkedTree(d, layers), NEW m, m = InitFdMap(d, layers)
  PROVE  /\ GoodTree(t) /\ Keyed(t) /\ LinksKeyed /\ LaidAs(t, d, layers, Len(layers))
         /\ \A r \in OpenedOf(d, layers) : At(m, r) = HostId(d, r) /\ DirAt(d, r)
         /\ \A j \in 1..Len(layers) : \A p \in Walked(d, layers[j]) :
              /\ t[Fold(p)].type = "dir" <=> DirAt(d, <<layers[j]>> \o p)
              /\ DirAt(d, <<layers[j]>> \o p) =>
                   At(m, <<layers[j]>> \o p) = HostId(d, <<layers[j]>> \o p)
<1>1. LinksKeyed /\ LayersMatch(d, layers)
  BY DEF LinksKeyed, LayersMatch, Fits, LayersAgree
<1>2. LaidAs(t, d, layers, Len(layers)) /\ GoodTree(t) /\ Keyed(t)
  BY <1>1, LinkedTreeLaidAs, LinkedTreeGood, LinkedLeads DEF Fits
<1>3. \A r \in OpenedOf(d, layers) : At(m, r) = HostId(d, r) /\ DirAt(d, r)
  <2>1. \A r \in OpenedOf(d, layers) : At(m, r) = HostId(d, r)
    BY <1>1, InitFdMapLeads
  <2>. QED  BY <2>1 DEF OpenedOf, DirAt
<1>4. ASSUME NEW j \in 1..Len(layers), NEW p \in Walked(d, layers[j])
      PROVE  /\ t[Fold(p)].type = "dir" <=> DirAt(d, <<layers[j]>> \o p)
             /\ DirAt(d, <<layers[j]>> \o p) =>
                  At(m, <<layers[j]>> \o p) = HostId(d, <<layers[j]>> \o p)
  <2>. DEFINE top == layers[j]
              r == <<top>> \o p
  <2>1. DOMAIN layers = 1..Len(layers) /\ top \in DOMAIN HostDirs /\ top \in ToSet(layers)
    BY LenProperties DEF ToSet
  <2>2. t[Fold(p)].type = "dir" <=> DirAt(d, r)
    <3>1. Fold(p) \in DOMAIN t
      BY <1>2 DEF LaidAs
    <3>2. PICK i \in 1..Len(layers) : \E q \in Walked(d, layers[i]) :
            /\ Fold(q) = Fold(p)
            /\ t[Fold(p)].type = "dir" <=> DirAt(d, <<layers[i]>> \o q)
      BY <1>2, <3>1 DEF LaidAs
    <3>3. PICK q \in Walked(d, layers[i]) :
            /\ Fold(q) = Fold(p)
            /\ t[Fold(p)].type = "dir" <=> DirAt(d, <<layers[i]>> \o q)
      BY <3>2
    <3>4. DirAt(d, <<layers[i]>> \o q) <=> DirAt(d, r)
      BY <2>1, <3>3 DEF Fits, LayersAgree
    <3>. QED  BY <3>3, <3>4
  <2>3. ASSUME DirAt(d, r)  PROVE At(m, r) = HostId(d, r)
    <3>1. r \in DirsBelow(layers)
      BY <2>1 DEF DirsBelow, Walked
    <3>. HIDE DEF r
    <3>2. r \in OpenedOf(d, layers)
      BY <2>3, <3>1 DEF OpenedOf, OpenedDirs, DirAt
    <3>. QED  BY <1>3, <3>2
  <2>. QED  BY <2>2, <2>3
<1>. QED  BY <1>1, <1>2, <1>3, <1>4

\* The home of k is a directory that was walked last with that key.
WalkedHome(d, layers, t, m, k) ==
  \E j \in 1..Len(layers) : \E p \in Walked(d, layers[j]) :
    /\ Topmost(d, layers, Len(layers), j, p) /\ Fold(p) = k
    /\ At(m, <<layers[j]>> \o p) = At(m, Home(t, k))
    /\ HostId(d, <<layers[j]>> \o p) = At(m, Home(t, k))
    /\ HasUpper => layers[j] = UpperDir

\* The directory a name is made in is one that was walked last with its key.
LEMMA HomeWalked ==
  ASSUME NEW d, IsDisk(d), GivenDirs(d), Apart(d),
         NEW layers \in Seq(DOMAIN HostDirs), layers # <<>>, Links = {},
         Linkable(d, layers), Fits(d, layers),
         NEW t, t = LinkedTree(d, layers), NEW m, m = InitFdMap(d, layers),
         DirsOpen(t, m), NEW k \in DOMAIN t, NEW n \in Name,
         At(m, Home(t, k)) \in DOMAIN d, StepTo(d, At(m, Home(t, k)), n) # NoFd
  PROVE  WalkedHome(d, layers, t, m, k)
<1>. SUFFICES \E j \in 1..Len(layers) : \E p \in Walked(d, layers[j]) :
                /\ Topmost(d, layers, Len(layers), j, p) /\ Fold(p) = k
                /\ At(m, <<layers[j]>> \o p) = At(m, Home(t, k))
                /\ HostId(d, <<layers[j]>> \o p) = At(m, Home(t, k))
                /\ HasUpper => layers[j] = UpperDir
  BY DEF WalkedHome
<1>. DEFINE h == At(m, Home(t, k))
            last == Len(layers)
<1>1. /\ GoodTree(t) /\ Keyed(t) /\ LinksKeyed /\ LaidAs(t, d, layers, last)
      /\ \A r \in OpenedOf(d, layers) : At(m, r) = HostId(d, r) /\ DirAt(d, r)
      /\ \A j \in 1..last : \A p \in Walked(d, layers[j]) :
           /\ t[Fold(p)].type = "dir" <=> DirAt(d, <<layers[j]>> \o p)
           /\ DirAt(d, <<layers[j]>> \o p) =>
                At(m, <<layers[j]>> \o p) = HostId(d, <<layers[j]>> \o p)
  BY LinkedShows
<1>2. k \in Seq(Key) /\ KeyedReal(k, Home(t, k))
  <2>1. k \in Seq(Key)
    BY <1>1, ItemKeys
  <2>. QED  BY <1>1, <2>1, HomeKeyed
<1>3. h # NoFd /\ h # Stdin
  BY NoFdNotThere
<1>4. DOMAIN layers = 1..last /\ last \in Nat /\ last \in 1..last /\ layers[last] \in DOMAIN HostDirs
  BY LenProperties, EmptySeq
<1>5. CASE ~HasUpper
  <2>1. PICK j \in 1..last : \E p \in Walked(d, layers[j]) :
               Topmost(d, layers, last, j, p) /\ Fold(p) = k /\ t[k].real = <<layers[j]>> \o p
    BY <1>1 DEF LaidAs
  <2>2. PICK p \in Walked(d, layers[j]) :
               Topmost(d, layers, last, j, p) /\ Fold(p) = k /\ t[k].real = <<layers[j]>> \o p
    BY <2>1
  <2>3. Home(t, k) = <<layers[j]>> \o p
    BY <1>5, <2>2 DEF Home
  <2>4. t[k].type = "dir"
    BY <1>2, <1>3 DEF DirsOpen
  <2>5. DirAt(d, <<layers[j]>> \o p)
    BY <1>1, <2>2, <2>4
  <2>6. At(m, <<layers[j]>> \o p) = HostId(d, <<layers[j]>> \o p)
    BY <1>1, <2>5
  <2>. QED  BY <1>5, <2>2, <2>3, <2>6
<1>6. CASE HasUpper
  <2>1. UpperDir \in DOMAIN HostDirs
    BY <1>6, UpperGiven
  <2>2. Home(t, k)[1] = UpperDir
    <3>1. Key \subseteq Name
      BY LowerAssumption DEF Key
    <3>2. k \in Seq(Name)
      BY <1>2, <3>1
    <3>3. (<<UpperDir>> \o k)[1] = UpperDir
      BY <2>1, <3>2, JoinedPath
    <3>. QED  BY <1>6, <3>3 DEF Home
  <2>3. PICK o \in OpenedOf(d, layers) :
           /\ h = At(m, o) /\ KeyedReal(k, o) /\ o[1] = UpperDir
           /\ k # <<>> =>
                \E j \in 1..Len(layers) : \E p \in Walked(d, layers[j]) :
                  o = <<layers[j]>> \o p /\ Fold(p) = k /\ o[1] = layers[j]
    <3>1. PICK o \in OpenedOf(d, layers) :
           /\ At(m, Home(t, k)) = At(m, o) /\ KeyedReal(k, o) /\ o[1] = Home(t, k)[1]
           /\ k # <<>> =>
                \E j \in 1..Len(layers) : \E p \in Walked(d, layers[j]) :
                  o = <<layers[j]>> \o p /\ Fold(p) = k /\ o[1] = layers[j]
      <4>. DEFINE hm == Home(t, k)
      <4>1. /\ layers \in Seq(DOMAIN HostDirs) /\ LinksKeyed /\ m = InitFdMap(d, layers)
            /\ k \in Seq(Key) /\ KeyedReal(k, hm) /\ At(m, hm) # NoFd
        BY <1>1, <1>2, <1>3
      <4>. HIDE DEF hm
      <4>2. OpenedFor(d, layers, m, k, hm)
        BY ONLY <4>1, OpenOnes
      <4>. QED  BY <4>2 DEF hm, OpenedFor
    <3>. QED  BY <2>2, <3>1
  <2>4. h = HostId(d, o)
    BY <1>1, <2>3
  <2>5. \A p : Topmost(d, layers, last, last, p)
    BY <1>4 DEF Topmost
  <2>6. CASE k = <<>>
    <3>. DEFINE e == <<>>
    <3>1. e \in Seq(Name) /\ Len(e) = 0 /\ e \in HostPaths /\ Fold(e) = k
      <4>1. e \in Seq(Name) /\ Len(e) = 0 /\ e \in HostPaths
        BY EmptyList, HostPathsType
      <4>2. Fold(e) = e
        BY <4>1, FoldProperties
      <4>. QED  BY <2>6, <4>1, <4>2
    <3>. DEFINE r == <<UpperDir>> \o e
    <3>. HIDE DEF e
    <3>2. IsRealPath(r) /\ Len(r) = 1 /\ r[1] = UpperDir
      <4>1. IsRealPath(r) /\ Len(r) = Len(e) + 1 /\ r[1] = UpperDir
        BY <2>1, <3>1, JoinedPath
      <4>. QED  BY <3>1, <4>1
    <3>3. IsRealPath(o) /\ Len(o) = 1
      <4>1. Len(k) = 0
        BY <2>6, EmptyList
      <4>. QED  BY <2>3, <4>1 DEF KeyedReal
    <3>. HIDE DEF r
    <3>4. HostId(d, o) = HostDirs[UpperDir] /\ HostId(d, r) = HostDirs[UpperDir]
      BY <2>3, <3>2, <3>3, HostIdType
    <3>5. layers[last] = UpperDir
      BY <1>6, <2>4, <3>4 DEF Fits
    <3>6. e \in Walked(d, UpperDir)
      BY <1>3, <2>4, <3>1, <3>4 DEF Walked, r
    <3>7. At(m, r) = h
      <4>1. RealKey(r) = RealKey(o)
        <5>1. o \in Real /\ r \in Real /\ \A i \in 1..Len(o) : o[i] = r[i]
          BY <2>3, <3>2, <3>3 DEF IsRealPath
        <5>2. o = r
          BY <3>2, <3>3, <5>1, SameSequence DEF Real
        <5>. QED  BY <5>2
      <4>. QED  BY <2>3, <4>1 DEF At
    <3>. QED  BY <1>4, <2>4, <2>5, <3>1, <3>4, <3>5, <3>6, <3>7 DEF r
  <2>7. CASE k # <<>>
    <3>1. PICK j \in 1..last : \E p \in Walked(d, layers[j]) :
                  o = <<layers[j]>> \o p /\ Fold(p) = k /\ o[1] = layers[j]
      BY <2>3, <2>7
    <3>2. PICK p \in Walked(d, layers[j]) :
                  o = <<layers[j]>> \o p /\ Fold(p) = k /\ o[1] = layers[j]
      BY <3>1
    <3>3. layers[j] = UpperDir
      BY <2>3, <3>2
    <3>4. p # <<>>
      <4>1. p \in Seq(Name)
        BY <3>2, HostPathsType DEF Walked
      <4>. QED  BY <2>7, <3>2, <4>1, FoldProperties
    <3>5. layers[last] = UpperDir
      <4>1. ~ \A x \in Name : StepTo(d, HostDirs[UpperDir], x) = NoFd
        BY <2>1, <3>2, <3>3, <3>4, NothingWalked
      <4>. QED  BY <1>6, <4>1 DEF Fits
    <3>6. layers[last] = layers[j]
      BY <3>3, <3>5
    <3>7. p \in Walked(d, layers[last]) /\ o = <<layers[last]>> \o p /\ Fold(p) = k
      BY <3>2, <3>6
    <3>8. /\ Topmost(d, layers, last, last, p)
          /\ At(m, <<layers[last]>> \o p) = h /\ HostId(d, <<layers[last]>> \o p) = h
      BY ONLY <2>3, <2>4, <2>5, <3>7
    <3>. HIDE DEF h, last
    <3>. QED  BY ONLY <1>4, <3>5, <3>7, <3>8 DEF h, last
  <2>. QED  BY <2>6, <2>7
<1>. QED  BY <1>5, <1>6

\* The directories that a mount has linked: their kinds, parents and files.
LEMMA LinkedDirs ==
  ASSUME NEW d, IsDisk(d), GivenDirs(d), Apart(d),
         NEW layers \in Seq(DOMAIN HostDirs), layers # <<>>, Links = {},
         Linkable(d, layers), Fits(d, layers),
         NEW t, t = LinkedTree(d, layers), NEW m, m = InitFdMap(d, layers)
  PROVE  InDirs(t) /\ FilesLed(t, m, d)
<1>. DEFINE last == Len(layers)
<1>1. /\ GoodTree(t) /\ LaidAs(t, d, layers, last)
      /\ \A j \in 1..last : \A p \in Walked(d, layers[j]) :
           /\ t[Fold(p)].type = "dir" <=> DirAt(d, <<layers[j]>> \o p)
           /\ DirAt(d, <<layers[j]>> \o p) =>
                At(m, <<layers[j]>> \o p) = HostId(d, <<layers[j]>> \o p)
  BY LinkedShows
<1>2. \A k \in DOMAIN t : \E j \in 1..last : \E p \in Walked(d, layers[j]) :
        Fold(p) = k /\ t[k].real = <<layers[j]>> \o p
  BY <1>1 DEF LaidAs
<1>3. \A j \in 1..last : layers[j] \in DOMAIN HostDirs
  BY LenProperties
<1>4. ASSUME NEW k \in DOMAIN t, k # <<>>
      PROVE  /\ t[Parent(k)].type = "dir"
             /\ t[k].type # "dir" => FileLed(m, d, t[k].real)
  <2>1. PICK j \in 1..last : \E p \in Walked(d, layers[j]) :
               Fold(p) = k /\ t[k].real = <<layers[j]>> \o p
    BY <1>2
  <2>2. PICK p \in Walked(d, layers[j]) : Fold(p) = k /\ t[k].real = <<layers[j]>> \o p
    BY <2>1
  <2>. DEFINE top == layers[j]
              r == <<top>> \o p
              s == <<top>> \o Parent(p)
  <2>3. p \in Seq(Name) /\ p # <<>> /\ top \in DOMAIN HostDirs
    <3>1. p \in Seq(Name)
      BY HostPathsType DEF Walked
    <3>. QED  BY <1>3, <1>4, <2>2, <3>1, FoldProperties
  <2>4. /\ Parent(p) \in Walked(d, top) /\ Base(p) \in Name
        /\ Parent(r) = s /\ Base(r) = Base(p)
        /\ HostId(d, r) = StepTo(d, HostId(d, s), Base(p))
        /\ HostId(d, s) \in DOMAIN d /\ DirAt(d, s)
    BY <2>3, WalkedUp
  <2>5. Fold(Parent(p)) = Parent(k)
    BY <2>2, <2>3, FoldParent
  <2>6. t[Fold(Parent(p))].type = "dir" /\ At(m, s) = HostId(d, s)
    BY <1>1, <2>4
  <2>7. ASSUME t[k].type # "dir"  PROVE FileLed(m, d, r)
    <3>1. ~DirAt(d, r)
      BY <1>1, <2>2, <2>7
    <3>2. HostId(d, r) # NoFd
      BY DEF Walked
    <3>3. d[HostId(d, r)].kind # "dir"
      BY <3>1, <3>2 DEF DirAt
    <3>4. At(m, Parent(r)) = HostId(d, s) /\ Base(r) = Base(p)
      BY <2>4, <2>6
    <3>. HIDE DEF r, s
    <3>. QED  BY <2>4, <3>2, <3>3, <3>4 DEF FileLed
  <2>. QED  BY <2>2, <2>5, <2>6, <2>7
<1>5. t[<<>>].type = "dir"
  <2>1. <<>> \in DOMAIN t
    BY <1>1 DEF GoodTree, Sound, IsTree
  <2>2. PICK j \in 1..last : \E p \in Walked(d, layers[j]) : Fold(p) = <<>>
    BY <1>2, <2>1
  <2>3. PICK p \in Walked(d, layers[j]) : Fold(p) = <<>>
    BY <2>2
  <2>4. p \in Seq(Name) /\ p = <<>> /\ Len(p) = 0
    <3>1. p \in Seq(Name)
      BY HostPathsType DEF Walked
    <3>. QED  BY <2>3, <3>1, FoldProperties, EmptyList
  <2>. DEFINE top == layers[j]
              r == <<top>> \o p
  <2>5. top \in DOMAIN HostDirs
    BY <1>3
  <2>6. IsRealPath(r) /\ Len(r) = 1 /\ r[1] = top
    <3>1. IsRealPath(r) /\ Len(r) = Len(p) + 1 /\ r[1] = top
      BY <2>4, <2>5, JoinedPath
    <3>. QED  BY <2>4, <3>1
  <2>7. HostId(d, r) = HostDirs[top]
    <3>. HIDE DEF r
    <3>. QED  BY <2>6, HostIdType
  <2>8. DirAt(d, r)
    <3>1. HostId(d, r) # NoFd
      BY DEF Walked
    <3>. QED  BY <2>5, <2>7, <3>1 DEF DirAt, GivenDirs
  <2>. QED  BY <1>1, <2>3, <2>8
<1>. QED  BY <1>4, <1>5 DEF InDirs, FilesLed

\* What a mount has opened are directories that it shows.
LEMMA LinkedDirsOpen ==
  ASSUME NEW d, IsDisk(d), GivenDirs(d), Apart(d),
         NEW layers \in Seq(DOMAIN HostDirs), layers # <<>>, Links = {},
         Linkable(d, layers), Fits(d, layers),
         NEW t, t = LinkedTree(d, layers), NEW m, m = InitFdMap(d, layers)
  PROVE  DirsOpen(t, m)
<1>1. /\ GoodTree(t) /\ LinksKeyed /\ LaidAs(t, d, layers, Len(layers))
      /\ \A r \in OpenedOf(d, layers) : DirAt(d, r)
      /\ \A j \in 1..Len(layers) : \A p \in Walked(d, layers[j]) :
           t[Fold(p)].type = "dir" <=> DirAt(d, <<layers[j]>> \o p)
  BY LinkedShows
<1>2. InDirs(t) /\ <<>> \in DOMAIN t
  BY <1>1, LinkedDirs DEF GoodTree, Sound, IsTree
<1>. SUFFICES ASSUME NEW k \in Seq(Key), NEW r, KeyedReal(k, r), At(m, r) # NoFd
              PROVE  k \in DOMAIN t /\ t[k].type = "dir"
  BY DEF DirsOpen
<1>3. CASE k = <<>>
  BY <1>2, <1>3 DEF InDirs
<1>4. CASE k # <<>>
  <2>1. OpenedFor(d, layers, m, k, r)
    BY <1>1, OpenOnes
  <2>2. PICK o \in OpenedOf(d, layers) :
          \E j \in 1..Len(layers) : \E p \in Walked(d, layers[j]) :
            o = <<layers[j]>> \o p /\ Fold(p) = k
    BY <1>4, <2>1 DEF OpenedFor
  <2>3. PICK j \in 1..Len(layers) : \E p \in Walked(d, layers[j]) :
            o = <<layers[j]>> \o p /\ Fold(p) = k
    BY <2>2
  <2>4. PICK p \in Walked(d, layers[j]) : o = <<layers[j]>> \o p /\ Fold(p) = k
    BY <2>3
  <2>5. DirAt(d, <<layers[j]>> \o p)
    BY <1>1, <2>4
  <2>6. k \in DOMAIN t
    BY <1>1, <2>4 DEF LaidAs
  <2>. QED  BY <1>1, <2>4, <2>5, <2>6
<1>. QED  BY <1>3, <1>4

\* Every name on disk that a mount can reach has its item.
LEMMA LinkedNamesKnown ==
  ASSUME NEW d, IsDisk(d), GivenDirs(d), Apart(d),
         NEW layers \in Seq(DOMAIN HostDirs), layers # <<>>, Links = {},
         Linkable(d, layers), Fits(d, layers),
         NEW t, t = LinkedTree(d, layers), NEW m, m = InitFdMap(d, layers)
  PROVE  NamesKnown(t, m, d)
<1>. DEFINE last == Len(layers)
<1>1. /\ GoodTree(t) /\ Keyed(t) /\ LaidAs(t, d, layers, last)
      /\ \A j \in 1..last : \A p \in Walked(d, layers[j]) :
           DirAt(d, <<layers[j]>> \o p) =>
             At(m, <<layers[j]>> \o p) = HostId(d, <<layers[j]>> \o p)
  BY LinkedShows
<1>2. DirsOpen(t, m)
  BY LinkedDirsOpen
<1>. SUFFICES ASSUME NEW k \in DOMAIN t, NEW n \in Name, At(m, Home(t, k)) \in DOMAIN d,
                     StepTo(d, At(m, Home(t, k)), n) # NoFd
              PROVE  Known(t, m, d, k, n)
  BY DEF NamesKnown
<1>. DEFINE h == At(m, Home(t, k))
            c == Append(k, Lower[n])
<1>3. WalkedHome(d, layers, t, m, k)
  BY <1>2, HomeWalked
<1>9. PICK j \in 1..last : \E p \in Walked(d, layers[j]) :
           /\ Topmost(d, layers, last, j, p) /\ Fold(p) = k
           /\ At(m, <<layers[j]>> \o p) = h
           /\ HostId(d, <<layers[j]>> \o p) = h
           /\ HasUpper => layers[j] = UpperDir
  BY <1>3 DEF WalkedHome
<1>4. PICK p \in Walked(d, layers[j]) :
           /\ Topmost(d, layers, last, j, p) /\ Fold(p) = k
           /\ At(m, <<layers[j]>> \o p) = h
           /\ HostId(d, <<layers[j]>> \o p) = h
           /\ HasUpper => layers[j] = UpperDir
  BY <1>9
<1>. DEFINE top == layers[j]
            q == Append(p, n)
            r == <<top>> \o q
<1>5. /\ q \in Walked(d, top) /\ q # <<>> /\ Fold(q) = c
      /\ HostId(d, r) = StepTo(d, HostId(d, <<top>> \o p), n)
      /\ Parent(r) = <<top>> \o p /\ Base(r) = n
      /\ c \in DOMAIN t /\ ~t[c].deleted /\ t[c].real = r
  <2>. DEFINE f == Append(Fold(p), Lower[n])
  <2>1. StepTo(d, HostId(d, <<top>> \o p), n) # NoFd
    BY <1>4
  <2>2. /\ IsDisk(d) /\ GivenDirs(d) /\ Apart(d) /\ layers \in Seq(DOMAIN HostDirs)
        /\ Linkable(d, layers) /\ Fits(d, layers) /\ LaidAs(t, d, layers, Len(layers))
        /\ j \in 1..Len(layers) /\ top = layers[j]
        /\ p \in Walked(d, top) /\ Topmost(d, layers, Len(layers), j, p)
        /\ n \in Name /\ StepTo(d, HostId(d, <<top>> \o p), n) # NoFd
    BY <1>1, <1>4, <2>1
  <2>3. ShownOnTop(d, t, top, p, n, q, f)
    <3>. HIDE DEF top, q, f
    <3>1. q = Append(p, n) /\ f = Append(Fold(p), Lower[n])
      BY DEF q, f
    <3>. QED  BY ONLY <2>2, <3>1, NameOnTop
  <2>4. f = c
    BY <1>4
  <2>. QED  BY <2>3, <2>4 DEF ShownOnTop
<1>6. HostId(d, r) = StepTo(d, h, n)
  BY <1>4, <1>5
<1>7. At(m, Parent(t[c].real)) = h /\ Base(t[c].real) = n
  BY <1>4, <1>5
<1>8. ASSUME d[StepTo(d, h, n)].kind = "dir"  PROVE OpenAbove(t, m, c)
  <2>. SUFFICES ASSUME HasUpper  PROVE At(m, Home(t, c)) # NoFd
    BY DEF OpenAbove
  <2>1. DirAt(d, r)
    <3>. HIDE DEF r
    <3>. QED  BY <1>6, <1>8 DEF DirAt
  <2>2. At(m, r) # NoFd
    <3>1. At(m, r) = HostId(d, r)
      BY <1>1, <1>5, <2>1
    <3>. QED  BY <2>1, <3>1 DEF DirAt
  <2>3. c \in Seq(Key) /\ KeyedReal(c, r) /\ KeyedReal(c, Home(t, c))
    <3>. HIDE DEF r, c
    <3>1. c \in Seq(Key) /\ KeyedReal(c, t[c].real)
      BY <1>1, <1>5, ItemKeys
    <3>2. KeyedReal(c, Home(t, c))
      BY <1>1, <3>1, HomeKeyed
    <3>. QED  BY <1>5, <3>1, <3>2
  <2>4. r[1] = UpperDir /\ Home(t, c)[1] = UpperDir
    <3>1. UpperDir \in DOMAIN HostDirs /\ top = UpperDir
      BY <1>4, UpperGiven
    <3>2. q \in Seq(Name)
      BY <1>5, HostPathsType DEF Walked
    <3>3. c \in Seq(Name)
      <4>1. Key \subseteq Name
        BY LowerAssumption DEF Key
      <4>. HIDE DEF c
      <4>. QED  BY <2>3, <4>1
    <3>4. (<<top>> \o q)[1] = UpperDir
      <4>. HIDE DEF top, q
      <4>. QED  BY <3>1, <3>2, JoinedPath
    <3>5. (<<UpperDir>> \o c)[1] = UpperDir
      <4>. HIDE DEF c
      <4>. QED  BY <3>1, <3>3, JoinedPath
    <3>. HIDE DEF c, q, top
    <3>. QED  BY <3>4, <3>5 DEF Home, r
  <2>. HIDE DEF r, c
  <2>5. At(m, r) = At(m, Home(t, c))
    BY <2>3, <2>4, SameHandle
  <2>. QED  BY <2>2, <2>5
<1>. HIDE DEF c
<1>. QED  BY <1>5, <1>7, <1>8 DEF Known, c

\* A mount knows what is on the disk that it links.
LEMMA LinkedNames ==
  ASSUME NEW d, IsDisk(d), GivenDirs(d), Apart(d), CaseFree(d),
         NEW layers \in Seq(DOMAIN HostDirs), layers # <<>>, Links = {},
         Linkable(d, layers), Fits(d, layers),
         NEW t, t = LinkedTree(d, layers), NEW m, m = InitFdMap(d, layers)
  PROVE  NamesKept(t, m, d)
BY LinkedDirs, LinkedDirsOpen, LinkedNamesKnown DEF NamesKept

\* What is left to a workload that renames onto nothing, works on nothing
\* stale, does not use the name .directory, links no files one by one, and whose
\* calls to the system do not fail.
Plain ==
  /\ Settled /\ {"replace", "stale", "dotDirectory"} \cap Workload = {}
  /\ Links = {} /\ Faults = {FALSE}

\* Such a mount, made where it fits, has its layers match and its links keyed.
LEMMA FitsMatch ==
  ASSUME NEW d, NEW layers, Links = {}, Fits(d, layers)
  PROVE  LinksKeyed /\ LayersMatch(d, layers)
BY DEF LinksKeyed, LayersMatch, Fits, LayersAgree

\* A mount that is made again.
LEMMA RemountNames ==
  ASSUME KInv, Links = {}, Remount, Fits(disk, Relayers)
  PROVE  NamesKept(tree', fdMap', disk')
<1>1. /\ tree' = LinkedTree(disk, Relayers)
      /\ fdMap' = InitFdMap(disk, Relayers)
      /\ disk' = disk /\ Linkable(disk, Relayers)
  BY DEF Remount
<1>2. Relayers \in Seq(DOMAIN HostDirs) /\ Relayers # <<>>
  BY UsvfsAssumption
<1>3. IsDisk(disk) /\ GivenDirs(disk) /\ Apart(disk) /\ CaseFree(disk)
  BY DEF KInv, LInv, IInv, NamesKept
<1>. QED  BY <1>1, <1>2, <1>3, LinkedNames

\* The first mount.
LEMMA InitNames ==
  ASSUME Apart(InitDisk), CaseFree(InitDisk), Linkable(InitDisk, Layers),
         Fits(InitDisk, Layers), Plain, Init
  PROVE  KInv
<1>1. /\ disk = InitDisk
      /\ tree = LinkedTree(InitDisk, Layers)
      /\ fdMap = InitFdMap(InitDisk, Layers)
  BY DEF Init
<1>2. Layers \in Seq(DOMAIN HostDirs) /\ Layers # <<>>
  BY UsvfsAssumption
<1>3. LInv
  BY FitsMatch, InitLeads DEF Plain
<1>4. IsDisk(InitDisk) /\ GivenDirs(InitDisk)
  BY <1>1, <1>3 DEF LInv, IInv
<1>5. NamesKept(tree, fdMap, disk)
  BY <1>1, <1>2, <1>4, LinkedNames DEF Plain
<1>. QED  BY <1>3, <1>5 DEF KInv

\* Every call of a plain workload keeps the invariant.
LEMMA NextNames ==
  ASSUME KInv, Plain, Next, ret'.call = "remount" => Fits(disk, Relayers)
  PROVE  KInv'
<1>1. /\ LInv /\ Settled /\ "stale" \notin Workload /\ "replace" \notin Workload
      /\ "dotDirectory" \notin Workload
      /\ Links = {} /\ Faults = {FALSE} /\ NamesKept(tree, fdMap, disk)
  BY DEF KInv, Plain
<1>2. LInv'
  <2>1. LinksKeyed
    BY <1>1 DEF LinksKeyed
  <2>2. ret'.call = "remount" => LayersMatch(disk, Relayers)
    BY <1>1, FitsMatch
  <2>. QED  BY <1>1, <2>1, <2>2, NextLeads
<1>. SUFFICES NamesKept(tree', fdMap', disk')
  BY <1>2 DEF KInv
<1>3. CASE \E p \in Paths : ~NamesDirectory(p) /\ Does("remake", Occupied(p, "dir")) /\ Mkdir(p)
  <2>1. PICK p \in Paths : ~NamesDirectory(p) /\ Does("remake", Occupied(p, "dir")) /\ Mkdir(p)
    BY <1>3
  <2>2. ~Present(tree, p)
    BY <1>1, <2>1 DEF Does, Occupied, Settled
  <2>. QED  BY <1>1, <2>1, <2>2, MkdirNames
<1>4. CASE \E p \in Paths : ~NamesDirectory(p) /\ Does("remake", Occupied(p, "file")) /\ Create(p)
  <2>1. PICK p \in Paths : ~NamesDirectory(p) /\ Does("remake", Occupied(p, "file")) /\ Create(p)
    BY <1>4
  <2>2. Present(tree, p) => tree[Fold(p)].type = "file"
    BY <1>1, <2>1 DEF Does, Occupied, Settled
  <2>. QED  BY <1>1, <2>1, <2>2, CreateNames
<1>5. CASE \E p \in Paths : ~NamesDirectory(p) /\ Unlink(p)
  BY <1>1, <1>5, UnlinkNames
<1>6. CASE \E p \in Paths : Rmdir(p)
  BY <1>1, <1>6, RmdirNames
<1>7. CASE \E p \in Paths : Open(p) \/ Truncate(p) \/ Chmod(p) \/ Readlink(p) \/ Readdir(p)
  <2>1. UNCHANGED <<tree, fdMap, disk>>
    BY <1>7, ReadersChangeNothing
  <2>. QED  BY <1>1, <2>1
<1>8. CASE \E f, t \in Paths, flag \in Flags :
             /\ ~NamesDirectory(t)
             /\ Does("nest", Len(t) > 1)
             /\ Does("replace", Visible(tree, t))
             /\ Does("moveDir", "dir" \in Sees(f) \/ (flag = "exchange" /\ "dir" \in Sees(t)))
             /\ Does("remake", Present(tree, t) /\ tree[Fold(t)].type = "dir")
             /\ Rename(f, t, flag)
  <2>1. PICK f \in Paths, t \in Paths, flag \in Flags :
             /\ ~NamesDirectory(t)
             /\ Does("nest", Len(t) > 1)
             /\ Does("replace", Visible(tree, t))
             /\ Does("moveDir", "dir" \in Sees(f) \/ (flag = "exchange" /\ "dir" \in Sees(t)))
             /\ Does("remake", Present(tree, t) /\ tree[Fold(t)].type = "dir")
             /\ Rename(f, t, flag)
    BY <1>8
  <2>2. Does("moveDir", "dir" \in Sees(f)) /\ ~Visible(tree, t)
    BY <1>1, <2>1 DEF Does
  <2>. QED  BY <1>1, <2>1, <2>2, RenameNames
<1>9. CASE Statfs
  <2>1. UNCHANGED <<tree, fdMap, disk>>
    BY <1>9, ReadersChangeNothing
  <2>. QED  BY <1>1, <2>1
<1>10. CASE Remount
  <2>1. ret'.call = "remount"
    BY <1>10 DEF Remount, Reply
  <2>. QED  BY <1>1, <1>10, <2>1, RemountNames
<1>11. \A is : Does("dotDirectory", is) => ~is
  BY <1>1 DEF Does
<1>. QED  BY <1>3, <1>4, <1>5, <1>6, <1>7, <1>8, <1>9, <1>10, <1>11 DEF Next

\* A mount that is made again fits what is on the disk by then.
RemountsFit == [][ret'.call = "remount" => Fits(disk, Relayers)]_vars

\* Whatever plain processes do through a mount: no directory on disk comes to
\* hold two names that differ only in case.
THEOREM NoCaseTwinsAlways ==
  ASSUME Apart(InitDisk), CaseFree(InitDisk), Linkable(InitDisk, Layers),
         Fits(InitDisk, Layers), Plain
  PROVE  Spec /\ RemountsFit => []NoCaseTwins
<1>. DEFINE Fitting == ret'.call = "remount" => Fits(disk, Relayers)
<1>1. Init => KInv
  BY InitNames
<1>2. KInv /\ [Next]_vars /\ [Fitting]_vars => KInv'
  <2>1. KInv /\ UNCHANGED vars => KInv'
    BY StutterKeeps DEF KInv, LInv, vars
  <2>2. KInv /\ Next /\ Fitting => KInv'
    BY NextNames
  <2>. QED  BY <2>1, <2>2
<1>3. KInv => NoCaseTwins
  BY InvariantFree
<1>. QED  BY <1>1, <1>2, <1>3, PTL DEF Spec, RemountsFit
=============================================================================
