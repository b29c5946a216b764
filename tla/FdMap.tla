---------------------------------- MODULE FdMap ----------------------------------
(***************************************************************************)
(* FdMap (src/fdmap.cpp): the open descriptor of each directory, by the    *)
(* lower case of its real path.  A real path is the sequence of a          *)
(* directory the program was given and the names below it.                 *)
(***************************************************************************)
EXTENDS FileTree, Integers

NoFd == -1   \* at() of a missing key, the answer of a failed open()
Stdin == 0   \* what operator[] puts in for a missing key

RealKey(r) == [i \in 1..Len(r) |-> IF r[i] \in Name THEN Lower[r[i]] ELSE r[i]]

At(m, r) == IF RealKey(r) \in DOMAIN m THEN m[RealKey(r)] ELSE NoFd

Put(m, r, h) ==
  [q \in DOMAIN m \cup {RealKey(r)} |-> IF q = RealKey(r) THEN h ELSE m[q]]

\* operator[] as rename reads it: a key that is missing is there afterwards.
Touched(m, r) == IF RealKey(r) \in DOMAIN m THEN m ELSE Put(m, r, Stdin)
=============================================================================
