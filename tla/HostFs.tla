--------------------------------- MODULE HostFs ---------------------------------
(***************************************************************************)
(* The host's file system as the program's system calls see it.  It is not *)
(* part of the program: what is here is what the handlers of src/usvfs.cpp *)
(* rely on (mkdirat, openat, fstatat, unlinkat, renameat2).                *)
(*                                                                         *)
(* A disk is a sequence of nodes; an inode number is an index into it.  A  *)
(* directory descriptor is the inode it was opened on, whatever name that  *)
(* inode has now.  Names are case-sensitive.                               *)
(***************************************************************************)
EXTENDS FdMap

CONSTANT HostDirs   \* the directories given to the program: name -> inode

Node(kind) == [kind |-> kind, names |-> <<>>]
Entries(d, i) == DOMAIN d[i].names

NodeKinds == {"dir", "file", "link"}

\* Every name on a disk is that of one of its inodes.
IsDisk(d) ==
  /\ d \in Seq([kind : NodeKinds, names : {d[i].names : i \in DOMAIN d}])
  /\ \A i \in DOMAIN d : Entries(d, i) \subseteq Name /\ d[i].names \in [Entries(d, i) -> DOMAIN d]

\* A directory that has been removed still has an inode while it is open.
Linked(d, i) ==
  \/ \E t \in DOMAIN HostDirs : HostDirs[t] = i
  \/ \E g \in DOMAIN d : \E n \in Entries(d, g) : d[g].names[n] = i

\* The directory h is the directory i or lies below it.
Inside(d, i, h) ==
  LET below[n \in 0..Len(d)] ==
        IF n = 0 THEN {i}
        ELSE LET above == below[n - 1]
             IN  above \cup UNION {{d[g].names[e] : e \in Entries(d, g)} : g \in above}
  IN  h \in below[Len(d)]

Bound(d, h, n, i) ==
  [d EXCEPT ![h].names = [m \in DOMAIN @ \cup {n} |-> IF m = n THEN i ELSE @[m]]]
Unbound(d, h, n) ==
  [d EXCEPT ![h].names = [m \in DOMAIN @ \ {n} |-> @[m]]]

FdError(h) ==
  IF h = NoFd THEN "EBADF" ELSE IF h = Stdin THEN "ENOTDIR" ELSE "ok"

\* fstatat() with AT_SYMLINK_NOFOLLOW
EntryError(d, h, n) ==
  IF FdError(h) # "ok" THEN FdError(h)
  ELSE IF n \notin Entries(d, h) THEN "ENOENT"
  ELSE "ok"

\* Without it, openat() without O_CREAT, fchmodat() and fchownat() follow a
\* symbolic link; those here lead nowhere.
FollowError(d, h, n) ==
  IF EntryError(d, h, n) # "ok" THEN EntryError(d, h, n)
  ELSE IF d[d[h].names[n]].kind = "link" THEN "ENOENT"
  ELSE "ok"

\* mkdirat(), openat() with O_CREAT | O_EXCL
MakeError(d, h, n) ==
  IF FdError(h) # "ok" THEN FdError(h)
  ELSE IF n \in Entries(d, h) THEN "EEXIST"
  ELSE IF ~Linked(d, h) THEN "ENOENT"
  ELSE "ok"

Made(d, h, n, kind) == Bound(Append(d, Node(kind)), h, n, Len(d) + 1)

\* unlinkat(), with AT_REMOVEDIR if removeDir
UnlinkError(d, h, n, removeDir) ==
  IF EntryError(d, h, n) # "ok" THEN EntryError(d, h, n)
  ELSE LET i == d[h].names[n]
       IN  IF removeDir /\ d[i].kind # "dir" THEN "ENOTDIR"
           ELSE IF removeDir /\ Entries(d, i) # {} THEN "ENOTEMPTY"
           ELSE IF ~removeDir /\ d[i].kind = "dir" THEN "EISDIR"
           ELSE "ok"

\* renameat2()
RenameError(d, g, n, h, m, exchange) ==
  IF FdError(h) # "ok" THEN FdError(h)
  ELSE IF EntryError(d, g, n) # "ok" THEN EntryError(d, g, n)
  ELSE IF ~Linked(d, h) THEN "ENOENT"
  ELSE IF m \notin Entries(d, h)
       THEN IF exchange THEN "ENOENT"
            ELSE IF Inside(d, d[g].names[n], h) THEN "EINVAL" ELSE "ok"
  ELSE LET i == d[g].names[n]
           j == d[h].names[m]
       IN  IF i = j THEN "ok"
           ELSE IF Inside(d, i, h) \/ (exchange /\ Inside(d, j, g)) THEN "EINVAL"
           ELSE IF exchange THEN "ok"
           ELSE IF d[i].kind = "dir" /\ d[j].kind # "dir" THEN "ENOTDIR"
           ELSE IF d[i].kind # "dir" /\ d[j].kind = "dir" THEN "EISDIR"
           ELSE IF Entries(d, j) # {} THEN "ENOTEMPTY"
           ELSE "ok"

Renamed(d, g, n, h, m, exchange) ==
  LET i == d[g].names[n]
  IN  IF exchange THEN Bound(Bound(d, g, n, d[h].names[m]), h, m, i)
      ELSE IF m \in Entries(d, h) /\ d[h].names[m] = i THEN d
      ELSE Bound(Unbound(d, g, n), h, m, i)
=============================================================================
