--------------------------------- MODULE Linking ---------------------------------
(***************************************************************************)
(* Linking (usvfsVirtualLinkFile(), usvfsVirtualLinkDirectoryStatic() and  *)
(* createFileTree() in src/usvfsmanager.cpp), with the process's table of  *)
(* open descriptors: every directory that is walked is opened, the mount   *)
(* that is waiting keeps the descriptor in its map, and ~MountState()      *)
(* closes what the map of a mount holds.  Each call holds m_mtx and is one *)
(* step; whether a mount succeeds is an outcome (UsvfsManager says how).   *)
(*                                                                         *)
(* A descriptor is a number; open() takes the lowest that is free.         *)
(***************************************************************************)
EXTENDS FdMap, FiniteSets, SequencesExt

CONSTANTS
  Disk,         \* real path -> kind, for what is on disk
  LeadsTo,      \* symbolic link -> the file it leads to, both on disk
  MountPoints,  \* real paths that are linked to, whether they are there or not
  Sources,      \* real paths that are linked as directories
  Files,        \* real paths that are linked as files
  EndsOf,       \* name -> the suffixes it has, in any case
  Targets,      \* names files are linked as
  SkipFiles,    \* what is put on the list of suffixes
  SkipDirs,     \* what is put on the list of directories
  UpperDirs,    \* what m_upperDir is set to; <<>> for the empty string
  MaxFds,       \* the limit on open descriptors
  MaxMounts,    \* bound: mounts that wait or are made
  UpperShared   \* may a mount fail while it shares the upper directory

NoUpper == <<>>
Closed == <<>>

\* A real path is where a directory is on the host, and the names below that.
IsReal(r) ==
  /\ r # <<>> /\ r \in Seq(Name \cup {r[1]})
  /\ \A i \in 2..Len(r) : r[i] \in Name

ASSUME LinkingAssumption ==
  /\ Disk \in [DOMAIN Disk -> {"dir", "file"}] /\ IsFiniteSet(DOMAIN Disk)
  /\ \A r \in DOMAIN Disk : IsReal(r)
  /\ \A r \in DOMAIN Disk : Len(r) > 1 => SubSeq(r, 1, Len(r) - 1) \in DOMAIN Disk
  /\ Targets \subseteq Name
  /\ \A l \in DOMAIN LeadsTo : {l, LeadsTo[l]} \subseteq DOMAIN Disk /\ Disk[l] = "file"
  /\ DOMAIN EndsOf = Name /\ \A n \in Name : n \in EndsOf[n]
  /\ MaxFds \in Nat /\ MaxMounts \in Nat /\ UpperShared \in BOOLEAN

VARIABLES
  pending,    \* m_pendingMounts: [mp, tree, fdMap]
  mounts,     \* m_mounts
  open,       \* the table: number -> the directory it is open on, or Closed
  skipFiles,  \* m_skipFileSuffixes
  skipDirs,   \* m_skipDirectories
  upperDir,   \* m_upperDir
  dead,       \* has an exception left a function that is noexcept
  ret         \* the last answer

config == <<skipFiles, skipDirs, upperDir>>
vars == <<pending, mounts, open, config, dead, ret>>

Init ==
  /\ pending = <<>> /\ mounts = <<>>
  /\ open = [fd \in 1..MaxFds |-> Closed]
  /\ skipFiles = {} /\ skipDirs = {} /\ upperDir = NoUpper
  /\ dead = FALSE
  /\ ret = [op |-> "none", ok |-> TRUE]

Answer(op, ok) == ret' = [op |-> op, ok |-> ok]

-----------------------------------------------------------------------------
(***************************************************************************)
(* Walking a directory.  A walk carries the tree and the map it fills, the *)
(* table of descriptors and the first thing that failed.                   *)
(***************************************************************************)
IsDir(r) == r \in DOMAIN Disk /\ Disk[r] = "dir"
Relative(top, r) == SubSeq(r, Len(top) + 1, Len(r))
Entries(top) == {r \in DOMAIN Disk : r # top /\ Under(top, r)}

\* recursive_directory_iterator: a directory comes before what is in it and is
\* left when all of that has come; otherwise in any order.
Walks ==
  [top \in Sources \cup MountPoints |->
     {w \in SetToSeqs(Entries(top)) :
        \A i, j \in DOMAIN w :
          /\ Under(w[i], w[j]) => i =< j
          /\ Under(w[i], w[j]) => \A m \in i..j : Under(w[i], w[m])}]

Started == [tree |-> Root(<<>>), fdMap |-> <<>>, open |-> open, err |-> "ok"]

FreeIn(table) == {fd \in DOMAIN table : table[fd] = Closed}

OpenedUnchecked(w, r) ==
  LET fd == CHOOSE fd \in FreeIn(w.open) : \A g \in FreeIn(w.open) : fd =< g
  IN  IF ~IsDir(r) \/ FreeIn(w.open) = {} THEN [w EXCEPT !.fdMap = Put(@, r, NoFd)]
      ELSE [w EXCEPT !.open[fd] = r, !.fdMap = Put(@, r, fd)]

\* open() of a directory, and the map's entry for it.
Opened(w, r) ==
  LET fd == CHOOSE fd \in FreeIn(w.open) : \A g \in FreeIn(w.open) : fd =< g
  IN  IF ~IsDir(r) THEN [w EXCEPT !.err = "ENOENT"]
      ELSE IF FreeIn(w.open) = {} THEN [w EXCEPT !.err = "EMFILE"]
      ELSE [w EXCEPT !.open[fd] = r, !.fdMap = Put(@, r, fd)]

\* relative() goes by what a symbolic link leads to: the item is added where
\* that is, and outside the directory there is nothing to add it to.
Resolved(r) == IF r \in DOMAIN LeadsTo THEN LeadsTo[r] ELSE r

EnterError(w, top, r) ==
  IF Under(top, Resolved(r)) THEN AddError(w.tree, Relative(top, Resolved(r)), FALSE)
  ELSE "ENOENT"

Entered(w, top, r) ==
  LET added == [w EXCEPT !.tree = Added(@, Relative(top, Resolved(r)), r, Disk[r])]
  IN  IF EnterError(w, top, r) # "ok"
      THEN [w EXCEPT !.err = EnterError(w, top, r)]
      ELSE IF IsDir(r) THEN Opened(added, r) ELSE added

\* fileNameInSkipSuffixes(), fileNameInSkipDirectories()
SkippedName(n, skips) == EndsOf[n] \cap skips # {}
Skipped(r) == SkippedName(Base(r), IF IsDir(r) THEN skipDirs ELSE skipFiles)

\* The entries of a directory, one after the other; some are left out.
WalkedOn(w, top, order, left) ==
  LET walk[i \in 0..Len(order)] ==
        IF i = 0 THEN w
        ELSE LET v == walk[i - 1]
             IN  IF v.err # "ok" \/ order[i] \in left THEN v ELSE Entered(v, top, order[i])
  IN  walk[Len(order)]

\* The source: its tree starts empty.
WalkedSource(src, order) ==
  WalkedOn(Opened([Started EXCEPT !.tree = Root(src)], src), src, order,
           {r \in Entries(src) : Skipped(r)})

\* createFileTree(): the skip lists do not count.  It leaves the descriptors of
\* the source in the map.
CreateFileTree(w, mp, order) ==
  WalkedOn(Opened([w EXCEPT !.tree = Root(mp)], mp), mp, order, {})

-----------------------------------------------------------------------------
(***************************************************************************)
(* The two functions that link.                                            *)
(***************************************************************************)
PendingAt(mp) == {i \in DOMAIN pending : pending[i].mp = mp}

\* A link that gives up leaves what it has opened open.
Refused(op, w) ==
  /\ open' = w.open
  /\ Answer(op, FALSE)
  /\ UNCHANGED <<pending, mounts, config, dead>>

\* An exception ends the process, and with it all that it holds.
Terminated ==
  /\ dead' = TRUE
  /\ pending' = <<>> /\ mounts' = <<>>
  /\ open' = [fd \in DOMAIN open |-> Closed]
  /\ skipFiles' = {} /\ skipDirs' = {} /\ upperDir' = NoUpper
  /\ UNCHANGED ret

\* The tree of the mount point itself, with the link laid over it.
LinkedFirst(op, w, mp, With(_)) ==
  /\ PendingAt(mp) = {}
  /\ Len(pending) + Len(mounts) < MaxMounts
  /\ \E order \in Walks[mp] :
       LET v == CreateFileTree(w, mp, order)
       IN  \/ v.err # "ok" /\ Terminated
          \/ /\ v.err = "ok"
             /\ pending' = Append(pending, [mp |-> mp, tree |-> With(v.tree), fdMap |-> v.fdMap])
             /\ open' = v.open
             /\ Answer(op, TRUE)
             /\ UNCHANGED <<mounts, config, dead>>

\* The map of the mount takes over the descriptors of the source.
Laid(m, w) ==
  [q \in DOMAIN m \cup DOMAIN w.fdMap |-> IF q \in DOMAIN w.fdMap THEN w.fdMap[q] ELSE m[q]]

JoinedTreeOnly(i, w) ==
  /\ pending' = [pending EXCEPT ![i].tree = Merged(@, w.tree)]
  /\ open' = w.open
  /\ Answer("directory", TRUE)
  /\ UNCHANGED <<mounts, config, dead>>

JoinedClosing(i, w) ==
  /\ pending' = [pending EXCEPT ![i].tree = Merged(@, w.tree), ![i].fdMap = Laid(@, w)]
  /\ open' = open
  /\ Answer("directory", TRUE)
  /\ UNCHANGED <<mounts, config, dead>>

Joined(i, w) ==
  /\ pending' = [pending EXCEPT ![i].tree = Merged(@, w.tree), ![i].fdMap = Laid(@, w)]
  /\ open' = w.open
  /\ Answer("directory", TRUE)
  /\ UNCHANGED <<mounts, config, dead>>

LinkDirectory(src, mp, recursive) ==
  \E order \in IF recursive THEN Walks[src] ELSE {<<>>} :
    LET w == WalkedSource(src, order)
    IN  /\ ~dead
        /\ \/ w.err # "ok" /\ Refused("directory", w)
           \/ w.err = "ok" /\ \E i \in PendingAt(mp) : Joined(i, w)
           \/ w.err = "ok" /\ LinkedFirst("directory", w, mp, LAMBDA t : Merged(t, w.tree))

LinkFileUpdating(i, r, n) ==
  LET w == Opened([Started EXCEPT !.fdMap = pending[i].fdMap], Parent(r))
  IN  /\ pending' = [pending EXCEPT ![i].tree = Added(@, <<n>>, r, "file"), ![i].fdMap = w.fdMap]
      /\ open' = w.open
      /\ Answer("file", w.err = "ok")
      /\ UNCHANGED <<mounts, config, dead>>

\* Over a mount that waits: the file is in its tree before its directory is open.
LinkFileToPending(i, r, n) ==
  LET t == pending[i].tree
      w == Opened([Started EXCEPT !.fdMap = pending[i].fdMap], Parent(r))
  IN  \/ AddError(t, <<n>>, FALSE) # "ok" /\ Refused("file", Started)
      \/ /\ AddError(t, <<n>>, FALSE) = "ok"
         /\ pending' = [pending EXCEPT ![i].tree = Added(t, <<n>>, r, "file"),
                                       ![i].fdMap = w.fdMap]
         /\ open' = w.open
         /\ Answer("file", w.err = "ok")
         /\ UNCHANGED <<mounts, config, dead>>

\* The directory of the destination is opened here and again by the walk.
LinkFileFirst(r, mp, n) ==
  LET w == Opened(Started, Parent(r))
      v == IF w.err = "ok" THEN Opened(w, mp) ELSE w
  IN  \/ v.err # "ok" /\ Refused("file", v)
      \/ v.err = "ok" /\ LinkedFirst("file", v, mp, LAMBDA t : Added(t, <<n>>, r, "file"))

LinkFileSkipped(r) ==
  /\ SkippedName(Base(r), skipFiles)
  /\ Answer("file", TRUE)
  /\ UNCHANGED <<pending, mounts, open, config, dead>>

LinkFile(r, mp, n) ==
  /\ ~dead
  /\ \/ LinkFileSkipped(r)
     \/ /\ ~SkippedName(Base(r), skipFiles)
        /\ \/ \E i \in PendingAt(mp) : LinkFileToPending(i, r, n)
           \/ PendingAt(mp) = {} /\ LinkFileFirst(r, mp, n)

-----------------------------------------------------------------------------
(***************************************************************************)
(* The settings.                                                           *)
(***************************************************************************)
UsvfsAddSkipFileSuffix(s) == skipFiles' = skipFiles \cup {s} /\ UNCHANGED <<skipDirs, upperDir>>
UsvfsClearSkipFileSuffixes == skipFiles' = {} /\ UNCHANGED <<skipDirs, upperDir>>
UsvfsAddSkipDirectory(s) == skipDirs' = skipDirs \cup {s} /\ UNCHANGED <<skipFiles, upperDir>>
UsvfsClearSkipDirectories == skipDirs' = {} /\ UNCHANGED <<skipFiles, upperDir>>
SetUpperDir(r) == upperDir' = r /\ UNCHANGED <<skipFiles, skipDirs>>

Configure ==
  /\ ~dead
  /\ \/ \E s \in SkipFiles : UsvfsAddSkipFileSuffix(s)
     \/ \E s \in SkipDirs : UsvfsAddSkipDirectory(s)
     \/ UsvfsClearSkipFileSuffixes \/ UsvfsClearSkipDirectories
     \/ \E r \in UpperDirs : SetUpperDir(r)
  /\ UNCHANGED <<pending, mounts, open, dead, ret>>

-----------------------------------------------------------------------------
(***************************************************************************)
(* The end of mounts: ~MountState() closes every descriptor of its map.    *)
(***************************************************************************)
Held(states) == UNION {{m.fdMap[q] : q \in DOMAIN m.fdMap} : m \in ToSet(states)}

Destroyed(table, states) ==
  [fd \in DOMAIN table |-> IF fd \in Held(states) THEN Closed ELSE table[fd]]

UsvfsClearVirtualMappings ==
  /\ ~dead
  /\ pending' = <<>>
  /\ open' = Destroyed(open, pending)
  /\ UNCHANGED <<mounts, config, dead, ret>>

\* mountInternal() opens the upper directory once for all mounts.
WithUpper(m, w) == [m EXCEPT !.fdMap = Laid(@, w)]

MountUpTo(n, w) ==
  LET upper == [i \in DOMAIN pending |-> WithUpper(pending[i], w)]
      made == SubSeq(upper, 1, n)
      failed == IF n = Len(pending) THEN <<>> ELSE <<upper[n + 1]>>
      dropped == SubSeq(pending, n + 2, Len(pending))
  IN  /\ mounts' = mounts \o made
      /\ open' = Destroyed(w.open, failed \o dropped)
      /\ Answer("mount", failed = <<>>)

Mount ==
  LET w == IF upperDir = NoUpper THEN Started ELSE Opened(Started, upperDir)
  IN  /\ ~dead
      /\ pending' = <<>>
      /\ IF pending = <<>>
         THEN Answer("mount", TRUE) /\ UNCHANGED <<mounts, open>>
         ELSE IF w.err # "ok"
         THEN /\ open' = Destroyed(w.open, pending)
              /\ Answer("mount", FALSE)
              /\ UNCHANGED mounts
         ELSE \E n \in 0..Len(pending) :
                /\ UpperShared \/ upperDir = NoUpper \/ n \in {0, Len(pending)}
                /\ MountUpTo(n, w)
      /\ UNCHANGED <<config, dead>>

Unmount ==
  /\ ~dead
  /\ mounts' = <<>>
  /\ open' = Destroyed(open, mounts)
  /\ Answer("unmount", TRUE)
  /\ UNCHANGED <<pending, config, dead>>

Next ==
  \/ \E src \in Sources, mp \in MountPoints, recursive \in BOOLEAN : LinkDirectory(src, mp, recursive)
  \/ \E r \in Files, mp \in MountPoints, n \in Targets : LinkFile(r, mp, n)
  \/ Configure \/ UsvfsClearVirtualMappings \/ Mount \/ Unmount

Spec == Init /\ [][Next]_vars

-----------------------------------------------------------------------------
(***************************************************************************)
(* Properties.                                                             *)
(***************************************************************************)
States == ToSet(pending) \cup ToSet(mounts)

TypeOK ==
  /\ \A m \in States :
       /\ IsTree(m.tree, DOMAIN Disk \cup Files) /\ PrefixClosed(m.tree) /\ NamedByKey(m.tree)
       /\ \A q \in DOMAIN m.fdMap : m.fdMap[q] \in DOMAIN open
  /\ \A fd \in DOMAIN open : open[fd] = Closed \/ IsDir(open[fd])
  /\ \A i, j \in DOMAIN pending : pending[i].mp = pending[j].mp => i = j
  /\ skipFiles \subseteq SkipFiles /\ skipDirs \subseteq SkipDirs

\* A descriptor in the map of a mount, waiting or made, is open and leads to
\* the directory it is kept for, whatever other links and mounts have opened,
\* left open and closed since, and whatever numbers have been used again.
DescriptorsLead ==
  \A m \in States : \A q \in DOMAIN m.fdMap :
    open[m.fdMap[q]] # Closed /\ RealKey(open[m.fdMap[q]]) = q

\* A link that is answered TRUE can be used: every item it has put into a tree
\* or led elsewhere has the descriptor of the directory it is in, and its own
\* if it is a directory of the tree and on disk.
HasFds(m, k) ==
  LET item == m.tree[k]
  IN  /\ k # <<>> => At(m.fdMap, Parent(item.real)) # NoFd
      /\ item.type = "dir" /\ IsDir(item.real) => At(m.fdMap, item.real) # NoFd

RealBefore(mp, k) ==
  {pending[i].tree[k].real : i \in {j \in PendingAt(mp) : k \in DOMAIN pending[j].tree}}

LinkedIsServed ==
  [][ret'.op \in {"file", "directory"} /\ ret'.ok =>
       \A m \in ToSet(pending') : \A k \in DOMAIN m.tree :
         m.tree[k].real \in RealBefore(m.mp, k) \/ HasFds(m, k)]_vars

\* Linking, entry by entry, in whatever order a directory is read, with skip
\* lists, names that differ in case, and descriptors running out at any of
\* them, is laying maps over maps, whole or not at all.
Shows(states) ==
  [i \in DOMAIN states |->
     [mp |-> states[i].mp,
      shows |-> [k \in DOMAIN states[i].tree |-> states[i].tree[k].real]]]

Abstract ==
  INSTANCE Overlays WITH
    hidden <- {r \in DOMAIN Disk \cup Files : Len(r) > 1 /\ Skipped(r)},
    waiting <- Shows(pending),
    mounted <- Shows(mounts)

ImplementsOverlays == Abstract!Spec
=============================================================================
