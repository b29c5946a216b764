-------------------------------- MODULE Overlays --------------------------------
(***************************************************************************)
(* What linking promises the program that calls it.  A link lays the files *)
(* of a source over those a mount point has or is waiting to have, the     *)
(* later over the earlier, whole or not at all.  What the skip lists hide  *)
(* is left out with everything below it.  Trees, walks, descriptors and    *)
(* the order of directory entries do not show.                             *)
(***************************************************************************)
EXTENDS FileTree

CONSTANTS
  Disk,         \* real path -> kind
  MountPoints,  \* real paths that are linked to
  Sources,      \* real paths that are linked as directories
  Files,        \* real paths that are linked as files
  Targets       \* names they are linked as

VARIABLES
  hidden,   \* real paths whose name a skip list matches
  waiting,  \* mounts to be made: [mp, shows], shows maps keys to real paths
  mounted,  \* mounts in place
  ret       \* the last answer

vars == <<hidden, waiting, mounted, ret>>

Answer(op, ok) == ret' = [op |-> op, ok |-> ok]

\* What is to be seen of a directory, if hid is left out.
KeyIn(top, r) == Fold(SubSeq(r, Len(top) + 1, Len(r)))
Within(top, hid) ==
  {r \in DOMAIN Disk : Under(top, r) /\ ~\E h \in hid : h # top /\ Under(top, h) /\ Under(h, r)}
FilesOf(top, R) ==
  [k \in {KeyIn(top, r) : r \in R} |-> CHOOSE r \in R : KeyIn(top, r) = k]

Over(below, above) ==
  [k \in DOMAIN below \cup DOMAIN above |->
     IF k \in DOMAIN above THEN above[k] ELSE below[k]]

\* The mounts that wait once a map is laid over those of mp.
With(mp, above) ==
  IF \E i \in DOMAIN waiting : waiting[i].mp = mp
  THEN [i \in DOMAIN waiting |->
          IF waiting[i].mp = mp
          THEN [waiting[i] EXCEPT !.shows = Over(@, above)] ELSE waiting[i]]
  ELSE Append(waiting, [mp |-> mp, shows |-> Over(FilesOf(mp, Within(mp, {})), above)])

Init == hidden = {} /\ waiting = <<>> /\ mounted = <<>> /\ ret = [op |-> "none", ok |-> TRUE]

Hide == hidden' \subseteq DOMAIN Disk \cup Files /\ UNCHANGED <<waiting, mounted, ret>>

LinkDirectory(src, mp, R) ==
  /\ Answer("directory", TRUE)
  /\ waiting' = With(mp, FilesOf(src, R))
  /\ UNCHANGED <<hidden, mounted>>

\* A file takes the place of one that is on disk, not of one that is linked.
Taken(mp, k) == \E i \in DOMAIN waiting : waiting[i].mp = mp /\ k \in DOMAIN waiting[i].shows

\* A file that is hidden is not linked, and that is no failure.
LinkFile(r, mp, k) ==
  /\ Answer("file", TRUE)
  /\ \/ r \in hidden /\ UNCHANGED waiting
     \/ r \notin hidden /\ ~Taken(mp, k) /\ waiting' = With(mp, [q \in {k} |-> r])
  /\ UNCHANGED <<hidden, mounted>>

\* A file for which there is no descriptor is shown and answered FALSE.
LinkFileRefused(r, mp, k) ==
  /\ Answer("file", FALSE)
  /\ \/ UNCHANGED waiting
     \/ /\ Taken(mp, <<>>) /\ ~Taken(mp, k)
        /\ waiting' = With(mp, [q \in {k} |-> r])
  /\ UNCHANGED <<hidden, mounted>>

LinkDirectoryRefused == Answer("directory", FALSE) /\ UNCHANGED <<hidden, waiting, mounted>>

Clear == waiting' = <<>> /\ UNCHANGED <<hidden, mounted, ret>>

Mount(n, ok) ==
  /\ Answer("mount", ok)
  /\ ok <=> n = Len(waiting)
  /\ mounted' = mounted \o SubSeq(waiting, 1, n)
  /\ waiting' = <<>>
  /\ UNCHANGED hidden

Unmount == mounted' = <<>> /\ Answer("unmount", TRUE) /\ UNCHANGED <<hidden, waiting>>

\* The program ends.
End == waiting' = <<>> /\ mounted' = <<>> /\ hidden' = {} /\ UNCHANGED ret

Next ==
  \/ Hide \/ End
  \/ \E src \in Sources, mp \in MountPoints :
       LinkDirectory(src, mp, {src}) \/ LinkDirectory(src, mp, Within(src, hidden))
  \/ \E r \in Files, mp \in MountPoints, n \in Targets :
       LinkFile(r, mp, Fold(<<n>>)) \/ LinkFileRefused(r, mp, Fold(<<n>>))
  \/ LinkDirectoryRefused \/ Clear \/ Unmount
  \/ \E n \in 0..Len(waiting), ok \in BOOLEAN : Mount(n, ok)

Spec == Init /\ [][Next]_vars
=============================================================================
