-------------------------------- MODULE Mounting --------------------------------
(***************************************************************************)
(* What the manager promises the program that calls it: links wait, and    *)
(* mount() and process creation mount what waits as if in one step.  The   *)
(* threads, the children and the order they finish in do not show; what    *)
(* does is that some of the waiting mounts may be lost, that this is       *)
(* answered FALSE, and that unmount() removes all mounts or none.          *)
(***************************************************************************)
EXTENDS Naturals, Sequences

CONSTANTS
  Links,    \* what is linked
  To        \* link -> the mount point it goes to

VARIABLES
  waiting,  \* mounts to be made: [mp, links], one for each mount point
  mounted,  \* mounts in place, in the order they were made
  ret       \* the last answer

vars == <<waiting, mounted, ret>>

Answer(op, ok) == ret' = [op |-> op, ok |-> ok]

With(l) ==
  IF \E i \in DOMAIN waiting : waiting[i].mp = To[l]
  THEN [i \in DOMAIN waiting |->
          IF waiting[i].mp = To[l]
          THEN [waiting[i] EXCEPT !.links = @ \cup {l}] ELSE waiting[i]]
  ELSE Append(waiting, [mp |-> To[l], links |-> {l}])

Init == waiting = <<>> /\ mounted = <<>> /\ ret = [op |-> "none", ok |-> TRUE]

\* A link that is answered TRUE waits with the others of its mount point.
Link(l, ok) ==
  /\ \/ waiting' = With(l)
     \/ ~ok /\ UNCHANGED waiting
  /\ Answer("link", ok)
  /\ UNCHANGED mounted

Clear == waiting' = <<>> /\ UNCHANGED <<mounted, ret>>

\* TRUE is answered only if everything that waited is mounted; FALSE after
\* some of it, in order, and the rest no longer waits.
Mount(op, n, ok) ==
  /\ ok => n = Len(waiting)
  /\ op = "mount" /\ n = Len(waiting) => ok
  /\ mounted' = mounted \o SubSeq(waiting, 1, n)
  /\ waiting' = <<>>
  /\ Answer(op, ok)

CreateWithoutMounting(ok) == Answer("create", ok) /\ UNCHANGED <<waiting, mounted>>

Unmount(ok) ==
  /\ mounted' = IF ok THEN <<>> ELSE mounted
  /\ Answer("unmount", ok)
  /\ UNCHANGED waiting

Next ==
  \/ Clear
  \/ \E ok \in BOOLEAN :
       \/ \E l \in Links : Link(l, ok)
       \/ \E op \in {"mount", "create"}, n \in 0..Len(waiting) : Mount(op, n, ok)
       \/ CreateWithoutMounting(ok) \/ Unmount(ok)

Spec == Init /\ [][Next]_vars
=============================================================================
