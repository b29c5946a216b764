------------------------------- MODULE TreeLocks -------------------------------
(***************************************************************************)
(* The locks of a mounted tree (m_mtx of each VirtualFileTreeItem).  The   *)
(* thread that runs fuse_loop() calls the functions of the class one after *)
(* the other; callers of usvfsCreateVFSDump() hold the manager's lock only *)
(* shared, so any number of them print the tree at the same time.          *)
(*                                                                         *)
(* A call is the sequence of its steps: taking a lock, one read or write   *)
(* of a field, giving back the lock taken last (locks are scoped).  What   *)
(* a call reads decides its steps; only the handlers' thread writes, so    *)
(* for its calls they are known at the start.                              *)
(***************************************************************************)
EXTENDS FileTree, FiniteSets, SequencesExt

CONSTANTS
  Paths,       \* paths the handlers use
  Real,        \* real paths
  Dumpers,     \* threads that dump the tree
  InitTree,    \* the tree that is mounted
  WriterFirst  \* does a thread that waits for an exclusive lock keep others
               \* from getting it shared

Handler == "handler"
Threads == {Handler} \cup Dumpers

ASSUME TreeLocksAssumption ==
  /\ Paths \subseteq Seq(Name) \ {<<>>}
  /\ Handler \notin Dumpers
  /\ IsTree(InitTree, Real) /\ PrefixClosed(InitTree) /\ NamedByKey(InitTree)
  /\ IsFiniteSet(DOMAIN InitTree)
  /\ WriterFirst \in BOOLEAN

VARIABLES
  tree,   \* the tree of the mount
  held,   \* thread -> the locks it holds, the last one taken last
  todo,   \* thread -> what is left of its call; <<>> between calls
  lines   \* dumper -> the lines it has printed: keys and real paths

vars == <<tree, held, todo, lines>>

Init ==
  /\ tree = InitTree
  /\ held = [t \in Threads |-> <<>>]
  /\ todo = [t \in Threads |-> <<>>]
  /\ lines = [t \in Dumpers |-> {}]

-----------------------------------------------------------------------------
(***************************************************************************)
(* Steps.  A write carries the tree it leaves.                             *)
(***************************************************************************)
Shared(k) == [do |-> "shared", key |-> k]
Exclusive(k) == [do |-> "exclusive", key |-> k]
Release == [do |-> "release"]
Reads(k, field) == [do |-> "read", key |-> k, field |-> field]
Writes(k, field, t) == [do |-> "write", key |-> k, field |-> field, tree |-> t]

\* The part of dumpTree() and isEmpty() that goes on with the children, which
\* are read when it comes to that.
Descend(k, by) == [do |-> "descend", key |-> k, field |-> "children", by |-> by]

\* fileName(), realPath(), getType(), isDir(), isDeleted(), getParent()
Getter(k, field) == <<Shared(k), Reads(k, field), Release>>

\* setName(), setDeleted()
Setter(k, field, t) == <<Exclusive(k), Writes(k, field, t), Release>>

\* findInternal(), addInternal() and eraseInternal() go from directory to
\* directory without locking any of them.
LooksInto(q) == IF q \in DOMAIN tree THEN <<Reads(q, "children")>> ELSE <<>>

WalkTo(k) == FlattenSeq([n \in 1..Len(k) |-> LooksInto(SubSeq(k, 1, n - 1))])

\* The steps for each of some items, one item after the other.
AllOf(steps) ==
  LET keys == SetToSeq(DOMAIN steps)
  IN  FlattenSeq([i \in DOMAIN keys |-> steps[keys[i]]])

-----------------------------------------------------------------------------
(***************************************************************************)
(* The calls of the handlers.                                              *)
(***************************************************************************)
FindSteps(k) ==
  <<Shared(<<>>)>> \o WalkTo(k)
    \o (IF k \in DOMAIN tree THEN Getter(k, "deleted") ELSE <<>>)
    \o <<Release>>

AddWalking(p, real, type) ==
  LET k == Fold(p)
      added == Added(tree, p, real, type)
  IN  IF k \notin DOMAIN tree
      THEN IF Parent(k) \notin DOMAIN tree THEN <<>>
           ELSE <<Writes(Parent(k), "children", added)>>
      ELSE Getter(k, "deleted")
             \o (IF tree[k].deleted
                 THEN Setter(k, "deleted", WithDeleted(tree, k, FALSE))
                        \o <<Writes(k, "real", added)>>
                 ELSE <<>>)

AddStepsSharing(p, real, type) ==
  <<Shared(<<>>)>> \o WalkTo(Fold(p)) \o AddWalking(p, real, type) \o <<Release>>

\* The handlers never ask add() to update an item that is there.
AddSteps(p, real, type) ==
  <<Exclusive(<<>>)>> \o WalkTo(Fold(p)) \o AddWalking(p, real, type) \o <<Release>>

\* isEmpty() holds the lock of a directory while it asks the children.
IsEmptySteps(k) == <<Shared(k), Descend(k, "isEmpty"), Release>>

\* markAllChildrenAsDeleted() writes to the children without their locks.
MarkSteps(k) ==
  LET below == {q \in DOMAIN tree : Under(k, q) /\ q # k}
      marked == Erased(tree, k, FALSE)
  IN  Setter(k, "deleted", WithDeleted(tree, k, TRUE))
        \o AllOf([q \in below |-> <<Reads(Parent(q), "children"), Writes(q, "deleted", marked)>>])

EraseStepsSharing(p, reallyErase) ==
  LET k == Fold(p)
  IN  <<Shared(<<>>)>> \o WalkTo(k)
        \o (IF k \in DOMAIN tree /\ reallyErase
            THEN <<Writes(Parent(k), "children", Erased(tree, p, TRUE))>> ELSE <<>>)
        \o <<Release>>

EraseSteps(p, reallyErase) ==
  LET k == Fold(p)
  IN  <<Exclusive(<<>>)>> \o WalkTo(k)
        \o (IF k \notin DOMAIN tree THEN <<>>
            ELSE IsEmptySteps(k)
                   \o (IF reallyErase
                       THEN <<Writes(Parent(k), "children", Erased(tree, p, TRUE))>>
                       ELSE MarkSteps(k)))
        \o <<Release>>

\* filePath() locks the item, then its parent, up to the root.
FilePathSteps(k) ==
  LET steps[n \in 0..Len(k)] ==
        LET q == SubSeq(k, 1, n)
        IN  IF n = 0 THEN Getter(q, "parent")
            ELSE <<Shared(q), Reads(q, "parent")>> \o steps[n - 1]
                   \o <<Reads(q, "name"), Release>>
  IN  steps[Len(k)]

\* readdir goes through the map getChildren() returns a reference to.
ReaddirSteps(k) ==
  Getter(k, "children")
    \o AllOf([c \in Children(tree, k) |->
                <<Reads(k, "children")>> \o Getter(c, "real") \o Getter(c, "name")])

SetNameComparing(k, n) ==
  <<Shared(k), Reads(k, "name")>> \o Setter(k, "name", WithName(tree, k, n)) \o <<Release>>

SetNameSteps(k, n) == Setter(k, "name", WithName(tree, k, n))

\* Calls on an item that find() has found.
ItemSteps(p) ==
  LET k == Fold(p)
  IN  {Getter(k, field) : field \in {"name", "real", "type", "parent"}}
        \cup {Setter(k, "deleted", WithDeleted(tree, k, b)) : b \in BOOLEAN}
        \cup {SetNameSteps(k, Base(p)), IsEmptySteps(k),
              FilePathSteps(k), ReaddirSteps(k)}

Calls(p) ==
  {FindSteps(Fold(p))}
    \cup {AddSteps(p, real, type) : real \in Real, type \in {"file", "dir"}}
    \cup {EraseSteps(p, b) : b \in BOOLEAN}
    \cup (IF Present(tree, p) THEN ItemSteps(p) ELSE {})

Begins(t, steps) == todo[t] = <<>> /\ todo' = [todo EXCEPT ![t] = steps]

Call(p) ==
  /\ \E steps \in Calls(p) : Begins(Handler, steps)
  /\ UNCHANGED <<tree, held, lines>>

-----------------------------------------------------------------------------
(***************************************************************************)
(* dumpTree() of the root: the item is locked, and locked again by each of *)
(* the functions that are asked for its name, type and real path.          *)
(***************************************************************************)
DumpLeavingFirst(k) ==
  <<Shared(k)>> \o Getter(k, "name") \o Getter(k, "type") \o Getter(k, "real")
    \o <<Release, Descend(k, "dumpTree")>>

DumpSteps(k) ==
  <<Shared(k)>> \o Getter(k, "name") \o Getter(k, "type") \o Getter(k, "real")
    \o <<Descend(k, "dumpTree"), Release>>

Dump(t) ==
  /\ Begins(t, DumpSteps(<<>>))
  /\ lines' = [lines EXCEPT ![t] = {}]
  /\ UNCHANGED <<tree, held>>

-----------------------------------------------------------------------------
(***************************************************************************)
(* The steps of a thread.                                                  *)
(***************************************************************************)
IsNext(t, do) == todo[t] # <<>> /\ Head(todo[t]).do = do

HasLock(t, do, k) == \E i \in DOMAIN held[t] : held[t][i] = [do |-> do, key |-> k]
Holders(do, k) == {t \in Threads : HasLock(t, do, k)}

Blocked(k) ==
  /\ Holders("shared", k) # {}
  /\ \E t \in Threads : IsNext(t, "exclusive") /\ Head(todo[t]).key = k

TakeShared(t) ==
  /\ IsNext(t, "shared")
  /\ LET k == Head(todo[t]).key
     IN  Holders("exclusive", k) = {} /\ (WriterFirst => ~Blocked(k))
  /\ held' = [held EXCEPT ![t] = Append(@, Head(todo[t]))]
  /\ todo' = [todo EXCEPT ![t] = Tail(@)]
  /\ UNCHANGED <<tree, lines>>

TakeExclusive(t) ==
  /\ IsNext(t, "exclusive")
  /\ LET k == Head(todo[t]).key IN Holders("exclusive", k) \cup Holders("shared", k) = {}
  /\ held' = [held EXCEPT ![t] = Append(@, Head(todo[t]))]
  /\ todo' = [todo EXCEPT ![t] = Tail(@)]
  /\ UNCHANGED <<tree, lines>>

GiveBack(t) ==
  /\ IsNext(t, "release")
  /\ held' = [held EXCEPT ![t] = Front(@)]
  /\ todo' = [todo EXCEPT ![t] = Tail(@)]
  /\ UNCHANGED <<tree, lines>>

Read(t) ==
  /\ IsNext(t, "read")
  /\ LET step == Head(todo[t])
     IN  lines' = IF t # Handler /\ step.field = "real"
                  THEN [lines EXCEPT ![t] = @ \cup {<<step.key, tree[step.key].real>>}]
                  ELSE lines
  /\ todo' = [todo EXCEPT ![t] = Tail(@)]
  /\ UNCHANGED <<tree, held>>

Write(t) ==
  /\ IsNext(t, "write")
  /\ tree' = Head(todo[t]).tree
  /\ todo' = [todo EXCEPT ![t] = Tail(@)]
  /\ UNCHANGED <<held, lines>>

GoDown(t) ==
  /\ IsNext(t, "descend")
  /\ LET step == Head(todo[t])
         below == [c \in Children(tree, step.key) |->
                     IF step.by = "isEmpty" THEN IsEmptySteps(c) ELSE DumpSteps(c)]
     IN  todo' = [todo EXCEPT ![t] = AllOf(below) \o Tail(@)]
  /\ UNCHANGED <<tree, held, lines>>

Step(t) ==
  TakeShared(t) \/ TakeExclusive(t) \/ GiveBack(t) \/ Read(t) \/ Write(t) \/ GoDown(t)

Next ==
  \/ \E p \in Paths : Call(p)
  \/ \E t \in Dumpers : Dump(t)
  \/ \E t \in Threads : Step(t)

\* The operating system runs every thread that can go on; nobody need start a
\* call.
Spec == Init /\ [][Next]_vars /\ \A t \in Threads : WF_vars(Step(t))

-----------------------------------------------------------------------------
(***************************************************************************)
(* Properties.                                                             *)
(***************************************************************************)
\* No thread comes to an item that is gone, or gives back what it does not hold.
TypeOK ==
  /\ IsTree(tree, Real) /\ PrefixClosed(tree) /\ NamedByKey(tree)
  /\ \A t \in Threads :
       /\ held[t] \in Seq([do : {"shared", "exclusive"}, key : Seq(Key)])
       /\ todo[t] = <<>> => held[t] = <<>>
       /\ IsNext(t, "release") => held[t] # <<>>
       /\ IsNext(t, "read") \/ IsNext(t, "descend") => Head(todo[t]).key \in DOMAIN tree
  /\ \A t \in Dumpers : lines[t] \subseteq Seq(Key) \X Real

\* Two threads never come to one field of one item together, one of them to
\* write it.  The children, the real path and the marks of descendants are
\* written without the lock of their item, and read without it by find(): what
\* keeps them apart is the lock of the root, which every walk takes first.
Accesses(t) == IsNext(t, "read") \/ IsNext(t, "write") \/ IsNext(t, "descend")
SameField(a, b) == a.key = b.key /\ a.field = b.field

NoDataRaces ==
  \A t, u \in Threads :
    t # u /\ Accesses(t) /\ Accesses(u) /\ SameField(Head(todo[t]), Head(todo[u]))
      => ~IsNext(t, "write")

\* A dump is one picture of the tree, although it takes locks item by item: when
\* it has printed its last line, its lines are the items and real paths there are.
DumpIsSnapshot ==
  \A t \in Dumpers :
    todo[t] = <<Release>> => lines[t] = {<<k, tree[k].real>> : k \in DOMAIN tree}

\* No thread waits for good, whatever order dumps (root to leaf, each lock taken
\* twice), filePath() (leaf to root), erase() and the setters lock items in: a
\* call that does not end is kept out by others that go on calling.
Starts(t) == todo[t] = <<>> /\ todo'[t] # <<>>

NeverStuck ==
  \A t \in Threads :
    <>[](todo[t] # <<>>) => \E u \in Threads \ {t} : []<><<Starts(u)>>_vars
=============================================================================
