---------------------------------- MODULE Usvfs ----------------------------------
(***************************************************************************)
(* The FUSE handlers of one mount (src/usvfs.cpp), with the state they     *)
(* share: the virtual file tree, the map from real paths to directory      *)
(* descriptors, and the host's disk.  fuse_loop() is single-threaded, so   *)
(* each call of a handler is one step.                                     *)
(***************************************************************************)
EXTENDS HostFs, SequencesExt

CONSTANTS
  Layers,    \* the mount point and the directories linked over it, in order
  Relayers,  \* the same when it is mounted again
  Links,     \* the file linked before the directories, if any: [name, real]
  UpperDir,  \* m_upperDir; "" if there is none
  InitDisk,  \* the host's disk when the directories are linked
  Depth,     \* bound: names below a directory the disk starts with
  Paths,     \* paths processes use; the disk starts with shorter ones
  MaxNodes,  \* bound: inodes ever made
  Workload,  \* what processes do besides the plain calls, see Next
  Faults     \* may opening a directory fail for want of descriptors

Flags == {"none", "noreplace", "exchange"}
Workloads ==
  {"remake", "replace", "nest", "moveDir", "rmdirFull", "stale", "remount", "dotDirectory"}
Errors == {"ok", "EBADF", "EEXIST", "EINVAL", "EIO", "EISDIR", "EMFILE", "ENOENT",
           "ENOTDIR", "ENOTEMPTY"}
Calls == {"readlink", "mkdir", "unlink", "rmdir", "rename", "chmod", "truncate", "create",
          "open", "statfs", "readdir", "remount"}

Real == Seq(Name \cup DOMAIN HostDirs)

ASSUME UsvfsAssumption ==
  /\ IsDisk(InitDisk)
  /\ \A t \in DOMAIN HostDirs :
       HostDirs[t] \in DOMAIN InitDisk /\ InitDisk[HostDirs[t]].kind = "dir"
  /\ {Layers, Relayers} \subseteq Seq(DOMAIN HostDirs) \ {<<>>}
  /\ UpperDir = "" \/ UpperDir \in DOMAIN HostDirs
  /\ \A l \in Links :
       l.name \in Name /\ l.real \in Real /\ Len(l.real) > 1 /\ l.real[1] \in DOMAIN HostDirs
  /\ Paths \subseteq Seq(Name)
  /\ Depth \in Nat
  /\ Name \cap DOMAIN HostDirs = {} /\ RootName \notin Name
  /\ Workload \subseteq Workloads
  /\ FALSE \in Faults /\ Faults \subseteq BOOLEAN

VARIABLES
  tree,   \* MountState::fileTree
  fdMap,  \* MountState::fdMap
  disk,   \* the host's file system
  ret     \* the last call and its answer

vars == <<tree, fdMap, disk, ret>>

-----------------------------------------------------------------------------
OpenedAsParent(m, realParent, n, h) == Put(m, realParent, h)

\* The descriptor of a directory that has just been made.
Opened(m, realParent, n, h) == Put(m, Append(realParent, n), h)

(***************************************************************************)
(* Linking: createFileTree() walks the mount point, then                   *)
(* usvfsVirtualLinkDirectoryStatic() walks each source and merges it.      *)
(***************************************************************************)
HostPaths == UNION {[1..n -> Name] : n \in 0..Depth}

HostId(d, r) ==
  LET id[i \in 1..Len(r)] ==
        IF i = 1 THEN HostDirs[r[1]]
        ELSE LET up == id[i - 1]
             IN  IF up = NoFd \/ r[i] \notin Entries(d, up) THEN NoFd ELSE d[up].names[r[i]]
  IN  id[Len(r)]

Walked(d, top) == {p \in HostPaths : HostId(d, <<top>> \o p) # NoFd}

Scan(d, top) ==
  [k \in {Fold(p) : p \in Walked(d, top)} |->
     LET p == CHOOSE p \in Walked(d, top) : Fold(p) = k
         r == <<top>> \o p
     IN  NewItem(IF p = <<>> THEN RootName ELSE Base(p), r,
                 IF d[HostId(d, r)].kind = "dir" THEN "dir" ELSE "file")]

\* usvfsVirtualLinkFile() on a destination that is not linked to yet.
WithLinks(t) ==
  LET link == CHOOSE l \in Links : TRUE
  IN  IF Links = {} THEN t ELSE Added(t, <<link.name>>, link.real, "file")

LinkedTree(d, layers) ==
  LET laid[i \in 1..Len(layers)] ==
        IF i = 1 THEN WithLinks(Scan(d, layers[1]))
        ELSE Merged(laid[i - 1], Scan(d, layers[i]))
  IN  laid[Len(layers)]

\* One descriptor per directory that was walked, and the upper directory's.
DirsBelow(layers) == UNION {{<<top>> \o p : p \in HostPaths} : top \in ToSet(layers)}
DirsOfLinks == {Parent(l.real) : l \in Links}

OpenedDirs(layers) ==
  DirsBelow(layers) \cup DirsOfLinks \cup (IF UpperDir = "" THEN {} ELSE {<<UpperDir>>})

InitFdMap(d, layers) ==
  LET opened == {r \in OpenedDirs(layers) : HostId(d, r) # NoFd /\ d[HostId(d, r)].kind = "dir"}
  IN  [q \in {RealKey(r) : r \in opened} |->
         HostId(d, CHOOSE r \in opened : RealKey(r) = q)]

Init ==
  /\ disk = InitDisk
  /\ tree = LinkedTree(InitDisk, Layers)
  /\ fdMap = InitFdMap(InitDisk, Layers)
  /\ ret = [call |-> "none", from |-> <<>>, to |-> <<>>, err |-> "ok", id |-> NoFd, names |-> {}]

-----------------------------------------------------------------------------
(***************************************************************************)
(* usvfs_getattr() without an open file: of a directory through its own    *)
(* descriptor, of anything else through that of its parent.                *)
(***************************************************************************)
Attributes(p) ==
  IF ~Visible(tree, p) THEN [err |-> "ENOENT", id |-> NoFd]
  ELSE LET item == tree[Fold(p)]
           own == At(fdMap, item.real)
           dir == At(fdMap, Parent(item.real))
       IN  IF item.type = "dir"
           THEN [err |-> IF own = NoFd THEN "EBADF" ELSE "ok", id |-> own]
           ELSE LET err == EntryError(disk, dir, Base(item.real))
                IN  [err |-> err,
                     id |-> IF err = "ok" THEN disk[dir].names[Base(item.real)] ELSE NoFd]

\* A path that ends in this name, spelled so, is cut after the last slash before
\* it is looked up.  What is left is the root or, as no item has an empty name,
\* the path of nothing.
DirectorySuffix == ".directory"
Cut(p) == p # <<>> /\ Base(p) = DirectorySuffix

Lookup(p) ==
  IF ~Cut(p) THEN Attributes(p)
  ELSE IF Len(p) = 1 THEN Attributes(<<>>)
  ELSE [err |-> "ENOENT", id |-> NoFd]

KindOf(i) == IF i = Stdin THEN "other" ELSE disk[i].kind

Shows(p, kind) == Lookup(p).err = "ok" /\ KindOf(Lookup(p).id) = kind

\* What the kernel may take p for: what getattr says of it or, for the second
\* an entry is cached, what was there before it went by another spelling, or what
\* create() has made that getattr does not find.
Cached(p, kind) ==
  /\ "stale" \in Workload
  /\ Present(tree, p) /\ (tree[Fold(p)].type = "dir" <=> kind = "dir")
  /\ Cut(p) \/ \E n \in Name \ {Base(p)} : Lower[n] = Lower[Base(p)]

Sees(p) == {kind \in {"dir", "file", "link", "other"} : Shows(p, kind) \/ (p # <<>> /\ Cached(p, kind))}

\* It calls a handler for p once it has walked every directory on the way.
Walkable(p) == p # <<>> /\ \A i \in 0..Len(p) - 1 : "dir" \in Sees(SubSeq(p, 1, i))

Reply(call, f, t, err) ==
  ret' = [call |-> call, from |-> Fold(f), to |-> Fold(t), err |-> err,
          id |-> NoFd, names |-> {}]

ReplyWith(call, p, err, id) ==
  ret' = [call |-> call, from |-> Fold(p), to |-> Fold(p), err |-> err,
          id |-> id, names |-> {}]

Fails(call, f, t, err) ==
  /\ Reply(call, f, t, err)
  /\ UNCHANGED <<tree, fdMap, disk>>

\* A call that only reads: it answers the inode behind the name n of h, if any.
Reads(call, p, err, h, n) ==
  /\ ReplyWith(call, p, err, IF err = "ok" THEN disk[h].names[n] ELSE NoFd)
  /\ UNCHANGED <<tree, fdMap, disk>>

-----------------------------------------------------------------------------
(***************************************************************************)
(* Where a new name goes: the real directory of its parent, or, with an    *)
(* upper directory, the directory of the parent's virtual path below that. *)
(***************************************************************************)
\* The open directory behind a real path; with an upper directory a missing
\* one is made, one level deep (createParentDir()).
ParentDir(real, fails) ==
  LET fd == At(fdMap, real)
      up == At(fdMap, Parent(real))
      err == MakeError(disk, up, Base(real))
      made == Made(disk, up, Base(real), "dir")
  IN  IF fd # NoFd \/ UpperDir = ""
      THEN [err |-> "ok", fd |-> fd, disk |-> disk, fdMap |-> fdMap]
      ELSE IF err # "ok" THEN [err |-> err, fd |-> NoFd, disk |-> disk, fdMap |-> fdMap]
      ELSE IF fails THEN [err |-> "EMFILE", fd |-> NoFd, disk |-> made, fdMap |-> fdMap]
      ELSE [err |-> "ok", fd |-> Len(made), disk |-> made,
            fdMap |-> Opened(fdMap, Parent(real), Base(real), Len(made))]

NewRealParentOfItem(p) == tree[Fold(Parent(p))].real

\* mkdir and rename go by the spelling of the items.
NewRealParent(p) ==
  IF UpperDir = "" THEN tree[Fold(Parent(p))].real
  ELSE <<UpperDir>> \o FilePath(tree, Fold(Parent(p)))

\* create() goes by the spelling of the path, and does not look up the parent.
CreateRealParent(p) ==
  IF UpperDir = "" THEN tree[Fold(Parent(p))].real ELSE <<UpperDir>> \o Parent(p)

(***************************************************************************)
(* usvfs_mkdir()                                                           *)
(***************************************************************************)
MkdirExisting(p) ==
  /\ Present(tree, p)
  /\ IF tree[Fold(p)].deleted
     THEN /\ tree' = WithName(WithDeleted(tree, Fold(p), FALSE), Fold(p), Base(p))
          /\ Reply("mkdir", p, p, "ok")
          /\ UNCHANGED <<fdMap, disk>>
     ELSE Fails("mkdir", p, p, "EEXIST")

MkdirNew(p, parentFails, fails) ==
  LET realParent == NewRealParent(p)
      real == Append(realParent, Base(p))
      in == ParentDir(realParent, parentFails)
      err == IF in.err # "ok" THEN in.err ELSE MakeError(in.disk, in.fd, Base(p))
      opened == Opened(in.fdMap, realParent, Base(p), Len(in.disk) + 1)
  IN  /\ ~Present(tree, p)
      /\ Visible(tree, Parent(p))
      /\ disk' = IF err = "ok" THEN Made(in.disk, in.fd, Base(p), "dir") ELSE in.disk
      /\ \/ /\ err # "ok"
            /\ fdMap' = in.fdMap
            /\ Reply("mkdir", p, p, err)
            /\ UNCHANGED tree
         \/ /\ err = "ok" /\ fails
            /\ fdMap' = in.fdMap
            /\ Reply("mkdir", p, p, "EMFILE")
            /\ UNCHANGED tree
         \/ /\ err = "ok" /\ ~fails
            /\ fdMap' = opened
            /\ IF AddError(tree, p, FALSE) = "ok"
               THEN tree' = Added(tree, p, real, "dir") /\ Reply("mkdir", p, p, "ok")
               ELSE Reply("mkdir", p, p, "EIO") /\ UNCHANGED tree

MkdirNoParent(p) ==
  /\ ~Present(tree, p)
  /\ ~Visible(tree, Parent(p))
  /\ Fails("mkdir", p, p, "ENOENT")

Mkdir(p) ==
  /\ Walkable(p)
  /\ Lookup(p).err = "ENOENT"
  /\ \/ MkdirExisting(p)
     \/ \E parentFails, fails \in Faults : MkdirNew(p, parentFails, fails)
     \/ MkdirNoParent(p)

(***************************************************************************)
(* usvfs_create()                                                          *)
(***************************************************************************)
OpenCreateError(d, h, n, excl) ==
  LET err == MakeError(d, h, n)
  IN  IF err = "EEXIST" /\ ~excl
      THEN IF d[d[h].names[n]].kind = "dir" THEN "EISDIR" ELSE FollowError(d, h, n)
      ELSE err

CreateFile(p, excl, parentFails) ==
  LET realParent == CreateRealParent(p)
      real == Append(realParent, Base(p))
      in == ParentDir(realParent, parentFails)
      err == IF in.err # "ok" THEN in.err
             ELSE OpenCreateError(in.disk, in.fd, Base(p), excl)
      opened == disk'[in.fd].names[Base(p)]
  IN  /\ UpperDir # "" \/ Visible(tree, Parent(p))
      /\ fdMap' = in.fdMap
      /\ IF err # "ok"
         THEN /\ disk' = in.disk
              /\ Reply("create", p, p, err)
              /\ UNCHANGED tree
         ELSE /\ disk' = IF Base(p) \in Entries(in.disk, in.fd) THEN in.disk
                         ELSE Made(in.disk, in.fd, Base(p), "file")
              /\ IF Visible(tree, p)
                 THEN ReplyWith("create", p, "ok", opened) /\ UNCHANGED tree
                 ELSE LET added == AddError(tree, p, FALSE)
                      IN  /\ tree' = IF added = "ok" THEN Added(tree, p, real, "file") ELSE tree
                          /\ ReplyWith("create", p, added, opened)

CreateNoParent(p) ==
  /\ UpperDir = "" /\ ~Visible(tree, Parent(p))
  /\ Fails("create", p, p, "ENOENT")

Create(p) ==
  /\ Walkable(p)
  /\ Lookup(p).err = "ENOENT"
  /\ \/ \E excl \in BOOLEAN, parentFails \in Faults : CreateFile(p, excl, parentFails)
     \/ CreateNoParent(p)

(***************************************************************************)
(* usvfs_unlink() and usvfs_rmdir(): the name goes from the disk, the item *)
(* stays in the tree with its mark.  rmdir marks the directory alone.      *)
(***************************************************************************)
OnDisk(p) ==
  LET real == tree[Fold(p)].real
  IN  [dir |-> At(fdMap, Parent(real)), name |-> Base(real)]

RemovedFromTreeOnly(p) == disk

RemovedFromDisk(p) == Unbound(disk, OnDisk(p).dir, OnDisk(p).name)

Unlink(p) ==
  LET at == OnDisk(p)
      err == UnlinkError(disk, at.dir, at.name, FALSE)
      erased == EraseError(tree, p)
  IN  /\ Walkable(p)
      /\ Sees(p) \ {"dir"} # {}
      /\ IF ~Visible(tree, p)
         THEN Fails("unlink", p, p, "ENOENT")
         ELSE IF err # "ok"
         THEN Fails("unlink", p, p, err)
         ELSE /\ disk' = RemovedFromDisk(p)
              /\ tree' = IF erased = "ok" THEN Erased(tree, p, FALSE) ELSE tree
              /\ Reply("unlink", p, p, erased)
              /\ UNCHANGED fdMap

RmdirError(p) ==
  IF ~Visible(tree, p) THEN "ENOENT"
  ELSE IF tree[Fold(p)].type # "dir" THEN "ENOTDIR"
  ELSE IF ~IsEmpty(tree, Fold(p)) THEN "ENOTEMPTY"
  ELSE UnlinkError(disk, OnDisk(p).dir, OnDisk(p).name, TRUE)

Rmdir(p) ==
  /\ Walkable(p)
  /\ "dir" \in Sees(p)
  /\ IF RmdirError(p) # "ok"
     THEN Fails("rmdir", p, p, RmdirError(p))
     ELSE /\ disk' = RemovedFromDisk(p)
          /\ tree' = WithDeleted(tree, Fold(p), TRUE)
          /\ Reply("rmdir", p, p, "ok")
          /\ UNCHANGED fdMap

(***************************************************************************)
(* usvfs_rename().  The old name on disk is taken from the item's spelling,*)
(* the new real path is the new parent's real path followed by the whole   *)
(* path of the target.  What follows a successful renameat2() does not     *)
(* undo it.                                                                *)
(***************************************************************************)
RenameKernel(f, t, flag) ==
  /\ f # t /\ ~Under(f, t) /\ ~Under(t, f)
  /\ Walkable(f) /\ Walkable(t)
  /\ Sees(f) # {}
  /\ \/ Sees(t) # {} /\ flag = "exchange"
     \/ flag = "none" /\ \E a \in Sees(f), b \in Sees(t) : a = "dir" <=> b = "dir"
     \/ Lookup(t).err = "ENOENT" /\ flag # "exchange"

RenameRefusal(f, t, flag) ==
  IF ~Visible(tree, f) THEN "ENOENT"
  ELSE IF Visible(tree, t) /\ flag = "noreplace" THEN "EEXIST"
  ELSE IF ~Visible(tree, Parent(t)) THEN "ENOENT"
  ELSE "ok"

RenameErasingFirst(f, t, real) ==
  LET without == Erased(tree, f, TRUE)
      added == AddError(without, t, FALSE)
  IN  /\ tree' = IF added = "ok" THEN Added(without, t, real, tree[Fold(f)].type) ELSE without
      /\ Reply("rename", f, t, added)

RenameInTree(f, t, real) ==
  LET added == AddError(tree, t, FALSE)
      with == Added(tree, t, real, tree[Fold(f)].type)
      erased == EraseError(with, f)
  IN  IF added # "ok"
      THEN Reply("rename", f, t, added) /\ UNCHANGED tree
      ELSE /\ tree' = IF erased = "ok" THEN Erased(with, f, TRUE) ELSE with
           /\ Reply("rename", f, t, erased)

RenameMoved(f, t, flag) ==
  LET item == tree[Fold(f)]
      oldDir == Parent(item.real)
      newDir == NewRealParent(t)
      touched == Touched(Touched(fdMap, oldDir), newDir)
      from == At(touched, oldDir)
      to == At(touched, newDir)
      exchange == flag = "exchange"
      err == RenameError(disk, from, item.name, to, Base(t), exchange)
  IN  /\ fdMap' = touched
      /\ IF err # "ok"
         THEN Reply("rename", f, t, err) /\ UNCHANGED <<tree, disk>>
         ELSE /\ disk' = Renamed(disk, from, item.name, to, Base(t), exchange)
              /\ RenameInTree(f, t, newDir \o t)

Rename(f, t, flag) ==
  /\ RenameKernel(f, t, flag)
  /\ IF RenameRefusal(f, t, flag) # "ok"
     THEN Fails("rename", f, t, RenameRefusal(f, t, flag))
     ELSE RenameMoved(f, t, flag)

(***************************************************************************)
(* usvfs_open(), usvfs_truncate(), and usvfs_chmod() and usvfs_chown(),    *)
(* without an open file, reach the inode through its parent's real         *)
(* directory, and follow a symbolic link there.                            *)
(***************************************************************************)
ByParent(call, p) ==
  LET at == OnDisk(p)
      err == IF Visible(tree, p) THEN FollowError(disk, at.dir, at.name) ELSE "ENOENT"
  IN  Reads(call, p, err, at.dir, at.name)

Open(p) ==
  /\ Walkable(p) /\ "file" \in Sees(p)
  /\ ByParent("open", p)

Truncate(p) ==
  /\ Walkable(p) /\ "file" \in Sees(p)
  /\ LET at == OnDisk(p)
     IN  IF Visible(tree, p) /\ EntryError(disk, at.dir, at.name) = "ok"
              /\ KindOf(disk[at.dir].names[at.name]) = "dir"
         THEN Fails("truncate", p, p, "EISDIR")
         ELSE ByParent("truncate", p)

Chmod(p) ==
  /\ p = <<>> \/ Walkable(p)
  /\ Sees(p) # {}
  /\ ByParent("chmod", p)

\* usvfs_readlink() goes by the name of the item and the directory of its
\* parent in the tree, which may come from another layer.
Readlink(p) ==
  LET dir == At(fdMap, tree[Fold(Parent(p))].real)
      name == tree[Fold(p)].name
      err == IF EntryError(disk, dir, name) # "ok" THEN EntryError(disk, dir, name)
             ELSE IF KindOf(disk[dir].names[name]) # "link" THEN "EINVAL"
             ELSE "ok"
  IN  /\ Walkable(p)
      /\ "link" \in Sees(p)
      /\ IF ~Visible(tree, p)
         THEN Fails("readlink", p, p, "ENOENT")
         ELSE IF tree[Fold(p)].type = "dir"
         THEN Fails("readlink", p, p, "EINVAL")
         ELSE Reads("readlink", p, err, dir, name)

\* usvfs_statfs() answers for the directory that was mounted over.
Statfs ==
  LET mountpoint == At(fdMap, <<Layers[1]>>)
  IN  /\ ReplyWith("statfs", <<>>, FdError(mountpoint), mountpoint)
      /\ UNCHANGED <<tree, fdMap, disk>>

\* usvfs_readdir() looks at every child, deleted or not, and gives up on the
\* first that is not on disk.
Readdir(p) ==
  LET error(c) == FollowError(disk, OnDisk(c).dir, OnDisk(c).name)
      children == Children(tree, Fold(p))
      bad == {c \in children : error(c) # "ok"}
  IN  /\ p = <<>> \/ Walkable(p)
      /\ "dir" \in Sees(p)
      /\ IF ~Visible(tree, p)
         THEN Fails("readdir", p, p, "ENOENT")
         ELSE IF bad # {}
         THEN \E c \in bad : Fails("readdir", p, p, error(c))
         ELSE /\ ret' = [call |-> "readdir", from |-> Fold(p), to |-> Fold(p),
                         err |-> "ok", id |-> NoFd, names |-> children]
              /\ UNCHANGED <<tree, fdMap, disk>>

(***************************************************************************)
(* A mount after a mount, over what the first one has left on disk; the    *)
(* upper directory may be among the directories linked then.  One with two *)
(* names that differ in case ends the program that links it.               *)
(***************************************************************************)
Linkable(d, layers) ==
  \A top \in ToSet(layers) : \A p, q \in Walked(d, top) : Fold(p) = Fold(q) => p = q

Remount ==
  /\ "remount" \in Workload
  /\ Linkable(disk, Relayers)
  /\ tree' = LinkedTree(disk, Relayers)
  /\ fdMap' = InitFdMap(disk, Relayers)
  /\ Reply("remount", <<>>, <<>>, "ok")
  /\ UNCHANGED disk

-----------------------------------------------------------------------------
(***************************************************************************)
(* What processes do.  Workload adds, to the plain calls, those that       *)
(*   remake     make a directory where something was removed, or a file    *)
(*              where a directory was                                      *)
(*   replace    rename to a name that is taken                             *)
(*   nest       rename into a directory below the mount point              *)
(*   moveDir    rename a directory                                         *)
(*   rmdirFull  remove a directory that has entries                        *)
(*   stale      use a name that has gone by another spelling               *)
(*   remount    have the mount taken down and made again                   *)
(*   dotDirectory  use the name .directory                                 *)
(***************************************************************************)
Room == Len(disk) + 2 =< MaxNodes

Does(work, is) == is => work \in Workload

Occupied(p, kind) == Present(tree, p) /\ (kind = "dir" \/ tree[Fold(p)].type # kind)
Full(p) == \E c \in Children(tree, Fold(p)) : ~tree[c].deleted
NamesDirectory(p) == DirectorySuffix \in ToSet(p)

Next ==
  \/ \E p \in Paths :
       /\ Does("dotDirectory", NamesDirectory(p))
       /\ \/ Room /\ Does("remake", Occupied(p, "dir")) /\ Mkdir(p)
          \/ Room /\ Does("remake", Occupied(p, "file")) /\ Create(p)
          \/ Unlink(p)
          \/ Does("rmdirFull", Full(p)) /\ Rmdir(p)
          \/ Open(p) \/ Truncate(p) \/ Chmod(p) \/ Readlink(p)
          \/ Readdir(p)
  \/ \E f, t \in Paths, flag \in Flags :
       /\ Does("dotDirectory", NamesDirectory(f) \/ NamesDirectory(t))
       /\ Does("nest", Len(t) > 1)
       /\ Does("replace", Visible(tree, t))
       /\ Does("moveDir", "dir" \in Sees(f) \/ (flag = "exchange" /\ "dir" \in Sees(t)))
       /\ Does("remake", Present(tree, t) /\ tree[Fold(t)].type = "dir")
       /\ Rename(f, t, flag)
  \/ Statfs
  \/ Remount

Spec == Init /\ [][Next]_vars

-----------------------------------------------------------------------------
(***************************************************************************)
(* Properties that hold.                                                   *)
(***************************************************************************)
\* The tree is a tree of items without orphans, the fd map leads to
\* directories (or to 0, see FdMapHoldsDirs), the disk to its own inodes.
TypeOK ==
  /\ IsTree(tree, Real) /\ PrefixClosed(tree) /\ NamedByKey(tree)
  /\ \A q \in DOMAIN fdMap :
       \/ fdMap[q] = Stdin
       \/ fdMap[q] \in DOMAIN disk /\ disk[fdMap[q]].kind = "dir"
  /\ IsDisk(disk)
  /\ ret.call \in Calls \cup {"none"} /\ ret.err \in Errors

\* getattr reads a directory through the descriptor kept for its real path,
\* every other handler goes through the parent's: both reach one inode.
FdMapAgrees ==
  \A k \in DOMAIN tree \ {<<>>} :
    tree[k].type = "dir" /\ ~tree[k].deleted =>
      /\ EntryError(disk, OnDisk(k).dir, OnDisk(k).name) = "ok"
      /\ At(fdMap, tree[k].real) = disk[OnDisk(k).dir].names[OnDisk(k).name]

\* No call leaves two names in one directory on disk that differ only in case
\* (the next createFileTree() would throw on them out of a noexcept function), as
\* long as nobody uses the name .directory, which getattr does not find.
NoCaseTwins ==
  \A i \in DOMAIN disk : \A m, n \in Entries(disk, i) : Lower[m] = Lower[n] => m = n

\* A call that reports an error has left the tree as it was: in particular a
\* rename never drops the old item without the new one, or adds a second.
RefusedKeepsTree == [][ret'.err # "ok" => tree' = tree]_vars

\* With an upper directory no directory outside it ever gains a name.
CreationConfined ==
  [][\A i \in DOMAIN disk :
       Entries(disk', i) \subseteq Entries(disk, i)
         \/ Inside(disk', HostDirs[UpperDir], i)]_vars

\* What processes can see: the keys they can walk to.
Seen == {k \in DOMAIN tree : Lookup(k).err = "ok" /\ (k = <<>> \/ Walkable(k))}

Abstract ==
  INSTANCE Vfs WITH
    Keys <- {Fold(p) : p \in Paths},
    Ids <- 1..MaxNodes,
    view <- [k \in Seen |-> [kind |-> KindOf(Lookup(k).id), id |-> Lookup(k).id]]

\* Each call does what POSIX says or changes nothing processes can see, where no
\* directory holds and nobody uses the name .directory: what it names is made,
\* listed and reached by the handlers, and not seen by getattr.
ImplementsVfs == Abstract!Spec

-----------------------------------------------------------------------------
(***************************************************************************)
(* What docs, comments and tests say, and the code does not do.            *)
(***************************************************************************)
\* tests/unit/usvfs.cpp: rmdir of a directory that has entries fails.
RmdirEmptyOnly ==
  [][ret'.call = "rmdir" /\ ret'.err = "ok" =>
       \A c \in Children(tree, ret'.to) : tree[c].deleted]_vars

\* tests/unit/usvfs.cpp: a file that has been renamed is read under its new name.
RenamedIsReadable ==
  [][\A f, t \in Paths :
       /\ ret'.call = "rename" /\ ret'.err = "ok"
       /\ ret'.from = Fold(f) /\ ret'.to = Fold(t)
       => Lookup(t)' = Lookup(f)]_vars
=============================================================================
