# usvfs-fuse: specification and proofs

usvfs-fuse shows processes a directory (the mount point) with files and
directories of other places linked over it. It is a FUSE file system with a
manager around it. This directory holds a TLA+ model of its core, the TLC runs
that check it on small instances, and TLAPS proofs about the file tree, its
locks, the handlers, linking and the manager.

## The system

| Part | Source | State | Operations |
| --- | --- | --- | --- |
| Virtual file tree | `virtualfiletreeitem.cpp` | per item: name, real path, type, deleted mark, children by lower-cased name, parent, lock | `find`, `add`, `erase`, `+=`, `clone`, `setDeleted`, `setName`, `setRealPath`, `setType`, dumps |
| FUSE handlers | `usvfs.cpp` | none of their own; they share the mount's state | getattr, readlink, mkdir, unlink, rmdir, rename, chmod, chown, truncate, open, read, write, release, statfs, readdir, create; symlink, link, flush, fsync are stubs |
| Descriptor map | `fdmap.cpp` | lower-cased real path -> directory descriptor | `at` (-1 if missing), `operator[]` (inserts 0 if missing) |
| Mount state | `mountstate.cpp` | tree, map, upper directory, FUSE handle, status, condition variable, child's descriptors | the destructor closes every descriptor of the map |
| Linking | `usvfsmanager.cpp` 23-63, 198-368 | pending mounts | link a file, link a directory: walk it into a tree, merge that into the mount's tree |
| Mounting | `usvfsmanager.cpp` 661-952 | pending mounts, active mounts, namespace descriptor | mount, unmount, run the FUSE loop in a thread or in a child in its own namespace |
| Processes | `usvfsmanager.cpp` 370-506 | spawned processes, blacklist, forced libraries | create a process that sees the mounts, dump, lists |
| Paths and case | `utils.cpp` | none | lower case, comparison, parent and last component of a path |
| Logging | `loghelpers.cpp` | none that others read | output |

How the parts interact. Linking builds trees and maps before anything is
mounted; `mount()` hands each pending mount to a thread or a child, which runs
`fuse_loop()`; that calls one handler at a time. A handler looks a path up in
the tree, takes the directory of the real path from the map, makes one system
call through it, and then brings tree and map up to date. The kernel calls a
handler only after it has looked up every directory on the way (`getattr`), and
keeps what it learnt for a second. The manager's dump reads the trees from
another thread.

What makes each part correct, and what is hard about it:

- *Tree.* Every item hangs in a directory and is found by its folded name,
  whatever order add, erase, mark and merge come in; deleted items stay in the
  tree and must not come back. Hard: long sequences of calls over items that
  are there and not there at once.
- *Handlers.* A mount behaves as one file system. Hard: three pieces of state
  (tree, map, disk) updated one after the other, with a failure possible between
  two of them; two ways to reach a directory (its own descriptor, its parent's);
  the same name under two spellings.
- *Upper directory.* Everything new lands in it. Hard: directories that exist in
  the tree but not there yet, or there but not in the map.
- *Mounting.* Nothing linked is lost, a mount that is reported is there, what a
  thread uses is alive. Hard: threads, children, a time-out, partial failure.
- *Locks.* Handlers and dumps of other threads neither race nor block for good.

`PROJECT.json` lists every hazard with its line and the properties on it.

## The modules

| Module | Models |
| --- | --- |
| `FileTree` | the tree as a function from keys (sequences of lower-cased names) to items; each function of the class as an operator on trees |
| `VirtualFileTree` | a tree and the tree being linked, under any sequence of calls |
| `LinkMap` | abstract: what a tree promises, a case-insensitive map from paths to real paths, without marks, items and spellings |
| `FdMap` | the map from real paths to descriptors |
| `TreeLocks` | the locks of a mounted tree: the handlers' thread and the threads that dump, one step per lock and field |
| `HostFs` | external: the host's file system as the `*at()` calls see it, with inodes, open directories and case-sensitive names |
| `Usvfs` | the FUSE handlers of one mount over tree, descriptor map and disk; extends `HostFs`, which extends `FdMap` and `FileTree` |
| `Vfs` | abstract: what a mount promises, one case-insensitive POSIX file system |
| `Linking` | the functions that link, entry by entry, with the process's table of descriptors and what closes them; extends `FdMap` |
| `Overlays` | abstract: what linking promises, maps laid over maps, whole or not at all |
| `UsvfsManager` | the manager: pending and active mounts, the threads and children that run them, namespaces, processes |
| `Mounting` | abstract: what the manager promises, mounting and unmounting in one step each |
| `MC...` | instances for TLC |
| `ListFacts` | lemmas about lists without repetition, and induction and recursion over numbers |
| `FileTreeProofs` | lemmas about the operators of `FileTree` |
| `VirtualFileTreeProofs` | theorems about `VirtualFileTree` |
| `TreeLocksProofs` | theorems about `TreeLocks` |
| `UsvfsProofs`, `UsvfsDirProofs` | theorems about `Usvfs`; those about its directories on disk |
| `LinkingProofs` | theorems about `Linking` |
| `UsvfsManagerProofs` | theorems about `UsvfsManager`, and that it implements `Mounting` |

**Tree.** `tree[k]` is the item at key `k`; nested `m_children` maps are the
prefix relation between keys, so `m_parent` needs no state. A path is what a
caller writes, split at `/`. A call of the class is one step, because it holds
the lock of the root or changes one field under the lock of one item. `source`
is the tree `usvfsVirtualLinkDirectoryStatic()` builds; `Merge` is its `+=`. In the
program trees are merged before they are mounted, so marked items meet `+=` only
through the interface of the class; the model allows it, as the class does.
Unicode, empty names, and repeated slashes are left out: a component is a model
value with a lower-case form.

**Locks.** In `TreeLocks` a call is a list of steps (`todo`): take a lock, read or
write one field, give back the lock taken last. `add`, `erase` and `find` lock the
root only and walk from directory to directory without locks; the setters and
getters lock their item; `filePath()` locks upwards, `isEmpty()` and `dumpTree()`
downwards, and `dumpTree()` locks an item again for each of its fields. The one
thread of `fuse_loop()` is the only writer of a mounted tree, so what its calls read
is known when they start; `dumpTree()` and `isEmpty()` find the children when they
come to them (`GoDown`). The manager's own lock is left out: dumps hold it shared. `WriterFirst` says whether a
writer that waits keeps readers out.

**Linking.** `open` is the process's table of descriptors: a number is open on a
directory or free, and `open()` takes the lowest free one. A walk carries the tree
and map it fills, the table, and the first failure; directory entries come in any
order in which a directory comes before what is in it. An exception in
`createFileTree()` leaves a function that is `noexcept` and ends the process
(`dead`), when it is the exception of an item that cannot be added; that the walk over
the source runs out of descriptors of its own (the increment at line 307), which
ends the process too, is left out, and shows as a link refused. `EndsOf` is `iendsWith()`: which suffixes a name has; a symbolic link counts
as what it leads to where the code resolves it (`Resolved`). Whether a mount
succeeds is an outcome here: `UsvfsManager` has the threads. `UpperShared` says
whether a mount may fail after others of the same call when all have the upper
directory's one descriptor.

**Handlers.** A real path is a directory the program was given followed by
names; `fdMap` maps its folded form to a descriptor. A descriptor is the inode it
was opened on: it survives the removal and the renaming of its directory.
`fuse_loop()` runs in one thread, so a handler is one step; the failures inside
it are its outcomes (`Faults`: opening a directory may fail for want of
descriptors, which `usvfs_truncate()` leaks). `ret` records the last call for the
properties. `RenameKernel`, `Walkable` and `Sees` are what the kernel has checked
before it calls. `Lookup` is getattr: a path that ends in the name `.directory`, spelled
so, is cut after its last slash (`Cut`, `usvfs.cpp:86-91`), so `/.directory` has the
attributes of the mount point and `d/.directory` is never found; any other path is
looked up as it is (`Attributes`). The other handlers do not cut, so what they make
under that name is there for them only. The item found by `find()` and the spelling of a path are kept
apart: `create` goes by the spelling, `mkdir` and `rename` by the items. `chmod`
also stands for `chown`, and these and `truncate` are of a file that is not open.
Symbolic links lead nowhere here: a directory with one that leads to a file cannot
be linked (see `Linking`). `Init` is the state linking ends with, and `Remount`
the next mount over what is on disk by then.

`Workload` says what processes do. Without it they make, open, list, rename
files in the mount point's directory to free names, and remove files and
directories. With

- `rmdirFull`: they also remove directories that have entries,
- `remake`: make a directory where something was removed, or a file where a directory was,
- `replace`: rename to a name that is taken,
- `nest`: rename into directories below the mount point,
- `moveDir`: rename directories,
- `stale`: use a name whose file has gone by another spelling, from the kernel's cache,
- `remount`: take the mount down and make it again, over `Relayers`,
- `dotDirectory`: use the name `.directory`, at any place of a path.

The split is there because `remake`, `replace`, `nest`, `moveDir` and `dotDirectory`, and
`stale` with an upper directory, reach behaviour the documentation does not promise (see the
violations below); the promise of `Vfs` is checked without them, and what holds
whatever processes do is checked with them.

**Manager.** Every function of the interface holds `m_mtx`, so `call` is the one
call under way; a call that starts nothing and waits for nothing is one step.
`state[s]` is the MountState with number `s`, kept after it is destroyed
(`alive`) because threads and callers may still use it; `run` says where its
thread or child is. Moving a `unique_ptr` is a move between `pending`,
`call.todo` (`toMount`), a thread, and `mounts`. A thread holds the lock of its state
from its start to its answer, which makes that one step; a spurious wake-up
changes nothing, so a waiting caller goes on as soon as the status is set.
Reading a MountState that has been destroyed is undefined behaviour: `Freed` says
which outcomes the run looks at. Two more cases are undefined and left to go on
as if nothing happened: a thread whose handle is destroyed leaves its loop, and
`unmount()` of a child that has died, called after the mode was set back,
unmounts a null handle. The 10 ms of `poll()` may pass before or after anything the
child does.

Children are cloned with `CLONE_VM`: they are processes with the program's memory.
Each has signal handlers of its own, but libfuse keeps the session that the handlers
end in one variable, `fuseInstance`, which the last child to call
`fuse_set_signal_handlers()` has set (`ChildMounts`, `usvfsmanager.cpp:173`). SIGINT, which
`unmount()` sends (`Signalled`), ends the loop of a child if the variable holds that
child's own session. Otherwise it tells the other session to exit and interrupts the
read of the wrong loop, which goes on; the child whose session was told is in `read()`
and sees it with the next request, if there is one (`told`, `ChildNotices`). A child of
which the session has been destroyed leaves it in the variable (`Dangling`): the handler
then writes to freed memory, and the child may end or go on. That is as libfuse
documents its function (one session per process). A child without handlers is killed:
the model takes the program not to ignore SIGINT. That a signal arrives between the
loop's check and its `read()`, and is lost that way, is left out.

`Faults` names the failures: opening a link's or the upper directory,
`clone`, `poll` and `waitid` interrupted, `fuse_new` or `fuse_mount` failing, a child
dying, `fork`. `MaxStates` and `MaxProcs` are bounds.
`isMounted()`, the lists and the dump only read, and are left out (`isMounted()`
answers whether there are *no* mounts). A process that cannot be started leaves with
`exit()`, not `_exit()` (line 427), and so runs the destructors of the program's static
objects in its copy of the memory; nothing of that is modelled.

## The runs

| Run | Shows | Bounds |
| --- | --- | --- |
| `virtual_file_tree` | `TypeOK`, `NoOrphans`, `NamesFollowKeys`; `MergeKeepsDeleted`; `ImplementsLinkMap` (refinement) | names a, A, b; five paths of up to three components, two spellings of one of them; two real paths; directories only (the type is never branched on by the tree) |
| `usvfs_flat` | `FdMapAgrees`, `ImplementsVfs` (refinement) with `rmdirFull`, `stale`, `remount` and failing opens | seven paths over d, f, F, g; a mount point with a directory and one linked directory with a symbolic link; nine inodes |
| `usvfs_upper` | `FdMapAgrees`, `NoCaseTwins`, `CreationConfined`, `ImplementsVfs` with an upper directory and `remount`, which links the upper directory last | the same; no failing opens |
| `usvfs_all` | `TypeOK`, `RefusedKeepsTree` with every workload but `remount` | six paths, `.directory` in d among them, d also as D, d in both layers, a file linked under another name, nine inodes |
| `tree_locks` | `TypeOK`, `NoDataRaces`, `DumpIsSnapshot`; `NeverStuck` (liveness) | a directory and a file in it; every call on either, two real paths; one dump at a time, again and again |
| `linking` | `TypeOK`, `DescriptorsLead`; `LinkedIsServed`; `ImplementsOverlays` (refinement) | to link to: two directories, one with names that differ in case, one with a symbolic link, one that is missing; a directory and a file to link; one entry for each list; an upper directory or none; six descriptors, two mounts, at most one descriptor leaked (`FewLeaked`) |
| `manager` | `TypeOK`, `OneOwner`, `MountsReachable`; `MountsChangeLocked`; `ImplementsMounting` (refinement); `CallsReturn` (liveness) | two mount points, a directory and a file linked over one, a directory over the other; two mount states; one process at a time; both modes, changed at any time; all failures; a destroyed state is read as failed |

The bounds: two levels are enough for a parent that is missing, deleted,
merged or spelled otherwise, and every handler looks at a path, its parent and its
grandparent only. Two spellings of one file and of one directory reach the
folding. One or two inodes beyond those of the start are enough for a file or
directory to be made, removed, and made again at the same name: the run stops
making files, not the other calls, at `MaxNodes`. `Depth` bounds the walk of the
disk that is linked. TLC's view leaves out `ret` (and `last`), which no guard
reads; of the manager's `ret`, too, for which `ManagerImplementsMounting` is the proof that
no answer is missed. Two mount states are enough for a call to fail on the second mount, for a
mount to meet what an earlier one left (threads, children, `m_nsPidFd`), and for
the ownership of one to be mistaken for that of the other.

Two items, one above the other, are enough for the locks: every lock order in the
code is one between an item and its parent. One dump meets the one writer there
is; dumps do not write, so two of them have nothing to race for.

In `linking`, six descriptors are enough for two mounts with a directory each and the
upper one, and few enough to run out at every `open()` of every function. A leaked
descriptor only makes the table shorter; one is enough for a number to be used by
another mount than the one it was opened for. Deadlock is not checked there,
because an exception really ends the process.

`NoCaseTwins` needs descriptors not to run out: a `mkdir` whose directory is made
and then cannot be opened leaves a name on disk that the tree does not know, and
the next file may differ from it in case only. `CreationConfined` is stated for the
plain calls: exchanging a directory of the upper directory with one outside takes
the open descriptor along, and files made through it land outside. `ImplementsVfs` with an upper
directory needs no `stale`: `create` there does not look up the parent, and makes a
file in a directory that is gone; on the same instance TLC finds the other three
properties of the run true with `stale` and `rmdirFull` as well. Neither
`ImplementsVfs` nor `NoCaseTwins` is true of a program that uses the name `.directory`:
what it names is made, listed and reached by the handlers, and not seen by getattr
(see below). Both are stated without it; `usvfs_all` and `FdMapAgreesAlways` are about
what holds with it.

The refinement to `Vfs` maps the tree, the map and the disk to what processes
can see: `Seen` is the keys they can walk to, and a key's file is the inode
`getattr` finds. Each successful call must do to that view what POSIX says, and
each refused call must leave it alone: `Vfs` allows any call to be refused, so
the refinement says nothing of calls that fail without need.

Violations: what the documentation, comments or tests say, and the code does not
do. Each run shows a sequence of calls.

| Run | What happens |
| --- | --- |
| `rmdir_empty_only` | `isEmptyInternal()` is true of every tree, so `rmdir` removes a directory whose entries come from another layer |
| `renamed_is_readable` | a file renamed to d/f gets the real path .../d/d/f |
| `waits_for_answer` | a mount fails, its thread destroys the state, and the caller of `mount()` still reads it (all outcomes of `Freed`) |
| `blacklisted_not_exposed` | a blacklisted executable starts in the namespace of the mounts |
| `unmount_spares_processes` | `unmount()` succeeds while a process the manager started runs |

Seen in the model as well, and not kept as runs:

- Handlers. `mkdir` over a removed file answers success and makes nothing
  (`usvfs.cpp:165`). Creating over a removed link opens the file hidden below it
  (`usvfs.cpp:623`). `rename` leaves descriptor 0 in the map (`usvfs.cpp:314`).
  Replacing and exchanging renames change the disk and then fail on the tree
  (`usvfs.cpp:329`), although `usvfs.h` promises an atomic exchange. `readdir` fails
  in a directory something was removed from, or that holds a symbolic link that
  leads nowhere (`usvfs.cpp:558`). A symbolic link of a lower layer cannot be read
  where a directory is linked over its own (`usvfs.cpp:137`). `chmod` and `chown` of
  the mount point itself answer `EBADF`: the directory above it is not in the map.
  A file called `.directory` is made and listed, and not found by getattr
  (`usvfs.cpp:89`): with `d/.Directory` there, creating `d/.directory` with `O_EXCL` makes a
  second file beside it, where `tests/unit/usvfs.cpp:504` expects that to fail.
- Mounting again. A directory that an earlier mount made in the upper directory
  blocks creation in it unless the upper directory is linked again
  (`usvfs.cpp:185`). What was removed comes back where two layers have it.
- Linking. A directory on the skip list that is not empty makes the whole link fail,
  although `usvfsmanager.h` says it is skipped (its entries are still visited,
  `usvfsmanager.cpp:312`), and names are matched by their end. Linking to a directory
  that is missing, or is there "virtually" only as `usvfsmanager.h` allows, ends the
  process; so does one with names that differ in case. A symbolic link to a file that
  exists, in either directory, does the same or fails the link. A directory
  linked over a file keeps the file's type, and a file over a directory the
  directory's: `getattr` then looks for a descriptor that is not there. With
  `UpperShared` the mount that fails closes the upper directory for those that were
  made, and its number can be used again for another directory
  (`mountstate.cpp:8`, `DescriptorsLead`).
- Locks. With `WriterFirst` TLC finds a deadlock: a dump that holds an item shared asks
  for the same lock again, behind a writer that waits for the dump. The C++ standard
  leaves the order open; `std::shared_mutex` of libstdc++ on Linux lets readers
  in.
- Manager. A mount in a namespace after `unmount()` enters the namespace of a process
  that is gone and fails (`usvfsmanager.cpp:924`). With two mounts in children,
  `unmount()` signals the first, the handler ends the session of the second, and
  `unmount()` waits for good in `waitid()` with `m_mtx` held (`usvfsmanager.cpp:173` and
  695): TLC reaches `SignalLost`, and finds `CallsReturn` violated without that exception.

`ImplementsMounting` reads the intermediate steps of a call as not yet done: what
`toMount` took still waits, what has been mounted so far is not yet there. It says
that `mount()` answers TRUE only if everything that waited is mounted, in order,
and `unmount()` only if all is gone; it also shows the price of a failure, which
drops what was not mounted yet. In a namespace "mounted" is what the manager
lists, which a child that fails after 10 ms is not. `MountsReachable` has one
exception: `poll()` interrupted leaves a child that serves a mount whose state has
been destroyed.

`ImplementsOverlays` maps a mount to what its tree shows: keys and real paths. It says
that a link answered TRUE laid exactly the files of the source that the skip lists
leave over those there were, whatever the order of the walk, and that a link that
failed changed nothing, with one exception the code has: a file for which there
is no descriptor stays. `hidden` is what the lists match.

Fairness: the handlers, and linking, wait for nobody and need none. In `TreeLocks` each
thread is weakly fair in its next step, and nobody need start a call; a thread that
waits for a lock others take again and again may be kept out, which
`NeverStuck` allows and nothing else. In `UsvfsManager` the caller,
each thread and each child is weakly fair, which the scheduler of the operating
system gives to anything that can run; failures, deaths and interruptions are
not fair, nobody need call anything, and no process need exit. Nor need anyone use a
mount, so a child told to exit by another one's handler need not notice.
`CallsReturn` has one exception, `SignalLost`: `unmount()` waits for a child whose signal
has gone to another child's session, which happens (see above). It
says that nothing else keeps a call from returning, in particular that the child that
was the last to set its handlers, one that was told before, and any thread end in time.
`CallsReturn` holds when a destroyed state reads as failed; with the other outcomes
(`waits_for_answer`) a caller may wait for good. Deadlock is checked in every run but `linking`.

## What is proved

| Theorem | States |
| --- | --- |
| `VirtualFileTreeProofs!TypeCorrect`, `NoOrphansEver`, `NamesFollowKeysAlways` | the three invariants of `VirtualFileTree` |
| `VirtualFileTreeProofs!MergeNeverRevives` | the action property of `+=` |
| `VirtualFileTreeProofs!TreeImplementsLinkMap` | the refinement of `LinkMap` |
| `TreeLocksProofs!TypeCorrect`, `NoDataRacesAlways`, `DumpIsSnapshotAlways` | the three invariants of `TreeLocks` |
| `UsvfsProofs!TypeCorrect` | the type invariant of `Usvfs` |
| `UsvfsProofs!RefusedKeepsTreeAlways` | the action property of refused calls |
| `UsvfsDirProofs!FdMapAgreesAlways` | a directory's own descriptor and its name in its parent's lead to one inode |
| `UsvfsDirProofs!CreationConfinedAlways` | the action property of the upper directory |
| `UsvfsDirProofs!NoCaseTwinsAlways` | no directory on disk comes to hold two names that differ in case only |
| `LinkingProofs!TypeCorrect`, `DescriptorsLeadAlways` | the two invariants of `Linking` |
| `UsvfsManagerProofs!TypeCorrect`, `OneOwnerAlways`, `MountsReachableAlways` | the three invariants of `UsvfsManager` |
| `UsvfsManagerProofs!MountsChangeLockedAlways` | the action property of `m_mounts` |
| `UsvfsManagerProofs!ManagerImplementsMounting` | the refinement of `Mounting` |

They hold for every value of the constants that satisfies the assumption of the
module (`LowerAssumption`, `PathsAssumption`, `TreeLocksAssumption`,
`UsvfsAssumption`, `LinkingAssumption`, `ManagerAssumption`), which TLC evaluates
on the constants of the runs. `FdMapAgreesAlways`, `CreationConfinedAlways`,
`NoCaseTwinsAlways`, `DescriptorsLeadAlways` and `ManagerImplementsMounting` have further hypotheses,
given below.

**Tree.** None of the three invariants is inductive: `add()` keeps a name folded to
its key only if the item's parent is in the tree and the tree's keys are folded,
and `+=` keeps them only if the source has them too. `IInv` therefore says of both
trees that they are sound (typed, prefix-closed, named by key), and of the source
that nothing in it is marked, which the refinement needs: a marked item that is
merged would be a key the map never bound. `FileTreeProofs` has one lemma per
operation that keeps a tree sound (`AddedSound`, `ErasedSound`, `WithDeletedSound`,
`WithNameSound`, `MergedSound`); what each does to the keys that can be found is in
`AddedLinks`, `ErasedLinks` and `MergedLinks`; `StepIInv` and `StepRefines` go through
the actions. Assumed: lower-casing twice is lower-casing once; paths are sequences
of names, and the root's name is not one of them.

**Locks.** What a thread has left to do is the plan it made when its call began, so
the invariant has to say that the plan still fits. `Path(Moves, x, todo, y)` says that
the steps lead, one allowed move after the other, from what the thread holds to
nothing held. A move reads only items there are; writes only under the exclusive
lock of the root, or of the item if keys and real paths (`Shape`) stay; and for a dump
goes on only with the root locked, and reads only what it has locked. Calls are put
together from parts, and so are their paths (`PathJoin`, `AllOfPath`, `GetterDone`,
`FilePathDone`, ..., `CallsLead`). The invariant: locks exclude each other
(`Exclusion`); the handlers' call has a path; and a dump is between calls, or has yet
to lock the root, or has a path with every line printed or still due (`Dumping`).
`OnlyOne` is the heart: a step of one thread leaves the plans of the others, because
the shape changes only under the exclusive lock of the root, and a dump that has
begun holds it shared. `NoDataRaces` and `DumpIsSnapshot` follow in a few lines. The
assumption: the tree that is mounted is sound and finite.

**Handlers.** `IInv` says that the tree is sound and of finite depth, that the disk is
one, that the directories given to the program stay on it, and that what the map
holds is 0 or a directory, the upper directory's included (its descriptor must be
there for `create` to use). Finite depth is for `erase()`: `isEmpty()` is TRUE of every
item of such a tree (take a deepest item of which it is not: all its children answer
TRUE), so `erase()` refuses nothing that is there, and `rename`, which has renamed
the file by then, cannot fail on the tree after changing it; that is
`RefusedKeepsTree`. Assumed: the directories given are directories of the disk; the
names given for them are no names of entries; links lie in directories given.

**Directories of the handlers.** `FdMapAgrees` compares two ways to a directory: the
descriptor kept for its real path, and the name its parent's descriptor has for it.
Nothing in the tree says that these are one path, so `LInv` adds to `IInv` that an
item's real path is its key below a directory given (`Keyed`), that no descriptor but
0 is kept for two real paths (`OneKey`, so that what is made in one directory is not
made in another), and that every directory shown is what its name in the descriptor
of its real path's parent leads to (`DirsLed`). Its hypotheses:

- `Settled`: the workload has no `remake`, `nest` or `moveDir`. A directory that moves keeps
  its old entries in the map, and the next one made under its old name is not the one
  kept: TLC finds `FdMapAgrees` violated with `moveDir` or `remake` alone. With `nest`, an
  item's real path is no longer its key, and the argument breaks; TLC finds no
  violation. `replace`, `stale`, `rmdirFull`, `remount`, `dotDirectory` and failing opens are
  all allowed.
- `LinksKeyed`: a file is linked under its own name. Under another one, too, its real path
  is not its key; here, too, TLC finds no violation.
- `Linkable`: the directories linked have no two names that differ in case, which would
  end the program.
- `LayersMatch`, and `RemountsMatch` for mounts made again: no directory of a layer has a
  file of a later layer or a linked file over it. `+=` then keeps the type of the one and
  takes the real path of the other (see above, under linking), and TLC finds violations.
- `Apart`: the directories given are apart, and a directory has one name on the disk, as
  every file system has it.

`CreationConfined` needs another part, `Within`: what the map keeps for a real path below
the upper directory lies below it on the disk, unless it has been removed, when
nothing can be made in it any more. `Inside()` walks down as many levels as the disk
has inodes; that this is enough (`InsideClosed`: its values are closed under names,
`InsideLeast`: and the least such sets) is an argument about cardinality, and lets the
proof see what a new or a removed name does to it. Hypotheses: there is an upper
directory, `Apart`, and the workload has no `replace`, no `stale` and no `dotDirectory`. Those
three reach an exchange (`RENAME_EXCHANGE` needs a target the kernel sees, as it does
`/.directory`), and an exchange of a directory of the
upper directory with one outside takes the descriptor along. Nothing else is
excluded: the theorem holds for directories that are moved and remade, mounts made
again, descriptors that run out and any links, of which the run tries few.

`NoCaseTwins` is about the disk, and holds because the tree is asked first: a handler
makes a name only where the tree shows none with its key. So the tree must know every
name of each directory things are made in, where `LInv` only says that what the tree
knows is there. `Home` is where what is made in a directory goes: below the upper
directory, or where the directory itself is. `KInv` adds `NamesKept` to `LInv`:

- `NamesKnown`: every name on disk in a home has its item, which is shown, under that
  name and from that directory; or is a directory of another layer, with the one here
  open as well. The second case is what makes this hard: `rmdir` then marks the item
  and leaves the name here, and something made there again (`remake`) may be spelled
  differently.
- `FilesLed`: a file that is shown is there, and no directory, so `unlink` and `rename`
  take from the disk the very name the tree stops to show.
- `InDirs`, `DirsOpen`: parents are directories, and so is, in the tree, whatever the map
  has open. `CaseFree` is the property itself.

Each handler has its lemma (`MkdirNames`, `CreateNames`, `UnlinkNames`, `RmdirNames`,
`RenameNames`). For a mount, `LaidAs` says layer by layer that the tree has the item of
the last layer that has its key, by induction over the layers (`LinkedTreeLaidAs`); with
`WalkedUp` and `WalkedDown`, from a real path to its parent's and back, this gives
`LinkedNames`. Hypotheses, beside `Apart`, `Linkable` and `CaseFree` of the first disk:

- `Fits`, and `RemountsFit` for mounts made again: layers agree on what is a directory;
  nothing lies below `Depth` (in the code the walk has no limit); and the upper directory
  is linked last or is empty, or a mount does not know what is in it.
- `Plain`: `Settled`; no `replace`, as a rename onto a name spelled in another case puts
  the new spelling beside it on disk; no `stale`; no `dotDirectory`, as getattr does not find
what the tree has under that name; no failing opens (see above); and no
  file linked on its own. Such a file hides one on disk, and once it is removed the name
  is free in the tree and taken on disk. `rmdirFull` and `remount` are allowed.

TLC finds `NoCaseTwins` violated with `remake`, `moveDir`, `replace`, `dotDirectory`, failing opens, linked
files, or an upper directory that is not empty and not linked, each alone. It finds
no violation with `nest` or `stale`, which only the argument excludes.

The runs satisfy the hypotheses: `usvfs_flat` and `usvfs_upper` those of the first
theorem (TLC finds `LayersMatch(disk, Relayers)` true in every state they reach),
`usvfs_upper` those of the second and of the third (`Fits(disk, Relayers)`, and all parts
of `NamesKept` that TLC can evaluate, are true in every state it reaches).

**Linking.** A descriptor in a map must lead where it is kept for (`AllLead`); that is
not inductive, because a mount that goes closes its numbers, and the next `open()`
takes them. `Separate` says that a mount that waits shares no number with another one:
waiting mounts can end at different times, while those made end together. Within
one call the functions close what they have opened themselves, or hand it to
exactly one map. Both parts, and the theorem, are said under `~UpperShared`: where a
mount may fail that has the upper directory's one descriptor in common with mounts
made before it, it closes it for them, and `DescriptorsLead` is false (see above). Assumed: the disk is
finite, with the directory of everything on it; targets are names; a symbolic link
leads to something there; a name ends with itself.

**Manager.** `OneOwner` speaks of threads that have not answered, vectors of the call
under way, and lists. `Typed` and `CallShape` say what a call has in hand at each of its
steps; `Owned` that owners are disjoint and lists hold nothing twice, and that a
state lives exactly as long as it is owned; `Progress` what has run of a mount that
waits, is in hand, or is made, and that only the thread waited for has not answered;
`Undone` what `unmount()` has got through; `MountsReachable` is needed for itself. The
refinement adds `OnePerMountPoint` (`usvfsVirtualLinkDirectoryStatic` finds the mount that
waits by its mount point, so the abstract map has one entry for it) and `InOrder`: what
`toMount` took is, in order, behind what was mounted, in hand, or still to be
started. Its hypothesis is `"success" \notin Freed`: reading the status of a mount state
that is gone is undefined, and if it read as success `mount()` would answer TRUE for
a mount that was never made. The run has the same.

Recursion and induction over data are done with sets and functions where the proofs
need them: `Smallest`, `Induction` and `Recursion` of `ListFacts`, and functions on trees
in place of recursive operators.

Only model-checked:

- `ImplementsVfs`: rests on both directions (`LInv` and `KInv`), and on what the kernel has
  walked.
- `LinkedIsServed` and `ImplementsOverlays` of `Linking`: on every disk they are false. A
  directory on the skip list that has the name of a file in another case gets its
  entries added below the file, without a descriptor; the runs' disk has no such pair.
- `CallsReturn` and `NeverStuck`: liveness, which the prover does not reach; and what
  rests on `ENABLED`.

## Not modelled

Logging; file contents and permissions, and with them what goes through an open
file (`read`, `write`, `release`, and the branches of `getattr`, `chmod`, `chown` and
`truncate` that take a handle): they reach no state of the program. The
descriptors of open files, which `truncate` leaks; the runs let descriptors run
out instead (`Faults`). The stubs. Forced libraries, debug and log settings, the
process delay. `setType()` and `setRealPath()`, which only tests call. Two mounts over
one upper directory in `Usvfs`: a second tree and map multiply its states past
what TLC finishes.

## What is left

`ImplementsVfs` from `LInv` and `KInv`: the view of the tree and the map is then that of
the disk, and each handler's step can be compared with `Vfs`'s.
