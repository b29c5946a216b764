----------------------------- MODULE VirtualFileTree -----------------------------
(***************************************************************************)
(* A VirtualFileTreeItem tree under any sequence of calls of its interface,*)
(* as the program makes them: a tree is built with add(), a second tree is *)
(* built the same way and merged into it with +=, and the file system      *)
(* operations then add to it, erase from it, and mark and rename items     *)
(* they have found.  Each call is atomic: it holds the lock of the root    *)
(* (add, erase, +=) or of the one item it changes (setDeleted, setName).   *)
(***************************************************************************)
EXTENDS FileTree

CONSTANTS
  Paths,   \* paths callers use
  Real,    \* real paths
  Kinds    \* types callers give to add()

ASSUME PathsAssumption ==
  /\ Paths \subseteq Seq(Name)
  /\ Kinds \subseteq Type
  /\ RootName \notin Name

VARIABLES
  tree,    \* the tree of a mount
  source,  \* the tree usvfsVirtualLinkDirectoryStatic() is building
  last     \* the last call and what it returned

vars == <<tree, source, last>>

Errors == {"ok", "EINVAL", "ENOENT", "EEXIST", "ENOTEMPTY"}
Calls == {"none", "add", "erase", "hide", "show", "name", "fill", "merge"}

Reply(call, p, err) == last' = [call |-> call, key |-> Fold(p), err |-> err]

Init ==
  /\ \E r, s \in Real : tree = Root(r) /\ source = Root(s)
  /\ last = [call |-> "none", key |-> <<>>, err |-> "ok"]

Add(p, real, type, update) ==
  LET err == AddError(tree, p, update)
  IN  /\ tree' = IF err = "ok" THEN Added(tree, p, real, type) ELSE tree
      /\ Reply("add", p, err)
      /\ UNCHANGED source

Erase(p, reallyErase) ==
  LET err == EraseError(tree, p)
  IN  /\ tree' = IF err = "ok" THEN Erased(tree, p, reallyErase) ELSE tree
      /\ Reply("erase", p, err)
      /\ UNCHANGED source

\* usvfs_rmdir() marks a directory it has found; usvfs_mkdir() takes the mark
\* off an item it has found with includeDeleted.  Neither is called on the root.
SetDeleted(p, deleted) ==
  /\ Present(tree, p)
  /\ p # <<>>
  /\ tree' = WithDeleted(tree, Fold(p), deleted)
  /\ Reply(IF deleted THEN "hide" ELSE "show", p, "ok")
  /\ UNCHANGED source

\* usvfs_mkdir() gives the item the spelling of the path it was found by.
SetName(p) ==
  /\ Present(tree, p)
  /\ p # <<>>
  /\ tree' = WithName(tree, Fold(p), Base(p))
  /\ Reply("name", p, "ok")
  /\ UNCHANGED source

\* The recursive walk of the directory that is being linked.
AddToSource(p, real, type) ==
  /\ AddError(source, p, FALSE) = "ok"
  /\ source' = Added(source, p, real, type)
  /\ Reply("fill", p, "ok")
  /\ UNCHANGED tree

\* *state->fileTree += *sourceFileTree; the next link builds a new source.
Merge(real) ==
  /\ tree' = Merged(tree, source)
  /\ source' = Root(real)
  /\ Reply("merge", <<>>, "ok")

Next ==
  \/ \E p \in Paths, real \in Real, type \in Kinds :
       \/ \E update \in BOOLEAN : Add(p, real, type, update)
       \/ AddToSource(p, real, type)
  \/ \E p \in Paths, b \in BOOLEAN : Erase(p, b) \/ SetDeleted(p, b)
  \/ \E p \in Paths : SetName(p)
  \/ \E real \in Real : Merge(real)

Spec == Init /\ [][Next]_vars

-----------------------------------------------------------------------------
(***************************************************************************)
(* Properties.                                                             *)
(***************************************************************************)
TypeOK ==
  /\ IsTree(tree, Real)
  /\ IsTree(source, Real)
  /\ last \in [call : Calls, key : Seq(Key), err : Errors]

\* No item is ever left without the directory it hangs in (an erased or merged
\* subtree goes and comes as a whole): every walk from the root that find(),
\* add() and erase() make passes through items that exist.
NoOrphans == PrefixClosed(tree) /\ PrefixClosed(source)

\* Whatever mixture of spellings callers use, the name readdir shows and rename
\* hands to the kernel is, but for case, the key the item is found by.
NamesFollowKeys == NamedByKey(tree) /\ NamedByKey(source)

\* Linking one more directory does not bring back what was deleted: += leaves
\* the deleted mark of an item both trees have as it is.
MergeKeepsDeleted ==
  [][last'.call = "merge" =>
       \A k \in DOMAIN tree : k \in DOMAIN tree' /\ tree'[k].deleted = tree[k].deleted]_vars

\* The tree with its deleted marks implements the map without them.
Found(t) == {k \in DOMAIN t : k = <<>> \/ ~t[k].deleted}
LinksOf(t) == [k \in Found(t) |-> t[k].real]

Abstract ==
  INSTANCE LinkMap WITH
    Keys <- {Fold(p) : p \in Paths},
    links <- LinksOf(tree),
    other <- LinksOf(source)

ImplementsLinkMap == Abstract!Spec
=============================================================================
