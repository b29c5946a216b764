------------------------------- MODULE FileTree -------------------------------
(***************************************************************************)
(* The data structure of VirtualFileTreeItem (src/virtualfiletreeitem.cpp) *)
(* and its operations, as functions of a tree.                             *)
(*                                                                         *)
(* A tree is a function from keys to items.  A key is the sequence of      *)
(* lower-cased components that leads from the root to the item, i.e. the   *)
(* keys of the nested m_children maps; <<>> is the root item.  m_parent    *)
(* and m_children are the prefix relation between keys.                    *)
(*                                                                         *)
(* A path is what a caller writes: a sequence of components in any case.   *)
(* Splitting a path at '/' and dropping a leading '/' are abstracted.      *)
(***************************************************************************)
EXTENDS Naturals, Sequences

CONSTANTS
  Name,    \* path components as callers and directories spell them
  Lower    \* toLower() on components

ASSUME LowerAssumption ==
  /\ Lower \in [Name -> Name]
  /\ \A n \in Name : Lower[Lower[n]] = Lower[n]

Key == {Lower[n] : n \in Name}
Type == {"file", "dir", "unknown"}
RootName == "/"

Item(Real) ==
  [name : Name \cup {RootName}, real : Real, type : Type, deleted : BOOLEAN]

(***************************************************************************)
(* Paths and keys.                                                         *)
(***************************************************************************)
FoldNothing(p) == p

\* The key a path is looked up by.
Fold(p) == [i \in 1..Len(p) |-> Lower[p[i]]]

Parent(k) == SubSeq(k, 1, Len(k) - 1)
Base(k) == k[Len(k)]

\* q is k or lies below k.
Under(k, q) == Len(k) =< Len(q) /\ \A i \in 1..Len(k) : q[i] = k[i]

Children(t, k) == {q \in DOMAIN t : q # <<>> /\ Parent(q) = k}

(***************************************************************************)
(* Queries.                                                                *)
(***************************************************************************)
\* find(): deleted marks are looked at on the last component only, never on
\* the directories walked through, and never on the root.
Present(t, p) == Fold(p) \in DOMAIN t

Visible(t, p) ==
  /\ Present(t, p)
  /\ Fold(p) = <<>> \/ ~t[Fold(p)].deleted

\* isEmpty() as written: it asks each child the same question and looks at
\* neither m_deleted nor m_type.
IsEmpty(t, k) ==
  LET empty[q \in DOMAIN t] == \A c \in Children(t, q) : empty[c]
  IN  empty[k]

\* filePath(): the names stored in the items from the root down to k.
FilePath(t, k) == [i \in 1..Len(k) |-> t[SubSeq(k, 1, i)].name]

(***************************************************************************)
(* Construction: create() of a root item.                                  *)
(***************************************************************************)
NewItem(n, real, type) ==
  [name |-> n, real |-> real, type |-> type, deleted |-> FALSE]

Root(real) == [k \in {<<>>} |-> NewItem(RootName, real, "dir")]

(***************************************************************************)
(* Assignments to the fields of an item.                                   *)
(***************************************************************************)
Marked(i, deleted) == [i EXCEPT !.deleted = deleted]
Named(i, n) == [i EXCEPT !.name = n]
RevivedInPlace(i, real) == Marked(i, FALSE)

Revived(i, real) == [i EXCEPT !.deleted = FALSE, !.real = real]
Relinked(i, j) == [i EXCEPT !.name = j.name, !.real = j.real]

(***************************************************************************)
(* add()                                                                   *)
(***************************************************************************)
AddErrorIgnoringParent(t, p, update) ==
  IF p = <<>> THEN "EINVAL"
  ELSE IF Visible(t, p) /\ ~update THEN "EEXIST"
  ELSE "ok"

AddError(t, p, update) ==
  IF p = <<>> THEN "EINVAL"
  ELSE IF Parent(Fold(p)) \notin DOMAIN t THEN "ENOENT"
  ELSE IF Visible(t, p) /\ ~update THEN "EEXIST"
  ELSE "ok"

Added(t, p, real, type) ==
  LET k == Fold(p)
  IN  [q \in DOMAIN t \cup {k} |->
         IF q # k THEN t[q]
         ELSE IF k \in DOMAIN t THEN Revived(t[k], real)
         ELSE NewItem(Base(p), real, type)]

(***************************************************************************)
(* erase()                                                                 *)
(***************************************************************************)
EraseError(t, p) ==
  IF p = <<>> \/ ~Present(t, p) THEN "ENOENT"
  ELSE IF ~IsEmpty(t, Fold(p)) THEN "ENOTEMPTY"
  ELSE "ok"

ErasedSelfOnly(t, p, reallyErase) ==
  LET k == Fold(p)
  IN  IF reallyErase
      THEN [q \in DOMAIN t \ {k} |-> t[q]]
      ELSE [t EXCEPT ![k] = Marked(@, TRUE)]

Erased(t, p, reallyErase) ==
  LET k == Fold(p)
  IN  IF reallyErase
      THEN [q \in {r \in DOMAIN t : ~Under(k, r)} |-> t[q]]
      ELSE [q \in DOMAIN t |->
              IF Under(k, q) THEN Marked(t[q], TRUE) ELSE t[q]]

(***************************************************************************)
(* setDeleted() and setName() on an item a caller has found.               *)
(***************************************************************************)
WithDeleted(t, k, deleted) == [t EXCEPT ![k] = Marked(@, deleted)]

WithNameOfParent(t, k, n) == [t EXCEPT ![Parent(k)] = Named(@, n)]

WithName(t, k, n) == [t EXCEPT ![k] = Named(@, n)]

(***************************************************************************)
(* operator+=: s is merged into t.  An item both have keeps its type and   *)
(* its deleted mark; an item only s has is cloned with all its children,   *)
(* and clone() keeps the deleted marks of the children but not that of the *)
(* item it is called on.                                                   *)
(***************************************************************************)
Cloned(i, isTop) == Marked(i, ~isTop /\ i.deleted)

MergedReviving(t, s) ==
  [k \in DOMAIN t \cup DOMAIN s |->
     IF k \notin DOMAIN s THEN t[k]
     ELSE IF k \notin DOMAIN t THEN s[k]
     ELSE Marked(Relinked(t[k], s[k]), FALSE)]

Merged(t, s) ==
  [k \in DOMAIN t \cup DOMAIN s |->
     IF k \notin DOMAIN s THEN t[k]
     ELSE IF k \in DOMAIN t THEN Relinked(t[k], s[k])
     ELSE Cloned(s[k], Parent(k) \in DOMAIN t)]

(***************************************************************************)
(* What a well-formed tree is.                                             *)
(***************************************************************************)
IsTree(t, Real) ==
  /\ t = [k \in DOMAIN t |-> t[k]]
  /\ DOMAIN t \subseteq Seq(Key)
  /\ \A k \in DOMAIN t : t[k] \in Item(Real)
  /\ <<>> \in DOMAIN t

\* Every item hangs below an item.
PrefixClosed(t) ==
  \A k \in DOMAIN t : k # <<>> => Parent(k) \in DOMAIN t

\* The spelling an item shows differs at most in case from the key it is
\* found by.
NamedByKey(t) ==
  \A k \in DOMAIN t : k # <<>> => t[k].name \in Name /\ Lower[t[k].name] = Base(k)
=============================================================================
