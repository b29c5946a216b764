----------------------------- MODULE FileTreeProofs -----------------------------
(***************************************************************************)
(* What the operators of FileTree yield, for every set of names, every     *)
(* case folding, every set R of real paths and trees of any size: the      *)
(* lemmas that the proofs about the components that keep a tree rest on.   *)
(***************************************************************************)
EXTENDS FileTree, ListFacts

-----------------------------------------------------------------------------
(***************************************************************************)
(* Keys.                                                                   *)
(***************************************************************************)
\* Folding a path keeps its length and yields a key.
LEMMA FoldProperties ==
  ASSUME NEW p \in Seq(Name)
  PROVE  /\ Fold(p) \in Seq(Key)
         /\ Len(Fold(p)) = Len(p)
         /\ Fold(p) = <<>> <=> p = <<>>
<1>1. Len(p) \in Nat /\ p \in [1..Len(p) -> Name]
  BY LenProperties
<1>2. Fold(p) \in [1..Len(p) -> Key]
  BY <1>1, LowerAssumption DEF Fold, Key
<1>3. Fold(p) \in Seq(Key)
  BY <1>1, <1>2, SeqDef
<1>4. Len(Fold(p)) = Len(p)
  BY <1>1, <1>2, <1>3, LenProperties
<1>5. Fold(p) = <<>> <=> p = <<>>
  BY <1>1, <1>3, <1>4, EmptySeq
<1>. QED  BY <1>3, <1>4, <1>5

\* The last component of a path folds to the last component of its key.
LEMMA FoldBase ==
  ASSUME NEW p \in Seq(Name), p # <<>>
  PROVE  Base(p) \in Name /\ Lower[Base(p)] = Base(Fold(p))
<1>1. Len(p) \in Nat \ {0} /\ p \in [1..Len(p) -> Name]
  BY LenProperties, EmptySeq
<1>2. Len(Fold(p)) = Len(p)
  BY FoldProperties
<1>. QED  BY <1>1, <1>2 DEF Base, Fold

\* The parent of a path is the path without its last component.
LEMMA ParentOf ==
  ASSUME NEW S, NEW k \in Seq(S), k # <<>>
  PROVE  /\ Len(k) \in Nat \ {0}
         /\ Parent(k) \in Seq(S)
         /\ Len(Parent(k)) = Len(k) - 1
         /\ \A i \in 1..Len(k) - 1 : Parent(k)[i] = k[i]
<1>1. Len(k) \in Nat \ {0} /\ k \in [1..Len(k) -> S]
  BY LenProperties, EmptySeq
<1>2. \A i \in 1..Len(k) - 1 : k[i] \in S
  BY <1>1
<1>. QED  BY <1>1, <1>2, SubSeqProperties DEF Parent

\* So it is for keys.
LEMMA ParentProperties ==
  ASSUME NEW k \in Seq(Key), k # <<>>
  PROVE  /\ Len(k) \in Nat \ {0}
         /\ Parent(k) \in Seq(Key)
         /\ Len(Parent(k)) = Len(k) - 1
         /\ \A i \in 1..Len(k) - 1 : Parent(k)[i] = k[i]
BY ParentOf

\* The key of a path's parent is the parent of the path's key.
LEMMA FoldParent ==
  ASSUME NEW p \in Seq(Name), p # <<>>
  PROVE  Fold(Parent(p)) = Parent(Fold(p)) /\ Parent(p) \in Seq(Name)
<1>. DEFINE q == Parent(p)
            k == Fold(p)
            n == Len(p) - 1
<1>1. Len(p) \in Nat \ {0} /\ q \in Seq(Name) /\ Len(q) = n /\ \A i \in 1..n : q[i] = p[i]
  BY ParentOf
<1>2. k \in Seq(Key) /\ k # <<>> /\ Len(k) = Len(p)
  BY FoldProperties
<1>3. /\ Parent(k) \in Seq(Key) /\ Len(Parent(k)) = n
      /\ \A i \in 1..n : Parent(k)[i] = k[i]
  BY <1>2, ParentProperties
<1>4. \A i \in 1..n : k[i] = Lower[p[i]]
  BY <1>1 DEF Fold
<1>5. Fold(q) \in Seq(Key) /\ Len(Fold(q)) = n
  BY <1>1, FoldProperties
<1>6. \A i \in 1..n : Fold(q)[i] = Lower[q[i]]
  BY <1>1 DEF Fold
<1>. HIDE DEF q, k
<1>7. \A i \in 1..n : Fold(q)[i] = Parent(k)[i]
  BY <1>1, <1>3, <1>4, <1>6
<1>8. Fold(q) = Parent(k)
  BY <1>3, <1>5, <1>7, SeqEqual
<1>. QED  BY <1>1, <1>8 DEF q, k

\* What lies below the parent's key lies below the key of every ancestor.
LEMMA UnderParent ==
  ASSUME NEW k \in Seq(Key), NEW q \in Seq(Key), q # <<>>, Under(k, Parent(q))
  PROVE  Under(k, q)
<1>1. Len(k) \in Nat /\ Len(q) \in Nat
  BY LenProperties
<1>. QED  BY <1>1, ParentProperties DEF Under

-----------------------------------------------------------------------------
(***************************************************************************)
(* Each operation yields a tree again, with no orphans, with names that    *)
(* fold to their keys.  Sound is the three facts together.              *)
(***************************************************************************)
Sound(t, R) == IsTree(t, R) /\ PrefixClosed(t) /\ NamedByKey(t)

\* A new item is an item, and not deleted.
LEMMA NewItemType ==
  ASSUME NEW R, NEW n \in Name \cup {RootName}, NEW real \in R, NEW type \in Type
  PROVE  /\ NewItem(n, real, type) \in Item(R)
         /\ NewItem(n, real, type).name = n
         /\ NewItem(n, real, type).real = real
         /\ ~NewItem(n, real, type).deleted
BY DEF NewItem, Item

\* Marking an item changes its mark and nothing else.
LEMMA MarkedType ==
  ASSUME NEW R, NEW i \in Item(R), NEW deleted \in BOOLEAN
  PROVE  /\ Marked(i, deleted) \in Item(R)
         /\ Marked(i, deleted).name = i.name
         /\ Marked(i, deleted).real = i.real
         /\ Marked(i, deleted).deleted = deleted
BY DEF Marked, Item

\* Naming an item changes its name and nothing else.
LEMMA NamedType ==
  ASSUME NEW R, NEW i \in Item(R), NEW n \in Name
  PROVE  /\ Named(i, n) \in Item(R)
         /\ Named(i, n).name = n
         /\ Named(i, n).real = i.real
         /\ Named(i, n).deleted = i.deleted
BY DEF Named, Item

\* Reviving an item keeps its name and takes off its mark.
LEMMA RevivedType ==
  ASSUME NEW R, NEW i \in Item(R), NEW real \in R
  PROVE  /\ Revived(i, real) \in Item(R)
         /\ Revived(i, real).name = i.name
         /\ Revived(i, real).real = real
         /\ ~Revived(i, real).deleted
BY DEF Revived, Item

\* Relinking an item takes name and real path from another one and
\* keeps the mark.
LEMMA RelinkedType ==
  ASSUME NEW R, NEW i \in Item(R), NEW j \in Item(R)
  PROVE  /\ Relinked(i, j) \in Item(R)
         /\ Relinked(i, j).name = j.name
         /\ Relinked(i, j).real = j.real
         /\ Relinked(i, j).deleted = i.deleted
BY DEF Relinked, Item

\* A root alone is a sound tree.
LEMMA RootSound ==
  ASSUME NEW R, NEW real \in R
  PROVE  Sound(Root(real), R) /\ DOMAIN Root(real) = {<<>>} /\ Root(real)[<<>>].real = real
<1>1. <<>> \in Seq(Key)
  BY EmptySeq
<1>2. Root(real) = [k \in {<<>>} |-> NewItem(RootName, real, "dir")]
  BY DEF Root
<1>3. /\ NewItem(RootName, real, "dir") \in Item(R)
      /\ NewItem(RootName, real, "dir").real = real
  BY DEF NewItem, Item, Type
<1>. QED  BY <1>1, <1>2, <1>3 DEF Sound, IsTree, PrefixClosed, NamedByKey

\* add() keeps a tree sound when it does not refuse.
LEMMA AddedSound ==
  ASSUME NEW R, NEW t, Sound(t, R),
         NEW p \in Seq(Name), NEW real \in R, NEW type \in Type,
         NEW update \in BOOLEAN, AddError(t, p, update) = "ok"
  PROVE  Sound(Added(t, p, real, type), R)
<1>. DEFINE k == Fold(p)
            u == Added(t, p, real, type)
<1>1. /\ k \in Seq(Key) /\ k # <<>> /\ p # <<>>
      /\ Parent(k) \in DOMAIN t
      /\ Base(p) \in Name /\ Lower[Base(p)] = Base(k)
  BY FoldProperties, FoldBase DEF AddError
<1>2. DOMAIN u = DOMAIN t \cup {k}
  BY DEF Added
<1>3. \A q \in DOMAIN t : q # k => u[q] = t[q]
  BY DEF Added
<1>4. k \in DOMAIN t => u[k] = Revived(t[k], real)
  BY DEF Added
<1>5. k \notin DOMAIN t => u[k] = NewItem(Base(p), real, type)
  BY DEF Added
<1>6. u[k] \in Item(R) /\ u[k].name \in Name /\ Lower[u[k].name] = Base(k)
  <2>1. CASE k \in DOMAIN t
    BY <1>1, <1>4, <2>1, RevivedType DEF Sound, IsTree, NamedByKey
  <2>2. CASE k \notin DOMAIN t
    BY <1>1, <1>5, <2>2, NewItemType
  <2>. QED  BY <2>1, <2>2
<1>7. IsTree(u, R)
  <2>1. u = [q \in DOMAIN u |-> u[q]]
    BY DEF Added
  <2>. QED  BY <1>1, <1>2, <1>3, <1>6, <2>1 DEF Sound, IsTree
<1>8. PrefixClosed(u)
  BY <1>1, <1>2 DEF Sound, PrefixClosed
<1>9. NamedByKey(u)
  BY <1>2, <1>3, <1>6 DEF Sound, NamedByKey
<1>. QED  BY <1>7, <1>8, <1>9 DEF Sound

\* erase() keeps a tree sound, whether it erases or marks.
LEMMA ErasedSound ==
  ASSUME NEW R, NEW t, Sound(t, R),
         NEW p \in Seq(Name), NEW reallyErase \in BOOLEAN, EraseError(t, p) = "ok"
  PROVE  Sound(Erased(t, p, reallyErase), R)
<1>. DEFINE k == Fold(p)
            u == Erased(t, p, reallyErase)
<1>1. k \in Seq(Key) /\ k # <<>>
  BY FoldProperties DEF EraseError
<1>2. ~Under(k, <<>>)
  BY <1>1, EmptySeq, LenProperties DEF Under
<1>3. CASE reallyErase
  <2>1. DOMAIN u = {q \in DOMAIN t : ~Under(k, q)} /\ \A q \in DOMAIN u : u[q] = t[q]
    BY <1>3 DEF Erased
  <2>2. u = [q \in DOMAIN u |-> u[q]]
    BY <1>3 DEF Erased
  <2>3. PrefixClosed(u)
    <3>1. SUFFICES ASSUME NEW q \in DOMAIN u, q # <<>>  PROVE Parent(q) \in DOMAIN u
      BY DEF PrefixClosed
    <3>2. q \in DOMAIN t /\ Parent(q) \in DOMAIN t /\ q \in Seq(Key)
      BY <2>1, <3>1 DEF Sound, PrefixClosed, IsTree
    <3>3. ~Under(k, Parent(q))
      BY <1>1, <2>1, <3>1, <3>2, UnderParent
    <3>. QED  BY <2>1, <3>2, <3>3
  <2>4. IsTree(u, R)
    BY <1>2, <2>1, <2>2 DEF Sound, IsTree
  <2>5. NamedByKey(u)
    BY <2>1 DEF Sound, NamedByKey
  <2>. QED  BY <2>3, <2>4, <2>5 DEF Sound
<1>4. CASE ~reallyErase
  <2>1. DOMAIN u = DOMAIN t
    BY <1>4 DEF Erased
  <2>2. \A q \in DOMAIN t : u[q] \in {t[q], Marked(t[q], TRUE)}
    BY <1>4 DEF Erased
  <2>3. ASSUME NEW q \in DOMAIN t
        PROVE  u[q] \in Item(R) /\ u[q].name = t[q].name
    <3>1. t[q] \in Item(R)
      BY DEF Sound, IsTree
    <3>2. Marked(t[q], TRUE) \in Item(R) /\ Marked(t[q], TRUE).name = t[q].name
      BY <3>1, MarkedType
    <3>3. u[q] = t[q] \/ u[q] = Marked(t[q], TRUE)
      BY <2>2
    <3>. HIDE DEF u
    <3>. QED  BY <3>1, <3>2, <3>3
  <2>4. u = [q \in DOMAIN u |-> u[q]]
    BY <1>4 DEF Erased
  <2>. QED  BY <2>1, <2>3, <2>4 DEF Sound, IsTree, PrefixClosed, NamedByKey
<1>. QED  BY <1>3, <1>4

\* setDeleted() on an item of a sound tree keeps it sound.
LEMMA WithDeletedSound ==
  ASSUME NEW R, NEW t, Sound(t, R), NEW k \in DOMAIN t, NEW deleted \in BOOLEAN
  PROVE  Sound(WithDeleted(t, k, deleted), R)
<1>. DEFINE u == WithDeleted(t, k, deleted)
<1>1. DOMAIN u = DOMAIN t /\ u = [q \in DOMAIN u |-> u[q]]
  BY DEF WithDeleted
<1>2. \A q \in DOMAIN t : u[q] \in {t[q], Marked(t[q], deleted)}
  BY DEF WithDeleted
<1>3. ASSUME NEW q \in DOMAIN t
      PROVE  u[q] \in Item(R) /\ u[q].name = t[q].name
  <2>1. t[q] \in Item(R)
    BY DEF Sound, IsTree
  <2>2. Marked(t[q], deleted) \in Item(R) /\ Marked(t[q], deleted).name = t[q].name
    BY <2>1, MarkedType
  <2>3. u[q] = t[q] \/ u[q] = Marked(t[q], deleted)
    BY <1>2
  <2>. HIDE DEF u
  <2>. QED  BY <2>1, <2>2, <2>3
<1>. QED  BY <1>1, <1>3 DEF Sound, IsTree, PrefixClosed, NamedByKey

\* setName() with a spelling of the item's own key keeps a tree sound.
LEMMA WithNameSound ==
  ASSUME NEW R, NEW t, Sound(t, R), NEW p \in Seq(Name), p # <<>>, Present(t, p)
  PROVE  Sound(WithName(t, Fold(p), Base(p)), R)
<1>. DEFINE k == Fold(p)
            u == WithName(t, k, Base(p))
<1>1. Base(p) \in Name /\ Lower[Base(p)] = Base(k) /\ k \in DOMAIN t
  BY FoldBase DEF Present
<1>2. DOMAIN u = DOMAIN t /\ u = [q \in DOMAIN u |-> u[q]]
  BY DEF WithName
<1>3. \A q \in DOMAIN t : q # k => u[q] = t[q]
  BY DEF WithName
<1>4. u[k] = Named(t[k], Base(p))
  BY <1>1 DEF WithName
<1>5. u[k] \in Item(R) /\ u[k].name = Base(p)
  BY <1>1, <1>4, NamedType DEF Sound, IsTree
<1>6. IsTree(u, R)
  BY <1>2, <1>3, <1>5 DEF Sound, IsTree
<1>. QED  BY <1>1, <1>2, <1>3, <1>5, <1>6 DEF Sound, PrefixClosed, NamedByKey

\* Merging two sound trees yields a sound tree.
LEMMA MergedSound ==
  ASSUME NEW R, NEW t, Sound(t, R), NEW s, Sound(s, R)
  PROVE  Sound(Merged(t, s), R)
<1>. DEFINE u == Merged(t, s)
<1>1. DOMAIN u = DOMAIN t \cup DOMAIN s /\ u = [q \in DOMAIN u |-> u[q]]
  BY DEF Merged
<1>2. \A q \in DOMAIN t \ DOMAIN s : u[q] = t[q]
  BY DEF Merged
<1>3. \A q \in DOMAIN t \cap DOMAIN s :
        u[q] = Relinked(t[q], s[q])
  BY DEF Merged
<1>4. \A q \in DOMAIN s \ DOMAIN t :
        u[q] = Marked(s[q], Parent(q) \notin DOMAIN t /\ s[q].deleted)
  BY DEF Merged, Cloned
<1>. HIDE DEF u
<1>5. ASSUME NEW q \in DOMAIN u
      PROVE  u[q] \in Item(R) /\ (q \in DOMAIN s => u[q].name = s[q].name)
  <2>1. q \in DOMAIN t => t[q] \in Item(R)
    BY DEF Sound, IsTree
  <2>2. q \in DOMAIN s => s[q] \in Item(R)
    BY DEF Sound, IsTree
  <2>3. CASE q \in DOMAIN t \ DOMAIN s
    BY <1>2, <2>1, <2>3
  <2>4. CASE q \in DOMAIN t \cap DOMAIN s
    BY <1>3, <2>1, <2>2, <2>4, RelinkedType
  <2>5. CASE q \in DOMAIN s \ DOMAIN t
    <3>1. (Parent(q) \notin DOMAIN t /\ s[q].deleted) \in BOOLEAN
      BY <2>2, <2>5 DEF Item
    <3>. DEFINE m == Marked(s[q], Parent(q) \notin DOMAIN t /\ s[q].deleted)
    <3>2. m \in Item(R) /\ m.name = s[q].name
      BY <2>2, <2>5, <3>1, MarkedType
    <3>3. u[q] = m
      BY <1>4, <2>5
    <3>. HIDE DEF m
    <3>. QED  BY <3>2, <3>3
  <2>. QED  BY <1>1, <2>3, <2>4, <2>5
<1>6. \A q \in DOMAIN s : u[q].name = s[q].name
  BY <1>1, <1>5
<1>7. IsTree(u, R)
  BY <1>1, <1>5 DEF Sound, IsTree
<1>8. PrefixClosed(u)
  BY <1>1 DEF Sound, PrefixClosed
<1>9. NamedByKey(u)
  BY <1>1, <1>2, <1>6 DEF Sound, NamedByKey
<1>. QED  BY <1>7, <1>8, <1>9 DEF Sound, u

-----------------------------------------------------------------------------
(***************************************************************************)
(* Walks from the root.                                                    *)
(***************************************************************************)
\* Every directory on the way to an item is there.
LEMMA PrefixesPresent ==
  ASSUME NEW R, NEW t, Sound(t, R), NEW k \in DOMAIN t, NEW i \in 0..Len(k)
  PROVE  SubSeq(k, 1, i) \in DOMAIN t /\ Len(SubSeq(k, 1, i)) = i
<1>1. k \in Seq(Key) /\ Len(k) \in Nat
  BY LenProperties DEF Sound, IsTree
<1>2. \A j \in 0..Len(k) :
        /\ SubSeq(k, 1, j) \in Seq(Key) /\ Len(SubSeq(k, 1, j)) = j
        /\ \A m \in 1..j : SubSeq(k, 1, j)[m] = k[m]
  <2>1. SUFFICES ASSUME NEW j \in 0..Len(k)
                 PROVE  /\ SubSeq(k, 1, j) \in Seq(Key) /\ Len(SubSeq(k, 1, j)) = j
                        /\ \A m \in 1..j : SubSeq(k, 1, j)[m] = k[m]
    OBVIOUS
  <2>2. \A m \in 1..Len(k) : k[m] \in Key
    BY <1>1, LenProperties
  <2>3. 1 \in Int /\ j \in Int /\ \A m \in 1..j : k[m] \in Key
    BY <1>1, <2>2
  <2>. QED  BY <1>1, <2>3, SubSeqProperties
<1>. DEFINE H == {n \in Nat : n =< Len(k) => SubSeq(k, 1, Len(k) - n) \in DOMAIN t}
<1>3. 0 \in H
  <2>1. SubSeq(k, 1, Len(k)) = k
    <3>. DEFINE u == SubSeq(k, 1, Len(k))
    <3>1. u \in Seq(Key) /\ Len(u) = Len(k) /\ \A m \in 1..Len(k) : u[m] = k[m]
      BY <1>1, <1>2
    <3>. HIDE DEF u
    <3>2. u = k
      BY <1>1, <3>1, SeqEqual
    <3>. QED  BY <3>2 DEF u
  <2>2. Len(k) - 0 = Len(k)
    BY <1>1
  <2>3. SubSeq(k, 1, Len(k) - 0) \in DOMAIN t
    BY <2>1, <2>2
  <2>. QED  BY <2>3
<1>4. ASSUME NEW n \in 0..Len(k), n # 0, n - 1 \in H  PROVE n \in H
  <2>. DEFINE q == SubSeq(k, 1, Len(k) - (n - 1))
              m == Len(k) - n
  <2>1. n \in Nat /\ m \in 0..Len(k) /\ Len(k) - (n - 1) = m + 1 /\ m + 1 \in 0..Len(k)
    BY <1>1, <1>4
  <2>2. q \in DOMAIN t /\ q \in Seq(Key) /\ Len(q) = m + 1
    BY <1>1, <1>2, <1>4, <2>1
  <2>3. \A j \in 1..m + 1 : q[j] = k[j]
    BY <1>2, <2>1
  <2>. HIDE DEF q
  <2>4. q # <<>>
    BY <2>1, <2>2, EmptySeq
  <2>5. Parent(q) \in DOMAIN t /\ Parent(q) \in Seq(Key)
    BY <2>2, <2>4 DEF Sound, PrefixClosed, IsTree
  <2>6. Len(Parent(q)) = m /\ \A j \in 1..m : Parent(q)[j] = q[j]
    BY <2>1, <2>2, <2>4, ParentProperties
  <2>7. SubSeq(k, 1, m) \in Seq(Key) /\ Len(SubSeq(k, 1, m)) = m
    BY <1>2, <2>1
  <2>8. \A j \in 1..m : SubSeq(k, 1, m)[j] = Parent(q)[j]
    BY <1>2, <2>1, <2>3, <2>6
  <2>9. SubSeq(k, 1, m) = Parent(q)
    BY <2>5, <2>6, <2>7, <2>8, SeqEqual
  <2>. QED  BY <2>1, <2>5, <2>9
<1>. HIDE DEF H
<1>5. 0..Len(k) \subseteq H
  BY <1>1, <1>3, <1>4, Induction
<1>6. Len(k) - i \in H /\ Len(k) - i =< Len(k) /\ Len(k) - (Len(k) - i) = i
  BY <1>1, <1>5
<1>. QED  BY <1>2, <1>6 DEF H

\* The path of an item below the root is made of names, and ends in its own.
LEMMA FilePathType ==
  ASSUME NEW R, NEW t, Sound(t, R), NEW k \in DOMAIN t
  PROVE  /\ FilePath(t, k) \in Seq(Name)
         /\ Len(FilePath(t, k)) = Len(k)
         /\ \A i \in 1..Len(k) : FilePath(t, k)[i] \in Name
<1>1. Len(k) \in Nat
  BY LenProperties DEF Sound, IsTree
<1>2. ASSUME NEW i \in 1..Len(k)
      PROVE  t[SubSeq(k, 1, i)].name \in Name
  <2>1. SubSeq(k, 1, i) \in DOMAIN t /\ Len(SubSeq(k, 1, i)) = i
    BY <1>1, PrefixesPresent
  <2>2. SubSeq(k, 1, i) # <<>>
    BY <1>1, <2>1, EmptySeq
  <2>. QED  BY <2>1, <2>2 DEF Sound, NamedByKey
<1>3. FilePath(t, k) \in [1..Len(k) -> Name]
  BY <1>2 DEF FilePath
<1>4. FilePath(t, k) \in Seq(Name)
  BY <1>1, <1>3, SeqDef
<1>. QED  BY <1>1, <1>3, <1>4, LenProperties

-----------------------------------------------------------------------------
(***************************************************************************)
(* isEmpty().  It calls itself on the children, and ends, since no walk    *)
(* from the root goes on for good.                                         *)
(***************************************************************************)
Shallow(t) == \E n \in Nat : \A k \in DOMAIN t : Len(k) =< n

\* isEmpty() finds every directory of a tree empty, whatever is in it: an item
\* without children is empty, so one whose children are empty is.
LEMMA EverythingIsEmpty ==
  ASSUME NEW R, NEW t, Sound(t, R), Shallow(t), NEW k \in DOMAIN t
  PROVE  IsEmpty(t, k)
<1>. DEFINE Asks(e) == e = [q \in DOMAIN t |-> \A c \in Children(t, q) : e[c]]
            empty == CHOOSE e : Asks(e)
<1>1. \A q \in DOMAIN t : Children(t, q) \subseteq DOMAIN t
  BY DEF Children
<1>2. Asks([q \in DOMAIN t |-> TRUE])
  <2>. DEFINE e == [q \in DOMAIN t |-> TRUE]
  <2>1. \A q \in DOMAIN t : \A c \in Children(t, q) : e[c]
    BY <1>1
  <2>2. \A q \in DOMAIN t : e[q] = (\A c \in Children(t, q) : e[c])
    BY <2>1
  <2>. QED  BY <2>2
<1>3. Asks(empty)
  BY <1>2
<1>4. \A q \in DOMAIN t : empty[q] = \A c \in Children(t, q) : empty[c]
  BY <1>3
<1>5. IsEmpty(t, k) = empty[k]
  BY DEF IsEmpty
<1>. HIDE DEF empty, Asks
<1>6. PICK n \in Nat : \A q \in DOMAIN t : Len(q) =< n
  BY DEF Shallow
<1>7. \A q \in DOMAIN t : q \in Seq(Key) /\ Len(q) \in Nat
  BY LenProperties DEF Sound, IsTree
<1>. DEFINE T == {m \in Nat : \E q \in DOMAIN t : ~empty[q] /\ m = n - Len(q)}
<1>8. T = {}
  <2>1. SUFFICES ASSUME T # {}  PROVE FALSE
    OBVIOUS
  <2>2. T \in SUBSET Nat
    OBVIOUS
  <2>3. PICK m \in T : \A j \in T : m =< j
    BY <2>1, <2>2, Smallest
  <2>4. PICK q \in DOMAIN t : ~empty[q] /\ m = n - Len(q)
    BY <2>3
  <2>5. PICK c \in Children(t, q) : ~empty[c]
    BY <1>4, <2>4
  <2>6. c \in DOMAIN t /\ c # <<>> /\ Parent(c) = q /\ c \in Seq(Key)
    BY <1>7, <2>5 DEF Children
  <2>7. Len(q) = Len(c) - 1
    BY <2>6, ParentProperties
  <2>8. n - Len(c) \in Nat
    BY <1>6, <1>7, <2>6
  <2>9. n - Len(c) \in T
    BY <2>5, <2>6, <2>8
  <2>. HIDE DEF T
  <2>10. m =< n - Len(c)
    BY <2>3, <2>9
  <2>. QED  BY <1>7, <2>4, <2>6, <2>7, <2>10
<1>9. n - Len(k) \in Nat
  BY <1>6, <1>7
<1>10. empty[k]
  BY <1>8, <1>9
<1>. QED  BY <1>5, <1>10

\* erase() refuses only the root and what is not there.
LEMMA EraseAllowed ==
  ASSUME NEW R, NEW t, Sound(t, R), Shallow(t),
         NEW p \in Seq(Name), p # <<>>, Present(t, p)
  PROVE  EraseError(t, p) = "ok"
BY EverythingIsEmpty DEF EraseError, Present

\* The operations keep the walks from the root bounded.
LEMMA AddedShallow ==
  ASSUME NEW t, Shallow(t), NEW p \in Seq(Name), NEW real, NEW type
  PROVE  Shallow(Added(t, p, real, type))
<1>1. PICK n \in Nat : \A k \in DOMAIN t : Len(k) =< n
  BY DEF Shallow
<1>. DEFINE u == Added(t, p, real, type)
            m == IF n >= Len(p) THEN n ELSE Len(p)
<1>2. DOMAIN u = DOMAIN t \cup {Fold(p)} /\ Len(Fold(p)) = Len(p) /\ Len(p) \in Nat
  BY FoldProperties, LenProperties DEF Added
<1>3. m \in Nat /\ n =< m /\ Len(p) =< m
  BY <1>2
<1>. HIDE DEF m, u
<1>4. ASSUME NEW k \in DOMAIN u  PROVE Len(k) =< m
  <2>1. CASE k = Fold(p)
    BY <1>2, <1>3, <2>1
  <2>2. CASE k \in DOMAIN t
    <3>. DEFINE l == Len(k)
    <3>1. l =< n
      BY <1>1, <2>2
    <3>. QED BY <1>3, <3>1
  <2>. QED  BY <1>2, <2>1, <2>2
<1>5. Shallow(u)
  BY <1>3, <1>4 DEF Shallow
<1>. QED  BY <1>5 DEF u

\* A tree whose keys are those of two trees is no deeper than they are.
LEMMA ShallowKeys ==
  ASSUME NEW t, Shallow(t), NEW s, Shallow(s), NEW u, DOMAIN u \subseteq DOMAIN t \cup DOMAIN s
  PROVE  Shallow(u)
<1>1. PICK n \in Nat : \A k \in DOMAIN t : Len(k) =< n
  BY DEF Shallow
<1>2. PICK m \in Nat : \A k \in DOMAIN s : Len(k) =< m
  BY DEF Shallow
<1>3. PICK l \in Nat : n =< l /\ m =< l
  OBVIOUS
<1>4. \A k \in DOMAIN u : Len(k) =< l
  BY <1>1, <1>2, <1>3
<1>. QED  BY <1>3, <1>4 DEF Shallow
=============================================================================
