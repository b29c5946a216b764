------------------------- MODULE VirtualFileTreeProofs -------------------------
(***************************************************************************)
(* Proofs about VirtualFileTree, for every set of names, every case        *)
(* folding, every set of real paths and trees of any size.                 *)
(***************************************************************************)
EXTENDS VirtualFileTree, FileTreeProofs

-----------------------------------------------------------------------------
(***************************************************************************)
(* The invariant.                                                          *)
(***************************************************************************)
\* A tree that is being built has nothing deleted in it: this is what makes
\* every item of it found after the merge.
NoneDeleted(t) == \A k \in DOMAIN t : ~t[k].deleted

IInv ==
  /\ Sound(tree, Real)
  /\ Sound(source, Real)
  /\ NoneDeleted(source)
  /\ last \in [call : Calls, key : Seq(Key), err : Errors]

\* In a root alone only the root is found.
LEMMA RootFound ==
  ASSUME NEW real \in Real
  PROVE  LinksOf(Root(real)) = [k \in {<<>>} |-> real]
<1>1. DOMAIN Root(real) = {<<>>} /\ Root(real)[<<>>].real = real
  BY RootSound
<1>2. Found(Root(real)) = {<<>>}
  BY <1>1 DEF Found
<1>. QED  BY <1>1, <1>2 DEF LinksOf

\* The invariant holds of the two roots a behavior starts with.
LEMMA InitIInv == Init => IInv
<1>1. ASSUME NEW real \in Real
      PROVE  NoneDeleted(Root(real))
  <2>1. Root(real)[<<>>] = NewItem(RootName, real, "dir") /\ DOMAIN Root(real) = {<<>>}
    BY DEF Root
  <2>. QED  BY <2>1, NewItemType DEF NoneDeleted, Type
<1>. QED  BY <1>1, RootSound, EmptySeq DEF Init, IInv, Calls, Errors

\* Every call preserves the invariant.
LEMMA StepIInv == IInv /\ [Next]_vars => IInv'
<1>. SUFFICES ASSUME IInv, [Next]_vars  PROVE IInv'
  OBVIOUS
<1>. USE PathsAssumption
<1>0. \A p \in Paths : p \in Seq(Name) /\ Fold(p) \in Seq(Key)
  BY FoldProperties
<1>1. ASSUME NEW p \in Paths, NEW real \in Real, NEW type \in Kinds,
             NEW update \in BOOLEAN, Add(p, real, type, update)
      PROVE  IInv'
  <2>1. Sound(tree, Real)'
    BY <1>0, <1>1, AddedSound DEF Add, IInv
  <2>2. last' \in [call : Calls, key : Seq(Key), err : Errors]
    BY <1>0, <1>1 DEF Add, Reply, AddError, Calls, Errors
  <2>. QED  BY <1>1, <2>1, <2>2 DEF Add, IInv
<1>2. ASSUME NEW p \in Paths, NEW real \in Real, NEW type \in Kinds,
             AddToSource(p, real, type)
      PROVE  IInv'
  <2>1. Sound(source, Real)'
    BY <1>0, <1>2, AddedSound DEF AddToSource, IInv
  <2>2. NoneDeleted(source)'
    <3>. DEFINE k == Fold(p)
    <3>1. source' = Added(source, p, real, type) /\ NoneDeleted(source) /\ Sound(source, Real)
      BY <1>2 DEF AddToSource, IInv
    <3>2. DOMAIN source' = DOMAIN source \cup {k}
      BY <3>1 DEF Added
    <3>3. \A q \in DOMAIN source : q # k => source'[q] = source[q]
      BY <3>1 DEF Added
    <3>4. ~source'[k].deleted
      <4>1. CASE k \in DOMAIN source
        BY <3>1, <4>1, RevivedType DEF Added, Sound, IsTree
      <4>2. CASE k \notin DOMAIN source
        <5>1. AddError(source, p, FALSE) = "ok"
          BY <1>2 DEF AddToSource
        <5>2. Base(p) \in Name
          BY <1>0, <5>1, FoldBase DEF AddError
        <5>3. source'[k] = NewItem(Base(p), real, type)
          BY <3>1, <4>2 DEF Added
        <5>. QED  BY <5>2, <5>3 DEF NewItem
      <4>. QED  BY <4>1, <4>2
    <3>. QED  BY <3>1, <3>2, <3>3, <3>4 DEF NoneDeleted
  <2>3. last' \in [call : Calls, key : Seq(Key), err : Errors]
    BY <1>0, <1>2 DEF AddToSource, Reply, Calls, Errors
  <2>. QED  BY <1>2, <2>1, <2>2, <2>3 DEF AddToSource, IInv
<1>3. ASSUME NEW p \in Paths, NEW b \in BOOLEAN, Erase(p, b)
      PROVE  IInv'
  <2>1. Sound(tree, Real)'
    BY <1>0, <1>3, ErasedSound DEF Erase, IInv
  <2>2. last' \in [call : Calls, key : Seq(Key), err : Errors]
    BY <1>0, <1>3 DEF Erase, Reply, EraseError, Calls, Errors
  <2>. QED  BY <1>3, <2>1, <2>2 DEF Erase, IInv
<1>4. ASSUME NEW p \in Paths, NEW b \in BOOLEAN, SetDeleted(p, b)
      PROVE  IInv'
  <2>1. Sound(tree, Real)'
    BY <1>4, WithDeletedSound DEF SetDeleted, Present, IInv
  <2>2. last' \in [call : Calls, key : Seq(Key), err : Errors]
    BY <1>0, <1>4 DEF SetDeleted, Reply, Calls, Errors
  <2>. QED  BY <1>4, <2>1, <2>2 DEF SetDeleted, IInv
<1>5. ASSUME NEW p \in Paths, SetName(p)
      PROVE  IInv'
  <2>1. Sound(tree, Real)'
    BY <1>0, <1>5, WithNameSound DEF SetName, IInv
  <2>2. last' \in [call : Calls, key : Seq(Key), err : Errors]
    BY <1>0, <1>5 DEF SetName, Reply, Calls, Errors
  <2>. QED  BY <1>5, <2>1, <2>2 DEF SetName, IInv
<1>6. ASSUME NEW real \in Real, Merge(real)
      PROVE  IInv'
  <2>1. Sound(tree, Real)' /\ Sound(source, Real)'
    BY <1>6, MergedSound, RootSound DEF Merge, IInv
  <2>2. NoneDeleted(source)'
    <3>1. source'[<<>>] = NewItem(RootName, real, "dir") /\ DOMAIN source' = {<<>>}
      BY <1>6 DEF Merge, Root
    <3>. QED  BY <3>1 DEF NewItem, NoneDeleted
  <2>3. Fold(<<>>) \in Seq(Key)
    BY FoldProperties, EmptySeq
  <2>4. last' \in [call : Calls, key : Seq(Key), err : Errors]
    BY <1>6, <2>3 DEF Merge, Reply, Calls, Errors
  <2>. QED  BY <2>1, <2>2, <2>4 DEF IInv
<1>7. CASE UNCHANGED vars
  BY <1>7 DEF vars, IInv
<1>. QED  BY <1>1, <1>2, <1>3, <1>4, <1>5, <1>6, <1>7 DEF Next

\* Whatever is called, both trees are trees of items of the declared types.
THEOREM TypeCorrect == Spec => []TypeOK
<1>1. IInv => TypeOK
  BY DEF IInv, Sound, TypeOK
<1>. QED  BY <1>1, InitIInv, StepIInv, PTL DEF Spec

\* No call of add(), erase() or += leaves an item without its directory.
THEOREM NoOrphansEver == Spec => []NoOrphans
<1>1. IInv => NoOrphans
  BY DEF IInv, Sound, NoOrphans
<1>. QED  BY <1>1, InitIInv, StepIInv, PTL DEF Spec

\* No call leaves an item with a name that folds to another key than its own.
THEOREM NamesFollowKeysAlways == Spec => []NamesFollowKeys
<1>1. IInv => NamesFollowKeys
  BY DEF IInv, Sound, NamesFollowKeys
<1>. QED  BY <1>1, InitIInv, StepIInv, PTL DEF Spec

\* A merge loses no item of the tree and leaves each one's deleted mark alone.
THEOREM MergeNeverRevives == Spec => MergeKeepsDeleted
<1>1. ASSUME IInv, [Next]_vars
      PROVE  [last'.call = "merge" =>
                \A k \in DOMAIN tree :
                  k \in DOMAIN tree' /\ tree'[k].deleted = tree[k].deleted]_vars
  <2>1. SUFFICES ASSUME Next, last'.call = "merge", NEW k \in DOMAIN tree
                 PROVE  k \in DOMAIN tree' /\ tree'[k].deleted = tree[k].deleted
    BY <1>1
  <2>2. PICK real \in Real : Merge(real)
    <3>1. \A call, p, err : Reply(call, p, err) => last'.call = call
      BY DEF Reply
    <3>2. \A p, real, type, update : ~Add(p, real, type, update)
      BY <2>1, <3>1 DEF Add
    <3>3. \A p, real, type : ~AddToSource(p, real, type)
      BY <2>1, <3>1 DEF AddToSource
    <3>4. \A p, b : ~Erase(p, b) /\ ~SetDeleted(p, b) /\ ~SetName(p)
      BY <2>1, <3>1 DEF Erase, SetDeleted, SetName
    <3>. QED  BY <2>1, <3>2, <3>3, <3>4 DEF Next
  <2>3. tree' = Merged(tree, source)
    BY <2>2 DEF Merge
  <2>4. tree[k] \in Item(Real) /\ (k \in DOMAIN source => source[k] \in Item(Real))
    BY <1>1 DEF IInv, Sound, IsTree
  <2>5. CASE k \in DOMAIN source
    BY <2>3, <2>4, <2>5, RelinkedType DEF Merged
  <2>6. CASE k \notin DOMAIN source
    BY <2>3, <2>6 DEF Merged
  <2>. QED  BY <2>5, <2>6
<1>. QED  BY <1>1, InitIInv, StepIInv, PTL DEF Spec, MergeKeepsDeleted

-----------------------------------------------------------------------------
(***************************************************************************)
(* The refinement: what each operation does to the keys that can be found. *)
(***************************************************************************)
\* What add() does to the keys that can be found: one of them is bound.
LEMMA AddedLinks ==
  ASSUME NEW t, Sound(t, Real),
         NEW p \in Seq(Name), NEW real \in Real, NEW type \in Type,
         NEW update \in BOOLEAN, AddError(t, p, update) = "ok"
  PROVE  /\ Fold(p) # <<>>
         /\ LinksOf(Added(t, p, real, type)) = Abstract!Bind(LinksOf(t), Fold(p), real)
<1>. DEFINE k == Fold(p)
            u == Added(t, p, real, type)
<1>1. p # <<>> /\ k # <<>> /\ Base(p) \in Name
  BY FoldProperties, FoldBase DEF AddError
<1>2. DOMAIN u = DOMAIN t \cup {k} /\ \A q \in DOMAIN t : q # k => u[q] = t[q]
  BY DEF Added
<1>3. ~u[k].deleted /\ u[k].real = real
  <2>1. CASE k \in DOMAIN t
    <3>1. u[k] = Revived(t[k], real) /\ t[k] \in Item(Real)
      BY <2>1 DEF Added, Sound, IsTree
    <3>. QED  BY <3>1, RevivedType
  <2>2. CASE k \notin DOMAIN t
    <3>1. u[k] = NewItem(Base(p), real, type)
      BY <2>2 DEF Added
    <3>. QED  BY <1>1, <3>1 DEF NewItem
  <2>. QED  BY <2>1, <2>2
<1>. HIDE DEF u, k
<1>4. Found(u) = Found(t) \cup {k}
  BY <1>1, <1>2, <1>3 DEF Found
<1>5. \A q \in Found(u) : u[q].real = IF q = k THEN real ELSE t[q].real
  BY <1>2, <1>3 DEF Found
<1>6. LinksOf(u) = [q \in Found(t) \cup {k} |-> IF q = k THEN real ELSE t[q].real]
  BY <1>4, <1>5 DEF LinksOf
<1>7. Abstract!Bind(LinksOf(t), k, real)
        = [q \in Found(t) \cup {k} |-> IF q = k THEN real ELSE t[q].real]
  BY DEF LinksOf, Abstract!Bind
<1>. QED  BY <1>1, <1>6, <1>7 DEF u, k

\* What erase() does to the keys that can be found: those below go too.
LEMMA ErasedLinks ==
  ASSUME NEW t, Sound(t, Real),
         NEW p \in Seq(Name), NEW reallyErase \in BOOLEAN, EraseError(t, p) = "ok"
  PROVE  /\ Fold(p) # <<>>
         /\ LinksOf(Erased(t, p, reallyErase)) =
              Abstract!Without(LinksOf(t),
                {q \in DOMAIN LinksOf(t) : Abstract!Below(Fold(p), q)})
<1>. DEFINE k == Fold(p)
            u == Erased(t, p, reallyErase)
            S == {q \in Found(t) : ~Under(k, q)}
<1>1. k # <<>> /\ k \in Seq(Key)
  BY FoldProperties DEF EraseError
<1>2. ~Under(k, <<>>)
  BY <1>1, EmptySeq, LenProperties DEF Under
<1>3. Found(u) = S
  <2>1. CASE reallyErase
    <3>1. DOMAIN u = {q \in DOMAIN t : ~Under(k, q)} /\ \A q \in DOMAIN u : u[q] = t[q]
      BY <2>1 DEF Erased
    <3>. HIDE DEF u
    <3>. QED  BY <3>1 DEF Found
  <2>2. CASE ~reallyErase
    <3>1. DOMAIN u = DOMAIN t
          /\ \A q \in DOMAIN t : u[q] = IF Under(k, q) THEN Marked(t[q], TRUE) ELSE t[q]
      BY <2>2 DEF Erased
    <3>2. \A q \in DOMAIN t : Under(k, q) => u[q].deleted
      BY <3>1, MarkedType DEF Sound, IsTree
    <3>. HIDE DEF u
    <3>. QED  BY <1>2, <3>1, <3>2 DEF Found
  <2>. QED  BY <2>1, <2>2
<1>4. \A q \in S : u[q] = t[q]
  BY DEF Erased, Found
<1>5. LinksOf(u) = [q \in S |-> t[q].real]
  <2>. HIDE DEF u, S
  <2>. QED  BY <1>3, <1>4 DEF LinksOf
<1>6. \A q : Abstract!Below(k, q) <=> Under(k, q)
  BY DEF Abstract!Below, Under
<1>7. DOMAIN LinksOf(t) = Found(t) /\ \A q \in Found(t) : LinksOf(t)[q] = t[q].real
  BY DEF LinksOf
<1>8. Abstract!Without(LinksOf(t), {q \in DOMAIN LinksOf(t) : Abstract!Below(k, q)})
        = [q \in S |-> t[q].real]
  <2>1. DOMAIN LinksOf(t) \ {q \in DOMAIN LinksOf(t) : Abstract!Below(k, q)} = S
    BY <1>6, <1>7
  <2>2. \A q \in S : LinksOf(t)[q] = t[q].real
    BY <1>7
  <2>. HIDE DEF S
  <2>. QED  BY <2>1, <2>2 DEF Abstract!Without
<1>. QED  BY <1>1, <1>5, <1>8 DEF u, k

\* What += does to the keys that can be found: the source's win, except
\* where the tree has a deleted item.
LEMMA MergedLinks ==
  ASSUME NEW t, Sound(t, Real), NEW s, Sound(s, Real), NoneDeleted(s)
  PROVE  \E D \in SUBSET DOMAIN LinksOf(s) :
           LinksOf(Merged(t, s)) =
             [q \in DOMAIN LinksOf(t) \cup D |->
                IF q \in DOMAIN LinksOf(s) THEN LinksOf(s)[q] ELSE LinksOf(t)[q]]
<1>. DEFINE u == Merged(t, s)
            D == Found(s) \cap Found(u)
<1>1. DOMAIN u = DOMAIN t \cup DOMAIN s
  BY DEF Merged
<1>2. \A q \in DOMAIN t \ DOMAIN s : u[q] = t[q]
  BY DEF Merged
<1>3. \A q \in DOMAIN t \cap DOMAIN s : u[q] = Relinked(t[q], s[q])
  BY DEF Merged
<1>4. \A q \in DOMAIN s \ DOMAIN t :
        u[q] = Marked(s[q], Parent(q) \notin DOMAIN t /\ s[q].deleted)
  BY DEF Merged, Cloned
<1>. HIDE DEF u
<1>5. Found(s) = DOMAIN s
  BY DEF Found, NoneDeleted
<1>6. ASSUME NEW q \in DOMAIN s  PROVE u[q].real = s[q].real
  <2>1. s[q] \in Item(Real) /\ (q \in DOMAIN t => t[q] \in Item(Real))
    BY DEF Sound, IsTree
  <2>2. (Parent(q) \notin DOMAIN t /\ s[q].deleted) \in BOOLEAN
    BY <2>1 DEF Item
  <2>3. CASE q \in DOMAIN t
    BY <1>3, <2>1, <2>3, RelinkedType
  <2>4. CASE q \notin DOMAIN t
    BY <1>4, <2>1, <2>2, <2>4, MarkedType
  <2>. QED  BY <2>3, <2>4
<1>7. Found(u) = Found(t) \cup D
  <2>1. ASSUME NEW q \in DOMAIN t \cap DOMAIN s  PROVE u[q].deleted = t[q].deleted
    BY <1>3, <2>1, RelinkedType DEF Sound, IsTree
  <2>. QED  BY <1>1, <1>2, <1>5, <2>1 DEF Found
<1>8. DOMAIN LinksOf(t) = Found(t) /\ DOMAIN LinksOf(s) = Found(s)
  BY DEF LinksOf
<1>9. \A q \in Found(u) :
        u[q].real = IF q \in DOMAIN LinksOf(s) THEN LinksOf(s)[q] ELSE LinksOf(t)[q]
  BY <1>2, <1>5, <1>6, <1>7, <1>8 DEF LinksOf, Found
<1>10. LinksOf(u) =
         [q \in DOMAIN LinksOf(t) \cup D |->
            IF q \in DOMAIN LinksOf(s) THEN LinksOf(s)[q] ELSE LinksOf(t)[q]]
  <2>. HIDE DEF D
  <2>1. Found(u) = DOMAIN LinksOf(t) \cup D
    BY <1>7, <1>8
  <2>2. LinksOf(u) = [q \in Found(u) |-> u[q].real]
    BY DEF LinksOf
  <2>. QED  BY <1>9, <2>1, <2>2
<1>11. D \in SUBSET DOMAIN LinksOf(s)
  BY <1>8
<1>. HIDE DEF D
<1>. QED  BY <1>10, <1>11 DEF u

\* Two roots are an initial state of the map.
LEMMA InitRefines == Init => Abstract!Init
<1>. SUFFICES ASSUME Init  PROVE Abstract!Init
  OBVIOUS
<1>1. PICK r \in Real, s \in Real : tree = Root(r) /\ source = Root(s)
  BY DEF Init
<1>2. LinksOf(tree) \in [{<<>>} -> Real] /\ LinksOf(source) \in [{<<>>} -> Real]
  BY <1>1, RootFound
<1>. QED  BY <1>2 DEF Init, Abstract!Init

\* Every call is the map's call of the same name, or leaves it as it was.
LEMMA StepRefines == IInv /\ [Next]_vars => [Abstract!Next]_(Abstract!vars)
<1>. SUFFICES ASSUME IInv, [Next]_vars  PROVE [Abstract!Next]_(Abstract!vars)
  OBVIOUS
<1>. DEFINE Keys == {Fold(p) : p \in Paths}
<1>. USE PathsAssumption
<1>0. \A p \in Paths : p \in Seq(Name) /\ Fold(p) \in Keys
  OBVIOUS
<1>1. ASSUME NEW p \in Paths, NEW real \in Real, NEW type \in Kinds,
             NEW update \in BOOLEAN, Add(p, real, type, update)
      PROVE  Abstract!Next
  <2>. DEFINE err == AddError(tree, p, update)
  <2>1. CASE err = "ok"
    <3>1. /\ Fold(p) # <<>>
          /\ LinksOf(tree') = Abstract!Bind(LinksOf(tree), Fold(p), real)
      BY <1>0, <1>1, <2>1, AddedLinks DEF Add, IInv
    <3>2. Abstract!Add(Fold(p), real)
      BY <1>1, <2>1, <3>1 DEF Add, Reply, Abstract!Add, Abstract!Reply
    <3>. QED  BY <1>0, <3>2 DEF Abstract!Next
  <2>2. CASE err # "ok"
    <3>1. tree' = tree /\ source' = source
      BY <1>1, <2>2 DEF Add
    <3>2. err \in {"EINVAL", "ENOENT", "EEXIST"}
      BY <2>2 DEF AddError
    <3>3. err = "EEXIST" => Fold(p) \in DOMAIN LinksOf(tree)
      BY DEF AddError, Visible, Present, LinksOf, Found
    <3>4. Abstract!AddRefused(Fold(p), err)
      BY <1>1, <3>1, <3>3 DEF Add, Reply, Abstract!AddRefused, Abstract!Reply
    <3>. HIDE DEF err
    <3>. QED  BY <1>0, <3>2, <3>4 DEF Abstract!Next
  <2>. QED  BY <2>1, <2>2
<1>2. ASSUME NEW p \in Paths, NEW real \in Real, NEW type \in Kinds,
             AddToSource(p, real, type)
      PROVE  Abstract!Next
  <2>1. /\ Fold(p) # <<>>
        /\ LinksOf(source') = Abstract!Bind(LinksOf(source), Fold(p), real)
    BY <1>0, <1>2, AddedLinks DEF AddToSource, IInv
  <2>2. Abstract!Fill(Fold(p), real)
    BY <1>2, <2>1 DEF AddToSource, Reply, Abstract!Fill, Abstract!Reply
  <2>. QED  BY <1>0, <2>2 DEF Abstract!Next
<1>3. ASSUME NEW p \in Paths, NEW b \in BOOLEAN, Erase(p, b)
      PROVE  Abstract!Next
  <2>. DEFINE err == EraseError(tree, p)
  <2>1. CASE err = "ok"
    <3>1. /\ Fold(p) # <<>>
          /\ LinksOf(tree') =
               Abstract!Without(LinksOf(tree),
                 {q \in DOMAIN LinksOf(tree) : Abstract!Below(Fold(p), q)})
      BY <1>0, <1>3, <2>1, ErasedLinks DEF Erase, IInv
    <3>2. Abstract!Erase(Fold(p))
      BY <1>3, <2>1, <3>1 DEF Erase, Reply, Abstract!Erase, Abstract!Reply
    <3>. QED  BY <1>0, <3>2 DEF Abstract!Next
  <2>2. CASE err # "ok"
    <3>1. tree' = tree /\ source' = source
      BY <1>3, <2>2 DEF Erase
    <3>2. err \in {"ENOENT", "ENOTEMPTY"}
      BY <2>2 DEF EraseError
    <3>3. err = "ENOENT" => Fold(p) = <<>> \/ Fold(p) \notin DOMAIN LinksOf(tree)
      BY <1>0, FoldProperties DEF EraseError, Present, LinksOf, Found
    <3>4. Abstract!EraseRefused(Fold(p), err)
      BY <1>3, <3>1, <3>3 DEF Erase, Reply, Abstract!EraseRefused, Abstract!Reply
    <3>. HIDE DEF err
    <3>. QED  BY <1>0, <3>2, <3>4 DEF Abstract!Next
  <2>. QED  BY <2>1, <2>2
<1>4. ASSUME NEW p \in Paths, NEW b \in BOOLEAN, SetDeleted(p, b)
      PROVE  Abstract!Next
  <2>. DEFINE k == Fold(p)
  <2>1. /\ k # <<>> /\ k \in DOMAIN tree
        /\ tree[k] \in Item(Real)
        /\ tree' = WithDeleted(tree, k, b) /\ source' = source
    BY <1>0, <1>4, FoldProperties DEF SetDeleted, Present, IInv, Sound, IsTree
  <2>2. DOMAIN tree' = DOMAIN tree /\ \A q \in DOMAIN tree : q # k => tree'[q] = tree[q]
    BY <2>1 DEF WithDeleted
  <2>3. tree'[k].deleted = b /\ tree'[k].real = tree[k].real
    BY <2>1, MarkedType DEF WithDeleted
  <2>. HIDE DEF k
  <2>4. CASE b
    <3>1. Found(tree') = Found(tree) \ {k}
      BY <2>1, <2>2, <2>3, <2>4 DEF Found
    <3>2. LinksOf(tree') = [q \in Found(tree) \ {k} |-> tree[q].real]
      BY <2>2, <3>1 DEF LinksOf, Found
    <3>3. LinksOf(tree') = Abstract!Without(LinksOf(tree), {k})
      BY <3>2 DEF LinksOf, Abstract!Without
    <3>4. Abstract!Hide(Fold(p))
      BY <1>4, <2>1, <2>4, <3>3 DEF SetDeleted, Reply, Abstract!Hide, Abstract!Reply, k
    <3>. QED  BY <1>0, <3>4 DEF Abstract!Next
  <2>5. CASE ~b
    <3>1. Found(tree') = Found(tree) \cup {k}
      BY <2>1, <2>2, <2>3, <2>5 DEF Found
    <3>2. \A q \in Found(tree') : tree'[q].real = IF q = k THEN tree[k].real ELSE tree[q].real
      BY <2>2, <2>3 DEF Found
    <3>3. LinksOf(tree') =
            [q \in Found(tree) \cup {k} |-> IF q = k THEN tree[k].real ELSE tree[q].real]
      BY <3>1, <3>2 DEF LinksOf
    <3>4. Abstract!Bind(LinksOf(tree), k, tree[k].real) =
            [q \in Found(tree) \cup {k} |-> IF q = k THEN tree[k].real ELSE tree[q].real]
      BY DEF LinksOf, Abstract!Bind
    <3>5. Abstract!Show(Fold(p), tree[k].real)
      BY <1>4, <2>1, <2>5, <3>3, <3>4
      DEF SetDeleted, Reply, Abstract!Show, Abstract!Reply, k
    <3>6. tree[k].real \in Real
      BY <2>1 DEF Item
    <3>. QED  BY <1>0, <3>5, <3>6 DEF Abstract!Next
  <2>. QED  BY <2>4, <2>5
<1>5. ASSUME NEW p \in Paths, SetName(p)
      PROVE  Abstract!Next
  <2>. DEFINE k == Fold(p)
  <2>1. /\ k # <<>> /\ k \in DOMAIN tree
        /\ tree[k] \in Item(Real) /\ Base(p) \in Name
        /\ tree' = WithName(tree, k, Base(p)) /\ source' = source
    BY <1>0, <1>5, FoldProperties, FoldBase DEF SetName, Present, IInv, Sound, IsTree
  <2>2. DOMAIN tree' = DOMAIN tree /\ \A q \in DOMAIN tree : q # k => tree'[q] = tree[q]
    BY <2>1 DEF WithName
  <2>3. tree'[k].deleted = tree[k].deleted /\ tree'[k].real = tree[k].real
    BY <2>1, NamedType DEF WithName
  <2>. HIDE DEF k
  <2>4. LinksOf(tree') = LinksOf(tree)
    <3>1. Found(tree') = Found(tree)
      BY <2>1, <2>2, <2>3 DEF Found
    <3>2. \A q \in Found(tree) : tree'[q].real = tree[q].real
      BY <2>2, <2>3 DEF Found
    <3>. QED  BY <3>1, <3>2 DEF LinksOf
  <2>5. Abstract!Spell(Fold(p))
    BY <1>5, <2>1, <2>4 DEF SetName, Reply, Abstract!Spell, Abstract!Reply, k
  <2>. QED  BY <1>0, <2>5 DEF Abstract!Next
<1>6. ASSUME NEW real \in Real, Merge(real)
      PROVE  Abstract!Next
  <2>1. PICK D \in SUBSET DOMAIN LinksOf(source) :
           LinksOf(tree') =
             [q \in DOMAIN LinksOf(tree) \cup D |->
                IF q \in DOMAIN LinksOf(source) THEN LinksOf(source)[q]
                ELSE LinksOf(tree)[q]]
    BY <1>6, MergedLinks DEF Merge, IInv
  <2>2. LinksOf(source') = [q \in {<<>>} |-> real]
    BY <1>6, RootFound DEF Merge
  <2>3. Fold(<<>>) = <<>>
    BY FoldProperties, EmptySeq
  <2>4. Abstract!Overlay(real)
    BY <1>6, <2>1, <2>2, <2>3 DEF Merge, Reply, Abstract!Overlay, Abstract!Reply
  <2>. QED  BY <2>4 DEF Abstract!Next
<1>7. CASE UNCHANGED vars
  BY <1>7 DEF vars, Abstract!vars
<1>. QED  BY <1>1, <1>2, <1>3, <1>4, <1>5, <1>6, <1>7 DEF Next

\* The tree with its spellings, types, parents and deleted marks implements the
\* case-insensitive map: each call changes which keys can be found, and where
\* they lead, exactly as the call of the map does.
THEOREM TreeImplementsLinkMap == Spec => ImplementsLinkMap
<1>. QED
  BY InitIInv, StepIInv, InitRefines, StepRefines, PTL
  DEF Spec, ImplementsLinkMap, Abstract!Spec
=============================================================================
