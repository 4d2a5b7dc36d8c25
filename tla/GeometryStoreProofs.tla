-------------------------- MODULE GeometryStoreProofs --------------------------
(***************************************************************************)
(* Proofs about GeometryStore, for any entries, alerts, shapes, sizes and  *)
(* budget.                                                                 *)
(***************************************************************************)
EXTENDS GeometryStore, ByteLRUProofs

-----------------------------------------------------------------------------
(* The bytes of some refs                                                  *)

LEMMA BytesOfSame ==
  ASSUME NEW S, IsFiniteSet(S), NEW f, NEW g,
         \A x \in S : f[x] \in Shape /\ g[x] = f[x]
  PROVE  BytesOf(S, f) = BytesOf(S, g)
<1>1. [x \in S |-> Size[f[x]]] = [x \in S |-> Size[g[x]]]
  OBVIOUS
<1> QED BY <1>1 DEF BytesOf

\* The sizes of more refs than those that are summed up.
LEMMA BytesOfAmong ==
  ASSUME NEW T, IsFiniteSet(T), NEW S, S \subseteq T, NEW f, \A x \in T : f[x] \in Shape
  PROVE  BytesOf(S, f) = Bytes(S, [x \in T |-> Size[f[x]]])
<1>1. IsFiniteSet(S)
  BY FS_Subset
<1>2. \A x \in S : Size[f[x]] \in Nat
  BY ShapeAssumption
<1> DEFINE few == [x \in S |-> Size[f[x]]]
           more == [x \in T |-> Size[f[x]]]
<1>3. \A x \in S : few[x] \in Nat /\ more[x] = few[x]
  BY <1>2
<1>4. BytesOf(S, f) = Bytes(S, few)
  BY DEF BytesOf
<1> HIDE DEF few, more
<1>5. Bytes(S, few) = Bytes(S, more)
  BY <1>1, <1>3, SumOfSame
<1> QED BY <1>4, <1>5 DEF more

LEMMA BytesOfType ==
  ASSUME NEW S, IsFiniteSet(S), NEW f, \A x \in S : f[x] \in Shape
  PROVE  BytesOf(S, f) \in Nat
<1> DEFINE size == [x \in S |-> Size[f[x]]]
<1>1. \A x \in S : size[x] \in Nat
  BY ShapeAssumption
<1> HIDE DEF size
<1>2. Bytes(S, size) \in Nat
  BY <1>1, SumType
<1> QED BY <1>2 DEF BytesOf, size

LEMMA BytesOfNone == ASSUME NEW f PROVE BytesOf({}, f) = 0
BY SumOfNone DEF BytesOf

LEMMA BytesOfOneMore ==
  ASSUME NEW S, IsFiniteSet(S), NEW x, x \notin S,
         NEW f, \A y \in S \cup {x} : f[y] \in Shape
  PROVE  BytesOf(S \cup {x}, f) = BytesOf(S, f) + Size[f[x]]
<1> DEFINE T == S \cup {x}
           size == [y \in T |-> Size[f[y]]]
<1>1. IsFiniteSet(T) /\ S \subseteq T /\ \A y \in T : f[y] \in Shape
  BY FS_AddElement
<1>2. (\A y \in T : size[y] \in Nat) /\ size[x] = Size[f[x]]
  BY ShapeAssumption
<1>3. BytesOf(S, f) = Bytes(S, size) /\ BytesOf(T, f) = Bytes(T, size)
  <2> HIDE DEF T
  <2> QED BY <1>1, BytesOfAmong
<1> HIDE DEF size
<1>4. Bytes(S \cup {x}, size) = Bytes(S, size) + size[x]
  BY <1>2, SumOfOneMore
<1> QED BY <1>2, <1>3, <1>4

LEMMA BytesOfSubset ==
  ASSUME NEW T, IsFiniteSet(T), NEW S, S \subseteq T,
         NEW f, \A x \in T : f[x] \in Shape
  PROVE  /\ BytesOf(S, f) =< BytesOf(T, f)
         /\ BytesOf(T \ S, f) = BytesOf(T, f) - BytesOf(S, f)
<1> DEFINE size == [x \in T |-> Size[f[x]]]
<1>1. \A x \in T : size[x] \in Nat
  BY ShapeAssumption
<1>2. /\ BytesOf(S, f) = Bytes(S, size) /\ BytesOf(T, f) = Bytes(T, size)
      /\ BytesOf(T \ S, f) = Bytes(T \ S, size)
  <2>1. T \ S \subseteq T
    OBVIOUS
  <2> QED BY <2>1, BytesOfAmong
<1> HIDE DEF size
<1>3. /\ Bytes(S, size) =< Bytes(T, size)
      /\ Bytes(T \ S, size) = Bytes(T, size) - Bytes(S, size)
  BY <1>1, SumOfSubset
<1> QED BY <1>2, <1>3

-----------------------------------------------------------------------------
(* The invariant                                                           *)

\* Every ref is stored under the shape that its hash segment names.
NamedByShape ==
  /\ DOMAIN content \subseteq Ref /\ IsFiniteSet(DOMAIN content)
  /\ content \in [DOMAIN content -> Shape]
  /\ \A ref \in DOMAIN content : content[ref] = ref.digest

UseOrdered == Orders(older, DOMAIN content)

StoreInv == NamedByShape /\ UseOrdered /\ bytes \in [Entry -> Int] /\ BudgetKept

\* What the running reconciliation has put in.
Active == {listed[a].ref : a \in AlertId} \ {NoRef}

BatchTyped ==
  /\ applying \in Entry \cup {NoEntry}
  /\ listed \in [AlertId -> Rendering]
  /\ \A a \in AlertId : listed[a] # Pending => ~listed[a].retained
  /\ \A a \in AlertId : listed[a].ref # NoRef =>
       listed[a].ref.alert = a /\ listed[a].ref.entry = applying
  /\ IsFiniteSet(Active)

\* The refs of the batch are the last of their entry to go, and none of them
\* has gone while they keep the budget together.
BatchLast ==
  applying # NoEntry =>
    /\ \A q \in Active \cap DOMAIN content, r \in Owned(applying) \ Active : <<r, q>> \in older
    /\ BytesOf(Active, Drawn) <= MaxBytes => Active \subseteq DOMAIN content

\* StoreMatchesEntities for one entry.
Matches(e) ==
  /\ Owned(e) \subseteq ObservedRefs(e)
  /\ BytesOf(ObservedRefs(e), Drawn) <= MaxBytes => Owned(e) = ObservedRefs(e)

OthersMatch == \A e \in loaded : e # applying => Matches(e)

CardInv ==
  /\ card \in [ref : Ref \cup {NoRef}, shape : Shape \cup {NoShape}]
  /\ card.shape # NoShape => card.shape = card.ref.digest

ShownTyped ==
  /\ published \in [Entry -> [AlertId -> Rendering]]
  /\ loaded \subseteq Entry

GeometryInv ==
  StoreInv /\ BatchTyped /\ BatchLast /\ OthersMatch /\ CardInv /\ ShownTyped

LEMMA RefFields ==
  ASSUME NEW ref \in Ref
  PROVE  /\ ref.entry \in Entry /\ ref.alert \in AlertId /\ ref.digest \in Shape
         /\ ref # NoRef /\ Drawn[ref] = ref.digest
<1>1. PICK e \in Entry, a \in AlertId, shape \in Shape :
        ref = [entry |-> e, alert |-> a, digest |-> shape]
  BY DEF Ref, RefOf, Digest
<1>2. ref.entry # NoRef.entry
  BY <1>1, EntryAssumption DEF NoRef
<1>3. (CHOOSE s \in Shape : s = ref.digest) = ref.digest
  BY <1>1
<1> QED BY <1>1, <1>2, <1>3 DEF Drawn, Digest

\* What is stored is summed up by what the refs were drawn for.
LEMMA StoredSum ==
  ASSUME NamedByShape, NEW refs, refs \subseteq DOMAIN content
  PROVE  /\ IsFiniteSet(refs)
         /\ \A ref \in refs : content[ref] \in Shape /\ Drawn[ref] \in Shape
         /\ BytesOf(refs, content) = BytesOf(refs, Drawn)
         /\ BytesOf(refs, Drawn) \in Nat
<1>1. IsFiniteSet(refs)
  BY FS_Subset DEF NamedByShape
<1>2. \A ref \in refs : content[ref] \in Shape /\ Drawn[ref] = content[ref]
  BY RefFields DEF NamedByShape
<1> QED BY <1>1, <1>2, BytesOfSame, BytesOfType

LEMMA SizeOfOne == \A shape \in Shape : Size[shape] \in Nat
BY ShapeAssumption

\* The bytes of the owner once the ref is in, before it is trimmed.
LEMMA FilledSum ==
  ASSUME StoreInv, NEW ref \in Ref
  PROVE  /\ IsFiniteSet(Owned(ref.entry) \cup {ref})
         /\ \A r \in Owned(ref.entry) \cup {ref} : Drawn[r] \in Shape
         /\ FilledSize(ref, ref.digest) = BytesOf(Owned(ref.entry) \cup {ref}, Drawn)
<1> DEFINE O == Owned(ref.entry)
<1>1. O \subseteq DOMAIN content
  BY DEF Owned
<1>2. /\ IsFiniteSet(O) /\ BytesOf(O, content) = BytesOf(O, Drawn)
      /\ BytesOf(O, Drawn) \in Nat /\ \A r \in O : Drawn[r] \in Shape
  BY <1>1, StoredSum DEF StoreInv
<1>3. ref.entry \in Entry /\ Drawn[ref] = ref.digest /\ ref.digest \in Shape
  BY RefFields
<1>4. bytes[ref.entry] = BytesOf(O, Drawn)
  BY <1>2, <1>3 DEF StoreInv, BudgetKept
<1>5. IsFiniteSet(O \cup {ref})
  BY <1>2, FS_AddElement
<1>6. Size[ref.digest] \in Nat
  BY <1>3, SizeOfOne
<1> HIDE DEF O
<1>7. CASE ref \in DOMAIN content
  <2>1. content[ref] = ref.digest /\ O \cup {ref} = O
    BY <1>7 DEF StoreInv, NamedByShape, O, Owned
  <2>2. FilledSize(ref, ref.digest) = BytesOf(O, Drawn)
    BY <1>2, <1>4, <1>6, <1>7, <2>1 DEF FilledSize
  <2> QED BY <1>2, <1>3, <1>5, <2>1, <2>2 DEF O
<1>8. CASE ref \notin DOMAIN content
  <2>1. ref \notin O
    BY <1>1, <1>8
  <2>2. BytesOf(O \cup {ref}, Drawn) = BytesOf(O, Drawn) + Size[ref.digest]
    BY <1>2, <1>3, <2>1, BytesOfOneMore
  <2>3. FilledSize(ref, ref.digest) = BytesOf(O, Drawn) + Size[ref.digest] - 0
    BY <1>4, <1>8 DEF FilledSize
  <2> QED BY <1>2, <1>3, <1>5, <1>6, <2>2, <2>3 DEF O
<1> QED BY <1>7, <1>8

\* What is trimmed is the owner's, and not the ref just written; what is left
\* keeps the budget, or nothing but that ref is left.
LEMMA EvictedFacts ==
  ASSUME StoreInv, NEW ref \in Ref
  PROVE  LET gone == Evicted(ref, ref.digest)
             left == (Owned(ref.entry) \cup {ref}) \ gone
         IN /\ gone \subseteq Owned(ref.entry) \ {ref}
            /\ FilledSize(ref, ref.digest) - BytesOf(gone, content) = BytesOf(left, Drawn)
            /\ BytesOf(left, Drawn) \in Nat
            /\ BytesOf(left, Drawn) <= MaxBytes \/ left = {ref}
<1> DEFINE O == Owned(ref.entry)
           items == Evictable(ref)
           gone == Evicted(ref, ref.digest)
           left == (O \cup {ref}) \ gone
           filled == BytesOf(O \cup {ref}, Drawn)
           size == [r \in items |-> Size[content[r]]]
<1>1. /\ items = O \ {ref} /\ items \subseteq DOMAIN content
      /\ gone = Trimmed(items, FilledSize(ref, ref.digest), MaxBytes, size, older)
  BY DEF Evicted, Evictable, Owned
<1>2. /\ IsFiniteSet(O \cup {ref}) /\ \A r \in O \cup {ref} : Drawn[r] \in Shape
      /\ FilledSize(ref, ref.digest) = filled
  BY FilledSum
<1>3. filled \in Nat
  <2> HIDE DEF O
  <2> QED BY <1>2, BytesOfType
<1>4. IsFiniteSet(items) /\ \A r \in items : content[r] \in Shape
  BY <1>1, StoredSum DEF StoreInv
<1>5. \A r \in items : size[r] \in Nat
  BY <1>4, ShapeAssumption
<1>6. Orders(older, DOMAIN content) /\ filled \in Int /\ MaxBytes \in Int
  BY <1>3, BudgetAssumption DEF StoreInv, UseOrdered
<1> HIDE DEF O, items, gone, left, filled, size
<1>7. /\ gone \subseteq items
      /\ filled - Bytes(gone, size) <= MaxBytes \/ gone = items
  BY <1>1, <1>2, <1>4, <1>5, <1>6, TrimmedFacts
<1>8. Bytes(gone, size) = BytesOf(gone, content)
  BY <1>4, <1>7, BytesOfAmong DEF size
<1>9. BytesOf(gone, content) = BytesOf(gone, Drawn)
  BY <1>1, <1>7, StoredSum DEF StoreInv
<1>10. BytesOf(left, Drawn) = filled - BytesOf(gone, Drawn)
  BY <1>1, <1>2, <1>7, BytesOfSubset DEF left, filled
<1>11. BytesOf(left, Drawn) \in Nat
  <2>1. IsFiniteSet(left) /\ \A r \in left : Drawn[r] \in Shape
    BY <1>2, FS_Subset DEF left
  <2> QED BY <2>1, BytesOfType
<1>12. gone = items => left = {ref}
  BY <1>1 DEF left
<1>13. /\ FilledSize(ref, ref.digest) - BytesOf(gone, content) = BytesOf(left, Drawn)
       /\ BytesOf(left, Drawn) <= MaxBytes \/ left = {ref}
  BY <1>2, <1>7, <1>8, <1>9, <1>10, <1>12
<1> QED BY <1>1, <1>7, <1>11, <1>13 DEF O, gone, left

-----------------------------------------------------------------------------
(* The store                                                               *)

LEMMA StoreEffect ==
  ASSUME StoreInv, NEW ref \in Ref, Store(ref, ref.digest)
  PROVE  LET gone == Evicted(ref, ref.digest)
             kept == DOMAIN content \ (gone \cup {ref})
         IN /\ StoreInv'
            /\ DOMAIN content' = kept \cup {ref}
            /\ Owned(ref.entry)' = (Owned(ref.entry) \ gone) \cup {ref}
            /\ \A e \in Entry \ {ref.entry} : Owned(e)' = Owned(e)
            /\ older' = Promoted(ref, kept, older)
<1> DEFINE gone == Evicted(ref, ref.digest)
           kept == DOMAIN content \ (gone \cup {ref})
           e == ref.entry
           left == (Owned(e) \cup {ref}) \ gone
<1>1. /\ older' = Promoted(ref, kept, older)
      /\ content' = [r \in kept \cup {ref} |-> IF r = ref THEN ref.digest ELSE content[r]]
      /\ bytes' = [bytes EXCEPT ![e] = FilledSize(ref, ref.digest) - BytesOf(gone, content)]
  BY DEF Store
<1>2. /\ gone \subseteq Owned(e) \ {ref}
      /\ FilledSize(ref, ref.digest) - BytesOf(gone, content) = BytesOf(left, Drawn)
      /\ BytesOf(left, Drawn) \in Nat
      /\ BytesOf(left, Drawn) <= MaxBytes \/ left = {ref}
  BY EvictedFacts
<1>3. e \in Entry /\ ref.digest \in Shape
  BY RefFields
<1> HIDE DEF gone
<1>4. DOMAIN content' = kept \cup {ref}
  BY <1>1
<1>5. NamedByShape'
  <2>1. IsFiniteSet(kept \cup {ref})
    BY FS_Subset, FS_AddElement DEF StoreInv, NamedByShape
  <2> QED BY <1>1, <1>3, <1>4, <2>1 DEF StoreInv, NamedByShape
<1>6. UseOrdered'
  <2>1. kept \subseteq DOMAIN content /\ Orders(older, DOMAIN content)
    BY DEF StoreInv, UseOrdered
  <2> HIDE DEF kept
  <2>2. Orders(older', kept \cup {ref})
    BY <1>1, <2>1, PromotedOrders
  <2> QED BY <1>4, <2>2 DEF UseOrdered
<1>7. Owned(e)' = left /\ Owned(e)' = (Owned(e) \ gone) \cup {ref}
  BY <1>2, <1>4 DEF Owned
<1>8. \A x \in Entry \ {e} : Owned(x)' = Owned(x)
  BY <1>2, <1>4 DEF Owned
<1>9. bytes' \in [Entry -> Int]
  <2>1. bytes' = [bytes EXCEPT ![e] = BytesOf(left, Drawn)]
    BY <1>1, <1>2
  <2>2. BytesOf(left, Drawn) \in Int /\ bytes \in [Entry -> Int]
    BY <1>2 DEF StoreInv
  <2> HIDE DEF left, e
  <2> QED BY <2>1, <2>2
<1>10. BudgetKept'
  <2> SUFFICES ASSUME NEW x \in Entry
               PROVE  /\ bytes'[x] = BytesOf(Owned(x)', content')
                      /\ bytes'[x] <= MaxBytes \/ Cardinality(Owned(x)') = 1
    BY DEF BudgetKept
  <2>1. Owned(x)' \subseteq DOMAIN content'
    BY DEF Owned
  <2>2. BytesOf(Owned(x)', content') = BytesOf(Owned(x)', Drawn)
    <3>1. IsFiniteSet(Owned(x)')
      BY <1>5, <2>1, FS_Subset DEF NamedByShape
    <3>2. \A r \in Owned(x)' : content'[r] \in Shape /\ Drawn[r] = content'[r]
      BY <1>5, <2>1, RefFields DEF NamedByShape
    <3> QED BY <3>1, <3>2, BytesOfSame
  <2>3. CASE x = e
    <3>1. bytes'[x] = BytesOf(left, Drawn)
      BY <1>1, <1>2, <2>3 DEF StoreInv
    <3>2. Cardinality({ref}) = 1
      BY FS_Singleton
    <3> HIDE DEF left
    <3> QED BY <1>2, <1>7, <2>2, <2>3, <3>1, <3>2
  <2>4. CASE x # e
    <3>1. bytes'[x] = bytes[x] /\ Owned(x)' = Owned(x)
      BY <1>1, <1>8, <2>4 DEF StoreInv
    <3>2. Owned(x) \subseteq DOMAIN content
      BY DEF Owned
    <3>3. BytesOf(Owned(x), content) = BytesOf(Owned(x), Drawn)
      BY <3>2, StoredSum DEF StoreInv
    <3> QED BY <2>2, <3>1, <3>3 DEF StoreInv, BudgetKept
  <2> QED BY <2>3, <2>4
<1> QED BY <1>1, <1>4, <1>5, <1>6, <1>7, <1>8, <1>9, <1>10 DEF gone, StoreInv

LEMMA DropEffect ==
  ASSUME StoreInv, NEW refs, Drop(refs)
  PROVE  /\ StoreInv'
         /\ DOMAIN content' = DOMAIN content \ refs
         /\ \A e \in Entry : Owned(e)' = Owned(e) \ refs
<1>1. /\ older' = Among(DOMAIN content \ refs, older)
      /\ content' = [r \in DOMAIN content \ refs |-> content[r]]
      /\ bytes' = [e \in Entry |-> bytes[e] - BytesOf(refs \cap Owned(e), content)]
  BY DEF Drop
<1>2. DOMAIN content' = DOMAIN content \ refs
  BY <1>1
<1>3. \A e \in Entry : Owned(e)' = Owned(e) \ refs
  BY <1>1, <1>2 DEF Owned
<1>4. NamedByShape'
  BY <1>1, <1>2, FS_Subset DEF StoreInv, NamedByShape
<1>5. UseOrdered'
  BY <1>1, <1>2, AmongOrders DEF StoreInv, UseOrdered
<1>6. ASSUME NEW e \in Entry
      PROVE  /\ bytes'[e] \in Int
             /\ bytes'[e] = BytesOf(Owned(e)', content')
             /\ bytes'[e] <= MaxBytes \/ Cardinality(Owned(e)') = 1
  <2> DEFINE O == Owned(e)
             D == refs \cap O
  <2>1. O \subseteq DOMAIN content /\ D \subseteq DOMAIN content /\ D \subseteq O
    BY DEF Owned
  <2>2. /\ IsFiniteSet(O) /\ BytesOf(O, content) = BytesOf(O, Drawn) /\ BytesOf(O, Drawn) \in Nat
        /\ \A r \in O : Drawn[r] \in Shape
        /\ BytesOf(D, content) = BytesOf(D, Drawn) /\ BytesOf(D, Drawn) \in Nat
    BY <2>1, StoredSum DEF StoreInv
  <2>3. BytesOf(O \ D, Drawn) = BytesOf(O, Drawn) - BytesOf(D, Drawn)
    <3> HIDE DEF O, D
    <3> QED BY <2>1, <2>2, BytesOfSubset
  <2>4. Owned(e)' = O \ D
    BY <1>3
  <2>5. bytes[e] = BytesOf(O, content) /\ (bytes[e] <= MaxBytes \/ Cardinality(O) = 1)
    BY DEF StoreInv, BudgetKept
  <2>6. bytes'[e] = BytesOf(O, content) - BytesOf(D, content)
    BY <1>1, <2>5
  <2>7. BytesOf(Owned(e)', content') = BytesOf(O \ D, Drawn)
    <3>1. O \ D \subseteq DOMAIN content' /\ IsFiniteSet(O \ D)
      BY <1>2, <2>1, <2>2, FS_Subset
    <3>2. \A r \in O \ D : content'[r] \in Shape /\ Drawn[r] = content'[r]
      BY <1>4, <3>1, RefFields DEF NamedByShape
    <3> HIDE DEF O, D
    <3> QED BY <2>4, <3>1, <3>2, BytesOfSame
  <2>8. bytes'[e] <= MaxBytes \/ Cardinality(O \ D) = 1
    <3>1. CASE D = {}
      <4>1. O \ D = O /\ BytesOf(D, content) = 0
        BY <3>1, BytesOfNone
      <4> HIDE DEF O, D
      <4>2. Cardinality(O \ D) = Cardinality(O)
        BY <4>1
      <4>3. bytes'[e] = bytes[e]
        BY <2>2, <2>5, <2>6, <4>1
      <4> QED BY <2>5, <4>2, <4>3
    <3>2. CASE bytes[e] <= MaxBytes
      <4> HIDE DEF O, D
      <4> QED BY <2>2, <2>5, <2>6, <3>2, BudgetAssumption
    <3>3. CASE Cardinality(O) = 1 /\ D # {}
      <4>1. PICK r : O = {r}
        BY <2>2, <3>3, FS_Singleton
      <4>2. D = O
        BY <3>3, <4>1
      <4> HIDE DEF O, D
      <4> QED BY <2>2, <2>6, <4>2, BudgetAssumption
    <3> QED BY <2>5, <3>1, <3>2, <3>3
  <2> HIDE DEF O, D
  <2> QED BY <2>2, <2>3, <2>4, <2>6, <2>7, <2>8
<1>7. bytes' \in [Entry -> Int] /\ BudgetKept'
  BY <1>1, <1>6 DEF BudgetKept
<1> QED BY <1>2, <1>3, <1>4, <1>5, <1>7 DEF StoreInv

-----------------------------------------------------------------------------
(* The steps                                                               *)

LEMMA PendingIsNoRef == Pending.ref = NoRef /\ Nothing.ref = NoRef /\ Pending # Nothing
BY DEF Pending, Nothing

LEMMA InitGeometryInv == Init => GeometryInv
<1> SUFFICES ASSUME Init PROVE GeometryInv
  OBVIOUS
<1>1. DOMAIN content = {} /\ \A e \in Entry : Owned(e) = {}
  BY DEF Init, Owned
<1>2. NamedByShape /\ UseOrdered
  BY <1>1, FS_EmptySet DEF Init, NamedByShape, UseOrdered, Orders
<1>3. bytes \in [Entry -> Int] /\ BudgetKept
  <2>1. \A e \in Entry : BytesOf(Owned(e), content) = 0 /\ bytes[e] = 0
    BY <1>1, BytesOfNone DEF Init
  <2> QED BY <2>1, BudgetAssumption DEF Init, BudgetKept
<1>4. Active = {}
  BY PendingIsNoRef DEF Init, Active
<1>5. BatchTyped
  BY <1>4, FS_EmptySet, PendingIsNoRef DEF Init, BatchTyped, Rendering, Pending
<1>6. BatchLast /\ OthersMatch /\ CardInv
  BY DEF Init, BatchLast, OthersMatch, CardInv
<1>7. ShownTyped
  BY DEF Init, ShownTyped, Rendering, Nothing
<1> QED BY <1>2, <1>3, <1>5, <1>6, <1>7 DEF GeometryInv, StoreInv

\* A step that leaves the store alone leaves what is said of it.
LEMMA SameStore ==
  ASSUME StoreInv, UNCHANGED stored
  PROVE  StoreInv' /\ (\A e \in Entry : Owned(e)' = Owned(e)) /\ DOMAIN content' = DOMAIN content
BY DEF StoreInv, stored, NamedByShape, UseOrdered, BudgetKept, Owned

\* Entities and other entries' polygons as before: they still match.
LEMMA SameMatch ==
  ASSUME NEW e \in Entry, Matches(e), Owned(e)' = Owned(e), published'[e] = published[e]
  PROVE  Matches(e)'
<1>1. ObservedRefs(e)' = ObservedRefs(e)
  BY DEF ObservedRefs
<1>2. Drawn' = Drawn
  BY DEF Drawn, Ref, RefOf, Digest
<1> QED BY <1>1, <1>2 DEF Matches

LEMMA ApplyInv == ASSUME GeometryInv, NEW e \in Entry, Apply(e) PROVE GeometryInv'
<1>1. /\ applying = NoEntry /\ applying' = e /\ listed' = [a \in AlertId |-> Pending]
      /\ UNCHANGED <<stored, published, loaded, card>>
  BY DEF Apply
<1>2. StoreInv' /\ (\A x \in Entry : Owned(x)' = Owned(x)) /\ DOMAIN content' = DOMAIN content
  BY <1>1, SameStore DEF GeometryInv
<1>3. Active' = {}
  BY <1>1, PendingIsNoRef DEF Active
<1>4. BatchTyped'
  BY <1>1, <1>3, FS_EmptySet, PendingIsNoRef DEF BatchTyped, Rendering, Pending
<1>5. BatchLast'
  BY <1>3 DEF BatchLast
<1>6. OthersMatch'
  <2> SUFFICES ASSUME NEW x \in loaded PROVE Matches(x)'
    BY <1>1 DEF OthersMatch
  <2>1. x \in Entry /\ Matches(x)
    BY <1>1, EntryAssumption DEF GeometryInv, ShownTyped, OthersMatch
  <2> QED BY <1>1, <1>2, <2>1, SameMatch
<1>7. CardInv' /\ ShownTyped'
  BY <1>1 DEF GeometryInv, CardInv, ShownTyped
<1> QED BY <1>2, <1>4, <1>5, <1>6, <1>7 DEF GeometryInv

LEMMA ExternalizeInv ==
  ASSUME GeometryInv, NEW a \in AlertId, NEW shape \in Shape, Externalize(a, shape)
  PROVE  GeometryInv'
<1> DEFINE ref == RefOf(applying, a, shape)
           gone == Evicted(ref, shape)
           kept == DOMAIN content \ (gone \cup {ref})
<1>1. /\ applying # NoEntry /\ listed[a] = Pending
      /\ Store(ref, shape)
      /\ listed' = [listed EXCEPT ![a] = Observed(ref)]
      /\ UNCHANGED <<applying, published, loaded, card>>
  BY DEF Externalize
<1>2. /\ applying \in Entry /\ ref \in Ref
      /\ ref.entry = applying /\ ref.alert = a /\ ref.digest = shape
  BY <1>1 DEF GeometryInv, BatchTyped, RefOf, Ref, Digest
<1>3. ref # NoRef /\ Drawn[ref] = shape
  BY <1>2, RefFields
<1>4. /\ StoreInv'
      /\ DOMAIN content' = kept \cup {ref}
      /\ Owned(applying)' = (Owned(applying) \ gone) \cup {ref}
      /\ \A e \in Entry \ {applying} : Owned(e)' = Owned(e)
      /\ older' = Promoted(ref, kept, older)
  <2> HIDE DEF ref
  <2> QED BY <1>1, <1>2, StoreEffect DEF GeometryInv
<1> HIDE DEF ref
<1>5. Active' = Active \cup {ref}
  <2>1. \A b \in AlertId \ {a} : listed'[b] = listed[b]
    BY <1>1 DEF GeometryInv, BatchTyped
  <2>2. listed'[a].ref = ref /\ listed[a].ref = NoRef
    BY <1>1, PendingIsNoRef DEF GeometryInv, BatchTyped, Observed
  <2> QED BY <1>3, <2>1, <2>2 DEF Active
<1>6. ref \notin Active
  <2> SUFFICES ASSUME NEW b \in AlertId, listed[b].ref = ref PROVE FALSE
    BY DEF Active
  <2>1. b = a
    BY <1>2, <1>3 DEF GeometryInv, BatchTyped
  <2> QED BY <1>1, <1>3, <2>1, PendingIsNoRef
<1>7. BatchTyped'
  <2>1. IsFiniteSet(Active')
    BY <1>5, FS_AddElement DEF GeometryInv, BatchTyped
  <2>2. listed' \in [AlertId -> Rendering]
    BY <1>1, <1>2 DEF GeometryInv, BatchTyped, Rendering, Observed
  <2>3. \A b \in AlertId : listed'[b] # Pending => ~listed'[b].retained
    BY <1>1 DEF GeometryInv, BatchTyped, Observed
  <2>4. \A b \in AlertId : listed'[b].ref # NoRef =>
          listed'[b].ref.alert = b /\ listed'[b].ref.entry = applying'
    BY <1>1, <1>2 DEF GeometryInv, BatchTyped, Observed
  <2> QED BY <1>1, <2>1, <2>2, <2>3, <2>4 DEF GeometryInv, BatchTyped
<1>8. BatchLast'
  <2> DEFINE O == Owned(applying)
  <2>1. /\ \A q \in Active \cap DOMAIN content, r \in O \ Active : <<r, q>> \in older
        /\ BytesOf(Active, Drawn) <= MaxBytes => Active \subseteq DOMAIN content
    BY <1>1 DEF GeometryInv, BatchLast
  <2>2. ASSUME NEW q \in Active' \cap DOMAIN content', NEW r \in Owned(applying)' \ Active'
        PROVE  <<r, q>> \in older'
    <3>1. r \in O \ Active /\ r \in kept
      BY <1>4, <1>5, <2>2 DEF Owned
    <3>2. CASE q = ref
      BY <1>4, <3>1, <3>2 DEF Promoted
    <3>3. CASE q # ref
      <4>1. q \in Active \cap DOMAIN content /\ q \in kept
        BY <1>4, <1>5, <2>2, <3>3
      <4> QED BY <1>4, <2>1, <3>1, <4>1 DEF Promoted, Among
    <3> QED BY <3>2, <3>3
  <2>3. ASSUME BytesOf(Active', Drawn) <= MaxBytes
        PROVE  Active' \subseteq DOMAIN content'
    <3>1. /\ IsFiniteSet(Active') /\ \A q \in Active' : Drawn[q] \in Shape
          /\ Active \subseteq Active'
      <4>1. \A q \in Active' : q \in Ref
        BY <1>7 DEF BatchTyped, Active, Rendering
      <4>2. \A q \in Active' : Drawn[q] \in Shape
        BY <4>1, RefFields
      <4>3. IsFiniteSet(Active')
        BY <1>7 DEF BatchTyped
      <4> QED BY <1>5, <4>2, <4>3
    <3>2. BytesOf(Active, Drawn) =< BytesOf(Active', Drawn)
      BY <3>1, BytesOfSubset
    <3>3. BytesOf(Active, Drawn) \in Nat /\ BytesOf(Active', Drawn) \in Nat
      BY <3>1, FS_Subset, BytesOfType
    <3>4. Active \subseteq DOMAIN content
      BY <2>1, <2>3, <3>2, <3>3, BudgetAssumption
    <3>5. ASSUME NEW q \in Active, q \in gone PROVE FALSE
      <4> DEFINE before == Before(q, Evictable(ref), older)
                 whole == O \cup {ref}
      <4>1. q \in Evictable(ref) /\ FilledSize(ref, shape) - BytesOf(before, content) > MaxBytes
        <5> DEFINE items == Evictable(ref)
                   size == [r \in items |-> Size[content[r]]]
        <5>1. /\ q \in items /\ before \subseteq items
              /\ FilledSize(ref, shape) - Bytes(before, size) > MaxBytes
          BY <3>5 DEF Evicted, Trimmed, Before
        <5>2. items \subseteq DOMAIN content
          BY DEF Evictable, Owned
        <5>3. IsFiniteSet(items) /\ \A r \in items : content[r] \in Shape
          BY <5>2, StoredSum DEF GeometryInv, StoreInv
        <5> HIDE DEF items, before
        <5>4. BytesOf(before, content) = Bytes(before, size)
          BY <5>1, <5>3, BytesOfAmong
        <5> HIDE DEF size
        <5> QED BY <5>1, <5>4 DEF items
      <4>2. before \subseteq O /\ before \subseteq DOMAIN content /\ ref \notin before
        BY <1>2 DEF Before, Evictable, Owned
      <4>3. whole \ before \subseteq Active'
        <5> SUFFICES ASSUME NEW r \in O, r # ref, r \notin Active PROVE r \in before
          BY <1>5, <4>2
        <5>1. <<r, q>> \in older
          BY <2>1, <3>4, <3>5
        <5> QED BY <1>2, <5>1 DEF Before, Evictable
      <4>4. /\ IsFiniteSet(whole) /\ \A r \in whole : Drawn[r] \in Shape
            /\ FilledSize(ref, shape) = BytesOf(whole, Drawn)
        BY <1>2, FilledSum DEF GeometryInv
      <4>5. BytesOf(before, content) = BytesOf(before, Drawn)
        BY <4>2, StoredSum DEF GeometryInv, StoreInv
      <4> HIDE DEF before, whole
      <4>6. BytesOf(whole \ before, Drawn) = BytesOf(whole, Drawn) - BytesOf(before, Drawn)
        BY <4>2, <4>4, BytesOfSubset DEF whole
      <4>7. BytesOf(whole \ before, Drawn) =< BytesOf(Active', Drawn)
        BY <3>1, <4>3, BytesOfSubset
      <4>8. BytesOf(whole, Drawn) \in Nat /\ BytesOf(whole \ before, Drawn) \in Nat
        BY <4>4, FS_Subset, BytesOfType
      <4> QED BY <2>3, <3>3, <4>1, <4>4, <4>5, <4>6, <4>7, <4>8, BudgetAssumption
    <3> QED BY <1>4, <1>5, <3>4, <3>5
  <2>4. Drawn' = Drawn
    BY DEF Drawn, Ref, RefOf, Digest
  <2>5. /\ \A q \in (Active \cap DOMAIN content)', r \in (Owned(applying) \ Active)' : <<r, q>> \in older'
        /\ (BytesOf(Active, Drawn) <= MaxBytes)' => (Active \subseteq DOMAIN content)'
    BY <1>1, <2>2, <2>3, <2>4
  <2> QED BY <2>5 DEF BatchLast
<1>9. OthersMatch'
  <2> SUFFICES ASSUME NEW x \in loaded, x # applying PROVE Matches(x)'
    BY <1>1 DEF OthersMatch
  <2>1. x \in Entry /\ Matches(x)
    BY DEF GeometryInv, ShownTyped, OthersMatch
  <2> QED BY <1>1, <1>4, <2>1, SameMatch
<1>10. CardInv' /\ ShownTyped'
  BY <1>1 DEF GeometryInv, CardInv, ShownTyped
<1> QED BY <1>4, <1>7, <1>8, <1>9, <1>10 DEF GeometryInv


LEMMA SkipInv == ASSUME GeometryInv, NEW a \in AlertId, Skip(a) PROVE GeometryInv'
<1>1. /\ applying # NoEntry /\ listed[a] = Pending
      /\ listed' = [listed EXCEPT ![a] = Nothing]
      /\ UNCHANGED <<stored, applying, published, loaded, card>>
  BY DEF Skip
<1>2. StoreInv' /\ (\A x \in Entry : Owned(x)' = Owned(x)) /\ DOMAIN content' = DOMAIN content
  BY <1>1, SameStore DEF GeometryInv
<1>3. Active' = Active
  <2>1. \A b \in AlertId : listed'[b].ref = listed[b].ref
    BY <1>1, PendingIsNoRef DEF GeometryInv, BatchTyped
  <2> QED BY <2>1 DEF Active
<1>4. BatchTyped'
  <2>1. IsFiniteSet(Active')
    BY <1>3 DEF GeometryInv, BatchTyped
  <2>2. listed' \in [AlertId -> Rendering]
    BY <1>1 DEF GeometryInv, BatchTyped, Rendering, Nothing
  <2>3. \A b \in AlertId : listed'[b] # Pending => ~listed'[b].retained
    BY <1>1 DEF GeometryInv, BatchTyped, Nothing
  <2>4. \A b \in AlertId : listed'[b].ref # NoRef =>
          listed'[b].ref.alert = b /\ listed'[b].ref.entry = applying'
    BY <1>1, PendingIsNoRef DEF GeometryInv, BatchTyped
  <2> QED BY <1>1, <2>1, <2>2, <2>3, <2>4 DEF GeometryInv, BatchTyped
<1>5. BatchLast'
  <2>1. Drawn' = Drawn /\ older' = older
    BY <1>1 DEF Drawn, Ref, RefOf, Digest, stored
  <2>2. applying' = applying /\ (applying # NoEntry => applying \in Entry)
    BY <1>1 DEF GeometryInv, BatchTyped
  <2>3. applying # NoEntry => Owned(applying)' = Owned(applying)
    BY <1>2, <2>2
  <2> QED BY <1>2, <1>3, <2>1, <2>2, <2>3 DEF GeometryInv, BatchLast
<1>6. OthersMatch'
  <2> SUFFICES ASSUME NEW x \in loaded, x # applying PROVE Matches(x)'
    BY <1>1 DEF OthersMatch
  <2>1. x \in Entry /\ Matches(x)
    BY DEF GeometryInv, ShownTyped, OthersMatch
  <2> QED BY <1>1, <1>2, <2>1, SameMatch
<1>7. CardInv' /\ ShownTyped'
  BY <1>1 DEF GeometryInv, CardInv, ShownTyped
<1> QED BY <1>2, <1>4, <1>5, <1>6, <1>7 DEF GeometryInv

\* The batch ends: what the entity of each alert renders is what the batch
\* put in, but for the alerts the store keeps unlisted.
LEMMA ReconcileInv ==
  ASSUME GeometryInv, NEW retains \in SUBSET AlertId, Reconcile(retains)
  PROVE  GeometryInv'
<1>2. PICK e \in Entry : e = applying /\ e # NoEntry
  BY DEF GeometryInv, BatchTyped, Reconcile
<1> DEFINE missing == {a \in AlertId : listed[a] = Pending}
           shows == [a \in AlertId |->
             IF a \in retains THEN [published[e][a] EXCEPT !.retained = TRUE]
             ELSE IF a \in missing THEN Nothing ELSE listed[a]]
<1>1. /\ e # NoEntry /\ retains \subseteq missing
      /\ Drop(Owned(e) \ Active)
      /\ published' = [published EXCEPT ![e] = shows]
      /\ loaded' = loaded \cup {e} /\ applying' = NoEntry
      /\ listed' = [a \in AlertId |-> Pending] /\ UNCHANGED <<card>>
  BY <1>2 DEF Reconcile, Purges, Active
<1>3. /\ StoreInv' /\ DOMAIN content' = DOMAIN content \ (Owned(e) \ Active)
      /\ \A x \in Entry : Owned(x)' = Owned(x) \ (Owned(e) \ Active)
  BY <1>1, DropEffect DEF GeometryInv
<1>4. shows \in [AlertId -> Rendering]
  <2>1. published[e] \in [AlertId -> Rendering] /\ listed \in [AlertId -> Rendering]
    BY <1>2 DEF GeometryInv, ShownTyped, BatchTyped
  <2>2. Nothing \in Rendering
    BY DEF Nothing, Rendering
  <2>3. \A a \in AlertId : [published[e][a] EXCEPT !.retained = TRUE] \in Rendering
    <3> SUFFICES ASSUME NEW a \in AlertId
                 PROVE  [published[e][a] EXCEPT !.retained = TRUE] \in Rendering
      OBVIOUS
    <3>1. published[e][a] \in Rendering
      BY <2>1
    <3> QED BY <3>1 DEF Rendering
  <2> HIDE DEF missing
  <2> QED BY <2>1, <2>2, <2>3
<1>5. ShownTyped'
  <2> HIDE DEF shows
  <2> QED BY <1>1, <1>2, <1>4 DEF GeometryInv, ShownTyped
<1>6. Active' = {} /\ BatchTyped' /\ BatchLast'
  <2>1. Active' = {}
    BY <1>1, PendingIsNoRef DEF Active
  <2>2. BatchTyped'
    BY <1>1, <2>1, FS_EmptySet, PendingIsNoRef DEF BatchTyped, Rendering, Pending
  <2> QED BY <1>1, <2>1, <2>2 DEF BatchLast
<1>7. ObservedRefs(e)' = Active
  <2>1. published'[e] = shows
    <3> HIDE DEF shows
    <3> QED BY <1>1, <1>2 DEF GeometryInv, ShownTyped
  <2>2. \A a \in AlertId : a \in retains => shows[a].retained
    <3> SUFFICES ASSUME NEW a \in retains PROVE shows[a].retained
      OBVIOUS
    <3>1. published[e][a] \in Rendering
      BY <1>2 DEF GeometryInv, ShownTyped
    <3>2. shows[a] = [published[e][a] EXCEPT !.retained = TRUE]
      OBVIOUS
    <3> HIDE DEF shows
    <3> QED BY <3>1, <3>2 DEF Rendering
  <2>3. \A a \in AlertId : a \in missing \ retains => shows[a].ref = NoRef /\ listed[a].ref = NoRef
    BY PendingIsNoRef
  <2>4. \A a \in AlertId : a \notin missing => shows[a] = listed[a] /\ ~listed[a].retained
    BY <1>1 DEF GeometryInv, BatchTyped
  <2>5. \A a \in AlertId : a \in missing => listed[a].ref = NoRef
    BY PendingIsNoRef
  <2> HIDE DEF shows
  <2>6. {shows[a].ref : a \in {b \in AlertId : ~shows[b].retained}} \ {NoRef} = Active
    BY <1>1, <2>2, <2>3, <2>4, <2>5 DEF Active
  <2> QED BY <2>1, <2>6 DEF ObservedRefs
<1>8. Drawn' = Drawn
  BY DEF Drawn, Ref, RefOf, Digest
<1>9. Matches(e)'
  <2>1. Owned(e)' = Owned(e) \cap Active
    BY <1>2, <1>3
  <2>2. BytesOf(Active, Drawn) <= MaxBytes => Active \subseteq DOMAIN content
    BY <1>2 DEF GeometryInv, BatchLast
  <2>3. \A q \in Active : q.entry = e
    BY <1>2 DEF GeometryInv, BatchTyped, Active
  <2>4. BytesOf(Active, Drawn) <= MaxBytes => Owned(e)' = Active
    BY <2>1, <2>2, <2>3 DEF Owned
  <2> QED BY <1>7, <1>8, <2>1, <2>4 DEF Matches
<1>10. OthersMatch'
  <2> SUFFICES ASSUME NEW x \in loaded' PROVE Matches(x)'
    BY DEF OthersMatch
  <2>1. CASE x = e
    BY <1>9, <2>1
  <2>2. CASE x # e
    <3>1. x \in Entry /\ Matches(x)
      BY <1>1, <1>2, <2>2 DEF GeometryInv, ShownTyped, OthersMatch
    <3>2. Owned(x)' = Owned(x)
      BY <1>3, <2>2, <3>1 DEF Owned
    <3>3. published'[x] = published[x]
      <4> HIDE DEF shows
      <4> QED BY <1>1, <2>2, <3>1 DEF GeometryInv, ShownTyped
    <3> QED BY <3>1, <3>2, <3>3, SameMatch
  <2> QED BY <2>1, <2>2
<1>11. CardInv'
  BY <1>1 DEF GeometryInv, CardInv
<1> QED BY <1>3, <1>5, <1>6, <1>10, <1>11 DEF GeometryInv

LEMMA UnloadInv == ASSUME GeometryInv, NEW e \in Entry, Unload(e) PROVE GeometryInv'
<1>1. /\ applying = NoEntry /\ e \in loaded /\ loaded' = loaded \ {e}
      /\ published' = [published EXCEPT ![e] = [a \in AlertId |-> Nothing]]
      /\ UNCHANGED <<stored, applying, listed, card>>
  BY DEF Unload
<1>2. StoreInv' /\ (\A x \in Entry : Owned(x)' = Owned(x))
  BY <1>1, SameStore DEF GeometryInv
<1>3. BatchTyped' /\ BatchLast'
  BY <1>1 DEF GeometryInv, BatchTyped, BatchLast, Active
<1>4. ShownTyped'
  <2>1. [a \in AlertId |-> Nothing] \in [AlertId -> Rendering]
    BY DEF Nothing, Rendering
  <2> QED BY <1>1, <2>1 DEF GeometryInv, ShownTyped
<1>5. OthersMatch'
  <2> SUFFICES ASSUME NEW x \in loaded, x # e, x # applying PROVE Matches(x)'
    BY <1>1 DEF OthersMatch
  <2>1. x \in Entry /\ Matches(x)
    BY DEF GeometryInv, ShownTyped, OthersMatch
  <2>2. published'[x] = published[x]
    BY <1>1, <2>1 DEF GeometryInv, ShownTyped
  <2> QED BY <1>2, <2>1, <2>2, SameMatch
<1>6. CardInv'
  BY <1>1 DEF GeometryInv, CardInv
<1> QED BY <1>2, <1>3, <1>4, <1>5, <1>6 DEF GeometryInv

LEMMA RestartInv == ASSUME GeometryInv, Restart PROVE GeometryInv'
<1>1. /\ applying = NoEntry
      /\ older' = {} /\ content' = <<>> /\ bytes' = [e \in Entry |-> 0]
      /\ loaded' = {} /\ published' = [e \in Entry |-> [a \in AlertId |-> Nothing]]
      /\ UNCHANGED <<applying, listed, card>>
  BY DEF Restart
<1>2. DOMAIN content' = {} /\ \A e \in Entry : Owned(e)' = {}
  BY <1>1 DEF Owned
<1>3. NamedByShape' /\ UseOrdered'
  BY <1>1, <1>2, FS_EmptySet DEF NamedByShape, UseOrdered, Orders
<1>4. bytes' \in [Entry -> Int] /\ BudgetKept'
  <2>1. \A e \in Entry : BytesOf(Owned(e)', content') = 0 /\ bytes'[e] = 0
    BY <1>1, <1>2, BytesOfNone
  <2> QED BY <1>1, <2>1, BudgetAssumption DEF BudgetKept
<1>5. BatchTyped' /\ BatchLast'
  BY <1>1 DEF GeometryInv, BatchTyped, BatchLast, Active
<1>6. OthersMatch' /\ CardInv'
  BY <1>1 DEF GeometryInv, OthersMatch, CardInv
<1>7. ShownTyped'
  BY <1>1 DEF ShownTyped, Rendering, Nothing
<1> QED BY <1>3, <1>4, <1>5, <1>6, <1>7 DEF GeometryInv, StoreInv

LEMMA ReadStateInv ==
  ASSUME GeometryInv, NEW e \in Entry, NEW a \in AlertId, ReadState(e, a)
  PROVE  GeometryInv'
<1>1. /\ card' = [ref |-> published[e][a].ref, shape |-> NoShape]
      /\ UNCHANGED <<stored, applying, listed, published, loaded>>
  BY DEF ReadState
<1>2. StoreInv' /\ (\A x \in Entry : Owned(x)' = Owned(x))
  BY <1>1, SameStore DEF GeometryInv
<1>3. BatchTyped' /\ BatchLast'
  BY <1>1 DEF GeometryInv, BatchTyped, BatchLast, Active, Owned, stored
<1>4. ShownTyped'
  BY <1>1 DEF GeometryInv, ShownTyped
<1>5. OthersMatch'
  <2> SUFFICES ASSUME NEW x \in loaded, x # applying PROVE Matches(x)'
    BY <1>1 DEF OthersMatch
  <2>1. x \in Entry /\ Matches(x)
    BY DEF GeometryInv, ShownTyped, OthersMatch
  <2> QED BY <1>1, <1>2, <2>1, SameMatch
<1>6. CardInv'
  <2>1. published[e][a] \in Rendering
    BY DEF GeometryInv, ShownTyped
  <2>2. published[e][a].ref \in Ref \cup {NoRef}
    BY <2>1 DEF Rendering
  <2> QED BY <1>1, <2>2 DEF CardInv
<1> QED BY <1>2, <1>3, <1>4, <1>5, <1>6 DEF GeometryInv

LEMMA AskInv == ASSUME GeometryInv, Ask PROVE GeometryInv'
<1>1. /\ applying = NoEntry /\ card.ref \in DOMAIN content
      /\ older' = Promoted(card.ref, DOMAIN content, older)
      /\ card' = IF card.shape = NoShape THEN [card EXCEPT !.shape = content[card.ref]] ELSE card
      /\ UNCHANGED <<content, bytes, applying, listed, published, loaded>>
  BY DEF Ask, Served
<1>2. \A x \in Entry : Owned(x)' = Owned(x)
  BY <1>1 DEF Owned
<1>3. UseOrdered'
  <2>1. Orders(older, DOMAIN content) /\ DOMAIN content \cup {card.ref} = DOMAIN content
    BY <1>1 DEF GeometryInv, StoreInv, UseOrdered
  <2>2. Orders(Promoted(card.ref, DOMAIN content, older), DOMAIN content \cup {card.ref})
    BY <2>1, PromotedOrders
  <2>3. Orders(Promoted(card.ref, DOMAIN content, older), DOMAIN content)
    BY <2>1, <2>2
  <2> QED BY <1>1, <2>3 DEF UseOrdered
<1>4. StoreInv'
  BY <1>1, <1>2, <1>3 DEF GeometryInv, StoreInv, NamedByShape, BudgetKept
<1>5. BatchTyped' /\ BatchLast'
  BY <1>1 DEF GeometryInv, BatchTyped, BatchLast, Active
<1>6. OthersMatch'
  <2> SUFFICES ASSUME NEW x \in loaded, x # applying PROVE Matches(x)'
    BY <1>1 DEF OthersMatch
  <2>1. x \in Entry /\ Matches(x)
    BY DEF GeometryInv, ShownTyped, OthersMatch
  <2> QED BY <1>1, <1>2, <2>1, SameMatch
<1>7. CardInv'
  <2>1. content[card.ref] \in Shape /\ content[card.ref] = card.ref.digest
    BY <1>1 DEF GeometryInv, StoreInv, NamedByShape
  <2>2. card \in [ref : Ref \cup {NoRef}, shape : Shape \cup {NoShape}]
    BY DEF GeometryInv, CardInv
  <2>3. CASE card.shape = NoShape
    BY <1>1, <2>1, <2>2, <2>3 DEF CardInv
  <2>4. CASE card.shape # NoShape
    BY <1>1, <2>4 DEF GeometryInv, CardInv
  <2> QED BY <2>3, <2>4
<1>8. ShownTyped'
  BY <1>1 DEF GeometryInv, ShownTyped
<1> QED BY <1>4, <1>5, <1>6, <1>7, <1>8 DEF GeometryInv

LEMMA StutterInv == ASSUME GeometryInv, UNCHANGED vars PROVE GeometryInv'
<1>1. StoreInv' /\ (\A x \in Entry : Owned(x)' = Owned(x))
  BY SameStore DEF GeometryInv, vars
<1>2. OthersMatch'
  <2> SUFFICES ASSUME NEW x \in loaded, x # applying PROVE Matches(x)'
    BY DEF OthersMatch, vars
  <2>1. x \in Entry /\ Matches(x)
    BY DEF GeometryInv, ShownTyped, OthersMatch
  <2> QED BY <1>1, <2>1, SameMatch DEF vars
<1> QED BY <1>1, <1>2 DEF GeometryInv, BatchTyped, BatchLast, CardInv, ShownTyped, Active, Owned, vars, stored

LEMMA NextGeometryInv == GeometryInv /\ [Next]_vars => GeometryInv'
<1> SUFFICES ASSUME GeometryInv, [Next]_vars PROVE GeometryInv'
  OBVIOUS
<1>1. ASSUME NEW e \in Entry, Apply(e) PROVE GeometryInv'
  BY <1>1, ApplyInv
<1>2. ASSUME NEW a \in AlertId, NEW shape \in Shape, Externalize(a, shape) PROVE GeometryInv'
  BY <1>2, ExternalizeInv
<1>3. ASSUME NEW a \in AlertId, Skip(a) PROVE GeometryInv'
  BY <1>3, SkipInv
<1>4. ASSUME NEW retains \in SUBSET AlertId, Reconcile(retains) PROVE GeometryInv'
  BY <1>4, ReconcileInv
<1>5. ASSUME NEW e \in Entry, Unload(e) PROVE GeometryInv'
  BY <1>5, UnloadInv
<1>6. CASE Restart
  BY <1>6, RestartInv
<1>7. ASSUME NEW e \in Entry, NEW a \in AlertId, ReadState(e, a) PROVE GeometryInv'
  BY <1>7, ReadStateInv
<1>8. CASE Ask
  BY <1>8, AskInv
<1>9. CASE UNCHANGED vars
  BY <1>9, StutterInv
<1> QED BY <1>1, <1>2, <1>3, <1>4, <1>5, <1>6, <1>7, <1>8, <1>9 DEF Next

-----------------------------------------------------------------------------
(* The theorems                                                            *)

\* Whatever the entries, their batches, and the cards' questions: a ref is
\* stored for the shape its hash names, the order of use is one, each owner's
\* bytes add up and keep the budget, and a running batch loses none of its own
\* to the trimming while all of them together keep the budget.
THEOREM GeometryInductive == Spec => []GeometryInv
<1>1. Init => GeometryInv
  BY InitGeometryInv
<1>2. GeometryInv /\ [Next]_vars => GeometryInv'
  BY NextGeometryInv
<1> QED BY <1>1, <1>2, PTL DEF Spec

\* The types of the store's variables, for any constants.
THEOREM TypeCorrect == Spec => []TypeOK
<1>1. GeometryInv => TypeOK
  <2> SUFFICES ASSUME GeometryInv PROVE TypeOK
    OBVIOUS
  <2>1. older \subseteq Ref \X Ref /\ DOMAIN content \subseteq Ref
        /\ content \in [DOMAIN content -> Shape] /\ bytes \in [Entry -> Int]
    BY DEF GeometryInv, StoreInv, NamedByShape, UseOrdered, Orders
  <2>2. /\ applying \in Entry \cup {NoEntry} /\ listed \in [AlertId -> Rendering]
        /\ published \in [Entry -> [AlertId -> Rendering]] /\ loaded \subseteq Entry
        /\ card \in [ref : Ref \cup {NoRef}, shape : Shape \cup {NoShape}]
    BY DEF GeometryInv, BatchTyped, ShownTyped, CardInv
  <2> QED BY <2>1, <2>2 DEF TypeOK
<1> QED BY <1>1, GeometryInductive, PTL

\* Whatever is stored, replaced, trimmed and purged, by any number of entries,
\* the bytes charged to one are those of what it has stored, and keep its
\* budget unless one polygon alone is over it (_put, _evict_owner_to_cap).
THEOREM BudgetAlwaysKept == Spec => []BudgetKept
<1>1. GeometryInv => BudgetKept
  BY DEF GeometryInv, StoreInv
<1> QED BY <1>1, GeometryInductive, PTL

\* A ref a card has been served is never given another polygon (put_content).
THEOREM RefsImmutable == Spec => []RefImmutable
<1>1. GeometryInv => RefImmutable
  BY DEF GeometryInv, StoreInv, NamedByShape, CardInv, RefImmutable
<1> QED BY <1>1, GeometryInductive, PTL

\* Between reconciliations each loaded entry has the polygons of what its last
\* batch listed and no others; all of them, if they keep the budget together
\* (async_apply, put_content, purge_missing).
THEOREM StoredIsShown == Spec => []StoreMatchesEntities
<1>1. GeometryInv => StoreMatchesEntities
  <2> SUFFICES ASSUME GeometryInv, applying = NoEntry, NEW e \in loaded PROVE Matches(e)
    BY DEF StoreMatchesEntities, Matches
  <2>1. e # NoEntry
    BY EntryAssumption DEF GeometryInv, ShownTyped
  <2> QED BY <2>1 DEF GeometryInv, OthersMatch
<1> QED BY <1>1, GeometryInductive, PTL
=============================================================================
