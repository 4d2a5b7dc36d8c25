----------------------------- MODULE ByteLRUProofs -----------------------------
(***************************************************************************)
(* Lemmas about ByteLRU.  A sum over a set of items is the number of the   *)
(* bytes they take, one slot for each; that makes it a cardinality, of     *)
(* which the library has theorems.                                         *)
(***************************************************************************)
EXTENDS ByteLRU, FiniteSetTheorems, TLAPS

-----------------------------------------------------------------------------
(* Sums                                                                    *)

\* The bytes that items take, numbered.
Slots(items, size) == {slot \in items \X Nat : slot[2] \in 1 .. size[slot[1]]}

LEMMA SlotsOfOneMore ==
  ASSUME NEW S, NEW f, NEW x, x \notin S, IsFiniteSet(Slots(S, f)), f[x] \in Nat
  PROVE  /\ IsFiniteSet(Slots(S \cup {x}, f))
         /\ Cardinality(Slots(S \cup {x}, f)) = f[x] + Cardinality(Slots(S, f))
<1> DEFINE n == f[x]
           own == {x} \X (1 .. n)
<1>1. n \in Nat
  OBVIOUS
<1>2. IsFiniteSet(1 .. n) /\ Cardinality(1 .. n) = n
  BY <1>1, FS_Interval
<1>3. IsFiniteSet({x}) /\ Cardinality({x}) = 1
  BY FS_Singleton
<1>4. IsFiniteSet(own) /\ Cardinality(own) = n
  <2> HIDE DEF n
  <2>1. IsFiniteSet(own) /\ Cardinality(own) = Cardinality({x}) * Cardinality(1 .. n)
    BY <1>2, <1>3, FS_Product
  <2>2. 1 * n = n
    BY <1>1
  <2> QED BY <1>2, <1>3, <2>1, <2>2
<1>5. Slots(S \cup {x}, f) = Slots(S, f) \cup own
  BY <1>1 DEF Slots
<1>6. Slots(S, f) \cap own = {}
  BY DEF Slots
<1>7. Cardinality(Slots(S, f)) \in Nat
  BY FS_CardinalityType
<1>8. n = f[x]
  OBVIOUS
<1> HIDE DEF own, n
<1>9. /\ IsFiniteSet(Slots(S, f) \cup own)
      /\ Cardinality(Slots(S, f) \cup own) = Cardinality(Slots(S, f)) + Cardinality(own) - 0
  BY <1>4, <1>6, FS_Union, FS_EmptySet
<1>10. /\ IsFiniteSet(Slots(S \cup {x}, f))
       /\ Cardinality(Slots(S \cup {x}, f)) = Cardinality(Slots(S, f)) + Cardinality(own) - 0
  BY <1>5, <1>9
<1> QED BY <1>1, <1>4, <1>7, <1>8, <1>10

LEMMA SlotsFinite ==
  ASSUME NEW S, IsFiniteSet(S), NEW f, \A x \in S : f[x] \in Nat
  PROVE  IsFiniteSet(Slots(S, f))
<1> DEFINE Bad == {T \in SUBSET S : ~IsFiniteSet(Slots(T, f))}
<1> SUFFICES ASSUME Bad # {} PROVE FALSE
  OBVIOUS
<1>1. Bad \subseteq FiniteSubsetsOf(S)
  BY FS_Subset DEF FiniteSubsetsOf
<1>2. PICK T \in Bad : \A U \in Bad : ~(<<U, T>> \in StrictSubsetOrdering(S))
  <2> HIDE DEF Bad
  <2> QED BY <1>1, FS_StrictSubsetOrderingWellFounded, WFMin
<1>3. T # {}
  <2>1. Slots({}, f) = {}
    BY DEF Slots
  <2> QED BY <2>1, FS_EmptySet
<1>4. PICK x \in T : TRUE
  BY <1>3
<1>5. T \ {x} \in SUBSET S /\ <<T \ {x}, T>> \in StrictSubsetOrdering(S)
  BY <1>4 DEF StrictSubsetOrdering
<1>6. IsFiniteSet(Slots(T \ {x}, f))
  BY <1>2, <1>5
<1>7. T = (T \ {x}) \cup {x}
  BY <1>4
<1>8. IsFiniteSet(Slots((T \ {x}) \cup {x}, f))
  BY <1>4, <1>6, SlotsOfOneMore
<1> QED BY <1>7, <1>8

\* The recursion of the fold has one solution, and counting the slots is one.
LEMMA SumIsCount ==
  ASSUME NEW S, IsFiniteSet(S), NEW f, \A x \in S : f[x] \in Nat
  PROVE  Bytes(S, f) = Cardinality(Slots(S, f))
<1> DEFINE one(T) == CHOOSE x \in T : TRUE
           Step(h, T) == IF T = {} THEN 0 ELSE f[one(T)] + h[T \ {one(T)}]
           Sums(h) == h = [T \in SUBSET S |-> Step(h, T)]
           count == [T \in SUBSET S |-> Cardinality(Slots(T, f))]
           g == CHOOSE h : Sums(h)
<1>1. Bytes(S, f) = g[S]
  BY DEF Bytes, MapThenSumSet, MapThenFoldSet
<1>2. ASSUME NEW T \in SUBSET S
      PROVE  count[T] = Step(count, T)
  <2>1. CASE T = {}
    <3>1. Slots({}, f) = {}
      BY DEF Slots
    <3> QED BY <2>1, <3>1, FS_EmptySet
  <2>2. CASE T # {}
    <3>1. PICK x \in T : x = one(T)
      BY <2>2
    <3>2. T \ {x} \in SUBSET S /\ T = (T \ {x}) \cup {x}
      OBVIOUS
    <3>3. IsFiniteSet(Slots(T \ {x}, f))
      BY <3>2, FS_Subset, SlotsFinite
    <3>4. Cardinality(Slots((T \ {x}) \cup {x}, f)) = f[x] + Cardinality(Slots(T \ {x}, f))
      BY <3>3, SlotsOfOneMore
    <3> QED BY <2>2, <3>1, <3>2, <3>4
  <2> QED BY <2>1, <2>2
<1>3. Sums(count)
  BY <1>2
<1>4. Sums(g)
  <2> HIDE DEF Sums, count
  <2> QED BY <1>3
<1> HIDE DEF g, one
<1>5. \A T \in SUBSET S : g[T] = Step(g, T)
  BY <1>4
<1> DEFINE Bad == {T \in SUBSET S : g[T] # count[T]}
<1>6. ASSUME Bad # {} PROVE FALSE
  <2>1. Bad \subseteq FiniteSubsetsOf(S)
    BY FS_Subset DEF FiniteSubsetsOf
  <2>2. PICK T \in Bad : \A U \in Bad : ~(<<U, T>> \in StrictSubsetOrdering(S))
    <3> HIDE DEF Bad
    <3> QED BY <1>6, <2>1, FS_StrictSubsetOrderingWellFounded, WFMin
  <2>3. T # {}
    BY <1>2, <1>5
  <2>4. one(T) \in T
    BY <2>3 DEF one
  <2>5. T \ {one(T)} \in SUBSET S /\ <<T \ {one(T)}, T>> \in StrictSubsetOrdering(S)
    BY <2>4 DEF StrictSubsetOrdering
  <2>6. g[T \ {one(T)}] = count[T \ {one(T)}]
    BY <2>2, <2>5
  <2>7. g[T] = count[T]
    BY <1>2, <1>5, <2>3, <2>6
  <2> QED BY <2>2, <2>7
<1> HIDE DEF count
<1>7. g[S] = count[S]
  BY <1>6
<1> QED BY <1>1, <1>7 DEF count

LEMMA SumType ==
  ASSUME NEW S, IsFiniteSet(S), NEW f, \A x \in S : f[x] \in Nat
  PROVE  Bytes(S, f) \in Nat
BY SumIsCount, SlotsFinite, FS_CardinalityType

LEMMA SumOfNone == ASSUME NEW f PROVE Bytes({}, f) = 0
<1>1. Slots({}, f) = {}
  BY DEF Slots
<1> QED BY <1>1, SumIsCount, FS_EmptySet

LEMMA SumOfOneMore ==
  ASSUME NEW S, IsFiniteSet(S), NEW x, x \notin S,
         NEW f, \A y \in S \cup {x} : f[y] \in Nat
  PROVE  Bytes(S \cup {x}, f) = Bytes(S, f) + f[x]
<1>1. IsFiniteSet(S \cup {x}) /\ IsFiniteSet(Slots(S, f))
  BY FS_AddElement, SlotsFinite
<1>2. f[x] \in Nat /\ Bytes(S, f) \in Nat
  BY SumType
<1>3. /\ Bytes(S, f) = Cardinality(Slots(S, f))
      /\ Bytes(S \cup {x}, f) = Cardinality(Slots(S \cup {x}, f))
  BY <1>1, SumIsCount
<1>4. Cardinality(Slots(S \cup {x}, f)) = f[x] + Cardinality(Slots(S, f))
  BY <1>1, SlotsOfOneMore
<1> QED BY <1>2, <1>3, <1>4

LEMMA SumOfUnion ==
  ASSUME NEW S, IsFiniteSet(S), NEW T, IsFiniteSet(T), S \cap T = {},
         NEW f, \A x \in S \cup T : f[x] \in Nat
  PROVE  Bytes(S \cup T, f) = Bytes(S, f) + Bytes(T, f)
<1>1. IsFiniteSet(S \cup T)
  BY FS_Union
<1>2. IsFiniteSet(Slots(S, f)) /\ IsFiniteSet(Slots(T, f))
  BY SlotsFinite
<1>3. Slots(S \cup T, f) = Slots(S, f) \cup Slots(T, f)
  BY DEF Slots
<1>4. Slots(S, f) \cap Slots(T, f) = {}
  BY DEF Slots
<1>5. Cardinality(Slots(S, f) \cup Slots(T, f))
        = Cardinality(Slots(S, f)) + Cardinality(Slots(T, f)) - Cardinality({})
  BY <1>2, <1>4, FS_Union
<1>6. /\ Bytes(S, f) = Cardinality(Slots(S, f))
      /\ Bytes(T, f) = Cardinality(Slots(T, f))
      /\ Bytes(S \cup T, f) = Cardinality(Slots(S, f) \cup Slots(T, f))
  BY <1>1, <1>3, SumIsCount
<1>7. Bytes(S, f) \in Nat /\ Bytes(T, f) \in Nat /\ Cardinality({}) = 0
  BY SumType, FS_EmptySet
<1> QED BY <1>5, <1>6, <1>7

LEMMA SumOfSubset ==
  ASSUME NEW T, IsFiniteSet(T), NEW S, S \subseteq T,
         NEW f, \A x \in T : f[x] \in Nat
  PROVE  /\ Bytes(S, f) =< Bytes(T, f)
         /\ Bytes(T \ S, f) = Bytes(T, f) - Bytes(S, f)
<1>1. IsFiniteSet(S) /\ IsFiniteSet(T \ S)
  BY FS_Subset
<1>2. Bytes(S \cup (T \ S), f) = Bytes(S, f) + Bytes(T \ S, f)
  BY <1>1, SumOfUnion
<1>3. Bytes(T, f) = Bytes(S \cup (T \ S), f)
  <2>1. S \cup (T \ S) = T
    OBVIOUS
  <2> QED BY <2>1
<1>4. Bytes(S, f) \in Nat /\ Bytes(T \ S, f) \in Nat
  BY <1>1, SumType
<1> QED BY <1>2, <1>3, <1>4

\* The sum looks at what the size say of the refs it adds up.
LEMMA SumOfSame ==
  ASSUME NEW S, IsFiniteSet(S), NEW f, NEW g,
         \A x \in S : f[x] \in Nat /\ g[x] = f[x]
  PROVE  Bytes(S, f) = Bytes(S, g)
<1>1. Slots(S, f) = Slots(S, g)
  BY DEF Slots
<1> QED BY <1>1, SumIsCount

\* Of some refs in an order of use, one has none before it.
LEMMA OldestExists ==
  ASSUME NEW R, IsFiniteSet(R), R # {}, NEW before,
         \A r \in R : <<r, r>> \notin before,
         \A r, q, p \in R : <<r, q>> \in before /\ <<q, p>> \in before => <<r, p>> \in before
  PROVE  \E r \in R : \A q \in R : <<q, r>> \notin before
<1> DEFINE Down(r) == {q \in R : <<q, r>> \in before}
           Downs == {Down(r) : r \in R}
<1>1. Downs # {} /\ Downs \subseteq FiniteSubsetsOf(R)
  <2>1. \A r \in R : Down(r) \in SUBSET R
    OBVIOUS
  <2>2. \A T \in SUBSET R : T \in FiniteSubsetsOf(R)
    BY FS_Subset DEF FiniteSubsetsOf
  <2> HIDE DEF Down
  <2> QED BY <2>1, <2>2
<1>2. PICK D \in Downs : \A U \in Downs : ~(<<U, D>> \in StrictSubsetOrdering(R))
  <2> HIDE DEF Downs
  <2> QED BY <1>1, FS_StrictSubsetOrderingWellFounded, WFMin
<1>3. PICK r \in R : D = Down(r)
  BY <1>2
<1>4. ASSUME NEW q \in R, <<q, r>> \in before PROVE FALSE
  <2>1. Down(q) \subseteq Down(r) /\ q \in Down(r) /\ q \notin Down(q)
    BY <1>4
  <2>2. Down(q) \in SUBSET R /\ Down(r) \in SUBSET R /\ Down(q) # Down(r)
    BY <2>1
  <2>3. <<Down(q), Down(r)>> \in StrictSubsetOrdering(R)
    <3> HIDE DEF Down
    <3> QED BY <2>1, <2>2 DEF StrictSubsetOrdering
  <2>4. Down(q) \in Downs
    OBVIOUS
  <2> QED BY <1>2, <1>3, <2>3, <2>4
<1> QED BY <1>4

-----------------------------------------------------------------------------
(* The order and the trimming                                              *)

\* A strict order of some items.
Orders(older, items) ==
  /\ older \subseteq items \X items
  /\ \A x \in items : <<x, x>> \notin older
  /\ \A x, y, z \in items : <<x, y>> \in older /\ <<y, z>> \in older => <<x, z>> \in older

LEMMA AmongOrders ==
  ASSUME NEW items, NEW older, Orders(older, items), NEW kept, kept \subseteq items
  PROVE  Orders(Among(kept, older), kept)
BY DEF Orders, Among

\* Whether or not it was one of them, the item is the last of them now.
LEMMA PromotedOrders ==
  ASSUME NEW items, NEW older, Orders(older, items), NEW kept, kept \subseteq items, NEW x
  PROVE  Orders(Promoted(x, kept, older), kept \cup {x})
<1> DEFINE others == kept \ {x}
           now == Promoted(x, kept, older)
<1>1. now = {pair \in older : pair[1] \in others /\ pair[2] \in others} \cup (others \X {x})
  BY DEF Promoted, Among
<1>2. others \subseteq items /\ x \notin others /\ kept \cup {x} = others \cup {x}
  OBVIOUS
<1> HIDE DEF others, now
<1>3. now \subseteq (others \cup {x}) \X (others \cup {x})
  BY <1>1, <1>2 DEF Orders
<1>4. \A y \in others \cup {x} : <<y, y>> \notin now
  BY <1>1, <1>2 DEF Orders
<1>5. \A y, z, w \in others \cup {x} : <<y, z>> \in now /\ <<z, w>> \in now => <<y, w>> \in now
  BY <1>1, <1>2 DEF Orders
<1>6. Orders(now, others \cup {x})
  BY <1>3, <1>4, <1>5 DEF Orders
<1> QED BY <1>2, <1>6 DEF now

\* What is trimmed brings the total within the budget, unless nothing is left.
LEMMA TrimmedFacts ==
  ASSUME NEW all, NEW older, Orders(older, all), NEW items, items \subseteq all, IsFiniteSet(items),
         NEW size, \A x \in items : size[x] \in Nat,
         NEW total \in Int, NEW max \in Int
  PROVE  LET gone == Trimmed(items, total, max, size, older)
         IN /\ gone \subseteq items
            /\ Bytes(gone, size) \in Nat
            /\ total - Bytes(gone, size) <= max \/ gone = items
<1> DEFINE gone == Trimmed(items, total, max, size, older)
           rest == items \ gone
<1>1. gone \subseteq items /\ IsFiniteSet(gone) /\ IsFiniteSet(rest)
  BY FS_Subset DEF Trimmed
<1>2. Bytes(gone, size) \in Nat
  <2> HIDE DEF gone
  <2> QED BY <1>1, SumType
<1>3. ASSUME rest # {} PROVE total - Bytes(gone, size) <= max
  <2>1. PICK x \in rest : \A y \in rest : <<y, x>> \notin older
    <3>1. \A y \in rest : <<y, y>> \notin older
      BY DEF Orders
    <3>2. \A y, z, w \in rest : <<y, z>> \in older /\ <<z, w>> \in older => <<y, w>> \in older
      BY DEF Orders
    <3> HIDE DEF rest
    <3> QED BY <1>1, <1>3, <3>1, <3>2, OldestExists
  <2> DEFINE before == Before(x, items, older)
  <2>2. before \subseteq gone
    BY <2>1 DEF Before
  <2>3. ~(total - Bytes(before, size) > max)
    BY <2>1 DEF Trimmed
  <2>4. IsFiniteSet(before) /\ before \subseteq items
    BY <1>1, <2>2, FS_Subset
  <2> HIDE DEF before, gone
  <2>5. Bytes(before, size) =< Bytes(gone, size)
    BY <1>1, <2>2, SumOfSubset
  <2>6. Bytes(before, size) \in Nat
    BY <2>4, SumType
  <2> QED BY <1>2, <2>3, <2>5, <2>6
<1>4. gone = items \/ rest # {}
  BY <1>1
<1> HIDE DEF gone, rest
<1>5. total - Bytes(gone, size) <= max \/ gone = items
  BY <1>3, <1>4
<1> QED BY <1>1, <1>2, <1>5 DEF gone
=============================================================================
