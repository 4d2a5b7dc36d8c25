----------------------------- MODULE GeometryStore -----------------------------
(***************************************************************************)
(* The polygons of the alerts (geometry_store.py): one LRU for all config  *)
(* entries, with a byte budget for each; what a reconciliation puts in and *)
(* purges (async_apply); and the cards that read a ref off an entity and   *)
(* ask for it later (views.py, websocket.py).                              *)
(*                                                                         *)
(* A reconciliation is split into one step per alert to keep the choice of *)
(* the batch small; nothing runs in between, for no await of it suspends.  *)
(***************************************************************************)
EXTENDS ByteLRU

CONSTANTS
  Entry, NoEntry,
  AlertId,
  Shape, NoShape,
  Size,       \* the serialized size of a shape
  MaxBytes    \* the budget of one entry

ASSUME EntryAssumption == NoEntry \notin Entry
ASSUME ShapeAssumption == NoShape \notin Shape /\ Size \in [Shape -> Nat \ {0}]
ASSUME BudgetAssumption == MaxBytes \in Nat

VARIABLES
  older,      \* _entries: the pairs of stored refs of which the first was used
              \* less recently
  content,    \* _entries: the shape stored under each
  bytes,      \* _owner_bytes
  applying,   \* the entry whose reconciliation runs
  listed,     \* its batch so far: what became of each alert
  published,  \* what the entity of each alert renders, by entry
  loaded,     \* the entries that have reconciled since they were set up
  card        \* a ref a card has read off an entity, and the shape it was
              \* served for it, if it has been

stored == <<older, content, bytes>>
vars == <<stored, applying, listed, published, loaded, card>>

\* The hash segment, one per shape.
Digest(shape) == shape

RefOf(e, a, shape) == [entry |-> e, alert |-> a, digest |-> Digest(shape)]
NoRef == [entry |-> NoEntry, alert |-> "none", digest |-> "none"]
Ref == {RefOf(e, a, shape) : e \in Entry, a \in AlertId, shape \in Shape}

\* What a listed alert publishes, one retained from an earlier batch, or none.
Nothing == [ref |-> NoRef, retained |-> FALSE]
Observed(ref) == [ref |-> ref, retained |-> FALSE]

Owned(e) == {ref \in DOMAIN content : ref.entry = e}

\* The bytes that refs take, by the shape of each.
BytesOf(refs, shapes) == Bytes(refs, [ref \in refs |-> Size[shapes[ref]]])

-----------------------------------------------------------------------------
(* The store                                                               *)

\* Mutant: the bytes of the shape that is replaced are not taken off.
RefilledSize(ref, shape) == bytes[ref.entry] + Size[shape]

\* The owner's bytes once the ref holds the shape (_drop, _put).
FilledSize(ref, shape) ==
  bytes[ref.entry] + Size[shape]
    - (IF ref \in DOMAIN content THEN Size[content[ref]] ELSE 0)

\* The owner's refs but the one just written, and of those the ones that go for
\* it to keep the budget.
Evictable(ref) == Owned(ref.entry) \ {ref}
Evicted(ref, shape) ==
  Trimmed(Evictable(ref), FilledSize(ref, shape), MaxBytes,
          [r \in Evictable(ref) |-> Size[content[r]]], older)

\* put_content
Store(ref, shape) ==
  LET gone == Evicted(ref, shape)
      kept == DOMAIN content \ (gone \cup {ref})
  IN /\ older' = Promoted(ref, kept, older)
     /\ content' = [r \in kept \cup {ref} |-> IF r = ref THEN shape ELSE content[r]]
     /\ bytes' = [bytes EXCEPT ![ref.entry] =
                    FilledSize(ref, shape) - BytesOf(gone, content)]

Drop(refs) ==
  /\ older' = Among(DOMAIN content \ refs, older)
  /\ content' = [r \in DOMAIN content \ refs |-> content[r]]
  /\ bytes' = [e \in Entry |-> bytes[e] - BytesOf(refs \cap Owned(e), content)]

\* Mutant: the purge takes every entry's refs.
PurgesAll(e) == DOMAIN content

\* purge_missing looks at the refs under the entry's prefix only.
Purges(e) == Owned(e)

-----------------------------------------------------------------------------
(* A reconciliation                                                        *)

Pending == [ref |-> NoRef, retained |-> TRUE]

Apply(e) ==
  /\ applying = NoEntry
  /\ applying' = e
  /\ listed' = [a \in AlertId |-> Pending]
  /\ UNCHANGED <<stored, published, loaded, card>>

\* The next alert of the batch, live and with a polygon.
Externalize(a, shape) ==
  LET ref == RefOf(applying, a, shape)
  IN /\ applying # NoEntry /\ listed[a] = Pending
     /\ Store(ref, shape)
     /\ listed' = [listed EXCEPT ![a] = Observed(ref)]
     /\ UNCHANGED <<applying, published, loaded, card>>

\* An alert that has ended, or that has no polygon, puts nothing in.
Skip(a) ==
  /\ applying # NoEntry /\ listed[a] = Pending
  /\ listed' = [listed EXCEPT ![a] = Nothing]
  /\ UNCHANGED <<stored, applying, published, loaded, card>>

\* The refs the batch named are kept, the entry's others purged; then the
\* store keeps what it retains, with the ref it had.
Reconcile(retains) ==
  LET e == applying
      active == {listed[a].ref : a \in AlertId} \ {NoRef}
      missing == {a \in AlertId : listed[a] = Pending}
  IN /\ e # NoEntry
     /\ retains \subseteq {a \in missing : published[e][a] # Nothing}
     /\ Drop(Purges(e) \ active)
     /\ published' = [published EXCEPT ![e] = [a \in AlertId |->
          IF a \in retains THEN [published[e][a] EXCEPT !.retained = TRUE]
          ELSE IF a \in missing THEN Nothing ELSE listed[a]]]
     /\ loaded' = loaded \cup {e}
     /\ applying' = NoEntry
     /\ listed' = [a \in AlertId |-> Pending]
     /\ UNCHANGED <<card>>

\* An entry is unloaded or deleted: its entities go, its polygons stay.
Unload(e) ==
  /\ applying = NoEntry /\ e \in loaded
  /\ loaded' = loaded \ {e}
  /\ published' = [published EXCEPT ![e] = [a \in AlertId |-> Nothing]]
  /\ UNCHANGED <<stored, applying, listed, card>>

\* Home Assistant restarts: nothing of the store is kept, the cards are.
Restart ==
  /\ applying = NoEntry /\ loaded # {}
  /\ older' = {} /\ content' = <<>> /\ bytes' = [e \in Entry |-> 0]
  /\ loaded' = {}
  /\ published' = [e \in Entry |-> [a \in AlertId |-> Nothing]]
  /\ UNCHANGED <<applying, listed, card>>

-----------------------------------------------------------------------------
(* The cards                                                               *)

\* A card reads the ref an entity renders.
ReadState(e, a) ==
  /\ applying = NoEntry
  /\ published[e][a].ref \notin {NoRef, card.ref}
  /\ card' = [ref |-> published[e][a].ref, shape |-> NoShape]
  /\ UNCHANGED <<stored, applying, listed, published, loaded>>

\* What the view and the command answer with.
Served(ref) == content[ref]

\* It asks for the ref: get promotes what it finds, or the answer is 404.
Ask ==
  /\ applying = NoEntry
  /\ card.ref \in DOMAIN content
  /\ older' = Promoted(card.ref, DOMAIN content, older)
  /\ card' = IF card.shape = NoShape THEN [card EXCEPT !.shape = Served(card.ref)] ELSE card
  /\ UNCHANGED <<content, bytes, applying, listed, published, loaded>>

Init ==
  /\ older = {} /\ content = <<>> /\ bytes = [e \in Entry |-> 0]
  /\ applying = NoEntry
  /\ listed = [a \in AlertId |-> Pending]
  /\ published = [e \in Entry |-> [a \in AlertId |-> Nothing]]
  /\ loaded = {}
  /\ card = [ref |-> NoRef, shape |-> NoShape]

Next ==
  \/ \E e \in Entry : Apply(e)
  \/ \E a \in AlertId, shape \in Shape : Externalize(a, shape)
  \/ \E a \in AlertId : Skip(a)
  \/ \E retains \in SUBSET AlertId : Reconcile(retains)
  \/ \E e \in Entry : Unload(e)
  \/ Restart
  \/ \E e \in Entry, a \in AlertId : ReadState(e, a)
  \/ Ask

Spec == Init /\ [][Next]_vars

-----------------------------------------------------------------------------
(* Properties                                                              *)

Rendering == [ref : Ref \cup {NoRef}, retained : BOOLEAN]

TypeOK ==
  /\ older \subseteq Ref \X Ref
  /\ DOMAIN content \subseteq Ref /\ content \in [DOMAIN content -> Shape]
  /\ bytes \in [Entry -> Int]
  /\ applying \in Entry \cup {NoEntry}
  /\ listed \in [AlertId -> Rendering]
  /\ published \in [Entry -> [AlertId -> Rendering]]
  /\ loaded \subseteq Entry
  /\ card \in [ref : Ref \cup {NoRef}, shape : Shape \cup {NoShape}]

\* Through replacements, evictions, purges and reads, the bytes charged to an
\* entry are those of what it has stored, and they keep its budget but for a
\* single polygon that is over it alone (_put, _drop, _evict_owner_to_cap).
BudgetKept ==
  \A e \in Entry :
    /\ bytes[e] = BytesOf(Owned(e), content)
    /\ bytes[e] <= MaxBytes \/ Cardinality(Owned(e)) = 1

\* "A caller holding the returned ref may treat it as immutable": what a card
\* was once served under a ref is what the store has under it at any later
\* time, after purges, evictions, reloads and restarts too (put_content).
RefImmutable ==
  card.shape # NoShape /\ card.ref \in DOMAIN content => content[card.ref] = card.shape

\* The shape that each ref was put in for.
Drawn == [ref \in Ref |-> CHOOSE shape \in Shape : Digest(shape) = ref.digest]
ObservedRefs(e) ==
  {published[e][a].ref : a \in {b \in AlertId : ~published[e][b].retained}} \ {NoRef}

\* Between reconciliations an entry's store holds refs of alerts its last batch
\* listed and no others; and all of them, if together they keep the budget,
\* whatever its siblings store, purge or evict (async_apply).
StoreMatchesEntities ==
  applying = NoEntry =>
    \A e \in loaded :
      /\ Owned(e) \subseteq ObservedRefs(e)
      /\ BytesOf(ObservedRefs(e), Drawn) <= MaxBytes => Owned(e) = ObservedRefs(e)
=============================================================================
