--------------------------- MODULE AlertStoreLoop ---------------------------
(***************************************************************************)
(* AlertStore.process as store.py writes it: one pass over the batch that  *)
(* reads and writes the tombstone maps in place, then one pass over the    *)
(* alerts that are missing from it, then the boot grace.  It is the        *)
(* reference AlertStore's closed forms are checked against.                *)
(***************************************************************************)
EXTENDS AlertStore

Prune(seen) == [k \in DOMAIN seen |->
  IF seen[k] # Absent /\ seen[k] > now - TombstoneIdleTTL THEN seen[k] ELSE Absent]

\* What the method's local and instance variables hold between two turns: the
\* two tombstone maps, the records of the batch so far, the ids seen and the
\* events fired.
LoopStart ==
  [ids |-> Prune(tombstones), identifiers |-> Prune(tombstonedIdentifiers),
   active |-> [id \in Id |-> Absent], seen |-> restored,
   fired |-> [id \in Id |-> NoEvent]]

\* _tombstone
Tombstone(s, id, identifier) ==
  [s EXCEPT !.ids[id] = now,
            !.identifiers = IF identifier = NoIdentifier THEN @
                            ELSE [@ EXCEPT ![identifier] = now]]

Fire(s, id, event) == [s EXCEPT !.fired[id] = event]

Keep(s, a) == [s EXCEPT !.active[a.id] = EntryOf(a)]

Revive(s, a) ==
  [s EXCEPT !.ids[a.id] = Absent,
            !.identifiers = [r \in Identifier |->
                               IF r \in a.references THEN Absent ELSE @[r]]]

TerminalTurn(s, a) ==
  LET prev == previous[a.id]
      ended == Tombstone(s, a.id, a.identifier)
  IN IF \/ s.ids[a.id] # Absent
        \/ \E r \in a.references : s.identifiers[r] # Absent
        \/ booting /\ prev = Absent /\ a.id \notin knownAtBoot
     THEN ended
     ELSE Fire(ended, a.id, "removed")

LiveTurn(s, a) ==
  LET prev == previous[a.id]
      fields == IF a.id \in s.seen THEN RestoredDiffFields ELSE ChangedFieldsAllowlist
      changed == {f \in fields : prev[f] # EntryOf(a)[f]}
      revived == Keep(Revive(s, a), a)
  IN IF prev = Absent
     THEN IF SupersededBy(a) # {}
          THEN Fire([revived EXCEPT !.seen = @ \ {Superseded(a)}], a.id, "updated")
          ELSE IF a.id \in knownAtBoot THEN revived
          ELSE Fire(revived, a.id, "created")
     ELSE IF changed = {} THEN [revived EXCEPT !.seen = @ \ {a.id}]
          ELSE Fire([revived EXCEPT !.seen = @ \ {a.id}], a.id, "updated")

Turn(s, a) == IF Terminal(a) THEN TerminalTurn(s, a) ELSE LiveTurn(s, a)

AbsenceTurn(s, id, batch, scopeChanged, superseded) ==
  LET prev == previous[id] IN
    IF id \in Incoming(batch) \/ prev.identifier \in Referenced(batch, superseded) THEN s
    ELSE IF ~scopeChanged /\ RetainOnAbsence(prev)
    THEN [s EXCEPT !.active[id] = [prev EXCEPT !.stale = TRUE]]
    ELSE Fire(Tombstone(s, id, prev.identifier), id, "removed")

BootTurn(s, id) == Fire([s EXCEPT !.ids[id] = now], id, "removed")

\* Some order of a finite set: the absence and boot passes do not depend on it.
Enumeration(S) ==
  CHOOSE e \in [1 .. Cardinality(S) -> S] : {e[i] : i \in DOMAIN e} = S

\* One turn for each record of the batch, in its order.
BatchPass(batch) ==
  LET turns[i \in 0 .. Len(batch)] ==
        IF i = 0 THEN LoopStart ELSE Turn(turns[i - 1], batch[i])
  IN turns[Len(batch)]

\* One turn for each alert of the last reconciliation.
AbsencePass(s, order, batch, scopeChanged, superseded) ==
  LET turns[i \in 0 .. Len(order)] ==
        IF i = 0 THEN s
        ELSE AbsenceTurn(turns[i - 1], order[i], batch, scopeChanged, superseded)
  IN turns[Len(order)]

\* One turn for each id the boot grace has run out for.
BootPass(s, order) ==
  LET turns[i \in 0 .. Len(order)] ==
        IF i = 0 THEN s ELSE BootTurn(turns[i - 1], order[i])
  IN turns[Len(order)]

Loop(batch, scopeChanged, superseded, fetched) ==
  LET met == AbsencePass(BatchPass(batch), Enumeration(Tracked),
                         batch, scopeChanged, superseded)
  IN BootPass(met, Enumeration(EndedAtBoot(batch, fetched)))

\* In every reachable state and for every batch, in any order of its records,
\* the closed forms AlertStore takes its next state from are what the loop of
\* store.py computes turn by turn.
LoopAgrees ==
  \A batch \in Batches, scopeChanged, fetched \in BOOLEAN, superseded \in Superseding :
    LET s == Loop(batch, scopeChanged, superseded, fetched) IN
      /\ s.fired = Decision(batch, scopeChanged, superseded, fetched)
      /\ s.ids = NextTombstones(batch, scopeChanged, superseded, fetched)
      /\ s.identifiers = NextTombstonedIdentifiers(batch, scopeChanged, superseded)
      /\ s.active = NextPrevious(batch, scopeChanged, superseded)
      /\ s.seen \cap {id \in Id : s.active[id] # Absent}
           = restored \cap Retained(batch, scopeChanged, superseded)
=============================================================================
