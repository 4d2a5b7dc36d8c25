-------------------------------- MODULE ByteLRU --------------------------------
(***************************************************************************)
(* What the two byte-bounded caches have in common: an OrderedDict kept in *)
(* the order of use, and trimmed from its least recently used end.  The    *)
(* order is the set of the pairs of which the first was used less recently.*)
(***************************************************************************)
EXTENDS Integers, FiniteSets, FiniteSetsExt

\* The bytes some items take together.
Bytes(items, size) == MapThenSumSet(LAMBDA x : size[x], items)

\* The order without the items that are not among those; and with one that
\* becomes the last of it (move_to_end, a new key).
Among(items, older) == {pair \in older : pair[1] \in items /\ pair[2] \in items}
Promoted(x, items, older) == Among(items \ {x}, older) \cup ((items \ {x}) \X {x})

\* Those of the items that were used less recently than one of them.
Before(x, items, older) == {y \in items : <<y, x>> \in older}

\* popitem(last=False) while the total is over the budget: an item goes if the
\* total still is without all those that go before it.
Trimmed(items, total, max, size, older) ==
  {x \in items : total - Bytes(Before(x, items, older), size) > max}
=============================================================================
