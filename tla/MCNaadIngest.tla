---------------------------- MODULE MCNaadIngest ----------------------------
(***************************************************************************)
(* Instances of NaadIngest for TLC: an alert of the region, the revision   *)
(* that moves off it, and an unrelated document.                           *)
(***************************************************************************)
EXTENDS NaadIngest

MCRefs == [d \in 1 .. N |-> IF d = 2 THEN {1} ELSE {}]
=============================================================================
