------------------------------ MODULE MCTriggers ------------------------------
(***************************************************************************)
(* An instance of Triggers for TLC: onsets at two instants.                *)
(***************************************************************************)
EXTENDS Triggers

Distinct == {"noon", "one"}
Instants == [onset \in Onset |-> IF onset = "one" THEN 2 ELSE 1]
=============================================================================
