---------------------------- MODULE MCGeometryStore ----------------------------
(***************************************************************************)
(* An instance of GeometryStore for TLC: a small and a large shape, of     *)
(* which the budget takes two small ones, or one large one alone.          *)
(***************************************************************************)
EXTENDS GeometryStore

SmallAndLarge == [shape \in Shape |-> IF shape = "large" THEN 3 ELSE 1]
=============================================================================
