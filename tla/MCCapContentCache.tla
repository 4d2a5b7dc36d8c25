-------------------------- MODULE MCCapContentCache --------------------------
(***************************************************************************)
(* Instances of CapContentCache for TLC: a BBK document that is            *)
(* revalidated, a body of another source, and a large one whose insert     *)
(* evicts both.                                                            *)
(***************************************************************************)
EXTENDS CapContentCache

MCSize == [url \in Url |-> IF url = "large" THEN 2 ELSE 1]
=============================================================================
