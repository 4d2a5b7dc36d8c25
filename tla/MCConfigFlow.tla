----------------------------- MODULE MCConfigFlow ------------------------------
(***************************************************************************)
(* An instance of ConfigFlow for TLC: two zones in both orders, a place    *)
(* and a base that no provider publishes, and twins of before the key.     *)
(***************************************************************************)
EXTENDS ConfigFlow

ZonesOf ==
  [place \in Place \cup {Everywhere} |->
     CASE place = Everywhere -> {} [] place = "nowhere" -> {"nowhere"} [] OTHER -> {"a", "b"}]

TwinData == {Data("nws", NoBase, Checked("zone"), "a,b")}
=============================================================================
