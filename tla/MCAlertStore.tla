---------------------------- MODULE MCAlertStore ----------------------------
(***************************************************************************)
(* Instances of AlertStore for TLC.  The published records are a revision  *)
(* chain: the alert `a' under identifier i1, its successor `b' under i2    *)
(* that references i1.                                                     *)
(***************************************************************************)
EXTENDS AlertStoreLoop

R(id, identifier, references, status, expires, severity) ==
  [id |-> id, identifier |-> identifier, references |-> references,
   sender |-> "retains", status |-> status, expires |-> expires,
   severity |-> severity, text |-> "t"]

MCId == {"a", "b"}
MCIdentifier == {"i1", "i2"}
MCSender == {"retains", "withdraws"}
MCSeverity == {"minor", "severe"}

\* a live, ended by the clock or by a revision of its own; b live and ended.
Chain ==
  {R("a", "i1", {}, "new", 1, "minor"),
   R("a", "i2", {"i1"}, "cancel", 2, "minor"),
   R("b", "i2", {"i1"}, "update", Never, "minor"),
   R("b", "i2", {"i1"}, "cancel", Never, "minor")}

\* Across a restart: a, which expires at 1, beside b, which its sender
\* withdraws by leaving it out, or ends in a revision that supersedes a.
RestartChain ==
  {R("a", "i1", {}, "new", 1, "minor"),
   R("b", "i2", {"i1"}, "cancel", Never, "minor"),
   [R("b", "i2", {}, "new", Never, "severe") EXCEPT !.sender = "withdraws"]}

\* An ended revision, and the successor that goes live again before it ends.
Revived ==
  {R("a", "i1", {}, "cancel", 2, "minor"),
   R("b", "i2", {"i1"}, "update", Never, "minor"),
   R("b", "i2", {"i1"}, "cancel", Never, "minor")}
=============================================================================
