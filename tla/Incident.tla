------------------------------ MODULE Incident ------------------------------
(***************************************************************************)
(* What the store promises a bus consumer about one alert id: the life of  *)
(* an incident and the event each step of it fires.  It is the abstract    *)
(* specification that AlertStore is shown to implement, id by id.          *)
(*                                                                         *)
(*   unknown  nothing is remembered under this id                          *)
(*   held     Home Assistant kept an entity for it across a restart        *)
(*   live     it is in the tracked set                                     *)
(*   ended    its ending has been announced, or recognised as old news     *)
(***************************************************************************)
EXTENDS Naturals

VARIABLES status, event, boots

vars == <<status, event, boots>>

Init == status = "unknown" /\ event = "none" /\ boots = 0

\* A first sighting is news; a successor of a tracked alert is an update.
Appear ==
  /\ status \in {"unknown", "ended"}
  /\ status' = "live"
  /\ event' \in {"created", "updated"}

\* A sighting of an alert the registry knew is a re-validation.
Revalidate ==
  /\ status = "held"
  /\ status' = "live"
  /\ event' \in {"none", "updated"}

Change ==
  /\ status = "live"
  /\ status' = "live"
  /\ event' \in {"none", "updated"}

\* The one removal of an ending; never a second one while it is remembered.
End ==
  /\ status \in {"live", "held", "unknown"}
  /\ status' = "ended"
  /\ event' = "removed"

\* The ending is one that was announced before, under this id or another.  The
\* store can recognise it in an alert that is still tracked, too: README,
\* "Findings", says when.
Recognise ==
  /\ status' = "ended"
  /\ event' = "none"

\* A successor took over a tracked alert, which leaves without a removal.
Replaced ==
  /\ status = "live"
  /\ status' = "unknown"
  /\ event' = "none"

Forget ==
  /\ status = "ended"
  /\ status' = "unknown"
  /\ event' = "none"

Idle == status' = status /\ event' = "none"

\* The store's memory is gone; the registry and the restore file are not.
Reboot ==
  /\ boots' = boots + 1
  /\ status' \in {"unknown", "held", "live"}
  /\ event' = "none"

Step ==
  \/ Appear \/ Revalidate \/ Change \/ End
  \/ Recognise \/ Replaced \/ Forget \/ Idle

Next == (Step /\ UNCHANGED boots) \/ Reboot

Spec == Init /\ [][Next]_vars
=============================================================================
