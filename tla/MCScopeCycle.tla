---------------------------- MODULE MCScopeCycle ----------------------------
(* Two scopes that share one alert and have one each of their own. *)
EXTENDS ScopeCycle, TLC

CONSTANTS here, there, onlyHere, onlyThere, shared

MCCovers == (here :> {onlyHere, shared}) @@ (there :> {onlyThere, shared})
=============================================================================
