----------------------------- MODULE MCEpisodes -----------------------------
(* Every feed of three messages of one dialect for one hazard and region,   *)
(* with windows of at most three hours over seven hours, at two clocks; TLC *)
(* evaluates the assumptions below at the start of the run that extends     *)
(* this module.  What Episodes states with quantifiers is compared with the *)
(* loops of _calendar_day_runs and _contiguous_window_runs.                 *)
EXTENDS Episodes

Windows == {w \in (0..5) \X (1..7) : w[2] > w[1] /\ w[2] =< w[1] + 2}
MessageAt(s, w, severity, place) ==
  [sender |-> s, hazard |-> CHOOSE h \in Hazards : TRUE, regions |-> Regions,
   onset |-> w[1], expires |-> w[2], sent |-> 0, severity |-> severity, pos |-> place]

Feeds == {{MessageAt(s, v, 1, 1), MessageAt(s, w, i, 2), MessageAt(s, x, 2, 3)} :
            s \in {"meteofrance", "fmi"}, i \in 1..2, v, w, x \in Windows}
Clocks == {0, 2}

KeyOf(M) == GroupKey(CHOOSE m \in M : TRUE)
LiveOf(M, now) == Group(M, {}, KeyOf(M), now)
MembersOf(M, now) == Members(KeyOf(M)[1], LiveOf(M, now))
Runs(M, now) == LET R == MembersOf(M, now) IN
                {<<b, Run(KeyOf(M)[1], R, b)>> : b \in Starts(KeyOf(M)[1], R)}

\* The runs are the loops' runs, and begin with the same messages.
ASSUME RunsAreTheLoops ==
  \A M \in Feeds, now \in Clocks : Runs(M, now) = RunsLoop(KeyOf(M)[1], MembersOf(M, now))

\* No live warning goes unshown: an episode as severe covers its day, or its
\* whole window where windows are kept apart.
ASSUME WarningsCovered ==
  \A M \in Feeds, now \in Clocks : \A m \in LiveOf(M, now) :
    \E e \in MergeEpisodes(M, {}, now) :
      /\ e.severity >= m.severity
      /\ m.sender = "fmi" => e.onset =< m.onset /\ e.expires >= m.expires
      /\ Day(e) =< Day(m)

\* Nor does an episode claim more than its messages say.
ASSUME EpisodesGrounded ==
  \A M \in Feeds, now \in Clocks : \A e \in MergeEpisodes(M, {}, now) :
    /\ \E m \in LiveOf(M, now) : m.severity = e.severity
    /\ \E m \in LiveOf(M, now) : m.onset = e.onset
    /\ \E m \in LiveOf(M, now) : m.expires = e.expires
=============================================================================
