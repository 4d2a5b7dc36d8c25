SPECIFICATION Spec
CONSTANTS
  Id <- MCId
  Identifier <- MCIdentifier
  NoIdentifier = NoIdentifier
  Sender <- MCSender
  AbsenceEnds = {"withdraws"}
  HasExit = {"retains"}
  Severity <- MCSeverity
  Text = {"t"}
  NoText = NoText
  Never = Never
  Absent = Absent
  Published <- Chain
  Superseding = {{}}
  TombstoneIdleTTL = 2
  ChainResolved = FALSE
  MaxBatch = 2
  MaxTime = 3
  MaxRestarts = 0
INVARIANTS NoRepeatedEnding LoopAgrees
PROPERTIES ImplementsIncident
