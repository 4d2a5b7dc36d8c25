SPECIFICATION Spec
CONSTANTS
  Id <- MCId
  Identifier <- MCIdentifier
  NoIdentifier = NoIdentifier
  Sender <- MCSender
  AbsenceEnds = {"withdraws"}
  HasExit = {"retains"}
  Severity <- MCSeverity
  Text = {"t"}
  NoText = NoText
  Never = Never
  Absent = Absent
  Published <- Revived
  Superseding = {{}}
  TombstoneIdleTTL = 2
  ChainResolved = TRUE
  MaxBatch = 2
  MaxTime = 3
  MaxRestarts = 0
PROPERTIES NoSilentEnding
