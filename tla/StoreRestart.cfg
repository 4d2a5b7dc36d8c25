SPECIFICATION FairSpec
CONSTANTS
  Id <- MCId
  Identifier <- MCIdentifier
  NoIdentifier = NoIdentifier
  Sender <- MCSender
  AbsenceEnds = {"withdraws"}
  HasExit = {"retains"}
  Severity <- MCSeverity
  Text = {"t"}
  NoText = NoText
  Never = Never
  Absent = Absent
  Published <- RestartChain
  Superseding = {{}}
  TombstoneIdleTTL = 1
  ChainResolved = FALSE
  MaxBatch = 1
  MaxTime = 1
  MaxRestarts = 1
INVARIANTS StoreConsistent GraceIsTwoFetches OldEndingsStaySilent
PROPERTIES BootPendingResolves StaleResolves
