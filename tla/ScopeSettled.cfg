SPECIFICATION Spec
CONSTANTS
  here = here
  there = there
  onlyHere = onlyHere
  onlyThere = onlyThere
  shared = shared
  Scope = {here, there}
  Nowhere = Nowhere
  NoKey = NoKey
  NoFile = NoFile
  Alert = {onlyHere, onlyThere, shared}
  Covers <- MCCovers
  Streaming = TRUE
  MaxMoves = 3
  MaxRestarts = 1
INVARIANTS LastResolvedAnswersLast
PROPERTIES SettledScopeLeaves SettledDropoutRetained
