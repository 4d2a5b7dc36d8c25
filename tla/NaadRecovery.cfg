SPECIFICATION FairSpec
CONSTANTS
  N = 2
  Refs <- MCRefs
  InRegion = {1}
  Actual = {1, 2}
  Indexed = {1}
  Window = 2
  Attempts = 2
  MaxWire = 1
  MaxDrops = 1
  MaxRestarts = 1
INVARIANTS AppliesCurrent RepositoryBounded
PROPERTIES NoResurrection GapCloses
