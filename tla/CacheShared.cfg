SPECIFICATION FairSpec
CONSTANTS
  Caller = {c1, c2}
  Url = {"document", "other", "large"}
  Nobody = Nobody
  Revalidated = {"document"}
  Validating = {"document", "other"}
  Size <- MCSize
  MaxBytes = 2
INVARIANTS BudgetKept FetchShared WithdrawalSeen
PROPERTIES WarningKept EveryCallEnds
