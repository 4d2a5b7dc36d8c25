SPECIFICATION Spec
CONSTANTS
  Entry = {e, f}
  NoEntry = NoEntry
  AlertId = {a, b}
  Shape = {"small", "large"}
  NoShape = NoShape
  Size <- SmallAndLarge
  MaxBytes = 2
INVARIANTS BudgetKept StoreMatchesEntities
