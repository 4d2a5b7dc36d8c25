SPECIFICATION PollsSpec
CONSTANTS
  a = a
  b = b
  Alerts <- MCAlerts
  Inside <- MCInside
  Lifetime <- MCLifetime
  Wavering = {a}
  Slot <- MCSlot
  Setups <- MCSetups
  Revisions = 2
  DefaultLife = 1
  Lookback = 1
  Interval = 1
  StandIn = 2
  Streak = 2
  Infos <- MCInfos
  Languages = {1, 2}
  Keys = {"near", "far"}
  Hazards = {"wind"}
  Regions = {"here"}
  DayLength = 2
INVARIANTS CancellationsFindable
PROPERTIES FailuresTakeNothing OverLeaves
