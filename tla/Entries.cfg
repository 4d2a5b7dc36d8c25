SPECIFICATION LifeFairSpec
CONSTANTS
  Entry = {e}
  Scope = {"ontario", "quebec", "world"}
  Gone = "gone"
  Eccc = {"ontario", "quebec"}
  Interval = {"default", "slow"}
  DefaultInterval = "default"
INVARIANTS RunsConfigured CardsTellConfig
PROPERTIES UpdatesArrive
