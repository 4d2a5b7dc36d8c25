SPECIFICATION FlowSpec
CONSTANTS
  Provider = {"nws", "gdacs", "meteoalarm", "wmo"}
  Flow = {f}
  EntryId = {e, d}
  New = New
  Place = {"a,b", "b,a", "nowhere"}
  Parts <- ZonesOf
  Everywhere = "everywhere"
  Base = {"base", "retired"}
  NoBase = "no_base"
  Served = {"a,b", "b,a", "base"}
  Legacy <- TwinData
INVARIANTS ScopesApart CommitsServed
