CONSTANTS
  Caller = {c1, c2, c3}
  PoolSize = 3
  Width = 4
  NoSession = NoSession
SPECIFICATION SessionSpec
INVARIANTS GuardsAreInUse
PROPERTIES SessionsAreLent QuietPoolDrains
