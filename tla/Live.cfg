SPECIFICATION Spec
CONSTANTS
  Tabs = {t1}
  MaxClients = 1
  Depth = 1
  MaxMoves = 3
  StateAt <- MCStateAt
INVARIANTS
  Ownership
PROPERTIES
  ShownNeverGoesBack
  Converges
  StaleFormDisabled
  StreamsEnd
