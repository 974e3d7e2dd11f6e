SPECIFICATION SinkSpec
CONSTANTS
  Opens = {1}
  MaxRecords = 4
  MaxKills = 0
CHECK_DEADLOCK FALSE
INVARIANT EveryLineLoaded
