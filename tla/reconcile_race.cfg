SPECIFICATION RaceSpec
CONSTANTS
  o1 = o1
  r1 = r1
  r2 = r2
  Owners = {o1}
  Components = {"turn-taking"}
  ReservationIds = {r1, r2}
  PriceLists <- MCPriceLists
  InitialCredits = 2
  Grace = 0
  MaxClock = 1
PROPERTIES
  ReleasedNeverCharged
CHECK_DEADLOCK FALSE
