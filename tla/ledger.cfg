SPECIFICATION LedgerSpec
CONSTANTS
  o1 = o1
  o2 = o2
  r1 = r1
  r2 = r2
  r3 = r3
  Owners <- MCOwners
  Components <- MCComponents
  ReservationIds <- MCReservationIds
  PriceLists <- MCPriceLists
  InitialCredits = 4
  Grace = 1
  MaxClock = 2
SYMMETRY Symmetry
INVARIANTS
  Solvent
  Conserved
  ChargesBacked
PROPERTIES
  SettledForever
  ImplementsAccount
