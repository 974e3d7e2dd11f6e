SPECIFICATION Spec
CONSTANTS
  o1 = o1
  o2 = o2
  t1 = t1
  g1 = g1
  g2 = g2
  r1 = r1
  r2 = r2
  r3 = r3
  r4 = r4
  Owners <- MCOwners
  Components <- MCComponents
  ReservationIds <- MCReservationIds
  PriceLists <- MCPriceLists
  Threads <- MCThreads
  Groups <- MCGroups
  InitialCredits = 3
  Grace = 0
  MaxClock = 1
  MaxEpoch = 2
  Faults = {"crash", "operator", "pacing", "database"}
SYMMETRY Symmetry
INVARIANTS
  AnsweredMeansSettled
  NoForgottenReply
  ChargesEarned
PROPERTIES
  RepliesAreFresh
  ImplementsLedger
