SPECIFICATION Spec
CONSTANTS
  g1 = g1
  g2 = g2
  s1 = s1
  s2 = s2
  s3 = s3
  c1 = c1
  c2 = c2
  Groups = {g1, g2}
  Sockets = {s1, s2, s3}
  ChannelOf <- MCChannelOf
  MaxBubbles = 2
  MaxCrashes = 1
  MaxActors = 3
  CommitFails = TRUE
SYMMETRY Symmetry
INVARIANTS
  ViewsAreSegments
  NothingMissed
  RowsTellDelivery
PROPERTIES
  DeliveredOnce
CHECK_DEADLOCK FALSE
