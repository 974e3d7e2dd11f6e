SPECIFICATION Spec
CONSTANTS
  g1 = g1
  g2 = g2
  s1 = s1
  s2 = s2
  s3 = s3
  c1 = c1
  c2 = c2
  Groups = {g1}
  Sockets = {s1, s2}
  ChannelOf <- MCChannelOf
  MaxBubbles = 1
  MaxCrashes = 1
  MaxActors = 3
  CommitFails = FALSE
INVARIANTS
  TailReplayed
CHECK_DEADLOCK FALSE
