SPECIFICATION Spec
CONSTANTS
  Flows = {"f1", "f2", "f3"}
  MaxRestarts = 1
  MaxEdits = 2
  MaxBoots = 3
  CardSessions = {"a", "b"}
  CardTexts = {"card1", "card2"}
  REFRESH_EVERY = 2
  MaxTurns = 2
  MaxReloads = 1
  AlertKinds = {"auth", "ws"}
  Digests = {"d1", "d2"}
  MaxStarts = 3
  MaxSweeps = 3
  Submits = {"x1", "x2"}
  ShadowThreads = {"t1", "t2"}
  MaxProxyStarts = 2
  Opens = {1, 3}
  MaxRecords = 4
  MaxKills = 2
  MaxParagraphs = 7
  Words = {0, 1, 3}
  Pacings <- MCPacings
CHECK_DEADLOCK FALSE
INVARIANTS
  OneLink
  AutoOnce
  CardsSound
  OperatorTold
  MirroredInStep
  SinkFaithful
  ReplyWhole
PROPERTIES
  CoreRecorded
