SPECIFICATION Spec
CONSTANTS
  m1 = m1
  m2 = m2
  m3 = m3
  s1 = s1
  s2 = s2
  c1 = c1
  None = None
  Messages <- MCMessages
  Sessions <- MCSessions
  SessionOf <- MCSessionOf
  ChatOf <- MCChatOf
  PlatformOf <- MCPlatformOf
  Kind <- MCKind
  TextOf <- MCTextOf
CHECK_DEADLOCK FALSE
INVARIANT StampFromOwnThread
