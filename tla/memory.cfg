SPECIFICATION Spec
CONSTANTS
  o1 = o1
  o2 = o2
  k1 = k1
  s1 = s1
  s2 = s2
  Owners = {o1, o2}
  Keys = {k1}
  Scopes = {s1, s2}
  Messages <- MCMessages
  TextOf <- MCTextOf
  SubjectsOf <- MCSubjectsOf
  Batches <- MCBatches
  MaxAppends = 3
  Queries <- MCQueries
  Overlap <- MCOverlap
  RecallLimit = 2
SYMMETRY Symmetry
INVARIANTS
  DenseSequence
  OneAnswerPerKey
  KeyStoredOnce
  NewestContradicted
  RecallIsBest
CHECK_DEADLOCK FALSE
