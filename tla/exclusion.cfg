SPECIFICATION Spec
CONSTANTS
  w1 = w1
  w2 = w2
  a0 = a0
  a1 = a1
  a2 = a2
  Way = {w1, w2}
  Addr = {a0, a1, a2}
  Addr0 = a0
  WaysOf <- MCWaysOf
  Length = {0, 2, 4}
  Words <- MixedWords
  MinGap = 2
INVARIANTS
  TypeOK
  OneOperation
  AtomFollowsOwner
PROPERTIES
  AcceptedStarts
  SetupStable
  ImplementsSequencer
