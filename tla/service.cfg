SPECIFICATION FairSysSpec
CONSTANTS
  w1 = w1
  w2 = w2
  a0 = a0
  a1 = a1
  a2 = a2
  a3 = a3
  Way = {w1, w2}
  Addr = {a0, a1, a2, a3}
  Addr0 = a0
  WaysOf <- MCWaysOf
  Length = {0, 2, 4}
  Words <- MCWords
  MinGap = 2
  WayAddr <- MCWayAddr
  Row = a3
  Param = 2
  Page = 4
  Requests = {"ReadPage", "ReadParameter", "ProgramPage", "EraseBlock", "TestConsistent", "TestWriteSpeed", "TestReadSpeed"}
  PollPeriod = 4
INVARIANTS
  NeverRefused
  BusyChipLeftAlone
  StatusTellsTruth
PROPERTIES
  RequestsEnd
