SPECIFICATION Spec
CONSTANTS
  FifoDepth = 16
  AxiPeriod = 5
  SysPeriod = 6
  Values = {1, 2}
INVARIANTS
  RegisterTypeOK
  NeverFull
  WordsArrive
  PollTruth
  DescriptorsRight
PROPERTIES
  CallsReturn
