SPECIFICATION LatchSpec
CONSTANTS
  w1 = w1
  w2 = w2
  b0 = b0
  b1 = b1
  b2 = b2
  b3 = b3
  b4 = b4
  b5 = b5
  Way = {w1, w2}
  Byte = {b0, b1, b2, b3, b4, b5}
  Zero = b0
  Asks <- MCAsks
PROPERTIES
  ImplementsPort
