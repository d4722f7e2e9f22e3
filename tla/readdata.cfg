SPECIFICATION FairSpec
CONSTANTS
  p = p
  q = q
  f = f
  ok = ok
  busy = busy
  Datum = {p, q, f, ok, busy}
  Scripts <- ReadOrders
  FlagDelays = {0, 2, 5}
  Depth = 4
  MinGap = 12
INVARIANTS
  ReadTypeOK
  ReadIntact
  StatusCaught
PROPERTIES
  ReadsArrive
