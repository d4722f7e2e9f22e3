SPECIFICATION HostSpec
CONSTANTS
  RequestBytes = 4
  PacketBytes = 2
  EpBufs = 2
  RingSize = 10
  Void <- MCVoid
  Ops = {"ReadPage", "EraseBlock"}
  Images = {"raw"}
  MaxClicks = 2
  MaxConnects = 2
  MaxSetups = 2
  RecvAtLeast = 1
  Coding = {115200, 9600}
  DefaultCoding = 115200
CHECK_DEADLOCK FALSE
INVARIANTS
  EraseBoxTrue
