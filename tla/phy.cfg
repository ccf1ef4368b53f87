SPECIFICATION Spec
CONSTANTS
  BufferLength = 32
  WriteSize = 4
  Drivers = {"serial", "rp2040", "simulator"}
  Own = 2
  Peer = 1
  Slave = 7
  Replies <- AllReplies
  Noise = {22, 104, 229}
  SlotTime = 12
  MaxPollGap = 3
  MaxNoise = 1
  MaxLost = 1
INVARIANTS
  InOrder
  SendsWhole
PROPERTIES
  NothingForged
  NoCollision
  TokenComesAgain
