SPECIFICATION FairSpec
CONSTANTS
  Pools = {p1, p2, p3}
  NoPool = NoPool
  SlotCount = 2
  Callbacks = {c1, c2}
  NoCallback = NoCallback
  NoSlot = NoSlot
  MaxEvents = 3
INVARIANTS
  TypeOK
  OneFrameInFlight
  SlotsSurviveResizes
PROPERTIES
  ImplementsFrames
  FramesKeepComing
