SPECIFICATION FairSpec
CONSTANTS
  SlotCount = 2
  NoSlot = NoSlot
  Sizes = {small, large}
  MaxSerial = 2
INVARIANTS
  TypeOK
  NotAllStuck
PROPERTIES
  ImplementsFrames
  OnlyLosingPresentStrands
  WaitEndsWithItsFrame
  FramesKeepComing
