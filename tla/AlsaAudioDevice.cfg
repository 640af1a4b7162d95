SPECIFICATION FairSpec
CONSTANTS
  Threads = {main, other}
  Driver = main
  MaxStores = 2
  Writers = {w1, w2}
  NoWriter = NoWriter
  Periods = {1, 2}
INVARIANTS
  TypeOK
  QuietWhenNotRunning
  ControlOwnsDevice
  BlockFits
  SlotIsUsedAsAsked
PROPERTIES
  CallsReturn
