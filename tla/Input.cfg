SPECIFICATION Spec
CONSTANTS
  Parts = {"keyboard", "native", "sdl", "tables"}
  Slop = 5
  DragThreshold = 4
  Interval = 1
  MaxSerial = 3
  MaxPresses = 2
  MaxEvents = 2
  NativeSetups <- AllNative
  SdlSetups <- AllSdl
  MaxContexts = 2
  MaxDepth = 1
  MaxWheel = 2
  PhysicalKeys <- TwoKeys
  Shift = "shift"
  Keys <- TwoNames
  Unknown = "KEY_UNKNOWN"
  Used <- FourSlots
  Relayouts = TRUE
  KeyboardSetups <- SteadySetups
INVARIANTS TypeOK HeldKeysAreHeld PointerIsAsked
PROPERTIES RepeatNeverFires ReleaseFollowsPress GesturesAreMeant
CHECK_DEADLOCK FALSE
