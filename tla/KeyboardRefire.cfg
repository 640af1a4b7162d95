SPECIFICATION Spec
CONSTANTS
  PhysicalKeys <- MCPhysicalKeys
  Shift = "shift"
  Keys <- MCKeys
  Unknown = "KEY_UNKNOWN"
  Setups <- SteadySetups
  MaxContexts = 2
  Used <- MCUsed
  MaxDepth = 1
  Relayouts = FALSE
  MaxEvents = 2
PROPERTY
  AutoRepeatNeverFires
