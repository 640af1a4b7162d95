SPECIFICATION Spec
CONSTANTS
  PhysicalKeys <- MCPhysicalKeys
  Shift = "shift"
  Keys <- DvorakKeys
  Unknown = "KEY_UNKNOWN"
  Setups <- DvorakSetups
  MaxContexts = 2
  Used <- MCUsed
  MaxDepth = 1
  Relayouts = FALSE
  MaxEvents = 2
INVARIANT
  NoKeyStuck
