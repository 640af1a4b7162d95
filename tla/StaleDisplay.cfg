SPECIFICATION Spec
CONSTANTS
  Parts = {"services"}
  Managers = {1, 2}
  Windows = {1, 2}
  Sizes = {1, 2}
  Asked = 1
  Periods = {1}
  QueueBound = 1
  SharedSetups <- SeveralManagers
  Objects = {1, 2}
  Connections = {1, 2}
  LifetimeSetups <- NativeManagers
  NativeBackends = {"wayland", "x11"}
  ConfigureBound = 3
  Surfaces = {1, 2, 3}
  SurfaceExtents = {0, 1, 2}
  Attempts = 6
  StablePolls = 2
  Places = {0, 2}
  Extents = {2, 4}
  Edge = 2
  Rates = {2, 3}
  Second = 6
  MaxSpent = 4
  DisplayBound = 2
  LoopSetups <- GrowingWindows
  Worlds <- Machines
  Blocks = {1, 2}
INVARIANT SelectedRuns
CHECK_DEADLOCK FALSE
