SPECIFICATION Spec
CONSTANTS
  Parts = {"shared", "lifetime", "state", "surface", "loop", "services"}
  Managers = {m1, m2}
  Windows = {w1, w2}
  Sizes = {1, 2}
  Asked = 1
  Periods = {1}
  QueueBound = 2
  SharedSetups <- SeveralManagers
  Objects = {o1, o2}
  Connections = {1, 2}
  LifetimeSetups <- NativeManagers
  NativeBackends = {"wayland", "x11"}
  ConfigureBound = 3
  Surfaces = {1, 2, 3}
  SurfaceExtents = {0, 1, 2}
  Attempts = 6
  StablePolls = 2
  Places = {0, 2}
  Extents = {2, 4}
  Edge = 2
  Rates = {2, 3}
  Second = 6
  MaxSpent = 4
  DisplayBound = 2
  LoopSetups <- PacedLoops
  Worlds <- Machines
  Blocks = {1, 2}
INVARIANTS TypeOK ResourcesAreLive StateFollowsServer LoopIsPaced BackendRuns
SYMMETRY Alike
CHECK_DEADLOCK FALSE
