------------------------------- MODULE MCWindows -------------------------------
(***************************************************************************)
(* The windows of the four backends, the frame loop over them, and what    *)
(* decides which of them can run, in one run: a behaviour is one of        *)
(* SharedWindows, WindowLifetime, WindowState, SdlSurface, FrameLoop or    *)
(* Services. The .cfg files choose the parts and the setups of each.       *)
(***************************************************************************)
EXTENDS Naturals, Sequences, TLC

CONSTANTS
  Parts,
  Managers, Windows, Sizes, Asked, Periods, QueueBound, SharedSetups,
  Objects, Connections, LifetimeSetups,
  NativeBackends, ConfigureBound,
  Surfaces, SurfaceExtents, Attempts, StablePolls,
  Places, Extents, Edge, Rates, Second, MaxSpent, DisplayBound, LoopSetups,
  Worlds, Blocks

(***************************************************************************)
(* Values for the constants.                                               *)
(***************************************************************************)
Shared(library, api, several, uses) ==
  [library |-> library, api |-> api, several |-> several, uses |-> uses]
SeveralManagers ==
  {Shared("sdl", "gl", FALSE, {"focused", "size", "closing", "text"}),
   Shared("sdl", "cpu", TRUE, {"audio"}), Shared("sdl", "vulkan", TRUE, {"cursor"}),
   Shared("glfw", "gl", TRUE, {"focused", "size"}), Shared("glfw", "gl", TRUE, {"minimized", "maximized"})}
TwoSdlWindows == {Shared("sdl", "cpu", TRUE, {"focused"})}
VulkanBesideAudio == {Shared("sdl", "vulkan", TRUE, {"audio"})}

\* The managers of an application, and the windows of a library, are alike.
Alike == Permutations(Managers) \cup Permutations(Windows) \cup Permutations(Objects)

Native(backend, api, missing, nested) ==
  [backend |-> backend, api |-> api, missing |-> missing, nested |-> nested]
NativeManagers ==
  {Native("wayland", "gl", {}, FALSE), Native("x11", "gl", {}, FALSE), Native("x11", "cpu", {}, FALSE),
   Native("wayland", "cpu", {"seat", "keyboard", "pointer", "decorations", "decoration"}, FALSE)}
DestroyingCallbacks == {Native("wayland", "cpu", {}, TRUE), Native("x11", "cpu", {}, TRUE)}

Loop(backend, api, targetFPS, waits, known, growing) ==
  [backend |-> backend, api |-> api, vsync |-> TRUE, targetFPS |-> targetFPS, waits |-> waits,
   known |-> known, growing |-> growing]
PacedLoops ==
  {Loop("x11", "cpu", 0, TRUE, TRUE, FALSE), Loop("x11", "cpu", 0, FALSE, FALSE, FALSE),
   Loop("sdl", "cpu", 0, FALSE, TRUE, FALSE), Loop("sdl", "gl", 2, FALSE, TRUE, FALSE)}
GrowingWindows == {Loop("x11", "cpu", 0, TRUE, TRUE, TRUE)}

\* Machines with every combination of the native libraries and servers; of servers that answer among
\* those that are named; of EGL's and GLX's libraries and the compositor's decorations; of the sound
\* devices.
Files ==
  [l \in {"wayland-client", "X11", "Xext", "GLX", "GL", "EGL", "wayland-egl"} |-> "whole"]
Machine(compiled, files, servers, decorations, plugin, audio, sound, asks) ==
  [compiled |-> compiled, sonames |-> files, named |-> servers, servers |-> servers,
   decorations |-> decorations, plugin |-> plugin, audio |-> audio, sound |-> sound, asks |-> asks]
Found == {"missing", "partial", "whole"}
Machines ==
  {Machine(c, [Files EXCEPT !["wayland-client"] = w, !["X11"] = x], s, FALSE, FALSE, {}, {}, {"wayland", "x11"}) :
     c \in SUBSET {"sdl", "wayland", "x11", "glfw"}, w \in Found, x \in Found, s \in SUBSET {"wayland", "x11"}}
  \cup {[Machine(c, Files, n, FALSE, FALSE, {}, {}, {"wayland", "x11"}) EXCEPT !.servers = n \cap s] :
          c \in SUBSET {"sdl", "wayland", "x11", "glfw"}, n \in SUBSET {"wayland", "x11"}, s \in SUBSET {"wayland", "x11"}}
  \cup {Machine({"glfw"}, [Files EXCEPT !["EGL"] = w, !["wayland-egl"] = x, !["GLX"] = w, !["GL"] = x],
                {"wayland"}, d, p, {}, {}, {"wayland", "egl", "glx", "shm"}) :
          w \in Found, x \in Found, d \in BOOLEAN, p \in BOOLEAN}
  \cup {Machine({}, Files, {}, FALSE, FALSE, a, o, {"audio"}) : a \in SUBSET {"alsa", "sdl"}, o \in SUBSET {"alsa", "sdl"}}

(***************************************************************************)
(* The six modules, over variables that several of them have.              *)
(***************************************************************************)
VARIABLES
  part,
  setup, device, sent, events, last,
  library, managers, windows, queue, polled,
  objects, alive, user, call, dispatching,
  window, pending, floating, taken, server,
  native, cached, lost, used, wait, steady,
  display, changed, waits, rate, timer, phase,
  world, memo, slots, selected, frame, block

H == INSTANCE SharedWindowsProofs WITH Setups <- SharedSetups, MaxEvents <- QueueBound
L == INSTANCE WindowLifetime WITH Setups <- LifetimeSetups
W == INSTANCE WindowState WITH Backends <- NativeBackends, MaxEvents <- ConfigureBound
U == INSTANCE SdlSurface WITH Extents <- SurfaceExtents
F == INSTANCE FrameLoop WITH Setups <- LoopSetups, MaxEvents <- DisplayBound
V == INSTANCE Services

ASSUME SharedAssumption ==
  H!ManagersAssumption /\ H!WindowsAssumption /\ H!SizesAssumption /\ H!SetupsAssumption /\ H!QueueAssumption
ASSUME LifetimeAssumption == L!ConnectionsAssumption /\ L!SetupsAssumption
ASSUME StateAssumption == W!SizesAssumption
ASSUME SurfaceAssumption == U!SurfacesAssumption /\ U!CountsAssumption
ASSUME LoopAssumption == F!SetupsAssumption /\ F!PlacesAssumption /\ F!TicksAssumption /\ F!RatesAssumption
ASSUME ServicesAssumption == V!BlocksAssumption /\ V!WorldsAssumption
ASSUME PartsAssumption == Parts \subseteq {"shared", "lifetime", "state", "surface", "loop", "services"}

onlyH == <<library, managers, windows, queue, polled>>
onlyL == <<objects, alive, user, call, dispatching>>
onlyW == <<window, pending, floating, taken, server>>
onlyU == <<native, cached, lost, used, wait, steady>>
onlyF == <<display, changed, waits, rate, timer, phase>>
onlyV == <<world, memo, slots, selected, frame, block>>

\* A variable that is not of the part is 0.
NoH == library = 0 /\ managers = 0 /\ windows = 0 /\ queue = 0 /\ polled = 0
NoL == objects = 0 /\ alive = 0 /\ user = 0 /\ call = 0 /\ dispatching = 0
NoW == window = 0 /\ pending = 0 /\ floating = 0 /\ taken = 0 /\ server = 0
NoU == native = 0 /\ cached = 0 /\ lost = 0 /\ used = 0 /\ wait = 0 /\ steady = 0
NoF == display = 0 /\ changed = 0 /\ waits = 0 /\ rate = 0 /\ timer = 0 /\ phase = 0
NoV == world = 0 /\ memo = 0 /\ slots = 0 /\ selected = 0 /\ frame = 0 /\ block = 0

Init ==
  /\ part \in Parts
  /\ \/ part = "shared" /\ H!Init /\ NoL /\ NoW /\ NoU /\ NoF /\ NoV /\ sent = 0 /\ events = 0 /\ last = 0
     \/ part = "lifetime" /\ L!Init /\ NoH /\ NoW /\ NoU /\ NoF /\ NoV /\ device = 0 /\ sent = 0 /\ events = 0 /\ last = 0
     \/ part = "state" /\ W!Init /\ NoH /\ NoL /\ NoU /\ NoF /\ NoV /\ device = 0 /\ last = 0
     \/ part = "surface" /\ U!Init /\ NoH /\ NoL /\ NoW /\ NoF /\ NoV /\ setup = 0 /\ device = 0 /\ sent = 0 /\ events = 0
     \/ part = "loop" /\ F!Init /\ NoH /\ NoL /\ NoW /\ NoU /\ NoV /\ device = 0
     \/ part = "services" /\ V!Init /\ NoH /\ NoL /\ NoW /\ NoU /\ NoF /\ setup = 0 /\ sent = 0 /\ events = 0 /\ last = 0

Next ==
  /\ UNCHANGED part
  /\ \/ part = "shared" /\ H!Next /\ UNCHANGED <<onlyL, onlyW, onlyU, onlyF, onlyV, sent, events, last>>
     \/ part = "lifetime" /\ L!Next /\ UNCHANGED <<onlyH, onlyW, onlyU, onlyF, onlyV, device, sent, events, last>>
     \/ part = "state" /\ W!Next /\ UNCHANGED <<onlyH, onlyL, onlyU, onlyF, onlyV, device, last>>
     \/ part = "surface" /\ U!Next /\ UNCHANGED <<onlyH, onlyL, onlyW, onlyF, onlyV, setup, device, sent, events>>
     \/ part = "loop" /\ F!Next /\ UNCHANGED <<onlyH, onlyL, onlyW, onlyU, onlyV, device>>
     \/ part = "services" /\ V!Next /\ UNCHANGED <<onlyH, onlyL, onlyW, onlyU, onlyF, setup, sent, events, last>>

vars == <<part, setup, device, sent, events, last, onlyH, onlyL, onlyW, onlyU, onlyF, onlyV>>

Spec == Init /\ [][Next]_vars

(***************************************************************************)
(* Properties.                                                             *)
(***************************************************************************)
\* The type invariants of the six modules.
TypeOK ==
  /\ part = "shared" => H!TypeOK
  /\ part = "lifetime" => L!TypeOK
  /\ part = "state" => W!TypeOK
  /\ part = "surface" => U!TypeOK
  /\ part = "loop" => F!TypeOK
  /\ part = "services" => V!TypeOK

\* What the managers and the audio device hold exists, nothing is held under what it needs, nothing
\* is left behind, and events reach the object that holds the window, through constructors and
\* createWindow() that throw, moves, destroy() and deletes (SharedWindows, WindowLifetime).
ResourcesAreLive ==
  /\ part = "shared" => H!LibraryFollowsOwners /\ H!CallbacksReachHolder /\ H!DeviceIsLive
  /\ part = "lifetime" => L!HandlesAreLive /\ L!EventsReachHolder

\* What a window says of itself is what the display server, the library or the system decided last
\* (SharedWindows, WindowState, SdlSurface).
StateFollowsServer ==
  /\ part = "shared" => H!StateFollowsWindow
  /\ part = "state" => W!StateFollowsServer
  /\ part = "surface" => U!SurfaceIsCurrent

\* A window without a rate of its own is paced by its display (FrameLoop).
LoopIsPaced == part = "loop" => F!LoopIsPaced

\* The backend chosen runs on this machine if the servers its environment names answer, and the
\* libraries and the device that are chosen do (Services).
BackendRuns == part = "services" => V!BackendRuns

\* The backend that is chosen runs where one does, whatever the environment names (Services; violated).
SelectedRuns == part = "services" => V!SelectedRuns

\* Each of two SDL windows says of itself what is so once it has polled (SharedWindows; violated).
EveryWindowIsFollowed == part = "shared" => H!EveryWindowIsFollowed

\* "A device coexists with an SdlWindowManager without either tearing the other's subsystem down. The
\* one ordering constraint is at shutdown" (SDLAudioDevice.hpp, lines 28-30), also beside a Vulkan
\* manager whose constructor throws (SharedWindows; violated).
DeviceCoexists == part = "shared" => H!DeviceIsLive

\* A callback may destroy the window that called it (WindowLifetime; violated).
DispatchSurvives == part = "lifetime" => L!DispatchSurvives

=============================================================================
