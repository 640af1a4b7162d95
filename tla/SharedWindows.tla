----------------------------- MODULE SharedWindows -----------------------------
(***************************************************************************)
(* The window managers that stand on a process-wide library, SDL3          *)
(* (SdlWindowManager.cpp, SDLKeyboardListener.cpp) and GLFW                *)
(* (GlfwWindowManager.cpp, GLFWKeyboardListener.cpp), and the audio device *)
(* that shares SDL with them (SDLAudioDevice.cpp).                         *)
(*                                                                         *)
(* The library is initialised by the first manager and shut down by the    *)
(* last one. Managers are constructed, moved, destroyed and deleted by the *)
(* application, in any order; any of the calls that can fail may fail.     *)
(* Changes of a window come as events: SDL has one queue, which the        *)
(* manager that polls drains; GLFW calls back whoever the window's user    *)
(* pointer names.                                                          *)
(***************************************************************************)
EXTENDS Naturals, FiniteSets, Sequences, FiniteSetsExt

CONSTANTS
  Managers,   \* the manager objects of the application
  Windows,    \* the windows of the library
  Sizes,
  Asked,      \* the size in the WindowDetails the application asks for
  Setups,     \* the library, the graphics API, and what the application uses of them
  Periods,    \* the device's period sizes, and the requests of SDL's audio thread
  MaxEvents   \* bound on the events of the library nobody has polled yet

None == 0

\* What happens in a setup, beside the managers' lifetime: changes of the windows, by kind, and the
\* parts of the interface the application uses.
Uses == {"focused", "minimized", "maximized", "size", "closing", "audio", "text", "cursor"}

ManagersAssumption == IsFiniteSet(Managers) /\ None \notin Managers
WindowsAssumption == None \notin Windows
SizesAssumption == Asked \in Sizes
SetupsAssumption ==
  Setups \subseteq [library : {"sdl", "glfw"}, api : {"gl", "vulkan", "cpu"},
                    several : BOOLEAN, uses : SUBSET Uses]

QueueAssumption == MaxEvents \in Nat /\ Periods \subseteq Nat

VARIABLES
  setup,    \* which library, which API
  library,  \* whether it is up, g_sdlRefCount or g_glfwRefCount, and what it counts itself
  managers, \* the manager objects
  windows,  \* the windows as the library and the display server have them
  queue,    \* the library's events
  polled,   \* history: managers that have polled since the last change of a window
  device    \* SDLAudioDevice, and SDL's stream

vars == <<setup, library, managers, windows, queue, polled, device>>

Closed == [open |-> FALSE, user |-> None, focused |-> FALSE, minimized |-> FALSE, size |-> Asked,
           maximized |-> FALSE, text |-> FALSE, closing |-> FALSE]

\* A manager object as its constructor leaves it, before initializeSDL()/initializeGLFW().
Constructed ==
  [state |-> "live", window |-> None, listener |-> None, owns |-> FALSE, context |-> FALSE, cursors |-> FALSE,
   focused |-> FALSE, minimized |-> FALSE, maximized |-> FALSE, size |-> Asked, resized |-> FALSE, shown |-> Asked,
   text |-> FALSE, dismissed |-> FALSE, closing |-> FALSE]
Absent == [Constructed EXCEPT !.state = "absent"]

NoDevice == [stream |-> FALSE, owns |-> FALSE, running |-> FALSE, mix |-> FALSE, scratch |-> 0, block |-> 0,
             alive |-> FALSE]

Init ==
  /\ setup \in Setups
  /\ library = [up |-> FALSE, refs |-> 0, vulkan |-> 0, audio |-> 0]
  /\ managers = [x \in Managers |-> Absent]
  /\ windows = [w \in Windows |-> Closed]
  /\ queue = <<>>
  /\ polled = {}
  /\ device = NoDevice

Sdl == setup.library = "sdl"
Live(x) == managers[x].state = "live"
Window(x) == managers[x].window

\* SDL_Quit(), glfwTerminate(): every window, and for SDL every subsystem, whoever uses it.
Down == [up |-> FALSE, refs |-> 0, vulkan |-> 0, audio |-> 0]
QuitDevice(quits) == IF quits THEN [device EXCEPT !.alive = FALSE] ELSE device

(***************************************************************************)
(* The managers' lifetime.                                                 *)
(***************************************************************************)
Referenced == [library EXCEPT !.up = TRUE, !.refs = @ + 1]

\* SDL_Init() or glfwInit() fails: the reference is given back.
InitFails(x) ==
  /\ library.refs = 0
  /\ UNCHANGED <<library, managers, windows, queue, device>>

\* A plausible mistake: the constructor throws and keeps the reference.
KeepsReference(refs) == [library EXCEPT !.up = TRUE, !.refs = refs]

\* SDL_Vulkan_LoadLibrary() fails in the constructor, which gives the reference back and quits
\* SDL when it was the first one.
VulkanLeaves(refs) == IF refs = 1 THEN Down ELSE [library EXCEPT !.refs = refs - 1]
VulkanFails(x) ==
  /\ Sdl /\ setup.api = "vulkan"
  /\ library' = VulkanLeaves(library.refs + 1)
  /\ device' = QuitDevice(library.refs = 0)
  /\ UNCHANGED <<managers, windows, queue>>

Initialized(x) ==
  /\ library' = IF Sdl /\ setup.api = "vulkan" THEN [Referenced EXCEPT !.vulkan = @ + 1] ELSE Referenced
  /\ managers' = [managers EXCEPT ![x] = [Constructed EXCEPT !.owns = TRUE]]
  /\ UNCHANGED <<windows, queue, device>>

Construct(x) ==
  /\ managers[x].state = "absent"
  /\ setup.several \/ \A y \in Managers : managers[y].state = "absent"
  /\ InitFails(x) \/ VulkanFails(x) \/ Initialized(x)
  /\ UNCHANGED <<setup, polled>>

\* A window comes up at the size the platform gives it; under SDL no event says which.
NewWindow(x, size) == [Closed EXCEPT !.open = TRUE, !.size = size, !.user = IF Sdl THEN None ELSE x]

CreateWindow(x) ==
  /\ Live(x) /\ Window(x) = None /\ managers[x].owns
  /\ \E w \in {v \in Windows : ~windows[v].open}, size \in (IF Sdl THEN Sizes ELSE {Asked}) :
       /\ windows' = [windows EXCEPT ![w] = NewWindow(x, size)]
       /\ managers' = [managers EXCEPT ![x].window = w, ![x].listener = w,
                                       ![x].context = (Sdl /\ setup.api = "gl")]
  /\ polled' = polled \ {x}
  /\ UNCHANGED <<setup, library, queue, device>>

\* destroy(): cursors, context, window, and the reference; GLFW's listeners let go of the window.
Destroyed(manager) ==
  [manager EXCEPT !.closing = TRUE, !.cursors = FALSE, !.context = FALSE, !.window = None, !.owns = FALSE,
                  !.listener = IF Sdl THEN @ ELSE None, !.maximized = Sdl /\ @]

Quits(x) == managers[x].owns /\ library.refs = 1
WithoutReference(x) ==
  IF ~managers[x].owns THEN library
  ELSE IF Quits(x) THEN Down
  ELSE [library EXCEPT !.refs = @ - 1, !.vulkan = IF Sdl /\ setup.api = "vulkan" THEN @ - 1 ELSE @]

\* What destroy() does outside the manager. No window has the identifier of one that is gone. An
\* application closes its audio device before the last window goes, as SDLAudioDevice.hpp asks.
LetGo(x) ==
  /\ Quits(x) => ~device.stream
  /\ library' = WithoutReference(x)
  /\ queue' = IF Quits(x) THEN <<>>
              ELSE [i \in DOMAIN queue |-> IF queue[i].window = Window(x) THEN [queue[i] EXCEPT !.window = None]
                                         ELSE queue[i]]
  /\ device' = QuitDevice(Quits(x))

Without(x) == [w \in Windows |-> IF w = Window(x) \/ Quits(x) THEN Closed ELSE windows[w]]

Destroy(x) ==
  /\ Live(x)
  /\ LetGo(x)
  /\ windows' = Without(x)
  /\ managers' = [managers EXCEPT ![x] = Destroyed(@)]
  /\ UNCHANGED <<setup, polled>>

\* The destructor runs destroy(); the listeners' own destructors come after it.
Delete(x) ==
  /\ managers[x].state # "absent"
  /\ LetGo(x)
  /\ windows' = Without(x)
  /\ managers' = [managers EXCEPT ![x] = Absent]
  /\ polled' = polled \ {x}
  /\ UNCHANGED setup

\* What is left of a manager that was moved from.
MovedFrom(manager) ==
  [Absent EXCEPT !.state = "moved", !.size = manager.size, !.shown = manager.size, !.closing = manager.closing]

\* A plausible mistake: a move leaves the user pointer as it is.
NotRepointed(wins, x, y) == wins

\* userData_->windowManager = this: the callbacks of GLFW's window reach the new object.
Repointed(wins, x, y) == [w \in Windows |-> IF wins[w].user = x THEN [wins[w] EXCEPT !.user = y] ELSE wins[w]]

PolledAs(x, y) == (polled \ {x, y}) \cup (IF x \in polled THEN {y} ELSE {})

MoveConstruct(x, y) ==
  /\ Live(x) /\ managers[y].state = "absent"
  /\ managers' = [managers EXCEPT ![x] = MovedFrom(@), ![y] = managers[x]]
  /\ windows' = Repointed(windows, x, y)
  /\ polled' = PolledAs(x, y)
  /\ UNCHANGED <<setup, library, queue, device>>

MoveAssign(x, y) ==
  /\ x # y /\ Live(x) /\ managers[y].state # "absent"
  /\ LetGo(y)
  /\ managers' = [managers EXCEPT ![x] = MovedFrom(@), ![y] = managers[x]]
  /\ windows' = Repointed(Without(y), x, y)
  /\ polled' = PolledAs(x, y)
  /\ UNCHANGED setup

(***************************************************************************)
(* The windows' events.                                                    *)
(***************************************************************************)
Changes == {<<"focused", b>> : b \in BOOLEAN} \cup {<<"minimized", b>> : b \in BOOLEAN}
           \cup {<<"maximized", b>> : b \in BOOLEAN} \cup {<<"size", s>> : s \in Sizes} \cup {<<"closing", TRUE>>}

\* The user or the window system, on its own or because minimize(), maximize() or restore() asked.
Change(w) ==
  /\ windows[w].open /\ Len(queue) < MaxEvents
  /\ \E c \in Changes :
       /\ c[1] \in setup.uses /\ windows[w][c[1]] # c[2]
       /\ windows' = [windows EXCEPT ![w] = [@ EXCEPT ![c[1]] = c[2]]]
       /\ queue' = Append(queue, [window |-> w, kind |-> c[1], value |-> c[2]])
  /\ polled' = {}
  /\ UNCHANGED <<setup, library, managers, device>>

\* The on-screen keyboard is dismissed: no event says so.
DismissText(w) ==
  /\ windows[w].text
  /\ windows' = [windows EXCEPT ![w].text = FALSE]
  /\ polled' = {}
  /\ UNCHANGED <<setup, library, managers, queue, device>>

Resized(manager, size) == [manager EXCEPT !.size = size, !.resized = TRUE]

\* Who an event reaches: the manager that polls, or the one GLFW has for a window that it knows.
Receives(x, y, e) == IF Sdl THEN y = x ELSE e.window # None /\ windows[e.window].user = y
Told(x, y, kind) == {i \in DOMAIN queue : queue[i].kind = kind /\ Receives(x, y, queue[i])}

\* The events are handled in their order: what the last one of a kind says stays.
Latest(told, was) == IF told = {} THEN was ELSE queue[Max(told)].value

\* handleWindowEvent() and the callbacks GLFW calls. SDL's isMaximized() asks the window itself,
\* GLFW's shouldClose() too; SDL compares the window that is to close with its own.
Handled(x, y) ==
  [managers[y] EXCEPT
     !.size = Latest(Told(x, y, "size"), @), !.resized = @ \/ Told(x, y, "size") # {},
     !.focused = Latest(Told(x, y, "focused"), @), !.minimized = Latest(Told(x, y, "minimized"), @),
     !.maximized = IF Sdl THEN @ ELSE Latest(Told(x, y, "maximized"), @),
     !.closing = @ \/ (Sdl /\ \E i \in Told(x, y, "closing") : queue[i].window \in {Window(y)} \ {None})]
Dispatched(x) == [y \in Managers |-> Handled(x, y)]

\* takePlatformStop().
TextStopped(manager) ==
  IF Sdl /\ manager.listener # None /\ manager.text /\ ~windows[manager.listener].text
  THEN [manager EXCEPT !.text = FALSE, !.dismissed = TRUE] ELSE manager

\* syncSize().
SizeSynced(manager) ==
  IF Sdl /\ manager.window # None /\ windows[manager.window].size # manager.size
  THEN Resized(manager, windows[manager.window].size) ELSE manager

PollEvents(x) ==
  /\ Live(x)
  /\ managers' = [Dispatched(x) EXCEPT ![x] = SizeSynced(TextStopped(@))]
  /\ queue' = <<>>
  /\ polled' = IF Sdl THEN polled \cup {x} ELSE {y \in Managers : Live(y)}
  /\ UNCHANGED <<setup, library, windows, device>>

\* getWindowDetails(), and the application resizing what it draws into.
TakeResize(x) ==
  /\ Live(x)
  /\ LET synced == SizeSynced(managers[x]) IN
       /\ synced.resized
       /\ managers' = [managers EXCEPT ![x] = [synced EXCEPT !.resized = FALSE, !.shown = synced.size]]
  /\ UNCHANGED <<setup, library, windows, queue, polled, device>>

Close(x) ==
  /\ Live(x)
  /\ managers' = [managers EXCEPT ![x].closing = TRUE]
  /\ UNCHANGED <<setup, library, windows, queue, polled, device>>

SetCursor(x) ==
  /\ "cursor" \in setup.uses /\ Live(x) /\ Window(x) # None
  /\ managers' = [managers EXCEPT ![x].cursors = TRUE]
  /\ UNCHANGED <<setup, library, windows, queue, polled, device>>

SetTextInputEnabled(x, enabled) ==
  /\ "text" \in setup.uses /\ Live(x) /\ Window(x) # None
  /\ managers[x].text # enabled
  /\ managers' = [managers EXCEPT ![x].text = enabled]
  /\ windows' = IF Sdl THEN [windows EXCEPT ![Window(x)].text = enabled] ELSE windows
  /\ UNCHANGED <<setup, library, queue, polled, device>>

(***************************************************************************)
(* The audio device. SDL counts the subsystem's users itself.              *)
(***************************************************************************)
\* close(): the stream first, then the callback and the buffer it used.
DeviceClosed == [device EXCEPT !.stream = FALSE, !.alive = FALSE, !.running = FALSE, !.mix = FALSE, !.owns = FALSE,
                               !.scratch = 0, !.block = 0]
Unsubscribed == IF device.owns THEN [library EXCEPT !.audio = IF @ = 0 THEN 0 ELSE @ - 1] ELSE library

OpenDevice(period) ==
  /\ "audio" \in setup.uses
  /\ library' = [Unsubscribed EXCEPT !.audio = @ + 1]
  /\ device' = [DeviceClosed EXCEPT !.stream = TRUE, !.alive = TRUE, !.owns = TRUE, !.scratch = 4 * period]
  /\ UNCHANGED <<setup, managers, windows, queue, polled>>

\* SDL_InitSubSystem() or SDL_OpenAudioDeviceStream() fails.
OpenFails ==
  /\ "audio" \in setup.uses
  /\ library' = Unsubscribed
  /\ device' = DeviceClosed
  /\ UNCHANGED <<setup, managers, windows, queue, polled>>

CloseDevice ==
  /\ device.stream
  /\ library' = Unsubscribed
  /\ device' = DeviceClosed
  /\ UNCHANGED <<setup, managers, windows, queue, polled>>

SetMixCallback(installed) ==
  /\ "audio" \in setup.uses
  /\ device' = [device EXCEPT !.mix = installed]
  /\ UNCHANGED <<setup, library, managers, windows, queue, polled>>

\* start() and stop(): resuming may fail, pausing is waited for.
Resume(running) ==
  /\ device.stream
  /\ device' = [device EXCEPT !.running = running, !.block = 0]
  /\ UNCHANGED <<setup, library, managers, windows, queue, polled>>

\* SDL's audio thread asks for more than a period after a stall; the scratch buffer is not grown.
Clamped(wanted) == IF wanted > device.scratch THEN device.scratch ELSE wanted
FillStream(wanted) ==
  /\ device.alive /\ device.running
  /\ device' = [device EXCEPT !.block = Clamped(wanted)]
  /\ UNCHANGED <<setup, library, managers, windows, queue, polled>>

Requests == Periods \cup {8 * p : p \in Periods}

Next ==
  \/ \E x \in Managers :
       \/ Construct(x) \/ CreateWindow(x) \/ Destroy(x) \/ Delete(x)
       \/ PollEvents(x) \/ TakeResize(x) \/ Close(x) \/ SetCursor(x)
       \/ \E enabled \in BOOLEAN : SetTextInputEnabled(x, enabled)
       \/ \E y \in Managers : MoveConstruct(x, y) \/ MoveAssign(x, y)
  \/ \E w \in Windows : Change(w) \/ DismissText(w)
  \/ \E period \in Periods : OpenDevice(period)
  \/ OpenFails \/ CloseDevice
  \/ \E b \in BOOLEAN : SetMixCallback(b) \/ Resume(b)
  \/ \E wanted \in Requests : FillStream(wanted)

Spec == Init /\ [][Next]_vars

(***************************************************************************)
(* Properties.                                                             *)
(***************************************************************************)
TypeOK ==
  /\ setup \in Setups
  /\ library.refs \in 0 .. Cardinality(Managers) /\ library.vulkan \in 0 .. library.refs
  /\ library.audio \in {0, 1} /\ library.up \in BOOLEAN
  /\ \A x \in Managers : managers[x].state \in {"absent", "live", "moved"} /\ Window(x) \in Windows \cup {None}
                         /\ managers[x].size \in Sizes
  /\ Len(queue) <= MaxEvents

\* Whatever was constructed, moved, destroyed or failed: the library is up exactly while a
\* manager owns a reference to it, each window of the library is held by one manager, and
\* nothing a manager or a listener of GLFW still holds belongs to a library that is down or a
\* window that is gone (a listener's destructor would call GLFW on it).
LibraryFollowsOwners ==
  /\ library.up <=> \E x \in Managers : managers[x].owns
  /\ library.refs = Cardinality({x \in Managers : managers[x].owns})
  /\ Sdl /\ setup.api = "vulkan" => library.vulkan = library.refs
  /\ \A x \in Managers :
       /\ Window(x) # None => managers[x].owns /\ windows[Window(x)].open
       /\ managers[x].cursors \/ managers[x].context => Window(x) # None
       /\ ~Sdl => managers[x].listener = Window(x)
  /\ \A w \in Windows : windows[w].open => Cardinality({x \in Managers : Window(x) = w}) = 1

\* The callbacks of a GLFW window reach the manager that holds it, after any number of moves.
CallbacksReachHolder ==
  ~Sdl => \A w \in Windows : windows[w].open => managers[windows[w].user].window = w

\* A device that is open plays to a stream that exists, out of its own buffer, and nothing
\* keeps SDL's audio subsystem up when it is closed.
DeviceIsLive ==
  /\ device.stream = device.alive /\ device.owns = device.stream
  /\ library.audio = IF device.stream THEN 1 ELSE 0
  /\ device.running => device.stream
  /\ device.block <= device.scratch

\* What a manager says of its window is so once it has polled, and a size the application has
\* not taken is marked as new.
FlagsFollow(x) ==
  LET manager == managers[x] IN LET w == windows[manager.window] IN
    /\ manager.focused = w.focused /\ manager.minimized = w.minimized /\ manager.size = w.size
    /\ ~Sdl => manager.maximized = w.maximized
    /\ Sdl /\ w.closing => manager.closing
    /\ Sdl => manager.text = w.text
Holders == {x \in Managers : Live(x) /\ Window(x) # None}
StateFollowsWindow ==
  /\ ~(Sdl /\ setup.several) => \A x \in Holders \cap polled : FlagsFollow(x)
  /\ \A x \in Managers : managers[x].size # managers[x].shown => managers[x].resized

\* The same for several windows of SDL at once. The manager that polls drains the queue they
\* share and takes the resizes and focus changes of every window for its own: violated.
EveryWindowIsFollowed == \A x \in Holders \cap polled : FlagsFollow(x)

=============================================================================
