--------------------------------- MODULE Services ---------------------------------
(***************************************************************************)
(* What the library can run on this machine (WindowManager.cpp, DynLib.cpp,*)
(* X11Api.cpp, WaylandApi.cpp, WaylandDecorationProbe.cpp, GlfwNative.cpp, *)
(* AudioDeviceFactory.cpp, NullAudioDevice.cpp): which backends are        *)
(* compiled in, whose shared libraries are there in full, which display    *)
(* servers the environment names, which of them and of the sound devices   *)
(* answer. Each library is tried once, at the first question about it, and *)
(* the answer is kept. The machines run desktop Linux.                     *)
(***************************************************************************)
EXTENDS Naturals, Sequences, FiniteSetsExt

CONSTANTS
  Worlds,  \* the builds and machines: records of compiled, sonames, named, servers, decorations,
           \* plugin, audio, sound, and asks, what the application asks for
  Blocks   \* sizes of a block of audio, in frames

Backends == {"sdl", "wayland", "x11", "glfw"}
AudioBackends == {"alsa", "sdl", "null"}
Nothing == "nothing"

\* A service binds one library or two of them, each under the first of its names that opens.
Names ==
  [wayland |-> <<<<"wayland-client">>>>, x11 |-> <<<<"X11">>>>, shm |-> <<<<"Xext">>>>,
   glx |-> <<<<"GLX", "GL">>>>, egl |-> <<<<"EGL">>, <<"wayland-egl">>>>]
ServiceNames == DOMAIN Names
Sonames == {"wayland-client", "X11", "Xext", "GLX", "GL", "EGL", "wayland-egl"}

BlocksAssumption == Blocks \subseteq Nat

\* A client reaches no server but by what DISPLAY or WAYLAND_DISPLAY names; a name may be of a
\* server that is gone.
WorldsAssumption == \A w \in Worlds : w.servers \subseteq w.named

VARIABLES
  world,    \* the build and the machine, which do not change
  memo,     \* the static of each loader: unknown, TRUE or FALSE
  slots,    \* the function pointers of each library: none, some or all are bound
  selected, \* what selectUsableBackend() answered, to which preference
  frame,    \* GLFW's platform, and whether it may use libdecor
  device,   \* the device openAudioDevice() returned
  block     \* the samples renderFrames() made last

vars == <<world, memo, slots, selected, frame, device, block>>

Init ==
  /\ world \in Worlds
  /\ memo = [s \in ServiceNames |-> "unknown"]
  /\ slots = [l \in Sonames |-> "none"]
  /\ selected = [asked |-> Nothing, backend |-> Nothing]
  /\ frame = [platform |-> Nothing, libdecor |-> TRUE]
  /\ device = [asked |-> Nothing, backend |-> Nothing, open |-> FALSE, running |-> FALSE, callback |-> FALSE]
  /\ block = 0

(***************************************************************************)
(* Loading: dynlib::open(), symbol() and bind().                           *)
(***************************************************************************)
\* The first of a list that fits.
FirstOf(list, fit) ==
  IF \A i \in DOMAIN list : list[i] \notin fit THEN Nothing ELSE list[Min({i \in DOMAIN list : list[i] \in fit})]

Opening(names) == FirstOf(names, {l \in Sonames : world.sonames[l] # "missing"})

\* A plausible mistake: the slots bound before the missing symbol stay.
HalfBound(soname) == IF world.sonames[soname] = "whole" THEN "all" ELSE "some"

\* Every slot of a library that lacks one symbol is cleared again.
Bound(soname) == IF world.sonames[soname] = "whole" THEN "all" ELSE "none"

BindsAll(names) == Opening(names) # Nothing /\ Bound(Opening(names)) = "all"
AfterBind(names, s) ==
  IF Opening(names) = Nothing THEN s ELSE [s EXCEPT ![Opening(names)] = Bound(Opening(names))]

\* A second library is tried only after the first.
Loads(service) == \A i \in DOMAIN Names[service] : BindsAll(Names[service][i])
AfterLoad(service) ==
  LET first == AfterBind(Names[service][1], slots) IN
  IF Len(Names[service]) = 1 \/ ~BindsAll(Names[service][1]) THEN first ELSE AfterBind(Names[service][2], first)

Answer(service) == IF memo[service] = "unknown" THEN Loads(service) ELSE memo[service] = "yes"
Memoise(service) ==
  /\ memo' = [memo EXCEPT ![service] = IF Answer(service) THEN "yes" ELSE "no"]
  /\ slots' = IF memo[service] = "unknown" THEN AfterLoad(service) ELSE slots

Load(service) ==
  /\ service \in world.asks /\ memo[service] = "unknown"
  /\ Memoise(service)
  /\ UNCHANGED <<world, selected, frame, device, block>>

(***************************************************************************)
(* Backends.                                                               *)
(***************************************************************************)
IsBackendAvailable(backend) ==
  /\ backend \in world.compiled
  /\ backend \in {"wayland", "x11"} => memo[backend] = "yes"

\* Of X11 DISPLAY is read, of Wayland WAYLAND_SOCKET and WAYLAND_DISPLAY and whether there is a file
\* wayland-0: nothing connects to what they name.
HasDisplayServer(backend) ==
  CASE backend \in {"wayland", "x11"} -> backend \in world.named
    [] backend = "glfw" -> world.named # {}
    [] backend = "sdl" -> TRUE

Usable(backend) == IsBackendAvailable(backend) /\ HasDisplayServer(backend)

Fallbacks == <<"sdl", "wayland", "x11", "glfw">>
Chosen(preferred) ==
  IF Usable(preferred) THEN preferred ELSE FirstOf(Fallbacks, {backend \in Backends : Usable(backend)})

\* It has asked both native loaders where they are compiled in (Load), or has not come to them.
SelectUsableBackend(preferred) ==
  /\ \A backend \in {"wayland", "x11"} \cap world.compiled : memo[backend] # "unknown"
  /\ selected' = [asked |-> preferred, backend |-> Chosen(preferred)]
  /\ UNCHANGED <<world, memo, slots, frame, device, block>>

(***************************************************************************)
(* initializeGLFW(): the frame is decided before GLFW connects, on a       *)
(* connection of its own, and X11 is tried first.                          *)
(***************************************************************************)
OffersServerDecorations == world.decorations
LibdecorHasPlugin == world.plugin
Connects == memo["wayland"] = "yes" /\ "wayland" \in world.servers

InitGlfw ==
  /\ "glfw" \in world.compiled /\ frame.platform = Nothing /\ memo["wayland"] # "unknown"
  /\ frame' = [platform |-> IF "x11" \in world.servers THEN "x11"
                            ELSE IF "wayland" \in world.servers THEN "wayland" ELSE Nothing,
               libdecor |-> ~(Connects /\ ~(OffersServerDecorations /\ LibdecorHasPlugin))]
  /\ UNCHANGED <<world, memo, slots, selected, device, block>>

(***************************************************************************)
(* Audio.                                                                  *)
(***************************************************************************)
IsAudioBackendAvailable(backend) == backend = "null" \/ backend \in world.audio

\* Null opens with every valid configuration; the others may refuse it.
OpensDevice(backend) == backend = "null" \/ backend \in world.sound

\* The preferred device is tried first; the chain does not try it again.
Fits(backend) == IsAudioBackendAvailable(backend) /\ OpensDevice(backend)
FirstDevice(preferred) ==
  IF Fits(preferred) THEN preferred
  ELSE FirstOf(<<"alsa", "sdl", "null">>, {backend \in AudioBackends : Fits(backend)})

OpenAudioDevice(preferred) ==
  /\ "audio" \in world.asks /\ device.backend = Nothing
  /\ device' = [asked |-> preferred, backend |-> FirstDevice(preferred), open |-> TRUE, running |-> FALSE,
                callback |-> FALSE]
  /\ UNCHANGED <<world, memo, slots, selected, frame, block>>

IsNull == device.backend = "null"

Start == IsNull /\ device.open /\ device' = [device EXCEPT !.running = TRUE] /\ UNCHANGED block
Stop == IsNull /\ device.running /\ device' = [device EXCEPT !.running = FALSE] /\ UNCHANGED block
SetMixCallback(present) == IsNull /\ device' = [device EXCEPT !.callback = present] /\ UNCHANGED block
CloseNull == IsNull /\ device.open /\ device' = [device EXCEPT !.open = FALSE, !.running = FALSE] /\ UNCHANGED block
Reopen == IsNull /\ device' = [device EXCEPT !.open = TRUE] /\ UNCHANGED block

RenderFrames(frames) ==
  /\ IsNull
  /\ block' = IF device.running /\ device.callback THEN frames ELSE 0
  /\ UNCHANGED device

NullDevice ==
  /\ \/ Start \/ Stop \/ CloseNull \/ Reopen
     \/ \E present \in BOOLEAN : SetMixCallback(present)
     \/ \E frames \in Blocks : RenderFrames(frames)
  /\ UNCHANGED <<world, memo, slots, selected, frame>>

Next ==
  \/ \E s \in ServiceNames : Load(s)
  \/ \E b \in Backends : SelectUsableBackend(b)
  \/ InitGlfw
  \/ \E b \in AudioBackends : OpenAudioDevice(b)
  \/ NullDevice

Spec == Init /\ [][Next]_vars

(***************************************************************************)
(* Properties.                                                             *)
(***************************************************************************)
TypeOK ==
  /\ memo \in [ServiceNames -> {"unknown", "yes", "no"}] /\ slots \in [Sonames -> {"none", "some", "all"}]
  /\ selected.backend \in Backends \cup {Nothing} /\ device.backend \in AudioBackends \cup {Nothing}
  /\ device.running => device.open

\* The backend is in this build and its library on this machine.
Installed(backend) ==
  /\ backend \in world.compiled
  /\ backend = "wayland" => world.sonames["wayland-client"] = "whole"
  /\ backend = "x11" => world.sonames["X11"] = "whole"

\* A display server answers a connection of this backend; SDL also runs on a console.
Reaches(backend) ==
  /\ backend \in {"wayland", "x11"} => backend \in world.servers
  /\ backend = "glfw" => world.servers # {}

\* What a backend needs to run, whatever the library has found out so far.
Runs(backend) == Installed(backend) /\ Reaches(backend)

\* selectUsableBackend() never passes over a preferred backend that runs, throws only where no backend
\* does, and answers one that is compiled in and whose library is there in full, which runs unless a
\* server is named that does not answer (SelectedRuns leaves that condition out). A loader that said
\* yes has every slot of its libraries, one that said no has a library with none, no library is left
\* half bound, and libdecor stays on only where GLFW does not meet the compositor without a plugin.
\* The audio fallback ends with a device, the preferred one if it opens.
BackendRuns ==
  /\ selected.asked # Nothing =>
       /\ Runs(selected.asked) => selected.backend = selected.asked
       /\ IF selected.backend = Nothing THEN \A b \in Backends : ~Runs(b)
          ELSE Installed(selected.backend) /\ (world.named = world.servers => Reaches(selected.backend))
  /\ \A s \in ServiceNames : memo[s] # "unknown" =>
       (memo[s] = "yes") = \A i \in DOMAIN Names[s] : \E j \in DOMAIN Names[s][i] : slots[Names[s][i][j]] = "all"
  /\ \A l \in Sonames : slots[l] # "some"
  /\ frame.platform = "wayland" /\ frame.libdecor /\ memo["wayland"] = "yes" => world.plugin
  /\ device.backend # Nothing =>
       /\ device.backend \in world.audio \cup {"null"} /\ device.backend \in world.sound \cup {"null"}
       /\ device.asked \in (world.audio \cap world.sound) \cup {"null"} => device.backend = device.asked

\* "Whether the session has a display server this backend can talk to" (WindowManager.cpp, line 111):
\* where some backend runs, the one selectUsableBackend() answers does. Violated where a variable
\* names a server that is gone.
SelectedRuns == selected.backend # Nothing /\ (\E b \in Backends : Runs(b)) => Runs(selected.backend)

=============================================================================
