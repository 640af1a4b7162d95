----------------------------- MODULE WindowLifetime -----------------------------
(***************************************************************************)
(* The native window managers and what they hold of the display server     *)
(* (WaylandWindowManager.cpp, X11WindowManager.cpp, and the input method   *)
(* of X11KeyboardListener.cpp): handles are made one by one by             *)
(* createWindow(), which may throw at any of them, given up in a fixed     *)
(* order by destroy(), and pass from object to object when a manager is    *)
(* moved. Wayland proxies also name the object their events go to.         *)
(***************************************************************************)
EXTENDS Naturals, Sequences

CONSTANTS
  Objects,     \* the manager objects of the application
  Connections, \* the connections they make, one for each window
  Setups       \* the backend, the graphics API, and what the environment does

None == 0

\* The compositor may not offer a global; no input method and no present extension may be there.
Optional == {"shm", "decorations", "seat", "keyboard", "pointer", "decoration", "method", "present"}

ConnectionsAssumption == None \notin Connections /\ None \notin Objects
SetupsAssumption ==
  /\ Setups \subseteq [backend : {"wayland", "x11"}, api : {"gl", "cpu", "vulkan"},
                       missing : SUBSET Optional,
                       nested : BOOLEAN]  \* whether callbacks destroy the window
  /\ \A s \in Setups : /\ "seat" \in s.missing => {"keyboard", "pointer"} \subseteq s.missing
                       /\ "decorations" \in s.missing => "decoration" \in s.missing

VARIABLES
  setup,       \* which backend, which API
  objects,     \* the manager objects
  alive,       \* the handles that exist, by connection
  user,        \* Wayland: the object the events of each proxy reach
  call,        \* the member function that is running
  dispatching  \* the object whose pollEvents() has called the application back

vars == <<setup, objects, alive, user, call, dispatching>>

Wayland == setup.backend = "wayland"

\* createWindow() in its stages: what each makes, and what a throw in it has not made.
Stage(make, lacks) == [make |-> make, lacks |-> lacks]

\* No connection; a global it cannot do without is missing when the registry has been read; the
\* surface is closed before it is configured; no configuration or context; no shared memory.
WaylandStages ==
  <<Stage({"connection"}, {{"connection"}}),
    Stage({"clipboard", "registry", "compositor", "shm", "wmBase", "decorations", "seat"},
          {{"compositor"}, {"wmBase"}}),
    Stage({"surface", "xdgSurface", "toplevel", "decoration", "keyboard", "pointer"}, {{}})>>
  \o (CASE setup.api = "gl" -> <<Stage({"egl"}, {{"egl"}})>>
        [] setup.api = "cpu" -> <<Stage({"pool"}, {{"pool"}})>>
        [] OTHER -> <<>>)

\* No configuration, with the colormap still to come, or no window.
X11Stages ==
  <<Stage({"connection"}, {{"connection"}})>>
  \o (IF setup.api = "gl"
      THEN <<Stage({"colormap", "window"}, {{"colormap", "window"}, {"window"}})>>
      ELSE <<Stage({"window"}, {{"window"}})>>)
  \o <<Stage({"clipboard", "method"}, {})>>
  \o (CASE setup.api = "gl" -> <<Stage({"context"}, {{"context"}})>>
        [] setup.api = "cpu" -> <<Stage({"gc", "present"}, {})>>
        [] OTHER -> <<>>)

Stages == IF Wayland THEN WaylandStages ELSE X11Stages

\* destroy(). The listeners are members it resets on Wayland; on X11 they stay until the object goes.
DestroyOrder ==
  IF Wayland
  THEN <<"listeners", "egl", "frame", "pool", "clipboard", "keyboard", "pointer", "seat", "shm", "decoration",
         "decorations", "toplevel", "xdgSurface", "surface", "wmBase", "compositor", "registry", "connection">>
  ELSE <<"clipboard", "slots", "context", "present", "gc", "window", "colormap", "connection">>

\* What has to exist for a handle to be used and released.
Needs(h) ==
  CASE h \in {"connection", "listeners"} -> {}
    [] h \in {"keyboard", "pointer"} -> {"connection", "seat"}
    [] h = "decoration" -> {"connection", "decorations", "toplevel"}
    [] h = "toplevel" -> {"connection", "xdgSurface"}
    [] h = "xdgSurface" -> {"connection", "wmBase", "surface"}
    [] h \in {"egl", "frame"} -> {"connection", "surface"}
    [] h \in {"context", "slots", "present", "gc"} -> {"connection", "window"}
    [] h = "clipboard" -> IF Wayland THEN {"connection"} ELSE {"connection", "window"}
    [] OTHER -> {"connection"}

Proxies == {"registry", "seat", "wmBase", "xdgSurface", "toplevel", "decoration", "frame"}
Handles == {DestroyOrder[i] : i \in DOMAIN DestroyOrder} \cup {"method", "leaked"}

Absent == [state |-> "absent", connection |-> None, held |-> {}, window |-> "none"]
Idle == [of |-> None, doing |-> "idle", stage |-> 0, next |-> "nothing", from |-> None]

Init ==
  /\ setup \in Setups
  /\ objects = [o \in Objects |-> Absent]
  /\ alive = [c \in Connections |-> {}]
  /\ user = [c \in Connections |-> [p \in Proxies |-> None]]
  /\ call = Idle
  /\ dispatching = None

Held(o) == objects[o].held
Connection(o) == objects[o].connection

\* What belongs to the client outlives the connection: the server's objects do not.
Disconnected(handles) == handles \cap {"method"}

\* Another call on a manager may begin.
Free == call = Idle /\ dispatching = None

Construct(o) ==
  /\ Free /\ objects[o].state = "absent"
  /\ objects' = [objects EXCEPT ![o] = [Absent EXCEPT !.state = "live", !.held = {"listeners"}]]
  /\ UNCHANGED <<setup, alive, user, call, dispatching>>

(***************************************************************************)
(* createWindow().                                                         *)
(***************************************************************************)
Unused(c) == alive[c] = {} /\ \A o \in Objects : Connection(o) # c

CreateWindow(o) ==
  /\ Free /\ objects[o].state = "live" /\ objects[o].window = "none"
  /\ \E c \in Connections : Unused(c)
  /\ objects' = [objects EXCEPT ![o].window = "asked", ![o].connection = CHOOSE c \in Connections : Unused(c)]
  /\ call' = [Idle EXCEPT !.of = o, !.doing = "create", !.stage = 1]
  /\ UNCHANGED <<setup, alive, user, dispatching>>

Creating == call.doing = "create"
Current == Stages[call.stage]
AtLast == call.stage = Len(Stages)

Acquire(o, made, window) ==
  LET c == Connection(o) IN
  /\ objects' = [objects EXCEPT ![o].held = @ \cup made, ![o].window = window]
  /\ alive' = [alive EXCEPT ![c] = @ \cup made]
  /\ user' = [user EXCEPT ![c] = [p \in Proxies |-> IF p \in made THEN o ELSE @[p]]]

Make ==
  /\ Creating
  /\ Acquire(call.of, Current.make \ setup.missing, IF AtLast THEN "made" ELSE "asked")
  /\ call' = IF AtLast THEN Idle ELSE [call EXCEPT !.stage = @ + 1]
  /\ UNCHANGED <<setup, dispatching>>

\* X11 closes its connection where GLX has no configuration and where the window is refused,
\* and forgets none of the other handles.
ThrowClosing ==
  /\ ~Wayland /\ "window" \in Current.make
  /\ LET o == call.of IN
       /\ \E lacking \in Current.lacks :
            objects' = [objects EXCEPT ![o].held = (@ \cup Current.make) \ ({"connection"} \cup lacking)]
       /\ alive' = [alive EXCEPT ![Connection(o)] = Disconnected(@)]
  /\ UNCHANGED user

\* EGL's objects become members after the last one: those before one that fails are leaked.
ThrowLate ==
  /\ "egl" \in Current.make
  /\ alive' = [alive EXCEPT ![Connection(call.of)] = @ \cup {"leaked"}]
  /\ UNCHANGED <<objects, user>>

ThrowHolding ==
  /\ ~(~Wayland /\ "window" \in Current.make)
  /\ \E lacking \in Current.lacks :
       Acquire(call.of, Current.make \ (setup.missing \cup lacking), "asked")

Throw ==
  /\ Creating
  /\ ThrowClosing \/ ThrowLate \/ ThrowHolding
  /\ call' = Idle
  /\ UNCHANGED <<setup, dispatching>>

\* What a present makes: a frame callback, or the slots of X11.
Draw(o) ==
  /\ Free /\ setup.api = "cpu"
  /\ LET h == IF Wayland THEN "frame" ELSE "slots" IN
       /\ (IF Wayland THEN "pool" ELSE "gc") \in Held(o) /\ h \notin Held(o)
       /\ objects' = [objects EXCEPT ![o].held = @ \cup {h}]
       /\ alive' = [alive EXCEPT ![Connection(o)] = @ \cup {h}]
       /\ user' = IF Wayland THEN [user EXCEPT ![Connection(o)]["frame"] = o] ELSE user
  /\ UNCHANGED <<setup, call, dispatching>>

FrameDone(o) ==
  /\ Free /\ "frame" \in Held(o)
  /\ LET target == user[Connection(o)]["frame"] IN
       /\ objects' = [objects EXCEPT ![target].held = @ \ {"frame"}]
       /\ alive' = [alive EXCEPT ![Connection(o)] = @ \ {"frame"}]
  /\ UNCHANGED <<setup, user, call, dispatching>>

(***************************************************************************)
(* destroy(), the destructor and the moves.                                *)
(***************************************************************************)
\* The places in the order of what is still held; X11 does nothing without a connection.
ToRelease(o) ==
  IF ~Wayland /\ "connection" \notin Held(o) THEN {}
  ELSE LET order == DestroyOrder IN {i \in DOMAIN order : order[i] \in Held(o)}

Release(o, next, from) ==
  /\ call' = [of |-> o, doing |-> "destroy", stage |-> 0, next |-> next, from |-> from]
  /\ UNCHANGED <<setup, objects, alive, user, dispatching>>

MayDestroy == call = Idle /\ (dispatching # None => setup.nested)

Destroy(o) == MayDestroy /\ objects[o].state = "live" /\ Release(o, "nothing", None)
Delete(o) == Free /\ objects[o].state # "absent" /\ Release(o, "delete", None)
MoveAssign(x, y) ==
  /\ Free /\ x # y /\ objects[x].state = "live" /\ objects[y].state # "absent"
  /\ Release(y, "adopt", x)

Destroying == call.doing = "destroy"
ReleaseNext ==
  /\ Destroying
  /\ LET o == call.of  left == ToRelease(o)  c == Connection(o) IN
       \E i \in left :
         LET h == DestroyOrder[i] IN
         /\ \A j \in left : i <= j
         /\ objects' = [objects EXCEPT ![o].held = @ \ {h}]
         /\ alive' = IF c = None THEN alive
                     ELSE [alive EXCEPT ![c] = IF h = "connection" THEN Disconnected(@) ELSE @ \ {h}]
  /\ UNCHANGED <<setup, user, call, dispatching>>

\* The listener's destructor gives up the input method and its context.
WithoutMethod(o) == IF Connection(o) = None THEN alive ELSE [alive EXCEPT ![Connection(o)] = @ \ {"method"}]

MovedFrom(object) == [object EXCEPT !.state = "moved", !.held = {}, !.connection = None]

\* rebindListeners().
Rebound(x, y) ==
  IF Connection(x) = None THEN user
  ELSE [user EXCEPT ![Connection(x)] =
          [p \in Proxies |-> IF p \in Held(x) THEN y ELSE @[p]]]

Adopted(x, y) == [objects EXCEPT ![y] = objects[x], ![x] = MovedFrom(@)]

DestroyReturns ==
  /\ Destroying /\ ToRelease(call.of) = {}
  /\ LET o == call.of IN
       CASE call.next = "nothing" -> UNCHANGED <<objects, alive, user>>
         [] call.next = "delete" ->
              /\ objects' = [objects EXCEPT ![o] = Absent]
              /\ alive' = WithoutMethod(o)
              /\ UNCHANGED user
         [] call.next = "adopt" ->
              /\ objects' = Adopted(call.from, o)
              /\ alive' = WithoutMethod(o)
              /\ user' = Rebound(call.from, o)
  /\ call' = Idle
  /\ UNCHANGED <<setup, dispatching>>

MoveConstruct(x, y) ==
  /\ Free /\ objects[x].state = "live" /\ objects[y].state = "absent"
  /\ objects' = Adopted(x, y)
  /\ user' = Rebound(x, y)
  /\ UNCHANGED <<setup, alive, call, dispatching>>

(***************************************************************************)
(* Events.                                                                 *)
(***************************************************************************)
Ready(o) == objects[o].state = "live" /\ {"connection", "listeners"} \subseteq Held(o)

\* pollEvents() hands an event to a listener, which calls the application, and goes on with both
\* when the application returns.
Dispatch(o) ==
  /\ Free /\ Ready(o) /\ objects[o].window = "made"
  /\ dispatching' = o
  /\ UNCHANGED <<setup, objects, alive, user, call>>

CallbackReturns ==
  /\ dispatching # None /\ call = Idle
  /\ dispatching' = None
  /\ UNCHANGED <<setup, objects, alive, user, call>>

Next ==
  \/ \E o \in Objects :
       \/ Construct(o) \/ CreateWindow(o) \/ Draw(o) \/ FrameDone(o) \/ Destroy(o) \/ Delete(o)
       \/ Dispatch(o)
       \/ \E p \in Objects : MoveAssign(o, p) \/ MoveConstruct(o, p)
  \/ Make \/ Throw \/ ReleaseNext \/ DestroyReturns \/ CallbackReturns

Spec == Init /\ [][Next]_vars

(***************************************************************************)
(* Properties.                                                             *)
(***************************************************************************)
TypeOK ==
  /\ setup \in Setups
  /\ \A o \in Objects :
       /\ objects[o].state \in {"absent", "live", "moved"} /\ objects[o].window \in {"none", "asked", "made"}
       /\ Connection(o) \in Connections \cup {None} /\ Held(o) \subseteq Handles \cup {"listeners"}
  /\ \A c \in Connections : alive[c] \subseteq Handles
  /\ dispatching \in Objects \cup {None}

\* At every point of createWindow() and destroy(), wherever it threw before: nothing is released
\* under what still needs it (but for the input method, which X11's destroy() leaves to the
\* listener's destructor), a handle a connected manager holds exists, and what exists is held by the
\* one manager that will release it (but for what EGL leaked).
HandlesAreLive ==
  /\ \A c \in Connections : \A h \in alive[c] \ {"method", "leaked"} : Needs(h) \subseteq alive[c]
  /\ \A o \in Objects : "connection" \in Held(o) => Held(o) \ {"listeners"} \subseteq alive[Connection(o)]
  /\ \A c \in Connections : \A h \in alive[c] \ {"leaked"} :
       \E o \in Objects : Connection(o) = c /\ h \in Held(o) /\ \A p \in Objects \ {o} : Connection(p) # c

\* The events of a window reach the object that holds it, after any number of moves.
EventsReachHolder ==
  \A o \in Objects : Connection(o) # None => \A p \in Proxies \cap Held(o) : user[Connection(o)][p] = o

\* A callback may destroy the window, as the quick start of the README does: the dispatch that
\* called it goes on in a listener and on a connection that are gone. Violated.
DispatchSurvives == dispatching # None /\ call = Idle => Ready(dispatching)

=============================================================================
