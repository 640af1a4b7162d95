-------------------------------- MODULE MCInput --------------------------------
(***************************************************************************)
(* The keyboard, the pointer of the four window backends, and the tables   *)
(* the backends share: a behaviour is one of KeyboardInput, NativePointer, *)
(* SdlPointer or InputTables, of those in Parts.                           *)
(***************************************************************************)
EXTENDS Naturals, Sequences

CONSTANTS Parts, Slop, DragThreshold, Interval, MaxSerial, MaxPresses, MaxEvents,
          NativeSetups, SdlSetups, MaxContexts, MaxDepth, MaxWheel,
          PhysicalKeys, Shift, Keys, Unknown, Used, Relayouts, KeyboardSetups

\* A client area, three points of a title bar (two of them a jitter apart, two a drag that a
\* double click would still span, two too far for that), and an edge.
Points == {0, 10, 14, 16, 30}
ZoneOf == [p \in Points |-> CASE p = 0 -> "client" [] p = 30 -> "edge" [] OTHER -> "caption"]
Shapes == {"default", "resize", "text"}

\* Which part of the interface the application uses: hit tests, or the cursor.  The compositor that
\* has no cursor theme does not lock the pointer either.
Native(backend, claims, cursors, early, theme) ==
  [backend |-> backend, claims |-> claims, cursors |-> cursors, early |-> early,
   resizable |-> theme, theme |-> theme, locks |-> theme]
AllNative ==
  {Native("wayland", TRUE, FALSE, FALSE, TRUE), Native("wayland", FALSE, TRUE, FALSE, TRUE),
   Native("wayland", FALSE, TRUE, FALSE, FALSE), Native("x11", TRUE, FALSE, FALSE, TRUE),
   Native("x11", FALSE, TRUE, FALSE, TRUE), Native("glfw", TRUE, FALSE, FALSE, FALSE),
   Native("glfw", FALSE, TRUE, TRUE, TRUE)}

Sdl(driver, claims, cursors) == [driver |-> driver, claims |-> claims, cursors |-> cursors]
AllSdl == {Sdl("wayland", TRUE, FALSE), Sdl("other", TRUE, FALSE), Sdl("other", FALSE, TRUE)}

\* A key that changes the level and a letter, where every key is at its QWERTY position or the
\* keysyms do not depend on the modifiers. On Wayland the former is Shift; on X11 it is one that
\* mapX11Key() has no name for, such as AltGr (ISO_Level3_Shift), whose presses never set a key.
TwoKeys == {"shift", "letter"}
TwoNames == {"KEY_LEFT_SHIFT", "KEY_O"}
FourSlots == {<<0, "KEY_O">>, <<1, "KEY_O">>, <<0, "event">>, <<1, "text">>}
Layout(backend) ==
  [backend |-> backend,
   named |-> [k \in TwoKeys \X {0, 1} |->
                CASE k[1] = "shift" -> IF backend = "x11" THEN "KEY_UNKNOWN" ELSE "KEY_LEFT_SHIFT"
                  [] k = <<"letter", 0>> -> "KEY_O"
                  [] OTHER -> "KEY_UNKNOWN"],
   position |-> [p \in TwoKeys |-> IF p = "shift" THEN "KEY_LEFT_SHIFT" ELSE "KEY_O"]]
SteadySetups == {Layout("wayland"), Layout("x11")}

VARIABLES
  part,
  setup, at, held, serial, events, caption, did, went, clicks, hitTest, enabled,
  inside, entered, shown, moving, ready, focused, enterSerial, position, claimed, hit, system, captured,
  dragging, seat, heard, pending, first, relative,
  kind, active, stack, capacity, bound, call, accumulated,
  pressed, seen, mapped, level, down, installed, destroyed, fired, taken

N == INSTANCE NativePointer WITH Setups <- NativeSetups
S == INSTANCE SdlPointer WITH Setups <- SdlSetups, MaxSerial <- MaxPresses
T == INSTANCE InputTables
K == INSTANCE KeyboardInput WITH Setups <- KeyboardSetups

ASSUME PartsAssumption == Parts \subseteq {"keyboard", "native", "sdl", "tables"}
ASSUME PointerAssumption ==
  /\ N!GestureAssumption /\ N!ZoneAssumption /\ N!ShapesAssumption /\ N!SetupsAssumption
  /\ N!PointerBoundsAssumption /\ S!SetupsAssumption /\ S!PressesAssumption
ASSUME TablesAssumption == T!TablesAssumption
ASSUME KeyboardAssumption ==
  /\ K!SetupsAssumption /\ K!BoundsAssumption /\ K!ShiftAssumption /\ K!UnknownAssumption
  /\ K!StreamsAssumption /\ K!RelayoutsAssumption /\ K!UsedAssumption

\* setup and events are of all but the tables, focused of NativePointer and the keyboard, the
\* contexts of the keyboard and the tables; a variable that is not of the part is 0.
contexts == <<active, stack, capacity, call>>
onlyN == <<inside, entered, shown, moving, ready, enterSerial, position, claimed, hit, system, captured>>
onlyS == <<dragging, seat, heard, pending, first, relative>>
onlyT == <<kind, bound, accumulated>>
onlyK == <<pressed, seen, mapped, level, down, installed, destroyed, fired, taken>>

NoN ==
  /\ inside = 0 /\ entered = 0 /\ shown = 0 /\ moving = 0 /\ ready = 0
  /\ enterSerial = 0 /\ position = 0 /\ claimed = 0 /\ hit = 0 /\ system = 0 /\ captured = 0
NoS == dragging = 0 /\ seat = 0 /\ heard = 0 /\ pending = 0 /\ first = 0 /\ relative = 0
NoT == kind = 0 /\ bound = 0 /\ accumulated = 0
NoK ==
  /\ pressed = 0 /\ seen = 0 /\ mapped = 0 /\ level = 0 /\ down = 0 /\ installed = 0
  /\ destroyed = 0 /\ fired = 0 /\ taken = 0
NoContexts == active = 0 /\ stack = 0 /\ capacity = 0 /\ call = 0
NoPointer ==
  /\ at = 0 /\ held = 0 /\ serial = 0 /\ caption = 0 /\ did = 0 /\ went = 0 /\ clicks = 0
  /\ hitTest = 0 /\ enabled = 0

Init ==
  /\ part \in Parts
  /\ \/ part = "keyboard" /\ K!Init /\ NoPointer /\ NoN /\ NoS /\ NoT
     \/ part = "native" /\ N!Init /\ NoS /\ NoT /\ NoK /\ NoContexts
     \/ part = "sdl" /\ S!Init /\ NoN /\ NoT /\ NoK /\ NoContexts /\ focused = 0
     \/ part = "tables" /\ T!Init /\ NoPointer /\ NoN /\ NoS /\ NoK /\ setup = 0 /\ events = 0 /\ focused = 0

pointer == <<at, held, serial, caption, did, went, clicks, hitTest, enabled>>

Next ==
  /\ UNCHANGED part
  /\ \/ part = "keyboard" /\ K!Next /\ UNCHANGED <<pointer, onlyN, onlyS, onlyT>>
     \/ part = "native" /\ N!Next /\ UNCHANGED <<onlyS, onlyT, onlyK, contexts>>
     \/ part = "sdl" /\ S!Next /\ UNCHANGED <<onlyN, onlyT, onlyK, contexts, focused>>
     \/ part = "tables" /\ T!Next /\ UNCHANGED <<setup, events, focused, pointer, onlyN, onlyS, onlyK>>

vars == <<part, setup, events, focused, pointer, contexts, onlyN, onlyS, onlyT, onlyK>>

Spec == Init /\ [][Next]_vars

\* The type invariants of the four modules.
TypeOK ==
  /\ part = "keyboard" => K!TypeOK
  /\ part = "native" => N!TypeOK
  /\ part = "sdl" => S!TypeOK
  /\ part = "tables" => T!TypeOK

\* Once the events are dispatched, the keys held are those pressed since the focus came and not
\* released, but for keys whose last event the input method took (KeyboardInput).
HeldKeysAreHeld == part = "keyboard" => K!HeldKeysAreHeld

\* While the window keeps the focus, a binding fires again only after the application was told that
\* its key came up (KeyboardInput).
RepeatNeverFires == [][part = "keyboard" => K!RepeatStep]_vars

\* A release goes where its press went (ReleaseFollowsPress of both pointer modules).
ReleaseFollowsPress == [][(part = "native" => N!ReleaseStep) /\ (part = "sdl" => S!ReleaseStep)]_vars

\* A title-bar press toggles maximize or moves the window only as the clicks before it and the
\* button that is held allow (DoubleClickIsTwoClicks, MoveUsesHeldPress).
GesturesAreMeant ==
  [][(part = "native" => N!ToggleStep) /\ (part = "sdl" => S!ToggleStep /\ S!MoveStep)]_vars

\* The capture of the pointer and the image of the cursor are what the application asked for, where
\* the compositor can lock the pointer (CaptureFollowsFocus, CursorIsAsked).
PointerIsAsked == part = "native" => N!CaptureFollowsFocus /\ N!CursorIsAsked

=============================================================================
