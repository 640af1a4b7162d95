------------------------------ MODULE NativePointer ------------------------------
(***************************************************************************)
(* The pointer on the three backends that claim title-bar presses          *)
(* themselves (WaylandMouseListener, X11MouseListener, GLFWMouseListener,  *)
(* each with its window manager's claimPress() and dragTo()): the events   *)
(* of the display server, the claims, the capture of the pointer while the *)
(* cursor is disabled, and the image of the cursor.                        *)
(*                                                                         *)
(* Events wait in a queue, so a handler runs against a server that may     *)
(* have moved on; a request of the client reaches the server at once.      *)
(* Motion deltas, the wheel and the other buttons change nothing here.     *)
(***************************************************************************)
EXTENDS Integers, Sequences, CaptionGesture

CONSTANTS
  ZoneOf,     \* the application's hit test
  Shapes,     \* the images the application asks for
  Setups,     \* the backend, and what the application uses
  MaxSerial,  \* bound on the serials of enters and presses
  MaxEvents   \* bound on the events on their way to the client

ZoneAssumption == ZoneOf \in [Points -> {"client", "caption", "edge"}]
ShapesAssumption == {"default", "resize"} \subseteq Shapes /\ "hidden" \notin Shapes
SetupsAssumption ==
  Setups \subseteq [backend : {"wayland", "x11", "glfw"},
                    claims : BOOLEAN,     \* it installs hit tests
                    cursors : BOOLEAN,    \* it changes and disables the cursor
                    early : BOOLEAN,      \* it changes the cursor before createWindow()
                    resizable : BOOLEAN,
                    theme : BOOLEAN,      \* a cursor theme and wl_cursor could be loaded
                    locks : BOOLEAN]      \* Wayland: constraints_ and relativeManager_ are bound
PointerBoundsAssumption == MaxSerial \in Nat /\ MaxEvents \in Nat

VARIABLES
  setup,
  at,          \* server: where the pointer is
  inside,      \* server: it is over the window
  held,        \* server: the serial of the left button's press, 0 when it is up or was taken
  serial,      \* server: the last serial
  entered,     \* server: the serial of the last enter
  shown,       \* server: the image it shows over the window
  moving,      \* server: a move or resize was requested
  events,      \* sent, not handled yet
  ready,       \* pointer_ or the window handle is set
  focused,     \* focusedSurface_ (Wayland), focused_ (X11), GLFW's own focus
  enterSerial, \* enterSerial_
  position,    \* currentPosition_
  claimed,     \* pressClaimed_
  hit,         \* hitCursor_
  enabled,     \* cursorEnabled_
  system,      \* systemCursor_
  captured,    \* lock_ and relative_ (Wayland), captured_ (X11), the disabled mode (GLFW)
  hitTest,     \* hitTest_ is installed
  caption,     \* caption_
  did,         \* what the last handler did
  went,        \* history: where the press of the left button went, and where it was
  clicks       \* history: the presses on the title bar that may become a double click

server == <<at, inside, held, serial, entered>>
cursor == <<shown, hit, enabled, system, captured>>
claims == <<claimed, caption, went, clicks>>
link == <<ready, focused, enterSerial>>
vars == <<setup, server, moving, events, link, position, cursor, claims, hitTest, did>>

Nothing == "nothing"
NoPress == [to |-> Nothing, from |-> 0]
OnWayland == setup.backend = "wayland"

Events ==
  [type : {"enter"}, at : Points, serial : 1 .. MaxSerial]
  \cup [type : {"press", "motion"}, at : Points]
  \cup [type : {"release", "leave", "focus", "unfocus", "gone", "back"}]

TypeOK ==
  /\ setup \in Setups
  /\ at \in Points /\ inside \in BOOLEAN /\ moving \in BOOLEAN
  /\ {held, serial, entered, enterSerial} \subseteq 0 .. MaxSerial
  /\ shown \in Shapes \cup {"hidden"}
  /\ events \in Seq(Events)
  /\ ready \in BOOLEAN /\ focused \in BOOLEAN
  /\ position \in Points
  /\ {claimed, enabled, captured, hitTest} \subseteq BOOLEAN
  /\ {hit, system} \subseteq Shapes
  /\ caption \in Gestures
  /\ did \in {Nothing, "press", "release", "toggle", "move", "resize"}
  /\ went \in [to : {Nothing, "application", "caption", "edge"}, from : Points \cup {0}]
  /\ clicks \subseteq [at : Points, age : Ages]

\* The window exists and its listener was initialized, unless the application is early.
Init ==
  /\ setup \in Setups
  /\ at \in Points /\ inside = FALSE /\ held = 0 /\ serial = 0 /\ entered = 0
  /\ shown = "default" /\ moving = FALSE /\ events = <<>>
  /\ ready = ~setup.early /\ focused = FALSE /\ enterSerial = 0
  /\ position = at /\ claimed = FALSE
  /\ hit = "default" /\ enabled = TRUE /\ system = "default" /\ captured = FALSE
  /\ hitTest = FALSE /\ caption = Idle
  /\ did = Nothing /\ went = NoPress /\ clicks = {}

-----------------------------------------------------------------------------
(* Plausible mistakes in the code below: the runs are known to catch them.  *)

\* A claim is set, and cleared by its release only.
ClaimSticks(taken) == claimed \/ taken

\* The lock lives until the cursor is enabled again.
WantedWhileDisabled == ~enabled' /\ ready' /\ (OnWayland => setup.locks)

-----------------------------------------------------------------------------
(* The cursor and the capture.                                              *)

EffectiveSystemCursor == IF hit # "default" THEN hit ELSE system
Image == IF enabled THEN EffectiveSystemCursor ELSE "hidden"

\* wanted, in updateCapture(), which a handler ends with: a compositor without the two protocols never locks.
Wanted == ~enabled' /\ focused' /\ ready' /\ (OnWayland => setup.locks)

\* XGrabPointer() fails while another client holds a grab.
UpdateCapture ==
  IF setup.backend = "x11" /\ Wanted /\ ~captured THEN captured' \in BOOLEAN ELSE captured' = Wanted

\* wl_pointer.set_cursor counts with the serial of the last enter only; an image needs a theme.
WaylandShow ==
  shown' = IF ready' /\ focused' /\ (setup.theme \/ ~enabled') /\ enterSerial' = entered /\ inside
           THEN Image' ELSE shown

\* The cursor of an X11 or GLFW window is the window's own.
WindowShow == shown' = IF ready' THEN Image' ELSE shown

UpdateCursorState == UpdateCapture /\ IF OnWayland THEN WaylandShow ELSE WindowShow

SetHitCursor(shape) ==
  /\ hit' = shape
  /\ IF hit # shape THEN UpdateCursorState ELSE UNCHANGED <<shown, captured>>

HoverCursor(p) ==
  IF hitTest /\ setup.resizable /\ ZoneOf[p] = "edge" THEN "resize" ELSE "default"

-----------------------------------------------------------------------------
(* Claims.                                                                   *)

\* A press at p is the window's: the title bar, or an edge of a resizable window.  A resize is
\* refused when the button is no longer held (GLFW asks the server) or cannot be sent (X11).
ClaimPress(p) ==
  IF ~hitTest \/ ~ready \/ ZoneOf[p] = "client" \/ (ZoneOf[p] = "edge" /\ ~setup.resizable)
  THEN {FALSE}
  ELSE IF ZoneOf[p] = "edge" /\ ~OnWayland THEN BOOLEAN ELSE {TRUE}

Assigned(taken) == taken

\* handleButton(), the left button going down.
TakePress(p) ==
  \E taken \in ClaimPress(p) :
    LET onCaption == taken /\ ZoneOf[p] = "caption"
        double == onCaption /\ IsDoubleClick(caption, p)
    IN /\ claimed' = Assigned(taken)
       /\ caption' = IF onCaption THEN Press(caption, p) ELSE caption
       /\ clicks' = IF double THEN {} ELSE IF onCaption THEN clicks \cup Click(p) ELSE clicks
       /\ went' = [to |-> IF taken THEN ZoneOf[p] ELSE "application", from |-> p]
       /\ did' = IF ~taken THEN "press"
                 ELSE IF double THEN "toggle" ELSE IF onCaption THEN Nothing ELSE "resize"
       /\ moving' = (moving \/ did' = "resize")

\* The left button coming up.
TakeRelease ==
  /\ claimed' = FALSE
  /\ caption' = IF claimed THEN Released(caption) ELSE caption
  /\ did' = IF claimed THEN Nothing ELSE "release"
  /\ went' = NoPress
  /\ UNCHANGED <<clicks, moving>>

\* dragTo(), for a press that is claimed.
Drag(p) ==
  LET starts == claimed /\ Travels(caption, p) IN
  /\ caption' = IF claimed THEN Moved(caption, p) ELSE caption
  /\ did' = IF starts THEN "move" ELSE Nothing
  /\ moving' = (moving \/ starts)
  /\ clicks' = IF went.to = "caption" /\ Distance(went.from, p) >= DragThreshold THEN {} ELSE clicks

-----------------------------------------------------------------------------
(* Handlers.                                                                 *)

Handle(type) == events # <<>> /\ Head(events).type = type /\ events' = Tail(events)

\* handleEnter().
HandleEnter ==
  /\ Handle("enter")
  /\ focused' = TRUE /\ claimed' = FALSE /\ did' = Nothing
  /\ position' = Head(events).at
  /\ enterSerial' = Head(events).serial
  /\ hit' = HoverCursor(Head(events).at)
  /\ UNCHANGED <<ready, enabled, system>>
  /\ UpdateCursorState
  /\ UNCHANGED <<setup, server, moving, hitTest, caption, went, clicks>>

\* handleLeave(): a compositor move takes the pointer, and with it the release.
HandleLeave ==
  /\ Handle("leave")
  /\ focused' = FALSE /\ enterSerial' = 0 /\ claimed' = FALSE /\ hit' = "default" /\ did' = Nothing
  /\ caption' = Cancelled(caption)
  /\ UNCHANGED <<ready, enabled, system, shown>>
  /\ UpdateCapture
  /\ UNCHANGED <<setup, server, moving, position, hitTest, went, clicks>>

\* handleMotion(), MotionNotify (ignored while X11 is captured), handlePositionEvent().
HandleMotion ==
  LET p == Head(events).at IN
  /\ Handle("motion")
  /\ UNCHANGED <<setup, server, link, enabled, system, hitTest, claimed, went>>
  /\ IF setup.backend = "x11" /\ captured
     THEN did' = Nothing /\ UNCHANGED <<position, hit, shown, captured, moving, caption, clicks>>
     ELSE /\ position' = p
          /\ Drag(p)
          /\ SetHitCursor(IF OnWayland /\ ~focused THEN "default" ELSE HoverCursor(p))

\* Wayland hit-tests the last position, X11 the event's, GLFW where the pointer is by now.
HandlePress ==
  /\ Handle("press")
  /\ IF OnWayland /\ ~focused
     THEN /\ claimed' = FALSE /\ did' = "press" /\ went' = [to |-> "application", from |-> position]
          /\ UNCHANGED <<caption, clicks, moving>>
     ELSE TakePress(IF OnWayland THEN position
                    ELSE IF setup.backend = "x11" THEN Head(events).at ELSE at)
  /\ UNCHANGED <<setup, server, link, position, cursor, hitTest>>

HandleRelease ==
  /\ Handle("release")
  /\ TakeRelease
  /\ UNCHANGED <<setup, server, link, position, cursor, hitTest>>

\* setFocused() on X11; GLFW lifts the disabled mode of an unfocused window and restores it.
HandleFocus ==
  /\ \E type \in {"focus", "unfocus"} : Handle(type) /\ focused' = (type = "focus")
  /\ did' = Nothing
  /\ UNCHANGED <<ready, enterSerial, enabled, system, shown, hit>>
  /\ UpdateCapture
  /\ UNCHANGED <<setup, server, moving, position, claims, hitTest>>

\* handleSeatCapabilities() without a pointer: detach().  The press is over: no event will end it.
HandleGone ==
  /\ Handle("gone")
  /\ ready' = FALSE /\ focused' = FALSE /\ enterSerial' = 0 /\ claimed' = FALSE /\ hit' = "default"
  /\ captured' = FALSE /\ did' = Nothing /\ went' = NoPress
  /\ UNCHANGED <<setup, server, shown, enabled, system, moving, position, hitTest, caption, clicks>>

\* handleSeatCapabilities() with one: initialize().
HandleBack ==
  /\ Handle("back")
  /\ ready' = TRUE /\ did' = Nothing
  /\ UNCHANGED <<setup, server, focused, enterSerial, cursor, moving, position, claims, hitTest>>

\* initialize() on X11 and GLFW, from createWindow(); only GLFW's shows what was asked so far.
Initialize ==
  /\ ~OnWayland /\ ~ready /\ ready' = TRUE
  /\ position' = at /\ did' = Nothing
  /\ UNCHANGED <<setup, server, moving, events, focused, enterSerial, hit, enabled, system, claims, hitTest>>
  /\ IF setup.backend = "glfw" THEN UpdateCursorState ELSE UNCHANGED <<shown, captured>>

-----------------------------------------------------------------------------
(* The application, from its callbacks or between polls.                     *)

\* setHitTest(); Wayland looks again at what is under the pointer.
SetHitTest ==
  /\ setup.claims /\ hitTest' \in BOOLEAN /\ hitTest' # hitTest
  /\ did' = Nothing
  /\ UNCHANGED <<setup, server, moving, events, link, position, enabled, system, claims>>
  /\ IF OnWayland
     THEN SetHitCursor(IF focused /\ hitTest' /\ setup.resizable /\ ZoneOf[position] = "edge"
                       THEN "resize" ELSE "default")
     ELSE UNCHANGED <<hit, shown, captured>>

SetCursorEnabled ==
  /\ setup.cursors
  /\ enabled' = ~enabled /\ did' = Nothing
  /\ UNCHANGED <<setup, server, moving, events, link, position, hit, system, claims, hitTest>>
  /\ UpdateCursorState

SetSystemCursor ==
  /\ setup.cursors
  /\ system' \in Shapes \ {"resize", system} /\ did' = Nothing
  /\ UNCHANGED <<setup, server, moving, events, link, position, hit, enabled, claims, hitTest>>
  /\ UpdateCursorState

-----------------------------------------------------------------------------
(* The server.                                                               *)

client == <<ready, focused, enterSerial, position, hit, enabled, system, captured, claimed, caption,
            hitTest, did, went>>

Send(event) == Len(events) < MaxEvents /\ events' = Append(events, event)

\* An enter resets the image.  X11 and GLFW report no crossing, only where the pointer is.
PointerEnters ==
  /\ ~inside /\ inside' = TRUE
  /\ ready /\ \A n \in 1 .. Len(events) : events[n].type \notin {"gone", "back"}
  /\ at' \in Points
  /\ IF OnWayland
     THEN /\ serial < MaxSerial /\ serial' = serial + 1 /\ entered' = serial'
          /\ shown' = "default"
          /\ Send([type |-> "enter", at |-> at', serial |-> serial'])
     ELSE Send([type |-> "motion", at |-> at']) /\ UNCHANGED <<serial, entered, shown>>
  /\ UNCHANGED <<setup, held, moving, client, clicks>>

\* A button that is held keeps the pointer, except on Wayland, where the compositor may take both.
PointerLeaves ==
  /\ inside /\ inside' = FALSE
  /\ IF OnWayland THEN held' = 0 /\ Send([type |-> "leave"]) ELSE held = 0 /\ UNCHANGED <<held, events>>
  /\ UNCHANGED <<setup, at, serial, entered, shown, moving, client, clicks>>

\* A Wayland lock keeps the pointer where it is.
PointerMoves ==
  /\ inside /\ ~(OnWayland /\ captured)
  /\ at' \in Points \ {at}
  /\ Send([type |-> "motion", at |-> at'])
  /\ UNCHANGED <<setup, inside, held, serial, entered, shown, moving, client, clicks>>

ButtonGoesDown ==
  /\ inside /\ held = 0 /\ serial < MaxSerial
  /\ serial' = serial + 1 /\ held' = serial'
  /\ Send([type |-> "press", at |-> at])
  /\ UNCHANGED <<setup, at, inside, entered, shown, moving, client, clicks>>

ButtonComesUp ==
  /\ held # 0 /\ held' = 0
  /\ Send([type |-> "release"])
  /\ UNCHANGED <<setup, at, inside, serial, entered, shown, moving, client, clicks>>

\* The server takes the pointer for the move it was asked for, or does not.
AnswerMove ==
  /\ moving /\ moving' = FALSE
  /\ \/ /\ held # 0 /\ held' = 0 /\ inside' = FALSE
        /\ IF OnWayland THEN Send([type |-> "leave"]) ELSE UNCHANGED events
     \/ UNCHANGED <<held, inside, events>>
  /\ UNCHANGED <<setup, at, serial, entered, shown, client, clicks>>

FocusChanges ==
  /\ ~OnWayland /\ ready /\ setup.cursors
  /\ \E type \in {"focus", "unfocus"} : Send([type |-> type])
  /\ UNCHANGED <<setup, server, shown, moving, client, clicks>>

\* The seat loses or regains its pointer.
SeatChanges ==
  /\ OnWayland
  /\ \A n \in 1 .. Len(events) : events[n].type \notin {"gone", "back"}
  /\ Send([type |-> IF ready THEN "gone" ELSE "back"])
  /\ inside' = FALSE /\ held' = 0
  /\ UNCHANGED <<setup, at, serial, entered, shown, moving, client, clicks>>

Tick ==
  /\ caption' = Aged(caption)
  /\ clicks' = {click \in Older(clicks) : click.age <= Interval}
  /\ did' = Nothing
  /\ UNCHANGED <<setup, server, shown, moving, events, link, position, hit, enabled, system, captured, claimed,
                 hitTest, went>>

Next ==
  \/ HandleEnter \/ HandleLeave \/ HandleMotion \/ HandlePress \/ HandleRelease \/ HandleFocus
  \/ HandleGone \/ HandleBack \/ Initialize
  \/ SetHitTest \/ SetCursorEnabled \/ SetSystemCursor
  \/ PointerEnters \/ PointerLeaves \/ PointerMoves \/ ButtonGoesDown \/ ButtonComesUp
  \/ AnswerMove \/ FocusChanges \/ SeatChanges \/ Tick

Spec == Init /\ [][Next]_vars

-----------------------------------------------------------------------------
(* Properties.                                                               *)

\* A release goes where its press went, whatever happened to the presses before it: a claim
\* whose release the window manager took does not swallow the release of a later press, and
\* the application never sees half of a claimed one (the assignments of pressClaimed_).
ReleaseStep == Handle("release") => (did' = "release") = (went.to = "application")
ReleaseFollowsPress == [][ReleaseStep]_vars

\* A press toggles maximize only when a press on the title bar close by preceded it, recently, and
\* neither a drag nor another double click came in between (CaptionGesture).
ToggleStep ==
  did' = "toggle" /\ did # "toggle" =>
    \E c \in clicks : c.age <= Interval /\ Distance(c.at, went'.from) <= Slop
DoubleClickIsTwoClicks == [][ToggleStep]_vars

\* The pointer is locked or grabbed only while the cursor is disabled and the window has the
\* focus; it always is then, but for an X11 grab that another client's refuses and for a
\* Wayland compositor without the protocols, which "only hides it" (docs/input.md, line 119).
CaptureFollowsFocus ==
  LET due == ~enabled /\ focused /\ ready IN
  CASE setup.backend = "x11" -> captured => due
    [] OnWayland /\ ~setup.locks -> ~captured
    [] OTHER -> captured = due

\* Once the client has caught up, the server shows the image the application asked for: a
\* disabled cursor stays hidden across a leave and an enter (applyCursorState()).
CursorIsAsked ==
  events = <<>> /\ ready =>
    IF OnWayland
    THEN focused /\ inside /\ (setup.theme \/ ~enabled) => shown = Image
    ELSE shown = Image

=============================================================================
