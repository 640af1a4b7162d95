------------------------------- MODULE SdlPointer -------------------------------
(***************************************************************************)
(* The pointer on the SDL backend: FrameHitTest (SdlFrameHitTest.cpp), the *)
(* bridge between the application's hit test and SDL's own, and            *)
(* SDLMouseListener.                                                       *)
(*                                                                         *)
(* SDL asks the bridge (thunk()) when it reads a press, which may be long  *)
(* before the application polls the events SDL queued earlier.  On Wayland *)
(* the bridge also listens to the seat, on a queue of its own that it      *)
(* dispatches when it is pumped; of that queue the model keeps what the    *)
(* seat will be then (heard).  One seat, one pointer.                      *)
(***************************************************************************)
EXTENDS Integers, Sequences, CaptionGesture

CONSTANTS
  ZoneOf,     \* the application's hit test
  Setups,     \* the video driver, and what the application does
  MaxSerial,  \* bound on the presses
  MaxEvents   \* bound on the events SDL has queued

SetupsAssumption ==
  Setups \subseteq [driver : {"wayland", "other"},
                    claims : BOOLEAN,    \* it installs hit tests, not while it holds a press
                    cursors : BOOLEAN]   \* it disables the cursor
PressesAssumption == MaxSerial \in Nat

VARIABLES
  setup,
  at,         \* SDL: the position it last reported
  held,       \* server: the serial of the button's press, 0 when up or taken
  serial,     \* server: the last serial
  dragging,   \* server: SDL started a move or resize of the window
  events,     \* SDL's queue
  seat,       \* the bridge's seat: [latest, pressed, serial]
  heard,      \* what the events of the seat that are not pumped yet will make of it
  hitTest,    \* frameHitTest_ exists
  caption,    \* caption_
  pending,    \* releasePending_
  first,      \* firstMouse_
  enabled,    \* cursorEnabled_
  relative,   \* SDL: the window is in relative mode
  did,        \* what the last step did
  went,       \* history: where the press went, and where it was
  clicks      \* history: the presses on the title bar that may become a double click

sdl == <<at, held, serial, dragging>>
bridge == <<hitTest, caption, pending>>
mouse == <<first, enabled, relative>>
vars == <<setup, sdl, events, seat, heard, bridge, mouse, did, went, clicks>>

Nothing == "nothing"
NoPress == [to |-> Nothing, from |-> 0]
NoSeat == [latest |-> FALSE, pressed |-> FALSE, serial |-> 0]
OnWayland == setup.driver = "wayland"

TypeOK ==
  /\ setup \in Setups
  /\ at \in Points
  /\ {held, serial} \subseteq 0 .. MaxSerial
  /\ {dragging, hitTest, pending, first, enabled, relative} \subseteq BOOLEAN
  /\ events \in Seq([type : {"down", "motion", "test"}, at : Points]
                    \cup [type : {"up", "moved", "unfocused"}])
  /\ {seat, heard} \subseteq [latest : BOOLEAN, pressed : BOOLEAN, serial : 0 .. MaxSerial]
  /\ caption \in Gestures
  /\ did \in {Nothing, "press", "release", "toggle", "motion", "move"}
  /\ went \in [to : {Nothing, "application", "caption"}, from : Points \cup {0}]
  /\ clicks \subseteq [at : Points, age : Ages]

Init ==
  /\ setup \in Setups
  /\ at \in Points /\ held = 0 /\ serial = 0 /\ dragging = FALSE
  /\ events = <<>> /\ seat = NoSeat /\ heard = NoSeat
  /\ hitTest = FALSE /\ caption = Idle /\ pending = FALSE
  /\ first = TRUE /\ enabled = TRUE /\ relative = FALSE
  /\ did = Nothing /\ went = NoPress /\ clicks = {}

-----------------------------------------------------------------------------
(* Plausible mistakes in the code below: the runs are known to catch them.  *)

\* startMove() goes by the events of the last poll.
StartWithoutPump ==
  UNCHANGED <<seat, heard>> /\ did' = IF seat.latest /\ seat.pressed THEN "move" ELSE "nothing"

-----------------------------------------------------------------------------
(* The seat on the private queue.                                           *)

Listen(s, event) ==
  IF event.type = "press" THEN [latest |-> TRUE, pressed |-> TRUE, serial |-> event.serial]
  ELSE [s EXCEPT !.pressed = FALSE]

Pump == seat' = heard /\ UNCHANGED heard

\* startMove(): with the press the seat holds, when it holds one over the window.
StartMove ==
  /\ Pump
  /\ did' = IF seat'.latest /\ seat'.pressed THEN "move" ELSE Nothing

-----------------------------------------------------------------------------
(* The bridge: consume().                                                   *)

Take(type) == events # <<>> /\ Head(events).type = type /\ events' = Tail(events)
Here == Head(events).at

\* SDL started a move or resize; the bridge looks where the pointer is now.
ConsumeHitTest ==
  /\ Take("test") /\ hitTest
  /\ IF ZoneOf[at] = "caption"
     THEN caption' = Clicked(caption, at) /\ clicks' = clicks \cup Click(at)
     ELSE UNCHANGED <<caption, clicks>>
  /\ did' = Nothing
  /\ UNCHANGED <<setup, sdl, seat, heard, hitTest, pending, mouse, went>>

\* The window moved, or lost the focus.
ConsumeMoved ==
  /\ \E type \in {"moved", "unfocused"} :
       Take(type) /\ clicks' = IF type = "moved" THEN {} ELSE clicks
  /\ caption' = IF hitTest THEN Cancelled(caption) ELSE caption
  /\ did' = Nothing
  /\ UNCHANGED <<setup, sdl, seat, heard, hitTest, pending, mouse, went>>

\* A press on the title bar is the bridge's, any other the listener's.
ConsumeDown ==
  LET claims == hitTest /\ ZoneOf[Here] = "caption"
      double == claims /\ IsDoubleClick(caption, Here)
  IN /\ Take("down")
     /\ caption' = IF claims THEN Press(caption, Here) ELSE caption
     /\ pending' = (pending \/ claims)
     /\ clicks' = IF double THEN {} ELSE IF claims THEN clicks \cup Click(Here) ELSE clicks
     /\ went' = [to |-> IF claims THEN "caption" ELSE "application", from |-> Here]
     /\ did' = IF double THEN "toggle" ELSE IF claims THEN Nothing ELSE "press"
     /\ UNCHANGED <<setup, sdl, seat, heard, hitTest, mouse>>

\* Motion reaches the listener too, which discards the first one it ever sees.
ConsumeMotion ==
  LET starts == hitTest /\ Travels(caption, Here) IN
  /\ Take("motion")
  /\ caption' = IF hitTest THEN Moved(caption, Here) ELSE caption
  /\ clicks' = IF went.to = "caption" /\ Distance(went.from, Here) >= DragThreshold THEN {} ELSE clicks
  /\ IF starts /\ OnWayland THEN StartMove
     ELSE did' = (IF first THEN Nothing ELSE "motion") /\ UNCHANGED <<seat, heard>>
  /\ first' = FALSE
  /\ UNCHANGED <<setup, sdl, hitTest, pending, enabled, relative, went>>

ConsumeUp ==
  LET claims == hitTest /\ pending IN
  /\ Take("up")
  /\ pending' = FALSE
  /\ caption' = IF claims THEN Released(caption) ELSE caption
  /\ did' = IF claims THEN Nothing ELSE "release"
  /\ went' = NoPress
  /\ UNCHANGED <<setup, sdl, seat, heard, hitTest, mouse, clicks>>

-----------------------------------------------------------------------------
(* The application.                                                         *)

\* pollEvents() pumps the bridge before it reads SDL's queue.
PollPumps ==
  /\ hitTest /\ heard # seat /\ Pump /\ did' = Nothing
  /\ UNCHANGED <<setup, sdl, events, bridge, mouse, went, clicks>>

\* setHitTest(): another bridge, with a seat of its own, or none.
SetHitTest ==
  /\ setup.claims /\ ~pending
  /\ hitTest' \in BOOLEAN /\ (hitTest \/ hitTest')
  /\ caption' = Idle /\ pending' = FALSE
  /\ seat' = NoSeat /\ heard' = NoSeat
  /\ clicks' = {} /\ did' = Nothing
  /\ UNCHANGED <<setup, sdl, events, mouse, went>>

\* setCursorEnabled() and updateCursorState().
SetCursorEnabled ==
  /\ setup.cursors
  /\ enabled' = ~enabled /\ relative' = ~enabled'
  /\ did' = Nothing
  /\ UNCHANGED <<setup, sdl, events, seat, heard, bridge, first, went, clicks>>

-----------------------------------------------------------------------------
(* SDL reads the server's events.                                           *)

client == <<bridge, mouse, went, clicks, seat>>
Queue(event) == Len(events) < MaxEvents /\ events' = Append(events, event)
SeatHears(event) == heard' = IF OnWayland /\ hitTest THEN Listen(heard, event) ELSE heard

\* thunk(), asked at the press: the title bar is SDL's to move, unless the bridge does it
\* (Wayland) or a second click is expected.
SdlTakes == hitTest /\ ZoneOf[at] = "caption" /\ ~OnWayland /\ ~ArmedNear(caption, at)
SdlResizes == hitTest /\ ZoneOf[at] = "edge"

PressArrives ==
  /\ held = 0 /\ serial < MaxSerial
  /\ serial' = serial + 1 /\ held' = serial'
  /\ dragging' = (SdlTakes \/ SdlResizes)
  /\ Queue([type |-> IF dragging' THEN "test" ELSE "down", at |-> at])
  /\ SeatHears([type |-> "press", serial |-> serial'])
  /\ did' = Nothing
  /\ UNCHANGED <<setup, at, client>>

\* SDL reports the release of a press it reported.
ReleaseArrives ==
  /\ held # 0 /\ held' = 0 /\ dragging' = FALSE
  /\ IF dragging THEN UNCHANGED events ELSE Queue([type |-> "up"])
  /\ SeatHears([type |-> "release"])
  /\ did' = Nothing
  /\ UNCHANGED <<setup, at, serial, client>>

MotionArrives ==
  /\ ~dragging
  /\ at' \in Points \ {at}
  /\ Queue([type |-> "motion", at |-> at'])
  /\ did' = Nothing
  /\ UNCHANGED <<setup, held, serial, dragging, heard, client>>

\* The window manager moved the window by the press SDL gave it.
WindowMoves ==
  /\ dragging /\ ZoneOf[at] = "caption"
  /\ Queue([type |-> "moved"]) /\ did' = Nothing
  /\ UNCHANGED <<setup, sdl, heard, client>>

FocusLeaves ==
  /\ Queue([type |-> "unfocused"]) /\ did' = Nothing
  /\ UNCHANGED <<setup, sdl, heard, client>>

\* The compositor takes the pointer for a move; SDL makes up the release.
CompositorTakes ==
  /\ OnWayland /\ held # 0 /\ ~dragging
  /\ held' = 0
  /\ Queue([type |-> "up"]) /\ SeatHears([type |-> "leave"])
  /\ did' = Nothing
  /\ UNCHANGED <<setup, at, serial, dragging, client>>

Tick ==
  /\ caption' = Aged(caption)
  /\ clicks' = {click \in Older(clicks) : click.age <= Interval}
  /\ did' = Nothing
  /\ UNCHANGED <<setup, sdl, events, seat, heard, hitTest, pending, mouse, went>>

\* An event of the window for which no bridge is installed.
DropHitTest ==
  /\ Take("test") /\ ~hitTest /\ did' = Nothing
  /\ UNCHANGED <<setup, sdl, heard, client>>

Next ==
  \/ ConsumeHitTest \/ ConsumeMoved \/ ConsumeDown \/ ConsumeMotion \/ ConsumeUp \/ DropHitTest
  \/ PollPumps \/ SetHitTest \/ SetCursorEnabled
  \/ PressArrives \/ ReleaseArrives \/ MotionArrives \/ WindowMoves \/ FocusLeaves \/ CompositorTakes
  \/ Tick

Spec == Init /\ [][Next]_vars

-----------------------------------------------------------------------------
(* Properties.                                                              *)

\* A release goes where its press went (releasePending_).
ReleaseStep == Take("up") => (did' = "release") = (went.to = "application")
ReleaseFollowsPress == [][ReleaseStep]_vars

\* As in NativePointer, with the presses SDL moved the window by among the clicks.
ToggleStep ==
  did' = "toggle" /\ did # "toggle" =>
    \E c \in clicks : c.age <= Interval /\ Distance(c.at, went'.from) <= Slop
DoubleClickIsTwoClicks == [][ToggleStep]_vars

\* The bridge asks the compositor for a move with the serial of the press that is held, or not
\* at all (WaylandSeats::startMove()).
MoveStep == did' = "move" /\ did # "move" => seat'.serial = held /\ held # 0
MoveUsesHeldPress == [][MoveStep]_vars

=============================================================================
