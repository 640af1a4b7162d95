------------------------------- MODULE WindowState -------------------------------
(***************************************************************************)
(* What a native window knows of itself: size, maximized, decorations and  *)
(* the request to close (WaylandWindowManager.cpp 701-735, 815-831 and     *)
(* 1088-1176; X11WindowManager.cpp 304-377, 593-688 and 749-777).          *)
(* A Wayland compositor sends a configuration in parts that count when the *)
(* last one arrives, and may leave the size to the client; an X server     *)
(* says what changed, or only that something did. Requests are answered    *)
(* later, or never. One size stands for width and height.                  *)
(***************************************************************************)
EXTENDS Naturals, Sequences, SequencesExt

CONSTANTS
  Sizes,     \* sizes of the window
  Asked,     \* WindowDetails: the size it is created with
  Backends,  \* {"wayland"}, {"x11"} or both
  MaxEvents  \* bound: what the server sends

\* A configuration that leaves the size to the client.
Unset == 0

SizesAssumption == Asked \in Sizes /\ Unset \notin Sizes

VARIABLES
  setup,    \* the backend
  window,   \* windowDetails_, maximized_, decorationMode_, windowShouldClose_, WindowFlags::resized
  pending,  \* Wayland: the configuration that is being received
  floating, \* Wayland: floatingWidth_ and floatingHeight_
  taken,    \* the size the application has laid itself out for
  server,   \* what the display server has decided
  sent,     \* the events it has sent
  events    \* how many events it has sent

vars == <<setup, window, pending, floating, taken, server, sent, events>>

Wayland == setup = "wayland"
States == {"floating", "maximized", "fullscreen"}

Init ==
  /\ setup \in Backends
  /\ window = [size |-> Asked, maximized |-> FALSE, served |-> FALSE, closing |-> FALSE, resized |-> FALSE]
  /\ pending = [size |-> Unset, maximized |-> FALSE, floating |-> TRUE, served |-> FALSE]
  /\ floating = Asked
  /\ taken = Asked
  /\ server = [size |-> Asked, floating |-> Asked, state |-> "floating", served |-> FALSE, closing |-> FALSE]
  /\ sent = <<>> /\ events = 0

(***************************************************************************)
(* The display server.                                                     *)
(***************************************************************************)
Send(messages) ==
  /\ events < MaxEvents /\ events' = events + 1
  /\ sent' = sent \o messages

\* A Wayland configuration: of the toplevel, of the decoration or of both, and then of the surface.
\* Where the size is left to it a client keeps its size, and its floating one when it floats again.
Configures(size, state, served, parts) ==
  LET now == IF "toplevel" \in parts THEN state ELSE server.state
      given == IF "toplevel" \in parts THEN size ELSE Unset
      held == IF given # Unset THEN given ELSE IF now = "floating" THEN server.floating ELSE server.size IN
  /\ Wayland /\ parts # {}
  /\ Send((IF "toplevel" \in parts THEN <<[is |-> "toplevel", size |-> size, state |-> state]>> ELSE <<>>)
          \o (IF "decoration" \in parts THEN <<[is |-> "decoration", served |-> served]>> ELSE <<>>)
          \o <<[is |-> "surface"]>>)
  /\ server' = [server EXCEPT !.size = held, !.state = now,
                              !.floating = IF now = "floating" THEN held ELSE @,
                              !.served = IF "decoration" \in parts THEN served ELSE @]

\* X11: a new size, or a new _NET_WM_STATE, which the event does not carry.
Reconfigures(size) ==
  /\ ~Wayland /\ size # server.size
  /\ Send(<<[is |-> "configured", size |-> size]>>)
  /\ server' = [server EXCEPT !.size = size]

Restates(state) ==
  /\ ~Wayland /\ state # server.state
  /\ Send(<<[is |-> "property"]>>)
  /\ server' = [server EXCEPT !.state = state]

AsksToClose ==
  /\ Send(<<[is |-> "close"]>>)
  /\ server' = [server EXCEPT !.closing = TRUE]

\* minimize(), maximize() and restore() only ask, and the server decides as it likes, or not at all:
\* what it does for a request it may do on its own.
Decides ==
  /\ \/ \E size \in Sizes \cup {Unset}, state \in States, served \in BOOLEAN,
           parts \in SUBSET {"toplevel", "decoration"} : Configures(size, state, served, parts)
     \/ \E size \in Sizes : Reconfigures(size)
     \/ \E state \in States : Restates(state)
     \/ AsksToClose
  /\ UNCHANGED <<setup, window, pending, floating, taken>>

(***************************************************************************)
(* The listeners, called for the oldest event.                             *)
(***************************************************************************)
Resized(size) ==
  [window EXCEPT !.size = size, !.resized = @ \/ size # window.size]

\* handleXdgToplevelConfigure() and handleXdgToplevelDecorationConfigure().
ToplevelConfigure(e) ==
  /\ pending' = [pending EXCEPT !.size = e.size, !.maximized = e.state = "maximized",
                                !.floating = e.state = "floating"]
  /\ UNCHANGED <<window, floating>>

DecorationConfigure(e) ==
  /\ pending' = [pending EXCEPT !.served = e.served]
  /\ UNCHANGED <<window, floating>>

\* A plausible mistake: a size the compositor leaves open is always the present one.
NotFloated == IF pending.size # Unset THEN pending.size ELSE window.size

\* handleXdgSurfaceConfigure().
Granted == IF pending.size # Unset THEN pending.size ELSE IF pending.floating THEN floating ELSE window.size
Committed == [pending EXCEPT !.size = Unset]

SurfaceConfigure ==
  /\ window' = [Resized(Granted) EXCEPT !.maximized = pending.maximized, !.served = pending.served]
  /\ floating' = IF pending.floating THEN Granted ELSE floating
  /\ pending' = Committed

\* handleWindowEvent().
ConfigureNotify(e) ==
  /\ window' = Resized(e.size)
  /\ UNCHANGED <<pending, floating>>

\* refreshMaximized() reads the property as it is by now.
RefreshMaximized == server.state = "maximized"
PropertyNotify ==
  /\ window' = [window EXCEPT !.maximized = RefreshMaximized]
  /\ UNCHANGED <<pending, floating>>

CloseRequested ==
  /\ window' = [window EXCEPT !.closing = TRUE]
  /\ UNCHANGED <<pending, floating>>

Dispatch ==
  /\ sent # <<>> /\ sent' = Tail(sent)
  /\ LET e == Head(sent) IN
       \/ e.is = "toplevel" /\ ToplevelConfigure(e)
       \/ e.is = "decoration" /\ DecorationConfigure(e)
       \/ e.is = "surface" /\ SurfaceConfigure
       \/ e.is = "configured" /\ ConfigureNotify(e)
       \/ e.is = "property" /\ PropertyNotify
       \/ e.is = "close" /\ CloseRequested
  /\ UNCHANGED <<setup, taken, server, events>>

(***************************************************************************)
(* The application.                                                        *)
(***************************************************************************)
Close ==
  /\ ~window.closing /\ window' = [window EXCEPT !.closing = TRUE]
  /\ UNCHANGED <<setup, pending, floating, taken, server, sent, events>>

TakeResize ==
  /\ window.resized
  /\ window' = [window EXCEPT !.resized = FALSE]
  /\ taken' = window.size
  /\ UNCHANGED <<setup, pending, floating, server, sent, events>>

Next ==
  \/ Decides \/ Dispatch \/ Close \/ TakeResize

Spec == Init /\ [][Next]_vars
(***************************************************************************)
(* Properties.                                                             *)
(***************************************************************************)
Kinds == {"toplevel", "decoration", "surface", "configured", "property", "close"}

TypeOK ==
  /\ window.size \in Sizes /\ floating \in Sizes /\ taken \in Sizes /\ pending.size \in Sizes \cup {Unset}
  /\ \A v \in {window.maximized, window.served, window.closing, window.resized, pending.maximized, pending.floating} :
       v \in BOOLEAN
  /\ \A i \in DOMAIN sent : sent[i].is \in Kinds

\* Whatever order configurations, partial ones, requests and answers come in: a window whose events
\* are all handled has the size, the state and the decorations the server decided last. A window that
\* floats again has its floating size, a configuration in parts is never seen half, and a size the
\* application has not taken is flagged.
StateFollowsServer ==
  /\ sent = <<>> =>
       /\ window.size = server.size /\ window.maximized = (server.state = "maximized")
       /\ window.served = server.served
       /\ server.closing => window.closing
  /\ taken # window.size => window.resized

=============================================================================
