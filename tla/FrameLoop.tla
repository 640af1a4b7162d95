-------------------------------- MODULE FrameLoop --------------------------------
(***************************************************************************)
(* IWindowManager::process() and its pace (IWindowManager.cpp 78-107,      *)
(* FrameTimer.hpp, FramePacing.hpp): a loop of pollEvents(), the           *)
(* application's actions, the present and a timer. A software window with  *)
(* vsync is paced by its present where that waits for the display, and     *)
(* else by a cap at the display's rate, which is read once and then only   *)
(* when the backend says that the display changed: SDL has an event for it,*)
(* X11 takes a new position and a new screen layout for one.               *)
(***************************************************************************)
EXTENDS Naturals, Sequences

CONSTANTS
  Setups,    \* [backend, api, vsync, targetFPS, waits, known, growing]
  Places,    \* positions of the window
  Extents,   \* sizes of the window
  Edge,      \* where the second monitor begins
  Rates,     \* refresh rates of the monitors
  Second,    \* ticks of the clock in a second
  MaxSpent,  \* the longest a frame may take, in ticks
  MaxEvents  \* bound: changes of the display

kUnpacedVsyncFPS == 1
Unknown == 0
Monitors == {0, 1}

SetupsAssumption ==
  \A s \in Setups : s.backend \in {"sdl", "x11"} /\ s.targetFPS \in Nat /\ s.waits \in BOOLEAN
PlacesAssumption == 0 \in Places
TicksAssumption == Second \in Nat /\ MaxSpent \in Nat
RatesAssumption ==
  Unknown \notin Rates /\ \A r \in Rates \cup {kUnpacedVsyncFPS} : r \in Nat /\ r * (Second \div r) = Second

VARIABLES
  setup,    \* the backend, WindowDetails, whether its present waits, whether it knows the rate
  display,  \* where the window is and what the monitors run at
  sent,     \* the events the loop has not polled
  last,     \* X11: lastX_ and lastY_
  changed,  \* displayChanged_
  waits,    \* presentWaitsForDisplay()
  rate,     \* process(): refreshHz and haveRefreshHz
  timer,    \* FrameTimer: the target of the frame and the time since its beginning
  phase,    \* where the loop is
  events    \* how many changes of the display there were

vars == <<setup, display, sent, last, changed, waits, rate, timer, phase, events>>

\* The monitor under the window's centre.
Monitor(d) == IF d.place + d.extent \div 2 < Edge THEN 0 ELSE 1

\* displayRefreshHz(): 0 without RandR, and on Wayland and GLFW.
DisplayRefreshHz == IF setup.known THEN display.rates[Monitor(display)] ELSE Unknown

\* X11 tells a window where it was mapped.
Init ==
  /\ setup \in Setups
  /\ display \in [place : Places, extent : Extents, rates : [Monitors -> Rates]]
  /\ sent = IF setup.backend = "x11" THEN <<[is |-> "configured", place |-> display.place]>> ELSE <<>>
  /\ last = 0 /\ changed = FALSE
  /\ waits = setup.waits
  /\ rate = [hz |-> Unknown, have |-> FALSE]
  /\ timer = [target |-> 0, spent |-> 0, delta |-> 0, held |-> 0]
  /\ phase = "polling" /\ events = 0

(***************************************************************************)
(* The display.                                                            *)
(***************************************************************************)
Sdl == setup.backend = "sdl"

Announce(d) ==
  IF Sdl
  THEN IF d.rates[Monitor(d)] # display.rates[Monitor(display)] \/ Monitor(d) # Monitor(display)
       THEN <<[is |-> "display"]>> ELSE <<>>
  ELSE IF d.rates # display.rates THEN <<[is |-> "display"]>>
       ELSE <<[is |-> "configured", place |-> d.place]>>

\* The window moves or is resized, or a monitor changes its mode. A window that grows without
\* moving may come to lie on the other monitor: only where setup.growing.
DisplayChanges ==
  /\ events < MaxEvents /\ events' = events + 1
  /\ \/ \E place \in Places, extent \in Extents :
          /\ display' = [display EXCEPT !.place = place, !.extent = extent]
          /\ place = display.place /\ Monitor(display') # Monitor(display) => Sdl \/ setup.growing
     \/ \E m \in Monitors, r \in Rates : display' = [display EXCEPT !.rates[m] = r]
  /\ display' # display
  /\ sent' = sent \o Announce(display')
  /\ UNCHANGED <<setup, last, changed, waits, rate, timer, phase>>

(***************************************************************************)
(* process().                                                              *)
(***************************************************************************)
\* handleWindowEvent() and SDL's events.
Marks(e) == e.is = "display" \/ e.place # last

PollEvent ==
  /\ phase = "polling" /\ sent # <<>>
  /\ sent' = Tail(sent)
  /\ changed' = (changed \/ Marks(Head(sent)))
  /\ last' = IF Head(sent).is = "configured" THEN Head(sent).place ELSE last
  /\ UNCHANGED <<setup, display, waits, rate, timer, phase, events>>

CapsAtDisplayRate == setup.targetFPS = 0 /\ setup.vsync /\ setup.api = "cpu" /\ ~waits

EffectiveTargetFPS(hz) ==
  IF setup.targetFPS > 0 THEN setup.targetFPS
  ELSE IF CapsAtDisplayRate THEN IF hz # Unknown THEN hz ELSE kUnpacedVsyncFPS
  ELSE 0

Period(fps) == IF fps = 0 THEN 0 ELSE Second \div fps

\* A plausible mistake: the rate is read once.
ReadsOnce == CapsAtDisplayRate /\ ~rate.have

Reads == CapsAtDisplayRate /\ (changed \/ ~rate.have)

\* With the queue empty: takeDisplayChanged(), the rate, setTargetFPS().
Decide ==
  /\ phase = "polling" /\ sent = <<>>
  /\ rate' = IF Reads THEN [hz |-> DisplayRefreshHz, have |-> TRUE] ELSE rate
  /\ changed' = FALSE
  /\ timer' = [timer EXCEPT !.target = Period(EffectiveTargetFPS(rate'.hz))]
  /\ phase' = "acting"
  /\ UNCHANGED <<setup, display, sent, last, waits, events>>

\* actions() and swapBuffers() take their time, and Present may be lost for good (X11).
Act ==
  /\ phase = "acting" /\ phase' = "pacing"
  /\ \E spent \in 0..MaxSpent : timer' = [timer EXCEPT !.spent = spent]
  /\ waits' \in (IF setup.backend = "x11" THEN {waits, FALSE} ELSE {waits})
  /\ UNCHANGED <<setup, display, sent, last, changed, rate, events>>

\* endFrame() sleeps and spins until the frame has had its time, and the next frame begins.
Slept == IF timer.spent < timer.target THEN timer.target ELSE timer.spent

EndFrame ==
  /\ phase = "pacing" /\ phase' = "polling"
  /\ timer' = [timer EXCEPT !.spent = 0, !.delta = Slept, !.held = timer.target]
  /\ UNCHANGED <<setup, display, sent, last, changed, waits, rate, events>>

Next == DisplayChanges \/ PollEvent \/ Decide \/ Act \/ EndFrame

Spec == Init /\ [][Next]_vars

(***************************************************************************)
(* Properties.                                                             *)
(***************************************************************************)
TypeOK ==
  /\ display \in [place : Places, extent : Extents, rates : [Monitors -> Rates]] /\ last \in Places
  /\ waits \in BOOLEAN /\ changed \in BOOLEAN /\ rate.hz \in Rates \cup {Unknown} /\ rate.have \in BOOLEAN
  /\ timer.spent \in 0..MaxSpent /\ phase \in {"polling", "acting", "pacing"}

\* A software window with vsync and no rate of its own never runs faster than its display: it waits
\* in the present, or its frames are held to the rate of the monitor it is on now, once the events
\* that say so are polled, whichever of losing Present and changing the monitor came first.
LoopIsPaced ==
  /\ phase = "acting" /\ sent = <<>> /\ setup.vsync /\ setup.api = "cpu" /\ setup.targetFPS = 0 =>
       waits \/ timer.target = Second \div (IF setup.known THEN display.rates[Monitor(display)] ELSE kUnpacedVsyncFPS)
  /\ timer.delta >= timer.held

=============================================================================
