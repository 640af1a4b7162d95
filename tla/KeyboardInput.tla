----------------------------- MODULE KeyboardInput -----------------------------
(***************************************************************************)
(* From the keyboard to the application's callbacks, on the two native     *)
(* backends: the events of the display server, the translation of a key    *)
(* (WaylandKeyboardListener.cpp, X11KeyboardListener.cpp), and the         *)
(* KeyboardListener they share, with its held keys, its input contexts and *)
(* its binding tables.                                                     *)
(*                                                                         *)
(* The client is one thread, but a callback runs inside the dispatch of an *)
(* event and may call the listener again: a dispatch is several steps, and *)
(* the application's calls come between any two of them.                   *)
(***************************************************************************)
EXTENDS Naturals, Sequences

CONSTANTS
  PhysicalKeys,
  Shift,        \* the physical key that changes the level of the others
  Keys,         \* enum Key
  Unknown,      \* KEY_UNKNOWN
  Setups,       \* a backend and a layout: what each key is named, and its position
  MaxContexts,  \* bound: contexts the application uses
  Used,         \* bound: the callbacks the application installs, see Slots
  MaxDepth,     \* bound on the stack of contexts
  Relayouts,    \* whether the compositor may send the keymap again
  MaxEvents     \* bound on the events on their way to the client

Levels == {0, 1}

ShiftAssumption == Shift \in PhysicalKeys
UnknownAssumption == Unknown \notin Keys
StreamsAssumption == {"event", "text"} \cap Keys = {}
SetupsAssumption ==
  Setups \subseteq [backend : {"x11", "wayland"},
                    named : [PhysicalKeys \X Levels -> Keys \cup {Unknown}],
                    position : [PhysicalKeys -> Keys]]
RelayoutsAssumption == Relayouts \in BOOLEAN
BoundsAssumption == MaxContexts \in Nat \ {0} /\ MaxDepth \in Nat /\ MaxEvents \in Nat

Contexts == 0 .. MaxContexts - 1

\* Where a callback is kept: a context's binding of a key, its key-event action, its
\* text-input action.
Slots == Contexts \X (Keys \cup {"event", "text"})

UsedAssumption == Used \subseteq Slots

VARIABLES
  setup,     \* the backend and the layout
  pressed,   \* keyboard: the keys that are physically down
  focused,   \* server: the window has the focus
  seen,      \* server: the keys whose press it has sent since the focus came
  events,    \* events sent by the server, not dispatched yet
  mapped,    \* Wayland: xkbState_ exists
  level,     \* Wayland: the modifiers in xkbState_
  down,      \* keyDown_
  active,    \* activeContext_
  stack,     \* stack_
  capacity,  \* the size of keyBindings_, keyEventActions_ and textInputActions_
  installed, \* the slots that hold a callback
  call,      \* the callback that is running, or Idle
  destroyed, \* the callback that is running was destroyed meanwhile
  fired,     \* history: keys whose binding fired and that have not come up since
  taken      \* history: keys whose last event the input method took

server == <<setup, pressed, focused, seen>>
xkb == <<mapped, level>>
contexts == <<active, stack>>
tables == <<capacity, installed>>
vars == <<server, events, xkb, down, contexts, tables, call, destroyed, fired, taken>>

Idle == [press |-> FALSE]

Calls == {Idle} \cup [slot : Slots, key : Keys \cup {Unknown}, press : BOOLEAN]

\* X11 puts no repeat flag on a press: the client never reads repeat.
Events ==
  [type : {"press"}, key : PhysicalKeys, repeat : BOOLEAN] \cup [type : {"release"}, key : PhysicalKeys]
  \cup [type : {"modifiers"}, level : Levels]
  \cup [type : {"enter", "leave", "keymap"}]

TypeOK ==
  /\ setup \in Setups
  /\ pressed \subseteq PhysicalKeys /\ seen \subseteq PhysicalKeys
  /\ focused \in BOOLEAN
  /\ events \in Seq(Events)
  /\ mapped \in BOOLEAN /\ level \in Levels
  /\ down \subseteq Keys
  /\ active \in Contexts /\ stack \in Seq(Contexts)
  /\ capacity \in 1 .. MaxContexts
  /\ installed \subseteq {slot \in Slots : slot[1] < capacity}
  /\ call \in Calls
  /\ destroyed \in BOOLEAN
  /\ fired \subseteq Keys /\ taken \subseteq Keys

\* The default context exists.  The keymap has arrived: it comes before the first key.
Init ==
  /\ setup \in Setups
  /\ pressed = {} /\ focused = FALSE /\ seen = {}
  /\ events = <<>>
  /\ mapped = TRUE /\ level = 0
  /\ down = {}
  /\ active = 0 /\ stack = <<>>
  /\ capacity = 1 /\ installed = {}
  /\ call = Idle /\ destroyed = FALSE
  /\ fired = {} /\ taken = {}

-----------------------------------------------------------------------------
(* Plausible mistakes in the code below: the runs are known to catch them.  *)

\* The X11 backend takes every KeyPress for a fresh one.
NeverRepeats(key) == FALSE

\* A callback table is written at an id it has not grown to.
NoRoom(context) == UNCHANGED capacity

\* The focus goes, the held keys stay.
LeaveKeepsKeys ==
  /\ call = Idle
  /\ events # <<>> /\ Head(events) = [type |-> "leave"]
  /\ events' = Tail(events)
  /\ fired' = {} /\ taken' = {}
  /\ UNCHANGED <<server, xkb, down, contexts, tables, call, destroyed>>

-----------------------------------------------------------------------------
(* The translation of a key.                                                *)

\* keyFor(): the keysym's name under the modifiers xkb knows of, or the position.
WaylandKeyFor(key) ==
  LET named == setup.named[key, level] IN
  IF mapped /\ named # Unknown THEN named ELSE setup.position[key]

\* XLookupKeysym(event, 0) is the same whatever the modifiers.
X11KeyFor(key) == setup.named[key, 0]

KeyFor(key) == IF setup.backend = "wayland" THEN WaylandKeyFor(key) ELSE X11KeyFor(key)

Wayland == setup.backend = "wayland"

\* A repeat is a press of a key that is already held.  Wayland sends none.
IsRepeat(key) == setup.backend = "x11" /\ key \in down

-----------------------------------------------------------------------------
(* Contexts and the callbacks installed in them.                            *)

Resolved == IF stack = <<>> THEN active ELSE stack[Len(stack)]

EnsureContextCapacity(context) ==
  capacity' = IF capacity <= context THEN context + 1 ELSE capacity

\* setActiveContext(), pushContext() and popContext() take any id.
SetActiveContext ==
  /\ active' \in Contexts
  /\ UNCHANGED <<server, events, xkb, down, stack, tables, call, destroyed, fired, taken>>

PushContext ==
  /\ Len(stack) < MaxDepth
  /\ \E context \in Contexts : stack' = Append(stack, context)
  /\ UNCHANGED <<server, events, xkb, down, active, tables, call, destroyed, fired, taken>>

PopContext ==
  /\ stack # <<>>
  /\ stack' = SubSeq(stack, 1, Len(stack) - 1)
  /\ UNCHANGED <<server, events, xkb, down, active, tables, call, destroyed, fired, taken>>

\* createContext()
CreateContext ==
  /\ \E context \in Contexts : EnsureContextCapacity(context)
  /\ UNCHANGED <<server, events, xkb, down, contexts, installed, call, destroyed, fired, taken>>

\* Assigning a slot destroys the closure in it, also the one that is running.
Assign(slots) == destroyed' = (destroyed \/ (call # Idle /\ call.slot \in slots))

\* addKeyAction(), setKeyEventAction(), setTextInputAction()
Install ==
  /\ \E slot \in Used :
       /\ EnsureContextCapacity(slot[1])
       /\ installed' = installed \cup {slot}
       /\ Assign({slot})
  /\ UNCHANGED <<server, events, xkb, down, contexts, call, fired, taken>>

\* removeKeyAction(), clearKeyActions(context)
RemoveKeys ==
  /\ \E context \in Contexts, keys \in {{key} : key \in Keys} \cup {Keys} :
       /\ EnsureContextCapacity(context)
       /\ installed' = installed \ ({context} \X keys)
       /\ Assign({context} \X keys)
  /\ UNCHANGED <<server, events, xkb, down, contexts, call, fired, taken>>

\* clearKeyActions()
ClearKeys ==
  /\ installed' = installed \ (Contexts \X Keys)
  /\ Assign(Contexts \X Keys)
  /\ UNCHANGED <<server, events, xkb, down, contexts, capacity, call, fired, taken>>

\* clearKeyEventAction(), clearTextInputAction()
ClearActions ==
  /\ \E stream \in {"event", "text"} :
       /\ installed' = installed \ {<<Resolved, stream>>}
       /\ Assign({<<Resolved, stream>>})
  /\ UNCHANGED <<server, events, xkb, down, contexts, capacity, call, fired, taken>>

Configure ==
  \/ SetActiveContext \/ PushContext \/ PopContext \/ CreateContext
  \/ Install \/ RemoveKeys \/ ClearKeys \/ ClearActions

-----------------------------------------------------------------------------
(* Dispatch.                                                                *)

Dispatching(type) ==
  /\ call = Idle
  /\ events # <<>> /\ Head(events).type = type
  /\ events' = Tail(events)

\* composeAndDispatchText(), lookupAndDispatchText() and dispatchText(): a press may
\* commit characters, each to the context that is resolved by then.  Wayland needs the
\* keymap for that.
CommitText(key, press) ==
  \/ call' = Idle
  \/ /\ press /\ (setup.backend = "wayland" => mapped)
     /\ <<Resolved, "text">> \in installed
     /\ call' = [slot |-> <<Resolved, "text">>, key |-> key, press |-> TRUE]

\* The event action of the context the dispatch resolved, if it has one.
Notify(key, context, press) ==
  IF <<context, "event">> \in installed
  THEN call' = [slot |-> <<context, "event">>, key |-> key, press |-> press]
  ELSE CommitText(key, press)

\* dispatchKeyPress() and dispatchKeyRelease() once keyDown_ is set: the binding
\* first, unless the press is a repeat, then the event action, then text.
Dispatch(key, press, repeat) ==
  LET binding == <<Resolved, key>>
      fires == binding \in installed /\ ~repeat
  IN
  /\ IF fires THEN call' = [slot |-> binding, key |-> key, press |-> press]
              ELSE Notify(key, Resolved, press)
  /\ fired' = CASE ~press -> fired \ {key}
                [] fires /\ press -> fired \cup {key}
                [] OTHER -> fired

\* filterEvent(): X11 offers an event to the input method first, and what that takes
\* reaches neither keyDown_ nor a callback.  The text it commits comes as a press of
\* no key, which is a press of a key without a name.
InputMethodTakes(key) ==
  /\ ~Wayland
  /\ taken' = taken \cup ({key} \ {Unknown})
  /\ UNCHANGED <<down, call, fired>>

\* handleKey(), handleKeyEvent(): a key the backend cannot name only commits text.
HandlePress ==
  /\ Dispatching("press")
  /\ LET key == KeyFor(Head(events).key) IN
       \/ InputMethodTakes(key)
       \/ /\ taken' = taken \ {key}
          /\ IF key = Unknown THEN CommitText(key, TRUE) /\ UNCHANGED <<down, fired>>
             ELSE down' = down \cup {key} /\ Dispatch(key, TRUE, IsRepeat(key))
  /\ UNCHANGED <<server, xkb, contexts, tables, destroyed>>

HandleRelease ==
  /\ Dispatching("release")
  /\ LET key == KeyFor(Head(events).key) IN
       \/ InputMethodTakes(key)
       \/ /\ taken' = taken \ {key}
          /\ IF key = Unknown THEN UNCHANGED <<down, call, fired>>
             ELSE down' = down \ {key} /\ Dispatch(key, FALSE, FALSE)
  /\ UNCHANGED <<server, xkb, contexts, tables, destroyed>>

\* A callback returns: after the binding the event action of the same context, after
\* that the text.
CallbackReturns ==
  /\ call # Idle
  /\ LET stream == call.slot[2] IN
       CASE stream \in {"event", "text"} -> CommitText(call.key, call.press)
         [] OTHER -> Notify(call.key, call.slot[1], call.press)
  /\ destroyed' = FALSE
  /\ UNCHANGED <<server, events, xkb, down, contexts, tables, fired, taken>>

\* handleLeave(), FocusOut: releaseAllKeys().
HandleLeave ==
  /\ Dispatching("leave")
  /\ down' = {} /\ fired' = {} /\ taken' = {}
  /\ UNCHANGED <<server, xkb, contexts, tables, call, destroyed>>

\* handleEnter(), FocusIn: keys that are held already are not told.
HandleEnter ==
  /\ Dispatching("enter")
  /\ UNCHANGED <<server, xkb, down, contexts, tables, call, destroyed, fired, taken>>

\* handleModifiers()
HandleModifiers ==
  /\ Dispatching("modifiers")
  /\ level' = IF mapped THEN Head(events).level ELSE level
  /\ UNCHANGED <<server, mapped, down, contexts, tables, call, destroyed, fired, taken>>

\* handleKeymap(): a keymap that cannot be read changes nothing; otherwise everything
\* is rebuilt, or, when it cannot be, nothing is left.
HandleKeymap ==
  /\ Dispatching("keymap")
  /\ \/ UNCHANGED xkb
     \/ mapped' \in BOOLEAN /\ level' = 0
  /\ UNCHANGED <<server, down, contexts, tables, call, destroyed, fired, taken>>

-----------------------------------------------------------------------------
(* The keyboard and the server.                                             *)

LevelOf(keys) == IF Shift \in keys THEN 1 ELSE 0

ModifierEvents(keys) == IF Wayland THEN <<[type |-> "modifiers", level |-> LevelOf(keys)]>> ELSE <<>>

\* The window only hears of the keyboard while it has the focus.
Send(queue) ==
  /\ Len(events) + Len(queue) <= MaxEvents
  /\ events' = IF focused THEN events \o queue ELSE events
  /\ UNCHANGED <<setup, xkb, down, contexts, tables, call, destroyed, fired, taken>>

Press ==
  \E key \in PhysicalKeys \ pressed :
    /\ pressed' = pressed \cup {key}
    /\ seen' = IF focused THEN seen \cup {key} ELSE seen
    /\ Send(<<[type |-> "press", key |-> key, repeat |-> FALSE]>>
            \o (IF key = Shift THEN ModifierEvents(pressed') ELSE <<>>))
    /\ UNCHANGED focused

Release ==
  \E key \in pressed :
    /\ pressed' = pressed \ {key}
    /\ seen' = seen \ {key}
    /\ Send(<<[type |-> "release", key |-> key]>>
            \o (IF key = Shift THEN ModifierEvents(pressed') ELSE <<>>))
    /\ UNCHANGED focused

\* X11 repeats a held key with one KeyPress each time (detectable auto-repeat).
AutoRepeat ==
  \E key \in pressed :
    /\ ~Wayland /\ focused
    /\ seen' = seen \cup {key}
    /\ Send(<<[type |-> "press", key |-> key, repeat |-> TRUE]>>)
    /\ UNCHANGED <<pressed, focused>>

FocusIn ==
  /\ ~focused
  /\ focused' = TRUE
  /\ Len(events) + 2 <= MaxEvents
  /\ events' = events \o <<[type |-> "enter"]>> \o ModifierEvents(pressed)
  /\ UNCHANGED <<setup, pressed, seen, xkb, down, contexts, tables, call, destroyed, fired, taken>>

FocusOut ==
  /\ focused
  /\ focused' = FALSE
  /\ seen' = {}
  /\ Send(<<[type |-> "leave"]>>)
  /\ UNCHANGED pressed

\* The layout is switched to another one with the same names.
SendKeymap ==
  /\ Wayland /\ Relayouts
  /\ Len(events) + 2 <= MaxEvents
  /\ events' = events \o <<[type |-> "keymap"]>> \o ModifierEvents(pressed)
  /\ UNCHANGED <<server, xkb, down, contexts, tables, call, destroyed, fired, taken>>

-----------------------------------------------------------------------------
Handle ==
  \/ HandlePress \/ HandleRelease \/ HandleLeave \/ HandleEnter
  \/ HandleModifiers \/ HandleKeymap

Next ==
  \/ Handle \/ CallbackReturns \/ Configure
  \/ Press \/ Release \/ AutoRepeat \/ FocusIn \/ FocusOut \/ SendKeymap

Spec == Init /\ [][Next]_vars

-----------------------------------------------------------------------------
(* Properties.                                                              *)

\* What the application calls a key: its name without modifiers.
NameOf(key) ==
  IF setup.named[key, 0] = Unknown /\ Wayland THEN setup.position[key] ELSE setup.named[key, 0]

\* "Whether key is held right now [...] correct on every backend without polling"
\* (KeyboardListener.hpp, lines 88-89): once the events are dispatched, the held keys
\* are those pressed since the focus came and not released, through focus changes,
\* new keymaps and callbacks that call the listener back.  Keys whose last event the
\* X11 input method took are excepted, until their next event or a lost focus: a
\* release it takes leaves its key held (X11WindowManager.cpp, line 622).
HeldKeysAreHeld ==
  events = <<>> => down \ taken = ({NameOf(key) : key \in seen} \ {Unknown}) \ taken

\* The same sentence read for the end of it: when every key is up and every event
\* dispatched, no key is held.
NoKeyStuck == events = <<>> /\ pressed = {} => down = {}

\* While the window keeps the focus, a binding fires again only after the application
\* was told that its key came up: X11's repeats are told from presses by keyDown_ alone.
FiresPress(key) == call # Idle /\ call.slot[2] = key /\ call.press

RepeatStep == \A key \in Keys : ~FiresPress(key) /\ FiresPress(key)' => key \notin fired
RepeatNeverFires == [][RepeatStep]_vars

\* "Auto-repeat never fires a binding." (docs/input.md, line 25), without exception: also
\* of a key that is still down when the focus comes back.
AutoRepeatNeverFires ==
  [][\A key \in Keys : ~FiresPress(key) /\ FiresPress(key)' => ~Head(events).repeat]_vars

\* "Capturing lambdas are heap-allocated [...] and kept alive by storage_"
\* (InputCallback.hpp): a callback exists for as long as it runs.
RunningCallbackLives == ~destroyed

=============================================================================
