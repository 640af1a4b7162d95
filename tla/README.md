# libwma: a TLA+ model, its checks and its proofs

libwma is a C++ library that gives a game or an application a window, input, a
clipboard, a place to draw and an audio device, over several platform backends
(Wayland, X11, SDL3, GLFW; ALSA, SDL, null). Nearly all of it runs on the
application's one thread, but every interesting part of it faces a partner that
does not wait: an audio thread, a compositor, an X server, another client that
owns the selection. This directory models those parts in TLA+, checks the models
with TLC and proves what matters most with TLAPS.

Paths in the comments and below are relative to the repository root as `src/`
holds it (`src/src/...`, `src/include/wma/...`).

## 1. Inventory

| Component | State it keeps | Operations | Partners | What makes it correct |
|---|---|---|---|---|
| Mix callback handover (`MixCallbackSlot.hpp`) | mutex, `_active`, `_pending`, `_retired`, `_hasPending` | `store`, `invoke`, `clear` | control threads, one audio thread | the audio thread never waits and never frees; no callback comes back; a publication takes effect |
| ALSA device (`AlsaAudioDevice.cpp`) | `_pcm`, `_running`, `_writer`, `_config`, `_scratch` | `open`, `close`, `start`, `stop`, `setMixCallback`, `isRunning`, the writer thread | libasound, the slot | a false `isRunning()` means no callback executes; the PCM and the block have one user; calls return |
| SDL audio, null audio, factory | stream, subsystem reference, `_running` | the same interface; fallback order | SDL's audio thread | the same postconditions; an unavailable device degrades, never throws |
| Wayland software frames (`WaylandWindowManager.cpp`) | `shmPool_`, `retiringPool_`, busy flags, `lockedSlot_`, `frameCallback_` | `lockFramebuffer`, `presentFramebuffer`, `swapBuffers`, resize, release and frame events | compositor | no drawing in memory being read; no slot lost; at most one frame in flight; frames keep coming |
| X11 software frames (`X11WindowManager.cpp`) | slots, serials, Present state, `locked_` | the same two calls, idle and complete events | X server | the same |
| Wayland and X11 window lifecycle | handles, flags, pending configure, floating size, listeners | create, configure, destroy, move construction | server callbacks | what is made is released once, in order, wherever a call threw; the window says what the server decided |
| Pointer, seat and title-bar claims | entered surface, claimed press, capture, caption gesture | enter, leave, button, motion, drag | compositor, window manager | every claimed press ends; a move uses a valid serial |
| Keyboards and the input core | held keys, context stack, binding tables, repeat | dispatch press, release, text; push, pop, bind | application callbacks that re-enter | a held key is released; a context change in a callback is safe |
| Clipboards (Wayland, X11) | owned text, current offer or selection, transfer in progress | set, get, serve a request, cancellations | other clients, the server | a read ends; an old event never wipes or answers for a new one |
| Frame loop and pacing (`IWindowManager.cpp`) | refresh rate, cap flag, timer | `process()` | the backend's display changes | the cap follows the display the window is on |
| Backend selection, library loading | the environment | decisions | - | an available backend is found, in the documented order |
| SDL and GLFW window backends | reference counts, window, cached state, hit-test bridge | create, move, destroy, poll, cursor, text input | SDL, GLFW, the audio device | the library is up while somebody owns it; events reach the holder of the window |
| UTF-8, key tables, Apple, WebAssembly | none | pure functions, thin calls | - | decoder agrees with its definition |

Components talk in four ways. The application calls the manager, the clipboard,
the listeners and the device; the platform library calls static handlers from
inside `dispatch()`/`pollEvents()`, on the same thread; handlers call the
application back, and the application may call the library again from there; and
the audio writer is a real second thread. The hard behaviour follows from that:
thread interleavings in the audio part, and elsewhere events that were sent before
the client did something and arrive after it.

`PROJECT.json` lists each hazard at its line.

## 2. Plan

The steps are done; the order was by how much of the library's correctness
hangs on a part.

1. **`MixCallbackSlot`**, refining **`CallbackHandover`**; proofs of both.
2. **`AlsaAudioDevice`**, which composes the slot with the device and its writer
   threads; proofs of its safety.
3. **`WaylandShm`**, refining **`SoftwareFrames`**; proofs.
4. **`X11Frames`**, the second implementation of `SoftwareFrames`; proofs.
5. **`KeyboardInput`**: contexts, bindings and held keys with re-entrant callbacks, and
   both native backends' translation of a key.
6. **`X11Clipboard`** and **`WaylandClipboard`**: ownership, late and stale events,
   transfers with deadlines; proofs. **`Utf8Text`**: the conversions of their text,
   against a reference definition.
7. **`CaptionGesture`**, and over it **`NativePointer`** and **`SdlPointer`**: seat, capture,
   cursor and title-bar claims of the four backends. **`InputTables`**: the mouse's and
   the touch screen's contexts.
8. **`WindowLifetime`** and **`SharedWindows`**: creation, moves, destruction, with failures;
   **`WindowState`** and **`SdlSurface`**: what a window knows of itself.
9. **`FrameLoop`**: `process()`, the cap and display changes; proofs. **`Services`**: what can
   run on a machine.
10. Proofs of step 8 and 9, of the clipboards as one run, of UTF-8, and that the ALSA
    device uses the slot as the slot asks.
11. Proofs about the keyboard, the pointers and the tables (step 5 and 7).

A component has a module. `MCInput`, `MCClipboards` and `MCWindows` put the modules of step 5
to 9 together for TLC (section 4). Theorems are in modules whose name ends in `Proofs`, each of
which extends the module it is about; what is proved of the modules of a combined run is in
`MCInputProofs`, `MCClipboardsProofs` and `MCWindowsProofs`, and for `SharedWindows`, the largest,
in a module of its own that `MCWindowsProofs` instantiates.

## 3. What is modelled, and how it corresponds to the code

### `MixCallbackSlot`

One action per access to shared memory: `store()` is lock, reclaim, publish, flag,
unlock; `invoke()` is the flag's load, `try_lock`, the three assignments and the
flag's store, then the call. A callback is the number of its publication, so
"older", "superseded" and "destroyed" have a meaning; an assignment over a slot
destroys what was there, which is how a destructor that would run on the audio
thread is visible. `hollow` holds publications of an empty `std::function`.
`try_lock` may fail spuriously, as the C++ standard allows. `clear()` and the audio
thread's arrival and departure obey the warning on `clear()`: it is only called when
the audio thread has stopped. The atomic flag is sequentially consistent in the
model; the code's release store and acquire load only order it with data the lock
orders too.

`heard` (the publication of the latest invocation) is a history variable.

`CallbackHandover` is the promise without lock, flag or slots. The refinement maps
the installed callback to `_active`, except between the two moves of the swap, when
it is in `_retired` already.

### `AlsaAudioDevice`

The control thread's calls are sequences of steps (`ctl`), because the writer thread
runs between any two of them. Writers are threads with a life of their own: `start()`
spawns one, it enters the loop late, mixes (the actions of the slot's `invoke()`,
through `INSTANCE MixCallbackSlot`), writes, recovers or gives up. `_writer = jthread`
creates the new thread before it joins the one it replaces, and may throw. The PCM is
external: opening, preparing, writing and recovering each may fail; the period granted
differs from one `open()` to the next. `open()` with an invalid configuration or
without libasound, and `start()` on a closed device, return at once and change
nothing: they are not actions. One thread drives the device (it is not documented
to be thread safe), all threads may call `setMixCallback()`.

The slot's `AudioStart` and `ClearCall` have guards (no `clear()` under way, audio
thread stopped). They cannot hide behaviour of the device if the device never comes to such
a step while the guard is false: `SlotIsUsedAsAsked` says so of every state, and is proved.

### `WaylandShm`

The client is one thread, and so is a sequence of handler and API calls; the
compositor is external, reads what was committed, releases a replaced buffer (or a
copied one at once), acknowledges frames and resizes, and its events arrive in order.
Events for a destroyed `wl_buffer` stay in the queue and are dropped when they are
dispatched, as libwayland does. `waitForFrameCallback()` is a state of the client:
while it waits nothing but dispatching and its deadline can happen. The model hands
over one event per step; a real `dispatch()` may deliver several, which is the same
as dispatching again before the next call.

Memory is a slot `<<pool, n>>`; sizes are not modelled, a resize is "another size".
`SoftwareFrames` is what both native backends promise: a buffer is drawn in by the
application, or read by the server, or free, and `lockFramebuffer()` hands out free
ones only.

### `X11Frames`

Two slots, each with no image, a plain one, one in a shared segment, or one that is a
pixmap as well. `createSlot()` is a choice among its outcomes: each extension call may
fail for this slot, reject shared memory for the window, or give Present up for the
window. `presentFramebuffer()` is the disjunction of its three branches. `claim` is
the server's side of a slot: it reads it (through Present or MIT-SHM), or its report
is on its way; which event is followed up, and whether it is recognised at all
(`DropPresentEvent`), is the poll loop's code. Reports on their way are sets, so they
are dispatched in every order; a resize may arrive at any time. `swapBuffers()` is a
state (`waiting`) only while a frame is pending; with none it only dispatches.

An X window is never empty, so the branch that refuses a size of zero is left out.
When `createSlot()` throws (`LockThrows`) the image is gone and `locked_` keeps its
value; presenting then is undefined behaviour, and the model has no such step.
A plain image is copied by the request: it is never read afterwards.

### `KeyboardInput`

The keyboard and the server are external: keys go down and up, X11 repeats a held one
(with detectable auto-repeat, which the manager asks for), the focus comes and goes,
Wayland sends modifiers and new keymaps. Events wait in a queue, since the application
may be inside a callback or not polling. A setup is a backend and a layout: the name
of each key at each of two levels, and its QWERTY position, which Wayland falls back to.

A dispatch is several steps: the binding, the key-event action of the same context,
then the text action of the context that is resolved by then. Between them `call` is
the callback that is running, and the application's calls (contexts, installing and
clearing callbacks) may come at any moment, also from inside it. What text a press
commits is left out; whether it commits any is a choice (compose, input methods, and
the filter on control characters). A callback that fires nested events is impossible,
since only the poll loop dispatches.

On X11 an event is offered to the input method first (`filterEvent()`), and one that it takes
reaches neither `keyDown_` nor a callback: `InputMethodTakes` is a choice for every press and
release. `taken` is a history variable, the keys whose last event it took; `HeldKeysAreHeld` says
nothing of those. `fired`, the other history variable, holds the keys whose binding was called
since the application was told that they are up or the focus was lost.

### `X11Clipboard`

`text()` is a state of the client (`call`): it asks (`Ask`, `convert()`), waits for
the answer, and for chunks, and while it waits nothing else is dispatched. A deadline
is a number of ticks; `Tick` is `waitForServer()` seen from the clock. Every early return of
`convert()`, `takeProperty()` and `readIncremental()` is a disjunct. The property, its change
notices and the `SelectionNotify` events are the server's; owners answer late, refuse,
answer with something unreadable, trickle, or never answer. `answer()` serves a
request by what `owned_` and `ownedText_` say at that moment. A text is a name, `LargeTexts` are
those that do not fit one request; `Garbled` stands for bytes that are nobody's text
(a chunk of another transfer, a text decoded as the other encoding).

An answer that comes after its call gave up is taken for the answer to the next call: the
code cannot tell them apart. The header's sentence, "The selection's text, empty when there is none
or its owner does not answer in time", is `TextIsSelection`, which makes no exception, and
`clipboard_late_answer` is its violation. What holds is `ReadFindsSelection`, the same of the
client's own text and of calls that begin with nothing of an earlier one on its way (`clean`), and
more than that: such a call is only empty when an owner failed. The comment on `kReplyTimeout` calls that half a second the longest a paste can stall the
caller; the bound that holds is two replies and a transfer (`StallBounded`).

### `WaylandClipboard`

Sources and offers are numbered as they are created, so an event names the proxy it is
about, and one about a proxy that is gone changes nothing. `receive()` and `writeAll()` are
transfers through a pipe that holds one piece: an idle deadline that each piece renews, one
for the whole, a limit on the size. Drags bring offers nobody accepts;
`pruneOffers()` decides which offers are kept. The compositor may decline `set_selection`
without saying so (`declined` is a history variable for the property). Manager, seat
and device come in any order, and the seat goes.

An offer is text once a text format was announced for it (`offers.text`), between its creation and
the selection event; `readable` is the compositor's side of that. A read is compared with what was
announced last (`ReadIsAnnounced`) and with what the other client wrote (`ReadIsWhole`): while an
announcement is still queued, the client reads the one before it.

### `Utf8Text`

`decode()` one sequence at a time, `encode()`, and the two Latin-1 conversions, over every
sequence of up to three bytes taken from the boundaries of the forms, and four where the
lead asks for four. The reference is the Unicode standard's table of well-formed sequences.
`StepDecodes` and `EmittedIsUnicode` are about one step from any state: the character that begins
there, or none; `TextIsDecoded` is about a whole text, which `Meaning` scans for characters.

### `CaptionGesture`, `NativePointer`, `SdlPointer`

`CaptionGesture` is `detail::CaptionGesture` as operators: press, move, release, with a
position on a line and an age in ticks. `NativePointer` is the mouse listener of Wayland,
X11 and GLFW with its window manager's `claimPress()` and `dragTo()`; the setup
says which, and whether the application uses hit tests or the cursor. Events wait in a
queue, so a handler runs against a server that may have moved on: the button came up, the
pointer left, the window manager took the release. A Wayland compositor has the two protocols
that lock the pointer or not (`locks`); without them a disabled cursor is only hidden
(`docs/input.md:119`). `went` and `clicks` are
history: where the press of the left button went, and which presses may become a double
click. `SdlPointer` is the bridge to SDL's own hit test: SDL asks it when it *reads* a
press, which may be long before the application polls, and on Wayland it listens to the
seat on a queue of its own; of that queue the model keeps what the seat will be once it is
pumped (`heard`). A hit test is installed or removed only between presses.

### `InputTables`

The mouse's and touch listener's tables: contexts, room made for a context before a
slot is assigned, and dispatch in two steps with callbacks that call back. The wheel's sum is
there because a callback of the wheel may consume it; no property is about it.

### `WindowLifetime`, `SharedWindows`

Each native handle is a name; `createWindow()` is a sequence of stages, each of which may
throw with what it has made, and `destroy()` gives handles up one at a time, in the code's
order, so that every point between is a state. A moved manager's handles pass to another
object, and Wayland proxies are told (`user`). A callback may destroy the window only in the
setups of `destroy_in_callback`.

`SharedWindows` has the managers that stand on a process-wide library: SDL with its
reference count (and the audio device, which counts SDL's audio subsystem), GLFW with
its own. Managers are constructed, moved, destroyed and deleted in any order, and each call that
may fail does. Windows change on their own; events go to the one queue of SDL or to GLFW's
user pointer. The setups with several SDL windows leave the events out, but for
`sdl_two_windows`, which is about them. No setup of the run combines Vulkan and audio (see the
known divergences); the module allows it, and so do the proofs but for the audio device.

### `WindowState`, `SdlSurface`

What a native window says of itself against what the server decided: a Wayland
configuration comes in up to three parts that count with the last, may leave the size to
the client, and answers requests late or never; X11 says what changed, or only that
something did. One size stands for width and height. `SdlSurface` is Android's: the surface
goes and another comes, SDL's copy follows when events are pumped, `waitUntilWindowReady()`
waits for it to be stable.

### `FrameLoop`

`process()`: poll until the queue is empty, take the display-changed flag, read the
rate, act, present, sleep. The display is a place, an extent and the rates of two monitors;
time is in ticks (`Second` of them) and a period is the integer division the code does.
Losing Present makes the present stop waiting, once and for good.

### `Services`

Which libraries open and are whole, which servers the environment names, which of them and of the
sound devices answer, what is compiled in: a `world`, which does not change. `hasDisplayServer()`
looks at what is named and connects to nothing, GLFW's choice of a platform connects. A client
reaches no server but by a name, so the servers that answer are among the named
(`WorldsAssumption`). The loaders' statics (`memo`) and slots are state, and
the application asks in any order. `Runs` is the reference: what a backend needs, its
library (`Installed`) and a server that answers (`Reaches`), whatever the library has found out so
far. `BackendRuns` is what the choice achieves, `SelectedRuns` what its documentation says.

## 4. Runs

| Run | Instance | Distinct states | Shows |
|---|---|---|---|
| `callback_slot` | 2 control threads, 3 publications | 3,691 | `AudioNeverFrees`, `NoResurrection`, `TakesEffect`, refinement of `CallbackHandover` |
| `alsa_device` | 2 threads, 2 publications, 2 writer names, periods of 1 and 2 frames | 153,848 | `QuietWhenNotRunning`, `ControlOwnsDevice`, `BlockFits`, `SlotIsUsedAsAsked`, `CallsReturn` |
| `wayland_frames` | 3 pools, 2 slots, 2 callbacks, 3 events in the queue | 69,984 | `OneFrameInFlight`, `SlotsSurviveResizes`, refinement of `SoftwareFrames`, `FramesKeepComing` |
| `x11_frames` | 2 slots, 2 sizes, serials 1 and 2 | 132,392 | `NotAllStuck`, `OnlyLosingPresentStrands`, `WaitEndsWithItsFrame`, refinement of `SoftwareFrames`, `FramesKeepComing` |
| `input` | keyboard: a modifier and a letter, 2 contexts, both backends; pointers: 5 places, 7 native and 3 SDL setups; tables: 2 contexts, a stack of 1 | 1,672,595 | `HeldKeysAreHeld`, `RepeatNeverFires`, `ReleaseFollowsPress`, `GesturesAreMeant`, `PointerIsAsked` |
| `clipboards` | 2 texts, one of them large; deadlines of 1 to 3 ticks; 2 chunks; 2 sources, 3 offers; one late event of each type; the bytes of section 3 | 1,526,592 | `ReadIsSelection`, `CharactersAreKept`, `TextIsDecoded`, `OwnershipKnown`, `DeadlinesKept`, `OffersFollowSelection` |
| `windows` | 2 managers or objects, 2 windows, every stage failing; 3 configurations; 3 surfaces; 2 changes of the display; every machine, servers that are named and gone included | 1,062,516 | `ResourcesAreLive`, `StateFollowsServer`, `LoopIsPaced`, `BackendRuns` |
| `keyboard_held` | Shift and a letter on Wayland, a Dvorak layout, one keymap | - | **violation** of `NoKeyStuck` |
| `keyboard_rebind` | both backends | - | **violation** of `RunningCallbackLives` |
| `destroy_in_callback` | the lifetime part, with callbacks that destroy | - | **violation** of `DispatchSurvives` |
| `sdl_two_windows` | two SDL managers with events | - | **violation** of `EveryWindowIsFollowed` |
| `clipboard_late_answer` | the clipboards of `clipboards` | - | **violation** of `TextIsSelection` |

Four more configurations keep a counterexample of a known divergence at hand:
`KeyboardRefire.cfg` (`MCKeyboardInput`, `AutoRepeatNeverFires`), and of `MCWindows` `X11StaleRate.cfg`
(`LoopIsPaced` of a window that may grow), `StaleDisplay.cfg` (`SelectedRuns`) and
`VulkanQuitsAudio.cfg` (`DeviceCoexists`). TLC finds each property violated.

### Runs of several modules

`MCInput`, `MCClipboards` and `MCWindows` instantiate modules that share no state in the
program: the keyboard does not talk to the pointer, nor the clipboard of X11 to that of
Wayland. A behaviour of such a run is a behaviour of one of them, chosen in the initial
state (`part`, `system`), and the variables of the others are 0. That is a union, not
a product: the states add up and do not multiply. The properties of such a run join
what the modules promise about one question, and each conjunct is the property of its
module.

Deadlock is checked in the four runs of section 3's first modules. The combined runs say
`CHECK_DEADLOCK FALSE`: there the environment's events are bounded, a decoded text ends, a
manager that is deleted does nothing more, and a machine that was asked everything has no
more to say, so the systems may really stop. They state no liveness.

Only `windows` uses symmetry (`Alike`): managers, windows and objects are model values that no
definition tells apart, and the run checks invariants only. The others check liveness, or have
few values to permute.

### Why the bounds are enough

- Slot: a third publication is the first that meets a playing, a parked and a waiting
  callback at once, and two control threads are the first that contend with each other
  and with `try_lock`.
- ALSA: two writer names are what `_writer = jthread(...)` can have alive; two periods let a
  reopen be granted another one.
- Wayland frames: three pools are the current one, the retired one and the one a resize
  creates; two slots is the code's own constant; the code keeps one callback, so two names
  let a second one be confused with it; three events let a release, an
  acknowledgement and a resize be on the way together in every order.
- X11 frames: two slots is the code's constant; two sizes make an image fit or not; two
  serials wrap at every second frame, while an older frame is still uncompleted (a serial is
  only reused when no completion of it is on its way, which 2^32 frames guarantee in the
  code).
- Keyboard: one key that changes the level and one that is changed by it; on X11 the former is
  one `mapX11Key()` has no name for (AltGr), so both a named key and an unnamed one are pressed
  there, and two named ones on Wayland; two contexts
  are what a switch and an overlay need; two events on the way are what pressing Shift
  sends at once; a callback of each kind, with a binding of one key in both contexts.
- Pointers: the five places are a client area, an edge, and three of the title bar, two
  within a double click's slop, two a drag apart that a double click would still span and two
  too far for that; three serials are an enter and two presses; two ticks past a press are
  recent and too old.
- X11 clipboard: one late answer, one change notice and one loss of the selection are each
  enough to be taken for another's; the reply's time is shorter than the transfer's,
  as in the code, and two chunks are the first that can be mixed up; `MaxTicks` is what
  is promised at most, and one more chunk than allowed meets the limit.
- Wayland clipboard: two sources are the first of which one can be taken for the other;
  three offers are an old selection's, a drag's and a new one; four events hold an announced
  selection and one event before it.
- Windows: two objects and two windows are what a move needs, and two owners of one library
  what a reference count needs; three configurations are a maximize, a partial one and the
  return to the floating size; three surfaces let one go while the next is waited for; two
  events of SDL or GLFW on the way are a change and the one that contradicts it.
- Loop: two changes of the display are a move and the mode of the monitor it goes to, in
  either order; two rates divide the second differently.
- Services: each library is missing, partial or whole, each server is named or not and, if it is,
  there or gone, and each sound device is there or not, in every combination that one decision
  looks at together (a server that is gone only where every library is whole).

### Fairness

- `callback_slot`: a thread inside a call keeps running and a callback returns (weak
  fairness on `store()`, `clear()` and `invoke()` in progress, never on making a call);
  `TryLockWins` is strongly fair: a mutex that is free again and again is not missed
  every single time. `TakesEffect` excuses a device that stops.
- `alsa_device`: the calls in progress and each writer keep running, and
  `snd_pcm_writei()` returns ("at most one period", `AlsaAudioDevice.cpp`, lines
  219-223).
- `wayland_frames`: the application goes on locking and presenting, events are
  dispatched, a wait ends, and a visible surface is acknowledged and its replaced
  buffers released. A hidden surface gets no acknowledgement; then frames do stop, as
  the comment in `waitForFrameCallback()` says.
- `x11_frames`: the application goes on locking and presenting, waits end, Present and
  MIT-SHM events are dispatched, and the server gives back what it reads. It need not
  complete a frame: a stalled output is where the wait's limit matters.

### Findings

- `keyboard_held`: on Wayland a key is named by the keysym it has at that moment
  (`WaylandKeyboardListener.cpp:324`), and only lower-case letters have names: on a layout
  other than QWERTY, a letter pressed with Shift and released without leaves a key held
  for good, or until the focus goes. In `input` every key's position is its
  name, and there the held keys are right.
- `keyboard_rebind`: a callback that unbinds or rebinds itself destroys the closure that is
  running (`KeyboardListener.cpp:75`).
- `destroy_in_callback`: the README's quick start destroys the window from a key callback
  inside `process()`; on both native backends the dispatch that called it goes on in what
  `destroy()` has taken away (`WaylandWindowManager.cpp:851`, `X11WindowManager.cpp:610`).
- `sdl_two_windows`: SDL has one event queue, and `pollEvents()` takes every event without
  looking at its window (`SdlWindowManager.cpp:303`).
- `clipboard_late_answer`: an answer to a `text()` that gave up is taken for the answer to the next
  one (`X11Clipboard.cpp:194`), which then returns a text that the selection held at no moment of
  the call.

### Known divergences

Behaviours of the code that the modules contain, or exclude by a guard that is named
here, and that no property asks of it:

- `start()` leaves `_running` set when the writer thread cannot be created
  (`AlsaAudioDevice.cpp:199`), so `isRunning()` reports a running device that has no writer,
  until `stop()`. `SpawnThrows` is an action.
- A second resize destroys the pool retired by the first even when its slots have not
  been released (`WaylandWindowManager.cpp:388`). The client stays safe (the refinement
  holds: it never draws there again); the memory goes while the compositor may be
  reading it.
- `createSlot()` giving Present up strands a slot that is busy through it
  (`X11WindowManager.cpp:472`): its idle event is no longer recognised. `NotAllStuck` and
  `OnlyLosingPresentStrands` limit the damage.
- A `lockFramebuffer()` that throws after an earlier lock leaves a locked slot without an
  image (`X11WindowManager.cpp:823`); presenting then is undefined, and the model has no such
  step.
- A `SelectionClear` for an earlier ownership, handled after `setText()`, wipes the new text
  (`X11Clipboard.cpp:380`): the event carries a time that is not looked at. `OwnershipKnown`
  says what remains: the client never claims what it does not own without news of it on
  the way.
- The destructor of the X11 clipboard asks who owns the selection and then gives it up;
  another client may take it between the two (`Destroy`, `Disown`).
- X11's `destroy()` closes the display before the listener's destructor destroys the input
  method (`X11WindowManager.cpp:983-1029`, `X11KeyboardListener.cpp:21-33`): exempted in
  `HandlesAreLive`.
- A failure late in the Wayland EGL setup leaks what was made of it
  (`WaylandWindowManager.cpp:337-352`): the handle `leaked`, exempted there.
- A Vulkan manager whose constructor cannot load Vulkan quits SDL when it is the only manager
  (`SdlWindowManager.cpp:683-689`), and with it the audio of a device that is open;
  `SDLAudioDevice.hpp:27-32` says that the two coexist and that the one constraint on their order is
  at shutdown. `VulkanQuitsAudio.cfg` shows it. It is why `ResourcesStayLive` has the hypothesis
  `AudioWithoutVulkan`, and why no setup of `windows` has both. `ManagersHoldWhatIs` does without
  the hypothesis, and says nothing of the device.
- A resize may take the centre of an X11 window, and with it the rate, to another monitor, but only
  a move is looked at (`X11WindowManager.cpp:754-760`, where the comment says that "a move is the
  only way the window changes monitor"). `X11StaleRate.cfg` shows it; the windows of the run
  `windows` do not grow onto another monitor.
- X11 flags no repeat, so a repeat is a press of a key that is held (`X11KeyboardListener.cpp:192`),
  and a lost focus empties the held keys. Of a key that stays down until the focus is back, the
  first repeat fires its binding again, although `docs/input.md:25` says "Auto-repeat never fires a
  binding." `KeyboardRefire.cfg` shows it; `RepeatNeverFires` is what holds while the focus stays.
- The choice of a backend rests on what the environment names (`WindowManager.cpp:94-125`). With a
  variable left over from a server that is gone, a backend is chosen that cannot open a window,
  although another could; `wma.hpp:64-65` promises "a display server it can use". `StaleDisplay.cfg`
  shows it. Such machines are in `windows`, where `BackendRuns` asks of them that the backend chosen
  is installed, and that the preferred one is chosen if it runs.
- `SDLAudioDevice::open()` creates the stream before it sizes the block (`SDLAudioDevice.cpp:44`);
  `OpenDevice` is one step, since a new stream is paused and its callback does not run yet.
- Moving an SDL manager loses `surfaceVsync_`; a moved-from state nobody reads in the model.
- GLFW's `WindowDetails` hold framebuffer pixels once the window was resized
  (`GlfwWindowManager.cpp:514-515`); the model has one size.
- A truncated sequence takes the rest of the text with it, while one that is interrupted does
  not (`Utf8.hpp:68-69`, `:137`); the rest is malformed in either case.
- `Utf8.hpp:71-75` documents another place to go on from after a malformed sequence than the
  `index + 1` the code returns; `Utf8Text` has the code's.
- When the X11 input method takes the release of a key whose press was dispatched, the key stays in
  `keyDown_` until its next event or a lost focus (`X11WindowManager.cpp:622`); `HeldKeysAreHeld`
  excepts it. Key events that an input method sends back later are not modelled.
- Moving an X11 manager does not carry `locked_`: a `presentFramebuffer()` on the new object, of a
  frame locked on the old one, does nothing. In `X11Frames` nothing moves.
- The comment at `IWindowManager.hpp:244` ("caps at 60 Hz") is older than the code, which takes the
  display's rate; `FrameLoop` has the code's.
- Every new Android surface has a name of its own in `SdlSurface`. The code compares addresses
  (`SdlWindowManager.cpp:288`), so a window that comes to lie at the address of the one before it
  is not noticed; that case is left out.
- In the instance of `input`, the compositor without a cursor theme is the one without the
  locking protocols; the proofs take the two apart.
- Destroying a GLFW window from its own callback is undefined as it is on the native
  backends; modelled for those only.
- Installing an SDL hit test while a press is held forgets `releasePending_`; in the model a
  hit test changes only between presses.
- The first motion after SDL enters relative mode is reported as if it were the first ever
  (`SDLMouseListener.cpp:83-85`); deltas are not modelled.
- X11's `initialize()` shows no cursor (`X11MouseListener.cpp`), so one that was changed or
  disabled before `createWindow()` appears with the next change only; GLFW's shows it. No X11
  setup of the run changes the cursor that early, which is the hypothesis `CursorsAfterWindow` of
  `PointerStaysAsked`.
- A Wayland seat that loses its pointer leaves the press that is pending in `caption_`
  (`detach()`); no release will come, and the next enter clears the claim.
- Without XInput2 an X11 window drops motion while the pointer is captured.
- The null audio device keeps its mix callback after `close()`.
- `hasEgl()` may leave EGL bound when wayland-egl is not there (`WaylandApi.cpp:105`): no
  library is half bound, but one of two is; and of the sonames of GLX the first that opens
  decides, even where a later one has every symbol.
- `lockFramebuffer()` on SDL before the first present may return a surface that the poll
  in between has replaced.
- The first `ConfigureNotify` of an X11 window at exactly (0, 0) is no move; the rate is
  unread at that time, so nothing follows from it.

## 5. Proofs

All proofs are for any values of the constants that satisfy the named assumptions: a finite set
of threads and distinct names for "nobody" (`ThreadsAssumption`, `DriverAssumption`,
`WritersAssumption`, `NoSlotAssumption`, `CallbacksAssumption`), and at least one slot and one
serial (`SlotCountAssumption`, `MaxSerialAssumption`); deadlines, counts and ticks that are
numbers (`TimesAssumption`, `QueueAssumption`, `CountsAssumption`, `TicksAssumption`); what a
setup, a size, a rate, a connection or a machine is (`SetupsAssumption`, `SizesAssumption`,
`PlacesAssumption`, `RatesAssumption`, `ConnectionsAssumption`, `SurfacesAssumption`,
`BlocksAssumption`, `WorldsAssumption`); that a text is a sequence of bytes (`InputsAssumption`); and places,
setups, layouts and bounds for the input (`PointerAssumption`, `KeyboardAssumption`,
`TablesAssumption`). TLC evaluates each of them in the runs. Five theorems have one hypothesis
beyond these (`AudioWithoutVulkan`, `NothingGrows`, `SteadyNames` twice, `CursorsAfterWindow`),
named below with the behaviour it leaves out.

**The slot** (`MixCallbackSlotProofs`). `AudioNeverFrees` is not inductive: it depends
on every raised flag having been preceded by a reclaim under the lock. `SlotInv` says
so: who owns the lock at which point (`LockInv`), that a raised flag means an empty
retired slot and a waiting publication (`FlagInv`, `PendingInv`), in which order the
three slots are (`OrderInv`), and that nobody clears while the audio thread runs
(`ClearInv`). `CallsInv` bounds publications by the calls made, which is what keeps the
counters in their type.
Theorems: `TypeCorrectness`, `AudioThreadNeverFrees`, `NoCallbackResurrected` (an action
property), `HandoverImplemented` (the refinement). `HeardNeverAges` is the step of the third
without the slot's specification, for a user that has one of its own.

**The device** (`AlsaAudioDeviceProofs`). The invariant ties the control thread's
position to the writers: at most one writer is in the loop, it is the handle's or the
one being replaced, `_running` is true while it is there, and its period is the one the
block was sized for. Theorems: `FalseMeansQuiet`, `StopLeavesControl`, `WriterBlockFits`.

What the slot proves of itself assumes that `clear()` and the audio thread never meet. In the
device this is not given but earned: `SlotUseInv` says that the slot's audio thread is exactly
where the one writer in its loop is, and that only the driver clears, past its join. From it
follow `ContractKept` (the run's `SlotIsUsedAsAsked`, the single writer included) and, since
then every step of the device is one of the slot or leaves it alone, `SlotInv` for the device:
`DeviceHandsOver` says that through starts, stops, failed writes and reopens the audio thread
frees nothing and hears nothing older than before. `TypeCorrectness` rests on the same
invariant.

**Wayland frames** (`WaylandShmProofs`). That a slot which is not busy is not read is
not inductive on its own: a release still in the queue could clear the flag of a slot
that was presented again meanwhile. The invariant adds that every release on the way is
the only one for its slot, and that the slot is then busy and no longer read
(`ReleasesMatch`, `EventsOnce`), and that no frame is unacknowledged while a slot is
locked (`LockedSlotFree`). Theorems: `FramesImplemented`, `RateGate`, `SlotsNeverLeak`.

**X11 frames** (`X11FramesProofs`). What the server holds is marked busy, so an idle
slot is safe to draw in. `NotAllStuck` needs a witness that survives every later step:
while Present is in use each busy slot has its report to come (`PresentFollowsUp`),
and once it is not, some slot needs no Present and is given back by completions the
poll loop acts on (`SomeSurvivor`); the slot whose creation gave Present up is the
first such. `SerialsMatch` keeps the pending serial the newest and a completion from
preceding its frame. Theorems: `FramesImplemented`, `OneSlotSurvives`,
`OnlyCreateSlotStrands`, `WaitsForItsFrame`.

**X11 clipboard** (`MCClipboardsProofs`). Ownership is inductive once a count of
events is a number: every step that takes the selection away queues the news
(`X11OwnInv`). A stall is not bounded by what the property says of it alone: `Deadline` says what
each point of `text()` may still take, and that the chunk's deadline is within what is
left of the transfer's, since a trickling owner renews it at every chunk. What `text()` finds
rests on `Exchange`: of a call that began with nothing on its way, the one request or answer
is its own, each chunk in the property is the next of one transfer, and there is one
change notice per chunk; a text that is put together is then a text of one owner of the call's
time. Nothing is proved of the other calls: `clipboard_late_answer` is about them. Theorems:
`OwnershipIsTracked`, `StallIsBounded`, `TextIsFound`.

**Wayland clipboard** (the same module). `WaylandOwnInv` is about a queue: handling an event
keeps the cancellations behind it, sending one keeps those before it. `TransferInv` accounts
for each piece: what the other client wrote was read or is in the pipe, so a text that ends
with the pipe closed and empty is all of it. `OffersFollowSelection` speaks of an empty queue,
so `OfferInv` says what the queue will come to: the last selection in it is the one announced,
its offer is held when it is handled (`HeldAt`), and any other offer meets an event that
prunes it (`PrunedAfter`). The type invariant is not inductive as it stands: it lets any event
name the offer that is none, and handling such a `data_offer` would put it into `offers_`;
`WaylandTyped` says which events may (`Announcement`). That the offer which was announced is read
needs more of the queue: a format comes right behind its offer and the selection right behind the
format (`FormatsOnTheirWay` in `FormatInv`), and no handler runs while a transfer reads its offer
(`ReadsHeld`). Theorems: `SourceIsSelection`, `SelectionIsFollowed`, `PasteIsWhole`,
`TransferIsBounded`.

**UTF-8** (the same module). `decodeOne()` tests masks, then three bounds on the value; the standard
has a table of bytes. For each length a lemma shows that the two agree (`SumTwo`, `SumThree`,
`SumFour`: the bounds on the value are the table's bounds on the second byte), `Standard` carries
that over to a place in a text, and `Decoding` goes through the early returns: what is read is the
character that begins there, and where a sequence is refused no character begins at any byte that
is skipped, since none begins at a continuation byte. `Encoding` is the way back. Theorems:
`StepsDecode`, `OnlyUnicode`.

**Both clipboards and the text, as a run.** A behaviour of `MCClipboards` is one of its part
(`StartsAsPart`, `StepsAsPart`), so the run's own properties hold for every value of its
constants: `TypeCorrectness`, `SelectionIsRead`, `NoCharacterIsLost`, `OwnershipIsKnown`,
`DeadlinesAreKept`, `OffersAreFollowed`.

**Managers on a shared library** (`SharedWindowsProofs`). `SharedInv` has four parts. References are
counted: the library's count is the number of managers that own one (`Owners`), so it is up
exactly while somebody holds it. A manager that holds a window holds one
that exists, alone, and the window knows it (`HoldsWindow`). The last event of a kind in the
queue says what the window is (`ToldBy`), so a manager that has handled them all says so too
(`Followed`); with several SDL managers this is given up, as `sdl_two_windows` shows. The audio
device is live (`DeviceHeld`) under `AudioWithoutVulkan`.

**Native managers** (`MCWindowsProofs`). `LifetimeInv`: what a connection has is what its
manager holds (`Owns`), no two managers share a connection (`ConnectionsAreOwn`), what is held
never lacks what it needs at any point of `createWindow()` or `destroy()` (`Closed`), and how
far a creation is tells what it has made (`Made`), so what a throw gives back is all of it.

**Windows, the loop, the services** (the same module). `StateInv`: the events on their way are
a path from what the client has taken in to what the server decided (`Leads`). `SurfaceInv`: a
surface that is drawn to is SDL's, or a poll tells of its loss (`LossIsTold`), and a wait
counts pumps in which SDL's copy was the same (`WaitIsSteady`). `ServicesInv`: a loader that
was asked knows what the machine decides, and one that was not has bound nothing; what was chosen
is installed and has a server that is named, so it runs where the named ones answer
(`SelectionRuns`). That a rate which was read is the display's is not inductive: the display
changes first, and the loop learns later. `LoopInv` says that what will make the loop read again is on its way
(`RateIsFresh`), which on X11 is a position other than the last one seen; for a window that
moves away and back to be told right, the queue must end in the window's position
(`PositionIsKnown`).

`PartsInv` joins the six. Theorems: `TypeCorrectness`, `ResourcesStayLive` (assuming
`AudioWithoutVulkan`), `ManagersHoldWhatIs`, `StateIsFollowed`, `ChoicesRun`, and
`LoopFollowsDisplay`, which assumes that no window comes to lie on another monitor by growing
(`NothingGrows`): without it `X11StaleRate.cfg` has the counterexample.

**The keyboard** (`MCInputProofs`). The held keys are compared with the server's when no event is
left, so the invariant says what the events will come to: there is a path of sets of keys from those
held to those the server told of, one step per queued event (`KeysLead`), and on Wayland no press
on it is of a key already held (`Fresh`). A step of the server makes the path longer, a handler
takes its first step. This needs `SteadyNames`: no two keys have one name, and on Wayland a key has
its position's name, or none, under every modifier. That is so where every key is at its QWERTY
position, as in the Wayland layout of the run, and on X11 wherever the first keysyms of the keys have
different names or none; `keyboard_held` is the counterexample without it. Types and tables do without
(`KeyboardInv`: room is made before a slot is assigned, so `Installed` holds). Keys whose last event
the X11 input method took are left out of the comparison at every point of the path (`Missed`).
Theorems: `HeldKeysStayHeld`, `RepeatsStayQuiet` (while the window keeps the focus), both assuming
`SteadyNames`.

**The pointers** (the same module). A handler runs against a server that has moved on, so what
it finds rests on the order of the queue. `Paired` says it: before an event of one type there
is one of another, with nothing in between that would undo it, or its effect is there already.
A release is paired with its press (`NativeOpened`, `SdlOpened`), a press with the end of the
one before (`SdlClosed`), an enter with the leave or the loss of the seat that ended the
gesture (`NativeClosed`) and with a client that is attached (`NativeAttached`), and the
client's enter serial with the last enter (`NativeCaught`). Five lemmas say how a queue stays
paired when an event is appended or taken. `NativeFollows` and `SdlFollows` tie `caption_` to
the history: it holds only clicks that may still become a double click, and the press that
began it. `SdlHears` says that the seat, once it is pumped, names no press but the one held.
The image that is shown is right at every moment in which the client has handled the last enter
(`ImageIsShown`), and where the queue is empty it has. The capture needs no more than that each
handler ends with `updateCapture()`: it is what the focus and the disabled cursor ask where the
compositor can lock, and never elsewhere. Theorems: `ReleasesFollowPresses`,
`GesturesStayMeant`, and `PointerStaysAsked` assuming `CursorsAfterWindow` (an X11 window's
cursor is not changed before the window exists).

**The tables** (the same module). `TablesInv`: bindings lie within the tables, whose room is made
before a slot is assigned. `TypeCorrectness` joins the four parts.

Each inductive invariant was first checked with TLC on the instances above.

Only model-checked: the liveness properties (`TakesEffect`, `CallsReturn`, `FramesKeepComing`),
since TLAPS does not prove liveness under fairness, and `TextIsDecoded`, where `Meaning` and the
Latin-1 conversions recur over the bytes and would need an induction over them (each step is
proved, the sum of them is not). Every other property of a passing run is a theorem.

## 6. Not modelled

- Apple's Metal layer and the WebAssembly entry points: thin calls to systems with no state
  of the library's own.
- `Keys.h` and the backends' key tables, which translate one name into another; the keyboard's
  models take any such table. So SDL's and GLFW's keyboard and touch listeners are partly
  modelled: a translation and one call of the input core.
- The GL swap interval, content scale, titles, icons and border hints: set and never read back.
- A Wayland pool that cannot be allocated (`WaylandWindowManager.cpp:397`): an exception crosses
  libwayland, and what it does there is undefined; the 32-bit overflow of its size (`:393`),
  which takes a surface beyond any display's; the segment that `shmat()` leaves behind
  (`X11WindowManager.cpp:505`), which no step of the program sees.
- Thread priority and affinity (no state), and weak-memory effects beyond the atomics'
  release and acquire.

To run a check: `tlc -config WaylandShm.cfg WaylandShm`; a proof: `tlapm
WaylandShmProofs.tla`.
