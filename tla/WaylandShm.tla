------------------------------ MODULE WaylandShm ------------------------------
(***************************************************************************)
(* The software-rendering path of the Wayland backend: the wl_shm pools,   *)
(* lockFramebuffer(), presentFramebuffer(), the frame callback and the     *)
(* release events (src/src/backends/wayland/WaylandWindowManager.cpp).     *)
(*                                                                         *)
(* The client is one thread that may make these calls, and dispatch        *)
(* events, in any order.  The compositor is external: it reads committed   *)
(* buffers, releases them, acknowledges frames and resizes the window at   *)
(* any time; its events reach the client in the order it sends them.       *)
(***************************************************************************)
EXTENDS Naturals, Sequences

CONSTANTS
  Pools,        \* names for ShmPool objects, reused once one is destroyed
  NoPool,
  SlotCount,    \* kShmBufferCount
  Callbacks,    \* names for wl_callback objects, reused likewise
  NoCallback,
  NoSlot,
  MaxEvents     \* bound on the events on their way to the client

ASSUME PoolsAssumption == NoPool \notin Pools
ASSUME SlotCountAssumption == SlotCount \in Nat \ {0}
ASSUME CallbacksAssumption == NoCallback \notin Callbacks
ASSUME NoSlotAssumption == NoSlot \notin Pools \X (1 .. SlotCount)
ASSUME MaxEventsAssumption == MaxEvents \in Nat

Slots == Pools \X (1 .. SlotCount)
SlotsOf(pool) == {slot \in Slots : slot[1] = pool}

VARIABLES
  shmPool,       \* shmPool_
  retiringPool,  \* retiringPool_
  busy,          \* the slots whose busy flag is set
  lockedSlot,    \* lockedSlot_
  frameCallback, \* frameCallback_
  waiting,       \* the client is inside waitForFrameCallback()
  reading,       \* compositor: the slots it may still read
  current,       \* compositor: the content of the surface
  unacked,       \* compositor: the frame callbacks it has yet to answer
  events         \* events sent by the compositor, not dispatched yet

client == <<shmPool, retiringPool, busy, lockedSlot, frameCallback, waiting>>
compositor == <<reading, current, unacked>>
vars == <<client, compositor, events>>

ReleaseEvent(slot) == [type |-> "release", slot |-> slot]
DoneEvent(callback) == [type |-> "done", callback |-> callback]
ResizeEvent == [type |-> "resize"]
DeadEvent == [type |-> "dead"]   \* addressed to an object the client has destroyed

Event == {ReleaseEvent(slot) : slot \in Slots} \cup {DoneEvent(c) : c \in Callbacks}
         \cup {ResizeEvent, DeadEvent}

TypeOK ==
  /\ shmPool \in Pools \cup {NoPool}
  /\ retiringPool \in Pools \cup {NoPool}
  /\ busy \subseteq Slots
  /\ lockedSlot \in Slots \cup {NoSlot}
  /\ frameCallback \in Callbacks \cup {NoCallback}
  /\ waiting \in BOOLEAN
  /\ reading \subseteq Slots
  /\ current \in Slots \cup {NoSlot}
  /\ unacked \subseteq Callbacks
  /\ events \in Seq(Event)

\* createWindow() has allocated the first pool.
Init ==
  /\ shmPool \in Pools
  /\ retiringPool = NoPool
  /\ busy = {} /\ lockedSlot = NoSlot
  /\ frameCallback = NoCallback
  /\ waiting = FALSE
  /\ reading = {} /\ current = NoSlot /\ unacked = {}
  /\ events = <<>>

-----------------------------------------------------------------------------
(* The client.                                                              *)

Sent(event) == \E i \in DOMAIN events : events[i] = event

\* The events still on their way to the buffers of a pool will not be delivered.
Kill(pool, queue) ==
  [i \in DOMAIN queue |->
     IF \E slot \in SlotsOf(pool) : queue[i] = ReleaseEvent(slot) THEN DeadEvent ELSE queue[i]]

\* ~ShmPool(): its wl_buffers are destroyed, so the compositor stops reading them.
DestroyPool(pool, queue) ==
  /\ busy' = busy \ SlotsOf(pool)
  /\ reading' = reading \ SlotsOf(pool)
  /\ current' = IF current \in SlotsOf(pool) THEN NoSlot ELSE current
  /\ events' = Kill(pool, queue)

KeepPools(queue) ==
  /\ UNCHANGED <<busy, reading, current>>
  /\ events' = queue

\* releaseRetiringPoolIfIdle()
ReleaseRetiringPoolIfIdle ==
  IF retiringPool # NoPool /\ SlotsOf(retiringPool) \cap busy = {}
  THEN retiringPool' = NoPool /\ DestroyPool(retiringPool, events)
  ELSE UNCHANGED retiringPool /\ KeepPools(events)

FreeSlots == SlotsOf(shmPool) \ busy

FirstFree(slot) == slot \in FreeSlots /\ \A other \in FreeSlots : slot[2] <= other[2]

-----------------------------------------------------------------------------
(* Plausible mistakes in the code below: the runs are known to catch them.  *)

\* lockFramebuffer() counts the slots from zero.
LockFromZero ==
  /\ ~waiting
  /\ shmPool # NoPool /\ frameCallback = NoCallback
  /\ ReleaseRetiringPoolIfIdle
  /\ \E slot \in FreeSlots : FirstFree(slot) /\ lockedSlot' = <<shmPool, slot[2] - 1>>
  /\ UNCHANGED <<shmPool, frameCallback, waiting, unacked>>

\* lockFramebuffer() relies on the frame callback alone.
LockIgnoresBusy ==
  /\ ~waiting
  /\ shmPool # NoPool /\ frameCallback = NoCallback
  /\ ReleaseRetiringPoolIfIdle
  /\ lockedSlot' = <<shmPool, 1>>
  /\ UNCHANGED <<shmPool, frameCallback, waiting, unacked>>

\* lockFramebuffer() relies on the busy flags alone.
LockIgnoresCallback ==
  /\ ~waiting
  /\ shmPool # NoPool
  /\ ReleaseRetiringPoolIfIdle
  /\ \E slot \in FreeSlots : FirstFree(slot) /\ lockedSlot' = slot
  /\ UNCHANGED <<shmPool, frameCallback, waiting, unacked>>

\* handleFrameDone() forgets to clear the pointer.
FrameDoneKeepsPointer ==
  /\ events # <<>> /\ Head(events).type = "done"
  /\ waiting' = FALSE
  /\ events' = Tail(events)
  /\ UNCHANGED <<shmPool, retiringPool, busy, lockedSlot, frameCallback, compositor>>

\* A resize that moves the locked slot's bookkeeping into the retired pool.
ResizeKeepsLock ==
  /\ events # <<>> /\ Head(events) = ResizeEvent
  /\ waiting' = FALSE
  /\ shmPool' \in Pools \ {shmPool, retiringPool}
  /\ retiringPool' = shmPool
  /\ IF retiringPool # NoPool THEN DestroyPool(retiringPool, Tail(events)) ELSE KeepPools(Tail(events))
  /\ UNCHANGED <<lockedSlot, frameCallback, unacked>>

-----------------------------------------------------------------------------
\* lockFramebuffer() hands out the first slot that is not busy.
LockFramebuffer ==
  /\ ~waiting
  /\ shmPool # NoPool /\ frameCallback = NoCallback
  /\ ReleaseRetiringPoolIfIdle
  /\ \E slot \in FreeSlots : FirstFree(slot) /\ lockedSlot' = slot
  /\ UNCHANGED <<shmPool, frameCallback, waiting, unacked>>

\* lockFramebuffer() refuses the frame; an idle retired pool still goes.
LockRefused ==
  /\ ~waiting
  /\ shmPool = NoPool \/ frameCallback # NoCallback \/ FreeSlots = {}
  /\ ReleaseRetiringPoolIfIdle
  /\ UNCHANGED <<shmPool, lockedSlot, frameCallback, waiting, unacked>>

\* presentFramebuffer(): attach, damage, frame, commit.  Without a locked slot it
\* does nothing.
PresentFramebuffer ==
  /\ ~waiting
  /\ lockedSlot # NoSlot
  /\ busy' = busy \cup {lockedSlot}
  /\ current' = lockedSlot
  /\ reading' = reading \cup {lockedSlot}
  /\ \E c \in Callbacks \ unacked :
       /\ ~Sent(DoneEvent(c))
       /\ frameCallback' = c
       /\ unacked' = unacked \cup {c}
  /\ lockedSlot' = NoSlot
  /\ UNCHANGED <<shmPool, retiringPool, waiting, events>>

\* swapBuffers() of a vsync window.
SwapBuffers ==
  /\ ~waiting
  /\ waiting' = TRUE
  /\ UNCHANGED <<shmPool, retiringPool, busy, lockedSlot, frameCallback, compositor, events>>

\* waitForFrameCallback() gives up at its deadline (or, without a callback to wait
\* for, after one refresh).
WaitTimeout ==
  /\ waiting
  /\ waiting' = FALSE
  /\ UNCHANGED <<shmPool, retiringPool, busy, lockedSlot, frameCallback, compositor, events>>

\* dispatch() hands the next event to its handler.  A wait ends with the first
\* event: it is the callback, or one the application should see first.
Dispatching(event) ==
  /\ events # <<>> /\ Head(events) = event
  /\ waiting' = FALSE

\* handleBufferRelease()
HandleBufferRelease ==
  \E slot \in Slots :
    /\ Dispatching(ReleaseEvent(slot))
    /\ busy' = busy \ {slot}
    /\ events' = Tail(events)
    /\ UNCHANGED <<shmPool, retiringPool, lockedSlot, frameCallback, compositor>>

\* handleFrameDone()
HandleFrameDone ==
  \E c \in Callbacks :
    /\ Dispatching(DoneEvent(c))
    /\ frameCallback' = IF frameCallback = c THEN NoCallback ELSE frameCallback
    /\ events' = Tail(events)
    /\ UNCHANGED <<shmPool, retiringPool, busy, lockedSlot, compositor>>

\* libwayland drops an event whose object is gone, and still counts it.
DropDeadEvent ==
  /\ Dispatching(DeadEvent)
  /\ events' = Tail(events)
  /\ UNCHANGED <<shmPool, retiringPool, busy, lockedSlot, frameCallback, compositor>>

\* handleXdgSurfaceConfigure() with another size, down to allocateShmBuffer(): the
\* pool is retired, which destroys the one retired before it.
HandleResize ==
  /\ Dispatching(ResizeEvent)
  /\ shmPool' \in Pools \ {shmPool, retiringPool}
  /\ retiringPool' = shmPool
  /\ IF retiringPool # NoPool
     THEN DestroyPool(retiringPool, Tail(events))
     ELSE KeepPools(Tail(events))
  /\ lockedSlot' = NoSlot
  /\ UNCHANGED <<frameCallback, unacked>>

-----------------------------------------------------------------------------
(* The compositor.                                                          *)

Send(event) ==
  /\ Len(events) < MaxEvents
  /\ events' = Append(events, event)
  /\ UNCHANGED client

\* A replaced buffer is released once the compositor is done with it.
ReleaseReplaced ==
  \E slot \in reading \ {current} :
    /\ Send(ReleaseEvent(slot))
    /\ reading' = reading \ {slot}
    /\ UNCHANGED <<current, unacked>>

\* A compositor that has copied the content releases it at once.
ReleaseCopied ==
  /\ current \in reading
  /\ Send(ReleaseEvent(current))
  /\ reading' = reading \ {current}
  /\ UNCHANGED <<current, unacked>>

SendDone ==
  \E c \in unacked :
    /\ Send(DoneEvent(c))
    /\ unacked' = unacked \ {c}
    /\ UNCHANGED <<reading, current>>

SendResize ==
  /\ ~Sent(ResizeEvent)
  /\ Send(ResizeEvent)
  /\ UNCHANGED compositor

-----------------------------------------------------------------------------
Dispatch == HandleBufferRelease \/ HandleFrameDone \/ DropDeadEvent \/ HandleResize

Next ==
  \/ LockFramebuffer \/ LockRefused \/ PresentFramebuffer \/ SwapBuffers \/ WaitTimeout
  \/ Dispatch
  \/ ReleaseReplaced \/ ReleaseCopied \/ SendDone \/ SendResize

Spec == Init /\ [][Next]_vars

\* The application goes on locking and presenting, waits end, events are
\* dispatched; a visible surface's frames are acknowledged and its replaced
\* buffers released.
Fairness ==
  /\ SF_vars(LockFramebuffer)
  /\ SF_vars(PresentFramebuffer)
  /\ WF_vars(WaitTimeout)
  /\ WF_vars(Dispatch)
  /\ WF_vars(ReleaseReplaced)
  /\ WF_vars(SendDone)

FairSpec == Spec /\ Fairness

-----------------------------------------------------------------------------
(* Properties.                                                              *)

\* "Slot busy-tracking is what keeps a write from ever landing in memory the
\* compositor may still be reading" (WaylandWindowManager.cpp, lines 612-617),
\* through resizes, double locks and releases that arrive late: the pool behaves as
\* a set of buffers each owned by one side.
Frames == INSTANCE SoftwareFrames WITH
  Buffers <- Slots,
  NoBuffer <- NoSlot,
  drawing <- lockedSlot,
  shown <- reading

ImplementsFrames == Frames!Spec

\* At most one frame is unacknowledged, and frameCallback_ is what remembers it: a
\* present never overwrites a callback still on its way, so the rasterizer cannot
\* run ahead of the display (WaylandWindowManager.hpp, lines 165-170).
OneFrameInFlight ==
  \A c \in Callbacks : c \in unacked \/ Sent(DoneEvent(c)) => c = frameCallback

\* A slot marked busy has its release still to come, as content or as an event: no
\* slot is lost to the client for good, whatever pools were retired meanwhile.
BusySlotsComeBack ==
  \A slot \in busy : slot \in reading \/ Sent(ReleaseEvent(slot))

\* The locked slot belongs to the pool presentFramebuffer() takes its size from.
LockedSlotIsCurrent == lockedSlot # NoSlot => lockedSlot \in SlotsOf(shmPool)

\* Retiring and destroying pools loses no slot: the server gives a busy one back, and the
\* locked one is never left behind in a pool that presentFramebuffer() no longer draws from.
SlotsSurviveResizes == BusySlotsComeBack /\ LockedSlotIsCurrent

\* A visible window never stops being given frames: both gates open again.
FramesKeepComing == []<>(lockedSlot # NoSlot)

=============================================================================
