--------------------------- MODULE WaylandShmProofs ---------------------------
(***************************************************************************)
(* Proofs about WaylandShm, for any number of pools, slots, callbacks and  *)
(* events on their way.                                                    *)
(*                                                                         *)
(* The argument: a buffer the compositor may read is marked busy, and each *)
(* release on its way is the only one for a slot that is busy and no longer*)
(* read; so clearing a busy flag never frees a slot that is being read,    *)
(* and a slot that is not busy is safe to draw in.  The locked slot stays  *)
(* free of readers because no frame callback is out while it is locked.    *)
(***************************************************************************)
EXTENDS WaylandShm, SequenceTheorems, TLAPS

\* A busy flag outlives the reading, and is what the release on its way will clear.
ReleasesMatch ==
  /\ reading \subseteq busy
  /\ \A i \in DOMAIN events, slot \in Slots :
       events[i] = ReleaseEvent(slot) => slot \in busy \ reading

\* Each release and each acknowledgement is on its way at most once.
EventsOnce ==
  /\ \A i, j \in DOMAIN events, slot \in Slots :
       events[i] = ReleaseEvent(slot) /\ events[j] = ReleaseEvent(slot) => i = j
  /\ \A i, j \in DOMAIN events, c \in Callbacks :
       events[i] = DoneEvent(c) /\ events[j] = DoneEvent(c) => i = j
  /\ \A i \in DOMAIN events, c \in Callbacks : events[i] = DoneEvent(c) => c \notin unacked

\* While a slot is locked it is nobody else's, and no frame is unacknowledged.
LockedSlotFree ==
  lockedSlot # NoSlot =>
    lockedSlot \notin busy /\ frameCallback = NoCallback

IInv ==
  /\ TypeOK
  /\ ReleasesMatch
  /\ EventsOnce
  /\ LockedSlotFree
  /\ LockedSlotIsCurrent
  /\ OneFrameInFlight
  /\ BusySlotsComeBack

-----------------------------------------------------------------------------
(* Lemmas.                                                                  *)

\* The kinds of events are told apart by their type, and carry their object.
LEMMA EventsDiffer ==
  ASSUME NEW s, NEW t, NEW c, NEW d
  PROVE  /\ ReleaseEvent(s) = ReleaseEvent(t) => s = t
         /\ DoneEvent(c) = DoneEvent(d) => c = d
         /\ ReleaseEvent(s) # DoneEvent(c)
         /\ DeadEvent \notin {ReleaseEvent(s), DoneEvent(c), ResizeEvent}
         /\ ResizeEvent \notin {ReleaseEvent(s), DoneEvent(c)}
<1>1. ReleaseEvent(s) = ReleaseEvent(t) => s = t
  <2>1. ReleaseEvent(s).slot = s /\ ReleaseEvent(t).slot = t  BY DEF ReleaseEvent
  <2> QED  BY <2>1
<1>2. DoneEvent(c) = DoneEvent(d) => c = d
  <2>1. DoneEvent(c).callback = c /\ DoneEvent(d).callback = d  BY DEF DoneEvent
  <2> QED  BY <2>1
<1>3. /\ ReleaseEvent(s).type = "release"
      /\ DoneEvent(c).type = "done"
      /\ ResizeEvent.type = "resize"
      /\ DeadEvent.type = "dead"
  BY DEF ReleaseEvent, DoneEvent, ResizeEvent, DeadEvent
<1> QED  BY <1>1, <1>2, <1>3

\* Taking the first event off the queue moves the others up by one.
LEMMA Dequeue ==
  ASSUME NEW q \in Seq(Event), q # <<>>
  PROVE  /\ Tail(q) \in Seq(Event)
         /\ 1 \in DOMAIN q /\ Head(q) = q[1]
         /\ \A i \in DOMAIN Tail(q) : i + 1 \in DOMAIN q /\ Tail(q)[i] = q[i + 1]
         /\ \A j \in DOMAIN q : j = 1 \/ (j - 1 \in DOMAIN Tail(q) /\ Tail(q)[j - 1] = q[j])
  BY SMT

\* Killing a pool's events leaves every other event in its place.
LEMMA KillFacts ==
  ASSUME NEW pool, NEW q \in Seq(Event)
  PROVE  /\ Kill(pool, q) \in Seq(Event)
         /\ DOMAIN Kill(pool, q) = DOMAIN q
         /\ \A i \in DOMAIN q :
              \/ Kill(pool, q)[i] = q[i] /\ \A s \in SlotsOf(pool) : q[i] # ReleaseEvent(s)
              \/ Kill(pool, q)[i] = DeadEvent /\ \E s \in SlotsOf(pool) : q[i] = ReleaseEvent(s)
<1>1. /\ DOMAIN q = 1 .. Len(q) /\ Len(q) \in Nat
      /\ \A i \in 1 .. Len(q) : q[i] \in Event
  OBVIOUS
<1>2. DeadEvent \in Event  BY DEF Event
<1>3. Kill(pool, q) \in [1 .. Len(q) -> Event]  BY <1>1, <1>2, Zenon DEF Kill
<1>4. Kill(pool, q) \in Seq(Event)  BY <1>1, <1>3, SeqDef
<1> QED  BY <1>1, <1>4, Zenon DEF Kill

\* A queue that lost its first event, or had events killed, still holds none twice.
LEMMA DiscardKeepsOnce ==
  ASSUME EventsOnce, UNCHANGED unacked, NEW k \in Nat,
         \A i \in DOMAIN events' :
           \/ events'[i] = DeadEvent
           \/ i + k \in DOMAIN events /\ events'[i] = events[i + k],
         DOMAIN events' \subseteq Nat
  PROVE  EventsOnce'
<1>1. \A i \in DOMAIN events' : \A e :
        events'[i] = e /\ e # DeadEvent => i + k \in DOMAIN events /\ events[i + k] = e
  OBVIOUS
<1>2. \A i, j \in DOMAIN events' : i + k = j + k => i = j  OBVIOUS
<1>3. ASSUME NEW i \in DOMAIN events', NEW j \in DOMAIN events', NEW slot \in Slots,
             events'[i] = ReleaseEvent(slot), events'[j] = ReleaseEvent(slot)
      PROVE  i = j
  <2>1. i + k \in DOMAIN events /\ events[i + k] = ReleaseEvent(slot)  BY <1>1, <1>3, EventsDiffer, Zenon
  <2>2. j + k \in DOMAIN events /\ events[j + k] = ReleaseEvent(slot)  BY <1>1, <1>3, EventsDiffer, Zenon
  <2>3. i + k = j + k  BY <2>1, <2>2, Zenon DEF EventsOnce
  <2> QED  BY <2>3, <1>2
<1>4. ASSUME NEW i \in DOMAIN events', NEW j \in DOMAIN events', NEW c \in Callbacks,
             events'[i] = DoneEvent(c), events'[j] = DoneEvent(c)
      PROVE  i = j
  <2>1. i + k \in DOMAIN events /\ events[i + k] = DoneEvent(c)  BY <1>1, <1>4, EventsDiffer, Zenon
  <2>2. j + k \in DOMAIN events /\ events[j + k] = DoneEvent(c)  BY <1>1, <1>4, EventsDiffer, Zenon
  <2>3. i + k = j + k  BY <2>1, <2>2, Zenon DEF EventsOnce
  <2> QED  BY <2>3, <1>2
<1>5. ASSUME NEW i \in DOMAIN events', NEW c \in Callbacks, events'[i] = DoneEvent(c)
      PROVE  c \notin unacked'
  BY <1>1, <1>5, EventsDiffer, Zenon DEF EventsOnce
<1> QED  BY <1>3, <1>4, <1>5, ZenonT(60) DEF EventsOnce

\* Sending adds one event at the end.
LEMMA Enqueue ==
  ASSUME events \in Seq(Event), NEW e \in Event, Send(e)
  PROVE  /\ events' \in Seq(Event)
         /\ Len(events) + 1 \in DOMAIN events' /\ events'[Len(events) + 1] = e
         /\ \A i \in DOMAIN events : i \in DOMAIN events' /\ events'[i] = events[i]
         /\ \A i \in DOMAIN events' :
              \/ i \in DOMAIN events /\ events'[i] = events[i]
              \/ i = Len(events) + 1 /\ events'[i] = e
  BY DEF Send

\* What destroying a pool, or keeping the pools, leaves true, the events being what
\* is left of the queue after the first k of them, none of which was a release or an
\* acknowledgement.
LEMMA PoolStep ==
  ASSUME IInv, NEW k \in Nat, NEW q \in Seq(Event), NEW pool,
         \A i \in DOMAIN q : i + k \in DOMAIN events /\ q[i] = events[i + k],
         \A j \in DOMAIN events :
           \/ events[j] = ResizeEvent
           \/ j - k \in DOMAIN q /\ q[j - k] = events[j],
         DestroyPool(pool, q) \/ KeepPools(q),
         UNCHANGED <<unacked, frameCallback>>
  PROVE  /\ busy' \subseteq busy /\ reading' \subseteq reading
         /\ current' \in Slots \cup {NoSlot} /\ events' \in Seq(Event)
         /\ ReleasesMatch' /\ EventsOnce' /\ OneFrameInFlight' /\ BusySlotsComeBack'
<1>0. TypeOK /\ ReleasesMatch /\ EventsOnce /\ OneFrameInFlight /\ BusySlotsComeBack
  BY DEF IInv
<1>1. /\ busy' \subseteq busy /\ reading' \subseteq reading
      /\ current' \in Slots \cup {NoSlot}
  BY <1>0 DEF TypeOK, DestroyPool, KeepPools
<1>2. /\ events' \in Seq(Event)
      /\ DOMAIN events' = DOMAIN q
      /\ \A i \in DOMAIN q : events'[i] = q[i] \/ events'[i] = DeadEvent
      /\ \A i \in DOMAIN q, slot \in Slots :
           events'[i] = ReleaseEvent(slot) /\ slot \in busy \ reading => slot \in busy' \ reading'
      /\ \A i \in DOMAIN q, slot \in busy' : q[i] = ReleaseEvent(slot) => events'[i] = q[i]
  <2>1. CASE KeepPools(q)  BY <2>1 DEF KeepPools
  <2>2. CASE DestroyPool(pool, q)
    <3>1. events' = Kill(pool, q) /\ busy' = busy \ SlotsOf(pool) /\ reading' = reading \ SlotsOf(pool)
      BY <2>2 DEF DestroyPool
    <3>2. ASSUME NEW i \in DOMAIN q, NEW slot \in Slots, events'[i] = ReleaseEvent(slot),
                 slot \in busy \ reading
          PROVE  slot \in busy' \ reading'
      <4>1. events'[i] # DeadEvent  BY <3>2, EventsDiffer, Zenon
      <4>2. events'[i] = q[i] /\ \A s \in SlotsOf(pool) : q[i] # ReleaseEvent(s)
        BY <4>1, <3>1, KillFacts, ZenonT(60)
      <4>3. slot \notin SlotsOf(pool)  BY <4>2, <3>2, Zenon
      <4> QED  BY <4>3, <3>1, <3>2
    <3>3. ASSUME NEW i \in DOMAIN q, NEW slot \in busy', q[i] = ReleaseEvent(slot)
          PROVE  events'[i] = q[i]
      <4>1. slot \notin SlotsOf(pool)  BY <3>1
      <4>2. \A s \in SlotsOf(pool) : q[i] # ReleaseEvent(s)  BY <4>1, <3>3, EventsDiffer, Zenon
      <4> QED  BY <4>2, <3>1, KillFacts, Zenon
    <3> QED  BY <3>1, <3>2, <3>3, KillFacts, Zenon
  <2> QED  BY <2>1, <2>2
<1>3. /\ DOMAIN events' \subseteq Nat
      /\ \A i \in DOMAIN events' :
           \/ events'[i] = DeadEvent
           \/ i + k \in DOMAIN events /\ events'[i] = events[i + k]
  BY <1>2
<1>4. EventsOnce'  BY <1>0, <1>3, DiscardKeepsOnce
<1>5. ReleasesMatch'
  <2>1. reading' \subseteq busy'
    BY <1>0 DEF ReleasesMatch, DestroyPool, KeepPools
  <2>2. ASSUME NEW i \in DOMAIN events', NEW slot \in Slots, events'[i] = ReleaseEvent(slot)
        PROVE  slot \in busy' \ reading'
    <3>1. events'[i] # DeadEvent  BY <2>2, EventsDiffer, Zenon
    <3>2. i + k \in DOMAIN events /\ events[i + k] = ReleaseEvent(slot)  BY <3>1, <2>2, <1>3
    <3>3. slot \in busy \ reading  BY <3>2, <1>0, Zenon DEF ReleasesMatch
    <3> QED  BY <3>3, <2>2, <1>2
  <2> QED  BY <2>1, <2>2 DEF ReleasesMatch
<1>6. OneFrameInFlight'
  <2>1. ASSUME NEW c \in Callbacks, NEW i \in DOMAIN events', events'[i] = DoneEvent(c)
        PROVE  c = frameCallback'
    <3>1. events'[i] # DeadEvent  BY <2>1, EventsDiffer, Zenon
    <3>2. i + k \in DOMAIN events /\ events[i + k] = DoneEvent(c)  BY <3>1, <2>1, <1>3
    <3> QED  BY <3>2, <1>0 DEF OneFrameInFlight, Sent
  <2> QED  BY <2>1, <1>0 DEF OneFrameInFlight, Sent
<1>7. BusySlotsComeBack'
  <2> SUFFICES ASSUME NEW slot \in busy', slot \notin reading'
               PROVE  \E i \in DOMAIN events' : events'[i] = ReleaseEvent(slot)
    BY DEF BusySlotsComeBack, Sent
  <2>1. slot \in busy /\ slot \notin reading
    BY DEF DestroyPool, KeepPools
  <2>2. PICK j \in DOMAIN events : events[j] = ReleaseEvent(slot)
    BY <2>1, <1>0 DEF BusySlotsComeBack, Sent
  <2>3. j - k \in DOMAIN q /\ q[j - k] = ReleaseEvent(slot)  BY <2>2, EventsDiffer
  <2>4. j - k \in DOMAIN events' /\ events'[j - k] = ReleaseEvent(slot)  BY <2>3, <1>2
  <2> QED  BY <2>4
<1> QED  BY <1>1, <1>2, <1>4, <1>5, <1>6, <1>7

\* lockFramebuffer() and the idle retired pool, seen from the rest of the invariant.
LEMMA RetireStep ==
  ASSUME IInv, ReleaseRetiringPoolIfIdle, UNCHANGED <<unacked, frameCallback>>
  PROVE  /\ retiringPool' \in Pools \cup {NoPool}
         /\ busy' \subseteq busy /\ reading' = reading
         /\ current' \in Slots \cup {NoSlot} /\ events' \in Seq(Event)
         /\ ReleasesMatch' /\ EventsOnce' /\ OneFrameInFlight' /\ BusySlotsComeBack'
<1>1. DestroyPool(retiringPool, events) \/ KeepPools(events)
  BY DEF ReleaseRetiringPoolIfIdle
<1>2. events \in Seq(Event)  BY DEF IInv, TypeOK
<1>3. /\ 0 \in Nat
      /\ \A i \in DOMAIN events : i + 0 \in DOMAIN events /\ i - 0 = i /\ events[i] = events[i + 0]
  BY <1>2
<1>4. /\ busy' \subseteq busy
      /\ current' \in Slots \cup {NoSlot} /\ events' \in Seq(Event)
      /\ ReleasesMatch' /\ EventsOnce' /\ OneFrameInFlight' /\ BusySlotsComeBack'
  BY <1>1, <1>2, <1>3, PoolStep
<1>5. reading' = reading
  BY DEF ReleaseRetiringPoolIfIdle, DestroyPool, KeepPools, IInv, ReleasesMatch
<1>6. retiringPool' \in Pools \cup {NoPool}
  BY DEF ReleaseRetiringPoolIfIdle, IInv, TypeOK
<1> QED  BY <1>4, <1>5, <1>6

\* The invariant holds of every behaviour.
THEOREM Invariance == Spec => []IInv
<1>1. Init => IInv
  <2> SUFFICES ASSUME Init PROVE IInv  OBVIOUS
  <2>1. TypeOK
    <3>1. <<>> \in Seq(Event)  OBVIOUS
    <3> QED  BY <3>1, Zenon DEF Init, TypeOK
  <2> QED  BY <2>1 DEF Init, IInv, ReleasesMatch, EventsOnce, LockedSlotFree, LockedSlotIsCurrent,
                       OneFrameInFlight, BusySlotsComeBack, Sent
<1>2. IInv /\ [Next]_vars => IInv'
  <2> SUFFICES ASSUME IInv, [Next]_vars PROVE IInv'  OBVIOUS
  <2>0. /\ TypeOK /\ ReleasesMatch /\ EventsOnce /\ LockedSlotFree /\ LockedSlotIsCurrent
        /\ OneFrameInFlight /\ BusySlotsComeBack
    BY DEF IInv
  <2>1. CASE LockFramebuffer
    <3>1. UNCHANGED <<shmPool, frameCallback, waiting, unacked>> /\ ReleaseRetiringPoolIfIdle
      BY <2>1 DEF LockFramebuffer
    <3>2. lockedSlot' \in FreeSlots /\ frameCallback = NoCallback
      BY <2>1 DEF LockFramebuffer, FirstFree
    <3>3. /\ retiringPool' \in Pools \cup {NoPool}
          /\ busy' \subseteq busy /\ reading' = reading
          /\ current' \in Slots \cup {NoSlot} /\ events' \in Seq(Event)
          /\ ReleasesMatch' /\ EventsOnce' /\ OneFrameInFlight' /\ BusySlotsComeBack'
      BY <3>1, RetireStep
    <3>4. TypeOK'
      <4>1. lockedSlot' \in Slots  BY <3>2 DEF FreeSlots, SlotsOf
      <4>2. busy' \subseteq Slots /\ reading' \subseteq Slots  BY <2>0, <3>3 DEF TypeOK
      <4> QED  BY <2>0, <3>1, <3>3, <4>1, <4>2 DEF TypeOK
    <3>5. LockedSlotFree' /\ LockedSlotIsCurrent'
      BY <3>1, <3>2, <3>3 DEF LockedSlotFree, LockedSlotIsCurrent, FreeSlots
    <3> QED  BY <3>3, <3>4, <3>5 DEF IInv
  <2>2. CASE LockRefused
    <3>1. UNCHANGED <<shmPool, lockedSlot, frameCallback, waiting, unacked>> /\ ReleaseRetiringPoolIfIdle
      BY <2>2 DEF LockRefused
    <3>3. /\ retiringPool' \in Pools \cup {NoPool}
          /\ busy' \subseteq busy /\ reading' = reading
          /\ current' \in Slots \cup {NoSlot} /\ events' \in Seq(Event)
          /\ ReleasesMatch' /\ EventsOnce' /\ OneFrameInFlight' /\ BusySlotsComeBack'
      BY <3>1, RetireStep
    <3>4. TypeOK'  BY <2>0, <3>1, <3>3 DEF TypeOK
    <3>5. LockedSlotFree' /\ LockedSlotIsCurrent'
      BY <2>0, <3>1, <3>3 DEF LockedSlotFree, LockedSlotIsCurrent
    <3> QED  BY <3>3, <3>4, <3>5 DEF IInv
  <2>3. CASE PresentFramebuffer
    <3>0. PICK c \in Callbacks \ unacked :
            ~Sent(DoneEvent(c)) /\ frameCallback' = c /\ unacked' = unacked \cup {c}
      BY <2>3 DEF PresentFramebuffer
    <3>1. /\ UNCHANGED <<shmPool, retiringPool, waiting, events>>
          /\ lockedSlot # NoSlot /\ lockedSlot' = NoSlot /\ current' = lockedSlot
          /\ busy' = busy \cup {lockedSlot} /\ reading' = reading \cup {lockedSlot}
      BY <2>3 DEF PresentFramebuffer
    <3>2. lockedSlot \notin busy /\ frameCallback = NoCallback  BY <2>0, <3>1 DEF LockedSlotFree
    <3>3. TypeOK'  BY <2>0, <3>0, <3>1 DEF TypeOK
    <3>4. ReleasesMatch'  BY <2>0, <3>1, <3>2 DEF ReleasesMatch
    <3>5. EventsOnce'
      <4>1. \A i \in DOMAIN events : events[i] # DoneEvent(c)  BY <3>0 DEF Sent
      <4> QED  BY <2>0, <3>0, <3>1, <4>1 DEF EventsOnce
    <3>6. LockedSlotFree' /\ LockedSlotIsCurrent'  BY <3>1 DEF LockedSlotFree, LockedSlotIsCurrent
    <3>7. OneFrameInFlight'
      <4>1. \A d \in Callbacks : d \notin unacked /\ ~Sent(DoneEvent(d))
        BY <2>0, <3>2, CallbacksAssumption DEF OneFrameInFlight
      <4> QED  BY <3>0, <3>1, <4>1 DEF OneFrameInFlight, Sent
    <3>8. BusySlotsComeBack'  BY <2>0, <3>1 DEF BusySlotsComeBack, Sent
    <3> QED  BY <3>3, <3>4, <3>5, <3>6, <3>7, <3>8 DEF IInv
  <2>4. CASE SwapBuffers \/ WaitTimeout
    <3>1. waiting' \in BOOLEAN
          /\ UNCHANGED <<shmPool, retiringPool, busy, lockedSlot, frameCallback, compositor, events>>
      BY <2>4 DEF SwapBuffers, WaitTimeout
    <3> QED
      BY <2>0, <3>1 DEF IInv, TypeOK, ReleasesMatch, EventsOnce, LockedSlotFree, LockedSlotIsCurrent,
                        OneFrameInFlight, BusySlotsComeBack, Sent, compositor
  <2>5. CASE HandleBufferRelease
    <3>0. PICK slot \in Slots :
            /\ events # <<>> /\ Head(events) = ReleaseEvent(slot) /\ waiting' = FALSE
            /\ busy' = busy \ {slot} /\ events' = Tail(events)
            /\ UNCHANGED <<shmPool, retiringPool, lockedSlot, frameCallback, compositor>>
      BY <2>5 DEF HandleBufferRelease, Dispatching
    <3>1. UNCHANGED <<shmPool, retiringPool, lockedSlot, frameCallback, reading, current, unacked>>
      BY <3>0 DEF compositor
    <3>2. /\ events' \in Seq(Event) /\ 1 \in DOMAIN events /\ events[1] = ReleaseEvent(slot)
          /\ \A i \in DOMAIN events' : i + 1 \in DOMAIN events /\ events'[i] = events[i + 1]
          /\ \A j \in DOMAIN events : j = 1 \/ (j - 1 \in DOMAIN events' /\ events'[j - 1] = events[j])
          /\ DOMAIN events' \subseteq Nat
      BY <2>0, <3>0, Dequeue DEF TypeOK
    <3>3. TypeOK'  BY <2>0, <3>0, <3>1, <3>2 DEF TypeOK
    <3>4. ReleasesMatch'
      <4>1. slot \notin reading  BY <2>0, <3>2 DEF ReleasesMatch
      <4>2. ASSUME NEW i \in DOMAIN events', NEW s \in Slots, events'[i] = ReleaseEvent(s)
            PROVE  s \in busy' \ reading'
        <5>1. i + 1 \in DOMAIN events /\ events[i + 1] = ReleaseEvent(s) /\ i + 1 # 1
          BY <3>2, <4>2
        <5>2. s \in busy \ reading  BY <2>0, <5>1 DEF ReleasesMatch
        <5>3. s # slot  BY <2>0, <3>2, <5>1 DEF EventsOnce
        <5> QED  BY <3>0, <3>1, <5>2, <5>3
      <4> QED  BY <2>0, <3>0, <3>1, <4>1, <4>2 DEF ReleasesMatch
    <3>5. EventsOnce'  BY <2>0, <3>1, <3>2, DiscardKeepsOnce
    <3>6. LockedSlotFree' /\ LockedSlotIsCurrent'
      BY <2>0, <3>0, <3>1 DEF LockedSlotFree, LockedSlotIsCurrent
    <3>7. OneFrameInFlight'  BY <2>0, <3>1, <3>2 DEF OneFrameInFlight, Sent
    <3>8. BusySlotsComeBack'
      <4> SUFFICES ASSUME NEW s \in busy', s \notin reading'
                   PROVE  \E i \in DOMAIN events' : events'[i] = ReleaseEvent(s)
        BY DEF BusySlotsComeBack, Sent
      <4>1. PICK j \in DOMAIN events : events[j] = ReleaseEvent(s)
        BY <2>0, <3>0, <3>1 DEF BusySlotsComeBack, Sent
      <4>2. j # 1  BY <3>0, <3>2, <4>1, EventsDiffer
      <4> QED  BY <3>2, <4>1, <4>2
    <3> QED  BY <3>3, <3>4, <3>5, <3>6, <3>7, <3>8 DEF IInv
  <2>6. CASE HandleFrameDone
    <3>0. PICK c \in Callbacks :
            /\ events # <<>> /\ Head(events) = DoneEvent(c) /\ waiting' = FALSE
            /\ frameCallback' = IF frameCallback = c THEN NoCallback ELSE frameCallback
            /\ events' = Tail(events)
            /\ UNCHANGED <<shmPool, retiringPool, busy, lockedSlot, compositor>>
      BY <2>6 DEF HandleFrameDone, Dispatching
    <3>1. UNCHANGED <<shmPool, retiringPool, busy, lockedSlot, reading, current, unacked>>
      BY <3>0 DEF compositor
    <3>2. /\ events' \in Seq(Event) /\ 1 \in DOMAIN events /\ events[1] = DoneEvent(c)
          /\ \A i \in DOMAIN events' : i + 1 \in DOMAIN events /\ events'[i] = events[i + 1]
          /\ \A j \in DOMAIN events : j = 1 \/ (j - 1 \in DOMAIN events' /\ events'[j - 1] = events[j])
          /\ DOMAIN events' \subseteq Nat
      BY <2>0, <3>0, Dequeue DEF TypeOK
    <3>3. TypeOK'  BY <2>0, <3>0, <3>1, <3>2 DEF TypeOK
    <3>4. ReleasesMatch'  BY <2>0, <3>1, <3>2 DEF ReleasesMatch
    <3>5. EventsOnce'  BY <2>0, <3>1, <3>2, DiscardKeepsOnce
    <3>6. LockedSlotFree' /\ LockedSlotIsCurrent'
      BY <2>0, <3>0, <3>1 DEF LockedSlotFree, LockedSlotIsCurrent
    <3>7. OneFrameInFlight'
      <4>1. c = frameCallback /\ c \notin unacked
        BY <2>0, <3>2 DEF OneFrameInFlight, EventsOnce, Sent
      <4>2. ASSUME NEW d \in Callbacks, NEW i \in DOMAIN events', events'[i] = DoneEvent(d)
            PROVE  FALSE
        <5>1. i + 1 \in DOMAIN events /\ events[i + 1] = DoneEvent(d) /\ i + 1 # 1
          BY <3>2, <4>2
        <5>2. d = c  BY <2>0, <4>1, <5>1 DEF OneFrameInFlight, Sent
        <5> QED  BY <2>0, <3>2, <5>1, <5>2 DEF EventsOnce
      <4>3. \A d \in Callbacks : d \notin unacked  BY <2>0, <4>1 DEF OneFrameInFlight
      <4> QED  BY <3>1, <4>2, <4>3 DEF OneFrameInFlight, Sent
    <3>8. BusySlotsComeBack'
      <4> SUFFICES ASSUME NEW s \in busy', s \notin reading'
                   PROVE  \E i \in DOMAIN events' : events'[i] = ReleaseEvent(s)
        BY DEF BusySlotsComeBack, Sent
      <4>1. PICK j \in DOMAIN events : events[j] = ReleaseEvent(s)
        BY <2>0, <3>1 DEF BusySlotsComeBack, Sent
      <4>2. j # 1  BY <3>2, <4>1, EventsDiffer
      <4> QED  BY <3>2, <4>1, <4>2
    <3> QED  BY <3>3, <3>4, <3>5, <3>6, <3>7, <3>8 DEF IInv
  <2>7. CASE DropDeadEvent
    <3>0. /\ events # <<>> /\ Head(events) = DeadEvent /\ waiting' = FALSE
          /\ events' = Tail(events)
          /\ UNCHANGED <<shmPool, retiringPool, busy, lockedSlot, frameCallback, reading, current, unacked>>
      BY <2>7 DEF DropDeadEvent, Dispatching, compositor
    <3>2. /\ events' \in Seq(Event) /\ 1 \in DOMAIN events /\ events[1] = DeadEvent
          /\ \A i \in DOMAIN events' : i + 1 \in DOMAIN events /\ events'[i] = events[i + 1]
          /\ \A j \in DOMAIN events : j = 1 \/ (j - 1 \in DOMAIN events' /\ events'[j - 1] = events[j])
          /\ DOMAIN events' \subseteq Nat
      BY <2>0, <3>0, Dequeue DEF TypeOK
    <3>3. TypeOK'  BY <2>0, <3>0, <3>2 DEF TypeOK
    <3>4. ReleasesMatch'  BY <2>0, <3>0, <3>2 DEF ReleasesMatch
    <3>5. EventsOnce'  BY <2>0, <3>0, <3>2, DiscardKeepsOnce
    <3>6. LockedSlotFree' /\ LockedSlotIsCurrent'
      BY <2>0, <3>0 DEF LockedSlotFree, LockedSlotIsCurrent
    <3>7. OneFrameInFlight'  BY <2>0, <3>0, <3>2 DEF OneFrameInFlight, Sent
    <3>8. BusySlotsComeBack'
      <4> SUFFICES ASSUME NEW s \in busy', s \notin reading'
                   PROVE  \E i \in DOMAIN events' : events'[i] = ReleaseEvent(s)
        BY DEF BusySlotsComeBack, Sent
      <4>1. PICK j \in DOMAIN events : events[j] = ReleaseEvent(s)
        BY <2>0, <3>0 DEF BusySlotsComeBack, Sent
      <4>2. j # 1  BY <3>2, <4>1, EventsDiffer
      <4> QED  BY <3>2, <4>1, <4>2
    <3> QED  BY <3>3, <3>4, <3>5, <3>6, <3>7, <3>8 DEF IInv
  <2>8. CASE HandleResize
    <3>0. /\ events # <<>> /\ Head(events) = ResizeEvent /\ waiting' = FALSE
          /\ shmPool' \in Pools /\ retiringPool' = shmPool /\ lockedSlot' = NoSlot
          /\ DestroyPool(retiringPool, Tail(events)) \/ KeepPools(Tail(events))
          /\ UNCHANGED <<unacked, frameCallback>>
      BY <2>8 DEF HandleResize, Dispatching
    <3>1. /\ Tail(events) \in Seq(Event) /\ events[1] = ResizeEvent
          /\ \A i \in DOMAIN Tail(events) : i + 1 \in DOMAIN events /\ Tail(events)[i] = events[i + 1]
          /\ \A j \in DOMAIN events :
               \/ events[j] = ResizeEvent
               \/ j - 1 \in DOMAIN Tail(events) /\ Tail(events)[j - 1] = events[j]
          /\ 1 \in Nat
      BY <2>0, <3>0, Dequeue DEF TypeOK
    <3>2. /\ busy' \subseteq busy /\ reading' \subseteq reading
          /\ current' \in Slots \cup {NoSlot} /\ events' \in Seq(Event)
          /\ ReleasesMatch' /\ EventsOnce' /\ OneFrameInFlight' /\ BusySlotsComeBack'
      BY <3>0, <3>1, PoolStep
    <3>3. TypeOK'  BY <2>0, <3>0, <3>2 DEF TypeOK
    <3>4. LockedSlotFree' /\ LockedSlotIsCurrent'  BY <3>0 DEF LockedSlotFree, LockedSlotIsCurrent
    <3> QED  BY <3>2, <3>3, <3>4 DEF IInv
  <2>9. CASE ReleaseReplaced \/ ReleaseCopied
    <3>0. PICK slot \in reading :
            /\ Send(ReleaseEvent(slot)) /\ reading' = reading \ {slot}
            /\ UNCHANGED <<current, unacked>>
      BY <2>9 DEF ReleaseReplaced, ReleaseCopied
    <3>1. UNCHANGED <<shmPool, retiringPool, busy, lockedSlot, frameCallback, waiting>>
      BY <3>0 DEF Send, client
    <3>2. slot \in Slots /\ slot \in busy /\ ReleaseEvent(slot) \in Event
      BY <2>0 DEF TypeOK, ReleasesMatch, Event
    <3> DEFINE n == Len(events) + 1
    <3>3. /\ events' \in Seq(Event) /\ n \in DOMAIN events' /\ events'[n] = ReleaseEvent(slot)
          /\ \A i \in DOMAIN events : i \in DOMAIN events' /\ events'[i] = events[i]
          /\ \A i \in DOMAIN events' :
               \/ i \in DOMAIN events /\ events'[i] = events[i]
               \/ i = n /\ events'[i] = ReleaseEvent(slot)
      BY <2>0, <3>0, <3>2, Enqueue DEF TypeOK
    <3> HIDE DEF n
    <3>4. \A i \in DOMAIN events : events[i] # ReleaseEvent(slot)  BY <2>0, <3>2 DEF ReleasesMatch
    <3>5. TypeOK'  BY <2>0, <3>0, <3>1, <3>3 DEF TypeOK
    <3>6. ReleasesMatch'
      <4>1. ASSUME NEW i \in DOMAIN events', NEW s \in Slots, events'[i] = ReleaseEvent(s)
            PROVE  s \in busy' \ reading'
        <5>1. CASE i \in DOMAIN events /\ events'[i] = events[i]
          BY <2>0, <3>0, <3>1, <4>1, <5>1 DEF ReleasesMatch
        <5>2. CASE i = n /\ events'[i] = ReleaseEvent(slot)
          <6>1. s = slot  BY <4>1, <5>2, EventsDiffer
          <6> QED  BY <3>0, <3>1, <3>2, <6>1
        <5> QED  BY <3>3, <5>1, <5>2
      <4> QED  BY <2>0, <3>0, <3>1, <4>1 DEF ReleasesMatch
    <3>7. EventsOnce'
      <4>1. ASSUME NEW i \in DOMAIN events', NEW j \in DOMAIN events', NEW s \in Slots,
                   events'[i] = ReleaseEvent(s), events'[j] = ReleaseEvent(s)
            PROVE  i = j
        <5>1. CASE s = slot  BY <3>3, <3>4, <4>1, <5>1
        <5>2. CASE s # slot
          <6>1. i \in DOMAIN events /\ events[i] = ReleaseEvent(s)
            BY <3>3, <4>1, <5>2, EventsDiffer
          <6>2. j \in DOMAIN events /\ events[j] = ReleaseEvent(s)
            BY <3>3, <4>1, <5>2, EventsDiffer
          <6> QED  BY <2>0, <6>1, <6>2 DEF EventsOnce
        <5> QED  BY <5>1, <5>2
      <4>2. \A i \in DOMAIN events', c \in Callbacks :
              events'[i] = DoneEvent(c) => i \in DOMAIN events /\ events[i] = DoneEvent(c)
        BY <3>3, EventsDiffer
      <4> QED  BY <2>0, <3>0, <4>1, <4>2 DEF EventsOnce
    <3>8. LockedSlotFree' /\ LockedSlotIsCurrent'
      BY <2>0, <3>1 DEF LockedSlotFree, LockedSlotIsCurrent
    <3>9. OneFrameInFlight'
      <4>1. \A c \in Callbacks, i \in DOMAIN events' :
              events'[i] = DoneEvent(c) => i \in DOMAIN events /\ events[i] = DoneEvent(c)
        BY <3>3, EventsDiffer
      <4> QED  BY <2>0, <3>0, <3>1, <4>1 DEF OneFrameInFlight, Sent
    <3>10. BusySlotsComeBack'  BY <2>0, <3>0, <3>1, <3>3 DEF BusySlotsComeBack, Sent
    <3> QED  BY <3>5, <3>6, <3>7, <3>8, <3>9, <3>10 DEF IInv
  <2>10. CASE SendDone
    <3>0. PICK c \in unacked :
            /\ Send(DoneEvent(c)) /\ unacked' = unacked \ {c}
            /\ UNCHANGED <<reading, current>>
      BY <2>10 DEF SendDone
    <3>1. UNCHANGED <<shmPool, retiringPool, busy, lockedSlot, frameCallback, waiting>>
      BY <3>0 DEF Send, client
    <3>2. c \in Callbacks /\ DoneEvent(c) \in Event  BY <2>0 DEF TypeOK, Event
    <3> DEFINE n == Len(events) + 1
    <3>3. /\ events' \in Seq(Event) /\ n \in DOMAIN events' /\ events'[n] = DoneEvent(c)
          /\ \A i \in DOMAIN events : i \in DOMAIN events' /\ events'[i] = events[i]
          /\ \A i \in DOMAIN events' :
               \/ i \in DOMAIN events /\ events'[i] = events[i]
               \/ i = n /\ events'[i] = DoneEvent(c)
      BY <2>0, <3>0, <3>2, Enqueue DEF TypeOK
    <3> HIDE DEF n
    <3>4. \A i \in DOMAIN events : events[i] # DoneEvent(c)  BY <2>0, <3>0, <3>2 DEF EventsOnce
    <3>5. \A i \in DOMAIN events', s \in Slots :
            events'[i] = ReleaseEvent(s) => i \in DOMAIN events /\ events[i] = ReleaseEvent(s)
      BY <3>3, EventsDiffer
    <3>6. TypeOK'  BY <2>0, <3>0, <3>1, <3>3 DEF TypeOK
    <3>7. ReleasesMatch'  BY <2>0, <3>0, <3>1, <3>5 DEF ReleasesMatch
    <3>8. EventsOnce'
      <4>1. ASSUME NEW i \in DOMAIN events', NEW j \in DOMAIN events', NEW d \in Callbacks,
                   events'[i] = DoneEvent(d), events'[j] = DoneEvent(d)
            PROVE  i = j
        <5>1. CASE d = c  BY <3>3, <3>4, <4>1, <5>1
        <5>2. CASE d # c
          <6>1. i \in DOMAIN events /\ events[i] = DoneEvent(d)
            BY <3>3, <4>1, <5>2, EventsDiffer
          <6>2. j \in DOMAIN events /\ events[j] = DoneEvent(d)
            BY <3>3, <4>1, <5>2, EventsDiffer
          <6> QED  BY <2>0, <6>1, <6>2 DEF EventsOnce
        <5> QED  BY <5>1, <5>2
      <4>2. ASSUME NEW i \in DOMAIN events', NEW d \in Callbacks, events'[i] = DoneEvent(d)
            PROVE  d \notin unacked'
        <5>1. CASE d = c  BY <3>0, <5>1
        <5>2. CASE d # c
          <6>1. i \in DOMAIN events /\ events[i] = DoneEvent(d)
            BY <3>3, <4>2, <5>2, EventsDiffer
          <6> QED  BY <2>0, <3>0, <6>1 DEF EventsOnce
        <5> QED  BY <5>1, <5>2
      <4> QED  BY <2>0, <3>5, <4>1, <4>2 DEF EventsOnce
    <3>9. LockedSlotFree' /\ LockedSlotIsCurrent'
      BY <2>0, <3>1 DEF LockedSlotFree, LockedSlotIsCurrent
    <3>10. OneFrameInFlight'
      <4>1. c = frameCallback  BY <2>0, <3>0, <3>2 DEF OneFrameInFlight
      <4>2. ASSUME NEW d \in Callbacks, NEW i \in DOMAIN events', events'[i] = DoneEvent(d)
            PROVE  d = frameCallback
        <5>1. CASE i \in DOMAIN events /\ events'[i] = events[i]
          BY <2>0, <4>2, <5>1 DEF OneFrameInFlight, Sent
        <5>2. CASE i = n /\ events'[i] = DoneEvent(c)  BY <4>1, <4>2, <5>2, EventsDiffer
        <5> QED  BY <3>3, <5>1, <5>2
      <4> QED  BY <2>0, <3>0, <3>1, <4>2 DEF OneFrameInFlight, Sent
    <3>11. BusySlotsComeBack'  BY <2>0, <3>0, <3>1, <3>3 DEF BusySlotsComeBack, Sent
    <3> QED  BY <3>6, <3>7, <3>8, <3>9, <3>10, <3>11 DEF IInv
  <2>11. CASE SendResize
    <3>0. Send(ResizeEvent) /\ UNCHANGED compositor  BY <2>11 DEF SendResize
    <3>1. UNCHANGED <<shmPool, retiringPool, busy, lockedSlot, frameCallback, waiting,
                      reading, current, unacked>>
      BY <3>0 DEF Send, client, compositor
    <3>2. ResizeEvent \in Event  BY DEF Event
    <3>3. /\ events' \in Seq(Event)
          /\ \A i \in DOMAIN events : i \in DOMAIN events' /\ events'[i] = events[i]
          /\ \A i \in DOMAIN events' :
               (i \in DOMAIN events /\ events'[i] = events[i]) \/ events'[i] = ResizeEvent
      BY <2>0, <3>0, <3>2, Enqueue DEF TypeOK
    <3>4. \A i \in DOMAIN events', s \in Slots :
            events'[i] = ReleaseEvent(s) => i \in DOMAIN events /\ events[i] = ReleaseEvent(s)
      BY <3>3, EventsDiffer
    <3>5. \A i \in DOMAIN events', c \in Callbacks :
            events'[i] = DoneEvent(c) => i \in DOMAIN events /\ events[i] = DoneEvent(c)
      BY <3>3, EventsDiffer
    <3>6. TypeOK'  BY <2>0, <3>1, <3>3 DEF TypeOK
    <3>7. ReleasesMatch' /\ EventsOnce'
      BY <2>0, <3>1, <3>4, <3>5 DEF ReleasesMatch, EventsOnce
    <3>8. LockedSlotFree' /\ LockedSlotIsCurrent'
      BY <2>0, <3>1 DEF LockedSlotFree, LockedSlotIsCurrent
    <3>9. OneFrameInFlight'  BY <2>0, <3>1, <3>5 DEF OneFrameInFlight, Sent
    <3>10. BusySlotsComeBack'  BY <2>0, <3>1, <3>3 DEF BusySlotsComeBack, Sent
    <3> QED  BY <3>6, <3>7, <3>8, <3>9, <3>10 DEF IInv
  <2>12. CASE UNCHANGED vars
    <3>1. UNCHANGED <<shmPool, retiringPool, busy, lockedSlot, frameCallback, waiting,
                      reading, current, unacked, events>>
      BY <2>12 DEF vars, client, compositor
    <3> QED
      BY <2>0, <3>1 DEF IInv, TypeOK, ReleasesMatch, EventsOnce, LockedSlotFree, LockedSlotIsCurrent,
                        OneFrameInFlight, BusySlotsComeBack, Sent
  <2> QED
    BY <2>1, <2>2, <2>3, <2>4, <2>5, <2>6, <2>7, <2>8, <2>9, <2>10, <2>11, <2>12 DEF Next, Dispatch
<1> QED  BY <1>1, <1>2, PTL DEF Spec

\* Every handler leaves pools, slots, callbacks and the queue what they are meant to be.
THEOREM TypeCorrectness == Spec => []TypeOK
<1>1. IInv => TypeOK  BY DEF IInv
<1> QED  BY <1>1, Invariance, PTL

\* A frame callback is never forgotten: at most one frame is unacknowledged.
THEOREM RateGate == Spec => []OneFrameInFlight
<1>1. IInv => OneFrameInFlight  BY DEF IInv
<1> QED  BY <1>1, Invariance, PTL

\* No slot is lost to the client, whatever pools are retired on the way, and
\* presentFramebuffer() never commits a slot of a retired pool.
THEOREM SlotsNeverLeak == Spec => []SlotsSurviveResizes
<1>1. IInv => SlotsSurviveResizes  BY DEF IInv, SlotsSurviveResizes
<1> QED  BY <1>1, Invariance, PTL

\* The wl_shm path keeps the promise of SoftwareFrames: the application never draws
\* in memory the compositor may still be reading.
THEOREM FramesImplemented == Spec => ImplementsFrames
<1>1. Init => Frames!Init  BY DEF Init, Frames!Init
<1>2. IInv /\ [Next]_vars => [Frames!Next]_Frames!vars
  <2> SUFFICES ASSUME IInv, [Next]_vars PROVE [Frames!Next]_Frames!vars  OBVIOUS
  <2> USE DEF Frames!Next, Frames!vars
  <2>0. TypeOK /\ ReleasesMatch  BY DEF IInv
  <2>1. CASE LockFramebuffer
    <3>1. lockedSlot' \in FreeSlots /\ ReleaseRetiringPoolIfIdle /\ UNCHANGED <<unacked, frameCallback>>
      BY <2>1 DEF LockFramebuffer, FirstFree
    <3>2. reading' = reading  BY <3>1, RetireStep
    <3>3. lockedSlot' \in Slots \ reading
      BY <3>1, <2>0 DEF FreeSlots, SlotsOf, ReleasesMatch
    <3> QED  BY <3>2, <3>3 DEF Frames!Acquire
  <2>2. CASE LockRefused
    <3>1. ReleaseRetiringPoolIfIdle /\ UNCHANGED <<lockedSlot, unacked, frameCallback>>
      BY <2>2 DEF LockRefused
    <3>2. reading' = reading  BY <3>1, RetireStep
    <3> QED  BY <3>1, <3>2
  <2>3. CASE PresentFramebuffer
    BY <2>3 DEF PresentFramebuffer, Frames!Submit
  <2>4. CASE HandleResize
    <3>1. lockedSlot' = NoSlot /\ reading' \subseteq reading
      BY <2>4 DEF HandleResize, DestroyPool, KeepPools
    <3> QED  BY <3>1 DEF Frames!Replace
  <2>5. CASE ReleaseReplaced \/ ReleaseCopied
    <3>1. lockedSlot' = lockedSlot /\ reading' \subseteq reading
      BY <2>5 DEF ReleaseReplaced, ReleaseCopied, Send, client
    <3> QED  BY <3>1 DEF Frames!Release
  <2>6. CASE SwapBuffers \/ WaitTimeout \/ HandleBufferRelease \/ HandleFrameDone \/ DropDeadEvent
    BY <2>6 DEF SwapBuffers, WaitTimeout, HandleBufferRelease, HandleFrameDone, DropDeadEvent, compositor
  <2>7. CASE SendDone \/ SendResize \/ UNCHANGED vars
    BY <2>7 DEF SendDone, SendResize, Send, client, compositor, vars
  <2> QED
    BY <2>1, <2>2, <2>3, <2>4, <2>5, <2>6, <2>7 DEF Next, Dispatch
<1> QED  BY <1>1, <1>2, Invariance, PTL DEF Spec, ImplementsFrames, Frames!Spec

====
