------------------------ MODULE MixCallbackSlotProofs ------------------------
(***************************************************************************)
(* Proofs about MixCallbackSlot, for any finite set of control threads and *)
(* any bound on the number of publications.                                *)
(***************************************************************************)
EXTENDS MixCallbackSlot, FiniteSetTheorems, TLAPS

-----------------------------------------------------------------------------
(* The inductive invariant.                                                 *)

\* The threads whose store() has been called but has not published yet.
Unpublished == {t \in Threads : pc[t] \in {"lock", "reclaim", "publish"}}

\* Every publication comes from a call of its own.
CallsInv == published + Cardinality(Unpublished) = calls

\* The lock is owned exactly by whoever is at a point of the code inside it.
LockInv ==
  /\ audio \in Swapping <=> lock = "audio"
  /\ \A t \in Threads : pc[t] \in Holding <=> lock = t

\* A thread only clears while the audio thread is stopped.
ClearInv == \A t \in Threads : pc[t] \in InClear => audio = "stopped"

\* The flag is up from the moment the audio thread decides to swap until it has
\* adopted, and the retired slot is only occupied between a swap and the next
\* store(): this is what makes parking free of destruction.
FlagInv ==
  /\ audio \in {"tryLock", "retire", "adopt", "unflag"} => hasPending
  /\ retired # Nothing => ~hasPending \/ audio \in {"adopt", "unflag"}
  /\ \A t \in Threads : pc[t] \in {"publish", "flag"} => retired = Nothing
  /\ audio = "adopt" => active = Nothing

\* A waiting publication is the newest one, and the flag announces one.
PendingInv ==
  /\ pending # Nothing => pending = published
  /\ hasPending => pending # Nothing \/ audio = "unflag"
  /\ \A t \in Threads : pc[t] = "flag" => pending # Nothing
  /\ audio = "unflag" => active # Nothing

\* Nothing else is as new as a waiting publication; what the last invocation used
\* is no newer than what is installed, or than what was until the swap under way.
OrderInv ==
  /\ active <= published /\ retired <= published /\ heard <= published
  /\ pending # Nothing => active < pending /\ retired < pending /\ heard < pending
  /\ audio # "adopt" /\ retired # Nothing => retired < active
  /\ audio # "adopt" => heard <= active
  /\ audio = "adopt" => heard <= retired

\* What has nothing to do with counting calls.
SlotInv == LockInv /\ ClearInv /\ FlagInv /\ PendingInv /\ OrderInv

IInv == TypeOK /\ CallsInv /\ SlotInv

-----------------------------------------------------------------------------
(* Counting the calls that have not published.                              *)

\* The unpublished calls are finitely many, so counting them makes sense.
LEMMA UnpublishedFinite ==
  IsFiniteSet(Unpublished) /\ Cardinality(Unpublished) \in Nat
BY ThreadsAssumption, FS_Subset, FS_CardinalityType DEF Unpublished

\* A call moves one thread from outside Unpublished into it.
LEMMA CountStoreCall ==
  ASSUME TypeOK, CallsInv, NEW t \in Threads, StoreCall(t)
  PROVE  CallsInv' /\ calls' \in 0 .. MaxStores
<1>1. t \notin Unpublished /\ Unpublished' = Unpublished \cup {t}
  BY DEF TypeOK, StoreCall, Control, Unpublished
<1>2. Cardinality(Unpublished') = Cardinality(Unpublished) + 1
  BY <1>1, UnpublishedFinite, FS_AddElement
<1> QED
  BY <1>2, UnpublishedFinite, MaxStoresAssumption DEF CallsInv, TypeOK, StoreCall

\* A publication takes its thread out of Unpublished, so it stays within the bound.
LEMMA CountStorePublish ==
  ASSUME TypeOK, CallsInv, NEW t \in Threads, StorePublish(t)
  PROVE  CallsInv' /\ published' \in 1 .. MaxStores
<1>1. t \in Unpublished /\ Unpublished' = Unpublished \ {t}
  BY DEF TypeOK, StorePublish, Control, Unpublished
<1>2. Cardinality(Unpublished') = Cardinality(Unpublished) - 1
  BY <1>1, UnpublishedFinite, FS_RemoveElement
<1>3. Cardinality(Unpublished') \in Nat
  BY <1>1, UnpublishedFinite, FS_RemoveElement, FS_CardinalityType
<1> QED
  BY <1>2, <1>3, UnpublishedFinite, MaxStoresAssumption DEF CallsInv, TypeOK, StorePublish

\* No other step changes the count.
LEMMA CountKept ==
  ASSUME CallsInv, UNCHANGED <<calls, published>>, Unpublished' = Unpublished
  PROVE  CallsInv'
BY DEF CallsInv

-----------------------------------------------------------------------------
(* The initial states, and each group of steps, keep the invariant.         *)

LEMMA InitIInv == Init => IInv
<1> SUFFICES ASSUME Init PROVE IInv
  OBVIOUS
<1>1. TypeOK
  <2>1. pc \in [Threads -> ControlPoints] /\ audio \in AudioPoints
    BY DEF Init, ControlPoints, AudioPoints
  <2>2. 0 \in 0 .. MaxStores
    BY MaxStoresAssumption
  <2> QED
    BY <2>1, <2>2 DEF Init, TypeOK, Nothing
<1>2. CallsInv
  <2>1. Unpublished = {}
    BY DEF Init, Unpublished
  <2> QED
    BY <2>1, FS_EmptySet DEF Init, CallsInv
<1>3. SlotInv
  BY ThreadsAssumption
  DEF Init, SlotInv, LockInv, ClearInv, FlagInv, PendingInv, OrderInv, Nothing,
      Swapping, Holding, InClear
<1> QED
  BY <1>1, <1>2, <1>3 DEF IInv

\* store(): the lock keeps the audio thread out of the slots until the flag is up.
LEMMA StoreKeepsIInv ==
  ASSUME IInv, NEW t \in Threads, StoreCall(t) \/ Store(t)
  PROVE  IInv'
<1> USE ThreadsAssumption, MaxStoresAssumption
    DEF TypeOK, SlotInv, LockInv, ClearInv, FlagInv, PendingInv, OrderInv, Nothing,
        Swapping, Holding, InClear, InStore, ControlPoints, AudioPoints, Control,
        Acquire, Release, slots, history
<1>1. CASE StoreCall(t)
  <2>1. CallsInv' /\ calls' \in 0 .. MaxStores
    BY <1>1, CountStoreCall DEF IInv
  <2>2. TypeOK' /\ SlotInv'
    BY <1>1, <2>1 DEF IInv, StoreCall
  <2> QED
    BY <2>1, <2>2 DEF IInv
<1>2. CASE StoreLock(t)
  <2>1. CallsInv'
    BY <1>2, CountKept DEF IInv, StoreLock, Unpublished
  <2>2. TypeOK' /\ SlotInv'
    BY <1>2 DEF IInv, StoreLock
  <2> QED
    BY <2>1, <2>2 DEF IInv
<1>3. CASE StoreReclaim(t)
  <2>1. CallsInv'
    BY <1>3, CountKept DEF IInv, StoreReclaim, Unpublished
  <2>2. TypeOK' /\ SlotInv'
    BY <1>3 DEF IInv, StoreReclaim
  <2> QED
    BY <2>1, <2>2 DEF IInv
<1>4. CASE StorePublish(t)
  <2>1. CallsInv' /\ published' \in 1 .. MaxStores
    BY <1>4, CountStorePublish DEF IInv
  <2>2. TypeOK'
    BY <1>4, <2>1 DEF IInv, StorePublish
  <2>3. SlotInv'
    BY <1>4 DEF IInv, StorePublish
  <2> QED
    BY <2>1, <2>2, <2>3 DEF IInv
<1>5. CASE StoreFlag(t)
  <2>1. CallsInv'
    BY <1>5, CountKept DEF IInv, StoreFlag, Unpublished
  <2>2. TypeOK'
    BY <1>5 DEF IInv, StoreFlag
  <2>3. SlotInv'
    BY <1>5 DEF IInv, StoreFlag
  <2> QED
    BY <2>1, <2>2, <2>3 DEF IInv
<1>6. CASE StoreUnlock(t)
  <2>1. CallsInv'
    BY <1>6, CountKept DEF IInv, StoreUnlock, Unpublished
  <2>2. TypeOK' /\ SlotInv'
    BY <1>6 DEF IInv, StoreUnlock
  <2> QED
    BY <2>1, <2>2 DEF IInv
<1> QED
  BY <1>1, <1>2, <1>3, <1>4, <1>5, <1>6 DEF Store

\* clear(): it only runs while the audio thread is stopped.
LEMMA ClearKeepsIInv ==
  ASSUME IInv, NEW t \in Threads, ClearCall(t) \/ Clear(t)
  PROVE  IInv'
<1> USE ThreadsAssumption, MaxStoresAssumption
    DEF TypeOK, SlotInv, LockInv, ClearInv, FlagInv, PendingInv, OrderInv, Nothing,
        Swapping, Holding, InClear, InStore, ControlPoints, AudioPoints, Control,
        Acquire, Release, slots, history
<1>1. CallsInv'
  BY CountKept DEF IInv, Unpublished, ClearCall, Clear, ClearLock, ClearDrop, ClearUnlock
<1>2. CASE ClearCall(t)
  BY <1>1, <1>2 DEF IInv, ClearCall
<1>3. CASE ClearLock(t)
  BY <1>1, <1>3 DEF IInv, ClearLock
<1>4. CASE ClearDrop(t)
  <2>1. audio = "stopped"
    BY <1>4 DEF IInv, ClearDrop
  <2>2. \A u \in Threads : pc'[u] \notin {"publish", "flag"}
    BY <1>4 DEF IInv, ClearDrop
  <2>3. TypeOK'
    <3>1. 0 \in 0 .. MaxStores /\ FALSE \in BOOLEAN
      OBVIOUS
    <3>2. UNCHANGED <<lock, calls, published, hollow, audio>> /\ pc' \in [Threads -> ControlPoints]
      BY <1>4 DEF IInv, ClearDrop
    <3> QED
      BY <1>4, <3>1, <3>2 DEF IInv, ClearDrop
  <2>4. LockInv' /\ ClearInv'
    BY <1>4, <2>1 DEF IInv, ClearDrop
  <2>5. FlagInv' /\ PendingInv' /\ OrderInv'
    BY <1>4, <2>1, <2>2 DEF IInv, ClearDrop
  <2> QED
    BY <1>1, <2>3, <2>4, <2>5 DEF IInv
<1>5. CASE ClearUnlock(t)
  BY <1>1, <1>5 DEF IInv, ClearUnlock
<1> QED
  BY <1>2, <1>3, <1>4, <1>5 DEF Clear

\* invoke(), and the audio thread coming and going.
LEMMA InvokeKeepsIInv ==
  ASSUME IInv, Invoke \/ AudioStart \/ AudioStop
  PROVE  IInv'
<1> USE ThreadsAssumption, MaxStoresAssumption
    DEF TypeOK, SlotInv, LockInv, ClearInv, FlagInv, PendingInv, OrderInv, Nothing,
        Swapping, Holding, InClear, InStore, ControlPoints, AudioPoints, Audio,
        Acquire, Release, slots, history
<1>1. CallsInv'
  BY CountKept
  DEF IInv, Unpublished, Invoke, InvokeLoad, TryLockWins, TryLockLoses, Swap, SwapRetire,
      SwapAdopt, SwapUnflag, SwapRelease, InvokeBegin, InvokeReturn, AudioStart, AudioStop
<1>2. CASE InvokeLoad
  BY <1>1, <1>2 DEF IInv, InvokeLoad
<1>3. CASE TryLockWins
  BY <1>1, <1>3 DEF IInv, TryLockWins
<1>4. CASE TryLockLoses
  BY <1>1, <1>4 DEF IInv, TryLockLoses
<1>5. CASE SwapRetire
  BY <1>1, <1>5 DEF IInv, SwapRetire
<1>6. CASE SwapAdopt
  BY <1>1, <1>6 DEF IInv, SwapAdopt
<1>7. CASE SwapUnflag
  BY <1>1, <1>7 DEF IInv, SwapUnflag
<1>8. CASE SwapRelease
  BY <1>1, <1>8 DEF IInv, SwapRelease
<1>9. CASE InvokeBegin
  BY <1>1, <1>9 DEF IInv, InvokeBegin
<1>10. CASE InvokeReturn
  BY <1>1, <1>10 DEF IInv, InvokeReturn
<1>11. CASE AudioStart
  BY <1>1, <1>11 DEF IInv, AudioStart
<1>12. CASE AudioStop
  BY <1>1, <1>12 DEF IInv, AudioStop
<1> QED
  BY <1>2, <1>3, <1>4, <1>5, <1>6, <1>7, <1>8, <1>9, <1>10, <1>11, <1>12
  DEF Invoke, Swap

LEMMA NextKeepsIInv ==
  IInv /\ [Next]_vars => IInv'
<1> SUFFICES ASSUME IInv, [Next]_vars PROVE IInv'
  OBVIOUS
<1>1. CASE UNCHANGED vars
  <2>1. CallsInv'
    BY <1>1, CountKept DEF IInv, vars, history, Unpublished
  <2> QED
    BY <1>1, <2>1
    DEF IInv, vars, slots, history, TypeOK, SlotInv, LockInv, ClearInv, FlagInv,
        PendingInv, OrderInv
<1> QED
  BY <1>1, StoreKeepsIInv, ClearKeepsIInv, InvokeKeepsIInv DEF Next

-----------------------------------------------------------------------------
(* Theorems.                                                                *)

\* The inductive invariant holds in every reachable state.
THEOREM Invariance == Spec => []IInv
BY InitIInv, NextKeepsIInv, PTL DEF Spec

\* Every variable stays in its type; no publication number passes the bound on
\* the calls of store().
THEOREM TypeCorrectness == Spec => []TypeOK
BY Invariance, PTL DEF IInv

\* invoke() never runs a callback's destructor on the audio thread, with any
\* number of control threads publishing.
THEOREM AudioThreadNeverFrees == Spec => []AudioNeverFrees
<1>1. IInv => AudioNeverFrees
  BY DEF IInv, SlotInv, FlagInv, PendingInv, AudioNeverFrees, Nothing
<1> QED
  BY <1>1, Invariance, PTL

\* What an invocation uses is no older than what the one before it used.
LEMMA HeardNeverAges ==
  ASSUME IInv, [Next]_vars
  PROVE  [audio # "stopped" => heard' >= heard]_vars
<1> SUFFICES ASSUME Next, audio # "stopped" PROVE heard' >= heard
  OBVIOUS
<1>1. \/ heard' = heard
      \/ InvokeBegin
      \/ \E t \in Threads : ClearDrop(t)
  BY DEF Next, StoreCall, Store, StoreLock, StoreReclaim, StorePublish, StoreFlag,
         StoreUnlock, ClearCall, Clear, ClearLock, ClearUnlock, Invoke, InvokeLoad,
         TryLockWins, TryLockLoses, Swap, SwapRetire, SwapAdopt, SwapUnflag,
         SwapRelease, InvokeReturn, AudioStart, AudioStop, history
<1>2. heard \in Nat
  BY MaxStoresAssumption DEF IInv, TypeOK
<1>3. CASE InvokeBegin
  BY <1>3, <1>2 DEF IInv, TypeOK, SlotInv, OrderInv, InvokeBegin, Audio
<1>4. ~ \E t \in Threads : ClearDrop(t)
  BY DEF IInv, SlotInv, ClearInv, InClear, ClearDrop, Control
<1> QED
  BY <1>1, <1>2, <1>3, <1>4

\* invoke() never falls back to an older callback, or to silence, before clear().
THEOREM NoCallbackResurrected == Spec => NoResurrection
BY HeardNeverAges, Invariance, PTL DEF Spec, NoResurrection

-----------------------------------------------------------------------------
(* The slot implements CallbackHandover.                                    *)

\* The callback the audio side has installed, and the callbacks alive.
Current == IF audio = "adopt" THEN retired ELSE active
Live == {active, pending, retired} \ {Nothing}

\* store() publishes, and destroys only what is neither installed nor waiting.
LEMMA StoreImplements ==
  ASSUME IInv, NEW t \in Threads, StoreCall(t) \/ Store(t)
  PROVE  [Handover!Next]_(Handover!vars)
<1> USE DEF Handover!vars, Handover!Next
<1>1. audio' = audio
  BY DEF StoreCall, Store, StoreLock, StoreReclaim, StorePublish, StoreFlag, StoreUnlock, Control
<1>2. CASE StoreReclaim(t)
  <2>1. audio # "adopt"
    BY <1>2, ThreadsAssumption
    DEF IInv, SlotInv, LockInv, Swapping, Holding, StoreReclaim, Control, TypeOK
  <2>2. Live' = Live \ (Live \ Live') /\ Live \ Live' \in SUBSET (Live \ {active, published})
    BY <1>2, <2>1, MaxStoresAssumption
    DEF IInv, SlotInv, OrderInv, TypeOK, StoreReclaim, Live, Nothing, history
  <2>3. UNCHANGED <<published, active, audio>>
    BY <1>1, <1>2 DEF StoreReclaim, history
  <2>4. Handover!Reclaim
    BY <2>1, <2>2, <2>3 DEF Handover!Reclaim, Live
  <2> QED
    BY <2>4
<1>3. CASE StorePublish(t)
  <2>1. audio # "adopt"
    BY <1>3, ThreadsAssumption
    DEF IInv, SlotInv, LockInv, Swapping, Holding, StorePublish, Control, TypeOK
  <2>2. /\ Live' = (Live \ (Live \ Live')) \cup {published'}
        /\ Live \ Live' \in SUBSET (Live \ {active})
    BY <1>3, <2>1, MaxStoresAssumption
    DEF IInv, SlotInv, OrderInv, TypeOK, StorePublish, Live, Nothing
  <2>3. UNCHANGED <<active, audio>> /\ published' = published + 1
    BY <1>1, <1>3 DEF StorePublish
  <2>4. Handover!Publish
    BY <2>1, <2>2, <2>3 DEF Handover!Publish, Live, Handover!Nothing
  <2> QED
    BY <2>4
<1>4. CASE StoreCall(t) \/ StoreLock(t) \/ StoreFlag(t) \/ StoreUnlock(t)
  BY <1>1, <1>4 DEF StoreCall, StoreLock, StoreFlag, StoreUnlock, slots, history
<1> QED
  BY <1>2, <1>3, <1>4 DEF Store

\* clear() drops everything while nothing is playing.
LEMMA ClearImplements ==
  ASSUME IInv, NEW t \in Threads, ClearCall(t) \/ Clear(t)
  PROVE  [Handover!Next]_(Handover!vars)
<1> USE DEF Handover!vars, Handover!Next
<1>1. audio' = audio
  BY DEF ClearCall, Clear, ClearLock, ClearDrop, ClearUnlock, Control
<1>2. CASE ClearDrop(t)
  <2>1. audio = "stopped"
    BY <1>2 DEF IInv, SlotInv, ClearInv, InClear, ClearDrop, Control
  <2>2. Handover!Drop
    BY <1>1, <1>2, <2>1 DEF ClearDrop, Handover!Drop, Handover!Nothing, Nothing
  <2> QED
    BY <2>2
<1>3. CASE ClearCall(t) \/ ClearLock(t) \/ ClearUnlock(t)
  BY <1>1, <1>3 DEF ClearCall, ClearLock, ClearUnlock, slots, history
<1> QED
  BY <1>2, <1>3 DEF Clear

\* invoke() adopts the newest publication while it is not playing, and plays.
LEMMA InvokeImplements ==
  ASSUME IInv, Invoke \/ AudioStart \/ AudioStop
  PROVE  [Handover!Next]_(Handover!vars)
<1> USE DEF Handover!vars, Handover!Next
<1>1. CASE SwapRetire
  <2>1. retired = Nothing
    BY <1>1 DEF IInv, SlotInv, FlagInv, SwapRetire, Audio
  <2>2. Live' = Live /\ Current' = Current
    BY <1>1, <2>1 DEF SwapRetire, Audio, Live, Current
  <2>3. published' = published /\ (audio = "mixing")' = (audio = "mixing")
    BY <1>1 DEF SwapRetire, Audio, history
  <2> QED
    BY <2>2, <2>3 DEF Live, Current
<1>2. CASE SwapAdopt
  <2>1. /\ pending # Nothing /\ pending = published /\ retired < published
        /\ active = Nothing /\ audio = "adopt" /\ audio' = "unflag"
    BY <1>2 DEF IInv, SlotInv, FlagInv, PendingInv, OrderInv, SwapAdopt, Audio
  <2>2. Live' = Live /\ published \in Live
    BY <1>2, <2>1 DEF SwapAdopt, Live
  <2>3. Handover!Adopt
    BY <1>2, <2>1, <2>2 DEF SwapAdopt, history, Live, Handover!Adopt
  <2> QED
    BY <2>3
<1>3. CASE InvokeBegin
  <2>1. Handover!Begin
    BY <1>3 DEF InvokeBegin, Audio, slots, Handover!Begin
  <2> QED
    BY <2>1
<1>4. CASE InvokeReturn
  <2>1. Handover!End
    BY <1>4 DEF InvokeReturn, Audio, slots, history, Handover!End
  <2> QED
    BY <2>1
<1>5. CASE \/ InvokeLoad \/ TryLockWins \/ TryLockLoses \/ SwapUnflag \/ SwapRelease
           \/ AudioStart \/ AudioStop
  BY <1>5
  DEF InvokeLoad, TryLockWins, TryLockLoses, SwapUnflag, SwapRelease, AudioStart,
      AudioStop, Audio, slots, history
<1> QED
  BY <1>1, <1>2, <1>3, <1>4, <1>5 DEF Invoke, Swap

\* Every behaviour of the slot is one the promise allows.
THEOREM HandoverImplemented == Spec => ImplementsHandover
<1>1. Init => Handover!Init
  BY DEF Init, Handover!Init, Handover!Nothing, Nothing
<1>2. IInv /\ [Next]_vars => [Handover!Next]_(Handover!vars)
  <2> SUFFICES ASSUME IInv, [Next]_vars PROVE [Handover!Next]_(Handover!vars)
    OBVIOUS
  <2>1. CASE UNCHANGED vars
    BY <2>1 DEF vars, slots, history, Handover!vars
  <2> QED
    BY <2>1, StoreImplements, ClearImplements, InvokeImplements DEF Next
<1> QED
  BY <1>1, <1>2, Invariance, PTL DEF Spec, ImplementsHandover, Handover!Spec

=============================================================================
