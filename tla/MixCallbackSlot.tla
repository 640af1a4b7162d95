--------------------------- MODULE MixCallbackSlot ---------------------------
(***************************************************************************)
(* wma::MixCallbackSlot (src/include/wma/audio/MixCallbackSlot.hpp): the   *)
(* handover that lets setMixCallback() be called on a running device.      *)
(*                                                                         *)
(* Any number of control threads run store() and clear(); one audio thread *)
(* runs invoke() over and over.  Every access to shared memory is a step   *)
(* of its own, so the model interleaves the lock, the flag and the moves   *)
(* between the three slots exactly where the code can be preempted.        *)
(*                                                                         *)
(* A callback is represented by the number of its publication; `hollow`    *)
(* holds the publications of an empty function, which invoke() answers     *)
(* with silence.  Assigning over a slot destroys what the slot held.       *)
(***************************************************************************)
EXTENDS Naturals, FiniteSets

CONSTANTS
  Threads,     \* the control threads
  MaxStores    \* bound on the number of store() calls

ASSUME ThreadsAssumption == IsFiniteSet(Threads) /\ {"free", "audio"} \cap Threads = {}
ASSUME MaxStoresAssumption == MaxStores \in Nat

Nothing == 0   \* an empty slot

VARIABLES
  lock,        \* _mutex: "free", "audio", or the control thread that owns it
  active,      \* _active
  pending,     \* _pending
  retired,     \* _retired
  hasPending,  \* _hasPending
  audio,       \* where the audio thread is in invoke()
  pc,          \* where each control thread is in store() or clear()
  calls,       \* store() calls made so far
  published,   \* number of the latest publication
  hollow,      \* the publications that are empty functions
  heard        \* history: the publication the latest invocation used

slots == <<active, pending, retired, hasPending>>
history == <<calls, published, hollow, heard>>
vars == <<lock, slots, audio, pc, history>>

InStore == {"lock", "reclaim", "publish", "flag", "unlock"}
InClear == {"clearLock", "clearDrop", "clearUnlock"}
\* the points of store() and clear() at which the thread owns _mutex
Holding == {"reclaim", "publish", "flag", "unlock", "clearDrop", "clearUnlock"}
ControlPoints == {"idle"} \cup InStore \cup InClear
\* the points of invoke() at which the audio thread owns _mutex
Swapping == {"retire", "adopt", "unflag", "release"}
AudioPoints == {"stopped", "idle", "tryLock", "call", "mixing"} \cup Swapping

TypeOK ==
  /\ lock \in {"free", "audio"} \cup Threads
  /\ active \in 0 .. MaxStores
  /\ pending \in 0 .. MaxStores
  /\ retired \in 0 .. MaxStores
  /\ hasPending \in BOOLEAN
  /\ audio \in AudioPoints
  /\ pc \in [Threads -> ControlPoints]
  /\ calls \in 0 .. MaxStores
  /\ published \in 0 .. MaxStores
  /\ hollow \subseteq 1 .. MaxStores
  /\ heard \in 0 .. MaxStores

Init ==
  /\ lock = "free"
  /\ active = Nothing /\ pending = Nothing /\ retired = Nothing
  /\ hasPending = FALSE
  /\ audio = "stopped"
  /\ pc = [t \in Threads |-> "idle"]
  /\ calls = 0 /\ published = 0 /\ heard = 0
  /\ hollow = {}

Control(t, from, to) ==
  /\ pc[t] = from
  /\ pc' = [pc EXCEPT ![t] = to]
  /\ UNCHANGED audio

Audio(from, to) ==
  /\ audio = from
  /\ audio' = to
  /\ UNCHANGED pc

Acquire(owner) == lock = "free" /\ lock' = owner
Release(owner) == lock = owner /\ lock' = "free"

-----------------------------------------------------------------------------
(* Plausible mistakes in the code below: the runs are known to catch them.  *)

\* A store() that raises the flag for two publications.
StorePublishTwice(t) ==
  /\ Control(t, "publish", "flag")
  /\ published' = published + 2
  /\ pending' = published'
  /\ hollow' = hollow
  /\ UNCHANGED <<lock, active, retired, hasPending, calls, heard>>

\* A store() that leaves the retired callback for the audio thread to overwrite.
StoreKeepsRetired(t) ==
  /\ Control(t, "reclaim", "publish")
  /\ UNCHANGED <<lock, slots, history>>

\* exchange() instead of load(): a lost try_lock forgets the publication.
InvokeExchange ==
  /\ IF hasPending THEN Audio("idle", "tryLock") ELSE Audio("idle", "call")
  /\ hasPending' = FALSE
  /\ UNCHANGED <<lock, active, pending, retired, history>>

\* The replaced callback is destroyed in place instead of parked.
SwapDestroys ==
  /\ Audio("retire", "adopt")
  /\ active' = Nothing
  /\ UNCHANGED <<lock, pending, retired, hasPending, history>>

\* The flag stays up, so the next invocation adopts the emptied pending slot.
SwapKeepsFlag ==
  /\ Audio("unflag", "release")
  /\ UNCHANGED <<lock, slots, history>>

-----------------------------------------------------------------------------
(* store(), on a control thread.                                            *)

StoreCall(t) ==
  /\ Control(t, "idle", "lock")
  /\ calls < MaxStores
  /\ calls' = calls + 1
  /\ UNCHANGED <<lock, slots, published, hollow, heard>>

StoreLock(t) ==
  /\ Control(t, "lock", "reclaim")
  /\ Acquire(t)
  /\ UNCHANGED <<slots, history>>

\* _retired = {} runs the destructors of what it held, on this thread.
StoreReclaim(t) ==
  /\ Control(t, "reclaim", "publish")
  /\ retired' = Nothing
  /\ UNCHANGED <<lock, active, pending, hasPending, history>>

\* _pending = move(callback): destroys a pending callback nobody adopted.
StorePublish(t) ==
  /\ Control(t, "publish", "flag")
  /\ published' = published + 1
  /\ pending' = published'
  /\ hollow' \in {hollow, hollow \cup {published'}}
  /\ UNCHANGED <<lock, active, retired, hasPending, calls, heard>>

StoreFlag(t) ==
  /\ Control(t, "flag", "unlock")
  /\ hasPending' = TRUE
  /\ UNCHANGED <<lock, active, pending, retired, history>>

StoreUnlock(t) ==
  /\ Control(t, "unlock", "idle")
  /\ Release(t)
  /\ UNCHANGED <<slots, history>>

-----------------------------------------------------------------------------
(* clear(), on a control thread that knows the audio thread has stopped.    *)

ClearCall(t) ==
  /\ Control(t, "idle", "clearLock")
  /\ audio = "stopped"
  /\ UNCHANGED <<lock, slots, history>>

ClearLock(t) ==
  /\ Control(t, "clearLock", "clearDrop")
  /\ Acquire(t)
  /\ UNCHANGED <<slots, history>>

ClearDrop(t) ==
  /\ Control(t, "clearDrop", "clearUnlock")
  /\ active' = Nothing /\ pending' = Nothing /\ retired' = Nothing
  /\ hasPending' = FALSE
  /\ heard' = Nothing
  /\ UNCHANGED <<lock, calls, published, hollow>>

ClearUnlock(t) ==
  /\ Control(t, "clearUnlock", "idle")
  /\ Release(t)
  /\ UNCHANGED <<slots, history>>

-----------------------------------------------------------------------------
(* invoke(), on the audio thread.                                           *)

InvokeLoad ==
  /\ IF hasPending THEN Audio("idle", "tryLock") ELSE Audio("idle", "call")
  /\ UNCHANGED <<lock, slots, history>>

TryLockWins ==
  /\ Audio("tryLock", "retire")
  /\ Acquire("audio")
  /\ UNCHANGED <<slots, history>>

\* The control thread holds the lock; std::mutex::try_lock may also fail
\* spuriously, so a free lock does not exclude this outcome.
TryLockLoses ==
  /\ Audio("tryLock", "call")
  /\ UNCHANGED <<lock, slots, history>>

\* _retired = move(_active)
SwapRetire ==
  /\ Audio("retire", "adopt")
  /\ retired' = active
  /\ active' = Nothing
  /\ UNCHANGED <<lock, pending, hasPending, history>>

\* _active = move(_pending); _pending = {}
SwapAdopt ==
  /\ Audio("adopt", "unflag")
  /\ active' = pending
  /\ pending' = Nothing
  /\ UNCHANGED <<lock, retired, hasPending, history>>

SwapUnflag ==
  /\ Audio("unflag", "release")
  /\ hasPending' = FALSE
  /\ UNCHANGED <<lock, active, pending, retired, history>>

SwapRelease ==
  /\ Audio("release", "call")
  /\ Release("audio")
  /\ UNCHANGED <<slots, history>>

\* Run _active, or fill the block with silence when it is empty.
InvokeBegin ==
  /\ Audio("call", "mixing")
  /\ heard' = active
  /\ UNCHANGED <<lock, slots, calls, published, hollow>>

InvokeReturn ==
  /\ Audio("mixing", "idle")
  /\ UNCHANGED <<lock, slots, history>>

-----------------------------------------------------------------------------
(* The audio thread comes and goes with the device; it is never started     *)
(* while a clear() is under way, because the device does both from one      *)
(* thread.                                                                  *)

AudioStart ==
  /\ Audio("stopped", "idle")
  /\ \A t \in Threads : pc[t] \notin InClear
  /\ UNCHANGED <<lock, slots, history>>

AudioStop ==
  /\ Audio("idle", "stopped")
  /\ UNCHANGED <<lock, slots, history>>

-----------------------------------------------------------------------------
Store(t) == StoreLock(t) \/ StoreReclaim(t) \/ StorePublish(t) \/ StoreFlag(t) \/ StoreUnlock(t)
Clear(t) == ClearLock(t) \/ ClearDrop(t) \/ ClearUnlock(t)
Swap == SwapRetire \/ SwapAdopt \/ SwapUnflag \/ SwapRelease
Invoke == InvokeLoad \/ TryLockWins \/ TryLockLoses \/ Swap \/ InvokeBegin \/ InvokeReturn

Next ==
  \/ \E t \in Threads : StoreCall(t) \/ Store(t) \/ ClearCall(t) \/ Clear(t)
  \/ Invoke
  \/ AudioStart
  \/ AudioStop

Spec == Init /\ [][Next]_vars

\* A thread inside a call keeps running; a callback returns; try_lock on a
\* mutex that is free again and again does not fail every time.
Fairness ==
  /\ \A t \in Threads : WF_vars(Store(t) \/ Clear(t))
  /\ WF_vars(Invoke)
  /\ SF_vars(TryLockWins)

FairSpec == Spec /\ Fairness

-----------------------------------------------------------------------------
(* Properties.                                                              *)

\* The audio thread never frees (class comment, lines 31-34, and line 81): when
\* it parks the replaced callback the retired slot is empty, and when it adopts
\* one nothing is left in the active slot, so neither move destroys a callback;
\* and it only ever adopts a publication, never an emptied slot.
AudioNeverFrees ==
  /\ audio = "retire" => retired = Nothing
  /\ audio = "adopt" => active = Nothing
  /\ audio = "adopt" => pending # Nothing

\* A superseded callback is not resurrected, and a playing one does not lapse into
\* silence: until clear(), what an invocation uses is never older than what an
\* earlier one used (tests/test_mix_callback_slot.cpp, "no superseded callback is
\* resurrected": a marker, silence being the lowest, never goes backwards).
NoResurrection == [][audio # "stopped" => heard' >= heard]_vars

\* A publication takes effect, or a newer one does, unless the audio thread stops
\* ("takes effect at the start of one of the next few periods", lines 50-52).
TakesEffect ==
  \A n \in 1 .. MaxStores : (pending = n) ~> (heard >= n \/ audio = "stopped")

\* The slot implements the promise: between "adopt" and the next step the old
\* callback is already parked but still the installed one.
Handover == INSTANCE CallbackHandover WITH
  newest <- published,
  current <- IF audio = "adopt" THEN retired ELSE active,
  live <- {active, pending, retired} \ {Nothing},
  playing <- audio = "mixing"

ImplementsHandover == Handover!Spec

=============================================================================
