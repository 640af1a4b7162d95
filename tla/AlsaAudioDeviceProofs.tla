----------------------- MODULE AlsaAudioDeviceProofs -----------------------
(***************************************************************************)
(* Proofs about AlsaAudioDevice, for any set of threads, any names of      *)
(* writers, any periods ALSA may grant, and any bound on publications.     *)
(***************************************************************************)
EXTENDS AlsaAudioDevice, TLAPS

-----------------------------------------------------------------------------
(* The inductive invariant.                                                 *)

DeviceTypeOK ==
  /\ ctl \in ControlPoints
  /\ op \in Calls
  /\ pcm \in {"open", "closed"}
  /\ running \in BOOLEAN
  /\ handle \in Writers \cup {NoWriter}
  /\ leaving \in Writers \cup {NoWriter}
  /\ wpc \in [Writers -> WriterPoints]
  /\ period \in Periods \cup {0}
  /\ stopReq \in [Writers -> BOOLEAN]
  /\ scratch \in Periods \cup {0}
  /\ wperiod \in [Writers -> Periods \cup {0}]

NobodyInLoop == \A w \in Writers : wpc[w] \notin InLoop

\* A writer in its loop is the one _writer owns, of an open device that says it
\* runs: nothing clears _running, releases the thread or closes the PCM before
\* the loop is left.
OwnerInv == \A w \in Writers : wpc[w] \in InLoop => running /\ handle = w /\ pcm = "open"

\* Only a writer in its loop can be inside invoke().
AudioInv == audio # "stopped" => \E w \in Writers : wpc[w] \in InLoop

\* Past the join, or past a check that the device does not run, nobody is in the
\* loop; a closed device owns no thread.
ControlInv ==
  /\ ctl \in {"unsetRunning", "drop", "clear", "clearing", "pcmClose", "pcmOpen"} =>
       handle = NoWriter
  /\ ctl = "join" => handle # NoWriter
  /\ ctl \in {"prepare", "setRunning", "spawn"} => NobodyInLoop /\ pcm = "open"
  /\ ctl = "spawn" => running
  /\ ctl = "startCheck" => pcm = "open"
  /\ ctl = "pcmOpen" => pcm = "closed"
  /\ pcm = "closed" => handle = NoWriter

\* The block fits the granted period while the device is open, and a writer past
\* its first step has read that period.
FitInv ==
  /\ pcm = "open" => period = scratch
  /\ \A w \in Writers : wpc[w] \in InLoop \ {"born"} => wperiod[w] = period

IInv == DeviceTypeOK /\ OwnerInv /\ AudioInv /\ ControlInv /\ FitInv

-----------------------------------------------------------------------------
(* Steps of the slot's control threads do not move the audio thread.        *)

LEMMA ClearLeavesAudio ==
  ASSUME NEW t, Slot!ClearCall(t) \/ Slot!Clear(t)
  PROVE  audio' = audio
BY DEF Slot!ClearCall, Slot!Clear, Slot!ClearLock, Slot!ClearDrop, Slot!ClearUnlock, Slot!Control

LEMMA StoreLeavesAudio ==
  ASSUME NEW t, Slot!StoreCall(t) \/ Slot!Store(t)
  PROVE  audio' = audio
BY DEF Slot!StoreCall, Slot!Store, Slot!StoreLock, Slot!StoreReclaim, Slot!StorePublish,
       Slot!StoreFlag, Slot!StoreUnlock, Slot!Control

-----------------------------------------------------------------------------
(* The initial states, and each group of steps, keep the invariant.         *)

LEMMA InitIInv == Init => IInv
BY DEF Init, Slot!Init, IInv, DeviceTypeOK, OwnerInv, AudioInv, ControlInv, FitInv,
       ControlPoints, Calls, WriterPoints, InLoop

\* A call begins: nothing but the control point changes.
LEMMA CallKeepsIInv ==
  ASSUME IInv, OpenCall \/ CloseCall \/ StartCall \/ StopCall
  PROVE  IInv'
BY DEF IInv, DeviceTypeOK, OwnerInv, AudioInv, ControlInv, FitInv, NobodyInLoop,
       OpenCall, CloseCall, StartCall, StopCall, Call, Calls, ControlPoints,
       slotVars, deviceVars, writerVars

\* stop(): the join is what empties the loop.
LEMMA StoppingKeepsIInv ==
  ASSUME IInv, Stopping
  PROVE  IInv'
<1> USE WritersAssumption
    DEF IInv, DeviceTypeOK, OwnerInv, AudioInv, ControlInv, FitInv, NobodyInLoop, Go,
        AfterStop, Calls, ControlPoints, WriterPoints, InLoop, slotVars, deviceVars, writerVars
<1>1. CASE StopNothing
  BY <1>1 DEF StopNothing
<1>2. CASE StopRequest
  BY <1>2 DEF StopRequest
<1>3. CASE Join
  BY <1>3 DEF Join
<1>4. CASE UnsetRunning
  BY <1>4 DEF UnsetRunning
<1>5. CASE Drop
  BY <1>5 DEF Drop
<1> QED
  BY <1>1, <1>2, <1>3, <1>4, <1>5 DEF Stopping

\* close() and open(), past the join.
LEMMA ReopeningKeepsIInv ==
  ASSUME IInv, Closing \/ Opening
  PROVE  IInv'
<1> USE WritersAssumption
    DEF IInv, DeviceTypeOK, OwnerInv, AudioInv, ControlInv, FitInv, NobodyInLoop, Go,
        Calls, ControlPoints, WriterPoints, InLoop, slotVars, deviceVars, writerVars
<1>1. CASE CloseClear
  BY <1>1, ClearLeavesAudio DEF CloseClear
<1>2. CASE CloseClearing
  BY <1>2, ClearLeavesAudio DEF CloseClearing
<1>3. CASE CloseCleared
  BY <1>3 DEF CloseCleared
<1>4. CASE PcmClose
  BY <1>4 DEF PcmClose
<1>5. CASE PcmOpenFails
  BY <1>5 DEF PcmOpenFails
<1>6. CASE PcmOpens
  BY <1>6 DEF PcmOpens
<1> QED
  BY <1>1, <1>2, <1>3, <1>4, <1>5, <1>6 DEF Closing, Opening

\* start(): a new writer only appears when nobody is in the loop.
LEMMA StartingKeepsIInv ==
  ASSUME IInv, Starting
  PROVE  IInv'
<1> USE WritersAssumption
    DEF IInv, DeviceTypeOK, OwnerInv, AudioInv, ControlInv, FitInv, NobodyInLoop, Go,
        Calls, ControlPoints, WriterPoints, InLoop, slotVars, deviceVars, writerVars
<1>1. CASE StartCheck
  BY <1>1 DEF StartCheck
<1>2. CASE Prepare
  BY <1>2 DEF Prepare
<1>3. CASE SetRunning
  BY <1>3 DEF SetRunning
<1>4. CASE SpawnThrows
  BY <1>4 DEF SpawnThrows
<1>5. CASE JoinOld
  BY <1>5 DEF JoinOld
<1>6. ASSUME NEW w \in Writers, Spawn(w) PROVE IInv'
  <2>1. NobodyInLoop /\ audio = "stopped" /\ running /\ pcm = "open"
    BY <1>6 DEF Spawn
  <2>2. wpc' = [wpc EXCEPT ![w] = "born"] /\ handle' = w /\ ctl' = "joinOld"
    BY <1>6 DEF Spawn
  <2>3. DeviceTypeOK'
    BY <1>6, <2>2 DEF Spawn
  <2>4. OwnerInv'
    BY <1>6, <2>1, <2>2 DEF Spawn
  <2>5. AudioInv' /\ FitInv'
    BY <1>6, <2>1, <2>2 DEF Spawn
  <2>6. ControlInv'
    BY <1>6, <2>1, <2>2 DEF Spawn
  <2> QED
    BY <2>3, <2>4, <2>5, <2>6
<1> QED
  BY <1>1, <1>2, <1>3, <1>4, <1>5, <1>6 DEF Starting

\* writerLoop(): the last step lowers _running and leaves the slot.
LEMMA WriterKeepsIInv ==
  ASSUME IInv, NEW w \in Writers, WriterStep(w)
  PROVE  IInv'
<1> USE WritersAssumption
    DEF IInv, DeviceTypeOK, OwnerInv, AudioInv, ControlInv, FitInv, NobodyInLoop, Writer,
        Calls, ControlPoints, WriterPoints, InLoop, slotVars, deviceVars, writerVars
<1>1. CASE WriterBegin(w)
  <2>1. wpc[w] = "born" /\ wpc' = [wpc EXCEPT ![w] = "top"]
    BY <1>1 DEF WriterBegin
  <2>2. DeviceTypeOK'
    BY <1>1 DEF WriterBegin
  <2>3. OwnerInv' /\ ControlInv'
    BY <1>1 DEF WriterBegin
  <2>4. AudioInv'
    BY <2>1
  <2>5. FitInv'
    BY <1>1 DEF WriterBegin
  <2> QED
    BY <2>2, <2>3, <2>4, <2>5
<1>2. CASE WriterCheck(w)
  BY <1>2 DEF WriterCheck
<1>3. CASE MixEnter(w)
  BY <1>3 DEF MixEnter
<1>4. CASE MixStep(w)
  BY <1>4 DEF MixStep
<1>5. CASE MixReturn(w)
  BY <1>5 DEF MixReturn
<1>6. CASE Write(w)
  BY <1>6 DEF Write
<1>7. CASE Recover(w)
  BY <1>7 DEF Recover
<1>8. CASE WriterExit(w)
  BY <1>8 DEF WriterExit, Slot!AudioStop, Slot!Audio
<1> QED
  BY <1>1, <1>2, <1>3, <1>4, <1>5, <1>6, <1>7, <1>8 DEF WriterStep, Mixing

LEMMA NextKeepsIInv == IInv /\ [Next]_vars => IInv'
<1> SUFFICES ASSUME IInv, [Next]_vars PROVE IInv'
  OBVIOUS
<1>1. CASE UNCHANGED vars
  BY <1>1
  DEF vars, slotVars, deviceVars, writerVars, IInv, DeviceTypeOK, OwnerInv, AudioInv,
      ControlInv, FitInv, NobodyInLoop
<1>2. ASSUME NEW t \in Threads, SetMixCallback(t) PROVE IInv'
  BY <1>2, StoreLeavesAudio
  DEF SetMixCallback, deviceVars, writerVars, IInv, DeviceTypeOK, OwnerInv, AudioInv,
      ControlInv, FitInv, NobodyInLoop
<1> QED
  BY <1>1, <1>2, CallKeepsIInv, StoppingKeepsIInv, ReopeningKeepsIInv, StartingKeepsIInv,
     WriterKeepsIInv DEF Next, Device

-----------------------------------------------------------------------------
(* Theorems.                                                                *)

THEOREM Invariance == Spec => []IInv
BY InitIInv, NextKeepsIInv, PTL DEF Spec

\* isRunning() returning false means that no callback is executing.
THEOREM FalseMeansQuiet == Spec => []QuietWhenNotRunning
<1>1. IInv => QuietWhenNotRunning
  BY DEF IInv, DeviceTypeOK, OwnerInv, AudioInv, QuietWhenNotRunning, Gone, WriterPoints
<1> QED
  BY <1>1, Invariance, PTL

\* stop() returns, and close() and open() go on, only once no writer can touch the
\* PCM, the block or the callbacks.
THEOREM StopLeavesControl == Spec => []ControlOwnsDevice
<1>1. IInv => ControlOwnsDevice
  BY WritersAssumption
  DEF IInv, DeviceTypeOK, OwnerInv, AudioInv, ControlInv, NobodyInLoop, ControlOwnsDevice,
      Gone, WriterPoints
<1> QED
  BY <1>1, Invariance, PTL

\* A writer hands the open PCM exactly the frames the block has room for.
THEOREM WriterBlockFits == Spec => []BlockFits
<1>1. IInv => BlockFits
  BY DEF IInv, OwnerInv, FitInv, BlockFits, InLoop
<1> QED
  BY <1>1, Invariance, PTL

-----------------------------------------------------------------------------
(* The device is built on the slot: what is proved of the slot holds in it.  *)

P == INSTANCE MixCallbackSlotProofs

\* A call of a control thread on the slot is a step of the slot.
LEMMA ControlSteps ==
  ASSUME NEW t \in Threads, Slot!StoreCall(t) \/ Slot!Store(t) \/ Slot!ClearCall(t) \/ Slot!Clear(t)
  PROVE  P!Next
<1>1. CASE Slot!StoreCall(t)
  BY <1>1 DEF P!Next, Slot!StoreCall, P!StoreCall, Slot!Control, P!Control, Slot!slots, P!slots
<1>2. CASE Slot!ClearCall(t)
  BY <1>2 DEF P!Next, Slot!ClearCall, P!ClearCall, Slot!Control, P!Control, Slot!slots, P!slots, Slot!history, P!history
<1>3. CASE Slot!Store(t)
  <2>1. P!Store(t)
    BY <1>3
    DEF Slot!Store, P!Store, Slot!Control, P!Control, Slot!slots, P!slots, Slot!history, P!history,
        Slot!StoreLock, P!StoreLock, Slot!StoreReclaim, P!StoreReclaim, Slot!StorePublish, P!StorePublish,
        Slot!StoreFlag, P!StoreFlag, Slot!StoreUnlock, P!StoreUnlock, Slot!Acquire, P!Acquire,
        Slot!Release, P!Release, Slot!Nothing, P!Nothing
  <2> QED  BY <2>1 DEF P!Next
<1>4. CASE Slot!Clear(t)
  <2>1. P!Clear(t)
    BY <1>4
    DEF Slot!Clear, P!Clear, Slot!Control, P!Control, Slot!slots, P!slots, Slot!history, P!history,
        Slot!ClearLock, P!ClearLock, Slot!ClearDrop, P!ClearDrop, Slot!ClearUnlock, P!ClearUnlock,
        Slot!Acquire, P!Acquire, Slot!Release, P!Release, Slot!Nothing, P!Nothing
  <2> QED  BY <2>1 DEF P!Next
<1> QED
  BY <1>1, <1>2, <1>3, <1>4

\* So is a step of the writer thread in it.
LEMMA AudioSteps ==
  ASSUME \/ Slot!AudioStart \/ Slot!AudioStop \/ Slot!InvokeLoad \/ Slot!TryLockWins \/ Slot!TryLockLoses
         \/ Slot!Swap \/ Slot!InvokeBegin \/ Slot!InvokeReturn
  PROVE  P!Next
<1> USE DEF P!Next, P!Invoke, Slot!Audio, P!Audio, Slot!slots, P!slots, Slot!history, P!history
<1>1. CASE Slot!AudioStart \/ Slot!AudioStop
  BY <1>1 DEF Slot!AudioStart, P!AudioStart, Slot!AudioStop, P!AudioStop, Slot!InClear, P!InClear
<1>2. CASE Slot!InvokeLoad
  BY <1>2 DEF Slot!InvokeLoad, P!InvokeLoad
<1>3. CASE Slot!TryLockWins \/ Slot!TryLockLoses
  BY <1>3 DEF Slot!TryLockWins, P!TryLockWins, Slot!TryLockLoses, P!TryLockLoses, Slot!Acquire, P!Acquire
<1>4. CASE Slot!Swap
  BY <1>4
  DEF Slot!Swap, P!Swap, Slot!SwapRetire, P!SwapRetire, Slot!SwapAdopt, P!SwapAdopt, Slot!SwapUnflag,
      P!SwapUnflag, Slot!SwapRelease, P!SwapRelease, Slot!Release, P!Release, Slot!Nothing, P!Nothing
<1>5. CASE Slot!InvokeBegin \/ Slot!InvokeReturn
  BY <1>5 DEF Slot!InvokeBegin, P!InvokeBegin, Slot!InvokeReturn, P!InvokeReturn
<1> QED
  BY <1>1, <1>2, <1>3, <1>4, <1>5

\* Every step of the device is one of the slot, or leaves the slot alone.
LEMMA StepsOfSlot == [Next]_vars => [P!Next]_(P!vars)
<1> SUFFICES ASSUME [Next]_vars PROVE P!Next \/ UNCHANGED slotVars
  BY DEF P!vars, P!slots, P!history, slotVars
<1>1. CASE UNCHANGED vars
  BY <1>1 DEF vars
<1>2. CASE OpenCall \/ CloseCall \/ StartCall \/ StopCall
  BY <1>2 DEF OpenCall, CloseCall, StartCall, StopCall, Call
<1>3. CASE Stopping
  BY <1>3 DEF Stopping, StopNothing, StopRequest, Join, UnsetRunning, Drop
<1>4. CASE Closing
  BY <1>4, ControlSteps, DriverAssumption DEF Closing, CloseClear, CloseClearing, CloseCleared, PcmClose
<1>5. CASE Opening \/ Starting
  BY <1>5 DEF Opening, PcmOpenFails, PcmOpens, Starting, StartCheck, Prepare, SetRunning, SpawnThrows, JoinOld, Spawn
<1>6. ASSUME NEW w \in Writers, WriterStep(w) PROVE P!Next \/ UNCHANGED slotVars
  BY <1>6, AudioSteps
  DEF WriterStep, WriterBegin, WriterCheck, Mixing, MixEnter, MixStep, MixReturn, Write, Recover, WriterExit
<1>7. ASSUME NEW t \in Threads, SetMixCallback(t) PROVE P!Next \/ UNCHANGED slotVars
  BY <1>7, ControlSteps DEF SetMixCallback
<1> QED
  BY <1>1, <1>2, <1>3, <1>4, <1>5, <1>6, <1>7 DEF Next, Device

\* The slot is used within what it assumes.
LEMMA SlotAssumptions ==
  /\ P!IsFiniteSet(Threads) /\ {"free", "audio"} \cap Threads = {}
  /\ MaxStores \in Nat
<1>1. P!IsFiniteSet(Threads)
  BY ThreadsAssumption DEF IsFiniteSet, P!IsFiniteSet
<1> QED
  BY <1>1, ThreadsAssumption, MaxStoresAssumption

\* So the slot's invariant holds in the device.
LEMMA SlotInvariance == Spec => []P!IInv
<1>1. Init => P!IInv
  <2>1. Init => P!Init
    BY DEF Init, Slot!Init, P!Init, Slot!Nothing, P!Nothing
  <2> QED
    BY <2>1, P!InitIInv, SlotAssumptions
<1>2. P!IInv /\ [Next]_vars => P!IInv'
  BY StepsOfSlot, P!NextKeepsIInv, SlotAssumptions
<1> QED
  BY <1>1, <1>2, PTL DEF Spec

\* Through starts, stops, failed writes and reopens the device's audio thread never frees a
\* callback, and between two closes none is resurrected (MixCallbackSlot.hpp).
THEOREM DeviceHandsOver == Spec => []P!AudioNeverFrees /\ [][audio # "stopped" => heard' >= heard]_slotVars
<1>1. P!IInv => P!AudioNeverFrees
  BY DEF P!IInv, P!SlotInv, P!FlagInv, P!PendingInv, P!AudioNeverFrees, P!Nothing
<1>2. P!IInv /\ [Next]_vars => [audio # "stopped" => heard' >= heard]_slotVars
  BY StepsOfSlot, P!HeardNeverAges, SlotAssumptions DEF P!vars, P!slots, P!history, slotVars
<1> QED
  BY <1>1, <1>2, SlotInvariance, PTL DEF Spec

\* Every variable of the device and of its slot stays in its set.
THEOREM TypeCorrectness == Spec => []TypeOK
<1>1. P!TypeOK => Slot!TypeOK
  BY DEF P!TypeOK, Slot!TypeOK, P!AudioPoints, Slot!AudioPoints, P!ControlPoints, Slot!ControlPoints,
         P!InStore, Slot!InStore, P!InClear, Slot!InClear, P!Swapping, Slot!Swapping
<1>2. P!IInv /\ IInv => TypeOK
  BY <1>1 DEF P!IInv, IInv, DeviceTypeOK, TypeOK
<1> QED
  BY <1>2, SlotInvariance, Invariance, PTL

-----------------------------------------------------------------------------
(* The device uses the slot as the slot asks.                                *)

\* Where the writer is tells where the slot's audio thread is, and only the driver clears, in
\* close(); a call of the driver begins with no store() of its own under way.
SlotUseInv ==
  /\ \A w \in Writers :
       /\ wpc[w] = "born" => audio = "stopped"
       /\ wpc[w] \in {"top", "enter", "write", "recover", "exit"} => audio = "idle"
       /\ wpc[w] = "mix" => audio \notin {"stopped", "idle"}
  /\ \A t \in Threads : pc[t] \in Slot!InClear => t = Driver /\ ctl = "clearing"
  /\ ctl \notin {"idle", "clearing"} => pc[Driver] = "idle"
  /\ ctl = "clearing" => pc[Driver] \in Slot!InClear \cup {"idle"}

LEMMA SlotUseKept ==
  ASSUME IInv, IInv', TypeOK, SlotUseInv, [Next]_vars
  PROVE  SlotUseInv'
<1> USE DEF SlotUseInv
<1>0. pc \in [Threads -> Slot!ControlPoints] /\ Driver \in Threads
  BY DriverAssumption DEF TypeOK, Slot!TypeOK
<1>1. CASE UNCHANGED vars
  BY <1>1 DEF vars, slotVars, deviceVars, writerVars
<1>2. CASE OpenCall \/ CloseCall \/ StartCall \/ StopCall
  BY <1>2 DEF OpenCall, CloseCall, StartCall, StopCall, Call, slotVars, deviceVars, writerVars
<1>3. CASE Stopping
  BY <1>3 
  DEF Stopping, StopNothing, StopRequest, Join, UnsetRunning, Drop, Go, AfterStop, slotVars, deviceVars, writerVars,
      IInv, DeviceTypeOK, WriterPoints, InLoop
<1>4. CASE Closing
  BY <1>0, <1>4
  DEF Closing, CloseClear, CloseClearing, CloseCleared, PcmClose, Go, slotVars, deviceVars, writerVars,
      Slot!ClearCall, Slot!Clear, Slot!ClearLock, Slot!ClearDrop, Slot!ClearUnlock, Slot!Control, Slot!InClear
<1>5. CASE Opening
  BY <1>5 DEF Opening, PcmOpenFails, PcmOpens, Go, slotVars, deviceVars, writerVars
<1>6. CASE Starting
  BY <1>6 
  DEF Starting, StartCheck, Prepare, SetRunning, SpawnThrows, JoinOld, Spawn, Go, slotVars, deviceVars, writerVars,
      IInv, DeviceTypeOK, AudioInv, ControlInv, NobodyInLoop, WriterPoints, InLoop
<1>7. ASSUME NEW w \in Writers, WriterStep(w) PROVE SlotUseInv'
  <2>1. pc' = pc /\ ctl' = ctl
    BY <1>7
    DEF WriterStep, WriterBegin, WriterCheck, Mixing, MixEnter, MixStep, MixReturn, Write, Recover, WriterExit, Writer,
        slotVars, Slot!AudioStart, Slot!AudioStop, Slot!InvokeLoad, Slot!TryLockWins, Slot!TryLockLoses, Slot!Swap,
        Slot!SwapRetire, Slot!SwapAdopt, Slot!SwapUnflag, Slot!SwapRelease, Slot!InvokeBegin, Slot!InvokeReturn,
        Slot!Audio
  <2>2. \A v \in Writers : v # w => wpc[v] \notin InLoop /\ wpc'[v] \notin InLoop
    BY <1>7
    DEF WriterStep, WriterBegin, WriterCheck, Mixing, MixEnter, MixStep, MixReturn, Write, Recover, WriterExit, Writer,
        IInv, OwnerInv, DeviceTypeOK, InLoop
  <2>3. /\ wpc'[w] = "born" => audio' = "stopped"
        /\ wpc'[w] \in {"top", "enter", "write", "recover", "exit"} => audio' = "idle"
        /\ wpc'[w] = "mix" => audio' \notin {"stopped", "idle"}
    <3> USE DEF Writer, IInv, DeviceTypeOK, slotVars, Slot!Audio
    <3>1. CASE WriterBegin(w)
      BY <3>1 DEF WriterBegin, Slot!AudioStart
    <3>2. CASE WriterCheck(w)
      BY <3>2 DEF WriterCheck
    <3>3. CASE MixEnter(w)
      BY <3>3 DEF MixEnter, Slot!InvokeLoad
    <3>4. CASE MixStep(w)
      BY <3>4
      DEF MixStep, Slot!TryLockWins, Slot!TryLockLoses, Slot!Swap, Slot!SwapRetire, Slot!SwapAdopt, Slot!SwapUnflag,
          Slot!SwapRelease, Slot!InvokeBegin
    <3>5. CASE MixReturn(w)
      BY <3>5 DEF MixReturn, Slot!InvokeReturn
    <3>6. CASE Write(w) \/ Recover(w)
      BY <3>6 DEF Write, Recover
    <3>7. CASE WriterExit(w)
      BY <3>7 DEF WriterExit, Slot!AudioStop
    <3> QED
      BY <1>7, <3>1, <3>2, <3>3, <3>4, <3>5, <3>6, <3>7 DEF WriterStep, Mixing
  <2> QED
    BY <2>1, <2>2, <2>3 DEF InLoop
<1>8. ASSUME NEW t \in Threads, SetMixCallback(t) PROVE SlotUseInv'
  BY <1>0, <1>8
  DEF SetMixCallback, Slot!StoreCall, Slot!Store, Slot!StoreLock, Slot!StoreReclaim, Slot!StorePublish, Slot!StoreFlag,
      Slot!StoreUnlock, Slot!Control, Slot!InClear, deviceVars, writerVars
<1> QED
  BY <1>1, <1>2, <1>3, <1>4, <1>5, <1>6, <1>7, <1>8 DEF Next, Device

\* The device keeps to what the slot's clear() and invoke() ask of it, so their guards in the
\* model never hold it back (AlsaAudioDevice.cpp: start(), stop(), close(), writerLoop()).
THEOREM ContractKept == Spec => []SlotIsUsedAsAsked
<1>1. Init => SlotUseInv
  BY DriverAssumption DEF Init, Slot!Init, SlotUseInv, Slot!InClear
<1>2. IInv /\ SlotUseInv /\ OneWriter => SlotIsUsedAsAsked
  BY WritersAssumption DEF IInv, OwnerInv, AudioInv, ControlInv, NobodyInLoop, SlotUseInv, SlotIsUsedAsAsked, InLoop
<1>3. IInv => OneWriter
  BY DEF IInv, DeviceTypeOK, OwnerInv, OneWriter, Gone, WriterPoints
<1> QED
  BY <1>1, <1>2, <1>3, SlotUseKept, Invariance, TypeCorrectness, PTL DEF Spec

=============================================================================
