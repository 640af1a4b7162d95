--------------------------- MODULE AlsaAudioDevice ---------------------------
(***************************************************************************)
(* wma::AlsaAudioDevice (src/src/audio/backends/alsa/AlsaAudioDevice.cpp): *)
(* the device that runs its own writer thread, composed with the           *)
(* MixCallbackSlot it hands callbacks through.                             *)
(*                                                                         *)
(* One control thread (Driver) opens, starts, stops and closes the device; *)
(* any thread may publish a callback meanwhile.  Each start() spawns a new *)
(* writer; a writer mixes a block (the steps of the slot's invoke()),      *)
(* writes it to the PCM, recovers or gives up.  The PCM is external: every *)
(* call on it may fail, and a write may also stay inside the call.         *)
(***************************************************************************)
EXTENDS Naturals, FiniteSets

CONSTANTS
  Threads,     \* threads that may call setMixCallback()
  MaxStores,   \* bound on the number of setMixCallback() calls
  Driver,      \* the one of them that drives the device
  Writers,     \* names for writer threads, reused once one is joined
  NoWriter,    \* a std::jthread without a thread
  Periods      \* period sizes ALSA may grant, in frames

ASSUME ThreadsAssumption == IsFiniteSet(Threads) /\ {"free", "audio"} \cap Threads = {}
ASSUME MaxStoresAssumption == MaxStores \in Nat
ASSUME DriverAssumption == Driver \in Threads
ASSUME WritersAssumption == NoWriter \notin Writers
ASSUME PeriodsAssumption == Periods \subseteq Nat \ {0}

VARIABLES
  lock, active, pending, retired, hasPending, audio, pc,
  calls, published, hollow, heard,  \* the slot, see MixCallbackSlot
  op,       \* the call the control thread is in
  ctl,      \* where in that call it is
  pcm,      \* _pcm: "open" or "closed"
  running,  \* _running
  handle,   \* _writer: the thread it owns, or NoWriter
  leaving,  \* the thread start() has just replaced in _writer
  wpc,      \* where each writer is in writerLoop()
  stopReq,  \* each writer's stop token
  period,   \* _config.framesPerBuffer
  scratch,  \* frames _scratch has room for
  wperiod   \* periodFrames, which a writer reads once

slotVars == <<lock, active, pending, retired, hasPending, audio, pc,
              calls, published, hollow, heard>>
deviceVars == <<pcm, running, handle, leaving, period, scratch>>
writerVars == <<wpc, stopReq, wperiod>>
vars == <<slotVars, op, ctl, deviceVars, writerVars>>

Slot == INSTANCE MixCallbackSlot

Calls == {"none", "open", "close", "start", "stop"}
ControlPoints ==
  {"idle", "stopCheck", "join", "unsetRunning", "drop", "clear", "clearing", "pcmClose",
   "pcmOpen", "startCheck", "prepare", "setRunning", "spawn", "joinOld"}
\* the points of writerLoop() at which the thread is still the device's writer
InLoop == {"born", "top", "enter", "mix", "write", "recover", "exit"}
WriterPoints == {"none", "done"} \cup InLoop

TypeOK ==
  /\ Slot!TypeOK
  /\ op \in Calls
  /\ ctl \in ControlPoints
  /\ pcm \in {"open", "closed"}
  /\ running \in BOOLEAN
  /\ handle \in Writers \cup {NoWriter}
  /\ leaving \in Writers \cup {NoWriter}
  /\ wpc \in [Writers -> WriterPoints]
  /\ stopReq \in [Writers -> BOOLEAN]
  /\ period \in Periods \cup {0}
  /\ scratch \in Periods \cup {0}
  /\ wperiod \in [Writers -> Periods \cup {0}]

Init ==
  /\ Slot!Init
  /\ op = "none" /\ ctl = "idle"
  /\ pcm = "closed" /\ running = FALSE
  /\ handle = NoWriter /\ leaving = NoWriter
  /\ wpc = [w \in Writers |-> "none"]
  /\ stopReq = [w \in Writers |-> FALSE]
  /\ wperiod = [w \in Writers |-> 0]
  /\ period = 0 /\ scratch = 0

\* The control thread moves between two points of the call it is in.
Go(from, to) ==
  /\ ctl = from
  /\ ctl' = to
  /\ op' = IF to = "idle" THEN "none" ELSE op

Call(name, first) ==
  /\ ctl = "idle" /\ pc[Driver] = "idle"
  /\ op' = name /\ ctl' = first
  /\ UNCHANGED <<slotVars, deviceVars, writerVars>>

-----------------------------------------------------------------------------
(* Plausible mistakes in the code below: the runs are known to catch them.  *)

\* start() prepares whatever writer is still winding down.
StartUnchecked ==
  /\ Go("startCheck", "prepare")
  /\ UNCHANGED <<slotVars, deviceVars, writerVars>>

\* stop() clears the flag and goes on without waiting for the writer.
JoinDetaches ==
  /\ Go("join", "unsetRunning")
  /\ handle' = NoWriter
  /\ UNCHANGED <<slotVars, pcm, running, leaving, period, scratch, writerVars>>

\* stop() clears _running before it joins, "to end the loop".
StopClearsEarly ==
  /\ handle # NoWriter
  /\ Go("stopCheck", "join")
  /\ stopReq' = [stopReq EXCEPT ![handle] = TRUE]
  /\ running' = FALSE
  /\ UNCHANGED <<slotVars, pcm, handle, leaving, period, scratch, wpc, wperiod>>

\* stop() joins without asking the thread to stop.
StopForgetsRequest ==
  /\ handle # NoWriter
  /\ Go("stopCheck", "join")
  /\ UNCHANGED <<slotVars, deviceVars, writerVars>>

\* open() sizes the scratch block from the request, not from what was granted.
PcmOpensAsRequested ==
  /\ Go("pcmOpen", "idle")
  /\ pcm' = "open"
  /\ \E requested, granted \in Periods : period' = granted /\ scratch' = requested
  /\ UNCHANGED <<slotVars, running, handle, leaving, writerVars>>

\* open() stores the granted period in samples, two channels to the frame.
PcmOpensInSamples ==
  /\ Go("pcmOpen", "idle")
  /\ pcm' = "open"
  /\ \E granted \in Periods : period' = 2 * granted /\ scratch' = granted
  /\ UNCHANGED <<slotVars, running, handle, leaving, writerVars>>

-----------------------------------------------------------------------------
(* stop(), which close() begins with, and which open() reaches through close(). *)

StopCall == Call("stop", "stopCheck")
CloseCall == Call("close", "stopCheck")

AfterStop == IF op = "stop" THEN "idle" ELSE "clear"

StopNothing ==
  /\ handle = NoWriter
  /\ Go("stopCheck", AfterStop)
  /\ running' = FALSE
  /\ UNCHANGED <<slotVars, pcm, handle, leaving, period, scratch, writerVars>>

StopRequest ==
  /\ handle # NoWriter
  /\ Go("stopCheck", "join")
  /\ stopReq' = [stopReq EXCEPT ![handle] = TRUE]
  /\ UNCHANGED <<slotVars, deviceVars, wpc, wperiod>>

Join ==
  /\ Go("join", "unsetRunning")
  /\ wpc[handle] = "done"
  /\ wpc' = [wpc EXCEPT ![handle] = "none"]
  /\ handle' = NoWriter
  /\ UNCHANGED <<slotVars, pcm, running, leaving, period, scratch, stopReq, wperiod>>

UnsetRunning ==
  /\ Go("unsetRunning", "drop")
  /\ running' = FALSE
  /\ UNCHANGED <<slotVars, pcm, handle, leaving, period, scratch, writerVars>>

\* snd_pcm_drop() changes nothing the device tracks.
Drop ==
  /\ Go("drop", AfterStop)
  /\ UNCHANGED <<slotVars, deviceVars, writerVars>>

-----------------------------------------------------------------------------
(* close(): stop(), then drop every callback, then the PCM and the block.    *)

CloseClear ==
  /\ Go("clear", "clearing")
  /\ Slot!ClearCall(Driver)
  /\ UNCHANGED <<deviceVars, writerVars>>

CloseClearing ==
  /\ ctl = "clearing"
  /\ Slot!Clear(Driver)
  /\ UNCHANGED <<op, ctl, deviceVars, writerVars>>

CloseCleared ==
  /\ pc[Driver] = "idle"
  /\ Go("clearing", "pcmClose")
  /\ UNCHANGED <<slotVars, deviceVars, writerVars>>

PcmClose ==
  /\ Go("pcmClose", IF op = "open" THEN "pcmOpen" ELSE "idle")
  /\ pcm' = "closed"
  /\ scratch' = 0
  /\ UNCHANGED <<slotVars, running, handle, leaving, period, writerVars>>

-----------------------------------------------------------------------------
(* open(): an open device is closed first; opening the PCM or setting its    *)
(* parameters may fail, which leaves the device closed.                      *)

OpenCall == Call("open", IF pcm = "open" THEN "stopCheck" ELSE "pcmOpen")

PcmOpenFails ==
  /\ Go("pcmOpen", "idle")
  /\ UNCHANGED <<slotVars, deviceVars, writerVars>>

PcmOpens ==
  /\ Go("pcmOpen", "idle")
  /\ pcm' = "open"
  /\ \E granted \in Periods : period' = granted /\ scratch' = granted
  /\ UNCHANGED <<slotVars, running, handle, leaving, writerVars>>

-----------------------------------------------------------------------------
(* start().  A closed device returns Error at once, with no effect.          *)

StartCall == pcm = "open" /\ Call("start", "startCheck")

StartCheck ==
  /\ Go("startCheck", IF running THEN "idle" ELSE "prepare")
  /\ UNCHANGED <<slotVars, deviceVars, writerVars>>

\* snd_pcm_prepare() may refuse, and start() returns Error.
Prepare ==
  /\ Go("prepare", "setRunning") \/ Go("prepare", "idle")
  /\ UNCHANGED <<slotVars, deviceVars, writerVars>>

SetRunning ==
  /\ Go("setRunning", "spawn")
  /\ running' = TRUE
  /\ UNCHANGED <<slotVars, pcm, handle, leaving, period, scratch, writerVars>>

\* _writer = std::jthread(...): the new thread exists before the old one, if
\* _writer still owned one, is asked to stop and joined.
Spawn(w) ==
  /\ wpc[w] = "none"
  /\ Go("spawn", "joinOld")
  /\ wpc' = [wpc EXCEPT ![w] = "born"]
  /\ stopReq' = [stopReq EXCEPT ![w] = FALSE]
  /\ leaving' = handle
  /\ handle' = w
  /\ UNCHANGED <<slotVars, pcm, running, period, scratch, wperiod>>

\* The system refuses a thread: the constructor throws out of start().
SpawnThrows ==
  /\ Go("spawn", "idle")
  /\ UNCHANGED <<slotVars, deviceVars, writerVars>>

JoinOld ==
  /\ Go("joinOld", "idle")
  /\ \/ /\ leaving = NoWriter
        /\ UNCHANGED <<wpc, stopReq>>
     \/ /\ leaving # NoWriter
        /\ wpc[leaving] = "done"
        /\ wpc' = [wpc EXCEPT ![leaving] = "none"]
        /\ stopReq' = [stopReq EXCEPT ![leaving] = TRUE]
  /\ leaving' = NoWriter
  /\ UNCHANGED <<slotVars, pcm, running, handle, period, scratch, wperiod>>

-----------------------------------------------------------------------------
(* writerLoop(), on the writer thread.                                       *)

Writer(w, from, to) ==
  /\ wpc[w] = from
  /\ wpc' = [wpc EXCEPT ![w] = to]
  /\ UNCHANGED <<op, ctl, pcm, handle, leaving, period, scratch, stopReq>>

WriterBegin(w) ==
  /\ Writer(w, "born", "top")
  /\ wperiod' = [wperiod EXCEPT ![w] = period]
  /\ Slot!AudioStart
  /\ UNCHANGED running

WriterCheck(w) ==
  /\ Writer(w, "top", IF stopReq[w] \/ ~running THEN "exit" ELSE "enter")
  /\ UNCHANGED <<slotVars, running, wperiod>>

MixEnter(w) ==
  /\ Writer(w, "enter", "mix")
  /\ Slot!InvokeLoad
  /\ UNCHANGED <<running, wperiod>>

MixStep(w) ==
  /\ Writer(w, "mix", "mix")
  /\ Slot!TryLockWins \/ Slot!TryLockLoses \/ Slot!Swap \/ Slot!InvokeBegin
  /\ UNCHANGED <<running, wperiod>>

MixReturn(w) ==
  /\ Writer(w, "mix", "write")
  /\ Slot!InvokeReturn
  /\ UNCHANGED <<running, wperiod>>

\* snd_pcm_writei() returns: the block was taken, or an error to recover from.
Write(w) ==
  /\ Writer(w, "write", "top") \/ Writer(w, "write", "recover")
  /\ UNCHANGED <<slotVars, running, wperiod>>

\* snd_pcm_recover() restarts the stream, or the loop is abandoned.
Recover(w) ==
  /\ Writer(w, "recover", "top") \/ Writer(w, "recover", "exit")
  /\ UNCHANGED <<slotVars, running, wperiod>>

WriterExit(w) ==
  /\ Writer(w, "exit", "done")
  /\ running' = FALSE
  /\ Slot!AudioStop
  /\ UNCHANGED wperiod

-----------------------------------------------------------------------------
\* setMixCallback() is MixCallbackSlot::store(), from any thread.  The control
\* thread makes it between two calls on the device.
SetMixCallback(t) ==
  /\ \/ Slot!StoreCall(t) /\ (t = Driver => ctl = "idle")
     \/ Slot!Store(t)
  /\ UNCHANGED <<op, ctl, deviceVars, writerVars>>

Stopping == StopNothing \/ StopRequest \/ Join \/ UnsetRunning \/ Drop
Closing == CloseClear \/ CloseClearing \/ CloseCleared \/ PcmClose
Opening == PcmOpenFails \/ PcmOpens
Starting ==
  \/ StartCheck \/ Prepare \/ SetRunning \/ SpawnThrows \/ JoinOld
  \/ \E w \in Writers : Spawn(w)

Device == Stopping \/ Closing \/ Opening \/ Starting

Mixing(w) == MixEnter(w) \/ MixStep(w) \/ MixReturn(w)
WriterStep(w) ==
  \/ WriterBegin(w) \/ WriterCheck(w) \/ Mixing(w) \/ Write(w) \/ Recover(w) \/ WriterExit(w)

Next ==
  \/ OpenCall \/ CloseCall \/ StartCall \/ StopCall
  \/ Device
  \/ \E w \in Writers : WriterStep(w)
  \/ \E t \in Threads : SetMixCallback(t)

Spec == Init /\ [][Next]_vars

\* Threads inside a call keep running, the mix callback returns, and so does
\* snd_pcm_writei(), "at most one period" later (AlsaAudioDevice.cpp, lines 219-223).
Fairness ==
  /\ WF_vars(Device)
  /\ \A w \in Writers : WF_vars(WriterStep(w))
  /\ \A t \in Threads : WF_vars(Slot!Store(t) /\ UNCHANGED <<op, ctl, deviceVars, writerVars>>)

FairSpec == Spec /\ Fairness

-----------------------------------------------------------------------------
(* Properties.                                                              *)

Gone(w) == wpc[w] \in {"none", "done"}

\* A false isRunning() guarantees that no callback is executing: "what callers
\* freeing mix-callback memory depend on" (IAudioDevice.hpp, lines 72-75).
QuietWhenNotRunning == ~running => audio = "stopped" /\ \A w \in Writers : Gone(w)

\* Whenever the control thread prepares, drops, closes or reopens the PCM,
\* replaces the block or drops the callbacks, no writer can be mixing or inside
\* the PCM: what stop() guarantees on return (IAudioDevice.hpp, lines 68-70), what
\* clear() requires, and why the handle is "not safe to touch" before the join.
ControlOwnsDevice ==
  ctl \in {"unsetRunning", "drop", "clear", "clearing", "pcmClose", "pcmOpen", "prepare"} =>
    audio = "stopped" /\ \A w \in Writers : Gone(w)

\* A writer only mixes and writes an open PCM's blocks, and the number of frames
\* it hands to snd_pcm_writei() is what the block has room for, across reopens
\* that are granted another period.
BlockFits ==
  \A w \in Writers : wpc[w] \in {"enter", "mix", "write", "recover"} =>
    pcm = "open" /\ wperiod[w] = scratch

\* At most one writer thread runs the loop, so invoke() has one caller, also when
\* start() replaces a writer that gave up.
OneWriter ==
  \A v, w \in Writers : Gone(v) \/ Gone(w) \/ v = w

\* The writer is alone in the slot, and clear() is called with the slot's audio thread stopped and no store() of the control thread
\* under way, and an audio thread enters and leaves the slot with no clear() under way and no
\* other in it: what clear()'s warning and the slot's one audio thread ask of the device that uses
\* it (MixCallbackSlot.hpp), through replaced writers, failed writes and reopens.
SlotIsUsedAsAsked ==
  /\ OneWriter
  /\ ctl = "clear" => audio = "stopped" /\ pc[Driver] = "idle"
  /\ \A w \in Writers :
       /\ wpc[w] = "born" => audio = "stopped" /\ \A t \in Threads : pc[t] \notin Slot!InClear
       /\ wpc[w] \in {"enter", "exit"} => audio = "idle"

\* stop() and close() return, whatever the writer was doing and whoever is
\* publishing callbacks: nobody waits on somebody who waits for them.
CallsReturn == ctl # "idle" ~> ctl = "idle"

=============================================================================
