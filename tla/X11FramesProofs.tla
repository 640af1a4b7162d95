--------------------------- MODULE X11FramesProofs ---------------------------
(***************************************************************************)
(* Proofs about X11Frames, for any number of slots, sizes and serials.     *)
(*                                                                         *)
(* The argument: whatever the server holds is marked busy, so a slot that  *)
(* is not busy is safe to draw in.  While Present is in use each busy slot *)
(* has its report to come.  The step that gives Present up has just made a *)
(* slot that needs no Present, and that slot is the one that survives: it  *)
(* is only ever given back by a completion the poll loop acts on.          *)
(***************************************************************************)
EXTENDS X11Frames, TLAPS

\* The server only holds, or reports about, slots that are marked busy.
ClaimsAreBusy == \A s \in Slots : claim[s] # "none" => s \in busy

LockedIsIdle == locked \notin busy

\* While Present is in use each busy slot has its report to come.
PresentFollowsUp == present => \A s \in busy : claim[s] # "none"

\* A slot that needs no Present, now or later.
Survivor(s) ==
  /\ kind[s] # "pixmap"
  /\ s \in busy => claim[s] \in {"shm", "done"}

SomeSurvivor == ~present => \E s \in Slots : Survivor(s)

\* The pending frame is the newest, and a frame has not completed before it completes.
SerialsMatch ==
  /\ pending \in {0, serial}
  /\ uncompleted \cap completed = {}

IInv ==
  /\ TypeOK
  /\ ClaimsAreBusy
  /\ LockedIsIdle
  /\ PresentFollowsUp
  /\ SomeSurvivor
  /\ SerialsMatch

-----------------------------------------------------------------------------
(* Lemmas.                                                                  *)

\* The serial of the next frame is one the server and pending_ can carry.
LEMMA NextSerialIsSerial ==
  ASSUME serial \in 0 .. MaxSerial
  PROVE  NextSerial \in Serials /\ NextSerial # 0 /\ NextSerial \in 0 .. MaxSerial
  BY MaxSerialAssumption DEF NextSerial, Serials

\* What a lock that makes a new image leaves true of the images.
LEMMA CreateSlotFacts ==
  ASSUME TypeOK, NEW s \in Slots, CreateSlot(s)
  PROVE  /\ kind' \in [Slots -> Kinds] /\ size' \in [Slots -> Sizes]
         /\ shm' \in BOOLEAN /\ present' \in BOOLEAN
         /\ present' => present
         /\ ~present' => kind'[s] # "pixmap"
         /\ \A t \in Slots \ {s} : kind'[t] = kind[t]
<1>1. size' = [size EXCEPT ![s] = windowSize]  BY DEF CreateSlot
<1>2. PICK k \in {"plain", "shm", "pixmap"} :
        /\ kind' = [kind EXCEPT ![s] = k]
        /\ k = "pixmap" => present'
  <2>1. \/ kind' = [kind EXCEPT ![s] = "pixmap"] /\ present /\ present' = present
        \/ kind' = [kind EXCEPT ![s] = "shm"]
        \/ kind' = [kind EXCEPT ![s] = "plain"]
    BY DEF CreateSlot
  <2>2. ASSUME present, present' = present PROVE present'  BY <2>2
  <2> QED  BY <2>1, <2>2, Zenon
<1>3. kind' \in [Slots -> Kinds] /\ size' \in [Slots -> Sizes]
  BY <1>1, <1>2 DEF TypeOK, Kinds
<1>4. kind'[s] = k /\ \A t \in Slots \ {s} : kind'[t] = kind[t]  BY <1>2 DEF TypeOK
<1>5. shm' \in BOOLEAN /\ present' \in BOOLEAN /\ (present' => present)
  BY Zenon DEF CreateSlot, FallBack, TypeOK
<1> QED  BY <1>2, <1>3, <1>4, <1>5

\* What the images of a survivor may become while Present is not in use.
LEMMA ImageStep ==
  ASSUME IInv, NEW s \in Slots, s \notin busy, UNCHANGED <<busy, claim>>,
         kind' \in [Slots -> Kinds], present' => present,
         ~present' => kind'[s] # "pixmap",
         \A t \in Slots \ {s} : kind'[t] = kind[t]
  PROVE  ClaimsAreBusy' /\ PresentFollowsUp' /\ SomeSurvivor'
<1>1. ClaimsAreBusy' /\ PresentFollowsUp'
  BY DEF IInv, ClaimsAreBusy, PresentFollowsUp
<1>2. ~present' => Survivor(s)'  BY DEF Survivor
<1> QED  BY <1>1, <1>2 DEF SomeSurvivor

\* The invariant holds of every behaviour.
THEOREM Invariance == Spec => []IInv
<1>1. Init => IInv
  <2> SUFFICES ASSUME Init PROVE IInv  OBVIOUS
  <2>1. TypeOK
    <3>1. /\ kind \in [Slots -> Kinds] /\ size \in [Slots -> Sizes] /\ claim \in [Slots -> Claims]
          /\ serial \in 0 .. MaxSerial /\ pending \in 0 .. MaxSerial
      BY MaxSerialAssumption DEF Init, Kinds, Claims
    <3> QED  BY <3>1, Zenon DEF Init, TypeOK
  <2>2. SomeSurvivor
    <3>1. 1 \in Slots  BY SlotCountAssumption DEF Slots
    <3>2. Survivor(1)  BY <3>1 DEF Init, Survivor
    <3> QED  BY <3>1, <3>2 DEF SomeSurvivor
  <2> QED
    BY <2>1, <2>2 DEF Init, IInv, ClaimsAreBusy, LockedIsIdle, PresentFollowsUp, SerialsMatch
<1>2. IInv /\ [Next]_vars => IInv'
  <2> SUFFICES ASSUME IInv, [Next]_vars PROVE IInv'  OBVIOUS
  <2>0. TypeOK /\ ClaimsAreBusy /\ LockedIsIdle /\ PresentFollowsUp /\ SomeSurvivor /\ SerialsMatch
    BY DEF IInv
  <2>1. CASE LockFramebuffer
    <3>0. PICK s \in Slots :
            FirstIdle(s) /\ (IF Usable(s) THEN UNCHANGED images ELSE CreateSlot(s)) /\ locked' = s
      BY <2>1 DEF LockFramebuffer
    <3>1. UNCHANGED <<busy, frames, waiting, shouldClose, windowSize, claim>>
      BY <2>1 DEF LockFramebuffer
    <3>2. s \notin busy /\ locked' \in Slots  BY <3>0 DEF FirstIdle
    <3>3. LockedIsIdle' /\ SerialsMatch'
      BY <2>0, <3>0, <3>1, <3>2 DEF LockedIsIdle, SerialsMatch, frames
    <3>4. CASE UNCHANGED images
      <4>1. TypeOK'  BY <2>0, <3>1, <3>2, <3>4 DEF TypeOK, images, frames
      <4>2. ClaimsAreBusy' /\ PresentFollowsUp' /\ SomeSurvivor'
        BY <2>0, <3>1, <3>4 DEF ClaimsAreBusy, PresentFollowsUp, SomeSurvivor, Survivor, images
      <4> QED  BY <3>3, <4>1, <4>2 DEF IInv
    <3>5. CASE CreateSlot(s)
      <4>1. TypeOK'
        BY <2>0, <3>1, <3>2, <3>5, CreateSlotFacts DEF TypeOK, frames
      <4>2. ClaimsAreBusy' /\ PresentFollowsUp' /\ SomeSurvivor'
        BY <2>0, <3>1, <3>2, <3>5, CreateSlotFacts, ImageStep
      <4> QED  BY <3>3, <4>1, <4>2 DEF IInv
    <3> QED  BY <3>0, <3>4, <3>5
  <2>2. CASE LockThrows
    <3>0. PICK s \in Slots :
            FirstIdle(s) /\ FallBack /\ kind' = [kind EXCEPT ![s] = "none"]
      BY <2>2 DEF LockThrows
    <3>1. UNCHANGED <<size, busy, locked, frames, waiting, shouldClose, windowSize, claim>>
      BY <2>2 DEF LockThrows
    <3>2. s \notin busy  BY <3>0 DEF FirstIdle
    <3>3. /\ kind' \in [Slots -> Kinds] /\ kind'[s] = "none"
          /\ \A t \in Slots \ {s} : kind'[t] = kind[t]
      BY <2>0, <3>0 DEF TypeOK, Kinds
    <3>4. present' = FALSE /\ shm' \in BOOLEAN  BY <2>0, <3>0 DEF FallBack, TypeOK
    <3>5. ClaimsAreBusy' /\ PresentFollowsUp' /\ SomeSurvivor'
      BY <3>1, <3>2, <3>3, <3>4, ImageStep
    <3>6. TypeOK'  BY <2>0, <3>1, <3>3, <3>4 DEF TypeOK, frames
    <3>7. LockedIsIdle' /\ SerialsMatch'  BY <2>0, <3>1 DEF LockedIsIdle, SerialsMatch, frames
    <3> QED  BY <3>5, <3>6, <3>7 DEF IInv
  <2>3. CASE PresentFramebuffer
    <3>0. /\ locked \in Slots /\ locked' = NoSlot /\ locked \notin busy
          /\ UNCHANGED <<kind, size, shm, present, waiting, shouldClose, windowSize>>
      BY <2>0, <2>3 DEF PresentFramebuffer, TypeOK, LockedIsIdle, images
    <3>1. NoSlot \notin busy' /\ busy' \subseteq Slots
      BY <2>0, <2>3, <3>0, NoSlotAssumption
      DEF PresentFramebuffer, PresentPixmap, PutShm, PutPlain, TypeOK, Slots
    <3>2. LockedIsIdle'  BY <3>0, <3>1 DEF LockedIsIdle
    <3>3. CASE PresentPixmap
      <4>1. NextSerial \in Serials /\ NextSerial # 0 /\ NextSerial \in 0 .. MaxSerial
        BY <2>0, NextSerialIsSerial DEF TypeOK
      <4>2. TypeOK'
        BY <2>0, <3>0, <3>1, <3>3, <4>1 DEF TypeOK, PresentPixmap, Claims
      <4>3. ClaimsAreBusy' /\ PresentFollowsUp'
        BY <2>0, <3>0, <3>3 DEF PresentPixmap, ClaimsAreBusy, PresentFollowsUp, TypeOK
      <4>4. SomeSurvivor'  BY <3>0, <3>3 DEF PresentPixmap, SomeSurvivor
      <4>5. SerialsMatch'  BY <2>0, <3>3 DEF PresentPixmap, SerialsMatch
      <4> QED  BY <3>2, <4>2, <4>3, <4>4, <4>5 DEF IInv
    <3>4. CASE PutShm
      <4>1. TypeOK'  BY <2>0, <3>0, <3>1, <3>4 DEF TypeOK, PutShm, Claims, frames
      <4>2. ClaimsAreBusy' /\ PresentFollowsUp'
        BY <2>0, <3>0, <3>4 DEF PutShm, ClaimsAreBusy, PresentFollowsUp, TypeOK
      <4>3. SomeSurvivor'
        BY <2>0, <3>0, <3>4 DEF PutShm, SomeSurvivor, Survivor, TypeOK
      <4>4. SerialsMatch'  BY <2>0, <3>4 DEF PutShm, SerialsMatch, frames
      <4> QED  BY <3>2, <4>1, <4>2, <4>3, <4>4 DEF IInv
    <3>5. CASE PutPlain
      <4>1. UNCHANGED <<busy, claim, serial, pending, uncompleted, completed>>
        BY <3>5 DEF PutPlain, frames
      <4> QED
        BY <2>0, <3>0, <3>2, <4>1 DEF IInv, TypeOK, ClaimsAreBusy, PresentFollowsUp, SomeSurvivor,
                                     Survivor, SerialsMatch
    <3> QED  BY <2>3, <3>3, <3>4, <3>5 DEF PresentFramebuffer
  <2>4. CASE SwapBuffers \/ WaitEnds \/ WaitTimeout \/ Close \/ HandleConfigure \/ UNCHANGED vars
    <3>1. /\ UNCHANGED <<images, busy, locked, serial, uncompleted, completed, claim>>
          /\ pending' \in {0, pending}
          /\ waiting' \in BOOLEAN /\ shouldClose' \in BOOLEAN /\ windowSize' \in Sizes
      BY <2>0, <2>4
      DEF SwapBuffers, WaitEnds, WaitTimeout, Close, HandleConfigure, vars, frames, TypeOK
    <3>2. TypeOK'  BY <2>0, <3>1, MaxSerialAssumption DEF TypeOK, images
    <3> QED
      BY <2>0, <3>1, <3>2 DEF IInv, ClaimsAreBusy, LockedIsIdle, PresentFollowsUp, SomeSurvivor,
                              Survivor, SerialsMatch, images
  <2>5. CASE HandleIdle \/ HandleShmDone
    <3>0. PICK s \in Slots :
            claim[s] \in {"idle", "done"} /\ claim' = [claim EXCEPT ![s] = "none"] /\ busy' = busy \ {s}
      BY <2>5 DEF HandleIdle, HandleShmDone
    <3>1. UNCHANGED <<images, locked, frames, waiting, shouldClose, windowSize>>
      BY <2>5 DEF HandleIdle, HandleShmDone
    <3>2. TypeOK'  BY <2>0, <3>0, <3>1 DEF TypeOK, Claims, images, frames
    <3>3. ClaimsAreBusy' /\ PresentFollowsUp' /\ LockedIsIdle' /\ SerialsMatch'
      BY <2>0, <3>0, <3>1
      DEF ClaimsAreBusy, PresentFollowsUp, LockedIsIdle, SerialsMatch, TypeOK, images, frames
    <3>4. SomeSurvivor'
      BY <2>0, <3>0, <3>1 DEF SomeSurvivor, Survivor, TypeOK, images
    <3> QED  BY <3>2, <3>3, <3>4 DEF IInv
  <2>6. CASE DropPresentEvent
    <3>0. /\ ~present /\ UNCHANGED <<images, busy, locked, serial, pending, uncompleted>>
          /\ UNCHANGED <<waiting, shouldClose, windowSize>>
          /\ completed' \subseteq completed
      BY <2>6 DEF DropPresentEvent
    <3>1. \/ UNCHANGED claim
          \/ \E s \in Slots : claim[s] = "idle" /\ claim' = [claim EXCEPT ![s] = "none"]
      BY <2>6 DEF DropPresentEvent
    <3>2. /\ claim' \in [Slots -> Claims]
          /\ \A s \in Slots : claim'[s] = claim[s] \/ (claim[s] = "idle" /\ claim'[s] = "none")
      BY <2>0, <3>1 DEF TypeOK, Claims
    <3>3. TypeOK'  BY <2>0, <3>0, <3>2 DEF TypeOK, images
    <3>4. ClaimsAreBusy' /\ PresentFollowsUp' /\ LockedIsIdle' /\ SerialsMatch'
      BY <2>0, <3>0, <3>2
      DEF ClaimsAreBusy, PresentFollowsUp, LockedIsIdle, SerialsMatch, images
    <3>5. SomeSurvivor'
      BY <2>0, <3>0, <3>2 DEF SomeSurvivor, Survivor, images
    <3> QED  BY <3>3, <3>4, <3>5 DEF IInv
  <2>7. CASE HandleComplete \/ ReportComplete
    <3>0. UNCHANGED <<images, busy, locked, serial, waiting, shouldClose, windowSize, claim>>
      BY <2>7 DEF HandleComplete, ReportComplete
    <3>1. PICK n \in Serials :
            \/ /\ n \in completed /\ completed' = completed \ {n}
               /\ pending' \in {0, pending} /\ UNCHANGED uncompleted
            \/ /\ n \in uncompleted /\ uncompleted' = uncompleted \ {n}
               /\ completed' = completed \cup {n} /\ UNCHANGED pending
      BY <2>0, <2>7 DEF HandleComplete, ReportComplete, TypeOK
    <3>2. TypeOK'  BY <2>0, <3>0, <3>1, MaxSerialAssumption DEF TypeOK, images
    <3>3. SerialsMatch'  BY <2>0, <3>0, <3>1 DEF SerialsMatch
    <3> QED
      BY <2>0, <3>0, <3>2, <3>3 DEF IInv, ClaimsAreBusy, LockedIsIdle, PresentFollowsUp,
                                    SomeSurvivor, Survivor, images
  <2>8. CASE ReportRead
    <3>0. UNCHANGED <<images, busy, locked, frames, waiting, shouldClose, windowSize>>
      BY <2>8 DEF ReportRead
    <3>1. PICK s \in Slots :
            \/ claim[s] = "present" /\ claim' = [claim EXCEPT ![s] = "idle"]
            \/ claim[s] = "shm" /\ claim' = [claim EXCEPT ![s] = "done"]
      BY <2>8 DEF ReportRead
    <3>2. TypeOK'  BY <2>0, <3>0, <3>1 DEF TypeOK, Claims, images, frames
    <3>3. ClaimsAreBusy' /\ PresentFollowsUp' /\ LockedIsIdle' /\ SerialsMatch'
      BY <2>0, <3>0, <3>1
      DEF ClaimsAreBusy, PresentFollowsUp, LockedIsIdle, SerialsMatch, TypeOK, images, frames
    <3>4. SomeSurvivor'
      BY <2>0, <3>0, <3>1 DEF SomeSurvivor, Survivor, TypeOK, images
    <3> QED  BY <3>2, <3>3, <3>4 DEF IInv
  <2> QED
    BY <2>1, <2>2, <2>3, <2>4, <2>5, <2>6, <2>7, <2>8 DEF Next, HandleRead
<1> QED  BY <1>1, <1>2, PTL DEF Spec

\* The application never draws in a slot the server may be reading, whichever of the
\* three ways each frame is presented in (lockFramebuffer, presentFramebuffer).
THEOREM FramesImplemented == Spec => ImplementsFrames
<1>1. Init => Frames!Init
  BY DEF Init, Frames!Init
<1>2. IInv /\ [Next]_vars => [Frames!Next]_Frames!vars
  <2> SUFFICES ASSUME IInv, [Next]_vars PROVE [Frames!Next]_Frames!vars  OBVIOUS
  <2> DEFINE read == {s \in Slots : claim[s] \in {"present", "shm"}}
  <2>0. /\ TypeOK /\ ClaimsAreBusy
        /\ Frames!vars = <<locked, read>>
    BY DEF IInv, Frames!vars
  <2>1. CASE LockFramebuffer
    <3>1. locked' \in Slots \ read /\ UNCHANGED read
      BY <2>0, <2>1 DEF LockFramebuffer, FirstIdle, ClaimsAreBusy
    <3> QED  BY <3>1 DEF Frames!Next, Frames!Acquire
  <2>2. CASE PresentFramebuffer
    <3>1. locked # NoSlot /\ locked' = NoSlot /\ locked \in Slots
      BY <2>0, <2>2 DEF PresentFramebuffer, TypeOK
    <3>2. CASE PresentPixmap \/ PutShm
      <4>1. read' = read \cup {locked}
        BY <2>0, <3>1, <3>2 DEF PresentPixmap, PutShm, TypeOK
      <4> QED  BY <3>1, <4>1 DEF Frames!Next, Frames!Submit
    <3>3. CASE PutPlain
      <4>1. read' = read  BY <3>3 DEF PutPlain
      <4> QED  BY <3>1, <4>1 DEF Frames!Next, Frames!Replace
    <3> QED  BY <2>2, <3>2, <3>3 DEF PresentFramebuffer
  <2>3. CASE ReportRead \/ HandleIdle \/ HandleShmDone \/ DropPresentEvent
    <3>1. UNCHANGED locked
      BY <2>3 DEF ReportRead, HandleIdle, HandleShmDone, DropPresentEvent
    <3>2. read' \subseteq read
      BY <2>0, <2>3 DEF ReportRead, HandleIdle, HandleShmDone, DropPresentEvent, TypeOK
    <3> QED  BY <3>1, <3>2 DEF Frames!Next, Frames!Release
  <2>4. CASE \/ LockThrows \/ SwapBuffers \/ WaitEnds \/ WaitTimeout \/ Close
             \/ HandleComplete \/ HandleConfigure \/ ReportComplete \/ UNCHANGED vars
    <3>1. UNCHANGED <<locked, claim>>
      BY <2>4 DEF LockThrows, SwapBuffers, WaitEnds, WaitTimeout, Close, HandleComplete,
                  HandleConfigure, ReportComplete, vars
    <3>2. read' = read  BY <3>1
    <3> QED  BY <2>0, <3>1, <3>2 DEF Frames!vars
  <2> QED
    BY <2>1, <2>2, <2>3, <2>4 DEF Next, HandleRead
<1> QED  BY <1>1, <1>2, Invariance, PTL DEF Spec, ImplementsFrames, Frames!Spec

\* Every handler leaves images, flags, serials and claims what they are meant to be.
THEOREM TypeCorrectness == Spec => []TypeOK
<1>1. IInv => TypeOK  BY DEF IInv
<1> QED  BY <1>1, Invariance, PTL

\* At any time a slot is in use or will be given back, however often the images, the
\* segments and Present itself fail in createSlot().
THEOREM OneSlotSurvives == Spec => []NotAllStuck
<1>1. IInv => NotAllStuck
  <2> SUFFICES ASSUME IInv PROVE NotAllStuck  OBVIOUS
  <2>1. CASE present
    <3>1. 1 \in Slots  BY SlotCountAssumption DEF Slots
    <3>2. ~Stuck(1)
      BY <2>1, <3>1 DEF IInv, PresentFollowsUp, Stuck, TypeOK, Claims
    <3> QED  BY <3>1, <3>2 DEF NotAllStuck
  <2>2. CASE ~present
    BY <2>2 DEF IInv, SomeSurvivor, Survivor, Stuck, NotAllStuck
  <2> QED  BY <2>1, <2>2
<1> QED  BY <1>1, Invariance, PTL

\* Only the step of createSlot() that gives Present up can leave a slot busy for good.
THEOREM OnlyCreateSlotStrands == Spec => OnlyLosingPresentStrands
<1> DEFINE A == \A s \in Slots : Stuck(s)' /\ ~Stuck(s) => present /\ ~present'
<1>1. IInv /\ IInv' /\ [Next]_vars => [A]_vars
  <2> SUFFICES ASSUME IInv, IInv', Next, NEW s \in Slots, Stuck(s)', ~Stuck(s)
               PROVE  present /\ ~present'
    BY DEF Stuck, vars, images, frames
  <2>1. ~present'
    BY DEF IInv, PresentFollowsUp, Stuck, TypeOK, Claims
  <2>2. ASSUME ~present PROVE FALSE
    <3>1. s \in busy' /\ claim'[s] \notin {"shm", "done"}  BY DEF Stuck
    <3>2. s \notin busy \/ claim[s] \in {"shm", "done"}  BY <2>2 DEF Stuck
    <3>3. UNCHANGED <<busy, claim>> => FALSE  BY <3>1, <3>2
    <3>4. CASE PresentFramebuffer
      <4>1. claim \in [Slots -> Claims]  BY DEF IInv, TypeOK
      <4>2. PutShm
        BY <2>2, <3>3, <3>4 DEF PresentFramebuffer, PresentPixmap, PutPlain
      <4> QED  BY <3>1, <3>2, <4>1, <4>2 DEF PutShm
    <3>5. CASE HandleIdle \/ HandleShmDone
      <4>1. claim \in [Slots -> Claims]  BY DEF IInv, TypeOK
      <4> QED  BY <3>1, <3>2, <3>5, <4>1 DEF HandleIdle, HandleShmDone
    <3>6. CASE DropPresentEvent \/ ReportRead
      <4>1. claim \in [Slots -> Claims]  BY DEF IInv, TypeOK
      <4> QED  BY <3>1, <3>2, <3>6, <4>1 DEF DropPresentEvent, ReportRead
    <3>7. CASE \/ LockFramebuffer \/ LockThrows \/ SwapBuffers \/ WaitEnds \/ WaitTimeout
               \/ Close \/ HandleComplete \/ HandleConfigure \/ ReportComplete
      BY <3>3, <3>7 DEF LockFramebuffer, LockThrows, SwapBuffers, WaitEnds, WaitTimeout, Close,
                        HandleComplete, HandleConfigure, ReportComplete
    <3> QED  BY <3>4, <3>5, <3>6, <3>7 DEF Next, HandleRead
  <2> QED  BY <2>1, <2>2
<1> QED  BY <1>1, Invariance, PTL DEF Spec, OnlyLosingPresentStrands

\* The wait of swapBuffers() ends with the newest frame or with its limit.
THEOREM WaitsForItsFrame == Spec => WaitEndsWithItsFrame
<1> DEFINE A == pending # 0 /\ pending' = 0 => serial \notin uncompleted \/ WaitTimeout
<1>1. IInv /\ [Next]_vars => [A]_vars
  <2> SUFFICES ASSUME IInv, Next, pending # 0, pending' = 0, ~WaitTimeout
               PROVE  serial \notin uncompleted
    OBVIOUS
  <2>1. CASE HandleComplete
    <3>1. pending \in completed  BY <2>1 DEF HandleComplete
    <3> QED  BY <3>1 DEF IInv, SerialsMatch
  <2>2. CASE PresentFramebuffer
    <3>1. serial \in 0 .. MaxSerial  BY DEF IInv, TypeOK
    <3>2. NextSerial # 0  BY <3>1, NextSerialIsSerial
    <3> QED
      BY <2>2, <3>2 DEF PresentFramebuffer, PresentPixmap, PutShm, PutPlain, frames
  <2>3. CASE \/ LockFramebuffer \/ LockThrows \/ SwapBuffers \/ WaitEnds \/ Close \/ HandleRead
             \/ HandleConfigure \/ ReportRead \/ ReportComplete
    BY <2>3 DEF LockFramebuffer, LockThrows, SwapBuffers, WaitEnds, Close, HandleRead, HandleIdle,
                HandleShmDone, DropPresentEvent, HandleConfigure, ReportRead, ReportComplete, frames
  <2> QED  BY <2>1, <2>2, <2>3 DEF Next
<1> QED  BY <1>1, Invariance, PTL DEF Spec, WaitEndsWithItsFrame

=============================================================================
