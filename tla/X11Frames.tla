------------------------------ MODULE X11Frames ------------------------------
(***************************************************************************)
(* The software-rendering path of the X11 backend: the slots presented as  *)
(* pixmaps (X Present), through MIT-SHM or copied through the socket,      *)
(* lockFramebuffer(), presentFramebuffer(), swapBuffers()' wait and the    *)
(* server's reports (src/src/backends/x11/X11WindowManager.cpp).           *)
(*                                                                         *)
(* The client is one thread.  The server is external: it is done with a    *)
(* slot, completes a frame and resizes the window at any time.  Reports on *)
(* their way are sets, so they are dispatched in every order, the order    *)
(* the server sent them in included.                                       *)
(***************************************************************************)
EXTENDS Naturals

CONSTANTS
  SlotCount,   \* the size of slots_
  NoSlot,
  Sizes,       \* the sizes the window can have
  MaxSerial    \* the last serial before the wrap: 2^32 - 1 in the code

ASSUME SlotCountAssumption == SlotCount \in Nat \ {0}
ASSUME NoSlotAssumption == NoSlot \notin 1 .. SlotCount
ASSUME MaxSerialAssumption == MaxSerial \in Nat \ {0}

Slots == 1 .. SlotCount
Serials == 1 .. MaxSerial

VARIABLES
  kind,        \* what image a slot has: "none", "plain", "shm", or "pixmap" (shm as well)
  size,        \* the size of that image
  busy,        \* the slots whose busy flag is set
  locked,      \* locked_
  shm,         \* shmCompletion_ >= 0 /\ ~shmRejected_
  present,     \* presentOpcode_ >= 0
  serial,      \* presentSerial_
  pending,     \* presentPending_
  waiting,     \* the client is inside waitForPresent(), with a frame to wait for
  shouldClose, \* windowShouldClose_
  windowSize,  \* windowDetails_.width and height
  claim,       \* server: how it holds a slot, or which report about it is on its way
  uncompleted, \* server: the presented frames it has yet to show
  completed    \* the CompleteNotify events on their way

images == <<kind, size, shm, present>>
frames == <<serial, pending, uncompleted, completed>>
vars == <<images, busy, locked, frames, waiting, shouldClose, windowSize, claim>>

Kinds == {"none", "plain", "shm", "pixmap"}

\* The server reads a "present" or "shm" slot; "idle" and "done" are the reports it
\* sends when it no longer does, PresentIdleNotify and ShmCompletion.
Claims == {"none", "present", "idle", "shm", "done"}

TypeOK ==
  /\ kind \in [Slots -> Kinds]
  /\ size \in [Slots -> Sizes]
  /\ busy \subseteq Slots
  /\ locked \in Slots \cup {NoSlot}
  /\ shm \in BOOLEAN /\ present \in BOOLEAN
  /\ serial \in 0 .. MaxSerial
  /\ pending \in 0 .. MaxSerial
  /\ waiting \in BOOLEAN /\ shouldClose \in BOOLEAN
  /\ windowSize \in Sizes
  /\ claim \in [Slots -> Claims]
  /\ uncompleted \subseteq Serials
  /\ completed \subseteq Serials

\* createWindow(): Present is only set up over MIT-SHM; no slot has an image yet.
Init ==
  /\ kind = [s \in Slots |-> "none"]
  /\ size \in {[s \in Slots |-> z] : z \in Sizes}
  /\ busy = {} /\ locked = NoSlot
  /\ shm \in BOOLEAN /\ present \in BOOLEAN /\ (present => shm)
  /\ serial = 0 /\ pending = 0
  /\ waiting = FALSE /\ shouldClose = FALSE
  /\ windowSize \in Sizes
  /\ claim = [s \in Slots |-> "none"]
  /\ uncompleted = {} /\ completed = {}

-----------------------------------------------------------------------------
(* Plausible mistakes in the helpers below: the runs are known to catch them. *)

\* lockFramebuffer() draws in the first slot, whoever holds it.
FirstSlot(s) == s = 1

\* The wrap of a u32.
SerialWrapsToZero == (serial + 1) % (MaxSerial + 1)

-----------------------------------------------------------------------------
(* Helpers of the client.                                                   *)

FirstIdle(s) == s \notin busy /\ \A t \in Slots \ busy : s <= t

Usable(s) == kind[s] # "none" /\ size[s] = windowSize

\* createSlot() gives up shared memory for this slot, or, rejected, for all.
FallBack ==
  /\ present' = FALSE
  /\ shm' \in {shm, FALSE}

\* createSlot(), the slot's old image destroyed.  A segment that the server does not
\* take as a pixmap ends Present for the window.
CreateSlot(s) ==
  /\ size' = [size EXCEPT ![s] = windowSize]
  /\ \/ /\ shm /\ present
        /\ kind' = [kind EXCEPT ![s] = "pixmap"]
        /\ UNCHANGED <<shm, present>>
     \/ /\ shm
        /\ kind' = [kind EXCEPT ![s] = "shm"]
        /\ present' = FALSE
        /\ UNCHANGED shm
     \/ /\ FallBack
        /\ kind' = [kind EXCEPT ![s] = "plain"]

\* Serial 0 means "none pending": the wrap skips it.
NextSerial == IF serial = MaxSerial THEN 1 ELSE serial + 1

-----------------------------------------------------------------------------
(* Plausible mistakes in the code below: the runs are known to catch them.  *)

\* presentFramebuffer() looks at the slot's pixmap only.
PresentUnchecked ==
  /\ kind[locked] = "pixmap"
  /\ serial' = NextSerial /\ NextSerial \notin completed
  /\ pending' = NextSerial
  /\ uncompleted' = uncompleted \cup {NextSerial}
  /\ busy' = busy \cup {locked}
  /\ claim' = [claim EXCEPT ![locked] = "present"]
  /\ UNCHANGED completed

\* XPutImage is waited for as the other requests are.
PutPlainBusy ==
  /\ kind[locked] = "plain"
  /\ busy' = busy \cup {locked}
  /\ UNCHANGED <<claim, frames>>

\* Any CompleteNotify ends the wait.
CompleteClearsAny ==
  /\ present
  /\ \E n \in completed :
       /\ completed' = completed \ {n}
       /\ pending' = 0
  /\ UNCHANGED <<images, busy, locked, serial, waiting, shouldClose, windowSize, claim, uncompleted>>

\* waitForPresent() without its limit.
WaitUnlimited ==
  /\ waiting /\ pending # 0 /\ shouldClose
  /\ pending' = 0 /\ waiting' = FALSE
  /\ UNCHANGED <<images, busy, locked, serial, shouldClose, windowSize, claim, uncompleted, completed>>

-----------------------------------------------------------------------------
(* The client's calls.                                                      *)

\* lockFramebuffer(); with every slot busy it returns no framebuffer.
LockFramebuffer ==
  /\ ~waiting
  /\ \E s \in Slots :
       /\ FirstIdle(s)
       /\ IF Usable(s) THEN UNCHANGED images ELSE CreateSlot(s)
       /\ locked' = s
  /\ UNCHANGED <<busy, frames, waiting, shouldClose, windowSize, claim>>

\* createSlot() throws: the old image is gone, and locked_ is as it was.
LockThrows ==
  /\ ~waiting
  /\ \E s \in Slots :
       /\ FirstIdle(s) /\ ~Usable(s)
       /\ FallBack
       /\ kind' = [kind EXCEPT ![s] = "none"]
  /\ UNCHANGED <<size, busy, locked, frames, waiting, shouldClose, windowSize, claim>>

\* XPresentPixmap.  A serial comes round again long after its last completion was
\* dispatched; one that a stalled output still owes is then owed for good.
PresentPixmap ==
  /\ kind[locked] = "pixmap" /\ present
  /\ serial' = NextSerial /\ NextSerial \notin completed
  /\ pending' = NextSerial
  /\ uncompleted' = uncompleted \cup {NextSerial}
  /\ busy' = busy \cup {locked}
  /\ claim' = [claim EXCEPT ![locked] = "present"]
  /\ UNCHANGED completed

\* XShmPutImage
PutShm ==
  /\ kind[locked] = "shm" \/ (kind[locked] = "pixmap" /\ ~present)
  /\ busy' = busy \cup {locked}
  /\ claim' = [claim EXCEPT ![locked] = "shm"]
  /\ UNCHANGED frames

\* XPutImage copies the pixels into the request.
PutPlain ==
  /\ kind[locked] = "plain"
  /\ UNCHANGED <<busy, claim, frames>>

\* presentFramebuffer(); without a locked slot it does nothing, and with one that
\* lost its image it follows a null pointer.
PresentFramebuffer ==
  /\ ~waiting
  /\ locked # NoSlot
  /\ locked' = NoSlot
  /\ PresentPixmap \/ PutShm \/ PutPlain
  /\ UNCHANGED <<images, waiting, shouldClose, windowSize>>

\* swapBuffers(), that is waitForPresent().  With nothing pending it only dispatches.
SwapBuffers ==
  /\ ~waiting
  /\ present /\ pending # 0 /\ ~shouldClose
  /\ waiting' = TRUE
  /\ UNCHANGED <<images, busy, locked, frames, shouldClose, windowSize, claim>>

\* The loop's condition no longer holds.
WaitEnds ==
  /\ waiting /\ (pending = 0 \/ shouldClose)
  /\ waiting' = FALSE
  /\ UNCHANGED <<images, busy, locked, frames, shouldClose, windowSize, claim>>

\* The limit of 100 ms is over.
WaitTimeout ==
  /\ waiting /\ pending # 0 /\ ~shouldClose
  /\ pending' = 0 /\ waiting' = FALSE
  /\ UNCHANGED <<images, busy, locked, serial, shouldClose, windowSize, claim, uncompleted, completed>>

\* close(), by the application or for a WM_DELETE_WINDOW message.
Close ==
  /\ shouldClose' = TRUE
  /\ UNCHANGED <<images, busy, locked, frames, waiting, windowSize, claim>>

-----------------------------------------------------------------------------
(* pollEvents(), by the application or inside the wait.                     *)

\* PresentIdleNotify: the slot with that pixmap is free.
HandleIdle ==
  /\ present
  /\ \E s \in Slots :
       /\ claim[s] = "idle"
       /\ claim' = [claim EXCEPT ![s] = "none"]
       /\ busy' = busy \ {s}
  /\ UNCHANGED <<images, locked, frames, waiting, shouldClose, windowSize>>

\* PresentCompleteNotify
HandleComplete ==
  /\ present
  /\ \E n \in completed :
       /\ completed' = completed \ {n}
       /\ pending' = IF pending = n THEN 0 ELSE pending
  /\ UNCHANGED <<images, busy, locked, serial, waiting, shouldClose, windowSize, claim, uncompleted>>

\* Without an opcode to compare with, a Present event is not recognised.
DropPresentEvent ==
  /\ ~present
  /\ \/ /\ \E s \in Slots : claim[s] = "idle" /\ claim' = [claim EXCEPT ![s] = "none"]
        /\ UNCHANGED completed
     \/ /\ \E n \in completed : completed' = completed \ {n}
        /\ UNCHANGED claim
  /\ UNCHANGED <<images, busy, locked, serial, pending, uncompleted, waiting, shouldClose, windowSize>>

\* ShmCompletion: the slot with that segment is free.
HandleShmDone ==
  /\ \E s \in Slots :
       /\ claim[s] = "done"
       /\ claim' = [claim EXCEPT ![s] = "none"]
       /\ busy' = busy \ {s}
  /\ UNCHANGED <<images, locked, frames, waiting, shouldClose, windowSize>>

\* ConfigureNotify: the slots are resized when they are locked.
HandleConfigure ==
  /\ windowSize' \in Sizes
  /\ UNCHANGED <<images, busy, locked, frames, waiting, shouldClose, claim>>

-----------------------------------------------------------------------------
(* The server.                                                              *)

\* It has read a slot for the last time, and says so.
ReportRead ==
  /\ \E s \in Slots :
       \/ claim[s] = "present" /\ claim' = [claim EXCEPT ![s] = "idle"]
       \/ claim[s] = "shm" /\ claim' = [claim EXCEPT ![s] = "done"]
  /\ UNCHANGED <<images, busy, locked, frames, waiting, shouldClose, windowSize>>

\* A frame was shown, or skipped for a later one.
ReportComplete ==
  /\ \E n \in uncompleted :
       /\ uncompleted' = uncompleted \ {n}
       /\ completed' = completed \cup {n}
  /\ UNCHANGED <<images, busy, locked, serial, pending, waiting, shouldClose, windowSize, claim>>

-----------------------------------------------------------------------------
HandleRead == HandleIdle \/ HandleShmDone \/ DropPresentEvent

Next ==
  \/ LockFramebuffer \/ LockThrows \/ PresentFramebuffer
  \/ SwapBuffers \/ WaitEnds \/ WaitTimeout \/ Close
  \/ HandleRead \/ HandleComplete \/ HandleConfigure
  \/ ReportRead \/ ReportComplete

Spec == Init /\ [][Next]_vars

\* The application goes on locking and presenting, waits end, and the server gives
\* back what it reads.  Nothing is assumed of CompleteNotify: a stalled output may
\* never send it.
Fairness ==
  /\ SF_vars(LockFramebuffer)
  /\ SF_vars(PresentFramebuffer)
  /\ WF_vars(WaitEnds \/ WaitTimeout)
  /\ WF_vars(HandleShmDone)
  /\ WF_vars(HandleIdle)
  /\ WF_vars(HandleComplete)
  /\ WF_vars(ReportRead)

FairSpec == Spec /\ Fairness

-----------------------------------------------------------------------------
(* Properties.                                                              *)

\* "Two slots, so the next frame is drawn while the server still reads the last"
\* (X11WindowManager.hpp, lines 91-92): whichever way a slot is presented, resized or
\* given back, the application never draws in one the server may be reading.
Frames == INSTANCE SoftwareFrames WITH
  Buffers <- Slots,
  NoBuffer <- NoSlot,
  drawing <- locked,
  shown <- {s \in Slots : claim[s] \in {"present", "shm"}}

ImplementsFrames == Frames!Spec

\* Marked busy, and no report that pollEvents() would act on is to come.
Stuck(s) ==
  /\ s \in busy
  /\ claim[s] \notin {"shm", "done"}
  /\ ~(present /\ claim[s] \in {"present", "idle"})

\* However often Present, MIT-SHM and the images fail, one slot stays in use: the
\* window does not stop drawing for good.
NotAllStuck == \E s \in Slots : ~Stuck(s)

\* A slot is lost only in the step that gives up Present (createSlot), never by a way
\* of presenting that the poll loop does not follow up.
OnlyLosingPresentStrands ==
  [][\A s \in Slots : Stuck(s)' /\ ~Stuck(s) => present /\ ~present']_vars

\* The wait for the display ends because the newest frame was shown or the limit is
\* over: a late completion of an older frame, on either side of a serial wrap, does
\* not let the rasterizer run ahead (waitForPresent, handlePresentEvent).
WaitEndsWithItsFrame ==
  [][pending # 0 /\ pending' = 0 => serial \notin uncompleted \/ WaitTimeout]_vars

\* The application is always given a frame again and gets to present it, on a stalled output too: "A window
\* the server never completes for [...] still ticks, slowly, instead of freezing"
\* (X11WindowManager.cpp, line 708).
FramesKeepComing == []<>(locked # NoSlot) /\ []<>(locked = NoSlot)

=============================================================================
