--------------------------- MODULE SoftwareFrames ---------------------------
(***************************************************************************)
(* What lockFramebuffer() and presentFramebuffer() promise on a backend    *)
(* that draws in shared memory (IWindowManager.hpp, lines 230-240, and the *)
(* comments of the Wayland and X11 backends): a buffer is either the       *)
(* application's to draw in, or the display server's to read, or free, and *)
(* the application is only ever handed a free one.                         *)
(***************************************************************************)
CONSTANTS
  Buffers,
  NoBuffer

VARIABLES
  drawing,   \* the buffer handed to the application and not presented yet
  shown      \* the buffers the display server may be reading

vars == <<drawing, shown>>

Init ==
  /\ drawing = NoBuffer
  /\ shown = {}

\* lockFramebuffer(); a second lock may hand out another free buffer.
Acquire ==
  /\ drawing' \in Buffers \ shown
  /\ UNCHANGED shown

\* presentFramebuffer()
Submit ==
  /\ drawing # NoBuffer
  /\ shown' = shown \cup {drawing}
  /\ drawing' = NoBuffer

\* The server is done with a buffer, or the buffers are given up.
Release ==
  /\ shown' \in SUBSET shown
  /\ UNCHANGED drawing

\* What was being drawn is not going to be read: it was copied, or the buffers were
\* replaced.  The replaced ones may be given up in the same step.
Replace ==
  /\ drawing' = NoBuffer
  /\ shown' \in SUBSET shown

Next == Acquire \/ Submit \/ Release \/ Replace

Spec == Init /\ [][Next]_vars

=============================================================================
