-------------------------- MODULE CallbackHandover --------------------------
(***************************************************************************)
(* What wma::MixCallbackSlot promises, without its lock, its flag and its  *)
(* three slots (src/include/wma/audio/MixCallbackSlot.hpp, class comment). *)
(*                                                                         *)
(* Control threads publish mix callbacks; the audio side plays one at a    *)
(* time.  Publications are numbered in the order they are made.  The       *)
(* promise has three parts:                                                *)
(*   - the audio side only ever moves on to the newest publication;        *)
(*   - the callback that is installed, and the newest one that has not     *)
(*     been adopted yet, stay alive: only the others may be reclaimed;     *)
(*   - nothing is installed or reclaimed under a callback that is running, *)
(*     and everything is dropped at once only while none is.               *)
(***************************************************************************)
EXTENDS Naturals

Nothing == 0          \* no callback: never installed, or moved away

VARIABLES
  newest,    \* number of the latest publication
  current,   \* the publication the audio side has installed, or Nothing
  live,      \* publications whose captured state has not been destroyed
  playing    \* the audio side is inside an invocation

vars == <<newest, current, live, playing>>

Init ==
  /\ newest = 0
  /\ current = Nothing
  /\ live = {}
  /\ playing = FALSE

\* A control thread publishes; what it supersedes before anyone adopted it dies.
Publish ==
  /\ newest' = newest + 1
  /\ \E dead \in SUBSET (live \ {current}) : live' = (live \ dead) \cup {newest'}
  /\ UNCHANGED <<current, playing>>

\* The audio side moves on to the newest publication.  Nothing dies here.
Adopt ==
  /\ ~playing
  /\ newest \in live
  /\ current < newest
  /\ current' = newest
  /\ UNCHANGED <<newest, live, playing>>

\* A control thread destroys what is neither installed nor waiting.
Reclaim ==
  /\ \E dead \in SUBSET (live \ {current, newest}) : live' = live \ dead
  /\ UNCHANGED <<newest, current, playing>>

Begin ==
  /\ ~playing
  /\ playing' = TRUE
  /\ UNCHANGED <<newest, current, live>>

End ==
  /\ playing
  /\ playing' = FALSE
  /\ UNCHANGED <<newest, current, live>>

\* Everything is dropped, while no callback can be running.
Drop ==
  /\ ~playing
  /\ live' = {}
  /\ current' = Nothing
  /\ UNCHANGED <<newest, playing>>

Next == Publish \/ Adopt \/ Reclaim \/ Begin \/ End \/ Drop

Spec == Init /\ [][Next]_vars

=============================================================================
