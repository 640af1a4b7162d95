------------------------------- MODULE SdlSurface -------------------------------
(***************************************************************************)
(* The native surface of an SDL window on Android (SdlWindowManager.cpp    *)
(* 276-297, 381-391 and 393-449): the system takes it away and gives       *)
(* another while the process lives. SDL's copy of it follows only when     *)
(* events are pumped; pollEvents() compares that copy before it pumps, and *)
(* waitUntilWindowReady() pumps until it stops changing.                   *)
(***************************************************************************)
EXTENDS Naturals

CONSTANTS
  Surfaces,    \* the surfaces the system gives, one after another
  Extents,     \* sizes of a surface; 0 while it has none
  Attempts,    \* kMaxAttempts
  StablePolls  \* kRequiredStablePolls

None == 0
NoExtent == 0
SurfacesAssumption ==
  /\ None \notin Surfaces /\ Surfaces \subseteq Nat /\ \E s \in Surfaces : \A r \in Surfaces : s <= r
  /\ NoExtent \in Extents /\ Extents # {NoExtent}
CountsAssumption == Attempts \in Nat \ {0} /\ StablePolls \in Nat

VARIABLES
  native,  \* the surface the system has, and its size
  cached,  \* SDL's copy, as of the last pump
  last,    \* lastNativeWindow_
  lost,    \* WindowFlags::surfaceLost
  used,    \* the surface the renderer draws to, and how steady it was when it was trusted
  wait,    \* waitUntilWindowReady()
  steady   \* for how many pumps in a row SDL's copy has not changed

vars == <<native, cached, last, lost, used, wait, steady>>

NoSurface == [surface |-> None, extent |-> NoExtent]
NotUsed == [surface |-> None, steady |-> StablePolls]
NotWaiting == [running |-> FALSE, attempt |-> 0, stable |-> 0, last |-> NoSurface]
First == [surface |-> CHOOSE s \in Surfaces : \A r \in Surfaces : s <= r,
          extent |-> CHOOSE e \in Extents : e # NoExtent]

Init ==
  /\ native = First /\ cached = First /\ last = None
  /\ lost = FALSE /\ used = [surface |-> First.surface, steady |-> StablePolls]
  /\ wait = NotWaiting /\ steady = 0

\* The system: the surface goes, a new one comes, or its size becomes known or changes.
SystemChanges ==
  /\ \/ native' = NoSurface
     \/ native.surface = None /\ \E s \in Surfaces, e \in Extents :
          /\ s > used.surface /\ s > last /\ s > cached.surface
          /\ native' = [surface |-> s, extent |-> e]
     \/ native.surface # None /\ \E e \in Extents : native' = [native EXCEPT !.extent = e]
  /\ native' # native
  /\ UNCHANGED <<cached, last, lost, used, wait, steady>>

Pump ==
  /\ cached' = native
  /\ steady' = IF native # cached THEN 0 ELSE IF steady < StablePolls THEN steady + 1 ELSE steady

\* pollEvents() compares first and pumps after.
PollEvents ==
  /\ ~wait.running
  /\ lost' = (lost \/ cached.surface # last)
  /\ last' = cached.surface
  /\ Pump
  /\ UNCHANGED <<native, used, wait>>

(***************************************************************************)
(* The application: it lets go of a lost surface and waits for another.    *)
(***************************************************************************)
IsSurfaceAvailable == cached.surface # None

WaitUntilWindowReady ==
  /\ ~wait.running
  /\ lost \/ (used.surface = None /\ IsSurfaceAvailable)
  /\ lost' = FALSE /\ used' = NotUsed
  /\ wait' = [NotWaiting EXCEPT !.running = TRUE]
  /\ UNCHANGED <<native, cached, last, steady>>

Usable(copy) == copy.surface # None /\ copy.extent # NoExtent
Remembered(copy) == IF Usable(copy) THEN copy ELSE NoSurface
Stable(copy) == IF Usable(copy) /\ copy = wait.last THEN wait.stable + 1 ELSE 0

Attempt ==
  /\ wait.running
  /\ Pump
  /\ IF Stable(cached') >= StablePolls
     THEN wait' = NotWaiting /\ used' = [surface |-> cached'.surface, steady |-> steady']
     ELSE /\ wait' = IF wait.attempt + 1 = Attempts THEN NotWaiting
                     ELSE [wait EXCEPT !.attempt = @ + 1, !.stable = Stable(cached'), !.last = Remembered(cached')]
          /\ UNCHANGED used
  /\ UNCHANGED <<native, last, lost>>

Next == SystemChanges \/ PollEvents \/ WaitUntilWindowReady \/ Attempt

Spec == Init /\ [][Next]_vars

(***************************************************************************)
(* Properties.                                                             *)
(***************************************************************************)
TypeOK ==
  /\ \A s \in {native, cached, wait.last} : s.surface \in Surfaces \cup {None} /\ s.extent \in Extents
  /\ last \in Surfaces \cup {None} /\ used.surface \in Surfaces \cup {None} /\ lost \in BOOLEAN
  /\ wait.attempt \in 0..Attempts /\ wait.stable \in 0..StablePolls /\ steady \in 0..StablePolls

\* A renderer that draws to a surface which has been replaced is told so by the next pollEvents() at
\* the latest, wherever the replacement fell between a poll, the wait and its pumps; and it draws
\* only to a surface that had not changed for kRequiredStablePolls polls.
SurfaceIsCurrent ==
  /\ ~lost /\ last = cached.surface /\ used.surface # None => used.surface = cached.surface
  /\ used.steady >= StablePolls

=============================================================================
