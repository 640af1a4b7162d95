----------------------------- MODULE CaptionGesture -----------------------------
(***************************************************************************)
(* detail::CaptionGesture (WindowHit.hpp): what a press on the title bar   *)
(* becomes.  A gesture is [pending, armed]: each is empty or holds one     *)
(* press, [at, age].  Positions are numbers on a line, ages are ticks; a   *)
(* press that is too old to be part of a double click is dropped from      *)
(* armed, where nobody would look at it again.                             *)
(***************************************************************************)
EXTENDS Integers

CONSTANTS
  Points,         \* the positions of the pointer
  Slop,           \* kSlop
  DragThreshold,  \* kDragThreshold
  Interval        \* kInterval

GestureAssumption ==
  /\ Points \subseteq Nat /\ Points # {}
  /\ Slop \in Nat /\ DragThreshold \in Nat /\ Interval \in Nat

Ages == 0 .. Interval + 1
ClickSets == {{}} \cup {{click} : click \in [at : Points, age : Ages]}
Gestures == [pending : ClickSets, armed : ClickSets]

Idle == [pending |-> {}, armed |-> {}]
Click(p) == {[at |-> p, age |-> 0]}

Distance(p, q) == IF p <= q THEN q - p ELSE p - q

ArmedNear(g, p) == \E click \in g.armed : click.age <= Interval /\ Distance(click.at, p) <= Slop

\* press(): true is a double click.
IsDoubleClick(g, p) == ArmedNear(g, p)
Press(g, p) == IF IsDoubleClick(g, p) THEN Idle ELSE [g EXCEPT !.pending = Click(p)]

\* moved(): true starts the move.
Travels(g, p) == \E click \in g.pending : Distance(click.at, p) >= DragThreshold
Moved(g, p) == IF Travels(g, p) THEN Idle ELSE g

\* released() arms the click at the time of its press, clicked() at the time of the call.
Released(g) == IF g.pending = {} THEN g ELSE [pending |-> {}, armed |-> g.pending]
Clicked(g, p) == [g EXCEPT !.armed = Click(p)]

Cancelled(g) == Idle

\* A tick of the clock.
Older(clicks) == {[click EXCEPT !.age = IF @ > Interval THEN @ ELSE @ + 1] : click \in clicks}
Aged(g) ==
  [pending |-> Older(g.pending), armed |-> {click \in Older(g.armed) : click.age <= Interval}]

=============================================================================
