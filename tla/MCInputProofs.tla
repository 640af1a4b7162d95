------------------------------ MODULE MCInputProofs ------------------------------
(***************************************************************************)
(* Proofs about the run of MCInput: its types, which keys are held and     *)
(* which bindings fire, where presses and releases go, what makes a double *)
(* click or a move, and the image and the capture of the cursor.  Each     *)
(* part of the run has an inductive invariant of its own.                  *)
(*                                                                         *)
(* The pointers' rest on what the queue holds: a client that handles its   *)
(* events late still finds a release only after its press, and an enter    *)
(* only after a leave (Paired below).  The keyboard's rests on a path: the *)
(* held keys, led through the queued events, become the keys the server    *)
(* has told of (KeysLead).                                                 *)
(***************************************************************************)
EXTENDS MCInput, TLAPS

-----------------------------------------------------------------------------
(* Queues of events.                                                        *)

\* Of the first n events of q none is of the types R since one of A, or, where b holds now, at all.
Since(q, n, A, R, b) ==
  \E j \in 0 .. n : (IF j = 0 THEN b ELSE q[j] \in A) /\ \A k \in j + 1 .. n : q[k].type \notin R

\* That is so before every event of the types E, and if end holds, at the end of the queue.
Paired(q, E, A, R, b, end) ==
  /\ \A i \in 1 .. Len(q) : q[i].type \in E => Since(q, i - 1, A, R, b)
  /\ end => Since(q, Len(q), A, R, b)

\* Nothing is queued.
LEMMA PairedEmpty ==
  ASSUME NEW E, NEW A, NEW R, NEW b, NEW end, end => b PROVE Paired(<<>>, E, A, R, b, end)
<1>1. Len(<<>>) = 0 /\ \A i \in 1 .. 0 : FALSE  OBVIOUS
<1>2. end => Since(<<>>, 0, A, R, b)  BY <1>1 DEF Since
<1> QED  BY <1>1, <1>2 DEF Paired

\* What holds now may come to hold, and the demand on the end may go.
LEMMA PairedWeaker ==
  ASSUME NEW q, NEW E, NEW A, NEW R, NEW b, NEW end, NEW c, NEW stop, Paired(q, E, A, R, b, end),
         b => c, stop => end
  PROVE  Paired(q, E, A, R, c, stop)
<1>1. ASSUME NEW n, Since(q, n, A, R, b) PROVE Since(q, n, A, R, c)
  BY <1>1 DEF Since
<1> QED  BY <1>1 DEF Paired

\* The demand on the end may come where it is met.
LEMMA PairedEnd ==
  ASSUME NEW D, NEW q \in Seq(D), NEW E, NEW A, NEW R, NEW b, NEW end, NEW e \in D, Paired(q, E, A, R, b,
         end),
         e.type \in E => end, NEW stop, stop => e \in A \/ (end /\ e.type \notin R)
  PROVE  Paired(Append(q, e), E, A, R, b, stop)
<1> DEFINE n == Len(q)
           t == Append(q, e)
<1>1. n \in Nat /\ Len(t) = n + 1 /\ t[n + 1] = e /\ \A i \in 1 .. n : t[i] = q[i]
  OBVIOUS
<1>2. Paired(q, E, A, R, b, end) /\ (end => Since(q, n, A, R, b))  BY DEF Paired
<1>3. \A i \in 1 .. n : q[i].type \in E => Since(q, i - 1, A, R, b)  BY DEF Paired
<1> HIDE DEF n, t
<1>4. ASSUME NEW m \in 0 .. n, Since(q, m, A, R, b) PROVE Since(t, m, A, R, b)
  <2>1. PICK j \in 0 .. m : (IF j = 0 THEN b ELSE q[j] \in A) /\ \A k \in j + 1 .. m : q[k].type \notin R
    BY <1>4 DEF Since
  <2>2. j # 0 => t[j] = q[j]  BY <1>1
  <2>3. \A k \in j + 1 .. m : t[k] = q[k]  BY <1>1
  <2> QED  BY <2>1, <2>2, <2>3 DEF Since
<1>5. ASSUME NEW i \in 1 .. n + 1, t[i].type \in E PROVE Since(t, i - 1, A, R, b)
  <2>1. i - 1 \in 0 .. n  BY <1>1
  <2>2. CASE i = n + 1
    <3>1. end /\ i - 1 = n  BY <1>1, <1>5, <2>2
    <3> QED  BY <1>2, <1>4, <2>1, <3>1
  <2>3. CASE i # n + 1
    <3>1. i \in 1 .. n  BY <1>1, <2>3
    <3> QED  BY <1>1, <1>3, <1>4, <1>5, <2>1, <3>1
  <2> QED  BY <2>2, <2>3
<1>6. ASSUME stop PROVE Since(t, n + 1, A, R, b)
  <2>1. CASE e \in A
    <3>1. n + 1 \in 0 .. n + 1 /\ n + 1 # 0 /\ \A k \in (n + 1) + 1 .. n + 1 : FALSE  BY <1>1
    <3> QED  BY <1>1, <2>1, <3>1 DEF Since
  <2>2. CASE e \notin A
    <3>1. end /\ e.type \notin R  BY <1>6, <2>2
    <3>2. PICK j \in 0 .. n : (IF j = 0 THEN b ELSE q[j] \in A) /\ \A k \in j + 1 .. n : q[k].type \notin R
      BY <1>2, <3>1 DEF Since
    <3>3. j \in 0 .. n + 1 /\ (j # 0 => t[j] = q[j])  BY <1>1
    <3>4. \A k \in j + 1 .. n + 1 : t[k].type \notin R
      <4> SUFFICES ASSUME NEW k \in j + 1 .. n + 1 PROVE t[k].type \notin R
        OBVIOUS
      <4>1. CASE k = n + 1  BY <1>1, <3>1, <4>1
      <4>2. CASE k # n + 1
        <5>1. k \in j + 1 .. n /\ k \in 1 .. n  BY <1>1, <4>2
        <5> QED  BY <1>1, <3>2, <5>1
      <4> QED  BY <4>1, <4>2
    <3> QED  BY <3>2, <3>3, <3>4 DEF Since
  <2> QED  BY <2>1, <2>2
<1>7. Paired(t, E, A, R, b, stop)  BY <1>1, <1>5, <1>6 DEF Paired
<1> QED  BY <1>7 DEF t

\* The first event is taken.
LEMMA PairedTaken ==
  ASSUME NEW D, NEW q \in Seq(D), q # <<>>, NEW E, NEW A, NEW R, NEW b, NEW end, Paired(q, E, A, R, b, end),
         NEW c, Head(q) \in A => c, b /\ Head(q).type \notin R => c, NEW stop, stop => end
  PROVE  Paired(Tail(q), E, A, R, c, stop)
<1> DEFINE n == Len(q)
           t == Tail(q)
<1>1. n \in Nat \ {0} /\ Len(t) = n - 1 /\ Head(q) = q[1] /\ \A i \in 1 .. n - 1 : t[i] = q[i + 1]
  OBVIOUS
<1>2. (end => Since(q, n, A, R, b)) /\ \A i \in 1 .. n : q[i].type \in E => Since(q, i - 1, A, R, b)
  BY DEF Paired
<1>3. (q[1] \in A => c) /\ (b /\ q[1].type \notin R => c)  BY <1>1
<1> HIDE DEF n, t
<1>4. ASSUME NEW m \in 1 .. n, Since(q, m, A, R, b) PROVE Since(t, m - 1, A, R, c)
  <2>1. PICK j \in 0 .. m : (IF j = 0 THEN b ELSE q[j] \in A) /\ \A k \in j + 1 .. m : q[k].type \notin R
    BY <1>4 DEF Since
  <2>2. ASSUME NEW i \in 0 .. m, i = 0 \/ i = j - 1, j <= i + 1 PROVE \A k \in i + 1 .. m - 1 : t[k].type \notin R
    <3> SUFFICES ASSUME NEW k \in i + 1 .. m - 1 PROVE t[k].type \notin R
      OBVIOUS
    <3>1. k \in 1 .. n - 1 /\ k + 1 \in j + 1 .. m  BY <1>1, <2>2
    <3> QED  BY <1>1, <2>1, <3>1
  <2>3. CASE j \in {0, 1}
    <3>1. c
      <4>1. CASE j = 1  BY <1>3, <2>1, <4>1
      <4>2. CASE j = 0
        <5>1. 1 \in j + 1 .. m  BY <1>1, <4>2
        <5> QED  BY <1>3, <2>1, <4>2, <5>1
      <4> QED  BY <2>3, <4>1, <4>2
    <3>2. 0 \in 0 .. m /\ 0 \in 0 .. m - 1 /\ j <= 0 + 1  BY <1>1, <2>3
    <3>3. \A k \in 0 + 1 .. m - 1 : t[k].type \notin R  BY <2>2, <3>2
    <3> QED  BY <3>1, <3>2, <3>3 DEF Since
  <2>4. CASE j \notin {0, 1}
    <3>1. j - 1 \in 0 .. m - 1 /\ j - 1 # 0 /\ j - 1 \in 1 .. n - 1 /\ j <= (j - 1) + 1 /\ j - 1 \in 0 .. m
          /\ (j - 1) + 1 = j
      BY <1>1, <2>4
    <3>2. t[j - 1] \in A  BY <1>1, <2>1, <2>4, <3>1
    <3>3. \A k \in (j - 1) + 1 .. m - 1 : t[k].type \notin R  BY <2>2, <3>1
    <3> QED  BY <3>1, <3>2, <3>3 DEF Since
  <2> QED  BY <2>3, <2>4
<1>5. ASSUME NEW i \in 1 .. n - 1, t[i].type \in E PROVE Since(t, i - 1, A, R, c)
  <2>1. i + 1 \in 1 .. n /\ (i + 1) - 1 = i /\ i \in 1 .. n  BY <1>1
  <2>2. Since(q, i, A, R, b)  BY <1>1, <1>2, <1>5, <2>1
  <2> QED  BY <1>4, <2>1, <2>2
<1>6. ASSUME stop PROVE Since(t, n - 1, A, R, c)
  <2>1. n \in 1 .. n  BY <1>1
  <2> QED  BY <1>2, <1>4, <1>6, <2>1
<1>7. Paired(t, E, A, R, c, stop)  BY <1>1, <1>5, <1>6 DEF Paired
<1> QED  BY <1>7 DEF t

\* What holds now where the first event is one of E.
LEMMA PairedNow ==
  ASSUME NEW D, NEW q \in Seq(D), q # <<>>, NEW E, NEW A, NEW R, NEW b, NEW end, Paired(q, E, A, R, b, end),
         Head(q).type \in E
  PROVE  b
<1>1. Len(q) \in Nat \ {0} /\ Head(q) = q[1]  OBVIOUS
<1>2. 1 \in 1 .. Len(q) /\ 1 - 1 = 0  BY <1>1
<1>3. Since(q, 0, A, R, b)  BY <1>1, <1>2 DEF Paired
<1> QED  BY <1>3 DEF Since

\* What holds now where nothing is queued.
LEMMA PairedNone ==
  ASSUME NEW E, NEW A, NEW R, NEW b, Paired(<<>>, E, A, R, b, TRUE) PROVE b
BY DEF Paired, Since

\* The demand on the end where it is met at once.
LEMMA PairedMet ==
  ASSUME NEW q, NEW E, NEW A, NEW R, NEW b, NEW end, Paired(q, E, A, R, b, end), NEW stop,
         stop => b /\ \A k \in 1 .. Len(q) : q[k].type \notin R, Len(q) \in Nat
  PROVE  Paired(q, E, A, R, b, stop)
<1>1. stop => Since(q, Len(q), A, R, b)  BY DEF Since
<1> QED  BY <1>1 DEF Paired

\* No demand.
LEMMA PairedNever == \A q, A, R, b : Paired(q, {}, A, R, b, FALSE)
BY DEF Paired

\* A stack that is popped.
LEMMA Popped ==
  ASSUME NEW D, NEW s \in Seq(D), s # <<>>
  PROVE  LET t == SubSeq(s, 1, Len(s) - 1) IN t \in Seq(D) /\ Len(t) = Len(s) - 1
<1> DEFINE t == SubSeq(s, 1, Len(s) - 1)
<1>1. Len(s) \in Nat \ {0}  OBVIOUS
<1>2. t = [i \in 1 .. Len(s) - 1 |-> s[i]]  BY <1>1
<1>3. \A i \in 1 .. Len(s) - 1 : s[i] \in D  BY <1>1
<1> HIDE DEF t
<1>4. t \in [1 .. Len(s) - 1 -> D]  BY <1>2, <1>3
<1>5. t \in Seq(D)  BY <1>1, <1>4
<1>6. Len(t) = Len(s) - 1  BY <1>1, <1>2
<1> QED  BY <1>5, <1>6 DEF t

-----------------------------------------------------------------------------
(* CaptionGesture.                                                          *)

\* A gesture that only holds clicks of k, but for those that are too old.
Traced(g, k) == \A c \in g.armed \cup g.pending : c.age <= Interval => c \in k

\* A gesture that a press at p began: it holds the press, unless it made a double click or a move.
Began(g, p) == g = N!Idle \/ \E c \in g.pending : c.at = p

\* What is left of the clicks.
Recent(k) == {click \in N!Older(k) : click.age <= Interval}

\* A click is one.
LEMMA ClickTyped ==
  ASSUME N!GestureAssumption, NEW p \in Points
  PROVE  N!Click(p) \in N!ClickSets /\ N!Click(p) \subseteq [at : Points, age : N!Ages] /\ N!Idle \in N!Gestures
<1>1. 0 \in N!Ages  BY DEF N!GestureAssumption, N!Ages
<1>2. [at |-> p, age |-> 0] \in [at : Points, age : N!Ages]  BY <1>1
<1>3. {} \in N!ClickSets  BY DEF N!ClickSets
<1>4. N!Click(p) \in N!ClickSets  BY <1>2 DEF N!Click, N!ClickSets
<1> QED  BY <1>2, <1>3, <1>4 DEF N!Click, N!Idle, N!Gestures

\* A press and a click leave a gesture.
LEMMA PressTyped ==
  ASSUME N!GestureAssumption, NEW g \in N!Gestures, NEW p \in Points
  PROVE  N!Press(g, p) \in N!Gestures /\ N!Clicked(g, p) \in N!Gestures
<1>1. N!Click(p) \in N!ClickSets /\ N!Idle \in N!Gestures  BY ClickTyped
<1>2. [g EXCEPT !.pending = N!Click(p)] \in N!Gestures /\ [g EXCEPT !.armed = N!Click(p)] \in N!Gestures
  BY <1>1 DEF N!Gestures
<1> QED  BY <1>1, <1>2 DEF N!Press, N!Clicked

\* So do a motion, a release and the end of it.
LEMMA MovedTyped ==
  ASSUME N!GestureAssumption, NEW g \in N!Gestures, NEW p
  PROVE  /\ N!Moved(g, p) \in N!Gestures /\ N!Released(g) \in N!Gestures
         /\ N!Cancelled(g) \in N!Gestures /\ N!Cancelled(g) = N!Idle
<1>1. {} \in N!ClickSets  BY DEF N!ClickSets
<1>2. N!Idle \in N!Gestures  BY <1>1 DEF N!Idle, N!Gestures
<1>3. [pending |-> {}, armed |-> g.pending] \in N!Gestures  BY <1>1 DEF N!Gestures
<1> QED  BY <1>2, <1>3 DEF N!Moved, N!Released, N!Cancelled

\* A tick makes a click older, where it is, until it is too old to count.
LEMMA OlderClick ==
  ASSUME N!GestureAssumption, NEW c \in [at : Points, age : N!Ages]
  PROVE  LET d == [c EXCEPT !.age = IF @ > Interval THEN @ ELSE @ + 1]
         IN  d \in [at : Points, age : N!Ages] /\ d.at = c.at /\ (d.age <= Interval => c.age <= Interval)
<1>1. c.age \in N!Ages /\ c.at \in Points /\ Interval \in Nat  BY DEF N!GestureAssumption
<1> DEFINE a == IF c.age > Interval THEN c.age ELSE c.age + 1
<1>2. a \in N!Ages /\ (a <= Interval => c.age <= Interval)  BY <1>1 DEF N!Ages
<1>3. /\ [c EXCEPT !.age = a] \in [at : Points, age : N!Ages]
      /\ [c EXCEPT !.age = a].at = c.at /\ [c EXCEPT !.age = a].age = a
  BY <1>1, <1>2
<1> QED  BY <1>2, <1>3

\* So older clicks are clicks.
LEMMA OlderTyped ==
  ASSUME N!GestureAssumption
  PROVE  /\ \A k : k \subseteq [at : Points, age : N!Ages] => N!Older(k) \subseteq [at : Points, age : N!Ages]
         /\ \A k \in N!ClickSets : N!Older(k) \in N!ClickSets
<1>1. ASSUME NEW k, k \subseteq [at : Points, age : N!Ages] PROVE N!Older(k) \subseteq [at : Points, age : N!Ages]
  BY <1>1, OlderClick DEF N!Older
<1>2. ASSUME NEW k \in N!ClickSets PROVE N!Older(k) \in N!ClickSets
  <2>1. CASE k = {}  BY <2>1 DEF N!Older, N!ClickSets
  <2>2. CASE k # {}
    <3>1. PICK c \in [at : Points, age : N!Ages] : k = {c}  BY <2>2 DEF N!ClickSets
    <3>2. N!Older(k) = {[c EXCEPT !.age = IF @ > Interval THEN @ ELSE @ + 1]}  BY <3>1 DEF N!Older
    <3>3. [c EXCEPT !.age = IF @ > Interval THEN @ ELSE @ + 1] \in [at : Points, age : N!Ages]
      BY OlderClick
    <3> QED  BY <3>2, <3>3 DEF N!ClickSets
  <2> QED  BY <2>1, <2>2
<1> QED  BY <1>1, <1>2

\* And an older gesture is a gesture.
LEMMA AgedTyped ==
  ASSUME N!GestureAssumption, NEW g \in N!Gestures, NEW k, k \subseteq [at : Points, age : N!Ages]
  PROVE  N!Aged(g) \in N!Gestures /\ Recent(k) \subseteq [at : Points, age : N!Ages]
<1>1. g.pending \in N!ClickSets /\ g.armed \in N!ClickSets  BY DEF N!Gestures
<1>2. /\ N!Older(g.pending) \in N!ClickSets /\ N!Older(g.armed) \in N!ClickSets
      /\ N!Older(k) \subseteq [at : Points, age : N!Ages]
  BY <1>1, OlderTyped
<1>3. \A s \in N!ClickSets : {click \in s : click.age <= Interval} \in N!ClickSets
  <2> SUFFICES ASSUME NEW s \in N!ClickSets PROVE {click \in s : click.age <= Interval} \in N!ClickSets
    OBVIOUS
  <2>1. CASE s = {}  BY <2>1 DEF N!ClickSets
  <2>2. CASE s # {}
    <3>1. PICK c \in [at : Points, age : N!Ages] : s = {c}  BY <2>2 DEF N!ClickSets
    <3>2. {click \in s : click.age <= Interval} \in {{}, {c}}  BY <3>1
    <3> QED  BY <3>2 DEF N!ClickSets
  <2> QED  BY <2>1, <2>2
<1> QED  BY <1>2, <1>3 DEF N!Aged, N!Gestures, Recent

\* An idle gesture holds no click, so it is traced whatever came before.
LEMMA TracedIdle == \A k, p : Traced(N!Idle, k) /\ Began(N!Idle, p)
BY DEF Traced, Began, N!Idle

\* A double click has a click close by.
LEMMA DoubleIsTwo ==
  ASSUME NEW g, NEW k, Traced(g, k), NEW p, N!IsDoubleClick(g, p)
  PROVE  \E c \in k : c.age <= Interval /\ N!Distance(c.at, p) <= Slop
BY DEF Traced, N!IsDoubleClick, N!ArmedNear

\* press() leaves a gesture that holds the new click, or the idle one after a double click.
LEMMA TracedPress ==
  ASSUME NEW g \in N!Gestures, NEW k, Traced(g, k), NEW p
  PROVE  /\ Traced(N!Press(g, p), IF N!IsDoubleClick(g, p) THEN {} ELSE k \cup N!Click(p))
         /\ Began(N!Press(g, p), p)
<1>1. CASE N!IsDoubleClick(g, p)  BY <1>1, TracedIdle DEF N!Press
<1>2. CASE ~N!IsDoubleClick(g, p)
  <2>1. N!Press(g, p) = [g EXCEPT !.pending = N!Click(p)]  BY <1>2 DEF N!Press
  <2>2. N!Press(g, p).pending = N!Click(p) /\ N!Press(g, p).armed = g.armed  BY <2>1 DEF N!Gestures
  <2>3. [at |-> p, age |-> 0] \in N!Click(p) /\ [at |-> p, age |-> 0].at = p  BY DEF N!Click
  <2> QED  BY <1>2, <2>2, <2>3 DEF Traced, Began
<1> QED  BY <1>1, <1>2

\* clicked() arms a new click.
LEMMA TracedClicked ==
  ASSUME NEW g \in N!Gestures, NEW k, Traced(g, k), NEW p
  PROVE  Traced(N!Clicked(g, p), k \cup N!Click(p))
<1>1. N!Clicked(g, p).pending = g.pending /\ N!Clicked(g, p).armed = N!Click(p)
  BY DEF N!Clicked, N!Gestures
<1> QED  BY <1>1 DEF Traced

\* A drag ends the gesture that the press began, a jitter leaves it.
LEMMA TracedMoved ==
  ASSUME NEW g, NEW k, Traced(g, k), NEW p, NEW from
  PROVE  /\ Traced(N!Moved(g, p), k)
         /\ Began(g, from) => Began(N!Moved(g, p), from)
         /\ Began(g, from) /\ N!Distance(from, p) >= DragThreshold => N!Moved(g, p) = N!Idle
BY TracedIdle DEF N!Moved, N!Travels, Began, N!Idle

\* released() arms the click it held.
LEMMA TracedReleased ==
  ASSUME NEW g, NEW k, Traced(g, k)
  PROVE  Traced(N!Released(g), k)
BY DEF N!Released, Traced

\* A tick leaves the clicks that still count, and the press that began the gesture.
LEMMA TracedAged ==
  ASSUME N!GestureAssumption, NEW g \in N!Gestures, NEW k, Traced(g, k), k \subseteq [at : Points,
         age : N!Ages], NEW p
  PROVE  Traced(N!Aged(g), Recent(k)) /\ (Began(g, p) => Began(N!Aged(g), p)) /\ N!Aged(N!Idle) = N!Idle
<1>0. \A c \in g.armed \cup g.pending : c \in [at : Points, age : N!Ages]  BY DEF N!Gestures, N!ClickSets
<1>1. N!Aged(g).pending = N!Older(g.pending) /\ N!Aged(g).armed \subseteq N!Older(g.armed)  BY DEF N!Aged
<1>2. ASSUME NEW d \in N!Aged(g).armed \cup N!Aged(g).pending, d.age <= Interval PROVE d \in Recent(k)
  <2>1. PICK c \in g.armed \cup g.pending : d = [c EXCEPT !.age = IF @ > Interval THEN @ ELSE @ + 1]
    BY <1>1 DEF N!Older
  <2>2. c \in [at : Points, age : N!Ages] /\ c.age <= Interval  BY <1>0, <1>2, <2>1, OlderClick
  <2>3. c \in k  BY <2>2 DEF Traced
  <2> QED  BY <1>2, <2>1, <2>3 DEF Recent, N!Older
<1>3. N!Aged(N!Idle) = N!Idle  BY DEF N!Aged, N!Idle, N!Older
<1>4. ASSUME NEW c \in g.pending, c.at = p PROVE \E d \in N!Aged(g).pending : d.at = p
  <2>1. c \in [at : Points, age : N!Ages]  BY <1>0
  <2>2. [c EXCEPT !.age = IF @ > Interval THEN @ ELSE @ + 1] \in N!Aged(g).pending  BY <1>1 DEF N!Older
  <2> QED  BY <1>4, <2>1, <2>2, OlderClick
<1>5. Began(g, p) => Began(N!Aged(g), p)  BY <1>3, <1>4 DEF Began
<1> QED  BY <1>2, <1>3, <1>5 DEF Traced

\* SdlPointer has the gestures under names of its own.
LEMMA SameGestures ==
  /\ S!Idle = N!Idle /\ S!Ages = N!Ages /\ S!ClickSets = N!ClickSets /\ S!Gestures = N!Gestures
  /\ S!GestureAssumption <=> N!GestureAssumption
  /\ \A p : S!Click(p) = N!Click(p)
  /\ \A p, q : S!Distance(p, q) = N!Distance(p, q)
  /\ \A c, p : S!IsDoubleClick(c, p) <=> N!IsDoubleClick(c, p)
  /\ \A c, p : S!Travels(c, p) <=> N!Travels(c, p)
  /\ \A c, p : S!Press(c, p) = N!Press(c, p) /\ S!Clicked(c, p) = N!Clicked(c, p)
  /\ \A c, p : S!Moved(c, p) = N!Moved(c, p)
  /\ \A c : S!Released(c) = N!Released(c) /\ S!Cancelled(c) = N!Cancelled(c)
  /\ \A k : S!Older(k) = N!Older(k)
  /\ \A c : S!Aged(c) = N!Aged(c)
<1>1. /\ S!Idle = N!Idle /\ S!Ages = N!Ages /\ S!ClickSets = N!ClickSets /\ S!Gestures = N!Gestures
      /\ S!GestureAssumption <=> N!GestureAssumption
  BY DEF S!Idle, N!Idle, S!Ages, N!Ages, S!ClickSets, N!ClickSets, S!Gestures, N!Gestures,
     S!GestureAssumption, N!GestureAssumption
<1>2. /\ \A p : S!Click(p) = N!Click(p)
      /\ \A p, q : S!Distance(p, q) = N!Distance(p, q)
  BY DEF S!Click, N!Click, S!Distance, N!Distance
<1>3. /\ \A c, p : S!IsDoubleClick(c, p) <=> N!IsDoubleClick(c, p)
      /\ \A c, p : S!Travels(c, p) <=> N!Travels(c, p)
  BY <1>2 DEF S!IsDoubleClick, N!IsDoubleClick, S!ArmedNear, N!ArmedNear, S!Travels, N!Travels
<1>4. \A c, p : S!Press(c, p) = N!Press(c, p) /\ S!Clicked(c, p) = N!Clicked(c, p)
  BY <1>1, <1>2, <1>3 DEF S!Press, N!Press, S!Clicked, N!Clicked
<1>5. \A c, p : S!Moved(c, p) = N!Moved(c, p)
  BY <1>1, <1>3 DEF S!Moved, N!Moved
<1>6. \A c : S!Released(c) = N!Released(c) /\ S!Cancelled(c) = N!Cancelled(c)
  BY <1>1 DEF S!Released, N!Released, S!Cancelled, N!Cancelled
<1>7. \A k : S!Older(k) = N!Older(k)
  BY DEF S!Older, N!Older
<1>8. \A c : S!Aged(c) = N!Aged(c)
  BY <1>7 DEF S!Aged, N!Aged
<1> QED  BY <1>1, <1>2, <1>3, <1>4, <1>5, <1>6, <1>7, <1>8

-----------------------------------------------------------------------------
(* NativePointer.                                                           *)

\* The cursor is not changed before an X11 window is created: initialize() would not show it.
CursorsAfterWindow == \A s \in NativeSetups : ~(s.backend = "x11" /\ s.early /\ s.cursors)

\* The events of each backend, some of them apart.
Enters == [type : {"enter"}, at : Points, serial : 1 .. MaxSerial]
\* The events a server can have sent to this backend.
Placed == [type : {"press", "motion"}, at : Points]
WaylandEvents == Enters \cup Placed \cup [type : {"release", "leave", "gone", "back"}]
WindowEvents == Placed \cup [type : {"release", "focus", "unfocus"}]
Sendable == IF N!OnWayland THEN WaylandEvents ELSE WindowEvents

\* The presses a history can hold.
Clicks == [at : Points, age : N!Ages]

\* The types, in parts.
NativeTyped ==
  /\ setup \in NativeSetups /\ at \in Points /\ position \in Points
  /\ inside \in BOOLEAN /\ moving \in BOOLEAN /\ ready \in BOOLEAN /\ focused \in BOOLEAN
  /\ claimed \in BOOLEAN /\ enabled \in BOOLEAN /\ captured \in BOOLEAN /\ hitTest \in BOOLEAN
NativeSerials ==
  /\ held \in 0 .. MaxSerial /\ serial \in 0 .. MaxSerial /\ entered \in 0 .. MaxSerial
  /\ enterSerial \in 0 .. MaxSerial /\ enterSerial <= serial
NativeQueued == events \in Seq(Sendable)
NativeCursors == hit \in Shapes /\ system \in Shapes /\ shown \in Shapes \cup {"hidden"}
NativeTold ==
  /\ did \in {N!Nothing, "press", "release", "toggle", "move", "resize"}
  /\ went \in [to : {N!Nothing, "application", "caption", "edge"}, from : Points \cup {0}]
NativeGestures == caption \in N!Gestures /\ clicks \subseteq Clicks

\* A button is held inside the window only.
HeldInside == held # 0 => inside

\* The enters that are queued are not of the future.
EntersAreSent == \A n \in 1 .. Len(events) : events[n].type = "enter" => events[n].serial <= serial

\* A release is queued only after a press, and nothing in between clears the claim.
Presses == [type : {"press"}, at : Points]
Told == went.to # N!Nothing /\ (claimed <=> went.to # "application")
NativeOpened == Paired(events, {"release"}, Presses, {"enter", "leave", "gone", "release"}, Told, held # 0)

\* An enter is queued only after what ended the gesture, and no press came in between.
Ends == [type : {"leave", "gone"}]
Ended == went.to = "caption" => caption = N!Idle
NativeClosed == Paired(events, {"enter"}, Ends, {"press"}, Ended, N!OnWayland /\ ~inside)

\* On Wayland a pointer that is over the window, or whose enter is queued, is there.
NativeAttached == N!OnWayland => Paired(events, {"enter"}, {}, {"gone", "back"}, ready, inside)
FocusedIsReady == N!OnWayland /\ focused => ready

\* On Wayland the client has handled the last enter, or it is queued.
EntersNow == {e \in Enters : e.serial = entered}
NativeCaught ==
  Paired(events, {}, EntersNow, {"enter", "leave", "gone"}, enterSerial = entered, N!OnWayland /\ inside)

NativeFollows == Traced(caption, clicks) /\ (went.to = "caption" => Began(caption, went.from) /\ (claimed \/ Ended))

\* Before the window exists nothing happens to it.
BeforeWindow ==
  /\ ~N!OnWayland /\ ~ready =>
       ~inside /\ held = 0 /\ events = <<>> /\ hit = "default" /\ shown = "default" /\ setup.early
  /\ setup.backend = "x11" /\ ~setup.cursors => enabled /\ system = "default"

\* The image that is shown, where the client has seen the enter.
ImageIsShown ==
  IF N!OnWayland
  THEN ready /\ focused /\ inside /\ enterSerial = entered /\ (setup.theme \/ ~enabled) => shown = N!Image
  ELSE ready => shown = N!Image

NativeInv ==
  /\ NativeTyped /\ NativeSerials /\ NativeQueued /\ NativeCursors /\ NativeTold /\ NativeGestures
  /\ HeldInside /\ EntersAreSent /\ NativeOpened /\ NativeClosed /\ NativeAttached /\ FocusedIsReady
  /\ NativeCaught /\ NativeFollows /\ N!CaptureFollowsFocus

\* And where the cursor is not changed too early.
CursorInv == BeforeWindow /\ ImageIsShown

NativeAssumption ==
  N!GestureAssumption /\ N!ZoneAssumption /\ N!ShapesAssumption /\ N!SetupsAssumption /\ N!PointerBoundsAssumption

-----------------------------------------------------------------------------
\* That is the types.
LEMMA NativeImplies == NativeInv => N!TypeOK
<1> SUFFICES ASSUME NativeInv PROVE N!TypeOK
  OBVIOUS
<1>1. events \in Seq(N!Events)
  <2>1. Sendable \subseteq N!Events
    BY DEF Sendable, WaylandEvents, WindowEvents, Enters, Placed, N!Events
  <2>2. events \in Seq(Sendable)  BY DEF NativeInv, NativeQueued
  <2> HIDE DEF Sendable, N!Events
  <2> QED  BY <2>1, <2>2
<1> QED
  BY <1>1 DEF NativeInv, NativeTyped, NativeSerials, NativeCursors, NativeTold, NativeGestures, Clicks,
     N!TypeOK

\* A window nobody has touched.
LEMMA NativeInit == ASSUME NativeAssumption PROVE N!Init => NativeInv
<1> SUFFICES ASSUME N!Init PROVE NativeInv
  OBVIOUS
<1>0. 0 \in 0 .. MaxSerial /\ "default" \in Shapes
  BY DEF NativeAssumption, N!PointerBoundsAssumption, N!ShapesAssumption
<1>1. NativeTyped  BY DEF N!Init, NativeTyped
<1>2. NativeSerials /\ NativeCursors  BY <1>0 DEF N!Init, NativeSerials, NativeCursors
<1>3. NativeQueued  BY DEF N!Init, NativeQueued
<1>4. NativeTold  BY DEF N!Init, NativeTold, N!NoPress, N!Nothing
<1>5. N!Idle \in N!Gestures
  <2>1. {} \in N!ClickSets  BY DEF N!ClickSets
  <2> QED  BY <2>1 DEF N!Idle, N!Gestures
<1>6. NativeGestures  BY <1>5 DEF N!Init, NativeGestures
<1>7. events = <<>> /\ went.to = N!Nothing /\ ~claimed /\ held = 0 /\ ~inside /\ caption = N!Idle
  BY DEF N!Init, N!NoPress
<1>8. HeldInside /\ EntersAreSent  BY <1>7 DEF HeldInside, EntersAreSent
<1>9. NativeOpened
  <2>1. Paired(<<>>, {"release"}, Presses, {"enter", "leave", "gone", "release"}, Told, held # 0)
    BY <1>7, PairedEmpty
  <2> QED  BY <1>7, <2>1 DEF NativeOpened
<1>10. NativeClosed
  <2>1. Ended  BY <1>7 DEF Ended
  <2>2. Paired(<<>>, {"enter"}, Ends, {"press"}, Ended, N!OnWayland /\ ~inside)  BY <2>1, PairedEmpty
  <2> QED  BY <1>7, <2>2 DEF NativeClosed
<1>11. NativeAttached
  <2>1. Paired(<<>>, {"enter"}, {}, {"gone", "back"}, ready, inside)  BY <1>7, PairedEmpty
  <2> QED  BY <1>7, <2>1 DEF NativeAttached
<1>12. NativeCaught
  <2>1. Paired(<<>>, {}, EntersNow, {"enter", "leave", "gone"}, enterSerial = entered, N!OnWayland /\ inside)
    BY <1>7, PairedEmpty
  <2> QED  BY <1>7, <2>1 DEF NativeCaught
<1>13. FocusedIsReady /\ N!CaptureFollowsFocus  BY DEF N!Init, FocusedIsReady, N!CaptureFollowsFocus, N!OnWayland
<1>14. NativeFollows  BY <1>7, TracedIdle DEF NativeFollows, N!Nothing
<1> QED  BY <1>1, <1>2, <1>3, <1>4, <1>6, <1>8, <1>9, <1>10, <1>11, <1>12, <1>13, <1>14 DEF NativeInv

\* Its cursor is the default one.
LEMMA CursorInit == ASSUME NativeAssumption, CursorsAfterWindow PROVE N!Init => CursorInv
<1> SUFFICES ASSUME N!Init PROVE CursorInv
  OBVIOUS
<1>1. N!Image = "default"  BY DEF N!Init, N!Image, N!EffectiveSystemCursor
<1> QED  BY <1>1 DEF N!Init, CursorInv, BeforeWindow, ImageIsShown

-----------------------------------------------------------------------------
\* The first event is a known one, and the rest is a queue.
LEMMA NativeTakes ==
  ASSUME NativeQueued, NEW type, N!Handle(type)
  PROVE  /\ Head(events) \in Sendable /\ events' \in Seq(Sendable)
         /\ type = "enter" => Head(events) \in Enters /\ N!OnWayland
         /\ type \in {"press", "motion"} => Head(events).at \in Points
         /\ type \in {"leave", "gone", "back"} => N!OnWayland
         /\ type \in {"focus", "unfocus"} => ~N!OnWayland
<1>1. events # <<>> /\ events \in Seq(Sendable) /\ events' = Tail(events) /\ Head(events).type = type
  BY DEF N!Handle, NativeQueued
<1>2. Head(events) \in Sendable /\ events' \in Seq(Sendable)
  <2> HIDE DEF Sendable
  <2> QED  BY <1>1
<1> QED  BY <1>1, <1>2 DEF Sendable, WaylandEvents, WindowEvents, Enters, Placed

\* What the server sends is queued behind the rest.
LEMMA NativeSends ==
  ASSUME NativeQueued, NEW e \in Sendable, N!Send(e)
  PROVE  events' \in Seq(Sendable) /\ events' = Append(events, e)
<1> HIDE DEF Sendable
<1> QED  BY DEF N!Send, NativeQueued

\* The events there are.
LEMMA SendableEvents ==
  /\ \A type \in {"press", "motion"}, p \in Points : [type |-> type, at |-> p] \in Sendable
  /\ [type |-> "release"] \in Sendable
  /\ N!OnWayland => \A type \in {"leave", "gone", "back"} : [type |-> type] \in Sendable
  /\ ~N!OnWayland => \A type \in {"focus", "unfocus"} : [type |-> type] \in Sendable
  /\ N!OnWayland => Enters \subseteq Sendable
BY DEF Sendable, WaylandEvents, WindowEvents, Enters, Placed

\* The steps, by what they do to the queue.
NativeHandles ==
  \/ N!HandleEnter \/ N!HandleLeave \/ N!HandleMotion \/ N!HandlePress \/ N!HandleRelease
  \/ N!HandleFocus \/ N!HandleGone \/ N!HandleBack
NativeCalls == N!Initialize \/ N!SetHitTest \/ N!SetCursorEnabled \/ N!SetSystemCursor \/ N!Tick
NativeServes ==
  N!PointerEnters \/ N!PointerLeaves \/ N!PointerMoves \/ N!ButtonGoesDown \/ N!ButtonComesUp \/ N!AnswerMove
  \/ N!FocusChanges \/ N!SeatChanges

\* The steps: handlers, calls of the application, and what the server does.
LEMMA NativeSteps == N!Next => NativeHandles \/ NativeCalls \/ NativeServes
BY DEF N!Next, NativeHandles, NativeCalls, NativeServes

\* The server's steps leave the client alone, and the client's the server.
LEMMA ServesLeave ==
  ASSUME NativeServes
  PROVE  UNCHANGED <<setup, ready, focused, enterSerial, position, hit, enabled, system, captured, claimed, caption,
                     hitTest, did, went, clicks>>
BY DEF NativeServes, N!PointerEnters, N!PointerLeaves, N!PointerMoves, N!ButtonGoesDown, N!ButtonComesUp,
   N!AnswerMove, N!FocusChanges, N!SeatChanges, N!client

\* A handler leaves the server alone, and what the application asked for.
LEMMA HandlesLeave ==
  ASSUME NativeHandles
  PROVE  UNCHANGED <<setup, at, inside, held, serial, entered, enabled, system, hitTest>>
BY DEF NativeHandles, N!HandleEnter, N!HandleLeave, N!HandleMotion, N!HandlePress, N!HandleRelease,
   N!HandleFocus, N!HandleGone, N!HandleBack, N!server, N!cursor, N!link, N!claims

\* A call leaves the server and the queue alone, and the gesture.
LEMMA CallsLeave ==
  ASSUME NativeCalls
  PROVE  UNCHANGED <<setup, at, inside, held, serial, entered, moving, events, focused, enterSerial, claimed, went>>
         /\ (~N!Tick => UNCHANGED <<caption, clicks>>) /\ (~N!Initialize => UNCHANGED <<ready, position>>)
         /\ (~N!SetHitTest => UNCHANGED <<hit, hitTest>>)
BY DEF NativeCalls, N!Initialize, N!SetHitTest, N!SetCursorEnabled, N!SetSystemCursor, N!Tick, N!server,
   N!cursor, N!link, N!claims

\* A step in which nothing happens.
LEMMA StutterLeaves ==
  ASSUME UNCHANGED N!vars
  PROVE  UNCHANGED <<setup, at, inside, held, serial, entered, shown, moving, events, ready, focused, enterSerial,
                     position, claimed, hit, enabled, system, captured, hitTest, caption, did, went, clicks>>
BY DEF N!vars, N!server, N!cursor, N!link, N!claims

-----------------------------------------------------------------------------
(* Types.                                                                   *)

\* A capture is held or it is not.
LEMMA CaptureTyped == N!UpdateCapture \/ N!UpdateCursorState => captured' \in BOOLEAN
BY DEF N!UpdateCapture, N!UpdateCursorState, N!Wanted

\* A press that is claimed is on the title bar or an edge, under a hit test.
LEMMA ClaimTyped ==
  ASSUME NEW p, NEW claims \in N!ClaimPress(p)
  PROVE  claims \in BOOLEAN /\ (claims => hitTest /\ ready /\ ZoneOf[p] # "client")
BY DEF N!ClaimPress

\* Where a press is looked for.
PressedAt ==
  IF N!OnWayland THEN position ELSE IF setup.backend = "x11" THEN Head(events).at ELSE at

\* A press is somewhere.
LEMMA PressIsPlaced == ASSUME NativeTyped, NativeQueued, N!HandlePress PROVE PressedAt \in Points
<1>1. Head(events).at \in Points  BY NativeTakes DEF N!HandlePress
<1> QED  BY <1>1 DEF PressedAt, NativeTyped

\* The outcomes of a press: the application's, the title bar's, or an edge's.
LEMMA PressOutcome ==
  ASSUME NativeAssumption, NativeTyped, NativeQueued, N!HandlePress
  PROVE  \/ /\ claimed' = FALSE /\ did' = "press" /\ went'.to = "application"
            /\ went' = [to |-> "application", from |-> went'.from] /\ went'.from \in Points
            /\ UNCHANGED <<caption, clicks, moving>>
         \/ /\ claimed' = TRUE /\ went' = [to |-> "caption", from |-> PressedAt]
            /\ caption' = N!Press(caption, PressedAt)
            /\ clicks' = IF N!IsDoubleClick(caption, PressedAt) THEN {} ELSE clicks \cup N!Click(PressedAt)
            /\ did' = IF N!IsDoubleClick(caption, PressedAt) THEN "toggle" ELSE N!Nothing
            /\ UNCHANGED moving
         \/ /\ claimed' = TRUE /\ went' = [to |-> "edge", from |-> PressedAt] /\ did' = "resize" /\ moving' = TRUE
            /\ UNCHANGED <<caption, clicks>>
<1>0. PressedAt \in Points  BY PressIsPlaced
<1>1. CASE N!OnWayland /\ ~focused
  BY <1>1 DEF N!HandlePress, NativeTyped
<1>2. CASE ~(N!OnWayland /\ ~focused)
  <2>1. N!TakePress(PressedAt)  BY <1>2 DEF N!HandlePress, PressedAt
  <2>2. PICK claims \in N!ClaimPress(PressedAt) :
          LET onCaption == claims /\ ZoneOf[PressedAt] = "caption"
              double == onCaption /\ N!IsDoubleClick(caption, PressedAt)
          IN /\ claimed' = N!Assigned(claims)
             /\ caption' = IF onCaption THEN N!Press(caption, PressedAt) ELSE caption
             /\ clicks' = IF double THEN {} ELSE IF onCaption THEN clicks \cup N!Click(PressedAt) ELSE clicks
             /\ went' = [to |-> IF claims THEN ZoneOf[PressedAt] ELSE "application", from |-> PressedAt]
             /\ did' = IF ~claims THEN "press"
                       ELSE IF double THEN "toggle" ELSE IF onCaption THEN N!Nothing ELSE "resize"
             /\ moving' = (moving \/ did' = "resize")
    BY <2>1 DEF N!TakePress
  <2>3. claims \in BOOLEAN /\ (claims => ZoneOf[PressedAt] # "client")  BY ClaimTyped
  <2>4. ZoneOf[PressedAt] \in {"client", "caption", "edge"}  BY <1>0 DEF NativeAssumption, N!ZoneAssumption
  <2>5. moving \in BOOLEAN  BY DEF NativeTyped
  <2> HIDE DEF PressedAt
  <2>6. CASE ~claims  BY <1>0, <2>2, <2>5, <2>6 DEF N!Assigned
  <2>7. CASE claims /\ ZoneOf[PressedAt] = "caption"
    <3>1. did' # "resize"  BY <2>2, <2>7 DEF N!Nothing
    <3> QED  BY <2>2, <2>3, <2>5, <2>7, <3>1 DEF N!Assigned
  <2>8. CASE claims /\ ZoneOf[PressedAt] = "edge"
    <3>1. did' = "resize"  BY <2>2, <2>8
    <3> QED  BY <2>2, <2>3, <2>5, <2>8, <3>1 DEF N!Assigned
  <2> QED  BY <2>3, <2>4, <2>6, <2>7, <2>8
<1> QED  BY <1>1, <1>2

\* The plain variables stay in their sets.
LEMMA NativeTypedKept ==
  ASSUME NativeAssumption, NativeTyped, NativeQueued, [N!Next]_N!vars PROVE NativeTyped'
<1> USE DEF NativeTyped
<1>1. CASE N!HandleEnter
  <2>1. Head(events).at \in Points  BY <1>1, NativeTakes DEF N!HandleEnter, Enters
  <2>2. captured' \in BOOLEAN  BY <1>1, CaptureTyped DEF N!HandleEnter
  <2> QED  BY <1>1, <2>1, <2>2 DEF N!HandleEnter, N!server
<1>2. CASE N!HandleLeave
  <2>1. captured' \in BOOLEAN  BY <1>2, CaptureTyped DEF N!HandleLeave
  <2> QED  BY <1>2, <2>1 DEF N!HandleLeave, N!server
<1>3. CASE N!HandleMotion
  <2>1. Head(events).at \in Points  BY <1>3, NativeTakes DEF N!HandleMotion
  <2>2. captured' \in BOOLEAN  BY <1>3, CaptureTyped DEF N!HandleMotion, N!SetHitCursor
  <2>3. UNCHANGED <<setup, at, inside, ready, focused, enabled, hitTest, claimed>>
    BY <1>3 DEF N!HandleMotion, N!server, N!link
  <2>4. position' \in Points /\ moving' \in BOOLEAN  BY <1>3, <2>1 DEF N!HandleMotion, N!Drag
  <2> QED  BY <2>2, <2>3, <2>4
<1>4. CASE N!HandlePress
  <2>1. claimed' \in BOOLEAN /\ moving' \in BOOLEAN  BY <1>4, PressOutcome
  <2> QED  BY <1>4, <2>1 DEF N!HandlePress, N!server, N!link, N!cursor
<1>5. CASE N!HandleRelease  BY <1>5 DEF N!HandleRelease, N!TakeRelease, N!server, N!link, N!cursor
<1>6. CASE N!HandleFocus
  <2>1. captured' \in BOOLEAN  BY <1>6, CaptureTyped DEF N!HandleFocus
  <2> QED  BY <1>6, <2>1 DEF N!HandleFocus, N!server, N!claims
<1>7. CASE N!HandleGone \/ N!HandleBack
  BY <1>7 DEF N!HandleGone, N!HandleBack, N!server, N!cursor, N!claims
<1>8. CASE NativeCalls
  <2>1. captured' \in BOOLEAN
    BY <1>8, CaptureTyped DEF NativeCalls, N!Initialize, N!SetHitTest, N!SetCursorEnabled,
       N!SetSystemCursor, N!Tick, N!SetHitCursor
  <2>2. ready' \in BOOLEAN /\ position' \in Points /\ enabled' \in BOOLEAN /\ hitTest' \in BOOLEAN
    BY <1>8 DEF NativeCalls, N!Initialize, N!SetHitTest, N!SetCursorEnabled, N!SetSystemCursor, N!Tick,
       N!link
  <2> QED  BY <1>8, <2>1, <2>2, CallsLeave
<1>9. CASE NativeServes
  <2>1. at' \in Points /\ inside' \in BOOLEAN /\ moving' \in BOOLEAN
    BY <1>9 DEF NativeServes, N!PointerEnters, N!PointerLeaves, N!PointerMoves, N!ButtonGoesDown,
       N!ButtonComesUp, N!AnswerMove, N!FocusChanges, N!SeatChanges, N!server
  <2> QED  BY <1>9, <2>1, ServesLeave
<1>10. CASE UNCHANGED N!vars  BY <1>10, StutterLeaves
<1> QED  BY <1>1, <1>2, <1>3, <1>4, <1>5, <1>6, <1>7, <1>8, <1>9, <1>10, NativeSteps DEF NativeHandles

\* The serials stay within the bound.
LEMMA NativeSerialsKept ==
  ASSUME NativeAssumption, NativeSerials, NativeQueued, EntersAreSent, [N!Next]_N!vars
  PROVE  NativeSerials' /\ EntersAreSent'
<1> USE DEF NativeSerials
<1>0. MaxSerial \in Nat /\ events \in Seq(Sendable)
  BY DEF NativeAssumption, N!PointerBoundsAssumption, NativeQueued
<1>1. ASSUME NEW e, events' = Append(events, e), serial' \in Nat, serial <= serial',
             e.type = "enter" => e.serial <= serial',
             \A n \in 1 .. Len(events) : events[n].type = "enter" => events[n].serial \in Nat
      PROVE  EntersAreSent'
  <2>1. Len(events) \in Nat /\ Len(events') = Len(events) + 1 /\ events'[Len(events) + 1] = e
        /\ \A n \in 1 .. Len(events) : events'[n] = events[n]
    <3> HIDE DEF Sendable
    <3> QED  BY <1>0, <1>1
  <2> SUFFICES ASSUME NEW n \in 1 .. Len(events) + 1, events'[n].type = "enter" PROVE events'[n].serial <= serial'
    BY <2>1 DEF EntersAreSent
  <2>2. CASE n = Len(events) + 1  BY <1>1, <2>1, <2>2
  <2>3. CASE n # Len(events) + 1
    <3>1. n \in 1 .. Len(events)  BY <2>1, <2>3
    <3>2. events[n].serial <= serial /\ events[n].serial \in Nat  BY <1>1, <2>1, <3>1 DEF EntersAreSent
    <3> QED  BY <1>1, <2>1, <3>1, <3>2
  <2> QED  BY <2>2, <2>3
<1>2. \A n \in 1 .. Len(events) : events[n].type = "enter" => events[n] \in Enters
  <2> SUFFICES ASSUME NEW n \in 1 .. Len(events), events[n].type = "enter" PROVE events[n] \in Enters
    OBVIOUS
  <2>1. events[n] \in Sendable
    <3> HIDE DEF Sendable
    <3> QED  BY <1>0
  <2> QED  BY <2>1 DEF Sendable, WaylandEvents, WindowEvents, Placed, Enters
<1>3. \A n \in 1 .. Len(events) : events[n].type = "enter" => events[n].serial \in Nat
  BY <1>2 DEF Enters
<1>4. CASE NativeHandles
  <2>1. events # <<>> /\ events' = Tail(events) /\ UNCHANGED serial
    BY <1>4 DEF NativeHandles, N!HandleEnter, N!HandleLeave, N!HandleMotion, N!HandlePress, N!HandleRelease,
       N!HandleFocus, N!HandleGone, N!HandleBack, N!Handle, N!server
  <2>2. Len(events) \in Nat \ {0} /\ Len(events') = Len(events) - 1 /\ Head(events) = events[1]
        /\ \A n \in 1 .. Len(events) - 1 : events'[n] = events[n + 1]
    <3> HIDE DEF Sendable
    <3> QED  BY <1>0, <2>1
  <2>3. EntersAreSent'
    <3> SUFFICES ASSUME NEW n \in 1 .. Len(events) - 1, events'[n].type = "enter" PROVE events'[n].serial <= serial
      BY <2>1, <2>2 DEF EntersAreSent
    <3>1. n + 1 \in 1 .. Len(events)  BY <2>2
    <3> QED  BY <2>2, <3>1 DEF EntersAreSent
  <2>4. CASE N!HandleEnter
    <3>1. Head(events) \in Enters /\ Head(events).type = "enter"
      BY <2>4, NativeTakes DEF N!HandleEnter, N!Handle
    <3>2. Head(events).serial \in 1 .. MaxSerial /\ Head(events).serial <= serial
      BY <2>2, <3>1 DEF EntersAreSent, Enters
    <3> QED  BY <1>0, <2>3, <2>4, <3>2 DEF N!HandleEnter, N!server
  <2>5. CASE ~N!HandleEnter
    <3>1. UNCHANGED enterSerial \/ enterSerial' = 0
      BY <1>4, <2>5 DEF NativeHandles, N!HandleLeave, N!HandleMotion, N!HandlePress, N!HandleRelease,
         N!HandleFocus, N!HandleGone, N!HandleBack, N!link
    <3> QED  BY <1>0, <1>4, <2>3, <3>1, HandlesLeave
  <2> QED  BY <2>4, <2>5
<1>5. CASE NativeCalls  BY <1>5, CallsLeave DEF EntersAreSent
<1>6. CASE N!PointerEnters
  <2>1. UNCHANGED <<held, enterSerial>>  BY <1>6 DEF N!PointerEnters, N!client
  <2>2. CASE N!OnWayland
    <3>1. /\ serial' = serial + 1 /\ serial' \in 0 .. MaxSerial /\ entered' = serial'
          /\ events' = Append(events, [type |-> "enter", at |-> at', serial |-> serial'])
      BY <1>0, <1>6, <2>2 DEF N!PointerEnters, N!Send
    <3>2. EntersAreSent'
      <4> DEFINE e == [type |-> "enter", at |-> at', serial |-> serial']
      <4>1. e.serial <= serial' /\ serial <= serial' /\ serial' \in Nat  BY <1>0, <3>1
      <4>2. events' = Append(events, e)  BY <3>1
      <4> HIDE DEF e
      <4> QED  BY <1>1, <1>3, <4>1, <4>2
    <3> QED  BY <1>0, <2>1, <3>1, <3>2
  <2>3. CASE ~N!OnWayland
    <3>1. UNCHANGED <<serial, entered>> /\ events' = Append(events, [type |-> "motion", at |-> at'])
      BY <1>6, <2>3 DEF N!PointerEnters, N!Send
    <3> QED  BY <1>0, <1>1, <1>3, <2>1, <3>1
  <2> QED  BY <2>2, <2>3
<1>7. CASE N!ButtonGoesDown
  <2>1. /\ UNCHANGED <<enterSerial, entered>> /\ serial' = serial + 1 /\ serial' \in 0 .. MaxSerial /\ held' = serial'
        /\ events' = Append(events, [type |-> "press", at |-> at])
    BY <1>0, <1>7 DEF N!ButtonGoesDown, N!Send, N!client
  <2> QED  BY <1>0, <1>1, <1>3, <2>1
<1>8. CASE NativeServes /\ ~N!PointerEnters /\ ~N!ButtonGoesDown
  <2>1. UNCHANGED <<serial, entered, enterSerial>> /\ (held' = 0 \/ UNCHANGED held)
    BY <1>8 DEF NativeServes, N!PointerLeaves, N!PointerMoves, N!ButtonComesUp, N!AnswerMove,
       N!FocusChanges, N!SeatChanges, N!client, N!server
  <2>2. UNCHANGED events \/ \E e : e.type # "enter" /\ events' = Append(events, e)
    BY <1>8 DEF NativeServes, N!PointerLeaves, N!PointerMoves, N!ButtonComesUp, N!AnswerMove,
       N!FocusChanges, N!SeatChanges, N!Send
  <2>3. EntersAreSent'
    <3>1. CASE UNCHANGED events  BY <2>1, <3>1 DEF EntersAreSent
    <3>2. CASE \E e : e.type # "enter" /\ events' = Append(events, e)  BY <1>1, <1>3, <2>1, <3>2
    <3> QED  BY <2>2, <3>1, <3>2
  <2> QED  BY <1>0, <2>1, <2>3
<1>9. CASE UNCHANGED N!vars  BY <1>9, StutterLeaves DEF EntersAreSent
<1> QED  BY <1>4, <1>5, <1>6, <1>7, <1>8, <1>9, NativeSteps DEF NativeServes

\* The queue holds events of this backend only.
LEMMA NativeQueuedKept ==
  ASSUME NativeAssumption, NativeTyped, NativeSerials, NativeQueued, [N!Next]_N!vars PROVE NativeQueued'
<1>0. UNCHANGED setup
  BY HandlesLeave, CallsLeave, ServesLeave, StutterLeaves, NativeSteps
<1>1. UNCHANGED Sendable  BY <1>0 DEF Sendable, N!OnWayland, WaylandEvents, WindowEvents, Enters, Placed
<1> SUFFICES events' \in Seq(Sendable)
  BY <1>1 DEF NativeQueued
<1>2. CASE NativeHandles
  <2>1. \E type : N!Handle(type)
    BY <1>2 DEF NativeHandles, N!HandleEnter, N!HandleLeave, N!HandleMotion, N!HandlePress, N!HandleRelease,
       N!HandleFocus, N!HandleGone, N!HandleBack
  <2> QED  BY <2>1, NativeTakes
<1>3. CASE NativeCalls \/ UNCHANGED N!vars  BY <1>3, CallsLeave, StutterLeaves DEF NativeQueued
<1>4. CASE NativeServes
  <2>1. UNCHANGED events \/ \E e \in Sendable : N!Send(e)
    <3>1. CASE N!PointerEnters
      <4>1. CASE N!OnWayland
        <5>1. serial' \in 1 .. MaxSerial /\ at' \in Points
          BY <3>1, <4>1 DEF N!PointerEnters, NativeSerials, NativeAssumption, N!PointerBoundsAssumption
        <5>2. [type |-> "enter", at |-> at', serial |-> serial'] \in Enters  BY <5>1 DEF Enters
        <5> QED  BY <3>1, <4>1, <5>2, SendableEvents DEF N!PointerEnters
      <4>2. CASE ~N!OnWayland  BY <3>1, <4>2, SendableEvents DEF N!PointerEnters
      <4> QED  BY <4>1, <4>2
    <3>2. CASE N!PointerLeaves  BY <3>2, SendableEvents DEF N!PointerLeaves
    <3>3. CASE N!PointerMoves  BY <3>3, SendableEvents DEF N!PointerMoves
    <3>4. CASE N!ButtonGoesDown  BY <3>4, SendableEvents DEF N!ButtonGoesDown, NativeTyped
    <3>5. CASE N!ButtonComesUp  BY <3>5, SendableEvents DEF N!ButtonComesUp
    <3>6. CASE N!AnswerMove  BY <3>6, SendableEvents DEF N!AnswerMove
    <3>7. CASE N!FocusChanges  BY <3>7, SendableEvents DEF N!FocusChanges
    <3>8. CASE N!SeatChanges  BY <3>8, SendableEvents DEF N!SeatChanges
    <3> QED  BY <1>4, <3>1, <3>2, <3>3, <3>4, <3>5, <3>6, <3>7, <3>8 DEF NativeServes
  <2> QED  BY <2>1, NativeSends DEF NativeQueued
<1> QED  BY <1>2, <1>3, <1>4, NativeSteps

\* The images stay images.
LEMMA NativeCursorsKept == ASSUME NativeAssumption, NativeCursors, [N!Next]_N!vars PROVE NativeCursors'
<1> USE DEF NativeCursors
<1>0. "default" \in Shapes /\ "resize" \in Shapes  BY DEF NativeAssumption, N!ShapesAssumption
<1>1. hit' \in Shapes
  <2>1. \A p : N!HoverCursor(p) \in Shapes  BY <1>0 DEF N!HoverCursor
  <2>2. CASE NativeHandles
    BY <1>0, <2>1, <2>2 DEF NativeHandles, N!HandleEnter, N!HandleLeave, N!HandleMotion, N!HandlePress,
       N!HandleRelease, N!HandleFocus, N!HandleGone, N!HandleBack, N!SetHitCursor, N!cursor
  <2>3. CASE NativeCalls  BY <1>0, <2>3, CallsLeave DEF N!SetHitTest, N!SetHitCursor
  <2> QED  BY <2>2, <2>3, ServesLeave, StutterLeaves, NativeSteps
<1>2. system' \in Shapes
  <2>1. CASE NativeCalls
    BY <2>1 DEF NativeCalls, N!Initialize, N!SetHitTest, N!SetCursorEnabled, N!SetSystemCursor, N!Tick
  <2> QED  BY <2>1, HandlesLeave, ServesLeave, StutterLeaves, NativeSteps
<1>3. N!Image' \in Shapes \cup {"hidden"}  BY <1>1, <1>2 DEF N!Image, N!EffectiveSystemCursor
<1>4. shown' \in Shapes \cup {"hidden"}
  <2>1. N!UpdateCursorState => shown' \in Shapes \cup {"hidden"}
    BY <1>3 DEF N!UpdateCursorState, N!WaylandShow, N!WindowShow
  <2>2. \A s : N!SetHitCursor(s) => shown' \in Shapes \cup {"hidden"}  BY <2>1 DEF N!SetHitCursor
  <2>3. CASE NativeHandles
    BY <2>1, <2>2, <2>3 DEF NativeHandles, N!HandleEnter, N!HandleLeave, N!HandleMotion, N!HandlePress,
       N!HandleRelease, N!HandleFocus, N!HandleGone, N!HandleBack, N!cursor
  <2>4. CASE NativeCalls
    BY <2>1, <2>2, <2>4 DEF NativeCalls, N!Initialize, N!SetHitTest, N!SetCursorEnabled, N!SetSystemCursor,
       N!Tick
  <2>5. CASE NativeServes
    BY <1>0, <2>5 DEF NativeServes, N!PointerEnters, N!PointerLeaves, N!PointerMoves, N!ButtonGoesDown,
       N!ButtonComesUp, N!AnswerMove, N!FocusChanges, N!SeatChanges
  <2> QED  BY <2>3, <2>4, <2>5, StutterLeaves, NativeSteps
<1> QED  BY <1>1, <1>2, <1>4

\* What a handler did, and where the press went.
LEMMA NativeToldKept ==
  ASSUME NativeAssumption, NativeTyped, NativeQueued, NativeTold, [N!Next]_N!vars PROVE NativeTold'
<1> USE DEF NativeTold
<1>1. N!NoPress \in [to : {N!Nothing, "application", "caption", "edge"}, from : Points \cup {0}]
  BY DEF N!NoPress
<1>2. CASE N!HandlePress
  <2>1. PressedAt \in Points  BY <1>2, PressIsPlaced
  <2>2. \A to \in {"application", "caption", "edge"}, p \in Points :
          [to |-> to, from |-> p] \in [to : {N!Nothing, "application", "caption", "edge"}, from : Points \cup {0}]
    OBVIOUS
  <2> HIDE DEF PressedAt
  <2>3. went' \in [to : {N!Nothing, "application", "caption", "edge"}, from : Points \cup {0}]
    <3>1. \E to \in {"application", "caption", "edge"}, p \in Points : went' = [to |-> to, from |-> p]
      BY <1>2, <2>1, PressOutcome
    <3> QED  BY <2>2, <3>1
  <2>4. did' \in {N!Nothing, "press", "toggle", "resize"}  BY <1>2, PressOutcome
  <2> QED  BY <2>3, <2>4
<1>3. CASE N!HandleRelease  BY <1>1, <1>3 DEF N!HandleRelease, N!TakeRelease
<1>4. CASE N!HandleMotion  BY <1>4 DEF N!HandleMotion, N!Drag
<1>5. CASE N!HandleEnter \/ N!HandleLeave \/ N!HandleFocus \/ N!HandleGone \/ N!HandleBack
  BY <1>1, <1>5 DEF N!HandleEnter, N!HandleLeave, N!HandleFocus, N!HandleGone, N!HandleBack, N!claims
<1>6. CASE NativeCalls
  <2>1. did' = N!Nothing
    BY <1>6 DEF NativeCalls, N!Initialize, N!SetHitTest, N!SetCursorEnabled, N!SetSystemCursor, N!Tick
  <2> QED  BY <1>6, <2>1, CallsLeave
<1> QED  BY <1>2, <1>3, <1>4, <1>5, <1>6, ServesLeave, StutterLeaves, NativeSteps DEF NativeHandles

\* The gesture and the clicks stay typed.
LEMMA NativeGesturesKept ==
  ASSUME NativeAssumption, NativeTyped, NativeQueued, NativeGestures, [N!Next]_N!vars PROVE NativeGestures'
<1> USE DEF NativeGestures
<1>0. N!GestureAssumption  BY DEF NativeAssumption
<1>1. CASE N!HandlePress
  <2>1. PressedAt \in Points  BY <1>1, PressIsPlaced
  <2>2. N!Press(caption, PressedAt) \in N!Gestures /\ N!Click(PressedAt) \subseteq Clicks
    BY <1>0, <2>1, PressTyped, ClickTyped DEF Clicks
  <2> HIDE DEF PressedAt
  <2> QED  BY <1>1, <2>2, PressOutcome
<1>2. CASE N!HandleRelease  BY <1>0, <1>2, MovedTyped DEF N!HandleRelease, N!TakeRelease
<1>3. CASE N!HandleMotion
  <2>1. N!Moved(caption, Head(events).at) \in N!Gestures  BY <1>0, MovedTyped
  <2> QED  BY <1>3, <2>1 DEF N!HandleMotion, N!Drag
<1>4. CASE N!HandleLeave  BY <1>0, <1>4, MovedTyped DEF N!HandleLeave
<1>5. CASE N!HandleEnter \/ N!HandleFocus \/ N!HandleGone \/ N!HandleBack
  BY <1>5 DEF N!HandleEnter, N!HandleFocus, N!HandleGone, N!HandleBack, N!claims
<1>6. CASE N!Tick
  <2>1. N!Aged(caption) \in N!Gestures /\ Recent(clicks) \subseteq Clicks  BY <1>0, AgedTyped DEF Clicks
  <2> QED  BY <1>6, <2>1 DEF N!Tick, Recent
<1>7. CASE NativeCalls /\ ~N!Tick  BY <1>7, CallsLeave
<1> QED
  BY <1>1, <1>2, <1>3, <1>4, <1>5, <1>6, <1>7, ServesLeave, StutterLeaves, NativeSteps DEF NativeHandles

-----------------------------------------------------------------------------
(* The queue.                                                               *)

\* A handler takes the first event, the one of its type.
LEMMA HandledBy ==
  ASSUME NativeHandles
  PROVE  /\ events # <<>> /\ events' = Tail(events)
         /\ Head(events).type = "enter" => N!HandleEnter
         /\ Head(events).type = "leave" => N!HandleLeave
         /\ Head(events).type = "press" => N!HandlePress
         /\ Head(events).type = "release" => N!HandleRelease
         /\ Head(events).type = "gone" => N!HandleGone
         /\ Head(events).type = "back" => N!HandleBack
         /\ Head(events).type \in {"motion", "focus", "unfocus"} => N!HandleMotion \/ N!HandleFocus
BY DEF NativeHandles, N!HandleEnter, N!HandleLeave, N!HandleMotion, N!HandlePress, N!HandleRelease,
   N!HandleFocus, N!HandleGone, N!HandleBack, N!Handle

\* The button is held only over the window.
LEMMA HeldInsideKept == ASSUME HeldInside, [N!Next]_N!vars PROVE HeldInside'
<1> USE DEF HeldInside
<1>1. CASE NativeServes
  BY <1>1 DEF NativeServes, N!PointerEnters, N!PointerLeaves, N!PointerMoves, N!ButtonGoesDown,
     N!ButtonComesUp, N!AnswerMove, N!FocusChanges, N!SeatChanges, N!server
<1> QED  BY <1>1, HandlesLeave, CallsLeave, StutterLeaves, NativeSteps

\* Where a pointer is over the window on Wayland, the client has one, or will soon have lost it.
LEMMA InsideIsReady ==
  ASSUME NativeQueued, NativeAttached, N!OnWayland, inside
  PROVE  ready /\ \A n \in 1 .. Len(events) : events[n].type \notin {"gone", "back"}
<1>1. Since(events, Len(events), {}, {"gone", "back"}, ready)  BY DEF NativeAttached, Paired
<1>2. Len(events) \in Nat
  <2> HIDE DEF Sendable
  <2> QED  BY DEF NativeQueued
<1> QED  BY <1>1, <1>2 DEF Since

\* What the server's steps add to the queue.
LEMMA ServesSend ==
  ASSUME NativeAssumption, NativeTyped, NativeSerials, NativeQueued, HeldInside, NativeAttached,
         NativeServes
  PROVE  \/ /\ UNCHANGED events
            /\ held' # 0 => held # 0
            /\ N!OnWayland => inside' = inside /\ UNCHANGED entered
         \/ \E e \in Sendable :
              /\ events' = Append(events, e)
              /\ e.type = "release" => held # 0
              /\ held' # 0 => e \in Presses \/ (held # 0 /\ e.type \notin {"enter", "leave", "gone", "release"})
              /\ e.type = "enter" => N!OnWayland /\ ~inside
              /\ N!OnWayland /\ ~inside' => e \in Ends \/ (~inside /\ e.type # "press")
              /\ N!OnWayland /\ inside' => \/ N!PointerEnters
                                         \/ /\ inside /\ UNCHANGED entered
                                            /\ e.type \notin {"enter", "leave", "gone", "back"}
<1>0. serial \in Nat  BY DEF NativeSerials
<1>1. CASE N!PointerEnters
  <2>1. UNCHANGED held /\ held = 0 /\ ~inside /\ inside'  BY <1>1 DEF N!PointerEnters, HeldInside
  <2>2. CASE N!OnWayland
    <3> DEFINE e == [type |-> "enter", at |-> at', serial |-> serial']
    <3>1. serial' \in 1 .. MaxSerial /\ at' \in Points /\ events' = Append(events, e)
      BY <1>1, <2>2 DEF N!PointerEnters, NativeSerials, NativeAssumption, N!PointerBoundsAssumption, N!Send
    <3>2. e \in Sendable  BY <2>2, <3>1, SendableEvents DEF Enters
    <3> QED  BY <1>1, <2>1, <2>2, <3>1, <3>2
  <2>3. CASE ~N!OnWayland
    <3> DEFINE e == [type |-> "motion", at |-> at']
    <3>1. e \in Sendable /\ events' = Append(events, e)
      BY <1>1, <2>3, SendableEvents DEF N!PointerEnters, N!Send
    <3> QED  BY <2>1, <2>3, <3>1
  <2> QED  BY <2>2, <2>3
<1>2. CASE N!PointerLeaves
  <2>1. CASE N!OnWayland
    <3> DEFINE e == [type |-> "leave"]
    <3>1. e \in Sendable /\ e \in Ends /\ events' = Append(events, e) /\ held' = 0 /\ ~inside'
      BY <1>2, <2>1, SendableEvents DEF N!PointerLeaves, N!Send, Ends
    <3> QED  BY <3>1
  <2>2. CASE ~N!OnWayland  BY <1>2, <2>2 DEF N!PointerLeaves
  <2> QED  BY <2>1, <2>2
<1>3. CASE N!PointerMoves
  <2> DEFINE e == [type |-> "motion", at |-> at']
  <2>1. e \in Sendable /\ events' = Append(events, e) /\ UNCHANGED <<inside, held, entered>> /\ inside
    BY <1>3, SendableEvents DEF N!PointerMoves, N!Send
  <2> QED  BY <2>1
<1>4. CASE N!ButtonGoesDown
  <2> DEFINE e == [type |-> "press", at |-> at]
  <2>1. e \in Sendable /\ e \in Presses /\ events' = Append(events, e) /\ UNCHANGED <<inside, entered>> /\ inside
    BY <1>4, SendableEvents DEF N!ButtonGoesDown, N!Send, NativeTyped, Presses
  <2> QED  BY <2>1
<1>5. CASE N!ButtonComesUp
  <2> DEFINE e == [type |-> "release"]
  <2>1. /\ e \in Sendable /\ events' = Append(events, e) /\ UNCHANGED <<inside, entered>> /\ inside
        /\ held # 0 /\ held' = 0
    BY <1>5, SendableEvents DEF N!ButtonComesUp, N!Send, HeldInside
  <2> QED  BY <2>1
<1>6. CASE N!AnswerMove
  <2>1. UNCHANGED entered  BY <1>6 DEF N!AnswerMove
  <2>2. CASE UNCHANGED <<held, inside, events>>  BY <2>1, <2>2
  <2>3. CASE held' = 0 /\ inside' = FALSE /\ N!OnWayland /\ N!Send([type |-> "leave"])
    <3> DEFINE e == [type |-> "leave"]
    <3>1. e \in Sendable /\ e \in Ends /\ events' = Append(events, e)
      BY <2>3, SendableEvents DEF N!Send, Ends
    <3> QED  BY <2>3, <3>1
  <2>4. CASE held' = 0 /\ ~N!OnWayland /\ UNCHANGED events  BY <2>4
  <2> QED  BY <1>6, <2>2, <2>3, <2>4 DEF N!AnswerMove
<1>7. CASE N!FocusChanges
  <2>1. PICK type \in {"focus", "unfocus"} : N!Send([type |-> type])  BY <1>7 DEF N!FocusChanges
  <2> DEFINE e == [type |-> type]
  <2>2. e \in Sendable /\ events' = Append(events, e) /\ UNCHANGED <<inside, held, entered>> /\ ~N!OnWayland
    BY <1>7, <2>1, SendableEvents DEF N!FocusChanges, N!Send, N!server
  <2> QED  BY <2>2
<1>8. CASE N!SeatChanges
  <2> DEFINE e == [type |-> IF ready THEN "gone" ELSE "back"]
  <2>1. e \in Sendable /\ events' = Append(events, e) /\ inside' = FALSE /\ held' = 0
    BY <1>8, SendableEvents DEF N!SeatChanges, N!Send
  <2>2. ready => e \in Ends  BY DEF Ends
  <2>3. ~ready /\ N!OnWayland => ~inside  BY InsideIsReady
  <2> QED  BY <2>1, <2>2, <2>3
<1> QED  BY <1>1, <1>2, <1>3, <1>4, <1>5, <1>6, <1>7, <1>8 DEF NativeServes

\* A handled press goes somewhere, and is claimed unless it is the application's.
LEMMA PressTells ==
  ASSUME NativeAssumption, NativeTyped, NativeQueued, N!HandlePress
  PROVE  Told'
<1>1. \/ claimed' = FALSE /\ went'.to = "application"
      \/ claimed' = TRUE /\ went'.to = "caption"
      \/ claimed' = TRUE /\ went'.to = "edge"
  <2>1. ASSUME NEW to, NEW p, went' = [to |-> to, from |-> p] PROVE went'.to = to
    BY <2>1
  <2> HIDE DEF PressedAt
  <2> QED  BY <2>1, PressOutcome
<1>2. CASE claimed' = FALSE /\ went'.to = "application"  BY <1>2 DEF Told, N!Nothing
<1>3. CASE claimed' = TRUE /\ went'.to = "caption"  BY <1>3 DEF Told, N!Nothing
<1>4. CASE claimed' = TRUE /\ went'.to = "edge"  BY <1>4 DEF Told, N!Nothing
<1> QED  BY <1>1, <1>2, <1>3, <1>4

\* A release stays behind its press: the server sends one only while the button is held.
LEMMA NativeOpenedKept ==
  ASSUME NativeAssumption, NativeTyped, NativeSerials, NativeQueued, HeldInside, NativeAttached,
         NativeOpened, [N!Next]_N!vars
  PROVE  NativeOpened'
<1> DEFINE E == {"release"}
           A == Presses
           R == {"enter", "leave", "gone", "release"}
<1>0. events \in Seq(Sendable) /\ Paired(events, E, A, R, Told, held # 0)  BY DEF NativeQueued, NativeOpened
<1> SUFFICES Paired(events', E, A, R, Told', held' # 0)
  BY DEF NativeOpened, Presses
<1> HIDE DEF E, A, R
<1>1. CASE NativeHandles
  <2>1. UNCHANGED held /\ events # <<>> /\ events' = Tail(events)  BY <1>1, HandlesLeave, HandledBy
  <2>2. Head(events) \in A => Told'
    <3>1. Head(events) \in A => N!HandlePress  BY <1>1, HandledBy DEF A, Presses
    <3> QED  BY <3>1, PressTells
  <2>3. Told /\ Head(events).type \notin R => Told'
    <3>1. Head(events).type \notin R => N!HandlePress \/ N!HandleMotion \/ N!HandleFocus \/ N!HandleBack
      BY <1>1, HandledBy DEF NativeHandles, R, N!HandleEnter, N!HandleLeave, N!HandleRelease, N!HandleGone,
         N!Handle
    <3>2. N!HandlePress => Told'  BY PressTells
    <3>3. N!HandleMotion \/ N!HandleFocus \/ N!HandleBack => UNCHANGED <<claimed, went>>
      BY DEF N!HandleMotion, N!HandleFocus, N!HandleBack, N!claims
    <3> QED  BY <3>1, <3>2, <3>3 DEF Told
  <2> QED  BY <1>0, <2>1, <2>2, <2>3, PairedTaken DEF Told
<1>2. CASE NativeCalls \/ UNCHANGED N!vars
  <2>1. UNCHANGED <<events, held, claimed, went>>  BY <1>2, CallsLeave, StutterLeaves
  <2> QED  BY <1>0, <2>1 DEF Told
<1>3. CASE NativeServes
  <2>1. Told' = Told  BY <1>3, ServesLeave DEF Told
  <2>2. CASE UNCHANGED events /\ (held' # 0 => held # 0)  BY <1>0, <2>1, <2>2, PairedWeaker DEF Told
  <2>3. CASE \E e \in Sendable :
              /\ events' = Append(events, e)
              /\ e.type = "release" => held # 0
              /\ held' # 0 => e \in Presses \/ (held # 0 /\ e.type \notin {"enter", "leave", "gone", "release"})
    <3>1. PICK e \in Sendable :
              /\ events' = Append(events, e)
              /\ e.type = "release" => held # 0
              /\ held' # 0 => e \in Presses \/ (held # 0 /\ e.type \notin {"enter", "leave", "gone", "release"})
      BY <2>3
    <3>2. (e.type \in E => held # 0) /\ (held' # 0 => e \in A \/ (held # 0 /\ e.type \notin R))
      BY <3>1 DEF E, A, R
    <3>3. Paired(Append(events, e), E, A, R, Told, held' # 0)
      <4> HIDE DEF Sendable
      <4> QED  BY <1>0, <3>2, PairedEnd
    <3> QED  BY <2>1, <3>1, <3>3
  <2> QED  BY <1>3, <2>2, <2>3, ServesSend
<1> QED  BY <1>1, <1>2, <1>3, NativeSteps

\* An enter stays behind the leave that ended the gesture before.
LEMMA NativeClosedKept ==
  ASSUME NativeAssumption, NativeTyped, NativeSerials, NativeQueued, NativeGestures, HeldInside,
         NativeAttached,
         NativeClosed, [N!Next]_N!vars
  PROVE  NativeClosed'
<1> DEFINE E == {"enter"}
           A == Ends
           R == {"press"}
<1>0. events \in Seq(Sendable) /\ Paired(events, E, A, R, Ended, N!OnWayland /\ ~inside)
  BY DEF NativeQueued, NativeClosed
<1>a. N!GestureAssumption /\ caption \in N!Gestures  BY DEF NativeAssumption, NativeGestures
<1> SUFFICES Paired(events', E, A, R, Ended', N!OnWayland' /\ ~inside')
  BY DEF NativeClosed, Ends
<1> HIDE DEF E, A, R
<1>1. CASE NativeHandles
  <2>1. UNCHANGED <<N!OnWayland, inside>> /\ events # <<>> /\ events' = Tail(events)
    BY <1>1, HandlesLeave, HandledBy DEF N!OnWayland
  <2>2. Head(events) \in A => Ended'
    <3>1. Head(events) \in A => N!HandleLeave \/ N!HandleGone  BY <1>1, HandledBy DEF A, Ends
    <3>2. N!HandleLeave => caption' = N!Idle  BY <1>a, MovedTyped DEF N!HandleLeave
    <3>3. N!HandleGone => went'.to = N!Nothing  BY DEF N!HandleGone, N!NoPress
    <3> QED  BY <3>1, <3>2, <3>3 DEF Ended, N!Nothing
  <2>3. Ended /\ Head(events).type \notin R => Ended'
    <3>1. Head(events).type \notin R => ~N!HandlePress  BY DEF N!HandlePress, N!Handle, R
    <3>2. CASE N!HandleEnter \/ N!HandleFocus \/ N!HandleBack
      BY <3>2 DEF N!HandleEnter, N!HandleFocus, N!HandleBack, N!claims, Ended
    <3>3. CASE N!HandleLeave  BY <1>a, <3>3, MovedTyped DEF N!HandleLeave, Ended
    <3>4. CASE N!HandleGone \/ N!HandleRelease
      BY <3>4 DEF N!HandleGone, N!HandleRelease, N!TakeRelease, N!NoPress, Ended, N!Nothing
    <3>5. CASE N!HandleMotion
      <4>1. \A p : N!Moved(N!Idle, p) = N!Idle  BY DEF N!Moved, N!Travels, N!Idle
      <4>2. UNCHANGED went /\ (UNCHANGED caption \/ caption' = N!Moved(caption, Head(events).at))
        BY <3>5 DEF N!HandleMotion, N!Drag
      <4> QED  BY <4>1, <4>2 DEF Ended
    <3> QED  BY <1>1, <3>1, <3>2, <3>3, <3>4, <3>5 DEF NativeHandles
  <2> QED  BY <1>0, <2>1, <2>2, <2>3, PairedTaken DEF Ended, N!OnWayland
<1>2. CASE NativeCalls \/ UNCHANGED N!vars
  <2>1. UNCHANGED <<events, N!OnWayland, inside, went>>  BY <1>2, CallsLeave, StutterLeaves DEF N!OnWayland
  <2>2. Ended => Ended'
    <3>1. N!Aged(N!Idle) = N!Idle  BY DEF N!Aged, N!Idle, N!Older
    <3>2. UNCHANGED caption \/ caption' = N!Aged(caption)  BY <1>2, CallsLeave, StutterLeaves DEF N!Tick
    <3> QED  BY <2>1, <3>1, <3>2 DEF Ended
  <2> QED  BY <1>0, <2>1, <2>2, PairedWeaker
<1>3. CASE NativeServes
  <2>1. Ended' = Ended /\ N!OnWayland' = N!OnWayland  BY <1>3, ServesLeave DEF Ended, N!OnWayland
  <2>2. CASE UNCHANGED events /\ (N!OnWayland => inside' = inside)
    <3>1. N!OnWayland' /\ ~inside' => N!OnWayland /\ ~inside  BY <2>1, <2>2
    <3> QED  BY <1>0, <2>1, <2>2, <3>1, PairedWeaker
  <2>3. CASE \E e \in Sendable :
              /\ events' = Append(events, e)
              /\ e.type = "enter" => N!OnWayland /\ ~inside
              /\ N!OnWayland /\ ~inside' => e \in Ends \/ (~inside /\ e.type # "press")
    <3>1. PICK e \in Sendable :
              /\ events' = Append(events, e)
              /\ e.type = "enter" => N!OnWayland /\ ~inside
              /\ N!OnWayland /\ ~inside' => e \in Ends \/ (~inside /\ e.type # "press")
      BY <2>3
    <3>2. /\ e.type \in E => N!OnWayland /\ ~inside
          /\ N!OnWayland /\ ~inside' => e \in A \/ ((N!OnWayland /\ ~inside) /\ e.type \notin R)
      BY <3>1 DEF E, A, R
    <3>3. Paired(Append(events, e), E, A, R, Ended, N!OnWayland /\ ~inside')
      <4> HIDE DEF Sendable
      <4> QED  BY <1>0, <3>2, PairedEnd
    <3> QED  BY <2>1, <3>1, <3>3
  <2> QED  BY <1>3, <2>2, <2>3, ServesSend
<1> QED  BY <1>1, <1>2, <1>3, NativeSteps

\* A pointer that enters finds the client attached.
LEMMA NativeAttachedKept ==
  ASSUME NativeAssumption, NativeTyped, NativeSerials, NativeQueued, HeldInside, NativeAttached,
         [N!Next]_N!vars
  PROVE  NativeAttached'
<1> DEFINE E == {"enter"}
           A == {}
           R == {"gone", "back"}
<1>0. UNCHANGED setup
  BY HandlesLeave, CallsLeave, ServesLeave, StutterLeaves, NativeSteps
<1> SUFFICES ASSUME N!OnWayland PROVE Paired(events', E, A, R, ready', inside')
  BY <1>0 DEF NativeAttached, N!OnWayland
<1>a. events \in Seq(Sendable) /\ Paired(events, E, A, R, ready, inside)
  BY DEF NativeQueued, NativeAttached
<1> HIDE DEF E, R
<1>1. CASE NativeHandles
  <2>1. UNCHANGED inside /\ events # <<>> /\ events' = Tail(events)  BY <1>1, HandlesLeave, HandledBy
  <2>2. ready /\ Head(events).type \notin R => ready'
    BY <1>1 DEF NativeHandles, N!HandleEnter, N!HandleLeave, N!HandleMotion, N!HandlePress, N!HandleRelease,
       N!HandleFocus, N!HandleGone, N!HandleBack, N!Handle, R, N!link
  <2>3. Head(events) \in A => ready'  OBVIOUS
  <2>4. {ready, ready', inside, inside'} \subseteq BOOLEAN  BY <2>1, NativeTypedKept DEF NativeTyped
  <2> HIDE DEF A
  <2> QED  BY <1>a, <2>1, <2>2, <2>3, <2>4, PairedTaken
<1>2. CASE NativeCalls \/ UNCHANGED N!vars
  <2>1. UNCHANGED <<events, inside, ready>>  BY <1>2, CallsLeave, StutterLeaves DEF N!Initialize
  <2> QED  BY <1>a, <2>1
<1>3. CASE N!PointerEnters
  <2> DEFINE e == [type |-> "enter", at |-> at', serial |-> serial']
  <2>0. Len(events) \in Nat
    <3> HIDE DEF Sendable
    <3> QED  BY <1>a
  <2>1. ready /\ UNCHANGED ready /\ \A k \in 1 .. Len(events) : events[k].type \notin R
    BY <1>3 DEF N!PointerEnters, N!client, R
  <2>2. Paired(events, E, A, R, ready, TRUE)  BY <1>a, <2>0, <2>1, PairedMet
  <2>3. e \in Sendable /\ events' = Append(events, e)
    <3>1. serial' \in 1 .. MaxSerial /\ at' \in Points /\ events' = Append(events, e)
      BY <1>3 DEF N!PointerEnters, NativeSerials, NativeAssumption, N!PointerBoundsAssumption, N!Send
    <3> QED  BY <3>1, SendableEvents DEF Enters
  <2>4. e.type \notin R  BY DEF R
  <2> HIDE DEF Sendable, A, e
  <2>5. Paired(Append(events, e), E, A, R, ready, inside')  BY <1>a, <2>2, <2>3, <2>4, PairedEnd
  <2> QED  BY <2>1, <2>3, <2>5
<1>4. CASE NativeServes /\ ~N!PointerEnters
  <2>1. UNCHANGED ready  BY <1>4, ServesLeave
  <2>2. CASE UNCHANGED events /\ inside' = inside  BY <1>a, <2>1, <2>2
  <2>3. CASE \E e \in Sendable :
              /\ events' = Append(events, e) /\ (e.type = "enter" => ~inside)
              /\ inside' => inside /\ e.type \notin {"enter", "leave", "gone", "back"}
    <3>1. PICK e \in Sendable :
              /\ events' = Append(events, e) /\ (e.type = "enter" => ~inside)
              /\ inside' => inside /\ e.type \notin {"enter", "leave", "gone", "back"}
      BY <2>3
    <3>2. CASE e.type # "enter"
      <4>1. e.type \notin E /\ (inside' => inside /\ e.type \notin R)  BY <3>1, <3>2 DEF E, R
      <4> HIDE DEF Sendable, A
      <4>2. Paired(Append(events, e), E, A, R, ready, inside')  BY <1>a, <4>1, PairedEnd
      <4> QED  BY <2>1, <3>1, <4>2
    <3>3. CASE e.type = "enter"
      <4>1. (\E d : events' = Append(events, d) /\ d.type # "enter") \/ UNCHANGED events
        BY <1>4 DEF NativeServes, N!PointerLeaves, N!PointerMoves, N!ButtonGoesDown, N!ButtonComesUp,
           N!AnswerMove, N!FocusChanges, N!SeatChanges, N!Send
      <4>2. /\ Len(events) \in Nat
            /\ \A d : Len(Append(events, d)) = Len(events) + 1 /\ Append(events, d)[Len(events) + 1] = d
        <5> HIDE DEF Sendable
        <5> QED  BY <1>a
      <4> HIDE DEF Sendable
      <4>3. ~UNCHANGED events
        <5> SUFFICES ASSUME UNCHANGED events PROVE FALSE
          OBVIOUS
        <5>1. Len(Append(events, e)) = Len(events)  BY <3>1
        <5> QED  BY <4>2, <5>1
      <4>4. PICK d : events' = Append(events, d) /\ d.type # "enter"  BY <4>1, <4>3
      <4>5. d = e  BY <3>1, <4>2, <4>4
      <4> QED  BY <3>3, <4>4, <4>5
    <3> QED  BY <3>2, <3>3
  <2> QED  BY <1>4, <2>2, <2>3, ServesSend
<1> QED  BY <1>1, <1>2, <1>3, <1>4, NativeSteps DEF NativeServes

\* On Wayland the focus goes with the pointer object.
LEMMA FocusedIsReadyKept ==
  ASSUME NativeQueued, NativeAttached, FocusedIsReady, [N!Next]_N!vars PROVE FocusedIsReady'
<1> USE DEF FocusedIsReady
<1>0. UNCHANGED setup
  BY HandlesLeave, CallsLeave, ServesLeave, StutterLeaves, NativeSteps
<1> SUFFICES ASSUME N!OnWayland, focused' PROVE ready'
  BY <1>0 DEF N!OnWayland
<1>1. CASE N!HandleEnter
  <2>1. events \in Seq(Sendable) /\ events # <<>> /\ Head(events).type \in {"enter"}
    BY <1>1 DEF N!HandleEnter, N!Handle, NativeQueued
  <2> HIDE DEF Sendable
  <2>2. ready  BY <2>1, PairedNow DEF NativeAttached
  <2> QED  BY <1>1, <2>2 DEF N!HandleEnter
<1>2. CASE N!HandleFocus  BY <1>2, NativeTakes DEF N!HandleFocus
<1>3. CASE N!HandleLeave \/ N!HandleMotion \/ N!HandlePress \/ N!HandleRelease \/ N!HandleGone \/ N!HandleBack
  BY <1>3 DEF N!HandleLeave, N!HandleMotion, N!HandlePress, N!HandleRelease, N!HandleGone, N!HandleBack,
     N!link
<1>4. CASE NativeCalls  BY <1>4, CallsLeave DEF N!Initialize
<1> QED  BY <1>1, <1>2, <1>3, <1>4, ServesLeave, StutterLeaves, NativeSteps DEF NativeHandles

\* The client that has handled every enter knows the last one's serial.
LEMMA NativeCaughtKept ==
  ASSUME NativeAssumption, NativeTyped, NativeSerials, NativeQueued, HeldInside, NativeAttached,
         NativeCaught, [N!Next]_N!vars
  PROVE  NativeCaught'
<1> DEFINE E == {}
           A == EntersNow
           R == {"enter", "leave", "gone"}
           b == enterSerial = entered
<1>0. UNCHANGED setup
  BY HandlesLeave, CallsLeave, ServesLeave, StutterLeaves, NativeSteps
<1>1. CASE ~(N!OnWayland' /\ inside')
  BY <1>1, PairedNever DEF NativeCaught
<1>2. CASE N!OnWayland' /\ inside'
  <2>0. N!OnWayland /\ events \in Seq(Sendable) /\ Paired(events, E, A, R, b, N!OnWayland /\ inside)
    BY <1>0, <1>2 DEF N!OnWayland, NativeQueued, NativeCaught
  <2> SUFFICES Paired(events', E, A', R, b', TRUE)
    BY <1>2 DEF NativeCaught
  <2>a. UNCHANGED entered => A' = A  BY DEF EntersNow, Enters
  <2>1. CASE NativeHandles
    <3>1. UNCHANGED <<inside, entered>> /\ events # <<>> /\ events' = Tail(events)
      BY <2>1, HandlesLeave, HandledBy
    <3>2. Head(events) \in A => b'
      <4>1. Head(events) \in A => N!HandleEnter /\ Head(events).serial = entered
        BY <2>1, HandledBy DEF EntersNow, Enters
      <4> QED  BY <3>1, <4>1 DEF N!HandleEnter
    <3>3. b /\ Head(events).type \notin R => b'
      BY <2>1, <3>1 DEF NativeHandles, N!HandleEnter, N!HandleLeave, N!HandleMotion, N!HandlePress,
         N!HandleRelease, N!HandleFocus, N!HandleGone, N!HandleBack, N!Handle, N!link
    <3>4. inside  BY <1>2, <3>1
    <3>5. A' = A  BY <2>a, <3>1
    <3> HIDE DEF Sendable, E, A, R, b
    <3>6. Paired(Tail(events), E, A, R, b', TRUE)  BY <2>0, <3>1, <3>2, <3>3, <3>4, PairedTaken
    <3> QED  BY <3>1, <3>5, <3>6
  <2>2. CASE NativeCalls \/ UNCHANGED N!vars
    <3>1. UNCHANGED <<events, inside, entered, enterSerial>>  BY <2>2, CallsLeave, StutterLeaves
    <3>2. A' = A /\ b' = b /\ inside  BY <1>2, <2>a, <3>1
    <3> HIDE DEF E, A, R, b
    <3> QED  BY <2>0, <3>1, <3>2
  <2>3. CASE N!PointerEnters
    <3> DEFINE e == [type |-> "enter", at |-> at', serial |-> serial']
    <3>1. serial' \in 1 .. MaxSerial /\ at' \in Points /\ events' = Append(events, e) /\ entered' = serial'
      BY <2>0, <2>3 DEF N!PointerEnters, NativeSerials, NativeAssumption, N!PointerBoundsAssumption, N!Send
    <3>2. e \in Sendable  BY <2>0, <3>1, SendableEvents DEF Enters
    <3>3. e \in A' /\ e.type \notin E  BY <3>1 DEF EntersNow, Enters
    <3>4. Paired(events, E, A', R, b', FALSE)  BY PairedNever
    <3> DEFINE U == A'
               c == b'
    <3> HIDE DEF Sendable, E, R, U, c, e
    <3>5. Paired(Append(events, e), E, U, R, c, TRUE)  BY <2>0, <3>2, <3>3, <3>4, PairedEnd DEF U, c
    <3> QED  BY <3>1, <3>5 DEF U, c
  <2>4. CASE NativeServes /\ ~N!PointerEnters
    <3>1. UNCHANGED enterSerial  BY <2>4, ServesLeave
    <3>2. CASE UNCHANGED events /\ inside' = inside /\ UNCHANGED entered
      <4>1. A' = A /\ b' = b /\ inside  BY <1>2, <2>a, <3>1, <3>2
      <4> HIDE DEF E, A, R, b
      <4> QED  BY <2>0, <3>2, <4>1
    <3>3. CASE \E e \in Sendable :
                 /\ events' = Append(events, e) /\ inside /\ UNCHANGED entered
                 /\ e.type \notin {"enter", "leave", "gone", "back"}
      <4>1. PICK e \in Sendable :
                 /\ events' = Append(events, e) /\ inside /\ UNCHANGED entered
                 /\ e.type \notin {"enter", "leave", "gone", "back"}
        BY <3>3
      <4>2. A' = A /\ b' = b /\ e.type \notin E /\ e.type \notin R  BY <2>a, <3>1, <4>1
      <4> HIDE DEF Sendable, E, A, R, b
      <4>3. Paired(Append(events, e), E, A, R, b, TRUE)  BY <2>0, <4>1, <4>2, PairedEnd
      <4> QED  BY <4>1, <4>2, <4>3
    <3> QED  BY <1>2, <2>0, <2>4, <3>2, <3>3, ServesSend
  <2> QED  BY <2>1, <2>2, <2>3, <2>4, NativeSteps
<1> QED  BY <1>1, <1>2

-----------------------------------------------------------------------------
(* The gesture.                                                             *)

\* The gesture holds the clicks of the history only, and the press that began it.
LEMMA NativeFollowsKept ==
  ASSUME NativeAssumption, NativeTyped, NativeQueued, NativeTold, NativeGestures, NativeClosed,
         NativeFollows, [N!Next]_N!vars
  PROVE  NativeFollows'
<1> USE DEF NativeFollows, Ended
<1>0. N!GestureAssumption /\ caption \in N!Gestures /\ clicks \subseteq Clicks
  BY DEF NativeAssumption, NativeGestures
<1>1. CASE N!HandleEnter
  <2>1. events \in Seq(Sendable) /\ events # <<>> /\ Head(events).type \in {"enter"}
    BY <1>1 DEF N!HandleEnter, N!Handle, NativeQueued
  <2>2. went.to = "caption" => caption = N!Idle  BY <2>1, PairedNow DEF NativeClosed
  <2>3. UNCHANGED <<caption, went, clicks>>  BY <1>1 DEF N!HandleEnter
  <2> QED  BY <2>2, <2>3
<1>2. CASE N!HandleLeave
  <2>1. caption' = N!Idle  BY <1>0, <1>2, MovedTyped DEF N!HandleLeave
  <2> QED  BY <2>1, TracedIdle
<1>3. CASE N!HandleMotion
  <2> DEFINE p == Head(events).at
  <2>1. UNCHANGED <<claimed, went>>  BY <1>3 DEF N!HandleMotion
  <2>2. CASE UNCHANGED <<caption, clicks>>  BY <2>1, <2>2
  <2>3. CASE N!Drag(p)
    <3>1. /\ caption' = IF claimed THEN N!Moved(caption, p) ELSE caption
          /\ clicks' = IF went.to = "caption" /\ N!Distance(went.from, p) >= DragThreshold THEN {} ELSE clicks
      BY <2>3 DEF N!Drag
    <3>2. /\ Traced(N!Moved(caption, p), clicks)
          /\ Began(caption, went.from) => Began(N!Moved(caption, p), went.from)
          /\ Began(caption, went.from) /\ N!Distance(went.from, p) >= DragThreshold => N!Moved(caption, p) = N!Idle
      BY TracedMoved
    <3>3. Traced(N!Idle, clicks') /\ Began(N!Idle, went.from)  BY TracedIdle
    <3> HIDE DEF p
    <3>4. CASE claimed  BY <2>1, <3>1, <3>2, <3>3, <3>4
    <3>5. CASE ~claimed  BY <2>1, <3>1, <3>3, <3>5
    <3> QED  BY <3>4, <3>5
  <2> QED  BY <1>3, <2>2, <2>3 DEF N!HandleMotion
<1>4. CASE N!HandlePress
  <2> DEFINE p == PressedAt
  <2>1. /\ Traced(N!Press(caption, p), IF N!IsDoubleClick(caption, p) THEN {} ELSE clicks \cup N!Click(p))
        /\ Began(N!Press(caption, p), p)
    BY <1>0, TracedPress
  <2>2. \/ went'.to \in {"application", "edge"} /\ UNCHANGED <<caption, clicks>>
        \/ /\ claimed' = TRUE /\ went' = [to |-> "caption", from |-> p] /\ caption' = N!Press(caption, p)
           /\ clicks' = IF N!IsDoubleClick(caption, p) THEN {} ELSE clicks \cup N!Click(p)
    <3>1. ASSUME NEW to, NEW q, went' = [to |-> to, from |-> q] PROVE went'.to = to
      BY <3>1
    <3> HIDE DEF PressedAt
    <3> QED  BY <1>4, <3>1, PressOutcome
  <2> HIDE DEF p
  <2>3. CASE went'.to \in {"application", "edge"} /\ UNCHANGED <<caption, clicks>>  BY <2>3
  <2>4. CASE /\ claimed' = TRUE /\ went' = [to |-> "caption", from |-> p] /\ caption' = N!Press(caption, p)
             /\ clicks' = IF N!IsDoubleClick(caption, p) THEN {} ELSE clicks \cup N!Click(p)
    <3>1. went'.from = p  BY <2>4
    <3>2. Traced(caption', clicks') /\ Began(caption', went'.from)  BY <2>1, <2>4, <3>1
    <3> QED  BY <2>4, <3>2
  <2> QED  BY <2>2, <2>3, <2>4
<1>5. CASE N!HandleRelease
  <2>1. went'.to = N!Nothing /\ UNCHANGED clicks  BY <1>5 DEF N!HandleRelease, N!TakeRelease, N!NoPress
  <2>2. Traced(caption', clicks)  BY <1>5, TracedReleased DEF N!HandleRelease, N!TakeRelease
  <2> QED  BY <2>1, <2>2 DEF N!Nothing
<1>6. CASE N!HandleFocus \/ N!HandleBack  BY <1>6 DEF N!HandleFocus, N!HandleBack, N!claims
<1>7. CASE N!HandleGone  BY <1>7 DEF N!HandleGone, N!NoPress, N!Nothing
<1>8. CASE N!Tick
  <2>1. caption' = N!Aged(caption) /\ clicks' = Recent(clicks) /\ UNCHANGED <<claimed, went>>
    BY <1>8 DEF N!Tick, Recent
  <2>2. /\ Traced(N!Aged(caption), Recent(clicks)) /\ (Began(caption, went.from) => Began(N!Aged(caption), went.from))
        /\ N!Aged(N!Idle) = N!Idle
    BY <1>0, TracedAged DEF Clicks
  <2> QED  BY <2>1, <2>2
<1>9. CASE NativeCalls /\ ~N!Tick  BY <1>9, CallsLeave
<1> QED
  BY <1>1, <1>2, <1>3, <1>4, <1>5, <1>6, <1>7, <1>8, <1>9, ServesLeave, StutterLeaves, NativeSteps
     DEF NativeHandles

-----------------------------------------------------------------------------
(* The cursor and the capture.                                              *)

\* updateCapture() makes it right.
LEMMA CaptureUpdated ==
  ASSUME UNCHANGED setup, N!UpdateCapture \/ N!UpdateCursorState PROVE N!CaptureFollowsFocus'
BY DEF N!UpdateCapture, N!UpdateCursorState, N!CaptureFollowsFocus, N!Wanted, N!OnWayland

\* What the capture depends on did not change.
LEMMA CaptureStays ==
  ASSUME N!CaptureFollowsFocus, UNCHANGED <<setup, enabled, focused, ready, captured>>
  PROVE  N!CaptureFollowsFocus'
BY DEF N!CaptureFollowsFocus, N!OnWayland

\* Every handler that changes what it depends on updates it.
LEMMA CaptureKept ==
  ASSUME NativeAssumption, NativeTyped, NativeQueued, FocusedIsReady, N!CaptureFollowsFocus, [N!Next]_N!vars
  PROVE  N!CaptureFollowsFocus'
<1>1. CASE N!HandleEnter \/ N!HandleLeave \/ N!HandleFocus
  BY <1>1, CaptureUpdated DEF N!HandleEnter, N!HandleLeave, N!HandleFocus
<1>2. CASE N!HandleMotion
  BY <1>2, CaptureUpdated, CaptureStays DEF N!HandleMotion, N!SetHitCursor, N!link
<1>3. CASE N!HandlePress \/ N!HandleRelease
  BY <1>3, CaptureStays DEF N!HandlePress, N!HandleRelease, N!link, N!cursor
<1>4. CASE N!HandleGone  BY <1>4 DEF N!HandleGone, N!CaptureFollowsFocus, N!OnWayland
<1>5. CASE N!HandleBack
  <2>1. N!OnWayland  BY <1>5, NativeTakes DEF N!HandleBack
  <2>2. UNCHANGED <<setup, enabled, focused, captured>>  BY <1>5 DEF N!HandleBack, N!cursor
  <2>3. CASE ready  BY <1>5, <2>2, <2>3, CaptureStays DEF N!HandleBack, NativeTyped
  <2>4. CASE ~ready
    <3>1. ~focused  BY <2>1, <2>4 DEF FocusedIsReady
    <3> QED  BY <2>2, <2>4, <3>1 DEF N!CaptureFollowsFocus, N!OnWayland
  <2> QED  BY <2>3, <2>4
<1>6. CASE N!Initialize
  <2>1. UNCHANGED <<setup, enabled, focused>> /\ ~ready  BY <1>6 DEF N!Initialize
  <2>2. CASE setup.backend = "glfw"  BY <1>6, <2>1, <2>2, CaptureUpdated DEF N!Initialize
  <2>3. CASE setup.backend # "glfw"
    <3>1. UNCHANGED captured  BY <1>6, <2>3 DEF N!Initialize
    <3>2. ~captured  BY <2>1 DEF N!CaptureFollowsFocus, N!OnWayland
    <3>3. setup.backend = "x11"
      <4>1. ~N!OnWayland  BY <1>6 DEF N!Initialize
      <4> QED  BY <2>3, <4>1 DEF N!OnWayland, NativeTyped, NativeAssumption, N!SetupsAssumption
    <3> QED  BY <2>1, <3>1, <3>2, <3>3 DEF N!CaptureFollowsFocus, N!OnWayland
  <2> QED  BY <2>2, <2>3
<1>7. CASE N!SetHitTest
  BY <1>7, CaptureUpdated, CaptureStays DEF N!SetHitTest, N!SetHitCursor, N!link
<1>8. CASE N!SetCursorEnabled \/ N!SetSystemCursor
  BY <1>8, CaptureUpdated DEF N!SetCursorEnabled, N!SetSystemCursor
<1>9. CASE N!Tick  BY <1>9, CaptureStays DEF N!Tick, N!link
<1> QED
  BY <1>1, <1>2, <1>3, <1>4, <1>5, <1>6, <1>7, <1>8, <1>9, ServesLeave, StutterLeaves, CaptureStays,
     NativeSteps DEF NativeHandles, NativeCalls

\* applyCursorState() shows the image, where it can be shown.
LEMMA ImageUpdated == ASSUME UNCHANGED <<setup, inside, entered>>, N!UpdateCursorState PROVE ImageIsShown'
BY DEF N!UpdateCursorState, N!WaylandShow, N!WindowShow, ImageIsShown, N!OnWayland

\* What the image depends on did not change.
LEMMA ImageStays ==
  ASSUME ImageIsShown,
         UNCHANGED <<setup, inside, entered, enterSerial, ready, focused, enabled, hit, system, shown>>
  PROVE  ImageIsShown'
BY DEF ImageIsShown, N!Image, N!EffectiveSystemCursor, N!OnWayland

\* Before there is a window, the server knows nothing of it.
LEMMA BeforeWindowKept ==
  ASSUME NativeTyped, NativeQueued, BeforeWindow, [N!Next]_N!vars PROVE BeforeWindow'
<1>0. UNCHANGED setup
  BY HandlesLeave, CallsLeave, ServesLeave, StutterLeaves, NativeSteps
<1>a. N!OnWayland' = N!OnWayland  BY <1>0 DEF N!OnWayland
<1>1. setup.backend = "x11" /\ ~setup.cursors => enabled' /\ system' = "default"
  <2> SUFFICES ASSUME setup.backend = "x11", ~setup.cursors PROVE UNCHANGED <<enabled, system>>
    BY DEF BeforeWindow
  <2>1. CASE NativeCalls
    BY <2>1 DEF NativeCalls, N!Initialize, N!SetHitTest, N!SetCursorEnabled, N!SetSystemCursor, N!Tick
  <2> QED  BY <2>1, HandlesLeave, ServesLeave, StutterLeaves, NativeSteps
<1>2. ASSUME ~N!OnWayland, ~ready'
      PROVE  ~inside' /\ held' = 0 /\ events' = <<>> /\ hit' = "default" /\ shown' = "default" /\ setup.early
  <2>1. CASE NativeHandles
    <3>1. ~N!HandleEnter /\ ~N!HandleLeave /\ ~N!HandleGone /\ ~N!HandleBack
      BY <1>2, NativeTakes DEF N!HandleEnter, N!HandleLeave, N!HandleGone, N!HandleBack
    <3>2. UNCHANGED ready
      BY <2>1, <3>1 DEF NativeHandles, N!HandleMotion, N!HandlePress, N!HandleRelease, N!HandleFocus, N!link
    <3>3. events # <<>>  BY <2>1, HandledBy
    <3> QED  BY <1>2, <3>2, <3>3 DEF BeforeWindow
  <2>2. CASE NativeCalls
    <3>1. ~N!Initialize  BY <1>2 DEF N!Initialize
    <3>2. UNCHANGED <<ready, inside, held, events>>  BY <2>2, <3>1, CallsLeave
    <3>3. UNCHANGED <<hit, shown>>
      BY <1>2, <2>2, <3>1 DEF NativeCalls, N!SetHitTest, N!SetCursorEnabled, N!SetSystemCursor, N!Tick,
         N!UpdateCursorState, N!WindowShow
    <3> QED  BY <1>2, <3>2, <3>3 DEF BeforeWindow
  <2>3. CASE NativeServes
    <3>1. UNCHANGED <<ready, hit>>  BY <2>3, ServesLeave
    <3>2. ~inside /\ held = 0 /\ shown = "default" /\ events = <<>> /\ hit = "default" /\ setup.early
      BY <1>2, <3>1 DEF BeforeWindow
    <3>3. UNCHANGED <<inside, held, events, shown>>
      BY <1>2, <2>3, <3>1, <3>2 DEF NativeServes, N!PointerEnters, N!PointerLeaves, N!PointerMoves,
         N!ButtonGoesDown, N!ButtonComesUp, N!AnswerMove, N!FocusChanges, N!SeatChanges
    <3> QED  BY <3>1, <3>2, <3>3
  <2> QED  BY <1>2, <2>1, <2>2, <2>3, StutterLeaves, NativeSteps DEF BeforeWindow
<1>3. setup.early' = setup.early /\ setup.backend' = setup.backend /\ setup.cursors' = setup.cursors
  BY <1>0
<1> QED  BY <1>a, <1>1, <1>2, <1>3 DEF BeforeWindow

\* Every step that changes what the image depends on shows it, or the window has no pointer.
LEMMA ImageKept ==
  ASSUME NativeAssumption, CursorsAfterWindow, NativeTyped, NativeSerials, NativeQueued, FocusedIsReady,
         BeforeWindow,
         ImageIsShown, [N!Next]_N!vars
  PROVE  ImageIsShown'
<1>1. CASE N!HandleEnter  BY <1>1, ImageUpdated DEF N!HandleEnter, N!server
<1>2. CASE N!HandleLeave
  <2>1. N!OnWayland /\ N!OnWayland'  BY <1>2, NativeTakes, HandlesLeave DEF N!HandleLeave, N!OnWayland
  <2> QED  BY <1>2, <2>1 DEF N!HandleLeave, ImageIsShown
<1>3. CASE N!HandleMotion
  <2>1. UNCHANGED <<setup, inside, entered>>  BY <1>3 DEF N!HandleMotion, N!server
  <2>2. CASE N!UpdateCursorState  BY <2>1, <2>2, ImageUpdated
  <2>3. CASE ~N!UpdateCursorState
    <3>1. UNCHANGED <<hit, shown>>  BY <1>3, <2>3 DEF N!HandleMotion, N!SetHitCursor
    <3> QED  BY <1>3, <2>1, <3>1, ImageStays DEF N!HandleMotion, N!link
  <2> QED  BY <2>2, <2>3
<1>4. CASE N!HandlePress \/ N!HandleRelease
  BY <1>4, ImageStays DEF N!HandlePress, N!HandleRelease, N!server, N!link, N!cursor
<1>5. CASE N!HandleFocus
  <2>1. ~N!OnWayland /\ ~N!OnWayland'
    <3>1. ~N!OnWayland  BY <1>5, NativeTakes DEF N!HandleFocus
    <3> QED  BY <1>5, <3>1 DEF N!HandleFocus, N!OnWayland
  <2> QED  BY <1>5, <2>1 DEF N!HandleFocus, ImageIsShown, N!Image, N!EffectiveSystemCursor
<1>6. CASE N!HandleGone
  <2>1. N!OnWayland /\ N!OnWayland'  BY <1>6, NativeTakes, HandlesLeave DEF N!HandleGone, N!OnWayland
  <2> QED  BY <1>6, <2>1 DEF N!HandleGone, ImageIsShown
<1>7. CASE N!HandleBack
  <2>1. N!OnWayland  BY <1>7, NativeTakes DEF N!HandleBack
  <2>2. CASE ready
    <3>1. UNCHANGED ready  BY <1>7, <2>2 DEF N!HandleBack, NativeTyped
    <3> QED  BY <1>7, <3>1, ImageStays DEF N!HandleBack, N!server, N!cursor
  <2>3. CASE ~ready
    <3>1. ~focused' /\ N!OnWayland'  BY <1>7, <2>1, <2>3 DEF N!HandleBack, FocusedIsReady, N!OnWayland
    <3> QED  BY <3>1 DEF ImageIsShown
  <2> QED  BY <2>2, <2>3
<1>8. CASE N!Initialize
  <2>1. UNCHANGED <<setup, inside, entered, hit, enabled, system>> /\ ~N!OnWayland /\ ~ready
    BY <1>8 DEF N!Initialize, N!server
  <2>2. CASE setup.backend = "glfw"  BY <1>8, <2>1, <2>2, ImageUpdated DEF N!Initialize
  <2>3. CASE setup.backend # "glfw"
    <3>1. UNCHANGED shown /\ shown = "default" /\ hit = "default"
      BY <1>8, <2>1, <2>3 DEF N!Initialize, BeforeWindow
    <3>2. setup \in NativeSetups /\ setup.backend = "x11"
      BY <2>1, <2>3 DEF N!OnWayland, NativeTyped, NativeAssumption, N!SetupsAssumption
    <3>3. ~setup.cursors => enabled /\ system = "default"  BY <3>2 DEF BeforeWindow
    <3>4. CASE ~setup.cursors
      <4>1. N!Image' = "default"  BY <2>1, <3>1, <3>3, <3>4 DEF N!Image, N!EffectiveSystemCursor
      <4>2. ~N!OnWayland'  BY <2>1 DEF N!OnWayland
      <4> QED  BY <3>1, <4>1, <4>2 DEF ImageIsShown
    <3>5. ASSUME setup.cursors PROVE FALSE
      <4>1. setup.early  BY <1>8, <2>1 DEF N!Initialize, BeforeWindow
      <4> QED  BY <3>2, <3>5, <4>1 DEF CursorsAfterWindow
    <3> QED  BY <3>4, <3>5
  <2> QED  BY <2>2, <2>3
<1>9. CASE N!SetHitTest
  <2>1. UNCHANGED <<setup, inside, entered>>  BY <1>9 DEF N!SetHitTest, N!server
  <2>2. CASE N!UpdateCursorState  BY <2>1, <2>2, ImageUpdated
  <2>3. CASE ~N!UpdateCursorState
    <3>1. UNCHANGED <<hit, shown>>  BY <1>9, <2>3 DEF N!SetHitTest, N!SetHitCursor
    <3> QED  BY <1>9, <2>1, <3>1, ImageStays DEF N!SetHitTest, N!link
  <2> QED  BY <2>2, <2>3
<1>10. CASE N!SetCursorEnabled \/ N!SetSystemCursor
  BY <1>10, ImageUpdated DEF N!SetCursorEnabled, N!SetSystemCursor, N!server
<1>11. CASE N!Tick  BY <1>11, ImageStays DEF N!Tick, N!server, N!link
<1>12. CASE N!PointerEnters
  <2>1. UNCHANGED <<setup, enterSerial, ready, focused, enabled, hit, system>>
    BY <1>12, ServesLeave DEF NativeServes
  <2>2. CASE N!OnWayland
    <3>1. entered' = serial + 1  BY <1>12, <2>2 DEF N!PointerEnters
    <3>2. enterSerial # serial + 1  BY DEF NativeSerials
    <3>3. N!OnWayland'  BY <2>1, <2>2 DEF N!OnWayland
    <3> QED  BY <2>1, <3>1, <3>2, <3>3 DEF ImageIsShown
  <2>3. CASE ~N!OnWayland
    <3>1. UNCHANGED shown /\ ~N!OnWayland'  BY <1>12, <2>1, <2>3 DEF N!PointerEnters, N!OnWayland
    <3> QED  BY <2>1, <2>3, <3>1 DEF ImageIsShown, N!Image, N!EffectiveSystemCursor
  <2> QED  BY <2>2, <2>3
<1>13. CASE NativeServes /\ ~N!PointerEnters
  <2>1. UNCHANGED <<setup, enterSerial, ready, focused, enabled, hit, system>>  BY <1>13, ServesLeave
  <2>2. UNCHANGED <<entered, shown>> /\ (inside' => inside)
    BY <1>13 DEF NativeServes, N!PointerLeaves, N!PointerMoves, N!ButtonGoesDown, N!ButtonComesUp,
       N!AnswerMove, N!FocusChanges, N!SeatChanges, N!server
  <2> QED  BY <2>1, <2>2 DEF ImageIsShown, N!Image, N!EffectiveSystemCursor, N!OnWayland
<1>14. CASE UNCHANGED N!vars  BY <1>14, StutterLeaves, ImageStays
<1> QED
  BY <1>1, <1>2, <1>3, <1>4, <1>5, <1>6, <1>7, <1>8, <1>9, <1>10, <1>11, <1>12, <1>13, <1>14, NativeSteps
     DEF NativeHandles, NativeCalls

-----------------------------------------------------------------------------
(* All together.                                                            *)

\* Every step keeps the invariants.
LEMMA NativeInvKept == ASSUME NativeAssumption, NativeInv, [N!Next]_N!vars PROVE NativeInv'
<1>0. /\ NativeTyped /\ NativeSerials /\ NativeQueued /\ NativeCursors /\ NativeTold /\ NativeGestures
      /\ HeldInside /\ EntersAreSent /\ NativeOpened /\ NativeClosed /\ NativeAttached /\ FocusedIsReady
      /\ NativeCaught /\ NativeFollows /\ N!CaptureFollowsFocus
  BY DEF NativeInv
<1>1. NativeTyped'  BY <1>0, NativeTypedKept
<1>2. NativeSerials' /\ EntersAreSent'  BY <1>0, NativeSerialsKept
<1>3. NativeQueued'  BY <1>0, NativeQueuedKept
<1>4. NativeCursors'  BY <1>0, NativeCursorsKept
<1>5. NativeTold'  BY <1>0, NativeToldKept
<1>6. NativeGestures'  BY <1>0, NativeGesturesKept
<1>7. HeldInside'  BY <1>0, HeldInsideKept
<1>8. NativeOpened'  BY <1>0, NativeOpenedKept
<1>9. NativeClosed'  BY <1>0, NativeClosedKept
<1>10. NativeAttached'  BY <1>0, NativeAttachedKept
<1>11. FocusedIsReady'  BY <1>0, FocusedIsReadyKept
<1>12. NativeCaught'  BY <1>0, NativeCaughtKept
<1>13. NativeFollows'  BY <1>0, NativeFollowsKept
<1>14. N!CaptureFollowsFocus'  BY <1>0, CaptureKept
<1> QED
  BY <1>1, <1>2, <1>3, <1>4, <1>5, <1>6, <1>7, <1>8, <1>9, <1>10, <1>11, <1>12, <1>13, <1>14 DEF NativeInv

\* Every step keeps the image.
LEMMA CursorInvKept ==
  ASSUME NativeAssumption, CursorsAfterWindow, NativeInv, CursorInv, [N!Next]_N!vars PROVE CursorInv'
BY BeforeWindowKept, ImageKept DEF NativeInv, CursorInv

\* Where nothing is queued the client has handled the last enter.
LEMMA CursorAsked == ASSUME NativeInv, ImageIsShown PROVE N!CursorIsAsked
<1> SUFFICES ASSUME events = <<>>, ready PROVE IF N!OnWayland
                                             THEN focused /\ inside /\ (setup.theme \/ ~enabled) => shown = N!Image
                                             ELSE shown = N!Image
  BY DEF N!CursorIsAsked
<1>1. CASE ~N!OnWayland  BY <1>1 DEF ImageIsShown
<1>2. CASE N!OnWayland /\ inside
  <2>1. Paired(<<>>, {}, EntersNow, {"enter", "leave", "gone"}, enterSerial = entered, TRUE)
    BY <1>2 DEF NativeInv, NativeCaught, NativeTyped
  <2>2. enterSerial = entered  BY <2>1, PairedNone
  <2> QED  BY <1>2, <2>2 DEF ImageIsShown
<1>3. CASE N!OnWayland /\ ~inside  BY <1>3
<1> QED  BY <1>1, <1>2, <1>3

\* The action properties.
LEMMA NativeReleases == ASSUME NativeInv, [N!Next]_N!vars PROVE N!ReleaseStep
<1> SUFFICES ASSUME N!Handle("release") PROVE (did' = "release") = (went.to = "application")
  BY DEF N!ReleaseStep
<1>1. events \in Seq(Sendable) /\ events # <<>> /\ Head(events).type \in {"release"}
  BY DEF N!Handle, NativeInv, NativeQueued
<1>2. went.to # N!Nothing /\ (claimed <=> went.to # "application")
  BY <1>1, PairedNow DEF NativeInv, NativeOpened, Told
<1>3. N!HandleRelease
  <2>0. /\ Len(events) \in Nat /\ Len(Tail(events)) = Len(events) - 1
        /\ \A e : Len(Append(events, e)) = Len(events) + 1
    BY <1>1
  <2>1. ~UNCHANGED events
    <3> SUFFICES ASSUME UNCHANGED events PROVE FALSE
      OBVIOUS
    <3>1. Len(Tail(events)) = Len(events)  BY DEF N!Handle
    <3> QED  BY <2>0, <3>1
  <2>2. ASSUME NEW e, N!Send(e) PROVE FALSE
    <3>1. Append(events, e) = Tail(events)  BY <2>2 DEF N!Handle, N!Send
    <3> QED  BY <2>0, <3>1
  <2>3. ~NativeServes
    BY <2>1, <2>2 DEF NativeServes, N!PointerEnters, N!PointerLeaves, N!PointerMoves, N!ButtonGoesDown,
       N!ButtonComesUp, N!AnswerMove, N!FocusChanges, N!SeatChanges
  <2>4. ~NativeCalls /\ ~UNCHANGED N!vars  BY <2>1, CallsLeave, StutterLeaves
  <2> QED  BY <1>1, <2>3, <2>4, NativeSteps, HandledBy
<1>4. did' = IF claimed THEN N!Nothing ELSE "release"  BY <1>3 DEF N!HandleRelease, N!TakeRelease
<1>5. CASE claimed  BY <1>2, <1>4, <1>5 DEF N!Nothing
<1>6. CASE ~claimed  BY <1>2, <1>4, <1>6 DEF N!Nothing
<1> QED  BY <1>5, <1>6

\* A press toggles maximize as the second of two clicks.
LEMMA NativeToggles == ASSUME NativeAssumption, NativeInv, [N!Next]_N!vars PROVE N!ToggleStep
<1> SUFFICES ASSUME did' = "toggle", did # "toggle"
             PROVE  \E c \in clicks : c.age <= Interval /\ N!Distance(c.at, went'.from) <= Slop
  BY DEF N!ToggleStep
<1>1. N!HandlePress
  <2>1. ~NativeServes /\ ~UNCHANGED N!vars  BY ServesLeave, StutterLeaves
  <2>2. ~NativeCalls
    BY DEF NativeCalls, N!Initialize, N!SetHitTest, N!SetCursorEnabled, N!SetSystemCursor, N!Tick, N!Nothing
  <2>3. /\ ~N!HandleEnter /\ ~N!HandleLeave /\ ~N!HandleMotion /\ ~N!HandleRelease
        /\ ~N!HandleFocus /\ ~N!HandleGone /\ ~N!HandleBack
    BY DEF N!HandleEnter, N!HandleLeave, N!HandleMotion, N!HandleRelease, N!TakeRelease, N!Drag,
       N!HandleFocus, N!HandleGone, N!HandleBack, N!Nothing
  <2> QED  BY <2>1, <2>2, <2>3, NativeSteps DEF NativeHandles
<1>2. N!IsDoubleClick(caption, PressedAt) /\ went' = [to |-> "caption", from |-> PressedAt]
  <2>1. NativeTyped /\ NativeQueued  BY DEF NativeInv
  <2> HIDE DEF PressedAt
  <2> QED  BY <1>1, <2>1, PressOutcome DEF N!Nothing
<1>3. went'.from = PressedAt  BY <1>2
<1>4. Traced(caption, clicks)  BY DEF NativeInv, NativeFollows
<1> QED  BY <1>2, <1>3, <1>4, DoubleIsTwo

-----------------------------------------------------------------------------
(* SdlPointer.                                                              *)

\* What SDL queues, the presses of a history, and what the bridge makes of the seat.
SdlEvents == [type : {"down", "motion", "test"}, at : Points] \cup [type : {"up", "moved", "unfocused"}]
SdlClicks == [at : Points, age : S!Ages]
SeatStates == [latest : BOOLEAN, pressed : BOOLEAN, serial : 0 .. MaxPresses]

\* The types, in parts.
SdlTyped ==
  /\ setup \in SdlSetups /\ at \in Points /\ held \in 0 .. MaxPresses /\ serial \in 0 .. MaxPresses
  /\ dragging \in BOOLEAN /\ hitTest \in BOOLEAN /\ pending \in BOOLEAN
  /\ first \in BOOLEAN /\ enabled \in BOOLEAN /\ relative \in BOOLEAN
SdlQueued == events \in Seq(SdlEvents)
SdlSeats == seat \in SeatStates /\ heard \in SeatStates
SdlTold ==
  /\ did \in {S!Nothing, "press", "release", "toggle", "motion", "move"}
  /\ went \in [to : {S!Nothing, "application", "caption"}, from : Points \cup {0}]
SdlGestures == caption \in S!Gestures /\ clicks \subseteq SdlClicks

\* A release is queued only after a press that no release has followed.
SdlOpened ==
  Paired(events, {"up"}, [type : {"down"}, at : Points], {"up"}, went.to # S!Nothing, held # 0 /\ ~dragging)
\* A press is queued only after the release of the one before.
SdlClosed ==
  Paired(events, {"down", "test"}, [type : {"up"}], {"down"}, went.to = S!Nothing, held = 0 \/ dragging)

\* A release is awaited exactly while the title bar has the press; without a hit test there is no gesture.
SdlClaims == (pending <=> went.to = "caption") /\ (pending => hitTest) /\ (~hitTest => caption = S!Idle)
\* Once pumped, the bridge knows no press but the one that is held.
SdlHears ==
  /\ ~hitTest \/ ~S!OnWayland => heard = S!NoSeat
  /\ heard.pressed => heard.serial = held /\ held # 0
\* The gesture holds clicks of the history, and the press that began it.
SdlFollows == Traced(caption, clicks) /\ (went.to = "caption" => Began(caption, went.from))

\* The invariant.
SdlInv ==
  /\ SdlTyped /\ SdlQueued /\ SdlSeats /\ SdlTold /\ SdlGestures
  /\ SdlOpened /\ SdlClosed /\ SdlClaims /\ SdlHears /\ SdlFollows

SdlAssumption == S!GestureAssumption /\ S!PressesAssumption

-----------------------------------------------------------------------------
\* That is the types.
LEMMA SdlImplies == SdlInv => S!TypeOK
BY DEF SdlInv, SdlTyped, SdlQueued, SdlSeats, SdlTold, SdlGestures, S!TypeOK, SdlEvents, SeatStates,
   SdlClicks

\* A window nobody has touched.
LEMMA SdlInit == ASSUME SdlAssumption PROVE S!Init => SdlInv
<1> SUFFICES ASSUME S!Init PROVE SdlInv
  OBVIOUS
<1>1. 0 \in 0 .. MaxPresses  BY DEF SdlAssumption, S!PressesAssumption
<1>2. SdlTyped  BY <1>1 DEF S!Init, SdlTyped
<1>3. SdlQueued /\ SdlSeats  BY <1>1 DEF S!Init, SdlQueued, SdlSeats, S!NoSeat, SeatStates
<1>4. SdlTold  BY DEF S!Init, SdlTold, S!NoPress, S!Nothing
<1>5. S!Idle \in S!Gestures
  <2>1. {} \in S!ClickSets  BY DEF S!ClickSets
  <2> QED  BY <2>1 DEF S!Idle, S!Gestures
<1>6. SdlGestures  BY <1>5 DEF S!Init, SdlGestures
<1>7. SdlOpened /\ SdlClosed
  <2>1. events = <<>> /\ went.to = S!Nothing /\ held = 0 /\ dragging = FALSE  BY DEF S!Init, S!NoPress
  <2>2. Paired(<<>>, {"up"}, [type : {"down"}, at : Points], {"up"}, went.to # S!Nothing, held # 0 /\ ~dragging)
    BY <2>1, PairedEmpty
  <2>3. Paired(<<>>, {"down", "test"}, [type : {"up"}], {"down"}, went.to = S!Nothing, held = 0 \/ dragging)
    BY <2>1, PairedEmpty
  <2> QED  BY <2>1, <2>2, <2>3 DEF SdlOpened, SdlClosed
<1>8. SdlClaims /\ SdlHears  BY DEF S!Init, SdlClaims, SdlHears, S!NoPress, S!NoSeat, S!Nothing
<1>9. SdlFollows  BY TracedIdle, SameGestures DEF S!Init, SdlFollows
<1> QED  BY <1>2, <1>3, <1>4, <1>6, <1>7, <1>8, <1>9 DEF SdlInv

\* The first event is a known one, and the rest is a queue.
LEMMA SdlTaken ==
  ASSUME SdlQueued, NEW type, S!Take(type)
  PROVE  /\ Head(events) \in SdlEvents /\ events' \in Seq(SdlEvents)
         /\ type \in {"down", "motion", "test"} => S!Here \in Points /\ Head(events) \in [type : {type}, at : Points]
<1>1. events # <<>> /\ events \in Seq(SdlEvents) /\ events' = Tail(events) /\ Head(events).type = type
  BY DEF S!Take, SdlQueued
<1>2. Head(events) \in SdlEvents /\ events' \in Seq(SdlEvents)
  <2> HIDE DEF SdlEvents
  <2> QED  BY <1>1
<1> QED  BY <1>1, <1>2 DEF SdlEvents, S!Here

\* What SDL queues is queued.
LEMMA SdlQueues ==
  ASSUME SdlQueued, NEW e \in SdlEvents, S!Queue(e)
  PROVE  events' \in Seq(SdlEvents)
<1> HIDE DEF SdlEvents
<1> QED  BY DEF S!Queue, SdlQueued

\* The steps, by what they do to the queue.
SdlHandles == S!ConsumeHitTest \/ S!ConsumeMoved \/ S!ConsumeDown \/ S!ConsumeMotion \/ S!ConsumeUp \/ S!DropHitTest
SdlLeaves == S!PollPumps \/ S!SetHitTest \/ S!SetCursorEnabled \/ S!Tick
SdlArrives ==
  S!PressArrives \/ S!ReleaseArrives \/ S!MotionArrives \/ S!WindowMoves \/ S!FocusLeaves \/ S!CompositorTakes

\* The plain variables stay in their sets.
LEMMA SdlTypedKept == ASSUME SdlAssumption, SdlTyped, SdlQueued, [S!Next]_S!vars PROVE SdlTyped'
<1> USE DEF SdlTyped
<1>1. CASE SdlHandles
  BY <1>1 DEF SdlHandles, S!ConsumeHitTest, S!ConsumeMoved, S!ConsumeDown, S!ConsumeMotion, S!ConsumeUp,
     S!DropHitTest, S!sdl, S!mouse, S!client, S!bridge
<1>2. CASE SdlLeaves
  BY <1>2 DEF SdlLeaves, S!PollPumps, S!SetHitTest, S!SetCursorEnabled, S!Tick, S!sdl, S!mouse, S!bridge
<1>3. CASE S!PressArrives
  <2>1. serial + 1 \in 0 .. MaxPresses  BY <1>3 DEF S!PressArrives, SdlAssumption, S!PressesAssumption
  <2> QED  BY <1>3, <2>1 DEF S!PressArrives, S!client, S!bridge, S!mouse, S!SdlTakes, S!SdlResizes
<1>4. CASE SdlArrives /\ ~S!PressArrives
  <2>1. 0 \in 0 .. MaxPresses  BY DEF SdlAssumption, S!PressesAssumption
  <2> QED
    BY <1>4, <2>1 DEF SdlArrives, S!ReleaseArrives, S!MotionArrives, S!WindowMoves, S!FocusLeaves,
       S!CompositorTakes, S!sdl, S!client, S!bridge, S!mouse
<1>5. CASE UNCHANGED S!vars  BY <1>5 DEF S!vars, S!sdl, S!bridge, S!mouse
<1> QED  BY <1>1, <1>2, <1>3, <1>4, <1>5 DEF S!Next, SdlHandles, SdlLeaves, SdlArrives

\* The queue holds SDL's events only.
LEMMA SdlQueuedKept == ASSUME SdlTyped, SdlQueued, [S!Next]_S!vars PROVE SdlQueued'
<1>1. CASE SdlHandles
  <2>1. \E type : S!Take(type)
    BY <1>1 DEF SdlHandles, S!ConsumeHitTest, S!ConsumeMoved, S!ConsumeDown, S!ConsumeMotion, S!ConsumeUp,
       S!DropHitTest
  <2> QED  BY <2>1, SdlTaken DEF SdlQueued
<1>2. CASE SdlLeaves
  BY <1>2 DEF SdlQueued, SdlLeaves, S!PollPumps, S!SetHitTest, S!SetCursorEnabled, S!Tick
<1>3. CASE S!PressArrives
  <2>1. [type |-> IF dragging' THEN "test" ELSE "down", at |-> at] \in SdlEvents
    BY DEF SdlTyped, SdlEvents
  <2> QED  BY <1>3, <2>1, SdlQueues DEF S!PressArrives, SdlQueued
<1>4. CASE S!MotionArrives
  <2>1. [type |-> "motion", at |-> at'] \in SdlEvents  BY <1>4 DEF S!MotionArrives, SdlEvents
  <2> QED  BY <1>4, <2>1, SdlQueues DEF S!MotionArrives, SdlQueued
<1>5. CASE S!ReleaseArrives \/ S!WindowMoves \/ S!FocusLeaves \/ S!CompositorTakes
  <2>1. \A type \in {"up", "moved", "unfocused"} : [type |-> type] \in SdlEvents  BY DEF SdlEvents
  <2>2. UNCHANGED events \/ \E type \in {"up", "moved", "unfocused"} : S!Queue([type |-> type])
    BY <1>5 DEF S!ReleaseArrives, S!WindowMoves, S!FocusLeaves, S!CompositorTakes
  <2> QED  BY <2>1, <2>2, SdlQueues DEF SdlQueued
<1>6. CASE UNCHANGED S!vars  BY <1>6 DEF S!vars, SdlQueued
<1> QED  BY <1>1, <1>2, <1>3, <1>4, <1>5, <1>6 DEF S!Next, SdlHandles, SdlLeaves, SdlArrives

\* What the bridge knows and will know of the seat stays a state of the seat.
LEMMA SdlSeatsKept == ASSUME SdlAssumption, SdlTyped, SdlSeats, [S!Next]_S!vars PROVE SdlSeats'
<1>1. S!NoSeat \in SeatStates  BY DEF S!NoSeat, SeatStates, SdlAssumption, S!PressesAssumption
<1>2. \A s \in SeatStates : [s EXCEPT !.pressed = FALSE] \in SeatStates  BY DEF SeatStates
<1>3. ASSUME NEW event, S!SeatHears(event), event.type = "press" => event.serial \in 0 .. MaxPresses
      PROVE  heard' \in SeatStates
  <2>1. event.type = "press" => [latest |-> TRUE, pressed |-> TRUE, serial |-> event.serial] \in SeatStates
    BY <1>3 DEF SeatStates
  <2>2. S!Listen(heard, event) \in SeatStates  BY <1>2, <2>1 DEF SdlSeats, S!Listen
  <2> QED  BY <1>3, <2>2 DEF S!SeatHears, SdlSeats
<1>4. CASE SdlHandles
  BY <1>4 DEF SdlHandles, S!ConsumeHitTest, S!ConsumeMoved, S!ConsumeDown, S!ConsumeMotion, S!ConsumeUp,
     S!DropHitTest, S!client, SdlSeats, S!StartMove, S!Pump
<1>5. CASE SdlLeaves
  BY <1>1, <1>5 DEF SdlLeaves, S!PollPumps, S!SetHitTest, S!SetCursorEnabled, S!Tick, S!Pump, SdlSeats
<1>6. CASE S!PressArrives
  <2>1. serial + 1 \in 0 .. MaxPresses
    BY <1>6 DEF S!PressArrives, SdlTyped, SdlAssumption, S!PressesAssumption
  <2>2. S!SeatHears([type |-> "press", serial |-> serial + 1]) /\ UNCHANGED seat
    BY <1>6 DEF S!PressArrives, S!client
  <2> QED  BY <1>3, <2>1, <2>2 DEF SdlSeats
<1>7. CASE S!ReleaseArrives \/ S!CompositorTakes
  <2>1. UNCHANGED seat /\ \E type \in {"release", "leave"} : S!SeatHears([type |-> type])
    BY <1>7 DEF S!ReleaseArrives, S!CompositorTakes, S!client
  <2> QED  BY <1>3, <2>1 DEF SdlSeats
<1>8. CASE S!MotionArrives \/ S!WindowMoves \/ S!FocusLeaves \/ UNCHANGED S!vars
  BY <1>8 DEF S!MotionArrives, S!WindowMoves, S!FocusLeaves, S!vars, S!client, SdlSeats
<1> QED  BY <1>4, <1>5, <1>6, <1>7, <1>8 DEF S!Next, SdlHandles, SdlLeaves, SdlArrives

\* What a handler did, and where the press went.
LEMMA SdlToldKept == ASSUME SdlQueued, SdlTold, [S!Next]_S!vars PROVE SdlTold'
<1>1. S!NoPress \in [to : {S!Nothing, "application", "caption"}, from : Points \cup {0}]  BY DEF S!NoPress
<1>2. CASE S!ConsumeDown
  <2>1. S!Here \in Points  BY <1>2, SdlTaken DEF S!ConsumeDown
  <2> HIDE DEF S!Here
  <2> QED  BY <1>2, <2>1 DEF S!ConsumeDown, SdlTold
<1>3. CASE S!ConsumeHitTest \/ S!ConsumeMoved \/ S!ConsumeMotion \/ S!DropHitTest
  BY <1>3 DEF S!ConsumeHitTest, S!ConsumeMoved, S!ConsumeMotion, S!DropHitTest, S!client, S!StartMove,
     SdlTold
<1>4. CASE S!ConsumeUp  BY <1>1, <1>4 DEF S!ConsumeUp, SdlTold
<1>5. CASE SdlLeaves \/ UNCHANGED S!vars
  BY <1>5 DEF SdlLeaves, S!PollPumps, S!SetHitTest, S!SetCursorEnabled, S!Tick, SdlTold, S!vars
<1>6. CASE SdlArrives
  BY <1>6 DEF SdlArrives, S!PressArrives, S!ReleaseArrives, S!MotionArrives, S!WindowMoves, S!FocusLeaves,
     S!CompositorTakes, S!client, SdlTold
<1> QED  BY <1>2, <1>3, <1>4, <1>5, <1>6 DEF S!Next, SdlLeaves, SdlArrives

\* The gesture and the clicks stay typed.
LEMMA SdlGesturesKept ==
  ASSUME SdlAssumption, SdlTyped, SdlQueued, SdlGestures, [S!Next]_S!vars PROVE SdlGestures'
<1> USE DEF SdlGestures
<1>0. S!GestureAssumption  BY DEF SdlAssumption
<1>1. CASE S!ConsumeHitTest
  <2>1. at \in Points  BY DEF SdlTyped
  <2>2. S!Clicked(caption, at) \in S!Gestures /\ S!Click(at) \subseteq SdlClicks
    BY <1>0, <2>1, PressTyped, ClickTyped, SameGestures DEF SdlClicks
  <2> QED  BY <1>1, <2>2 DEF S!ConsumeHitTest
<1>2. CASE S!ConsumeMoved  BY <1>0, <1>2, MovedTyped, SameGestures DEF S!ConsumeMoved
<1>3. CASE S!ConsumeDown
  <2>1. S!Here \in Points  BY <1>3, SdlTaken DEF S!ConsumeDown
  <2>2. S!Press(caption, S!Here) \in S!Gestures /\ S!Click(S!Here) \subseteq SdlClicks
    BY <1>0, <2>1, PressTyped, ClickTyped, SameGestures DEF SdlClicks
  <2> QED  BY <1>3, <2>2 DEF S!ConsumeDown
<1>4. CASE S!ConsumeMotion
  <2>1. S!Moved(caption, S!Here) \in S!Gestures  BY <1>0, MovedTyped, SameGestures
  <2> QED  BY <1>4, <2>1 DEF S!ConsumeMotion
<1>5. CASE S!ConsumeUp  BY <1>0, <1>5, MovedTyped, SameGestures DEF S!ConsumeUp
<1>6. CASE S!Tick
  <2>1. S!Aged(caption) \in S!Gestures /\ Recent(clicks) \subseteq SdlClicks
    BY <1>0, AgedTyped, SameGestures DEF SdlClicks
  <2> QED  BY <1>6, <2>1, SameGestures DEF S!Tick, Recent
<1>7. CASE S!SetHitTest  BY <1>0, <1>7, MovedTyped, SameGestures DEF S!SetHitTest
<1>8. CASE S!DropHitTest \/ S!PollPumps \/ S!SetCursorEnabled \/ SdlArrives \/ UNCHANGED S!vars
  BY <1>8 DEF S!DropHitTest, S!PollPumps, S!SetCursorEnabled, SdlArrives, S!PressArrives, S!ReleaseArrives,
     S!MotionArrives, S!WindowMoves, S!FocusLeaves, S!CompositorTakes, S!client, S!bridge, S!vars
<1> QED  BY <1>1, <1>2, <1>3, <1>4, <1>5, <1>6, <1>7, <1>8 DEF S!Next, SdlArrives

-----------------------------------------------------------------------------
\* A press the application or the bridge has, and the one that is on its way.
LEMMA SdlOpenedKept == ASSUME SdlTyped, SdlQueued, SdlOpened, [S!Next]_S!vars PROVE SdlOpened'
<1> DEFINE E == {"up"}
           A == [type : {"down"}, at : Points]
           R == {"up"}
<1>0. events \in Seq(SdlEvents) /\ Paired(events, E, A, R, went.to # S!Nothing, held # 0 /\ ~dragging)
  BY DEF SdlQueued, SdlOpened
<1> SUFFICES Paired(events', E, A, R, went'.to # S!Nothing, held' # 0 /\ ~dragging')
  BY DEF SdlOpened
<1> HIDE DEF E, A, R
<1>1. CASE SdlHandles
  <2>1. UNCHANGED <<held, dragging>> /\ events # <<>> /\ events' = Tail(events)
    BY <1>1 DEF SdlHandles, S!ConsumeHitTest, S!ConsumeMoved, S!ConsumeDown, S!ConsumeMotion, S!ConsumeUp,
       S!DropHitTest, S!sdl, S!Take
  <2>2. Head(events) \in A => went'.to # S!Nothing
    <3>1. Head(events) \in A => Head(events).type = "down"  BY DEF A
    <3>2. Head(events).type = "down" => S!ConsumeDown
      BY <1>1 DEF SdlHandles, S!ConsumeHitTest, S!ConsumeMoved, S!ConsumeMotion, S!ConsumeUp, S!DropHitTest,
         S!Take
    <3>3. S!ConsumeDown => went'.to \in {"caption", "application"}  BY DEF S!ConsumeDown
    <3> QED  BY <3>1, <3>2, <3>3 DEF S!Nothing
  <2>3. went.to # S!Nothing /\ Head(events).type \notin R => went'.to # S!Nothing
    BY <1>1 DEF SdlHandles, S!ConsumeHitTest, S!ConsumeMoved, S!ConsumeDown, S!ConsumeMotion, S!ConsumeUp,
       S!DropHitTest, S!client, S!Take, R, S!Nothing
  <2> QED  BY <1>0, <2>1, <2>2, <2>3, PairedTaken
<1>2. CASE SdlLeaves \/ UNCHANGED S!vars
  <2>1. UNCHANGED <<events, held, dragging, went>>
    BY <1>2 DEF SdlLeaves, S!PollPumps, S!SetHitTest, S!SetCursorEnabled, S!Tick, S!vars, S!sdl
  <2> QED  BY <1>0, <2>1
<1>3. CASE S!PressArrives
  <2> DEFINE e == [type |-> IF dragging' THEN "test" ELSE "down", at |-> at]
  <2>1. events' = Append(events, e) /\ UNCHANGED went /\ at \in Points
    BY <1>3 DEF S!PressArrives, S!Queue, S!client, SdlTyped
  <2>2. e \in SdlEvents /\ e.type \notin E /\ (~dragging' => e \in A)
    BY <2>1 DEF SdlEvents, E, A
  <2> HIDE DEF e
  <2> QED  BY <1>0, <2>1, <2>2, PairedEnd
<1>4. CASE S!ReleaseArrives \/ S!CompositorTakes
  <2> DEFINE e == [type |-> "up"]
  <2>1. UNCHANGED went /\ held' = 0 /\ held # 0  BY <1>4 DEF S!ReleaseArrives, S!CompositorTakes, S!client
  <2>2. UNCHANGED events \/ (~dragging /\ events' = Append(events, e))
    BY <1>4 DEF S!ReleaseArrives, S!CompositorTakes, S!Queue
  <2>3. e \in SdlEvents  BY DEF SdlEvents
  <2> HIDE DEF e
  <2>4. CASE UNCHANGED events
    <3>1. held' # 0 /\ ~dragging' => held # 0 /\ ~dragging  BY <2>1
    <3> QED  BY <1>0, <2>1, <2>4, <3>1, PairedWeaker
  <2>5. CASE ~UNCHANGED events
    <3>1. events' = Append(events, e) /\ (held' # 0 /\ ~dragging' => FALSE) /\ held # 0 /\ ~dragging
      BY <2>1, <2>2, <2>3, <2>5
    <3> QED  BY <1>0, <2>1, <2>3, <3>1, PairedEnd
  <2> QED  BY <2>4, <2>5
<1>5. CASE S!MotionArrives \/ S!WindowMoves \/ S!FocusLeaves
  <2>1. PICK e \in SdlEvents : events' = Append(events, e) /\ e.type \in {"motion", "moved", "unfocused"}
    BY <1>5 DEF S!MotionArrives, S!WindowMoves, S!FocusLeaves, S!Queue, SdlEvents
  <2>2. UNCHANGED <<went, held, dragging>>
    BY <1>5 DEF S!MotionArrives, S!WindowMoves, S!FocusLeaves, S!client, S!sdl
  <2>3. e.type \notin E /\ e.type \notin R  BY <2>1 DEF E, R
  <2> QED  BY <1>0, <2>1, <2>2, <2>3, PairedEnd
<1> QED  BY <1>1, <1>2, <1>3, <1>4, <1>5 DEF S!Next, SdlHandles, SdlLeaves, SdlArrives

\* A press is queued behind the release of the one before.
LEMMA SdlClosedKept == ASSUME SdlTyped, SdlQueued, SdlClosed, [S!Next]_S!vars PROVE SdlClosed'
<1> DEFINE E == {"down", "test"}
           A == [type : {"up"}]
           R == {"down"}
<1>0. events \in Seq(SdlEvents) /\ Paired(events, E, A, R, went.to = S!Nothing, held = 0 \/ dragging)
  BY DEF SdlQueued, SdlClosed
<1> SUFFICES Paired(events', E, A, R, went'.to = S!Nothing, held' = 0 \/ dragging')
  BY DEF SdlClosed
<1> HIDE DEF E, A, R
<1>1. CASE SdlHandles
  <2>1. UNCHANGED <<held, dragging>> /\ events # <<>> /\ events' = Tail(events)
    BY <1>1 DEF SdlHandles, S!ConsumeHitTest, S!ConsumeMoved, S!ConsumeDown, S!ConsumeMotion, S!ConsumeUp,
       S!DropHitTest, S!sdl, S!Take
  <2>2. Head(events) \in A => went'.to = S!Nothing
    <3>1. Head(events) \in A => Head(events).type = "up"  BY DEF A
    <3>2. Head(events).type = "up" => S!ConsumeUp
      BY <1>1 DEF SdlHandles, S!ConsumeHitTest, S!ConsumeMoved, S!ConsumeMotion, S!ConsumeDown,
         S!DropHitTest, S!Take
    <3> QED  BY <3>1, <3>2 DEF S!ConsumeUp, S!NoPress
  <2>3. went.to = S!Nothing /\ Head(events).type \notin R => went'.to = S!Nothing
    BY <1>1 DEF SdlHandles, S!ConsumeHitTest, S!ConsumeMoved, S!ConsumeDown, S!ConsumeMotion, S!ConsumeUp,
       S!DropHitTest, S!client, S!Take, R, S!NoPress
  <2> QED  BY <1>0, <2>1, <2>2, <2>3, PairedTaken
<1>2. CASE SdlLeaves \/ UNCHANGED S!vars
  <2>1. UNCHANGED <<events, held, dragging, went>>
    BY <1>2 DEF SdlLeaves, S!PollPumps, S!SetHitTest, S!SetCursorEnabled, S!Tick, S!vars, S!sdl
  <2> QED  BY <1>0, <2>1
<1>3. CASE S!PressArrives
  <2> DEFINE e == [type |-> IF dragging' THEN "test" ELSE "down", at |-> at]
  <2>1. events' = Append(events, e) /\ UNCHANGED went /\ at \in Points /\ held = 0 /\ held' # 0
    BY <1>3 DEF S!PressArrives, S!Queue, S!client, SdlTyped
  <2>2. e \in SdlEvents /\ (dragging' => e.type \notin R)
    BY <2>1 DEF SdlEvents, R
  <2> HIDE DEF e
  <2> QED  BY <1>0, <2>1, <2>2, PairedEnd
<1>4. CASE S!ReleaseArrives \/ S!CompositorTakes
  <2> DEFINE e == [type |-> "up"]
  <2>1. UNCHANGED went  BY <1>4 DEF S!ReleaseArrives, S!CompositorTakes, S!client
  <2>2. (dragging /\ UNCHANGED events) \/ events' = Append(events, e)
    BY <1>4 DEF S!ReleaseArrives, S!CompositorTakes, S!Queue
  <2>3. e \in SdlEvents /\ e.type \notin E /\ e \in A  BY DEF SdlEvents, E, A
  <2> HIDE DEF e
  <2>4. CASE UNCHANGED events /\ dragging
    <3>1. held' = 0 \/ dragging' => held = 0 \/ dragging  BY <2>4
    <3> QED  BY <1>0, <2>1, <2>4, <3>1, PairedWeaker
  <2>5. CASE events' = Append(events, e)
    <3> QED  BY <1>0, <2>1, <2>3, <2>5, PairedEnd
  <2> QED  BY <2>2, <2>4, <2>5
<1>5. CASE S!MotionArrives \/ S!WindowMoves \/ S!FocusLeaves
  <2>1. PICK e \in SdlEvents : events' = Append(events, e) /\ e.type \in {"motion", "moved", "unfocused"}
    BY <1>5 DEF S!MotionArrives, S!WindowMoves, S!FocusLeaves, S!Queue, SdlEvents
  <2>2. UNCHANGED <<went, held, dragging>>
    BY <1>5 DEF S!MotionArrives, S!WindowMoves, S!FocusLeaves, S!client, S!sdl
  <2>3. e.type \notin E /\ e.type \notin R  BY <2>1 DEF E, R
  <2> QED  BY <1>0, <2>1, <2>2, <2>3, PairedEnd
<1> QED  BY <1>1, <1>2, <1>3, <1>4, <1>5 DEF S!Next, SdlHandles, SdlLeaves, SdlArrives

\* No press is at hand when one is taken.
LEMMA SdlDownIsFree ==
  ASSUME SdlQueued, SdlClosed, \/ S!Take("down") \/ S!Take("test")
  PROVE  went.to = S!Nothing
<1>1. events \in Seq(SdlEvents) /\ events # <<>> /\ Head(events).type \in {"down", "test"}
  BY DEF S!Take, SdlQueued
<1> HIDE DEF SdlEvents
<1> QED  BY <1>1, PairedNow DEF SdlClosed

\* A release is awaited exactly while the title bar has the press.
LEMMA SdlClaimsKept ==
  ASSUME SdlAssumption, SdlQueued, SdlGestures, SdlClosed, SdlClaims, [S!Next]_S!vars PROVE SdlClaims'
<1> USE DEF SdlClaims
<1>0. S!GestureAssumption  BY DEF SdlAssumption
<1>1. CASE S!ConsumeHitTest  BY <1>1 DEF S!ConsumeHitTest
<1>2. CASE S!ConsumeMoved  BY <1>2 DEF S!ConsumeMoved
<1>3. CASE S!ConsumeDown
  <2>1. went.to = S!Nothing  BY <1>3, SdlDownIsFree DEF S!ConsumeDown
  <2> QED  BY <1>3, <2>1 DEF S!ConsumeDown, S!Nothing
<1>4. CASE S!ConsumeMotion  BY <1>4 DEF S!ConsumeMotion
<1>5. CASE S!ConsumeUp  BY <1>5 DEF S!ConsumeUp, S!NoPress, S!Nothing
<1>6. CASE S!Tick
  <2>1. S!Aged(S!Idle) = S!Idle  BY <1>0, TracedAged, MovedTyped, SameGestures DEF S!Aged, S!Idle, S!Older
  <2> QED  BY <1>6, <2>1 DEF S!Tick
<1>7. CASE S!SetHitTest  BY <1>7 DEF S!SetHitTest
<1>8. CASE S!DropHitTest \/ S!PollPumps \/ S!SetCursorEnabled \/ SdlArrives \/ UNCHANGED S!vars
  BY <1>8 DEF S!DropHitTest, S!PollPumps, S!SetCursorEnabled, SdlArrives, S!PressArrives, S!ReleaseArrives,
     S!MotionArrives, S!WindowMoves, S!FocusLeaves, S!CompositorTakes, S!client, S!bridge, S!vars
<1> QED  BY <1>1, <1>2, <1>3, <1>4, <1>5, <1>6, <1>7, <1>8 DEF S!Next, SdlArrives

\* What the seat will be, once it is pumped, names the press that is held.
LEMMA SdlHearsKept == ASSUME SdlTyped, SdlSeats, SdlHears, [S!Next]_S!vars PROVE SdlHears'
<1> USE DEF SdlHears
<1>0. ~S!NoSeat.pressed  BY DEF S!NoSeat
<1>1. CASE SdlHandles \/ SdlLeaves \/ UNCHANGED S!vars
  BY <1>0, <1>1 DEF SdlHandles, S!ConsumeHitTest, S!ConsumeMoved, S!ConsumeDown, S!ConsumeMotion,
     S!ConsumeUp, S!DropHitTest, SdlLeaves, S!PollPumps, S!SetHitTest, S!SetCursorEnabled, S!Tick, S!vars,
     S!sdl, S!bridge, S!client, S!StartMove, S!Pump, S!OnWayland
<1>2. CASE S!PressArrives
  <2>1. held' = serial + 1 /\ serial \in Nat /\ UNCHANGED <<hitTest, setup>>
    BY <1>2 DEF S!PressArrives, SdlTyped, S!client, S!bridge
  <2>2. heard' = IF S!OnWayland /\ hitTest THEN [latest |-> TRUE, pressed |-> TRUE, serial |-> serial + 1] ELSE heard
    BY <1>2 DEF S!PressArrives, S!SeatHears, S!Listen
  <2> QED  BY <1>0, <2>1, <2>2 DEF S!OnWayland
<1>3. CASE S!ReleaseArrives \/ S!CompositorTakes
  <2>1. heard' = IF S!OnWayland /\ hitTest THEN [heard EXCEPT !.pressed = FALSE] ELSE heard
    BY <1>3 DEF S!ReleaseArrives, S!CompositorTakes, S!SeatHears, S!Listen
  <2>2. ~[heard EXCEPT !.pressed = FALSE].pressed  BY DEF SdlSeats, SeatStates
  <2>3. UNCHANGED <<hitTest, setup>>  BY <1>3 DEF S!ReleaseArrives, S!CompositorTakes, S!client, S!bridge
  <2> QED  BY <1>0, <2>1, <2>2, <2>3 DEF S!OnWayland
<1>4. CASE S!MotionArrives \/ S!WindowMoves \/ S!FocusLeaves
  BY <1>4 DEF S!MotionArrives, S!WindowMoves, S!FocusLeaves, S!client, S!sdl, S!bridge, S!OnWayland
<1> QED  BY <1>1, <1>2, <1>3, <1>4 DEF S!Next, SdlHandles, SdlLeaves, SdlArrives

\* The clicks that the gesture holds were made on the title bar, and no drag came in between.
LEMMA SdlFollowsKept ==
  ASSUME SdlAssumption, SdlTyped, SdlQueued, SdlTold, SdlGestures, SdlClosed, SdlClaims, SdlFollows,
         [S!Next]_S!vars
  PROVE  SdlFollows'
<1> USE DEF SdlFollows
<1>0. S!GestureAssumption /\ caption \in S!Gestures /\ clicks \subseteq SdlClicks
  BY DEF SdlAssumption, SdlGestures
<1>1. CASE S!ConsumeHitTest
  <2>1. went.to = S!Nothing  BY <1>1, SdlDownIsFree DEF S!ConsumeHitTest
  <2>2. Traced(S!Clicked(caption, at), clicks \cup S!Click(at))  BY <1>0, TracedClicked, SameGestures
  <2> QED  BY <1>1, <2>1, <2>2 DEF S!ConsumeHitTest, S!Nothing
<1>2. CASE S!ConsumeMoved
  <2>1. caption' = S!Idle /\ UNCHANGED went
    BY <1>0, <1>2, MovedTyped, SameGestures DEF S!ConsumeMoved, SdlClaims
  <2> QED  BY <2>1, TracedIdle, SameGestures
<1>3. CASE S!ConsumeDown
  <2>1. /\ Traced(S!Press(caption, S!Here),
                  IF S!IsDoubleClick(caption, S!Here) THEN {} ELSE clicks \cup S!Click(S!Here))
        /\ Began(S!Press(caption, S!Here), S!Here)
    BY <1>0, TracedPress, SameGestures
  <2>2. CASE hitTest /\ ZoneOf[S!Here] = "caption"
    <3>1. /\ caption' = S!Press(caption, S!Here) /\ went'.from = S!Here
          /\ clicks' = IF S!IsDoubleClick(caption, S!Here) THEN {} ELSE clicks \cup S!Click(S!Here)
      BY <1>3, <2>2 DEF S!ConsumeDown
    <3> QED  BY <2>1, <3>1
  <2>3. CASE ~(hitTest /\ ZoneOf[S!Here] = "caption")
    <3>1. UNCHANGED <<caption, clicks>> /\ went'.to = "application"  BY <1>3, <2>3 DEF S!ConsumeDown
    <3> QED  BY <3>1
  <2> QED  BY <2>2, <2>3
<1>4. CASE S!ConsumeMotion
  <2>1. /\ Traced(S!Moved(caption, S!Here), clicks)
        /\ Began(caption, went.from) => Began(S!Moved(caption, S!Here), went.from)
        /\ Began(caption, went.from) /\ S!Distance(went.from, S!Here) >= DragThreshold =>
             S!Moved(caption, S!Here) = S!Idle
    BY TracedMoved, SameGestures
  <2>2. UNCHANGED went /\ caption' = (IF hitTest THEN S!Moved(caption, S!Here) ELSE S!Idle)
    BY <1>4 DEF S!ConsumeMotion, SdlClaims
  <2>3. clicks' = IF went.to = "caption" /\ S!Distance(went.from, S!Here) >= DragThreshold THEN {} ELSE clicks
    BY <1>4 DEF S!ConsumeMotion
  <2>4. Traced(S!Idle, clicks') /\ Began(S!Idle, went.from)  BY TracedIdle, SameGestures
  <2> QED  BY <2>1, <2>2, <2>3, <2>4
<1>5. CASE S!ConsumeUp
  <2>1. went'.to # "caption" /\ UNCHANGED clicks  BY <1>5 DEF S!ConsumeUp, S!NoPress, S!Nothing
  <2>2. Traced(caption', clicks)  BY <1>5, TracedReleased, SameGestures DEF S!ConsumeUp
  <2> QED  BY <2>1, <2>2
<1>6. CASE S!Tick
  <2>1. caption' = S!Aged(caption) /\ clicks' = Recent(clicks) /\ UNCHANGED went
    BY <1>6, SameGestures DEF S!Tick, Recent
  <2>2. Traced(S!Aged(caption), Recent(clicks)) /\ (Began(caption, went.from) => Began(S!Aged(caption), went.from))
    BY <1>0, TracedAged, SameGestures DEF SdlClicks
  <2> QED  BY <2>1, <2>2
<1>7. CASE S!SetHitTest  BY <1>7, TracedIdle, SameGestures DEF S!SetHitTest
<1>8. CASE S!DropHitTest \/ S!PollPumps \/ S!SetCursorEnabled \/ SdlArrives \/ UNCHANGED S!vars
  BY <1>8 DEF S!DropHitTest, S!PollPumps, S!SetCursorEnabled, SdlArrives, S!PressArrives, S!ReleaseArrives,
     S!MotionArrives, S!WindowMoves, S!FocusLeaves, S!CompositorTakes, S!client, S!bridge, S!vars
<1> QED  BY <1>1, <1>2, <1>3, <1>4, <1>5, <1>6, <1>7, <1>8 DEF S!Next, SdlArrives

\* Every step keeps the invariant.
LEMMA SdlInvKept == ASSUME SdlAssumption, SdlInv, [S!Next]_S!vars PROVE SdlInv'
<1>0. /\ SdlTyped /\ SdlQueued /\ SdlSeats /\ SdlTold /\ SdlGestures
      /\ SdlOpened /\ SdlClosed /\ SdlClaims /\ SdlHears /\ SdlFollows
  BY DEF SdlInv
<1>1. SdlTyped'  BY <1>0, SdlTypedKept
<1>2. SdlQueued'  BY <1>0, SdlQueuedKept
<1>3. SdlSeats'  BY <1>0, SdlSeatsKept
<1>4. SdlTold'  BY <1>0, SdlToldKept
<1>5. SdlGestures'  BY <1>0, SdlGesturesKept
<1>6. SdlOpened'  BY <1>0, SdlOpenedKept
<1>7. SdlClosed'  BY <1>0, SdlClosedKept
<1>8. SdlClaims'  BY <1>0, SdlClaimsKept
<1>9. SdlHears'  BY <1>0, SdlHearsKept
<1>10. SdlFollows'  BY <1>0, SdlFollowsKept
<1> QED  BY <1>1, <1>2, <1>3, <1>4, <1>5, <1>6, <1>7, <1>8, <1>9, <1>10 DEF SdlInv

\* The action properties.
LEMMA SdlReleases == ASSUME SdlInv, [S!Next]_S!vars PROVE S!ReleaseStep
<1> SUFFICES ASSUME S!Take("up") PROVE (did' = "release") = (went.to = "application")
  BY DEF S!ReleaseStep
<1>1. events \in Seq(SdlEvents) /\ events # <<>> /\ Head(events).type \in {"up"}
  BY DEF S!Take, SdlInv, SdlQueued
<1>2. went.to # S!Nothing
  <2> HIDE DEF SdlEvents
  <2> QED  BY <1>1, PairedNow DEF SdlInv, SdlOpened
<1>3. S!ConsumeUp
  <2>1. events' # events
    <3>1. Len(events) \in Nat /\ Len(Tail(events)) = Len(events) - 1
      <4> HIDE DEF SdlEvents
      <4> QED  BY <1>1
    <3>2. events' = Tail(events)  BY DEF S!Take
    <3>3. Len(events') = Len(events) - 1  BY <3>1, <3>2
    <3>4. Len(events) - 1 # Len(events)  BY <3>1
    <3> QED  BY <3>3, <3>4
  <2>2. ASSUME NEW e, S!Queue(e) PROVE FALSE
    <3>1. Len(events) \in Nat /\ Len(Tail(events)) = Len(events) - 1 /\ Len(Append(events, e)) = Len(events) + 1
      <4> HIDE DEF SdlEvents
      <4> QED  BY <1>1
    <3> QED  BY <2>2, <3>1 DEF S!Take, S!Queue
  <2>3. ~SdlArrives
    BY <2>1, <2>2 DEF SdlArrives, S!PressArrives, S!ReleaseArrives, S!MotionArrives, S!WindowMoves,
       S!FocusLeaves, S!CompositorTakes
  <2>4. ~SdlLeaves /\ ~UNCHANGED S!vars
    BY <2>1 DEF SdlLeaves, S!PollPumps, S!SetHitTest, S!SetCursorEnabled, S!Tick, S!vars
  <2>5. ~(S!ConsumeHitTest \/ S!ConsumeMoved \/ S!ConsumeDown \/ S!ConsumeMotion \/ S!DropHitTest)
    BY DEF S!ConsumeHitTest, S!ConsumeMoved, S!ConsumeDown, S!ConsumeMotion, S!DropHitTest, S!Take
  <2> QED  BY <2>3, <2>4, <2>5 DEF S!Next, SdlArrives, SdlLeaves
<1>4. went.to \in {"application", "caption"}  BY <1>2 DEF SdlInv, SdlTold
<1> QED  BY <1>3, <1>4 DEF S!ConsumeUp, SdlInv, SdlClaims, S!Nothing

\* A press toggles maximize as the second of two clicks.
LEMMA SdlToggles == ASSUME SdlInv, [S!Next]_S!vars PROVE S!ToggleStep
<1> SUFFICES ASSUME did' = "toggle", did # "toggle"
             PROVE  \E c \in clicks : c.age <= Interval /\ S!Distance(c.at, went'.from) <= Slop
  BY DEF S!ToggleStep
<1>1. S!ConsumeDown
  BY DEF S!Next, S!vars, S!ConsumeHitTest, S!ConsumeMoved, S!ConsumeMotion, S!ConsumeUp, S!DropHitTest,
     S!StartMove, S!Nothing, S!PollPumps, S!SetHitTest, S!SetCursorEnabled, S!Tick, S!PressArrives,
     S!ReleaseArrives, S!MotionArrives, S!WindowMoves, S!FocusLeaves, S!CompositorTakes
<1>2. S!IsDoubleClick(caption, S!Here) /\ went'.from = S!Here  BY <1>1 DEF S!ConsumeDown, S!Nothing
<1> QED  BY <1>2, DoubleIsTwo, SameGestures DEF SdlInv, SdlFollows

\* A move is asked for with the press that is held.
LEMMA SdlMoves == ASSUME SdlInv, [S!Next]_S!vars PROVE S!MoveStep
<1> SUFFICES ASSUME did' = "move", did # "move" PROVE seat'.serial = held /\ held # 0
  BY DEF S!MoveStep
<1>1. S!ConsumeMotion
  BY DEF S!Next, S!vars, S!ConsumeHitTest, S!ConsumeMoved, S!ConsumeDown, S!ConsumeUp, S!DropHitTest,
     S!Nothing, S!PollPumps, S!SetHitTest, S!SetCursorEnabled, S!Tick, S!PressArrives, S!ReleaseArrives,
     S!MotionArrives, S!WindowMoves, S!FocusLeaves, S!CompositorTakes
<1>2. S!StartMove  BY <1>1 DEF S!ConsumeMotion, S!Nothing
<1> QED  BY <1>2 DEF S!StartMove, S!Pump, S!Nothing, SdlInv, SdlHears

-----------------------------------------------------------------------------
(* InputTables.                                                             *)

\* Every index into the tables is within them, and the wheel is bounded.
TablesContexts == active \in T!Contexts /\ stack \in Seq(T!Contexts) /\ Len(stack) <= MaxDepth
TablesBound ==
  capacity \in 1 .. MaxContexts /\ bound \subseteq (0 .. capacity - 1) \X (T!SlotsOf(kind) \ {"bad button"})
TablesRan == call \in {T!Idle} \cup (T!Contexts \X T!SlotsOf(kind))
TablesWheel == accumulated \in 0 .. MaxWheel

TablesInv == kind \in {"mouse", "touch"} /\ TablesContexts /\ TablesBound /\ TablesRan /\ TablesWheel

\* Those are the types.
LEMMA TablesInvImplies == TablesInv => T!TypeOK
BY DEF TablesInv, T!TypeOK, TablesContexts, TablesBound, TablesRan, TablesWheel

\* Nothing is bound and nothing scrolled at first.
LEMMA TablesInvInit == ASSUME T!TablesAssumption PROVE T!Init => TablesInv
<1> SUFFICES ASSUME T!Init
             PROVE  kind \in {"mouse", "touch"} /\ TablesContexts /\ TablesBound /\ TablesRan /\ TablesWheel
  BY DEF TablesInv
<1>1. TablesContexts /\ TablesWheel
  BY DEF T!Init, TablesContexts, TablesWheel, T!TablesAssumption, T!Contexts
<1>2. TablesBound /\ TablesRan  BY DEF T!Init, TablesBound, TablesRan, T!TablesAssumption
<1> QED  BY <1>1, <1>2 DEF T!Init

\* The context that is resolved is one the application knows.
LEMMA TablesResolved == ASSUME TablesContexts PROVE T!Resolved \in T!Contexts
<1>1. stack # <<>> => Len(stack) \in 1 .. Len(stack)  BY DEF TablesContexts
<1> QED  BY <1>1 DEF T!Resolved, TablesContexts

\* The contexts stay contexts, and the stack within its bound.
LEMMA TablesContextsKept == ASSUME T!TablesAssumption, TablesContexts, [T!Next]_T!vars PROVE TablesContexts'
<1>1. CASE T!SetActiveContext  BY <1>1 DEF T!SetActiveContext, TablesContexts
<1>2. CASE T!PushContext
  <2>1. PICK context \in T!Contexts : stack' = Append(stack, context)  BY <1>2 DEF T!PushContext
  <2>2. stack \in Seq(T!Contexts) /\ Len(stack) < MaxDepth /\ UNCHANGED active
    BY <1>2 DEF T!PushContext, TablesContexts
  <2>3. stack' \in Seq(T!Contexts) /\ Len(stack') = Len(stack) + 1 /\ Len(stack) \in Nat
    BY <2>1, <2>2
  <2> QED  BY <2>2, <2>3 DEF TablesContexts, T!TablesAssumption
<1>3. CASE T!PopContext
  <2>1. stack \in Seq(T!Contexts) /\ Len(stack) <= MaxDepth /\ UNCHANGED active
    BY <1>3 DEF T!PopContext, TablesContexts
  <2>2. CASE stack = <<>>  BY <1>3, <2>1, <2>2 DEF T!PopContext, TablesContexts
  <2>3. CASE stack # <<>>
    <3>1. stack' = SubSeq(stack, 1, Len(stack) - 1) /\ Len(stack) \in Nat /\ Len(stack) # 0
      BY <1>3, <2>1, <2>3 DEF T!PopContext
    <3>2. stack' \in Seq(T!Contexts) /\ Len(stack') = Len(stack) - 1  BY <2>1, <2>3, <3>1, Popped
    <3>3. Len(stack') <= MaxDepth  BY <2>1, <3>1, <3>2 DEF T!TablesAssumption
    <3> QED  BY <2>1, <3>2, <3>3 DEF TablesContexts
  <2> QED  BY <2>2, <2>3
<1>4. CASE UNCHANGED T!contexts  BY <1>4 DEF T!contexts, TablesContexts
<1> QED
  BY <1>1, <1>2, <1>3, <1>4 DEF T!Next, T!vars, T!SetAction, T!RemoveAction, T!ClearAllActions,
     T!ConsumeScrollDelta, T!Dispatch, T!DispatchScroll, T!CallbackReturns

\* More room is room for what there was.
LEMMA Widened == ASSUME NEW m \in Nat, NEW n \in Nat, m <= n PROVE 0 .. m - 1 \subseteq 0 .. n - 1
OBVIOUS

\* An action is bound in a context for which there is room.
LEMMA TablesBoundKept == ASSUME T!TablesAssumption, TablesBound, [T!Next]_T!vars PROVE TablesBound'
<1> DEFINE B == T!SlotsOf(kind) \ {"bad button"}
<1>0. capacity \in 1 .. MaxContexts /\ MaxContexts \in Nat \ {0}  BY DEF TablesBound, T!TablesAssumption
<1>b. bound \subseteq (0 .. capacity - 1) \X B  BY DEF TablesBound
<1> HIDE DEF B
<1>1. ASSUME NEW context \in T!Contexts, T!EnsureContextCapacity(context)
      PROVE  capacity' \in 1 .. MaxContexts /\ capacity <= capacity' /\ context \in 0 .. capacity' - 1
  BY <1>0, <1>1 DEF T!EnsureContextCapacity, T!Contexts
<1>2. ASSUME capacity' \in 1 .. MaxContexts, capacity <= capacity'
      PROVE  bound \subseteq (0 .. capacity' - 1) \X B
  <2>0. capacity \in Nat /\ capacity' \in Nat /\ capacity <= capacity'  BY <1>0, <1>2
  <2>1. 0 .. capacity - 1 \subseteq 0 .. capacity' - 1  BY <2>0, Widened
  <2> QED  BY <1>b, <2>1
<1>3. CASE T!SetAction
  <2>1. PICK context \in T!Contexts, slot \in T!SlotsOf(kind) \ {"bad button"} :
          T!EnsureContextCapacity(context) /\ bound' = bound \cup {<<context, slot>>}
    BY <1>3 DEF T!SetAction
  <2>2. UNCHANGED kind  BY <1>3 DEF T!SetAction
  <2>3. capacity' \in 1 .. MaxContexts /\ capacity <= capacity' /\ context \in 0 .. capacity' - 1
    BY <1>1, <2>1
  <2>4. bound' \subseteq (0 .. capacity' - 1) \X B
    <3>1. slot \in B  BY <2>1 DEF B
    <3>2. <<context, slot>> \in (0 .. capacity' - 1) \X B  BY <2>3, <3>1
    <3>3. bound \subseteq (0 .. capacity' - 1) \X B  BY <1>2, <2>3
    <3>4. bound' = bound \cup {<<context, slot>>}  BY <2>1
    <3> QED  BY <3>2, <3>3, <3>4
  <2> QED  BY <2>2, <2>3, <2>4 DEF TablesBound, B
<1>4. CASE T!RemoveAction \/ T!ClearAllActions
  <2>1. bound' \subseteq bound /\ UNCHANGED kind  BY <1>4 DEF T!RemoveAction, T!ClearAllActions
  <2>2. capacity' \in 1 .. MaxContexts /\ capacity <= capacity'
    <3>1. UNCHANGED capacity \/ \E context \in T!Contexts : T!EnsureContextCapacity(context)
      BY <1>4 DEF T!RemoveAction, T!ClearAllActions
    <3> QED  BY <1>0, <1>1, <3>1
  <2> QED  BY <1>2, <2>1, <2>2 DEF TablesBound, B
<1>5. CASE UNCHANGED <<kind, capacity, bound>>  BY <1>5 DEF TablesBound
<1> QED
  BY <1>3, <1>4, <1>5 DEF T!Next, T!vars, T!SetActiveContext, T!PushContext, T!PopContext,
     T!ConsumeScrollDelta, T!Dispatch, T!DispatchScroll, T!CallbackReturns

\* What runs is an action of the listener.
LEMMA TablesRanKept ==
  ASSUME kind \in {"mouse", "touch"}, TablesContexts, TablesRan, [T!Next]_T!vars
  PROVE  TablesRan' /\ UNCHANGED kind
<1>1. UNCHANGED kind
  BY DEF T!Next, T!vars, T!SetActiveContext, T!PushContext, T!PopContext, T!SetAction, T!RemoveAction,
     T!ClearAllActions, T!ConsumeScrollDelta, T!Dispatch, T!DispatchScroll, T!CallbackReturns
<1>2. CASE T!Dispatch \/ T!DispatchScroll
  <2>1. PICK slot \in T!SlotsOf(kind) : T!Run(slot)
    BY <1>2 DEF T!Dispatch, T!DispatchScroll, T!SlotsOf
  <2> HIDE DEF T!SlotsOf
  <2>2. call' = T!Idle \/ call' = <<T!Resolved, slot>>  BY <2>1 DEF T!Run
  <2> QED  BY <1>1, <2>2, TablesResolved DEF TablesRan
<1>3. CASE T!CallbackReturns  BY <1>3 DEF T!CallbackReturns, TablesRan
<1>4. CASE UNCHANGED call  BY <1>1, <1>4 DEF TablesRan
<1> QED
  BY <1>1, <1>2, <1>3, <1>4 DEF T!Next, T!vars, T!SetActiveContext, T!PushContext, T!PopContext,
     T!SetAction, T!RemoveAction, T!ClearAllActions, T!ConsumeScrollDelta

\* The wheel is accumulated within its bound, whether or not an action is bound.
LEMMA TablesWheelKept == ASSUME T!TablesAssumption, TablesWheel, [T!Next]_T!vars PROVE TablesWheel'
<1>1. CASE T!ConsumeScrollDelta
  BY <1>1 DEF T!ConsumeScrollDelta, TablesWheel, T!TablesAssumption
<1>2. CASE T!DispatchScroll
  <2>1. PICK notches \in 1 .. MaxWheel - accumulated : accumulated' = accumulated + notches
    BY <1>2 DEF T!DispatchScroll
  <2> QED  BY <2>1 DEF TablesWheel, T!TablesAssumption
<1>3. CASE UNCHANGED accumulated  BY <1>3 DEF TablesWheel
<1> QED
  BY <1>1, <1>2, <1>3 DEF T!Next, T!vars, T!SetActiveContext, T!PushContext, T!PopContext,
     T!SetAction, T!RemoveAction, T!ClearAllActions, T!Dispatch, T!CallbackReturns

\* Every call of the listener and every dispatch keeps the invariant.
LEMMA TablesInvKept == ASSUME T!TablesAssumption, TablesInv, [T!Next]_T!vars PROVE TablesInv'
<1>1. kind \in {"mouse", "touch"} /\ TablesContexts /\ TablesBound /\ TablesRan /\ TablesWheel
  BY DEF TablesInv
<1>2. TablesContexts' /\ TablesBound' /\ TablesRan' /\ TablesWheel' /\ UNCHANGED kind
  BY <1>1, TablesContextsKept, TablesBoundKept, TablesRanKept, TablesWheelKept
<1>3. kind' \in {"mouse", "touch"}  BY <1>1, <1>2
<1> QED  BY <1>2, <1>3 DEF TablesInv

-----------------------------------------------------------------------------
(* KeyboardInput.                                                           *)

\* The name of a key that does not depend on the modifiers: its position's on Wayland, that of its
\* first keysym on X11.
SteadyName(s, k) == IF s.backend = "wayland" THEN s.position[k] ELSE s.named[k, 0]

\* The layouts meant: no two keys have one name, and on Wayland a key has its position's name or
\* none under every modifier.
SteadyNames ==
  \A s \in KeyboardSetups :
    /\ \A k, l \in PhysicalKeys : SteadyName(s, k) = SteadyName(s, l) /\ SteadyName(s, k) # Unknown => k = l
    /\ s.backend = "wayland" =>
         \A k \in PhysicalKeys, level_ \in K!Levels : s.named[k, level_] \in {Unknown, s.position[k]}

\* The names of the keys in a set.
NamesOf(s, keys) == {SteadyName(s, k) : k \in keys} \ {Unknown}

\* The held keys after an event, where d were held; and that on Wayland a press is no repeat.
DownAfter(s, d, e) ==
  CASE e.type = "press" -> (d \cup {SteadyName(s, e.key)}) \ {Unknown}
    [] e.type = "release" -> d \ {SteadyName(s, e.key)}
    [] e.type = "leave" -> {}
    [] OTHER -> d
Fresh(s, d, e) == s.backend = "wayland" /\ e.type = "press" => SteadyName(s, e.key) \notin d

\* The events of q lead from the held keys c to the held keys d.
KeysLead(s, q, c, d) ==
  \E f \in [0 .. Len(q) -> SUBSET Keys] :
    /\ f[0] = c /\ f[Len(q)] = d
    /\ \A i \in 1 .. Len(q) : f[i] = DownAfter(s, f[i - 1], q[i]) /\ Fresh(s, f[i - 1], q[i])

\* The invariant.
KeyboardTyped ==
  /\ setup \in KeyboardSetups /\ focused \in BOOLEAN /\ mapped \in BOOLEAN /\ level \in K!Levels
  /\ destroyed \in BOOLEAN
QueueTyped == events \in Seq(K!Events)
ContextsTyped == active \in K!Contexts /\ stack \in Seq(K!Contexts)
Installed == capacity \in 1 .. MaxContexts /\ installed \subseteq {slot \in K!Slots : slot[1] < capacity}
CallTyped == call \in K!Calls
\* The keys the server has told of are pressed; a binding that fired has its key down.
SeenIsPressed == pressed \subseteq PhysicalKeys /\ seen \subseteq pressed /\ (~focused => seen = {})
FiredIsDown == down \subseteq Keys /\ fired \subseteq down
\* The keys whose last event the input method took, of which Wayland has none.
TakenIsX11 == taken \subseteq Keys /\ (K!Wayland => taken = {})
\* The events that are queued lead from the keys held to the keys told of, but for the keys whose
\* last event the input method took: had it not, the keys c would be held.
Missed(c) == c \ taken = down \ taken
HeldIsTold == \E c \in SUBSET Keys : Missed(c) /\ KeysLead(setup, events, c, NamesOf(setup, seen))

\* The invariant of any keyboard.
KeyboardInv ==
  /\ KeyboardTyped /\ QueueTyped /\ ContextsTyped /\ Installed /\ CallTyped
  /\ SeenIsPressed /\ FiredIsDown /\ TakenIsX11

-----------------------------------------------------------------------------
\* The name a handler finds is the steady one, and so is the application's.
LEMMA KeyForIsSteady ==
  ASSUME K!SetupsAssumption, SteadyNames, KeyboardTyped, NEW k \in PhysicalKeys
  PROVE  /\ K!KeyFor(k) = SteadyName(setup, k) /\ K!NameOf(k) = SteadyName(setup, k)
         /\ SteadyName(setup, k) \in Keys \cup {Unknown}
<1>1. /\ setup \in [backend : {"x11", "wayland"}, named : [PhysicalKeys \X K!Levels -> Keys \cup {Unknown}],
                    position : [PhysicalKeys -> Keys]]
      /\ level \in K!Levels /\ 0 \in K!Levels
  BY DEF K!SetupsAssumption, KeyboardTyped, K!Levels
<1>2. setup.named[k, 0] \in Keys \cup {Unknown} /\ setup.position[k] \in Keys
  BY <1>1
<1>3. setup.backend = "wayland" =>
        setup.named[k, level] \in {Unknown, setup.position[k]} /\ setup.named[k, 0] \in {Unknown, setup.position[k]}
  BY <1>1 DEF SteadyNames, KeyboardTyped
<1> QED  BY <1>2, <1>3 DEF K!KeyFor, K!WaylandKeyFor, K!X11KeyFor, K!NameOf, SteadyName, K!Wayland

\* Keys stay keys.
LEMMA DownAfterTyped ==
  ASSUME NEW s, NEW d \in SUBSET Keys, NEW e,
         e.type \in {"press", "release"} => SteadyName(s, e.key) \in Keys \cup {Unknown}
  PROVE  DownAfter(s, d, e) \in SUBSET Keys
<1>1. CASE e.type = "press"  BY <1>1 DEF DownAfter
<1>2. CASE e.type = "release"  BY <1>2 DEF DownAfter
<1>3. CASE e.type = "leave"  BY <1>3 DEF DownAfter
<1>4. CASE e.type \notin {"press", "release", "leave"}  BY <1>4 DEF DownAfter
<1> QED  BY <1>1, <1>2, <1>3, <1>4

\* Nowhere is a path, and leads nowhere.
LEMMA KeysLeadNowhere ==
  /\ \A s, c, d : KeysLead(s, <<>>, c, d) => c = d
  /\ \A s : \A c \in SUBSET Keys : KeysLead(s, <<>>, c, c)
<1>1. ASSUME NEW s, NEW c, NEW d, KeysLead(s, <<>>, c, d) PROVE c = d
  BY <1>1 DEF KeysLead
<1>2. ASSUME NEW s, NEW c \in SUBSET Keys PROVE KeysLead(s, <<>>, c, c)
  <2> DEFINE f == [i \in 0 .. 0 |-> c]
  <2>1. f \in [0 .. 0 -> SUBSET Keys] /\ f[0] = c /\ Len(<<>>) = 0 /\ (\A i \in 1 .. 0 : FALSE)  OBVIOUS
  <2> HIDE DEF f
  <2> QED  BY <2>1 DEF KeysLead
<1> QED  BY <1>1, <1>2

\* One more event at the end is one step more.
LEMMA KeysLeadFurther ==
  ASSUME NEW D, NEW s, NEW q \in Seq(D), NEW c, NEW d, NEW e \in D, KeysLead(s, q, c, d),
         Fresh(s, d, e), DownAfter(s, d, e) \in SUBSET Keys
  PROVE  KeysLead(s, Append(q, e), c, DownAfter(s, d, e))
<1> DEFINE n == Len(q)
           t == Append(q, e)
           b == DownAfter(s, d, e)
<1>1. n \in Nat /\ Len(t) = n + 1 /\ t[n + 1] = e /\ \A i \in 1 .. n : t[i] = q[i]
  OBVIOUS
<1>2. PICK f \in [0 .. n -> SUBSET Keys] :
        f[0] = c /\ f[n] = d /\ \A i \in 1 .. n : f[i] = DownAfter(s, f[i - 1], q[i]) /\ Fresh(s, f[i - 1], q[i])
  BY DEF KeysLead
<1>3. b \in SUBSET Keys  OBVIOUS
<1>b. b = DownAfter(s, d, e)  OBVIOUS
<1> HIDE DEF n, t, b
<1> DEFINE g == [i \in 0 .. n + 1 |-> IF i <= n THEN f[i] ELSE b]
<1>4. g \in [0 .. n + 1 -> SUBSET Keys]  BY <1>1, <1>3
<1>5. g[0] = c /\ g[n + 1] = b /\ g[n] = d  BY <1>1, <1>2
<1>6. ASSUME NEW i \in 1 .. n + 1 PROVE g[i] = DownAfter(s, g[i - 1], t[i]) /\ Fresh(s, g[i - 1], t[i])
  <2>1. CASE i = n + 1
    <3>1. i - 1 = n  BY <1>1, <2>1
    <3> QED  BY <1>1, <1>5, <1>b, <2>1, <3>1
  <2>2. CASE i # n + 1
    <3>1. i \in 1 .. n /\ i - 1 \in 0 .. n  BY <1>1, <2>2
    <3>2. g[i] = f[i] /\ g[i - 1] = f[i - 1] /\ t[i] = q[i]  BY <1>1, <3>1
    <3> QED  BY <1>2, <3>1, <3>2
  <2> QED  BY <2>1, <2>2
<1> HIDE DEF g
<1>7. KeysLead(s, t, c, b)  BY <1>1, <1>4, <1>5, <1>6 DEF KeysLead
<1> QED  BY <1>7 DEF t, b

\* The first event is the first step.
LEMMA KeysLeadOn ==
  ASSUME NEW D, NEW s, NEW q \in Seq(D), q # <<>>, NEW c, NEW d, KeysLead(s, q, c, d)
  PROVE  KeysLead(s, Tail(q), DownAfter(s, c, Head(q)), d) /\ Fresh(s, c, Head(q))
<1> DEFINE n == Len(q)
           t == Tail(q)
<1>1. n \in Nat \ {0} /\ Len(t) = n - 1 /\ Head(q) = q[1] /\ \A i \in 1 .. n - 1 : t[i] = q[i + 1]
  OBVIOUS
<1>2. PICK f \in [0 .. n -> SUBSET Keys] :
        f[0] = c /\ f[n] = d /\ \A i \in 1 .. n : f[i] = DownAfter(s, f[i - 1], q[i]) /\ Fresh(s, f[i - 1], q[i])
  BY DEF KeysLead
<1> HIDE DEF n, t
<1> DEFINE g == [i \in 0 .. n - 1 |-> f[i + 1]]
<1>3. g \in [0 .. n - 1 -> SUBSET Keys]  BY <1>1
<1>4. 1 \in 1 .. n /\ 1 - 1 = 0  BY <1>1
<1>5. f[1] = DownAfter(s, c, Head(q)) /\ Fresh(s, c, Head(q))  BY <1>1, <1>2, <1>4
<1>6. g[0] = f[1] /\ g[n - 1] = f[n]  BY <1>1
<1>7. ASSUME NEW i \in 1 .. n - 1 PROVE g[i] = DownAfter(s, g[i - 1], t[i]) /\ Fresh(s, g[i - 1], t[i])
  <2>1. i + 1 \in 1 .. n /\ i \in 0 .. n - 1 /\ i - 1 \in 0 .. n - 1 /\ (i + 1) - 1 = i  BY <1>1
  <2>2. f[i + 1] = DownAfter(s, f[i], q[i + 1]) /\ Fresh(s, f[i], q[i + 1])  BY <1>2, <2>1
  <2>3. g[i] = f[i + 1] /\ g[i - 1] = f[i]  BY <2>1
  <2> QED  BY <1>1, <2>2, <2>3
<1> HIDE DEF g
<1>8. KeysLead(s, t, f[1], d)  BY <1>1, <1>2, <1>3, <1>6, <1>7 DEF KeysLead
<1> QED  BY <1>5, <1>8 DEF t

-----------------------------------------------------------------------------
\* Nothing is pressed, sent or held at first.
LEMMA KeyboardInvInit ==
  ASSUME K!BoundsAssumption PROVE K!Init => KeyboardInv /\ HeldIsTold
<1> SUFFICES ASSUME K!Init PROVE KeyboardInv /\ HeldIsTold
  OBVIOUS
<1>1. KeyboardTyped  BY DEF K!Init, KeyboardTyped, K!Levels
<1>c. ContextsTyped
  <2>1. active \in K!Contexts  BY DEF K!Init, K!BoundsAssumption, K!Contexts
  <2> QED  BY <2>1 DEF K!Init, ContextsTyped
<1>a. QueueTyped  BY DEF K!Init, QueueTyped
<1>2. Installed /\ CallTyped  BY DEF K!Init, Installed, CallTyped, K!BoundsAssumption, K!Calls
<1>3. SeenIsPressed /\ FiredIsDown /\ TakenIsX11
  BY DEF K!Init, SeenIsPressed, FiredIsDown, TakenIsX11
<1>4. NamesOf(setup, seen) = {}  BY DEF K!Init, NamesOf
<1>5. KeysLead(setup, <<>>, {}, {})
  <2>1. {} \in SUBSET Keys  OBVIOUS
  <2> QED  BY <2>1, KeysLeadNowhere
<1>6. HeldIsTold
  <2>1. {} \in SUBSET Keys /\ Missed({})  BY DEF Missed, K!Init
  <2>2. KeysLead(setup, events, {}, NamesOf(setup, seen))  BY <1>4, <1>5 DEF K!Init
  <2> QED  BY <2>1, <2>2 DEF HeldIsTold
<1> QED  BY <1>1, <1>a, <1>c, <1>2, <1>3, <1>6 DEF KeyboardInv

\* The invariant is the type invariant, and more.
LEMMA KeyboardInvTypes == KeyboardInv => K!TypeOK
BY DEF KeyboardInv, K!TypeOK, KeyboardTyped, QueueTyped, ContextsTyped, Installed, CallTyped, SeenIsPressed,
   FiredIsDown, TakenIsX11

\* The steps that dispatch an event take it from the queue.
LEMMA HandleTakes ==
  ASSUME QueueTyped, K!Handle
  PROVE  /\ events # <<>> /\ events' = Tail(events) /\ Head(events) \in K!Events /\ call = K!Idle
         /\ UNCHANGED <<K!server, K!contexts, K!tables>>
<1>1. events # <<>> /\ events' = Tail(events) /\ call = K!Idle /\ UNCHANGED <<K!server, K!contexts, K!tables>>
  BY DEF K!Handle, K!HandlePress, K!HandleRelease, K!HandleLeave, K!HandleEnter, K!HandleModifiers,
     K!HandleKeymap, K!Dispatching
<1> QED  BY <1>1 DEF QueueTyped

\* A concatenation with one or two events.
LEMMA Concatenated ==
  ASSUME NEW D, NEW q \in Seq(D), NEW e, NEW m
  PROVE  /\ q \o <<e>> = Append(q, e) /\ q \o (<<e>> \o <<>>) = Append(q, e)
         /\ q \o (<<e>> \o <<m>>) = Append(Append(q, e), m) /\ (q \o <<e>>) \o <<>> = Append(q, e)
         /\ (q \o <<e>>) \o <<m>> = Append(Append(q, e), m)
OBVIOUS

\* An event of the server that is no modifier's: what seen becomes with it.
Sends(e) ==
  /\ e \in K!Events
  /\ e.type = "press" => seen' = seen \cup {e.key} /\ e.key \in PhysicalKeys
                         /\ (K!Wayland => e.key \notin pressed)
  /\ e.type = "release" => seen' = seen \ {e.key} /\ e.key \in PhysicalKeys
  /\ e.type = "leave" => seen' = {}
  /\ e.type \in {"enter", "keymap"} => seen' = seen
  /\ e.type # "modifiers"

\* The server's steps send nothing, one event, or one and the modifiers after it.
ServerStep == K!Press \/ K!Release \/ K!AutoRepeat \/ K!FocusIn \/ K!FocusOut \/ K!SendKeymap

\* What a step of the server puts in the queue.
LEMMA ServerSends ==
  ASSUME QueueTyped, SeenIsPressed, ServerStep
  PROVE  \/ events' = events /\ seen' = seen
         \/ \E e, m \in K!Events :
              /\ Sends(e) /\ m.type = "modifiers"
              /\ events' \in {Append(events, e), Append(Append(events, e), m)}
<1> DEFINE m(keys) == [type |-> "modifiers", level |-> K!LevelOf(keys)]
<1>0. \A keys : /\ m(keys) \in K!Events /\ m(keys).type = "modifiers"
                /\ K!ModifierEvents(keys) \in {<<>>, <<m(keys)>>}
  BY DEF K!Events, K!LevelOf, K!Levels, K!ModifierEvents
<1> HIDE DEF m
<1>q. events \in Seq(K!Events)  BY DEF QueueTyped
<1>1. CASE K!Press
  <2>1. PICK key \in PhysicalKeys \ pressed :
          /\ seen' = IF focused THEN seen \cup {key} ELSE seen
          /\ K!Send(<<[type |-> "press", key |-> key, repeat |-> FALSE]>>
                      \o (IF key = Shift THEN K!ModifierEvents(pressed') ELSE <<>>))
    BY <1>1 DEF K!Press
  <2> DEFINE e == [type |-> "press", key |-> key, repeat |-> FALSE]
  <2>2. e \in K!Events /\ e.type = "press" /\ e.key = key  BY <2>1 DEF K!Events
  <2>3. CASE ~focused  BY <2>1, <2>3 DEF K!Send
  <2>4. CASE focused
    <3>1. Sends(e)  BY <2>1, <2>2, <2>4 DEF Sends
    <3>4. events' = events \o (<<e>> \o (IF key = Shift THEN K!ModifierEvents(pressed') ELSE <<>>))
      BY <2>1, <2>4 DEF K!Send
    <3>2. events' \in {Append(events, e), Append(Append(events, e), m(pressed'))}
      <4> HIDE DEF e
      <4>1. /\ events \o (<<e>> \o <<>>) = Append(events, e)
            /\ events \o (<<e>> \o <<m(pressed')>>) = Append(Append(events, e), m(pressed'))
        BY <1>q, Concatenated
      <4> QED  BY <1>0, <3>4, <4>1
    <3>3. m(pressed') \in K!Events /\ m(pressed').type = "modifiers"  BY <1>0
    <3> HIDE DEF e
    <3> QED  BY <2>2, <3>1, <3>2, <3>3
  <2> QED  BY <2>3, <2>4
<1>2. CASE K!Release
  <2>1. PICK key \in pressed :
          /\ seen' = seen \ {key}
          /\ K!Send(<<[type |-> "release", key |-> key]>>
                      \o (IF key = Shift THEN K!ModifierEvents(pressed') ELSE <<>>))
    BY <1>2 DEF K!Release
  <2> DEFINE e == [type |-> "release", key |-> key]
  <2>2. e \in K!Events /\ e.type = "release" /\ e.key = key /\ key \in PhysicalKeys
    BY <2>1 DEF K!Events, SeenIsPressed
  <2>3. CASE ~focused  BY <2>1, <2>3 DEF K!Send, SeenIsPressed
  <2>4. CASE focused
    <3>1. Sends(e)  BY <2>1, <2>2, <2>4 DEF Sends
    <3>2. events' \in {Append(events, e), Append(Append(events, e), m(pressed'))}
      BY <1>0, <1>q, <2>1, <2>4, Concatenated DEF K!Send
    <3> QED  BY <1>0, <2>2, <3>1, <3>2
  <2> QED  BY <2>3, <2>4
<1>3. CASE K!AutoRepeat
  <2>1. PICK key \in pressed :
          ~K!Wayland /\ focused /\ seen' = seen \cup {key} /\ K!Send(<<[type |-> "press", key |-> key, repeat |-> TRUE]>>)
    BY <1>3 DEF K!AutoRepeat
  <2> DEFINE e == [type |-> "press", key |-> key, repeat |-> TRUE]
  <2>2. e \in K!Events /\ e.type = "press" /\ e.key = key /\ key \in PhysicalKeys
    BY <2>1 DEF K!Events, SeenIsPressed
  <2>3. Sends(e)  BY <2>1, <2>2 DEF Sends
  <2>4. events' = Append(events, e)  BY <1>q, <2>1, Concatenated DEF K!Send
  <2> QED  BY <1>0, <2>2, <2>3, <2>4
<1>4. CASE K!FocusIn
  <2> DEFINE e == [type |-> "enter"]
  <2>1. e \in K!Events /\ e.type = "enter"  BY DEF K!Events
  <2>2. Sends(e)  BY <1>4, <2>1 DEF Sends, K!FocusIn
  <2>3. events' = events \o <<e>> \o K!ModifierEvents(pressed)  BY <1>4 DEF K!FocusIn
  <2>4. events' \in {Append(events, e), Append(Append(events, e), m(pressed))}
    <3> HIDE DEF e
    <3>1. (events \o <<e>>) \o <<>> = Append(events, e)  BY <1>q, Concatenated
    <3>2. (events \o <<e>>) \o <<m(pressed)>> = Append(Append(events, e), m(pressed))  BY <1>q, Concatenated
    <3> QED  BY <1>0, <2>3, <3>1, <3>2
  <2> QED  BY <1>0, <2>1, <2>2, <2>4
<1>5. CASE K!FocusOut
  <2> DEFINE e == [type |-> "leave"]
  <2>1. e \in K!Events /\ e.type = "leave"  BY DEF K!Events
  <2>2. Sends(e)  BY <1>5, <2>1 DEF Sends, K!FocusOut
  <2>3. events' = Append(events, e)  BY <1>5, <1>q, Concatenated DEF K!FocusOut, K!Send
  <2> QED  BY <1>0, <2>1, <2>2, <2>3
<1>6. CASE K!SendKeymap
  <2> DEFINE e == [type |-> "keymap"]
  <2>1. e \in K!Events /\ e.type = "keymap"  BY DEF K!Events
  <2>2. Sends(e)  BY <1>6, <2>1 DEF Sends, K!SendKeymap, K!server
  <2>3. events' = events \o <<e>> \o K!ModifierEvents(pressed)  BY <1>6 DEF K!SendKeymap
  <2>4. events' \in {Append(events, e), Append(Append(events, e), m(pressed))}
    <3> HIDE DEF e
    <3>1. (events \o <<e>>) \o <<>> = Append(events, e)  BY <1>q, Concatenated
    <3>2. (events \o <<e>>) \o <<m(pressed)>> = Append(Append(events, e), m(pressed))  BY <1>q, Concatenated
    <3> QED  BY <1>0, <2>3, <3>1, <3>2
  <2> QED  BY <1>0, <2>1, <2>2, <2>4
<1> QED  BY <1>1, <1>2, <1>3, <1>4, <1>5, <1>6 DEF ServerStep

\* What else the server's steps leave alone.
LEMMA ServerLeaves ==
  ASSUME ServerStep PROVE UNCHANGED <<setup, K!xkb, down, K!contexts, K!tables, call, destroyed, fired, taken>>
BY DEF ServerStep, K!Press, K!Release, K!AutoRepeat, K!FocusIn, K!FocusOut, K!SendKeymap, K!Send, K!server

-----------------------------------------------------------------------------
\* The setup, the modifiers and the events keep their types.
LEMMA KeyboardTypesKept ==
  ASSUME KeyboardTyped, QueueTyped, SeenIsPressed, [K!Next]_K!vars
  PROVE  KeyboardTyped' /\ QueueTyped' /\ UNCHANGED setup
<1>1. CASE K!Handle
  <2>1. events' = Tail(events) /\ events # <<>> /\ Head(events) \in K!Events /\ UNCHANGED K!server
    BY <1>1, HandleTakes
  <2>2. QueueTyped'  BY <2>1 DEF QueueTyped
  <2>3. mapped' \in BOOLEAN /\ level' \in K!Levels
    <3>1. CASE K!HandleModifiers
      <4>1. Head(events).level \in K!Levels  BY <2>1, <3>1 DEF K!HandleModifiers, K!Dispatching, K!Events
      <4> QED  BY <3>1, <4>1 DEF K!HandleModifiers, KeyboardTyped
    <3>2. CASE K!HandleKeymap  BY <3>2 DEF K!HandleKeymap, KeyboardTyped, K!xkb, K!Levels
    <3>3. CASE UNCHANGED K!xkb  BY <3>3 DEF K!xkb, KeyboardTyped
    <3> QED
      BY <1>1, <3>1, <3>2, <3>3 DEF K!Handle, K!HandlePress, K!HandleRelease, K!HandleLeave, K!HandleEnter
  <2>4. UNCHANGED destroyed
    BY <1>1 DEF K!Handle, K!HandlePress, K!HandleRelease, K!HandleLeave, K!HandleEnter, K!HandleModifiers,
       K!HandleKeymap
  <2> QED  BY <2>1, <2>2, <2>3, <2>4 DEF KeyboardTyped, K!server
<1>2. CASE ServerStep
  <2>1. UNCHANGED <<setup, K!xkb, destroyed>>  BY <1>2, ServerLeaves
  <2>2. focused' \in BOOLEAN
    BY <1>2 DEF KeyboardTyped, ServerStep, K!Press, K!Release, K!AutoRepeat, K!FocusIn, K!FocusOut,
       K!SendKeymap, K!server
  <2>3. events' \in Seq(K!Events)
    <3> HIDE DEF K!Events
    <3>1. events \in Seq(K!Events)  BY DEF QueueTyped
    <3>2. CASE events' = events  BY <3>1, <3>2
    <3>3. CASE \E e, m \in K!Events : events' \in {Append(events, e), Append(Append(events, e), m)}
      <4>1. PICK e, m \in K!Events : events' \in {Append(events, e), Append(Append(events, e), m)}  BY <3>3
      <4>2. Append(events, e) \in Seq(K!Events)  BY <3>1
      <4>3. Append(Append(events, e), m) \in Seq(K!Events)  BY <4>2
      <4> QED  BY <4>1, <4>2, <4>3
    <3> QED  BY <1>2, <3>2, <3>3, ServerSends
  <2> QED  BY <2>1, <2>2, <2>3 DEF KeyboardTyped, QueueTyped, K!xkb
<1>3. CASE K!CallbackReturns \/ K!Configure \/ UNCHANGED K!vars
  <2>1. UNCHANGED <<K!server, events, K!xkb>>
    BY <1>3 DEF K!CallbackReturns, K!Configure, K!SetActiveContext, K!PushContext, K!PopContext,
       K!CreateContext, K!Install, K!RemoveKeys, K!ClearKeys, K!ClearActions, K!vars
  <2>2. destroyed' \in BOOLEAN
    BY <1>3 DEF KeyboardTyped, K!CallbackReturns, K!Configure, K!SetActiveContext, K!PushContext,
       K!PopContext, K!CreateContext, K!Install, K!RemoveKeys, K!ClearKeys, K!ClearActions, K!vars, K!Assign
  <2> QED  BY <2>1, <2>2 DEF KeyboardTyped, QueueTyped, K!server, K!xkb
<1> QED  BY <1>1, <1>2, <1>3 DEF K!Next, ServerStep

\* So do the contexts and the tables.
LEMMA KeyboardContextsKept ==
  ASSUME ContextsTyped, [K!Next]_K!vars PROVE ContextsTyped'
<1>1. CASE K!SetActiveContext  BY <1>1 DEF K!SetActiveContext, ContextsTyped
<1>2. CASE K!PushContext
  <2>1. PICK context \in K!Contexts : stack' = Append(stack, context)  BY <1>2 DEF K!PushContext
  <2>2. stack \in Seq(K!Contexts) /\ UNCHANGED active  BY <1>2 DEF K!PushContext, ContextsTyped
  <2>3. stack' \in Seq(K!Contexts)  BY <2>1, <2>2
  <2> QED  BY <2>2, <2>3 DEF ContextsTyped
<1>3. CASE K!PopContext
  <2>1. stack \in Seq(K!Contexts) /\ stack # <<>> /\ UNCHANGED active
    BY <1>3 DEF K!PopContext, ContextsTyped
  <2>2. stack' = SubSeq(stack, 1, Len(stack) - 1)  BY <1>3 DEF K!PopContext
  <2> QED  BY <2>1, <2>2, Popped DEF ContextsTyped
<1>4. CASE UNCHANGED K!contexts  BY <1>4 DEF K!contexts, ContextsTyped
<1>5. K!Handle \/ ServerStep => UNCHANGED K!contexts
  BY ServerLeaves DEF K!Handle, K!HandlePress, K!HandleRelease, K!HandleLeave, K!HandleEnter,
     K!HandleModifiers, K!HandleKeymap
<1> QED
  BY <1>1, <1>2, <1>3, <1>4, <1>5 DEF K!Next, ServerStep, K!vars, K!CallbackReturns, K!Configure,
     K!CreateContext, K!Install, K!RemoveKeys, K!ClearKeys, K!ClearActions

\* The tables grow before a binding is put in, so no binding is beyond them.
LEMMA InstalledKept ==
  ASSUME K!BoundsAssumption, K!UsedAssumption, Installed, [K!Next]_K!vars PROVE Installed'
<1> HIDE DEF K!Slots
<1>0. capacity \in 1 .. MaxContexts /\ MaxContexts \in Nat \ {0}  BY DEF Installed, K!BoundsAssumption
<1>1. ASSUME NEW context \in K!Contexts, K!EnsureContextCapacity(context)
      PROVE  capacity' \in 1 .. MaxContexts /\ capacity <= capacity' /\ context < capacity'
  BY <1>0, <1>1 DEF K!EnsureContextCapacity, K!Contexts
<1>2. CASE \E slots : installed' = installed \ slots /\ capacity' = capacity
  BY <1>2 DEF Installed
<1>n. \A slot \in K!Slots : slot[1] \in Nat /\ slot[1] \in K!Contexts  BY <1>0 DEF K!Slots, K!Contexts
<1>3. CASE K!RemoveKeys \/ K!CreateContext
  <2>1. PICK context \in K!Contexts : K!EnsureContextCapacity(context)
    BY <1>3 DEF K!RemoveKeys, K!CreateContext
  <2>2. capacity' \in 1 .. MaxContexts /\ capacity <= capacity'  BY <1>1, <2>1
  <2>3. installed' \subseteq installed  BY <1>3 DEF K!RemoveKeys, K!CreateContext
  <2>4. ASSUME NEW slot \in installed' PROVE slot \in K!Slots /\ slot[1] < capacity'
    <3>1. slot \in K!Slots /\ slot[1] < capacity /\ slot[1] \in Nat  BY <1>n, <2>3 DEF Installed
    <3> QED  BY <1>0, <2>2, <3>1
  <2> QED  BY <2>2, <2>4 DEF Installed
<1>4. CASE K!Install
  <2>1. PICK slot \in Used : K!EnsureContextCapacity(slot[1]) /\ installed' = installed \cup {slot}
    BY <1>4 DEF K!Install
  <2>2. slot \in K!Slots /\ slot[1] \in K!Contexts  BY <1>n DEF K!UsedAssumption
  <2>3. capacity' \in 1 .. MaxContexts /\ capacity <= capacity' /\ slot[1] < capacity'  BY <1>1, <2>1, <2>2
  <2>4. ASSUME NEW other \in installed PROVE other \in K!Slots /\ other[1] < capacity'
    <3>1. other \in K!Slots /\ other[1] < capacity /\ other[1] \in Nat  BY <1>n DEF Installed
    <3> QED  BY <1>0, <2>3, <3>1
  <2> QED  BY <2>1, <2>2, <2>3, <2>4 DEF Installed
<1>5. CASE UNCHANGED K!tables  BY <1>5 DEF K!tables, Installed
<1>6. K!Handle \/ ServerStep => UNCHANGED K!tables
  BY ServerLeaves DEF K!Handle, K!HandlePress, K!HandleRelease, K!HandleLeave, K!HandleEnter,
     K!HandleModifiers, K!HandleKeymap
<1> QED
  BY <1>2, <1>3, <1>4, <1>5, <1>6 DEF K!Next, ServerStep, K!vars, K!CallbackReturns, K!Configure,
     K!SetActiveContext, K!PushContext, K!PopContext, K!ClearKeys, K!ClearActions

\* CommitText() and Notify() call what is installed, and text for a press only.
LEMMA CommitCalls ==
  ASSUME Installed, NEW key \in Keys \cup {Unknown}, NEW press \in BOOLEAN, K!CommitText(key, press)
  PROVE  call' \in K!Calls /\ (call' # K!Idle => press /\ call'.press /\ call'.slot[2] = "text")
<1>1. CASE call' = K!Idle  BY <1>1 DEF K!Calls
<1>2. CASE call' # K!Idle
  <2>1. press /\ <<K!Resolved, "text">> \in installed
        /\ call' = [slot |-> <<K!Resolved, "text">>, key |-> key, press |-> TRUE]
    BY <1>2 DEF K!CommitText
  <2>2. <<K!Resolved, "text">> \in K!Slots  BY <2>1 DEF Installed
  <2> QED  BY <2>1, <2>2 DEF K!Calls
<1> QED  BY <1>1, <1>2

\* What a callback of the application is called with.
LEMMA NotifyCalls ==
  ASSUME Installed, NEW key \in Keys \cup {Unknown}, NEW press \in BOOLEAN, NEW context,
         K!Notify(key, context, press)
  PROVE  call' \in K!Calls /\ (call' # K!Idle => call'.press = press /\ call'.slot[2] \in {"event", "text"})
<1>1. CASE <<context, "event">> \in installed
  <2>1. call' = [slot |-> <<context, "event">>, key |-> key, press |-> press]  BY <1>1 DEF K!Notify
  <2>2. <<context, "event">> \in K!Slots  BY <1>1 DEF Installed
  <2> QED  BY <2>1, <2>2 DEF K!Calls
<1>2. CASE <<context, "event">> \notin installed
  <2>1. K!CommitText(key, press)  BY <1>2 DEF K!Notify
  <2> QED  BY <2>1, CommitCalls
<1> QED  BY <1>1, <1>2

\* A dispatch of a key calls its binding, unless it is a repeat, or one of the two streams.
LEMMA DispatchCalls ==
  ASSUME Installed, NEW key \in Keys, NEW press \in BOOLEAN, NEW repeat \in BOOLEAN, K!Dispatch(key, press,
         repeat)
  PROVE  /\ call' \in K!Calls
         /\ call' # K!Idle => call'.press = press
         /\ call' # K!Idle => call'.slot[2] \in {"event", "text"} \/ (call'.slot[2] = key /\ ~repeat)
<1>1. CASE <<K!Resolved, key>> \in installed /\ ~repeat
  <2>1. call' = [slot |-> <<K!Resolved, key>>, key |-> key, press |-> press]  BY <1>1 DEF K!Dispatch
  <2>2. <<K!Resolved, key>> \in K!Slots  BY <1>1 DEF Installed
  <2> QED  BY <1>1, <2>1, <2>2 DEF K!Calls
<1>2. CASE ~(<<K!Resolved, key>> \in installed /\ ~repeat)
  <2>1. K!Notify(key, K!Resolved, press)  BY <1>2 DEF K!Dispatch
  <2> QED  BY <2>1, NotifyCalls
<1> QED  BY <1>1, <1>2

\* The key of an event, and its name.
LEMMA NamedKey ==
  ASSUME K!SetupsAssumption, KeyboardTyped, QueueTyped, K!HandlePress \/ K!HandleRelease
  PROVE  LET k == Head(events).key IN k \in PhysicalKeys /\ K!KeyFor(k) \in Keys \cup {Unknown}
<1>1. Head(events) \in K!Events /\ Head(events).type \in {"press", "release"}
  <2>1. K!Handle  BY DEF K!Handle
  <2> QED  BY <2>1, HandleTakes DEF K!HandlePress, K!HandleRelease, K!Dispatching
<1>2. Head(events).key \in PhysicalKeys  BY <1>1 DEF K!Events
<1>3. /\ setup \in [backend : {"x11", "wayland"}, named : [PhysicalKeys \X K!Levels -> Keys \cup {Unknown}],
                    position : [PhysicalKeys -> Keys]]
      /\ level \in K!Levels /\ 0 \in K!Levels
  BY DEF K!SetupsAssumption, KeyboardTyped, K!Levels
<1>4. \A k \in PhysicalKeys : /\ setup.named[k, level] \in Keys \cup {Unknown}
                              /\ setup.named[k, 0] \in Keys \cup {Unknown} /\ setup.position[k] \in Keys
  BY <1>3
<1> QED  BY <1>2, <1>4 DEF K!KeyFor, K!WaylandKeyFor, K!X11KeyFor

\* What runs is typed, and a binding runs only by a fresh press of its key.
LEMMA CallKept ==
  ASSUME K!SetupsAssumption, K!StreamsAssumption,
         KeyboardTyped, QueueTyped, Installed, CallTyped, [K!Next]_K!vars
  PROVE  /\ CallTyped'
         /\ \A k \in Keys : ~K!FiresPress(k) /\ K!FiresPress(k)' =>
              K!HandlePress /\ K!KeyFor(Head(events).key) = k /\ ~K!IsRepeat(k)
<1>0. UNCHANGED call => CallTyped' /\ \A k \in Keys : K!FiresPress(k)' => K!FiresPress(k)
  BY DEF CallTyped, K!FiresPress
<1>1. CASE K!HandlePress /\ call' # call
  <2> DEFINE key == K!KeyFor(Head(events).key)
  <2>1. key \in Keys \cup {Unknown}  BY <1>1, NamedKey
  <2>0. ~K!InputMethodTakes(key)  BY <1>1 DEF K!InputMethodTakes
  <2>2. CASE key = Unknown
    <3>1. K!CommitText(key, TRUE)  BY <1>1, <2>0, <2>2 DEF K!HandlePress
    <3> HIDE DEF key
    <3>2. call' \in K!Calls /\ (call' # K!Idle => call'.slot[2] = "text")  BY <2>1, <3>1, CommitCalls
    <3> QED  BY <3>2 DEF CallTyped, K!FiresPress, K!StreamsAssumption
  <2>3. CASE key # Unknown
    <3>1. K!Dispatch(key, TRUE, K!IsRepeat(key))  BY <1>1, <2>0, <2>3 DEF K!HandlePress
    <3>2. key \in Keys /\ K!IsRepeat(key) \in BOOLEAN  BY <2>1, <2>3 DEF K!IsRepeat
    <3>3. /\ call' \in K!Calls
          /\ call' # K!Idle => call'.slot[2] \in {"event", "text"} \/ (call'.slot[2] = key /\ ~K!IsRepeat(key))
      BY <3>1, <3>2, DispatchCalls
    <3> QED  BY <1>1, <3>3 DEF CallTyped, K!FiresPress, K!StreamsAssumption
  <2> QED  BY <2>2, <2>3
<1>2. CASE K!HandleRelease /\ call' # call
  <2> DEFINE key == K!KeyFor(Head(events).key)
  <2>1. key \in Keys \cup {Unknown}  BY <1>2, NamedKey
  <2>0. ~K!InputMethodTakes(key)  BY <1>2 DEF K!InputMethodTakes
  <2>2. CASE key = Unknown
    <3>1. UNCHANGED call  BY <1>2, <2>0, <2>2 DEF K!HandleRelease
    <3> QED  BY <3>1, <1>0
  <2>3. CASE key # Unknown
    <3>1. K!Dispatch(key, FALSE, FALSE)  BY <1>2, <2>0, <2>3 DEF K!HandleRelease
    <3>2. key \in Keys  BY <2>1, <2>3
    <3>3. call' \in K!Calls /\ (call' # K!Idle => call'.press = FALSE)  BY <3>1, <3>2, DispatchCalls
    <3> QED  BY <3>3 DEF CallTyped, K!FiresPress
  <2> QED  BY <2>2, <2>3
<1>3. CASE K!CallbackReturns
  <2>1. call.key \in Keys \cup {Unknown} /\ call.press \in BOOLEAN
    BY <1>3 DEF K!CallbackReturns, CallTyped, K!Calls
  <2>2. K!CommitText(call.key, call.press) \/ K!Notify(call.key, call.slot[1], call.press)
    BY <1>3 DEF K!CallbackReturns
  <2>3. call' \in K!Calls /\ (call' # K!Idle => call'.slot[2] \in {"event", "text"})
    BY <2>1, <2>2, CommitCalls, NotifyCalls
  <2> QED  BY <2>3 DEF CallTyped, K!FiresPress, K!StreamsAssumption
<1>4. CASE UNCHANGED call  BY <1>0, <1>4
<1> QED
  BY <1>1, <1>2, <1>3, <1>4, ServerLeaves DEF K!Next, ServerStep, K!vars, K!Handle, K!HandleLeave,
     K!HandleEnter, K!HandleModifiers, K!HandleKeymap, K!Configure, K!SetActiveContext, K!PushContext,
     K!PopContext, K!CreateContext, K!Install, K!RemoveKeys, K!ClearKeys, K!ClearActions

-----------------------------------------------------------------------------
\* A handler of a key: what it does to the held keys, by the key's name.
LEMMA KeyHandled ==
  ASSUME K!HandlePress \/ K!HandleRelease
  PROVE  LET key == K!KeyFor(Head(events).key) IN
         \/ K!InputMethodTakes(key)
         \/ /\ taken' = taken \ {key}
            /\ key = Unknown => UNCHANGED <<down, fired>>
            /\ key # Unknown /\ K!HandlePress => down' = down \cup {key} /\ fired' \in {fired, fired \cup {key}}
            /\ key # Unknown /\ K!HandleRelease => down' = down \ {key} /\ fired' = fired \ {key}
<1> DEFINE key == K!KeyFor(Head(events).key)
<1>1. CASE K!HandlePress /\ ~K!InputMethodTakes(key)
  <2>1. Head(events).type = "press"  BY <1>1 DEF K!HandlePress, K!Dispatching
  <2>2. ~K!HandleRelease  BY <2>1 DEF K!HandleRelease, K!Dispatching
  <2> QED  BY <1>1, <2>2 DEF K!HandlePress, K!Dispatch
<1>2. CASE K!HandleRelease /\ ~K!InputMethodTakes(key)
  <2>1. Head(events).type = "release"  BY <1>2 DEF K!HandleRelease, K!Dispatching
  <2>2. ~K!HandlePress  BY <2>1 DEF K!HandlePress, K!Dispatching
  <2> QED  BY <1>2, <2>2 DEF K!HandleRelease, K!Dispatch
<1> QED  BY <1>1, <1>2

\* A binding that fired is of a key that is held.
LEMMA FiredKept ==
  ASSUME K!SetupsAssumption, KeyboardTyped, QueueTyped, FiredIsDown, [K!Next]_K!vars
  PROVE  FiredIsDown'
<1>1. down \subseteq Keys /\ fired \subseteq down  BY DEF FiredIsDown
<1>2. CASE K!HandlePress \/ K!HandleRelease
  <2> DEFINE key == K!KeyFor(Head(events).key)
  <2>1. key \in Keys \cup {Unknown}  BY <1>2, NamedKey
  <2>2. \/ UNCHANGED <<down, fired>>
        \/ /\ key = Unknown => UNCHANGED <<down, fired>>
           /\ key # Unknown /\ K!HandlePress => down' = down \cup {key} /\ fired' \in {fired, fired \cup {key}}
           /\ key # Unknown /\ K!HandleRelease => down' = down \ {key} /\ fired' = fired \ {key}
    BY <1>2, KeyHandled DEF K!InputMethodTakes
  <2> HIDE DEF key
  <2>3. CASE key = Unknown  BY <1>1, <2>2, <2>3 DEF FiredIsDown
  <2>4. CASE key # Unknown  BY <1>1, <1>2, <2>1, <2>2, <2>4 DEF FiredIsDown
  <2> QED  BY <2>3, <2>4
<1>3. CASE K!HandleLeave  BY <1>3 DEF K!HandleLeave, FiredIsDown
<1>4. CASE UNCHANGED <<down, fired>>  BY <1>4 DEF FiredIsDown
<1> QED
  BY <1>2, <1>3, <1>4, ServerLeaves DEF K!Next, ServerStep, K!vars, K!Handle, K!HandleEnter,
     K!HandleModifiers, K!HandleKeymap, K!CallbackReturns, K!Configure, K!SetActiveContext, K!PushContext,
     K!PopContext, K!CreateContext, K!Install, K!RemoveKeys, K!ClearKeys, K!ClearActions

\* The input method takes events of X11 only.
LEMMA TakenKept ==
  ASSUME K!SetupsAssumption, KeyboardTyped, QueueTyped, SeenIsPressed, TakenIsX11, [K!Next]_K!vars
  PROVE  TakenIsX11'
<1>0. UNCHANGED setup  BY KeyboardTypesKept
<1>1. CASE K!HandlePress \/ K!HandleRelease
  <2> DEFINE key == K!KeyFor(Head(events).key)
  <2>1. key \in Keys \cup {Unknown}  BY <1>1, NamedKey
  <2>2. taken' = taken \ {key} \/ (~K!Wayland /\ taken' = taken \cup ({key} \ {Unknown}))
    BY <1>1, KeyHandled DEF K!InputMethodTakes
  <2> QED  BY <1>0, <2>1, <2>2 DEF TakenIsX11, K!Wayland
<1>2. CASE K!HandleLeave  BY <1>2 DEF K!HandleLeave, TakenIsX11
<1>3. CASE UNCHANGED taken  BY <1>0, <1>3 DEF TakenIsX11, K!Wayland
<1> QED
  BY <1>1, <1>2, <1>3, ServerLeaves DEF K!Next, ServerStep, K!vars, K!Handle, K!HandleEnter,
     K!HandleModifiers, K!HandleKeymap, K!CallbackReturns, K!Configure, K!SetActiveContext, K!PushContext,
     K!PopContext, K!CreateContext, K!Install, K!RemoveKeys, K!ClearKeys, K!ClearActions

\* Dispatching an event does to the held keys what DownAfter says, or the input method took it.
LEMMA DispatchHolds ==
  ASSUME K!SetupsAssumption, SteadyNames, K!UnknownAssumption, KeyboardTyped, QueueTyped, TakenIsX11,
         NEW c \in SUBSET Keys, Missed(c), K!Handle
  PROVE  LET b == DownAfter(setup, c, Head(events)) IN b \in SUBSET Keys /\ b \ taken' = down' \ taken'
<1> DEFINE e == Head(events)
           key == SteadyName(setup, e.key)
           b == DownAfter(setup, c, e)
<1>1. Unknown \notin Keys /\ taken \subseteq Keys /\ c \ taken = down \ taken
  BY DEF K!UnknownAssumption, TakenIsX11, Missed
<1>2. CASE K!HandlePress \/ K!HandleRelease
  <2>1. K!KeyFor(e.key) = key /\ key \in Keys \cup {Unknown}  BY <1>2, NamedKey, KeyForIsSteady
  <2>2. e.type = IF K!HandlePress THEN "press" ELSE "release"
    BY <1>2 DEF K!HandlePress, K!HandleRelease, K!Dispatching
  <2>3. b = IF K!HandlePress THEN (c \cup {key}) \ {Unknown} ELSE c \ {key}
    BY <2>2 DEF DownAfter
  <2>4. \/ taken' = taken \cup ({key} \ {Unknown}) /\ down' = down
        \/ /\ taken' = taken \ {key}
           /\ key = Unknown => down' = down
           /\ key # Unknown => down' = IF K!HandlePress THEN down \cup {key} ELSE down \ {key}
    BY <1>2, <2>1, KeyHandled DEF K!InputMethodTakes
  <2> HIDE DEF e, key, b
  <2>5. b \in SUBSET Keys  BY <1>1, <2>1, <2>3
  <2>6. b \ taken' = down' \ taken'
    <3>1. CASE key = Unknown  BY <1>1, <2>3, <2>4, <3>1
    <3>2. CASE key # Unknown  BY <1>1, <2>1, <2>3, <2>4, <3>2
    <3> QED  BY <3>1, <3>2
  <2> QED  BY <2>5, <2>6 DEF b, e
<1>3. CASE K!HandleLeave
  BY <1>3 DEF K!HandleLeave, K!Dispatching, DownAfter
<1>4. CASE K!HandleEnter \/ K!HandleModifiers \/ K!HandleKeymap
  <2>1. e.type \in {"enter", "modifiers", "keymap"} /\ UNCHANGED <<down, taken>>
    BY <1>4 DEF K!HandleEnter, K!HandleModifiers, K!HandleKeymap, K!Dispatching
  <2> QED  BY <1>1, <2>1 DEF DownAfter
<1> QED  BY <1>2, <1>3, <1>4 DEF K!Handle

\* What the server sends does the same to the names of the keys it has sent.
LEMMA SendsNames ==
  ASSUME K!SetupsAssumption, SteadyNames, K!UnknownAssumption, KeyboardTyped, SeenIsPressed, NEW e, Sends(e)
  PROVE  /\ NamesOf(setup, seen') = DownAfter(setup, NamesOf(setup, seen), e)
         /\ Fresh(setup, NamesOf(setup, seen), e)
<1>1. seen \subseteq pressed /\ pressed \subseteq PhysicalKeys  BY DEF SeenIsPressed
<1>2. \A k, l \in PhysicalKeys :
        SteadyName(setup, k) = SteadyName(setup, l) /\ SteadyName(setup, k) # Unknown => k = l
  BY DEF SteadyNames, KeyboardTyped
<1>3. CASE e.type = "press"
  <2>1. seen' = seen \cup {e.key}  BY <1>3 DEF Sends
  <2>2. NamesOf(setup, seen') = DownAfter(setup, NamesOf(setup, seen), e)
    BY <1>3, <2>1 DEF NamesOf, DownAfter
  <2>3. Fresh(setup, NamesOf(setup, seen), e)
    <3>1. SUFFICES ASSUME setup.backend = "wayland", SteadyName(setup, e.key) \in NamesOf(setup, seen)
                   PROVE  FALSE
      BY DEF Fresh
    <3>2. e.key \in PhysicalKeys /\ e.key \notin pressed  BY <1>3, <3>1 DEF Sends, K!Wayland
    <3>3. PICK k \in seen : SteadyName(setup, e.key) = SteadyName(setup, k) /\ SteadyName(setup, k) # Unknown
      BY <3>1 DEF NamesOf
    <3>4. e.key = k  BY <1>1, <1>2, <3>2, <3>3
    <3> QED  BY <1>1, <3>2, <3>4
  <2> QED  BY <2>2, <2>3
<1>4. CASE e.type = "release"
  <2>1. seen' = seen \ {e.key} /\ e.key \in PhysicalKeys  BY <1>4 DEF Sends
  <2>2. DownAfter(setup, NamesOf(setup, seen), e) = NamesOf(setup, seen) \ {SteadyName(setup, e.key)}
    BY <1>4 DEF DownAfter
  <2>3. NamesOf(setup, seen \ {e.key}) \subseteq NamesOf(setup, seen) \ {SteadyName(setup, e.key)}
    <3> SUFFICES ASSUME NEW n \in NamesOf(setup, seen \ {e.key})
                 PROVE  n \in NamesOf(setup, seen) \ {SteadyName(setup, e.key)}
      OBVIOUS
    <3>1. PICK k \in seen \ {e.key} : n = SteadyName(setup, k) /\ n # Unknown  BY DEF NamesOf
    <3>2. n # SteadyName(setup, e.key)  BY <1>1, <1>2, <2>1, <3>1
    <3> QED  BY <3>1, <3>2 DEF NamesOf
  <2>4. NamesOf(setup, seen) \ {SteadyName(setup, e.key)} \subseteq NamesOf(setup, seen \ {e.key})
    BY DEF NamesOf
  <2>5. Fresh(setup, NamesOf(setup, seen), e)  BY <1>4 DEF Fresh
  <2> QED  BY <2>1, <2>2, <2>3, <2>4, <2>5
<1>5. CASE e.type = "leave"
  <2>1. seen' = {}  BY <1>5 DEF Sends
  <2>2. NamesOf(setup, {}) = {}  BY DEF NamesOf
  <2> QED  BY <1>5, <2>1, <2>2 DEF DownAfter, Fresh
<1>6. CASE e.type \in {"enter", "keymap"}
  BY <1>6 DEF Sends, DownAfter, Fresh
<1>7. e.type \in {"press", "release", "leave", "enter", "keymap"}
  <2>1. e \in K!Events /\ e.type # "modifiers"  BY DEF Sends
  <2> QED  BY <2>1 DEF K!Events
<1> QED  BY <1>3, <1>4, <1>5, <1>6, <1>7

\* The server's view of the keys.
LEMMA SeenKept == ASSUME SeenIsPressed, [K!Next]_K!vars PROVE SeenIsPressed'
<1>1. CASE ServerStep
  <2>1. CASE K!Press  BY <2>1 DEF K!Press, SeenIsPressed
  <2>2. CASE K!Release  BY <2>2 DEF K!Release, SeenIsPressed
  <2>3. CASE K!AutoRepeat  BY <2>3 DEF K!AutoRepeat, SeenIsPressed
  <2>4. CASE K!FocusIn  BY <2>4 DEF K!FocusIn, SeenIsPressed
  <2>5. CASE K!FocusOut  BY <2>5 DEF K!FocusOut, SeenIsPressed
  <2>6. CASE K!SendKeymap  BY <2>6 DEF K!SendKeymap, SeenIsPressed, K!server
  <2> QED  BY <1>1, <2>1, <2>2, <2>3, <2>4, <2>5, <2>6 DEF ServerStep
<1>2. CASE UNCHANGED K!server  BY <1>2 DEF K!server, SeenIsPressed
<1>3. K!Handle => UNCHANGED K!server
  BY DEF K!Handle, K!HandlePress, K!HandleRelease, K!HandleLeave, K!HandleEnter, K!HandleModifiers,
     K!HandleKeymap
<1> QED
  BY <1>1, <1>2, <1>3 DEF K!Next, ServerStep, K!vars, K!CallbackReturns, K!Configure, K!SetActiveContext,
     K!PushContext, K!PopContext, K!CreateContext, K!Install, K!RemoveKeys, K!ClearKeys, K!ClearActions

\* The steps of neither side leave the keys alone.
LEMMA OthersLeave ==
  ASSUME K!CallbackReturns \/ K!Configure \/ UNCHANGED K!vars
  PROVE  UNCHANGED <<setup, seen, events, down, fired, taken>>
BY DEF K!CallbackReturns, K!Configure, K!SetActiveContext, K!PushContext, K!PopContext, K!CreateContext,
   K!Install, K!RemoveKeys, K!ClearKeys, K!ClearActions, K!vars, K!server

\* The events on their way go on leading from the keys held to those sent.
LEMMA HeldKept ==
  ASSUME K!SetupsAssumption, SteadyNames, K!UnknownAssumption, KeyboardTyped, QueueTyped, SeenIsPressed,
         TakenIsX11, HeldIsTold, [K!Next]_K!vars
  PROVE  HeldIsTold'
<1>0. UNCHANGED setup  BY KeyboardTypesKept
<1>q. events \in Seq(K!Events)  BY DEF QueueTyped
<1>c. PICK c \in SUBSET Keys : Missed(c) /\ KeysLead(setup, events, c, NamesOf(setup, seen))
  BY DEF HeldIsTold
<1>s. UNCHANGED <<down, taken>> => Missed(c)'  BY <1>c DEF Missed
<1>1. CASE K!Handle
  <2>1. PICK b \in SUBSET Keys : b = DownAfter(setup, c, Head(events)) /\ Missed(b)'
    BY <1>1, <1>c, DispatchHolds DEF Missed
  <2>2. events # <<>> /\ events' = Tail(events) /\ UNCHANGED seen  BY <1>1, HandleTakes DEF K!server
  <2>3. KeysLead(setup, Tail(events), b, NamesOf(setup, seen))
    BY <1>c, <1>q, <2>1, <2>2, KeysLeadOn
  <2>4. KeysLead(setup, events, b, NamesOf(setup, seen))'  BY <1>0, <2>2, <2>3
  <2> QED  BY <2>1, <2>4 DEF HeldIsTold
<1>2. CASE ServerStep
  <2>1. Missed(c)'  BY <1>2, <1>s, ServerLeaves
  <2>2. CASE events' = events /\ seen' = seen
    <3>1. KeysLead(setup, events, c, NamesOf(setup, seen))'  BY <1>0, <1>c, <2>2
    <3> QED  BY <2>1, <3>1 DEF HeldIsTold
  <2>3. CASE \E e, m \in K!Events :
               /\ Sends(e) /\ m.type = "modifiers"
               /\ events' \in {Append(events, e), Append(Append(events, e), m)}
    <3>1. PICK e, m \in K!Events :
               /\ Sends(e) /\ m.type = "modifiers"
               /\ events' \in {Append(events, e), Append(Append(events, e), m)}
      BY <2>3
    <3> DEFINE d == NamesOf(setup, seen)
               n == NamesOf(setup, seen')
    <3>2. n = DownAfter(setup, d, e) /\ Fresh(setup, d, e)  BY <3>1, SendsNames
    <3>3. d \in SUBSET Keys /\ n \in SUBSET Keys
      <4>1. \A k \in PhysicalKeys : SteadyName(setup, k) \in Keys \cup {Unknown}  BY KeyForIsSteady
      <4>2. seen \subseteq PhysicalKeys /\ seen' \subseteq PhysicalKeys  BY SeenKept DEF SeenIsPressed
      <4> QED  BY <4>1, <4>2 DEF NamesOf
    <3>4. KeysLead(setup, events, c, d)  BY <1>c
    <3> HIDE DEF d, n, K!Events
    <3>5. KeysLead(setup, Append(events, e), c, n) /\ Append(events, e) \in Seq(K!Events)
      BY <1>q, <3>2, <3>3, <3>4, KeysLeadFurther
    <3>6. n = DownAfter(setup, n, m) /\ Fresh(setup, n, m)  BY <3>1 DEF DownAfter, Fresh
    <3>7. KeysLead(setup, Append(Append(events, e), m), c, n)
      BY <3>3, <3>5, <3>6, KeysLeadFurther
    <3>8. KeysLead(setup, events, c, NamesOf(setup, seen))'  BY <1>0, <3>1, <3>5, <3>7 DEF n
    <3> QED  BY <2>1, <3>8 DEF HeldIsTold
  <2> QED  BY <1>2, <2>2, <2>3, ServerSends
<1>3. CASE K!CallbackReturns \/ K!Configure \/ UNCHANGED K!vars
  <2>1. UNCHANGED <<setup, seen, events, down, taken>>  BY <1>3, OthersLeave
  <2>2. KeysLead(setup, events, c, NamesOf(setup, seen))'  BY <1>c, <2>1
  <2> QED  BY <1>s, <2>1, <2>2 DEF HeldIsTold
<1> QED  BY <1>1, <1>2, <1>3 DEF K!Next, ServerStep

-----------------------------------------------------------------------------
KeysAssumption ==
  /\ K!SetupsAssumption /\ K!UnknownAssumption /\ K!StreamsAssumption /\ K!BoundsAssumption /\ K!UsedAssumption

\* Every step keeps the invariant.
LEMMA KeyboardInvKept ==
  ASSUME KeysAssumption, KeyboardInv, [K!Next]_K!vars PROVE KeyboardInv'
<1>1. KeyboardTyped' /\ QueueTyped'  BY KeyboardTypesKept DEF KeyboardInv
<1>2. ContextsTyped' /\ Installed'  BY KeyboardContextsKept, InstalledKept DEF KeyboardInv, KeysAssumption
<1>3. CallTyped'  BY CallKept DEF KeyboardInv, KeysAssumption
<1>4. SeenIsPressed'  BY SeenKept DEF KeyboardInv
<1>5. FiredIsDown'  BY FiredKept DEF KeyboardInv, KeysAssumption
<1>6. TakenIsX11'  BY TakenKept DEF KeyboardInv, KeysAssumption
<1> QED  BY <1>1, <1>2, <1>3, <1>4, <1>5, <1>6 DEF KeyboardInv

\* Every step keeps the path from the held keys to those told of.
LEMMA KeyboardHeldKept ==
  ASSUME KeysAssumption, SteadyNames, KeyboardInv, HeldIsTold, [K!Next]_K!vars PROVE HeldIsTold'
BY HeldKept DEF KeyboardInv, KeysAssumption

\* When no event is left, the path is at its end.
LEMMA KeyboardHeld ==
  ASSUME KeysAssumption, SteadyNames, KeyboardInv, HeldIsTold PROVE K!HeldKeysAreHeld
<1> SUFFICES ASSUME events = <<>>
             PROVE  down \ taken = ({K!NameOf(key) : key \in seen} \ {Unknown}) \ taken
  BY DEF K!HeldKeysAreHeld
<1>1. down \ taken = NamesOf(setup, seen) \ taken  BY KeysLeadNowhere DEF HeldIsTold, Missed
<1>2. \A k \in seen : K!NameOf(k) = SteadyName(setup, k)
  BY KeyForIsSteady DEF KeyboardInv, KeysAssumption, SeenIsPressed
<1> QED  BY <1>1, <1>2 DEF NamesOf

\* A binding that fires is of a key that was not held.
LEMMA KeyboardRepeats ==
  ASSUME KeysAssumption, SteadyNames, KeyboardInv, HeldIsTold, [K!Next]_K!vars PROVE K!RepeatStep
<1> SUFFICES ASSUME NEW key \in Keys, ~K!FiresPress(key), K!FiresPress(key)' PROVE key \notin fired
  BY DEF K!RepeatStep
<1>1. K!HandlePress /\ K!KeyFor(Head(events).key) = key /\ ~K!IsRepeat(key)
  BY CallKept DEF KeyboardInv, KeysAssumption
<1>2. SteadyName(setup, Head(events).key) = key /\ Head(events).type = "press" /\ events # <<>>
  BY <1>1, NamedKey, KeyForIsSteady DEF KeyboardInv, KeysAssumption, K!HandlePress, K!Dispatching
<1>3. PICK c \in SUBSET Keys : Missed(c) /\ Fresh(setup, c, Head(events))
  BY <1>2, KeysLeadOn DEF KeyboardInv, QueueTyped, HeldIsTold
<1>4. key \notin down
  <2>1. CASE setup.backend = "wayland"
    <3>1. c = down  BY <1>3, <2>1 DEF Missed, KeyboardInv, TakenIsX11, K!Wayland
    <3> QED  BY <1>2, <1>3, <2>1, <3>1 DEF Fresh
  <2>2. CASE setup.backend # "wayland"
    <3>1. setup.backend \in {"x11", "wayland"}
      BY DEF KeyboardInv, KeyboardTyped, KeysAssumption, K!SetupsAssumption
    <3> QED  BY <1>1, <2>2, <3>1 DEF K!IsRepeat
  <2> QED  BY <2>1, <2>2
<1> QED  BY <1>4 DEF KeyboardInv, FiredIsDown

-----------------------------------------------------------------------------
(* The run.                                                                 *)

\* The invariants of the parts, of the part a behaviour is of.
PartsInv ==
  /\ part \in Parts
  /\ part = "keyboard" => KeyboardInv
  /\ part = "native" => NativeInv
  /\ part = "sdl" => SdlInv
  /\ part = "tables" => TablesInv

\* Of a keyboard with steady names, and of cursors that are not changed before an X11 window exists.
KeysPartInv == part = "keyboard" => HeldIsTold
CursorPartInv == part = "native" => CursorInv

\* The assumptions of the parts.
LEMMA PartsAssumed == NativeAssumption /\ SdlAssumption /\ T!TablesAssumption /\ KeysAssumption
BY PointerAssumption, TablesAssumption, KeyboardAssumption, SameGestures
   DEF NativeAssumption, SdlAssumption, KeysAssumption

\* A behaviour begins as one of the part it is of.
LEMMA StartsAsPart ==
  ASSUME Init
  PROVE  /\ part \in Parts
         /\ part = "keyboard" => K!Init
         /\ part = "native" => N!Init
         /\ part = "sdl" => S!Init
         /\ part = "tables" => T!Init
BY DEF Init

\* Its steps are steps of that part.
LEMMA StepsAsPart ==
  ASSUME [Next]_vars
  PROVE  /\ part' = part
         /\ part = "keyboard" => [K!Next]_K!vars
         /\ part = "native" => [N!Next]_N!vars
         /\ part = "sdl" => [S!Next]_S!vars
         /\ part = "tables" => [T!Next]_T!vars
<1>1. CASE Next
  BY <1>1 DEF Next
<1>2. CASE UNCHANGED vars
  <2>1. UNCHANGED <<part, setup, events, focused, pointer, contexts, onlyN, onlyS, onlyT, onlyK>>
    BY <1>2 DEF vars
  <2>2. UNCHANGED K!vars
    BY <2>1 DEF contexts, onlyK, K!vars, K!server, K!xkb, K!contexts, K!tables
  <2>3. UNCHANGED N!vars
    BY <2>1 DEF pointer, onlyN, N!vars, N!server, N!cursor, N!claims, N!link
  <2>4. UNCHANGED S!vars
    BY <2>1 DEF pointer, onlyS, S!vars, S!sdl, S!bridge, S!mouse
  <2>5. UNCHANGED T!vars
    BY <2>1 DEF contexts, onlyT, T!vars, T!contexts
  <2> QED  BY <2>1, <2>2, <2>3, <2>4, <2>5
<1> QED  BY <1>1, <1>2

\* The invariants hold of every behaviour.
THEOREM PartsInvariance == Spec => []PartsInv
<1>1. Init => PartsInv
  <2> SUFFICES ASSUME Init PROVE PartsInv
    OBVIOUS
  <2>1. part = "keyboard" => KeyboardInv
    BY StartsAsPart, PartsAssumed, KeyboardInvInit DEF KeysAssumption
  <2>2. part = "native" => NativeInv  BY StartsAsPart, PartsAssumed, NativeInit
  <2>3. part = "sdl" => SdlInv  BY StartsAsPart, PartsAssumed, SdlInit
  <2>4. part = "tables" => TablesInv  BY StartsAsPart, PartsAssumed, TablesInvInit
  <2> QED  BY <2>1, <2>2, <2>3, <2>4, StartsAsPart DEF PartsInv
<1>2. PartsInv /\ [Next]_vars => PartsInv'
  <2> SUFFICES ASSUME PartsInv, [Next]_vars PROVE PartsInv'
    OBVIOUS
  <2>0. part \in Parts /\ part' = part  BY StepsAsPart DEF PartsInv
  <2>1. part = "keyboard" => KeyboardInv'  BY StepsAsPart, PartsAssumed, KeyboardInvKept DEF PartsInv
  <2>2. part = "native" => NativeInv'  BY StepsAsPart, PartsAssumed, NativeInvKept DEF PartsInv
  <2>3. part = "sdl" => SdlInv'  BY StepsAsPart, PartsAssumed, SdlInvKept DEF PartsInv
  <2>4. part = "tables" => TablesInv'  BY StepsAsPart, PartsAssumed, TablesInvKept DEF PartsInv
  <2> QED  BY <2>0, <2>1, <2>2, <2>3, <2>4 DEF PartsInv
<1> QED  BY <1>1, <1>2, PTL DEF Spec

\* Every variable of every part stays in its set: keys and contexts are known ones, the events on
\* their way are the backend's own, claims and gestures hold presses of the title bar, and the
\* wheel stays within its bound.
THEOREM TypeCorrectness == Spec => []TypeOK
<1>1. PartsInv => TypeOK
  <2> SUFFICES ASSUME PartsInv PROVE TypeOK
    OBVIOUS
  <2>1. part = "keyboard" => K!TypeOK  BY KeyboardInvTypes DEF PartsInv
  <2>2. part = "native" => N!TypeOK  BY NativeImplies DEF PartsInv
  <2>3. part = "sdl" => S!TypeOK  BY SdlImplies DEF PartsInv
  <2>4. part = "tables" => T!TypeOK  BY TablesInvImplies DEF PartsInv
  <2> QED  BY <2>1, <2>2, <2>3, <2>4 DEF TypeOK
<1> QED  BY <1>1, PartsInvariance, PTL

\* Where names do not depend on the modifiers, the held keys lead through the events to what the
\* server has told of.
LEMMA HeldIsToldAlways == ASSUME SteadyNames PROVE Spec => []KeysPartInv
<1>1. Init => KeysPartInv
  BY StartsAsPart, PartsAssumed, KeyboardInvInit DEF KeysPartInv, KeysAssumption
<1>2. PartsInv /\ KeysPartInv /\ [Next]_vars => KeysPartInv'
  BY StepsAsPart, PartsAssumed, KeyboardHeldKept DEF PartsInv, KeysPartInv
<1> QED  BY <1>1, <1>2, PartsInvariance, PTL DEF Spec

\* Once the events are dispatched, the keys the application is told are held are those that are,
\* whatever focus changes, keymaps and modifiers came in between, but for the keys whose last event
\* the X11 input method took, where a key has one name under every modifier (filterEvent(),
\* handleKeyEvent(), releaseAllKeys(), the listener's key tables).
THEOREM HeldKeysStayHeld == ASSUME SteadyNames PROVE Spec => []HeldKeysAreHeld
<1>1. PartsInv /\ KeysPartInv => HeldKeysAreHeld
  BY PartsAssumed, KeyboardHeld DEF PartsInv, KeysPartInv, HeldKeysAreHeld
<1> QED  BY <1>1, PartsInvariance, HeldIsToldAlways, PTL

\* While the window keeps the focus no binding fires a second time before the application was told
\* that its key came up, where a key has one name under every modifier.  A lost focus lets the next
\* repeat of a key that is still down fire it again (dispatchKeyPress(), releaseAllKeys()).
THEOREM RepeatsStayQuiet == ASSUME SteadyNames PROVE Spec => RepeatNeverFires
<1>1. PartsInv /\ KeysPartInv /\ [Next]_vars => (part = "keyboard" => K!RepeatStep)
  BY StepsAsPart, PartsAssumed, KeyboardRepeats DEF PartsInv, KeysPartInv
<1> QED  BY <1>1, PartsInvariance, HeldIsToldAlways, PTL DEF Spec, RepeatNeverFires

\* The release of the left button goes where its press went, however late both are handled and
\* whatever the window manager took in between (pressClaimed_, releasePending_).
THEOREM ReleasesFollowPresses == Spec => ReleaseFollowsPress
<1>1. PartsInv /\ [Next]_vars => (part = "native" => N!ReleaseStep) /\ (part = "sdl" => S!ReleaseStep)
  BY StepsAsPart, PartsAssumed, NativeReleases, SdlReleases DEF PartsInv
<1> QED  BY <1>1, PartsInvariance, PTL DEF Spec, ReleaseFollowsPress

\* A press toggles maximize only as the second of two recent clicks on the title bar that no drag
\* parted, and SDL's window is moved with the press that is held (CaptionGesture, startMove()).
THEOREM GesturesStayMeant == Spec => GesturesAreMeant
<1>1. PartsInv /\ [Next]_vars =>
        (part = "native" => N!ToggleStep) /\ (part = "sdl" => S!ToggleStep /\ S!MoveStep)
  BY StepsAsPart, PartsAssumed, NativeToggles, SdlToggles, SdlMoves DEF PartsInv
<1> QED  BY <1>1, PartsInvariance, PTL DEF Spec, GesturesAreMeant

\* The pointer is captured as the disabled cursor and the focus ask, by every Wayland compositor that
\* has the two protocols and by none that has not, and the server shows the image that was asked for
\* once the client has caught up, unless the cursor of an X11 window is changed before there is a
\* window (updateCapture(), applyCursorState()).
THEOREM PointerStaysAsked == ASSUME CursorsAfterWindow PROVE Spec => []PointerIsAsked
<1>1. Init => CursorPartInv
  BY StartsAsPart, PartsAssumed, CursorInit DEF CursorPartInv
<1>2. PartsInv /\ CursorPartInv /\ [Next]_vars => CursorPartInv'
  BY StepsAsPart, PartsAssumed, CursorInvKept DEF PartsInv, CursorPartInv
<1>3. PartsInv /\ CursorPartInv => PointerIsAsked
  <2> SUFFICES ASSUME PartsInv, CursorPartInv PROVE PointerIsAsked
    OBVIOUS
  <2>1. part = "native" => N!CaptureFollowsFocus  BY DEF PartsInv, NativeInv
  <2>2. part = "native" => N!CursorIsAsked  BY CursorAsked DEF PartsInv, CursorPartInv, CursorInv
  <2> QED  BY <2>1, <2>2 DEF PointerIsAsked
<1> QED  BY <1>1, <1>2, <1>3, PartsInvariance, PTL DEF Spec

=============================================================================
