-------------------------- MODULE MCClipboardsProofs --------------------------
(***************************************************************************)
(* Proofs about the two clipboards, for every set of texts, all deadlines  *)
(* and all bounds, and about the conversion of their text, for all bytes:  *)
(* about X11Clipboard (X), WaylandClipboard (W) and Utf8Text (T), and what *)
(* they say of the run that checks them.                                   *)
(***************************************************************************)
EXTENDS MCClipboards, TLAPS

-----------------------------------------------------------------------------
(***************************************************************************)
(* X11Clipboard.                                                           *)
(*                                                                         *)
(* What this client serves is the selection or the news that it is not is  *)
(* on its way, text() never stalls the event thread past its deadlines,    *)
(* and what it returns is a selection of the time it was called, for the   *)
(* calls that begin with nothing of an earlier one on its way.             *)
(***************************************************************************)

\* Where the selection is this window's and the client believes it, the client has its text.
OwnText ==
  /\ owned /\ selection.owner = "us" => selection.text = ownedText
  /\ selection.owner \notin {"us", "them"} => selection.text = X!Empty

\* The server cannot take the selection away without news of it in the queue.
X11OwnInv ==
  /\ clears \in Nat
  /\ X!OwnershipTracked
  /\ OwnText

\* What text() may still take: each of two requests has the reply's time, and a transfer
\* what is left of its limit, within which the next chunk is waited for.
Deadline ==
  CASE call.pc = "ask" -> call.elapsed <= IF call.target = "utf8" THEN 0 ELSE ReplyTimeout
    [] call.pc = "reply" ->
         call.elapsed + call.idle <= IF call.target = "utf8" THEN ReplyTimeout ELSE 2 * ReplyTimeout
    [] call.pc = "chunk" ->
         call.idle <= call.limit /\ call.elapsed + call.limit <= 2 * ReplyTimeout + TransferLimit

\* A call under way: its record, and that its clocks are numbers.
Waits ==
  /\ call = [pc |-> call.pc, target |-> call.target, text |-> call.text, n |-> call.n,
             idle |-> call.idle, limit |-> call.limit, elapsed |-> call.elapsed,
             clean |-> call.clean, during |-> call.during]
  /\ call.pc \in {"ask", "reply", "chunk"}
  /\ call.idle \in Nat /\ call.limit \in Nat /\ call.elapsed \in Nat

StallInv == X!Busy => Waits /\ Deadline


(* Whatever the other clients do, the owner is known.                       *)

\* A clipboard begins without a claim (the constructor).
LEMMA X11OwnInvInit == X!Init => X11OwnInv
BY DEF X!Init, X11OwnInv, X!OwnershipTracked, OwnText, X!Nobody, X!Theirs

\* setText(), handleClear() and the destructor keep to what the server decided, and every
\* step of another client that takes the selection away queues the news.
LEMMA X11OwnInvKept == X11OwnInv /\ [X!Next]_X!vars => X11OwnInv'
<1> SUFFICES ASSUME X11OwnInv, [X!Next]_X!vars PROVE X11OwnInv'
  OBVIOUS
<1> USE DEF OwnText, X!Nobody, X!Ours, X!Theirs
<1>1. CASE X!Text \/ X!Tick
  <2>1. UNCHANGED <<clears, owned, ownedText, selection, alive>>
    BY <1>1 DEF X!Text, X!Tick, X!TextOfOurs, X!TextOfTheirs, X!Ask, X!TimedOut, X!TakeRefusal, X!Replied,
       X!TakeAnnouncement, X!TakeWhole, X!TakeChunk, X!server, X!own, X!queue
  <2> QED  BY <2>1 DEF X11OwnInv, X!OwnershipTracked
<1>2. CASE X!SetText
  <2>1. PICK copy \in Texts, won \in BOOLEAN, other \in Texts :
          /\ selection' = IF won THEN X!Ours(copy) ELSE X!Theirs(other)
          /\ clears' = clears + (IF won THEN 0 ELSE 1)
          /\ owned' = won
          /\ ownedText' = IF won THEN copy ELSE X!Empty
    BY <1>2 DEF X!SetText
  <2> QED  BY <2>1 DEF X11OwnInv, X!OwnershipTracked
<1>3. CASE X!HandleClear
  <2>1. clears' = clears - 1 /\ clears > 0 /\ owned' = FALSE /\ UNCHANGED <<selection, alive>>
    BY <1>3 DEF X!HandleClear, X!SelectionLost, X!server
  <2> QED  BY <2>1 DEF X11OwnInv, X!OwnershipTracked
<1>4. CASE X!HandleRequest \/ X!DropNotify \/ X!DropChange
  <2>1. UNCHANGED <<clears, owned, ownedText, selection, alive>>
    BY <1>4 DEF X!HandleRequest, X!DropNotify, X!DropChange, X!server, X!own
  <2> QED  BY <2>1 DEF X11OwnInv, X!OwnershipTracked
<1>5. CASE X!Destroy
  <2>1. UNCHANGED <<clears, owned, ownedText, selection>> /\ alive = "yes"
    BY <1>5 DEF X!Destroy, X!Dispatching, X!server, X!own, X!queue
  <2> QED  BY <2>1 DEF X11OwnInv, X!OwnershipTracked
<1>6. CASE X!Disown
  <2>1. alive' = "no" /\ clears' = clears /\ selection' = X!Nobody  BY <1>6 DEF X!Disown, X!queue
  <2> QED  BY <2>1 DEF X11OwnInv, X!OwnershipTracked
<1>7. CASE alive # "no" /\ X!TheyCopy
  <2>1. clears' = clears + (IF selection.owner = "us" THEN 1 ELSE 0) /\ UNCHANGED <<owned, ownedText, alive>>
    BY <1>7 DEF X!TheyCopy, X!own
  <2>2. selection'.owner = "them"  BY <1>7 DEF X!TheyCopy
  <2> QED  BY <2>1, <2>2 DEF X11OwnInv, X!OwnershipTracked
<1>8. CASE alive # "no" /\ X!TheyLeave
  <2>1. selection.owner = "them" /\ UNCHANGED <<clears, owned, ownedText, alive>>
    BY <1>8 DEF X!TheyLeave, X!own, X!queue
  <2>2. selection' = X!Nobody  BY <1>8 DEF X!TheyLeave
  <2> QED  BY <2>1, <2>2 DEF X11OwnInv, X!OwnershipTracked
<1>9. CASE alive # "no" /\ (X!TheyRequest \/ X!TheyAnswer \/ X!TheySend)
  <2>1. UNCHANGED <<clears, owned, ownedText, selection, alive>>
    BY <1>9 DEF X!TheyRequest, X!TheyAnswer, X!TheySend, X!server, X!own
  <2> QED  BY <2>1 DEF X11OwnInv, X!OwnershipTracked
<1>10. CASE UNCHANGED X!vars
  BY <1>10 DEF X!vars, X!server, X!own, X!queue, X11OwnInv, X!OwnershipTracked
<1> QED
  BY <1>1, <1>2, <1>3, <1>4, <1>5, <1>6, <1>7, <1>8, <1>9, <1>10 DEF X!Next, X!Dispatch, X!Others

\* What this client serves is the selection, or the news that it is not is on its way
\* (owned_ and ownedText_, X11Clipboard.cpp).
THEOREM OwnershipIsTracked == X!Spec => []X!OwnershipTracked
<1>1. X11OwnInv => X!OwnershipTracked  BY DEF X11OwnInv
<1> QED  BY <1>1, X11OwnInvInit, X11OwnInvKept, PTL DEF X!Spec


(* Deadlines.                                                               *)

\* A call that is over, or that a step leaves alone, owes nothing.
LEMMA NotWaiting == ASSUME StallInv, call' = X!Idle \/ call' = call PROVE StallInv'
BY DEF StallInv, X!Busy, X!Idle, Waits, Deadline

\* The second target is tried in what the first one left.
LEMMA TryNextInTime ==
  ASSUME ReplyTimeout \in Nat, StallInv, X!Busy, call.pc = "reply", NEW failed, X!TryNext(failed)
  PROVE  StallInv'
<1>1. CASE call.target = "utf8"
  <2>1. call' = [call EXCEPT !.pc = "ask", !.target = "string"]  BY <1>1 DEF X!TryNext
  <2>2. call'.pc = "ask" /\ call'.target = "string" /\ call'.elapsed = call.elapsed
    BY <2>1 DEF StallInv, Waits
  <2>3. Waits'  BY <2>1 DEF StallInv, Waits
  <2>4. call.elapsed <= ReplyTimeout  BY <1>1 DEF StallInv, Waits, Deadline
  <2> QED  BY <2>2, <2>3, <2>4 DEF StallInv, Deadline
<1>2. CASE call.target # "utf8"
  BY <1>2, NotWaiting DEF X!TryNext, X!Return
<1> QED  BY <1>1, <1>2

\* No call is under way at first.
LEMMA StallInvInit == X!Init => StallInv
BY DEF X!Init, StallInv, X!Busy

\* Each wait of text() begins with what its deadline grants, and only the clock spends it.
LEMMA StallInvKept == ASSUME X!TimesAssumption PROVE StallInv /\ [X!Next]_X!vars => StallInv'
<1> USE DEF X!TimesAssumption
<1> SUFFICES ASSUME StallInv, [X!Next]_X!vars PROVE StallInv'
  OBVIOUS
<1>1. CASE X!Tick
  <2>1. /\ X!Busy /\ call.pc # "ask" /\ call.idle > 0
        /\ call' = [call EXCEPT !.idle = @ - 1, !.elapsed = @ + 1, !.limit = IF @ > 0 THEN @ - 1 ELSE 0]
    BY <1>1 DEF X!Tick
  <2>2. Waits /\ Deadline  BY <2>1 DEF StallInv
  <2>3. /\ call'.pc = call.pc /\ call'.target = call.target
        /\ call'.idle = call.idle - 1 /\ call'.elapsed = call.elapsed + 1
        /\ call'.limit = IF call.limit > 0 THEN call.limit - 1 ELSE 0
    BY <2>1, <2>2 DEF Waits
  <2>4. /\ call'.text = call.text /\ call'.n = call.n /\ call'.clean = call.clean
        /\ call'.during = call.during
    BY <2>1, <2>2 DEF Waits
  <2>5. call'.idle \in Nat /\ call'.limit \in Nat /\ call'.elapsed \in Nat
    BY <2>1, <2>2, <2>3 DEF Waits
  <2>6. call' = [pc |-> call'.pc, target |-> call'.target, text |-> call'.text, n |-> call'.n,
                 idle |-> call'.idle, limit |-> call'.limit, elapsed |-> call'.elapsed,
                 clean |-> call'.clean, during |-> call'.during]
    BY <2>1, <2>2 DEF Waits
  <2>7. Waits'  BY <2>2, <2>3, <2>5, <2>6 DEF Waits
  <2>8. CASE call.pc = "reply"
    <3>1. call'.elapsed + call'.idle = call.elapsed + call.idle  BY <2>2, <2>3 DEF Waits
    <3>2. Deadline'  BY <2>2, <2>3, <2>8, <3>1 DEF Deadline
    <3> QED  BY <2>7, <3>2 DEF StallInv
  <2>9. CASE call.pc = "chunk"
    BY <2>1, <2>2, <2>3, <2>7, <2>9 DEF StallInv, Waits, Deadline
  <2> QED  BY <2>1, <2>2, <2>7, <2>8, <2>9 DEF StallInv, Waits
<1>2. CASE X!TextOfTheirs
  <2>1. call' = [pc |-> "ask", target |-> "utf8", text |-> X!Empty, n |-> 0,
                 idle |-> 0, limit |-> 0, elapsed |-> 0,
                 clean |-> X!NothingOnItsWay, during |-> {selection.text}]
    BY <1>2 DEF X!TextOfTheirs
  <2> QED  BY <2>1 DEF StallInv, Waits, Deadline
<1>3. CASE X!Ask
  <2>1. X!Busy /\ call.pc = "ask" /\ call' = [call EXCEPT !.pc = "reply", !.idle = ReplyTimeout]
    BY <1>3 DEF X!Ask
  <2>2. Waits /\ Deadline  BY <2>1 DEF StallInv
  <2>3. /\ call'.pc = "reply" /\ call'.target = call.target
        /\ call'.idle = ReplyTimeout /\ call'.elapsed = call.elapsed
    BY <2>1, <2>2 DEF Waits
  <2>4. Waits'  BY <2>1, <2>2 DEF Waits
  <2>5. Deadline'  BY <2>1, <2>2, <2>3 DEF Waits, Deadline
  <2> QED  BY <2>4, <2>5 DEF StallInv
<1>4. CASE X!TakeRefusal
  <2>1. X!Busy /\ call.pc = "reply" /\ X!TryNext(TRUE)  BY <1>4 DEF X!TakeRefusal, X!Replied
  <2> QED  BY <2>1, TryNextInTime
<1>5. CASE X!TakeAnnouncement
  <2>1. /\ X!Busy /\ call.pc = "reply"
        /\ call' = [call EXCEPT !.pc = "chunk", !.limit = TransferLimit, !.idle = X!ChunkDeadline(TransferLimit)]
    BY <1>5 DEF X!TakeAnnouncement, X!Replied
  <2>2. Waits /\ Deadline  BY <2>1 DEF StallInv
  <2>3. /\ call'.pc = "chunk" /\ call'.limit = TransferLimit /\ call'.elapsed = call.elapsed
        /\ call'.idle = X!ChunkDeadline(TransferLimit)
    BY <2>1, <2>2 DEF Waits
  <2>4. X!ChunkDeadline(TransferLimit) \in Nat /\ X!ChunkDeadline(TransferLimit) <= TransferLimit
    BY DEF X!ChunkDeadline, X!Least
  <2>5. Waits'  BY <2>1, <2>2, <2>4 DEF Waits
  <2>6. Deadline'  BY <2>1, <2>2, <2>3, <2>4 DEF Waits, Deadline
  <2> QED  BY <2>5, <2>6 DEF StallInv
<1>6. CASE X!TakeWhole
  <2>1. X!Busy /\ call.pc = "reply"  BY <1>6 DEF X!TakeWhole, X!Replied
  <2>2. call' = X!Idle \/ \E failed \in BOOLEAN : X!TryNext(failed)
    BY <1>6 DEF X!TakeWhole, X!Return
  <2> QED  BY <2>1, <2>2, TryNextInTime, NotWaiting
<1>7. CASE X!TakeChunk
  <2>1. CASE call' = X!Idle
    BY <2>1, NotWaiting
  <2>2. CASE call' # X!Idle
    <3>1. /\ X!Busy /\ call.pc = "chunk"
          /\ call' = [call EXCEPT !.n = @ + 1, !.text = X!NextChunk, !.idle = X!ChunkDeadline(call.limit)]
      BY <1>7, <2>2 DEF X!TakeChunk, X!Return
    <3>2. Waits /\ Deadline  BY <3>1 DEF StallInv
    <3>3. /\ call'.pc = "chunk" /\ call'.limit = call.limit /\ call'.elapsed = call.elapsed
          /\ call'.idle = X!ChunkDeadline(call.limit)
      BY <3>1, <3>2 DEF Waits
    <3>4. X!ChunkDeadline(call.limit) \in Nat /\ X!ChunkDeadline(call.limit) <= call.limit
      BY <3>2 DEF Waits, X!ChunkDeadline, X!Least
    <3>5. Waits'  BY <3>1, <3>2, <3>4 DEF Waits
    <3>6. Deadline'  BY <3>1, <3>2, <3>3, <3>4 DEF Waits, Deadline
    <3> QED  BY <3>5, <3>6 DEF StallInv
  <2> QED  BY <2>1, <2>2
<1>8. CASE X!TheyCopy \/ X!TheyLeave
  <2>1. PICK copy : call' = X!Witnessed(copy)  BY <1>8 DEF X!TheyCopy, X!TheyLeave
  <2>2. CASE ~X!Busy
    BY <2>1, <2>2, NotWaiting DEF X!Witnessed
  <2>3. CASE X!Busy
    <3>1. call' = [call EXCEPT !.during = @ \cup {copy}]  BY <2>1, <2>3 DEF X!Witnessed
    <3>2. Waits /\ Deadline  BY <2>3 DEF StallInv
    <3>3. /\ call'.pc = call.pc /\ call'.target = call.target /\ call'.idle = call.idle
          /\ call'.limit = call.limit /\ call'.elapsed = call.elapsed
      BY <3>1, <3>2 DEF Waits
    <3>4. Waits'  BY <3>1, <3>2 DEF Waits
    <3>5. Deadline'  BY <3>2, <3>3 DEF Deadline
    <3> QED  BY <3>4, <3>5 DEF StallInv
  <2> QED  BY <2>2, <2>3
<1>9. CASE call' = X!Idle \/ call' = call
  BY <1>9, NotWaiting
<1>10. CASE UNCHANGED X!vars
  BY <1>10, NotWaiting DEF X!vars
<1>11. CASE X!TextOfOurs \/ X!TimedOut \/ X!SetText \/ X!Dispatch \/ X!Destroy \/ X!Disown
  BY <1>11, <1>9 DEF X!TextOfOurs, X!TimedOut, X!Return, X!SetText, X!Dispatch, X!HandleClear, X!HandleRequest, X!DropNotify,
     X!DropChange, X!Destroy, X!Disown
<1>12. CASE X!TheyRequest \/ X!TheyAnswer \/ X!TheySend
  BY <1>12, <1>9 DEF X!TheyRequest, X!TheyAnswer, X!TheySend
<1> QED
  BY <1>1, <1>2, <1>3, <1>4, <1>5, <1>6, <1>7, <1>8, <1>10, <1>11, <1>12 DEF X!Next, X!Text, X!Others

\* What is granted along the longest way, two replies and a transfer, is the bound.
LEMMA StallInvBounds == ASSUME X!TimesAssumption PROVE StallInv => X!StallBounded
<1> USE DEF X!TimesAssumption
<1> SUFFICES ASSUME StallInv, X!Busy PROVE call.elapsed <= 2 * ReplyTimeout + TransferLimit
  BY DEF X!StallBounded
<1>1. Waits /\ Deadline  BY DEF StallInv
<1>2. CASE call.pc = "ask"  BY <1>1, <1>2 DEF Waits, Deadline
<1>3. CASE call.pc = "reply"  BY <1>1, <1>3 DEF Waits, Deadline
<1>4. CASE call.pc = "chunk"  BY <1>1, <1>4 DEF Waits, Deadline
<1> QED  BY <1>1, <1>2, <1>3, <1>4 DEF Waits

\* The event thread is never stalled past two replies and a transfer (text(), convert() and
\* readIncremental(), X11Clipboard.cpp).
THEOREM StallIsBounded == ASSUME X!TimesAssumption PROVE X!Spec => []X!StallBounded
BY StallInvInit, StallInvKept, StallInvBounds, PTL DEF X!Spec


(* What text() finds.                                                       *)

\* The transfer of a text, before its n-th chunk is sent.
Sending(t, n) == [text |-> t, encoding |-> call.target, n |-> n]
Chunk(t, n) == [type |-> "chunk", text |-> t, encoding |-> call.target, n |-> n]

\* Neither a request nor an answer is on its way.
NothingWaits == asked = <<>> /\ notifies = <<>>

\* A request was refused, or will never be answered.
Unanswered == asked = <<>> /\ notifies \in {<<>>, <<FALSE>>} /\ transfer = X!NoTransfer

\* It waits for the owner of its time.
AskedFor(t) == notifies = <<>> /\ transfer = X!NoTransfer /\ asked = <<[text |-> t, target |-> call.target]>>

\* It is answered, and what the answer announces is in the property.
Answered(t) ==
  /\ asked = <<>> /\ notifies = <<TRUE>>
  /\ \/ property = [type |-> "unreadable"] /\ transfer = X!NoTransfer
     \/ property = [type |-> "whole", text |-> t, encoding |-> call.target] /\ transfer = X!NoTransfer
     \/ property = [type |-> "incr"] /\ transfer \in {X!NoTransfer, Sending(t, 1)}

\* A transfer sends one text, a chunk at a time, and each change notice is that of the chunk
\* that is in the property.
Transferred(t) ==
  /\ NothingWaits
  /\ call.n > 0 => call.text = t
  /\ \/ property = X!None /\ changes = 0 /\ transfer \in {X!NoTransfer, Sending(t, call.n + 1)}
     \/ property = Chunk(t, call.n + 1) /\ changes = 1 /\ transfer \in {X!NoTransfer, Sending(t, call.n + 2)}
     \/ property = Chunk(t, 0) /\ changes = 1 /\ transfer = X!NoTransfer /\ call.n > 0

\* What the server and the owner hold of a call that began with nothing on its way.
Exchange ==
  CASE call.pc = "ask" -> NothingWaits /\ transfer = X!NoTransfer /\ call.n = 0
    [] call.pc = "reply" -> call.n = 0 /\ (Unanswered \/ \E t \in call.during : AskedFor(t) \/ Answered(t))
    [] call.pc = "chunk" -> \E t \in call.during : Transferred(t)

\* A call under way saw the selection of its time, and of one that began with nothing on its way,
\* what is on its way is for it alone.
ExchangeInv ==
  X!Busy => alive = "yes" /\ selection.text \in call.during /\ call.n \in Nat /\ (call.clean => Exchange)

\* With what the last call returned.
FindInv == ExchangeInv /\ X!ReadFindsSelection

\* What is on its way for a call stays so while neither side moves.
LEMMA ExchangeKept ==
  ASSUME Exchange, UNCHANGED <<asked, notifies, transfer, property, changes>>, call.pc \in {"ask", "reply", "chunk"},
         call'.pc = call.pc, call'.target = call.target, call'.n = call.n, call'.text = call.text,
         call.during \subseteq call'.during
  PROVE  Exchange'
<1>1. CASE call.pc = "ask"
  BY <1>1 DEF Exchange, NothingWaits
<1>2. CASE call.pc = "reply"
  <2>1. ASSUME NEW t PROVE (AskedFor(t) => AskedFor(t)') /\ (Answered(t) => Answered(t)')
    BY DEF AskedFor, Answered, Sending
  <2>2. Unanswered => Unanswered'  BY DEF Unanswered
  <2>3. call'.n = 0 /\ (Unanswered' \/ \E t \in call'.during : AskedFor(t)' \/ Answered(t)')
    BY <1>2, <2>1, <2>2 DEF Exchange
  <2> QED  BY <1>2, <2>3 DEF Exchange
<1>3. CASE call.pc = "chunk"
  <2>1. PICK t \in call.during : Transferred(t)  BY <1>3 DEF Exchange
  <2>2. Transferred(t)'  BY <2>1 DEF Transferred, NothingWaits, Chunk, Sending
  <2> QED  BY <1>3, <2>2 DEF Exchange
<1> QED  BY <1>1, <1>2, <1>3

\* A queue of one event.
LEMMA OneEvent ==
  ASSUME NEW event
  PROVE  Append(<<>>, event) = <<event>> /\ Head(<<event>>) = event /\ Tail(<<event>>) = <<>>
OBVIOUS

\* A step that returns no text returns no wrong one.
LEMMA NoTextReturned == ASSUME out'.what # "read" PROVE X!ReadFindsSelection'
BY DEF X!ReadFindsSelection

\* A call that is over has found a text of its time, or failed.
LEMMA TextReturned ==
  ASSUME X!Busy, NEW result, NEW failed \in BOOLEAN, X!Return(result, failed),
         call.clean => result \in call.during \/ (result = X!Empty /\ failed)
  PROVE  FindInv'
<1>1. /\ call' = X!Idle
      /\ out' = [what |-> "read", result |-> result, during |-> call.during, clean |-> call.clean, failed |-> failed]
  BY DEF X!Return
<1>2. ExchangeInv'  BY <1>1 DEF ExchangeInv, X!Busy
<1>3. X!ReadFindsSelection'
  BY <1>1 DEF X!ReadFindsSelection
<1> QED  BY <1>2, <1>3 DEF FindInv

\* The second target is asked for when nothing of the first is left.
LEMMA TryNextFinds ==
  ASSUME FindInv, StallInv, X!Busy, call.pc = "reply", UNCHANGED <<alive, selection, asked, transfer>>,
         call.clean => asked = <<>> /\ notifies' = <<>> /\ transfer = X!NoTransfer,
         NEW failed \in BOOLEAN, X!TryNext(failed), call.clean => failed
  PROVE  FindInv'
<1>1. CASE call.target = "utf8"
  <2>1. call' = [call EXCEPT !.pc = "ask", !.target = "string"] /\ out' = X!Silent
    BY <1>1 DEF X!TryNext
  <2>2. /\ call'.pc = "ask" /\ call'.n = call.n /\ call'.during = call.during /\ call'.clean = call.clean
    BY <2>1 DEF StallInv, Waits
  <2>3. alive = "yes" /\ selection.text \in call.during /\ call.n \in Nat /\ (call.clean => call.n = 0)
    BY DEF FindInv, ExchangeInv, Exchange
  <2>4. ExchangeInv'  BY <2>2, <2>3 DEF ExchangeInv, Exchange, NothingWaits
  <2>5. X!ReadFindsSelection'  BY <2>1, NoTextReturned DEF X!Silent
  <2> QED  BY <2>4, <2>5 DEF FindInv
<1>2. CASE call.target # "utf8"
  <2>1. X!Return(X!Empty, failed)  BY <1>2 DEF X!TryNext
  <2> QED  BY <2>1, TextReturned
<1> QED  BY <1>1, <1>2

\* Nothing was found at first.
LEMMA FindInvInit == X!Init => FindInv
BY DEF X!Init, FindInv, ExchangeInv, X!Busy, X!ReadFindsSelection, X!Silent

\* Each answer is the one to the request that is waited for, each chunk the next one of its transfer,
\* and each change notice that of a chunk: convert(), takeProperty() and readIncremental().
LEMMA FindInvKept == FindInv /\ StallInv /\ X11OwnInv /\ [X!Next]_X!vars => FindInv'
<1> SUFFICES ASSUME FindInv, StallInv, X11OwnInv, [X!Next]_X!vars PROVE FindInv'
  OBVIOUS
<1>b. ASSUME X!Busy
      PROVE  /\ Waits /\ alive = "yes" /\ selection.text \in call.during /\ call.n \in Nat
             /\ call.clean => Exchange
  BY <1>b DEF FindInv, ExchangeInv, StallInv
<1>1. ASSUME ~X!Busy, call' = call, out'.what # "read" \/ ~out'.clean PROVE FindInv'
  BY <1>1 DEF FindInv, ExchangeInv, X!Busy, X!ReadFindsSelection
<1>2. CASE X!TextOfOurs
  <2>1. ~X!Busy /\ call' = call /\ selection.owner # "them"  BY <1>2 DEF X!TextOfOurs
  <2>2. out' = [what |-> "read", result |-> IF selection.owner = "us" /\ owned THEN ownedText ELSE X!Empty,
                during |-> {selection.text}, clean |-> TRUE, failed |-> selection.owner = "us" /\ ~owned]
    BY <1>2 DEF X!TextOfOurs
  <2>3. X!ReadFindsSelection'
    <3>1. CASE selection.owner = "us" /\ ~owned
      BY <2>2, <3>1 DEF X!ReadFindsSelection
    <3>2. CASE ~(selection.owner = "us" /\ ~owned)
      <4>1. (IF selection.owner = "us" /\ owned THEN ownedText ELSE X!Empty) = selection.text
        BY <2>1, <3>2 DEF X11OwnInv, OwnText
      <4> QED  BY <2>2, <4>1 DEF X!ReadFindsSelection
    <3> QED  BY <3>1, <3>2
  <2> QED  BY <2>1, <2>3 DEF FindInv, ExchangeInv, X!Busy
<1>3. CASE X!SetText \/ X!Dispatch \/ X!Destroy
  <2>1. ~X!Busy /\ call' = call /\ out'.what # "read"
    BY <1>3 DEF X!SetText, X!Dispatch, X!Dispatching, X!HandleClear, X!HandleRequest, X!DropNotify, X!DropChange, X!Destroy, X!Silent
  <2> QED  BY <1>1, <2>1
<1>4. CASE X!Disown
  <2>1. alive = "closing" /\ call' = call /\ out'.what # "read"  BY <1>4 DEF X!Disown, X!Silent
  <2> QED  BY <1>1, <1>b, <2>1
<1>5. CASE X!TextOfTheirs
  <2>1. /\ call' = [pc |-> "ask", target |-> "utf8", text |-> X!Empty, n |-> 0, idle |-> 0, limit |-> 0, elapsed |-> 0,
                    clean |-> X!NothingOnItsWay, during |-> {selection.text}]
        /\ alive = "yes" /\ out' = X!Silent /\ UNCHANGED <<selection, asked, transfer, notifies, alive>>
    BY <1>5 DEF X!TextOfTheirs, X!server, X!queue
  <2>2. /\ call'.pc = "ask" /\ call'.n = 0 /\ call'.during = {selection.text}
        /\ call'.clean = X!NothingOnItsWay
    BY <2>1
  <2>3. call'.clean => Exchange'
    BY <2>1, <2>2 DEF Exchange, NothingWaits, X!NothingOnItsWay
  <2>4. ExchangeInv'  BY <2>1, <2>2, <2>3 DEF ExchangeInv
  <2> QED  BY <2>1, <2>4, NoTextReturned DEF FindInv, X!Silent
<1>6. ASSUME call' = call \/ \E copy : call' = X!Witnessed(copy) /\ selection'.text = copy,
             selection' = selection \/ \E copy : call' = X!Witnessed(copy) /\ selection'.text = copy,
             UNCHANGED <<asked, notifies, transfer, property, changes, alive>>, out'.what # "read"
      PROVE  FindInv'
  <2>1. CASE ~X!Busy
    BY <1>1, <1>6, <2>1 DEF X!Witnessed
  <2>2. CASE X!Busy
    <3>1. call' = call \/ \E copy : call' = [call EXCEPT !.during = @ \cup {copy}] /\ selection'.text = copy
      BY <1>6, <2>2 DEF X!Witnessed
    <3>2. /\ call'.pc = call.pc /\ call'.target = call.target /\ call'.n = call.n /\ call'.text = call.text
          /\ call'.clean = call.clean /\ call.during \subseteq call'.during
      BY <1>b, <2>2, <3>1 DEF Waits
    <3>3. selection'.text \in call'.during
      BY <1>b, <1>6, <2>2, <3>1, <3>2 DEF Waits, X!Witnessed
    <3>4. call.clean => Exchange'  BY <1>b, <1>6, <2>2, <3>2, ExchangeKept DEF Waits
    <3>5. ExchangeInv'  BY <1>b, <1>6, <2>2, <3>2, <3>3, <3>4 DEF ExchangeInv
    <3> QED  BY <1>6, <3>5, NoTextReturned DEF FindInv
  <2> QED  BY <2>1, <2>2
<1>7. CASE X!TheyCopy \/ X!TheyLeave
  <2>1. \E copy : call' = X!Witnessed(copy) /\ selection'.text = copy
    BY <1>7 DEF X!TheyCopy, X!TheyLeave, X!Theirs, X!Nobody
  <2>2. UNCHANGED <<asked, notifies, transfer, property, changes, alive>> /\ out'.what # "read"
    BY <1>7 DEF X!TheyCopy, X!TheyLeave, X!queue, X!Silent
  <2> QED  BY <1>6, <2>1, <2>2
<1>8. CASE X!TheyRequest
  <2>1. UNCHANGED <<selection, call, asked, notifies, transfer, property, changes, alive>> /\ out'.what # "read"
    BY <1>8 DEF X!TheyRequest, X!server, X!Silent
  <2> QED  BY <1>6, <2>1
<1>9. CASE UNCHANGED X!vars
  BY <1>9 DEF X!vars, X!server, X!queue, FindInv, ExchangeInv, X!Busy, Exchange, NothingWaits, Unanswered, AskedFor, Answered,
     Transferred, Sending, Chunk, X!ReadFindsSelection
<1>10. CASE X!Tick
  <2>1. /\ X!Busy /\ UNCHANGED <<selection, asked, notifies, transfer, property, changes, alive>> /\ out' = X!Silent
        /\ call' = [call EXCEPT !.idle = @ - 1, !.elapsed = @ + 1, !.limit = IF @ > 0 THEN @ - 1 ELSE 0]
    BY <1>10 DEF X!Tick, X!server, X!queue
  <2>2. /\ call'.pc = call.pc /\ call'.target = call.target /\ call'.n = call.n /\ call'.text = call.text
        /\ call'.clean = call.clean /\ call'.during = call.during
    BY <1>b, <2>1 DEF Waits
  <2>3. call.clean => Exchange'  BY <1>b, <2>1, <2>2, ExchangeKept DEF Waits
  <2>4. ExchangeInv'  BY <1>b, <2>1, <2>2, <2>3 DEF ExchangeInv
  <2> QED  BY <2>1, <2>4, NoTextReturned DEF FindInv, X!Silent
<1>11. CASE X!Ask
  <2>1. /\ X!Busy /\ call.pc = "ask" /\ call' = [call EXCEPT !.pc = "reply", !.idle = ReplyTimeout]
        /\ UNCHANGED <<selection, transfer, alive>> /\ out' = X!Silent
    BY <1>11 DEF X!Ask
  <2>2. /\ call'.pc = "reply" /\ call'.target = call.target /\ call'.n = call.n
        /\ call'.clean = call.clean /\ call'.during = call.during
    BY <1>b, <2>1 DEF Waits
  <2>3. ASSUME call.clean PROVE Exchange'
    <3>1. asked = <<>> /\ notifies = <<>> /\ transfer = X!NoTransfer /\ call.n = 0
      BY <1>b, <2>1, <2>3 DEF Exchange, NothingWaits
    <3>2. CASE selection.owner = "them"
      <4>1. asked' = <<[text |-> selection.text, target |-> call.target]>> /\ notifies' = <<>>
        BY <1>11, <3>1, <3>2 DEF X!Ask
      <4>2. AskedFor(selection.text)'
        BY <2>1, <2>2, <3>1, <4>1 DEF AskedFor
      <4>3. selection'.text \in call'.during /\ selection' = selection  BY <1>b, <2>1, <2>2
      <4>4. \E t \in call'.during : AskedFor(t)'  BY <2>1, <2>2, <3>1, <4>1, <4>3 DEF AskedFor
      <4> QED  BY <2>2, <3>1, <4>4 DEF Exchange
    <3>3. CASE selection.owner # "them"
      <4>1. notifies' = Append(notifies, FALSE) /\ asked' = asked  BY <1>11, <3>3, Zenon DEF X!Ask
      <4>2. asked' = <<>> /\ notifies' = <<FALSE>>  BY <3>1, <4>1, OneEvent, Zenon
      <4>3. Unanswered'  BY <2>1, <3>1, <4>2, Zenon DEF Unanswered
      <4> QED  BY <2>2, <3>1, <4>3 DEF Exchange
    <3> QED  BY <3>2, <3>3
  <2>4. ExchangeInv'  BY <1>b, <2>1, <2>2, <2>3 DEF ExchangeInv
  <2> QED  BY <2>1, <2>4, NoTextReturned DEF FindInv, X!Silent
<1>12. CASE X!TimedOut
  <2>1. X!Busy /\ X!Return(X!Empty, TRUE)  BY <1>12 DEF X!TimedOut
  <2> QED  BY <2>1, TextReturned
\* An answer to a call that began with nothing on its way.
<1>a. ASSUME NEW ready \in BOOLEAN, X!Replied(ready), call.clean
      PROVE  /\ asked = <<>> /\ notifies = <<ready>> /\ notifies' = <<>> /\ call.n = 0
             /\ ready => \E t \in call.during : Answered(t)
             /\ ~ready => transfer = X!NoTransfer
  <2>1. X!Busy /\ call.pc = "reply" /\ notifies # <<>> /\ Head(notifies) = ready /\ notifies' = Tail(notifies)
    BY <1>a DEF X!Replied
  <2>2. call.n = 0 /\ (Unanswered \/ \E t \in call.during : AskedFor(t) \/ Answered(t))
    BY <1>a, <1>b, <2>1 DEF Exchange
  <2>3. CASE Unanswered
    <3>1. asked = <<>> /\ notifies = <<FALSE>> /\ transfer = X!NoTransfer  BY <2>1, <2>3 DEF Unanswered
    <3>2. ready = FALSE /\ notifies' = <<>>  BY <2>1, <3>1, OneEvent, Zenon
    <3> QED  BY <2>2, <3>1, <3>2
  <2>4. ASSUME NEW t \in call.during, Answered(t)
        PROVE asked = <<>> /\ notifies = <<TRUE>>
    BY <2>4 DEF Answered
  <2>5. CASE \E t \in call.during : Answered(t)
    <3>1. asked = <<>> /\ notifies = <<TRUE>>  BY <2>4, <2>5
    <3>2. ready = TRUE /\ notifies' = <<>>  BY <2>1, <3>1, OneEvent, Zenon
    <3> QED  BY <2>2, <2>5, <3>1, <3>2
  <2> QED  BY <2>1, <2>2, <2>3, <2>5 DEF AskedFor
<1>13. CASE X!TakeRefusal
  <2>1. X!Replied(FALSE) /\ X!TryNext(TRUE) /\ UNCHANGED <<selection, asked, transfer, alive>>
    BY <1>13, Zenon DEF X!TakeRefusal, X!server
  <2>2. X!Busy /\ call.pc = "reply"  BY <2>1, Zenon DEF X!Replied
  <2> QED  BY <1>a, <2>1, <2>2, TryNextFinds
<1>14. CASE X!TakeAnnouncement
  <2>1. /\ X!Replied(TRUE) /\ property.type = "incr" /\ changes' = 0 /\ property' = X!None
        /\ call' = [call EXCEPT !.pc = "chunk", !.limit = TransferLimit, !.idle = X!ChunkDeadline(TransferLimit)]
        /\ UNCHANGED <<selection, transfer, asked, alive>> /\ out' = X!Silent
    BY <1>14 DEF X!TakeAnnouncement, X!StaleChanges
  <2>2. X!Busy  BY <2>1, Zenon DEF X!Replied
  <2>3. /\ call'.pc = "chunk" /\ call'.target = call.target /\ call'.n = call.n
        /\ call'.clean = call.clean /\ call'.during = call.during
    BY <1>b, <2>1, <2>2 DEF Waits
  <2>4. ASSUME call.clean PROVE Exchange'
    <3>1. PICK t \in call.during : Answered(t)  BY <1>a, <2>1, <2>4
    <3>2. transfer \in {X!NoTransfer, Sending(t, 1)}  BY <2>1, <3>1 DEF Answered
    <3>3. asked' = <<>> /\ notifies' = <<>> /\ call'.n = 0  BY <1>a, <2>1, <2>3, <2>4
    <3>4. Transferred(t)'
      BY <2>1, <2>3, <3>2, <3>3 DEF Transferred, NothingWaits, Sending
    <3> QED  BY <2>3, <3>4 DEF Exchange
  <2>5. ExchangeInv'  BY <1>b, <2>1, <2>2, <2>3, <2>4 DEF ExchangeInv
  <2> QED  BY <2>1, <2>5, NoTextReturned DEF FindInv, X!Silent
<1>15. CASE X!TakeWhole
  <2>1. /\ X!Replied(TRUE) /\ property.type # "incr" /\ UNCHANGED <<selection, transfer, asked, alive>>
        /\ CASE property.type = "whole" -> X!Return(X!Decoded(property), FALSE)
             [] property.type = "chunk" -> X!Return(IF property.n = 0 THEN X!Empty ELSE X!Garbled, FALSE)
             [] OTHER -> X!TryNext(property.type = "unreadable")
    BY <1>15 DEF X!TakeWhole
  <2>2. X!Busy /\ call.pc = "reply"  BY <2>1, Zenon DEF X!Replied
  <2>3. ASSUME call.clean
        PROVE  /\ asked = <<>> /\ notifies' = <<>> /\ transfer = X!NoTransfer
               /\ property.type = "unreadable" \/ (property.type = "whole" /\ X!Decoded(property) \in call.during)
    <3>1. PICK t \in call.during : Answered(t)  BY <1>a, <2>1, <2>3
    <3>2. /\ transfer = X!NoTransfer
          /\ property.type = "unreadable" \/ (property.type = "whole" /\ X!Decoded(property) \in call.during)
      BY <2>1, <3>1 DEF Answered, X!Decoded
    <3> QED  BY <1>a, <2>1, <2>3, <3>2
  <2>4. CASE property.type = "whole"
    BY <2>1, <2>2, <2>3, <2>4, TextReturned
  <2>5. CASE property.type = "chunk"
    <3>1. ~call.clean  BY <2>3, <2>5
    <3>2. \E result : X!Return(result, FALSE)  BY <2>1, <2>5
    <3> QED  BY <2>2, <3>1, <3>2, TextReturned
  <2>6. CASE property.type \notin {"whole", "chunk"}
    <3>1. X!TryNext(property.type = "unreadable")  BY <2>1, <2>6
    <3>2. call.clean => property.type = "unreadable"  BY <2>3, <2>6
    <3>3. (property.type = "unreadable") \in BOOLEAN  OBVIOUS
    <3> QED  BY <2>1, <2>2, <2>3, <3>1, <3>2, <3>3, TryNextFinds
  <2> QED  BY <2>4, <2>5, <2>6
<1>16. CASE X!TakeChunk
  <2>1. /\ X!Busy /\ call.pc = "chunk" /\ changes > 0 /\ changes' = changes - 1 /\ property' = X!None
        /\ UNCHANGED <<selection, transfer, asked, notifies, alive>>
        /\ CASE property.type = "chunk" /\ property.n = 0 -> X!Return(call.text, FALSE)
             [] property.type = "whole" \/ (property.type = "chunk" /\ property.n # 0) ->
                  IF call.n = MaxChunks THEN X!Return(X!Empty, TRUE)
                  ELSE call' = [call EXCEPT !.n = @ + 1, !.text = X!NextChunk, !.idle = X!ChunkDeadline(call.limit)]
                       /\ out' = X!Silent
             [] OTHER -> X!Return(X!Empty, property.type = "unreadable")
    BY <1>16 DEF X!TakeChunk
  <2>2. ASSUME call.clean
        PROVE  \E t \in call.during :
                 /\ NothingWaits /\ changes = 1 /\ (call.n > 0 => call.text = t)
                 /\ \/ property = Chunk(t, call.n + 1) /\ transfer \in {X!NoTransfer, Sending(t, call.n + 2)}
                    \/ property = Chunk(t, 0) /\ call.n > 0
    BY <1>b, <2>1, <2>2 DEF Exchange, Transferred
  <2>3. CASE property.type = "chunk" /\ property.n = 0
    <3>1. ASSUME call.clean PROVE call.text \in call.during
      <4>1. call.n \in Nat  BY <1>b, <2>1
      <4> QED  BY <2>2, <2>3, <3>1, <4>1 DEF Chunk
    <3>2. X!Return(call.text, FALSE)  BY <2>1, <2>3
    <3> QED  BY <2>1, <3>1, <3>2, TextReturned
  <2>4. CASE property.type = "whole" \/ (property.type = "chunk" /\ property.n # 0)
    <3>1. CASE call.n = MaxChunks
      BY <2>1, <2>4, <3>1, TextReturned
    <3>2. CASE call.n # MaxChunks
      <4>1. /\ call' = [call EXCEPT !.n = @ + 1, !.text = X!NextChunk, !.idle = X!ChunkDeadline(call.limit)]
            /\ out' = X!Silent
        BY <2>1, <2>4, <3>2
      <4>2. /\ call'.pc = "chunk" /\ call'.target = call.target /\ call'.n = call.n + 1 /\ call'.text = X!NextChunk
            /\ call'.clean = call.clean /\ call'.during = call.during
        BY <1>b, <2>1, <4>1 DEF Waits
      <4>3. ASSUME call.clean PROVE Exchange'
        <5>1. PICK t \in call.during :
                /\ NothingWaits /\ changes = 1 /\ (call.n > 0 => call.text = t)
                /\ \/ property = Chunk(t, call.n + 1) /\ transfer \in {X!NoTransfer, Sending(t, call.n + 2)}
                   \/ property = Chunk(t, 0) /\ call.n > 0
          BY <2>2, <4>3
        <5>2. property = Chunk(t, call.n + 1) /\ transfer \in {X!NoTransfer, Sending(t, call.n + 2)}
          BY <2>4, <5>1 DEF Chunk
        <5>3. call.n \in Nat  BY <1>b, <2>1
        <5>4. X!NextChunk = t  BY <5>1, <5>2, <5>3 DEF X!NextChunk, X!Decoded, Chunk
        <5>5. (call.n + 1) + 1 = call.n + 2  BY <5>3
        <5>6. property' = X!None /\ changes' = 0 /\ asked' = <<>> /\ notifies' = <<>>
          BY <2>1, <5>1 DEF NothingWaits
        <5>7. transfer' \in {X!NoTransfer, [text |-> t, encoding |-> call'.target, n |-> call'.n + 1]}
          BY <2>1, <4>2, <5>2, <5>5 DEF Sending
        <5>8. Transferred(t)'
          BY <4>2, <5>4, <5>6, <5>7 DEF Transferred, NothingWaits, Sending
        <5> QED  BY <4>2, <5>8 DEF Exchange
      <4>4. ExchangeInv'  BY <1>b, <2>1, <4>2, <4>3 DEF ExchangeInv
      <4> QED  BY <4>1, <4>4, NoTextReturned DEF FindInv, X!Silent
    <3> QED  BY <3>1, <3>2
  <2>5. CASE property.type \notin {"chunk", "whole"}
    <3>1. ~call.clean  BY <2>2, <2>5 DEF Chunk
    <3>2. \E failed \in BOOLEAN : X!Return(X!Empty, failed)  BY <2>1, <2>5
    <3> QED  BY <2>1, <3>1, <3>2, TextReturned
  <2> QED  BY <2>3, <2>4, <2>5
<1>17. ASSUME UNCHANGED <<selection, call, alive>>, out'.what # "read", X!Busy /\ call.clean /\ Exchange => Exchange'
       PROVE  FindInv'
  <2>1. ExchangeInv'
    <3>1. CASE X!Busy
      BY <1>b, <1>17, <3>1 DEF ExchangeInv
    <3>2. CASE ~X!Busy
      BY <1>17, <3>2 DEF ExchangeInv, X!Busy
    <3> QED  BY <3>1, <3>2
  <2> QED  BY <1>17, <2>1, NoTextReturned DEF FindInv
<1>18. CASE X!TheyAnswer
  <2>1. PICK i \in 1 .. Len(asked) :
          /\ asked' = X!Without(i)
          /\ \/ notifies' = Append(notifies, FALSE) /\ UNCHANGED <<property, changes, transfer>>
             \/ /\ notifies' = Append(notifies, TRUE)
                /\ \/ /\ property' \in {[type |-> "unreadable"],
                                       [type |-> "whole", text |-> asked[i].text, encoding |-> asked[i].target]}
                      /\ UNCHANGED transfer
                   \/ /\ property' = [type |-> "incr"]
                      /\ transfer' = [text |-> asked[i].text, encoding |-> asked[i].target, n |-> 1]
             \/ UNCHANGED <<notifies, property, changes, transfer>>
    BY <1>18, Zenon DEF X!TheyAnswer
  <2>2. UNCHANGED <<selection, call, alive>> /\ out'.what # "read"  BY <1>18 DEF X!TheyAnswer, X!Silent
  <2>3. ASSUME X!Busy, call.clean, Exchange PROVE Exchange'
    <3>1. asked # <<>>  BY <2>1
    <3>2. call.pc = "reply" /\ call.n = 0 /\ \E t \in call.during : AskedFor(t)
      BY <1>b, <2>3, <3>1 DEF Waits, Exchange, NothingWaits, Unanswered, Answered, Transferred
    <3>3. PICK t \in call.during : AskedFor(t)  BY <3>2
    <3>4. /\ notifies = <<>> /\ transfer = X!NoTransfer
          /\ asked = <<[text |-> t, target |-> call.target]>>
      BY <3>3 DEF AskedFor
    <3>5. i = 1 /\ asked[i].text = t /\ asked[i].target = call.target  BY <2>1, <3>4
    <3>6. asked' = <<>>  BY <2>1, <3>4, <3>5 DEF X!Without
    <3>7. CASE notifies' = Append(notifies, FALSE) /\ UNCHANGED <<property, changes, transfer>>
      <4>1. notifies' = <<FALSE>>  BY <3>4, <3>7, OneEvent, Zenon
      <4>2. Unanswered'  BY <3>4, <3>6, <3>7, <4>1, Zenon DEF Unanswered
      <4> QED  BY <2>2, <3>2, <4>2 DEF Exchange
    <3>8. CASE /\ notifies' = Append(notifies, TRUE)
               /\ \/ /\ property' \in {[type |-> "unreadable"],
                                       [type |-> "whole", text |-> asked[i].text, encoding |-> asked[i].target]}
                     /\ UNCHANGED transfer
                  \/ /\ property' = [type |-> "incr"]
                     /\ transfer' = [text |-> asked[i].text, encoding |-> asked[i].target, n |-> 1]
      <4>1. notifies' = <<TRUE>>  BY <3>4, <3>8, OneEvent, Zenon
      <4>2. \/ property' = [type |-> "unreadable"] /\ transfer' = X!NoTransfer
            \/ property' = [type |-> "whole", text |-> t, encoding |-> call'.target] /\ transfer' = X!NoTransfer
            \/ property' = [type |-> "incr"] /\ transfer' = [text |-> t, encoding |-> call'.target, n |-> 1]
        BY <2>2, <3>4, <3>5, <3>8
      <4>3. Answered(t)'  BY <3>6, <4>1, <4>2 DEF Answered, Sending
      <4> QED  BY <2>2, <3>2, <3>3, <4>3 DEF Exchange
    <3>9. CASE UNCHANGED <<notifies, property, changes, transfer>>
      <4>1. Unanswered'  BY <3>4, <3>6, <3>9 DEF Unanswered
      <4> QED  BY <2>2, <3>2, <4>1 DEF Exchange
    <3> QED  BY <2>1, <3>7, <3>8, <3>9
  <2> QED  BY <1>17, <2>2, <2>3
<1>19. CASE X!TheySend
  <2>1. /\ transfer # X!NoTransfer /\ UNCHANGED <<selection, call, alive, asked, notifies>> /\ out'.what # "read"
        /\ \/ /\ property = X!None /\ changes' = changes + 1
              /\ \/ /\ property' = [type |-> "chunk", text |-> transfer.text, encoding |-> transfer.encoding,
                                    n |-> transfer.n]
                    /\ transfer' = [transfer EXCEPT !.n = @ + 1]
                 \/ /\ transfer.n > 1
                    /\ property' = [type |-> "chunk", text |-> transfer.text, encoding |-> transfer.encoding,
                                    n |-> 0]
                    /\ transfer' = X!NoTransfer
           \/ transfer' = X!NoTransfer /\ UNCHANGED <<property, changes>>
    BY <1>19 DEF X!TheySend, X!Silent
  <2>2. ASSUME X!Busy, call.clean, Exchange PROVE Exchange'
    <3>1. CASE call.pc = "ask"
      BY <2>1, <2>2, <3>1 DEF Exchange
    <3>2. CASE call.pc = "reply"
      <4>1. PICK t \in call.during : Answered(t)
        BY <2>1, <2>2, <3>2 DEF Exchange, Unanswered, AskedFor
      <4>2. /\ property = [type |-> "incr"] /\ asked = <<>> /\ notifies = <<TRUE>>
        BY <2>1, <4>1 DEF Answered
      <4>3. transfer' = X!NoTransfer /\ property' = property  BY <2>1, <4>2 DEF X!None
      <4>4. Answered(t)'  BY <2>1, <4>2, <4>3 DEF Answered
      <4> QED  BY <2>1, <2>2, <3>2, <4>4 DEF Exchange
    <3>3. CASE call.pc = "chunk"
      <4>1. PICK t \in call.during : Transferred(t)  BY <2>2, <3>3 DEF Exchange
      <4>2. call.n \in Nat  BY <1>b, <2>2
      <4>3. CASE property = X!None
        <5>1. changes = 0 /\ transfer = Sending(t, call.n + 1)
          BY <2>1, <4>1, <4>3 DEF Transferred, Chunk, X!None
        <5>2. transfer.text = t /\ transfer.encoding = call.target /\ transfer.n = call.n + 1
          BY <5>1 DEF Sending
        <5>3. [transfer EXCEPT !.n = @ + 1] = Sending(t, call.n + 2)  BY <4>2, <5>1 DEF Sending
        <5>4. \/ property' = Chunk(t, call.n + 1) /\ changes' = 1 /\ transfer' = Sending(t, call.n + 2)
              \/ property' = Chunk(t, 0) /\ changes' = 1 /\ transfer' = X!NoTransfer /\ call.n > 0
              \/ property' = X!None /\ changes' = 0 /\ transfer' = X!NoTransfer
          BY <2>1, <4>2, <4>3, <5>1, <5>2, <5>3 DEF Chunk
        <5>5. Transferred(t)'
          BY <2>1, <4>1, <5>4 DEF Transferred, NothingWaits, Chunk, Sending
        <5> QED  BY <2>1, <3>3, <5>5 DEF Exchange
      <4>4. CASE property # X!None
        <5>1. transfer' = X!NoTransfer /\ UNCHANGED <<property, changes>>  BY <2>1, <4>4
        <5>2. Transferred(t)'
          BY <2>1, <4>1, <4>4, <5>1 DEF Transferred, NothingWaits, Chunk, Sending
        <5> QED  BY <2>1, <3>3, <5>2 DEF Exchange
      <4> QED  BY <4>3, <4>4
    <3> QED  BY <1>b, <2>2, <3>1, <3>2, <3>3 DEF Waits
  <2> QED  BY <1>17, <2>1, <2>2
<1> QED
  BY <1>2, <1>3, <1>4, <1>5, <1>7, <1>8, <1>9, <1>10, <1>11, <1>12, <1>13, <1>14, <1>15, <1>16, <1>18, <1>19
  DEF X!Next, X!Text, X!Others

\* When text() begins with nothing of an earlier call on its way, or serves this client's own text, it
\* finds what the selection held at some moment of the call, or an owner refused, was too slow or sent
\* too much, or the own text was wiped by the news of a loss (text(), X11Clipboard.cpp).
THEOREM TextIsFound == ASSUME X!TimesAssumption PROVE X!Spec => []X!ReadFindsSelection
<1>1. FindInv => X!ReadFindsSelection  BY DEF FindInv
<1>2. X!Init => FindInv /\ StallInv /\ X11OwnInv  BY FindInvInit, StallInvInit, X11OwnInvInit
<1>3. FindInv /\ StallInv /\ X11OwnInv /\ [X!Next]_X!vars => FindInv' /\ StallInv' /\ X11OwnInv'
  BY FindInvKept, StallInvKept, X11OwnInvKept
<1> QED  BY <1>1, <1>2, <1>3, PTL DEF X!Spec

-----------------------------------------------------------------------------
(***************************************************************************)
(* WaylandClipboard.                                                       *)
(*                                                                         *)
(* The source this client holds is the selection or the news that it is    *)
(* not is on its way, a pasted text is whole or empty, no transfer stalls  *)
(* the event thread past its limit, and once the queue is handled the      *)
(* offer this client holds is the one last announced.                      *)
(***************************************************************************)

Cancelled(s) == [type |-> "cancelled", id |-> s]
OnItsWay(s, es) == \E i \in 1 .. Len(es) : es[i] = Cancelled(s)

\* What is in the queue, as far as ownership is concerned.
Event == [type : {"offer", "mime", "selection", "cancelled", "send"}, id : Nat] \cup [type : {"leave"}]

WaylandOwnInv ==
  /\ events \in Seq(Event)
  /\ made \in [sources : Nat, offers : Nat]
  /\ source \in Nat /\ announced \in Nat
  /\ W!SourceOwnsSelection


(* The queue.                                                               *)

\* Nothing is lost when events are sent.
LEMMA SentAfter ==
  ASSUME events \in Seq(Event), NEW es \in Seq(Event), W!Send(es), NEW s
  PROVE  /\ events' \in Seq(Event)
         /\ OnItsWay(s, events) \/ OnItsWay(s, es) => OnItsWay(s, events')
<1>1. events' = events \o es  BY DEF W!Send
<1>2. ASSUME OnItsWay(s, events) PROVE OnItsWay(s, events')
  BY <1>1, <1>2 DEF OnItsWay
<1>3. ASSUME OnItsWay(s, es) PROVE OnItsWay(s, events')
  <2>1. PICK i \in 1 .. Len(es) : es[i] = Cancelled(s)  BY <1>3 DEF OnItsWay
  <2>2. Len(events) + i \in 1 .. Len(events') /\ events'[Len(events) + i] = es[i]  BY <1>1, <2>1
  <2> QED  BY <2>1, <2>2 DEF OnItsWay
<1> QED  BY <1>1, <1>2, <1>3

\* An event that is handled is the first, and the others stay.
LEMMA HandledFirst ==
  ASSUME events \in Seq(Event), events # <<>>, events' = Tail(events), NEW s
  PROVE  /\ events' \in Seq(Event)
         /\ OnItsWay(s, events) => Head(events) = Cancelled(s) \/ OnItsWay(s, events')
<1>1. SUFFICES ASSUME OnItsWay(s, events), Head(events) # Cancelled(s) PROVE OnItsWay(s, events')
  OBVIOUS
<1>2. PICK i \in 1 .. Len(events) : events[i] = Cancelled(s)  BY <1>1 DEF OnItsWay
<1>3. i # 1  BY <1>1, <1>2
<1>4. i - 1 \in 1 .. Len(events') /\ events'[i - 1] = events[i]  BY <1>2, <1>3
<1> QED  BY <1>2, <1>4 DEF OnItsWay

\* The property in the words of the lemmas.
LEMMA InWords ==
  W!SourceOwnsSelection <=> (source # W!NoProxy /\ ~declined => selection = W!Ours(source) \/ OnItsWay(source, events))
BY DEF W!SourceOwnsSelection, OnItsWay, Cancelled

\* The property in the words of the lemmas, after a step.
LEMMA InWordsNext ==
  W!SourceOwnsSelection' <=>
    (source' # W!NoProxy /\ ~declined' => selection' = W!Ours(source') \/ OnItsWay(source', events'))
BY DEF W!SourceOwnsSelection, OnItsWay, Cancelled


(* Who owns the selection.                                                  *)

\* A clipboard begins without a source (the constructor).
LEMMA WaylandOwnInvInit == W!Init => WaylandOwnInv
BY DEF W!Init, WaylandOwnInv, W!SourceOwnsSelection, W!NoProxy

\* A source is replaced or dropped together with the claim, and a cancellation that is handled
\* is that source's, or leaves it alone.
LEMMA WaylandOwnInvKept == WaylandOwnInv /\ [W!Next]_W!vars => WaylandOwnInv'
<1> SUFFICES ASSUME WaylandOwnInv, [W!Next]_W!vars PROVE WaylandOwnInv'
  OBVIOUS
<1> USE DEF WaylandOwnInv
<1>1. CASE UNCHANGED <<W!own, events, made, announced, selection, declined>>
  BY <1>1 DEF W!own, W!SourceOwnsSelection
<1>2. CASE W!Transfers \/ W!AdoptManager \/ W!AttachSeat \/ W!TextAtOnce \/ W!TextOfTheirs \/ UNCHANGED W!vars
  BY <1>1, <1>2 DEF W!Transfers, W!ReceivePiece, W!ReceiveEnd, W!SendPiece, W!SendBroken, W!TransferTimedOut, W!Tick, W!PeerMoves,
     W!AdoptManager, W!AttachSeat, W!TextAtOnce, W!TextOfTheirs, W!vars, W!Aside, W!compositor
<1>3. CASE W!DetachSeat
  <2>1. /\ source' = W!NoProxy /\ events' = <<>> /\ announced' = W!NoProxy /\ made' = made
    BY <1>3 DEF W!DetachSeat
  <2> QED  BY <2>1 DEF W!NoProxy, W!SourceOwnsSelection
<1>4. CASE W!SetText
  <2>1. /\ made' = [made EXCEPT !.sources = @ + 1] /\ source' = made'.sources
        /\ selection' = IF declined' THEN W!WithoutSource(source) ELSE W!Ours(source')
        /\ events' = events /\ announced' = announced
    BY <1>4 DEF W!SetText
  <2>2. events' \in Seq(Event)  BY <2>1
  <2>3. W!SourceOwnsSelection'  BY <2>1, InWordsNext
  <2> QED  BY <2>1, <2>2, <2>3
<1>5. CASE W!HandleDataOffer \/ W!HandleOfferMime \/ W!HandleDragOver \/ W!HandleSelection \/ W!HandleSourceSend
  <2>1. /\ events # <<>> /\ events' = Tail(events) /\ Head(events).type # "cancelled"
        /\ UNCHANGED <<W!own, made, announced, selection, declined>>
    BY <1>5 DEF W!HandleDataOffer, W!HandleOfferMime, W!HandleDragOver, W!HandleSelection, W!HandleSourceSend, W!Handle, W!compositor
  <2>2. Head(events) # Cancelled(source)  BY <2>1 DEF Cancelled
  <2>3. W!SourceOwnsSelection'  BY <2>1, <2>2, HandledFirst, InWords, InWordsNext DEF W!own
  <2> QED  BY <2>1, <2>3, HandledFirst DEF W!own
<1>6. CASE W!HandleSourceCancelled
  <2>1. /\ events # <<>> /\ events' = Tail(events) /\ W!SourceLost(Head(events).id)
        /\ UNCHANGED <<made, announced, selection, declined>>
    BY <1>6 DEF W!HandleSourceCancelled, W!Handle, W!It, W!compositor
  <2>2. CASE Head(events).id = source
    <3>1. source' = W!NoProxy  BY <2>1, <2>2 DEF W!SourceLost
    <3> QED  BY <2>1, <3>1, HandledFirst DEF W!NoProxy, W!SourceOwnsSelection
  <2>3. CASE Head(events).id # source
    <3>1. source' = source /\ Head(events) # Cancelled(source)
      BY <2>1, <2>3 DEF W!SourceLost, Cancelled, W!own
    <3>2. W!SourceOwnsSelection'  BY <2>1, <3>1, HandledFirst, InWords, InWordsNext
    <3> QED  BY <2>1, <3>1, <3>2, HandledFirst
  <2> QED  BY <2>2, <2>3
<1>7. CASE W!TheyCopy
  <2>1. /\ selection' = W!Them
        /\ W!Send(IF selection \in {W!Ours(source)} THEN <<Cancelled(source)>> ELSE <<>>)
        /\ UNCHANGED <<W!own, declined, announced, made>>
    BY <1>7 DEF W!TheyCopy, Cancelled
  <2>2. CASE selection = W!Ours(source)
    <3>1. <<Cancelled(source)>> \in Seq(Event) /\ OnItsWay(source, <<Cancelled(source)>>)
      BY DEF Cancelled, Event, OnItsWay
    <3>2. W!Send(<<Cancelled(source)>>)  BY <2>1, <2>2
    <3>3. events' \in Seq(Event) /\ OnItsWay(source, events')  BY <3>1, <3>2, SentAfter
    <3> QED  BY <2>1, <3>3, InWordsNext DEF W!own
  <2>3. CASE selection # W!Ours(source)
    <3>1. <<>> \in Seq(Event) /\ W!Send(<<>>)  BY <2>1, <2>3
    <3>2. events' \in Seq(Event) /\ (OnItsWay(source, events) => OnItsWay(source, events'))
      BY <3>1, SentAfter
    <3> QED  BY <2>1, <2>3, <3>2, InWords, InWordsNext DEF W!own
  <2> QED  BY <2>2, <2>3
<1>8. CASE W!AnnounceSelection \/ W!AnnounceNothing \/ W!DragEnters \/ W!DragLeaves \/ W!TheyPaste
  <2>1. UNCHANGED <<W!own, selection, declined>>
    BY <1>8 DEF W!AnnounceSelection, W!AnnounceNothing, W!DragEnters, W!DragLeaves, W!TheyPaste, W!compositor
  <2>2. made' \in [sources : Nat, offers : Nat] /\ announced' \in Nat
    <3>1. CASE UNCHANGED made /\ announced' \in {announced, W!NoProxy}
      BY <3>1 DEF W!NoProxy
    <3>2. CASE made' = [made EXCEPT !.offers = @ + 1] /\ announced' \in {announced, made'.offers}
      BY <3>2
    <3>3. CASE W!AnnounceSelection
      BY <3>2, <3>3 DEF W!AnnounceSelection, W!NewOffer
    <3>4. CASE W!AnnounceNothing
      BY <3>1, <3>4 DEF W!AnnounceNothing
    <3>5. CASE W!DragEnters
      BY <3>2, <3>5 DEF W!DragEnters, W!NewOffer
    <3>6. CASE W!DragLeaves \/ W!TheyPaste
      <4>1. made' = made /\ announced' = announced  BY <3>6 DEF W!DragLeaves, W!TheyPaste, W!compositor
      <4> QED  BY <3>1, <4>1
    <3> QED  BY <1>8, <3>3, <3>4, <3>5, <3>6
  <2>3. \E es \in Seq(Event) : W!Send(es)
    <3>1. W!TheOffer \in Event /\ W!ItsFormat \in Event /\ W!Selected(announced') \in Event /\ W!Selected(W!NoProxy) \in Event
      BY <2>2 DEF W!TheOffer, W!ItsFormat, W!Selected, W!NoProxy, Event
    <3>2. [type |-> "leave"] \in Event /\ [type |-> "send", id |-> source] \in Event  BY DEF Event
    <3>3. /\ <<W!TheOffer, W!ItsFormat, W!Selected(announced')>> \in Seq(Event)
          /\ <<W!TheOffer, W!Selected(announced')>> \in Seq(Event)
          /\ <<W!TheOffer, W!ItsFormat>> \in Seq(Event)
      BY <3>1
    <3>4. /\ <<W!Selected(W!NoProxy)>> \in Seq(Event)
          /\ <<[type |-> "leave"]>> \in Seq(Event)
          /\ <<[type |-> "send", id |-> source]>> \in Seq(Event)
      BY <3>1, <3>2
    <3>5. CASE W!AnnounceSelection
      BY <3>3, <3>5 DEF W!AnnounceSelection
    <3>6. CASE W!AnnounceNothing \/ W!DragEnters
      BY <3>3, <3>4, <3>6 DEF W!AnnounceNothing, W!DragEnters
    <3>7. CASE W!DragLeaves \/ W!TheyPaste
      BY <3>4, <3>7 DEF W!DragLeaves, W!TheyPaste
    <3> QED  BY <1>8, <3>5, <3>6, <3>7
  <2>4. events' \in Seq(Event) /\ (OnItsWay(source, events) => OnItsWay(source, events'))
    BY <2>3, SentAfter
  <2>5. W!SourceOwnsSelection'  BY <2>1, <2>4, InWords, InWordsNext DEF W!own
  <2> QED  BY <2>1, <2>2, <2>4, <2>5 DEF W!own
<1> QED
  BY <1>2, <1>3, <1>4, <1>5, <1>6, <1>7, <1>8 DEF W!Next, W!Client, W!Dispatch, W!Compositor

\* No cancellation is missed or taken for another source's (setText(), detachSeat() and
\* handleSourceCancelled(), WaylandClipboard.cpp).
THEOREM SourceIsSelection == W!Spec => []W!SourceOwnsSelection
<1>1. WaylandOwnInv => W!SourceOwnsSelection  BY DEF WaylandOwnInv
<1> QED  BY <1>1, WaylandOwnInvInit, WaylandOwnInvKept, PTL DEF W!Spec


(* The two transfers.                                                       *)

\* A transfer under way: its record, and that what it counts are numbers.
Moving(movement) ==
  /\ movement = [pc |-> movement.pc, moved |-> movement.moved, pipe |-> movement.pipe, sent |-> movement.sent,
                 closed |-> movement.closed, idle |-> movement.idle, elapsed |-> movement.elapsed]
  /\ movement.pc \in {"receive", "send"}
  /\ movement.moved \in Nat /\ movement.sent \in Nat /\ movement.elapsed \in Nat
  /\ movement.pipe \in 0 .. 1
  /\ movement.closed \in BOOLEAN

\* What the other client wrote was read or is in the pipe, and the clock is within the limit.
InTransit(movement) ==
  /\ Moving(movement)
  /\ movement.pc = "receive" => movement.moved + movement.pipe = movement.sent
  /\ movement.elapsed <= PipeLimit

TransferInv == (W!Busy => InTransit(call)) /\ W!ReadIsWhole

\* A new transfer has nothing to account for.
LEMMA TransferStarts ==
  ASSUME PipeLimit \in Nat, NEW direction \in {"receive", "send"}
  PROVE  /\ InTransit(W!Transfer(direction))
         /\ \A gone \in BOOLEAN : InTransit([W!Transfer(direction) EXCEPT !.closed = gone])
BY DEF W!Transfer, InTransit, Moving

\* A step that leaves the transfer and returns no text keeps the invariant.
LEMMA NothingRead ==
  ASSUME TransferInv, out'.what # "read", call' = W!Idle \/ call' = call \/ InTransit(call')
  PROVE  TransferInv'
BY DEF TransferInv, W!Busy, W!ReadIsWhole, InTransit, Moving

\* A transfer that is over returns what was moved when the other client had closed the pipe
\* and it was empty, and otherwise nothing.
LEMMA Finished ==
  ASSUME TransferInv, W!Busy, NEW complete \in BOOLEAN, W!Finish(complete),
         complete /\ call.pc = "receive" => call.pipe = 0 /\ call.closed
  PROVE  TransferInv'
<1>1. InTransit(call)  BY DEF TransferInv
<1>2. call' = W!Idle  BY DEF W!Finish
<1>3. CASE call.pc = "receive" /\ complete
  <2>1. out' = [what |-> "read", result |-> call.moved, sent |-> call.sent, closed |-> call.closed]
    BY <1>3 DEF W!Finish, W!Result
  <2>2. call.moved = call.sent /\ call.closed  BY <1>1, <1>3 DEF InTransit, Moving
  <2> QED  BY <1>2, <2>1, <2>2 DEF TransferInv, W!Busy, W!ReadIsWhole
<1>4. CASE call.pc = "receive" /\ ~complete
  <2>1. out' = [what |-> "read", result |-> 0, sent |-> call.sent, closed |-> call.closed]
    BY <1>4 DEF W!Finish, W!Result
  <2> QED  BY <1>2, <2>1 DEF TransferInv, W!Busy, W!ReadIsWhole
<1>5. CASE call.pc # "receive"
  <2>1. out'.what # "read"  BY <1>5 DEF W!Finish, W!Silent
  <2> QED  BY <1>2, <2>1, NothingRead
<1> QED  BY <1>3, <1>4, <1>5

\* No transfer is under way at first.
LEMMA TransferInvInit == W!Init => TransferInv
BY DEF W!Init, TransferInv, W!Busy, W!ReadIsWhole, W!Silent

\* receive() and writeAll() count what moves, and end at the end of the pipe or with nothing.
LEMMA TransferInvKept == ASSUME W!TimesAssumption PROVE TransferInv /\ [W!Next]_W!vars => TransferInv'
<1> USE DEF W!TimesAssumption
<1> SUFFICES ASSUME TransferInv, [W!Next]_W!vars PROVE TransferInv'
  OBVIOUS
<1>0. W!Busy => InTransit(call)  BY DEF TransferInv
<1>1. CASE W!AdoptManager \/ W!AttachSeat \/ W!DetachSeat \/ W!SetText \/ W!TextAtOnce
  <2>1. out'.what # "read" /\ call' = call
    BY <1>1 DEF W!AdoptManager, W!AttachSeat, W!DetachSeat, W!SetText, W!TextAtOnce, W!Quiet, W!Silent
  <2> QED  BY <2>1, NothingRead
<1>2. CASE W!TextOfTheirs
  <2>1. out'.what # "read" /\ \E gone \in BOOLEAN : call' = [W!Transfer("receive") EXCEPT !.closed = gone]
    BY <1>2 DEF W!TextOfTheirs, W!Silent
  <2> QED  BY <2>1, TransferStarts, NothingRead
<1>3. CASE W!HandleSourceSend
  <2>1. out'.what # "read" /\ call' \in {W!Transfer("send"), W!Idle}
    BY <1>3 DEF W!HandleSourceSend, W!Silent
  <2> QED  BY <2>1, TransferStarts, NothingRead
<1>4. CASE W!HandleDataOffer \/ W!HandleOfferMime \/ W!HandleDragOver \/ W!HandleSelection \/ W!HandleSourceCancelled
  <2>1. out'.what # "read" /\ call' = call
    BY <1>4 DEF W!HandleDataOffer, W!HandleOfferMime, W!HandleDragOver, W!HandleSelection, W!HandleSourceCancelled, W!Quiet, W!Silent
  <2> QED  BY <2>1, NothingRead
<1>5. CASE W!Compositor
  <2>1. out'.what # "read" /\ call' = call
    BY <1>5 DEF W!Compositor, W!TheyCopy, W!AnnounceSelection, W!AnnounceNothing, W!DragEnters, W!DragLeaves, W!TheyPaste, W!Silent
  <2> QED  BY <2>1, NothingRead
<1>6. CASE W!ReceivePiece
  <2>1. W!Busy /\ call.pc = "receive" /\ call.pipe > 0  BY <1>6 DEF W!ReceivePiece, W!Busy, W!Idle
  <2>2. CASE call.moved = MaxBytes
    <3>1. W!Finish(FALSE)  BY <1>6, <2>2 DEF W!ReceivePiece
    <3> QED  BY <2>1, <3>1, Finished
  <2>3. CASE call.moved # MaxBytes
    <3>1. /\ call' = [call EXCEPT !.pipe = 0, !.moved = @ + 1, !.idle = IdleTimeout]
          /\ out' = W!Silent
      BY <1>6, <2>3 DEF W!ReceivePiece
    <3>0. call' = [pc |-> call.pc, moved |-> call.moved + 1, pipe |-> 0, sent |-> call.sent,
                   closed |-> call.closed, idle |-> IdleTimeout, elapsed |-> call.elapsed]
      BY <1>0, <2>1, <3>1 DEF InTransit, Moving
    <3>2. Moving(call')  BY <1>0, <2>1, <3>0 DEF InTransit, Moving
    <3>3. /\ call'.moved = call.moved + 1 /\ call'.pipe = 0 /\ call'.sent = call.sent
          /\ call'.elapsed = call.elapsed
      BY <1>0, <2>1, <3>1 DEF InTransit, Moving
    <3>4. call.moved + call.pipe = call.sent
      BY <1>0, <2>1 DEF InTransit
    \* The pipe holds one piece.
    <3>5. call.pipe = 1 /\ call.moved \in Nat  BY <1>0, <2>1 DEF InTransit, Moving
    <3>6. call'.moved + call'.pipe = call'.sent  BY <3>3, <3>4, <3>5
    <3>7. InTransit(call')  BY <1>0, <2>1, <3>2, <3>3, <3>6 DEF InTransit
    <3> QED  BY <3>1, <3>7, NothingRead DEF W!Silent
  <2> QED  BY <2>2, <2>3
<1>7. CASE W!ReceiveEnd
  <2>1. call.pc = "receive" /\ call.pipe = 0 /\ call.closed /\ W!Finish(TRUE)
    BY <1>7, Zenon DEF W!ReceiveEnd
  <2>2. W!Busy  BY <2>1 DEF W!Busy, W!Idle
  <2> QED  BY <2>1, <2>2, Finished
<1>8. CASE W!SendPiece
  <2>1. W!Busy /\ call.pc = "send"  BY <1>8 DEF W!SendPiece, W!Busy, W!Idle
  <2>2. CASE W!Finish(TRUE)
    BY <2>1, <2>2, Finished
  <2>3. CASE call' = [call EXCEPT !.pipe = 1, !.moved = @ + 1, !.idle = IdleTimeout] /\ out' = W!Silent
    <3>0. call' = [pc |-> call.pc, moved |-> call.moved + 1, pipe |-> 1, sent |-> call.sent,
                    closed |-> call.closed, idle |-> IdleTimeout, elapsed |-> call.elapsed]
      BY <1>0, <2>1, <2>3 DEF InTransit, Moving
    <3>1. Moving(call') /\ call'.pc = "send" /\ call'.elapsed = call.elapsed
      BY <1>0, <2>1, <3>0 DEF InTransit, Moving
    <3>2. InTransit(call')  BY <1>0, <2>1, <3>1 DEF InTransit
    <3> QED  BY <2>3, <3>2, NothingRead DEF W!Silent
  <2> QED  BY <1>8, <2>2, <2>3 DEF W!SendPiece
<1>9. CASE W!SendBroken
  <2>1. call.pc = "send" /\ W!Finish(FALSE)  BY <1>9, Zenon DEF W!SendBroken
  <2>2. W!Busy  BY <2>1 DEF W!Busy, W!Idle
  <2> QED  BY <2>1, <2>2, Finished
<1>10. CASE W!TransferTimedOut
  BY <1>10, Finished DEF W!TransferTimedOut
<1>11. CASE W!Tick
  <2>1. /\ W!Busy /\ call.idle > 0 /\ call.elapsed < PipeLimit
        /\ call' = [call EXCEPT !.idle = @ - 1, !.elapsed = @ + 1] /\ out' = W!Silent
    BY <1>11 DEF W!Tick, W!InTime
  <2>0. call' = [pc |-> call.pc, moved |-> call.moved, pipe |-> call.pipe, sent |-> call.sent,
                  closed |-> call.closed, idle |-> call.idle - 1, elapsed |-> call.elapsed + 1]
    BY <1>0, <2>1 DEF InTransit, Moving
  <2>2. Moving(call')  BY <1>0, <2>0, <2>1 DEF InTransit, Moving
  <2>3. /\ call'.pc = call.pc /\ call'.moved = call.moved /\ call'.pipe = call.pipe /\ call'.sent = call.sent
        /\ call'.elapsed = call.elapsed + 1
    BY <1>0, <2>1 DEF InTransit, Moving
  <2>4. call'.elapsed <= PipeLimit  BY <1>0, <2>1, <2>3 DEF InTransit, Moving
  <2>5. InTransit(call')  BY <1>0, <2>1, <2>2, <2>3, <2>4 DEF InTransit
  <2> QED  BY <2>1, <2>5, NothingRead DEF W!Silent
<1>12. CASE W!PeerMoves
  <2>1. W!Busy /\ out' = W!Silent  BY <1>12 DEF W!PeerMoves
  <2>2. CASE call.pc = "receive" /\ call.pipe = 0 /\ call' = [call EXCEPT !.pipe = 1, !.sent = @ + 1]
    <3>0. call' = [pc |-> call.pc, moved |-> call.moved, pipe |-> 1, sent |-> call.sent + 1,
                    closed |-> call.closed, idle |-> call.idle, elapsed |-> call.elapsed]
      BY <1>0, <2>1, <2>2 DEF InTransit, Moving
    <3>1. Moving(call')  BY <1>0, <2>1, <3>0 DEF InTransit, Moving
    <3>2. /\ call'.moved = call.moved /\ call'.pipe = 1 /\ call'.sent = call.sent + 1
          /\ call'.elapsed = call.elapsed
      BY <1>0, <2>1, <2>2 DEF InTransit, Moving
    <3>3. call'.moved + call'.pipe = call'.sent  BY <1>0, <2>1, <2>2, <3>2 DEF InTransit, Moving
    <3>4. InTransit(call')  BY <1>0, <2>1, <3>1, <3>2, <3>3 DEF InTransit
    <3> QED  BY <2>1, <3>4, NothingRead DEF W!Silent
  <2>3. CASE call.pc = "send" /\ call' = [call EXCEPT !.pipe = 0]
    <3>1. Moving(call') /\ call'.pc = "send" /\ call'.elapsed = call.elapsed
      BY <1>0, <2>1, <2>3 DEF InTransit, Moving
    <3>2. InTransit(call')  BY <1>0, <2>1, <3>1 DEF InTransit
    <3> QED  BY <2>1, <3>2, NothingRead DEF W!Silent
  <2>4. CASE call' = [call EXCEPT !.closed = TRUE]
    <3>1. Moving(call')  BY <1>0, <2>1, <2>4 DEF InTransit, Moving
    <3>2. /\ call'.pc = call.pc /\ call'.moved = call.moved /\ call'.pipe = call.pipe /\ call'.sent = call.sent
          /\ call'.elapsed = call.elapsed
      BY <1>0, <2>1, <2>4 DEF InTransit, Moving
    <3>3. InTransit(call')  BY <1>0, <2>1, <3>1, <3>2 DEF InTransit
    <3> QED  BY <2>1, <3>3, NothingRead DEF W!Silent
  <2> QED  BY <1>12, <2>2, <2>3, <2>4 DEF W!PeerMoves
<1>13. CASE UNCHANGED W!vars
  BY <1>13 DEF W!vars, TransferInv, W!Busy, W!ReadIsWhole
<1> QED
  BY <1>1, <1>2, <1>3, <1>4, <1>5, <1>6, <1>7, <1>8, <1>9, <1>10, <1>11, <1>12, <1>13
  DEF W!Next, W!Client, W!Transfers, W!Dispatch

\* text() never returns the part that came before a deadline passed or the limit was
\* reached (receive(), WaylandClipboard.cpp).
THEOREM PasteIsWhole == ASSUME W!TimesAssumption PROVE W!Spec => []W!ReadIsWhole
<1>1. TransferInv => W!ReadIsWhole  BY DEF TransferInv
<1> QED  BY <1>1, TransferInvInit, TransferInvKept, PTL DEF W!Spec

\* A client that trickles does not stall the event thread (receive() and writeAll(),
\* WaylandClipboard.cpp).
THEOREM TransferIsBounded == ASSUME W!TimesAssumption PROVE W!Spec => []W!TransferBounded
<1>1. TransferInv => W!TransferBounded  BY DEF TransferInv, W!TransferBounded, InTransit
<1> QED  BY <1>1, TransferInvInit, TransferInvKept, PTL DEF W!Spec

(* The offers.                                                              *)

\* The events that prune offers_ when they are handled.
Prunes(e) == e.type \in {"leave", "selection"}

\* What the client holds when the first i events are handled is pruned later.
PrunedAfter(i) == dragging \/ \E j \in i + 1 .. Len(events) : Prunes(events[j])

\* The offer is held when the event at n is handled.
HeldAt(o, n) ==
  \/ o \in offers.all /\ \A j \in 1 .. n - 1 : ~Prunes(events[j])
  \/ \E k \in 1 .. n - 1 :
       events[k] = [type |-> "offer", id |-> o] /\ \A j \in k + 1 .. n - 1 : ~Prunes(events[j])

\* The event at i is the last that says what the selection is.
LastSelection(i) ==
  events[i].type = "selection" /\ \A j \in i + 1 .. Len(events) : events[j].type # "selection"

\* offers_ holds the selection's offer; any other is pruned by an event on its way, or was
\* given for the drag that is in progress.
HeldOffers ==
  /\ dragging \in BOOLEAN
  /\ offers = [all |-> offers.all, text |-> offers.text]
  /\ offers.all \subseteq Nat \ {W!NoProxy}
  /\ offered = W!NoProxy \/ offered \in offers.all
  /\ offers.all \subseteq {offered} \/ PrunedAfter(0)

\* Every offer that is announced is pruned again unless the selection is set to it.
OffersOnTheirWay ==
  \A i \in 1 .. Len(events) : events[i].type = "offer" => events[i].id # W!NoProxy /\ PrunedAfter(i)

\* The last selection in the queue is the one announced, and its offer is held when it is
\* handled; with none in the queue the client has it already.
SelectionsOnTheirWay ==
  /\ \A i \in 1 .. Len(events) :
       /\ events[i].type = "selection" => events[i].id = W!NoProxy \/ HeldAt(events[i].id, i)
       /\ LastSelection(i) => events[i].id = announced
  /\ (\A i \in 1 .. Len(events) : events[i].type # "selection") => offered = announced

\* What the client holds, and what the queue will make of it.
OfferInv == WaylandOwnInv /\ HeldOffers /\ OffersOnTheirWay /\ SelectionsOnTheirWay

\* What is left is the queue, an event nearer.
LEMMA Shifted ==
  ASSUME events \in Seq(Event), events # <<>>, events' = Tail(events)
  PROVE  /\ Len(events') \in Nat /\ Len(events) = Len(events') + 1
         /\ events[1] = Head(events)
         /\ \A i \in 1 .. Len(events') : i + 1 \in 1 .. Len(events) /\ events'[i] = events[i + 1]
OBVIOUS

\* What is pruned later is, unless the event that is handled was to do it.
LEMMA PrunedShifts ==
  ASSUME events \in Seq(Event), events # <<>>, events' = Tail(events), dragging' = dragging
  PROVE  /\ \A i \in Nat : PrunedAfter(i + 1) => PrunedAfter(i)'
         /\ PrunedAfter(0) /\ ~Prunes(Head(events)) => PrunedAfter(0)'
<1>1. ASSUME NEW i \in Nat, NEW j \in 2 .. Len(events), j > i + 1, Prunes(events[j]) PROVE PrunedAfter(i)'
  <2>1. j - 1 \in i + 1 .. Len(events') /\ events'[j - 1] = events[j]  BY <1>1, Shifted
  <2> QED  BY <1>1, <2>1 DEF PrunedAfter, Prunes
<1>2. ASSUME NEW i \in Nat, PrunedAfter(i + 1) PROVE PrunedAfter(i)'
  <2>1. CASE dragging
    BY <2>1 DEF PrunedAfter
  <2>2. CASE ~dragging
    <3>1. PICK j \in i + 2 .. Len(events) : Prunes(events[j])  BY <1>2, <2>2 DEF PrunedAfter
    <3>2. j \in 2 .. Len(events) /\ j > i + 1  BY <3>1
    <3> QED  BY <1>1, <3>1, <3>2
  <2> QED  BY <2>1, <2>2
<1>3. ASSUME PrunedAfter(0), ~Prunes(Head(events)) PROVE PrunedAfter(0)'
  <2>1. CASE dragging
    BY <2>1 DEF PrunedAfter
  <2>2. CASE ~dragging
    <3>1. PICK j \in 1 .. Len(events) : Prunes(events[j])  BY <1>3, <2>2 DEF PrunedAfter
    <3>2. j # 1  BY <1>3, <3>1, Shifted
    <3> QED  BY <1>1, <3>1, <3>2
  <2> QED  BY <2>1, <2>2
<1> QED  BY <1>2, <1>3

\* An offer is held when an event is handled, now that the first one has been.
LEMMA HeldShifts ==
  ASSUME events \in Seq(Event), events # <<>>, events' = Tail(events),
         NEW o, NEW n \in 1 .. Len(events'), HeldAt(o, n + 1),
         o \in offers.all /\ ~Prunes(Head(events)) => o \in offers'.all,
         Head(events) = [type |-> "offer", id |-> o] => o \in offers'.all
  PROVE  HeldAt(o, n)'
<1>1. ASSUME NEW k \in 1 .. n, \A j \in k + 1 .. n : ~Prunes(events[j])
      PROVE  \A j \in k .. n - 1 : ~Prunes(events'[j])
  BY <1>1, Shifted
<1>2. CASE o \in offers.all /\ \A j \in 1 .. n : ~Prunes(events[j])
  <2>1. o \in offers'.all  BY <1>2, Shifted
  <2>2. \A j \in 1 .. n - 1 : ~Prunes(events'[j])  BY <1>1, <1>2
  <2> QED  BY <2>1, <2>2 DEF HeldAt, Prunes
<1>3. CASE \E k \in 1 .. n : /\ events[k] = [type |-> "offer", id |-> o]
                             /\ \A j \in k + 1 .. n : ~Prunes(events[j])
  <2>1. PICK k \in 1 .. n : /\ events[k] = [type |-> "offer", id |-> o]
                            /\ \A j \in k + 1 .. n : ~Prunes(events[j])
    BY <1>3
  <2>2. \A j \in k .. n - 1 : ~Prunes(events'[j])  BY <1>1, <2>1
  <2>3. CASE k = 1
    <3>1. o \in offers'.all  BY <2>1, <2>3, Shifted
    <3> QED  BY <2>2, <2>3, <3>1 DEF HeldAt, Prunes
  <2>4. CASE k # 1
    <3>1. k - 1 \in 1 .. n - 1 /\ events'[k - 1] = [type |-> "offer", id |-> o]  BY <2>1, <2>4, Shifted
    <3>2. \A j \in (k - 1) + 1 .. n - 1 : ~Prunes(events'[j])  BY <2>2
    <3> QED  BY <3>1, <3>2 DEF HeldAt, Prunes
  <2> QED  BY <2>3, <2>4
<1> QED  BY <1>2, <1>3, SMTT(60) DEF HeldAt

\* What is on its way stays in order when an event is handled.
LEMMA OffersHandled ==
  ASSUME events \in Seq(Event), events # <<>>, events' = Tail(events), UNCHANGED <<dragging, announced>>,
         OffersOnTheirWay, SelectionsOnTheirWay,
         \A o \in offers.all : ~Prunes(Head(events)) => o \in offers'.all,
         Head(events).type = "offer" => Head(events).id \in offers'.all,
         Head(events).type # "selection" => offered' = offered,
         LastSelection(1) => offered' = announced
  PROVE  OffersOnTheirWay' /\ SelectionsOnTheirWay'
<1>1. ASSUME NEW i \in 1 .. Len(events'), events'[i].type = "offer"
      PROVE  events'[i].id # W!NoProxy /\ PrunedAfter(i)'
  <2>1. i + 1 \in 1 .. Len(events) /\ events'[i] = events[i + 1] /\ i \in Nat  BY Shifted
  <2>2. events[i + 1].id # W!NoProxy /\ PrunedAfter(i + 1)  BY <1>1, <2>1 DEF OffersOnTheirWay
  <2> QED  BY <2>1, <2>2, PrunedShifts
<1>2. ASSUME NEW i \in 1 .. Len(events'), events'[i].type = "selection"
      PROVE  events'[i].id = W!NoProxy \/ HeldAt(events[i].id, i)'
  <2>1. PICK o : o = events'[i].id  OBVIOUS
  <2>2. i + 1 \in 1 .. Len(events) /\ events'[i] = events[i + 1]  BY Shifted
  <2>3. o = W!NoProxy \/ HeldAt(o, i + 1)  BY <1>2, <2>1, <2>2 DEF SelectionsOnTheirWay
  <2>4. Head(events) = [type |-> "offer", id |-> o] => o \in offers'.all  OBVIOUS
  <2>5. o \in offers.all /\ ~Prunes(Head(events)) => o \in offers'.all  OBVIOUS
  <2>6. o = W!NoProxy \/ HeldAt(o, i)'  BY <2>3, <2>4, <2>5, HeldShifts
  <2> QED  BY <2>1, <2>6 DEF HeldAt
<1>3. ASSUME NEW i \in 1 .. Len(events'), LastSelection(i)'
      PROVE  events'[i].id = announced'
  <2>1. i + 1 \in 1 .. Len(events) /\ events'[i] = events[i + 1]  BY Shifted
  <2>2. \A j \in i + 2 .. Len(events) : events[j].type # "selection"
    <3> TAKE j \in i + 2 .. Len(events)
    <3>1. j - 1 \in i + 1 .. Len(events') /\ events'[j - 1] = events[j]  BY Shifted
    <3> QED  BY <1>3, <3>1 DEF LastSelection
  <2>3. LastSelection(i + 1)  BY <1>3, <2>1, <2>2 DEF LastSelection
  <2> QED  BY <2>1, <2>3 DEF SelectionsOnTheirWay
<1>4. ASSUME \A i \in 1 .. Len(events') : events'[i].type # "selection"
      PROVE  offered' = announced'
  <2>1. \A j \in 2 .. Len(events) : events[j].type # "selection"
    <3> TAKE j \in 2 .. Len(events)
    <3>1. j - 1 \in 1 .. Len(events') /\ events'[j - 1] = events[j]  BY Shifted
    <3> QED  BY <1>4, <3>1
  <2>2. CASE events[1].type = "selection"
    BY <2>1, <2>2 DEF LastSelection
  <2>3. CASE events[1].type # "selection"
    <3>1. \A j \in 1 .. Len(events) : events[j].type # "selection"  BY <2>1, <2>3
    <3>2. offered = announced  BY <3>1 DEF SelectionsOnTheirWay
    <3> QED  BY <2>3, <3>2, Shifted
  <2> QED  BY <2>2, <2>3
<1>5. OffersOnTheirWay'  BY <1>1 DEF OffersOnTheirWay
<1>6. SelectionsOnTheirWay'  BY <1>2, <1>3, <1>4 DEF SelectionsOnTheirWay
<1> QED  BY <1>5, <1>6

\* What is sent comes after what is in the queue.
LEMMA Sent ==
  ASSUME events \in Seq(Event), NEW es \in Seq(Event), W!Send(es)
  PROVE  /\ Len(events) \in Nat /\ Len(es) \in Nat /\ Len(events') = Len(events) + Len(es)
         /\ \A i \in 1 .. Len(events) : i \in 1 .. Len(events') /\ events'[i] = events[i]
         /\ \A i \in 1 .. Len(es) : Len(events) + i \in 1 .. Len(events') /\ events'[Len(events) + i] = es[i]
         /\ \A i \in 1 .. Len(events') :
              i \in 1 .. Len(events) \/ (i - Len(events) \in 1 .. Len(es) /\ events'[i] = es[i - Len(events)])
<1>1. events' = events \o es  BY DEF W!Send
<1>2. Len(events) \in Nat /\ Len(es) \in Nat /\ Len(events') = Len(events) + Len(es)  BY <1>1
<1>3. \A i \in 1 .. Len(events) : i \in 1 .. Len(events') /\ events'[i] = events[i]  BY <1>1
<1>4. \A i \in 1 .. Len(es) : Len(events) + i \in 1 .. Len(events') /\ events'[Len(events) + i] = es[i]
  BY <1>1
<1>5. \A i \in 1 .. Len(events') :
        i \in 1 .. Len(events) \/ (i - Len(events) \in 1 .. Len(es) /\ events'[i] = es[i - Len(events)])
  <2> TAKE i \in 1 .. Len(events')
  <2> SUFFICES ASSUME i \notin 1 .. Len(events)
               PROVE  i - Len(events) \in 1 .. Len(es) /\ events'[i] = es[i - Len(events)]
    OBVIOUS
  <2>1. i - Len(events) \in 1 .. Len(es) /\ Len(events) + (i - Len(events)) = i  BY <1>2
  <2> QED  BY <1>4, <2>1
<1> QED  BY <1>2, <1>3, <1>4, <1>5

\* An offer that is sent is pruned later, and a selection is of an offer sent with it.
WellSent(es, over) ==
  /\ \A i \in 1 .. Len(es) : es[i].type = "offer" =>
       es[i].id # W!NoProxy /\ (over \/ \E j \in i + 1 .. Len(es) : Prunes(es[j]))
  /\ \A i \in 1 .. Len(es) : es[i].type = "selection" =>
       \/ es[i].id = W!NoProxy
       \/ \E k \in 1 .. i - 1 : es[k] = [type |-> "offer", id |-> es[i].id] /\ \A j \in k + 1 .. i - 1 : ~Prunes(es[j])

\* The compositor sends what keeps the queue in order: a drag that ends is followed by an event that
\* prunes its offer, and what is announced is announced last.
LEMMA OffersSent ==
  ASSUME events \in Seq(Event), NEW es \in Seq(Event), W!Send(es), UNCHANGED W!seen,
         NEW over \in BOOLEAN, dragging' = over, WellSent(es, over),
         dragging => over \/ \E i \in 1 .. Len(es) : Prunes(es[i]),
         \/ announced' = announced /\ \A i \in 1 .. Len(es) : es[i].type # "selection"
         \/ /\ \E i \in 1 .. Len(es) : es[i].type = "selection"
            /\ \A i \in 1 .. Len(es) : es[i].type = "selection" => es[i].id = announced',
         HeldOffers, OffersOnTheirWay, SelectionsOnTheirWay
  PROVE  HeldOffers' /\ OffersOnTheirWay' /\ SelectionsOnTheirWay'
<1>q. Len(events) \in Nat /\ Len(es) \in Nat /\ Len(events') = Len(events) + Len(es)  BY Sent
<1>o. \A i \in 1 .. Len(events) : i \in 1 .. Len(events') /\ events'[i] = events[i]  BY Sent
<1>s. \A i \in 1 .. Len(es) : Len(events) + i \in 1 .. Len(events') /\ events'[Len(events) + i] = es[i]  BY Sent
<1>r. \A i \in 1 .. Len(events') : i \in 1 .. Len(events) \/ (i - Len(events) \in 1 .. Len(es) /\ events'[i] = es[i - Len(events)])
  BY Sent
<1>1. ASSUME NEW i \in Nat, i <= Len(events), PrunedAfter(i) PROVE PrunedAfter(i)'
  <2>1. CASE dragging /\ ~over
    <3>1. PICK k \in 1 .. Len(es) : Prunes(es[k])  BY <2>1
    <3>2. Len(events) + k \in i + 1 .. Len(events') /\ events'[Len(events) + k] = es[k]  BY <1>1, <1>q, <1>o, <1>s, <1>r
    <3> QED  BY <3>1, <3>2 DEF PrunedAfter, Prunes
  <2>2. CASE over
    BY <2>2 DEF PrunedAfter
  <2>3. CASE ~dragging
    <3>1. PICK j \in i + 1 .. Len(events) : Prunes(events[j])  BY <1>1, <2>3 DEF PrunedAfter
    <3>2. j \in i + 1 .. Len(events') /\ events'[j] = events[j]  BY <1>1, <3>1, <1>q, <1>o, <1>s, <1>r
    <3> QED  BY <3>1, <3>2 DEF PrunedAfter, Prunes
  <2> QED  BY <2>1, <2>2, <2>3
<1>2. HeldOffers'
  <2>1. PrunedAfter(0) => PrunedAfter(0)'  BY <1>1, <1>q, <1>o, <1>s, <1>r
  <2> QED  BY <2>1 DEF HeldOffers, W!seen
<1>3. OffersOnTheirWay'
  <2> SUFFICES ASSUME NEW i \in 1 .. Len(events'), events'[i].type = "offer"
               PROVE  events'[i].id # W!NoProxy /\ PrunedAfter(i)'
    BY DEF OffersOnTheirWay
  <2>1. CASE i \in 1 .. Len(events)
    <3>1. events'[i] = events[i] /\ i \in Nat /\ i <= Len(events)  BY <2>1, <1>q, <1>o, <1>s, <1>r
    <3>2. events[i].id # W!NoProxy /\ PrunedAfter(i)  BY <2>1, <3>1 DEF OffersOnTheirWay
    <3> QED  BY <1>1, <3>1, <3>2
  <2>2. CASE i \notin 1 .. Len(events)
    <3> DEFINE m == i - Len(events)
    <3>1. m \in 1 .. Len(es) /\ events'[i] = es[m]  BY <2>2, <1>q, <1>o, <1>s, <1>r
    <3>2. es[m].id # W!NoProxy /\ (over \/ \E j \in m + 1 .. Len(es) : Prunes(es[j]))
      BY <3>1 DEF WellSent
    <3>3. CASE over
      BY <3>1, <3>2, <3>3 DEF PrunedAfter
    <3>4. CASE ~over
      <4>1. PICK j \in m + 1 .. Len(es) : Prunes(es[j])  BY <3>2, <3>4
      <4>2. j \in 1 .. Len(es)  BY <3>1, <4>1, <1>q, <1>o, <1>s, <1>r
      <4>3. Len(events) + j \in i + 1 .. Len(events') /\ events'[Len(events) + j] = es[j]  BY <4>1, <4>2, <1>q, <1>o, <1>s, <1>r
      <4> QED  BY <3>1, <3>2, <4>1, <4>3 DEF PrunedAfter, Prunes
    <3> QED  BY <3>3, <3>4
  <2> QED  BY <2>1, <2>2
<1>4. ASSUME NEW i \in 1 .. Len(events'), events'[i].type = "selection"
      PROVE  events'[i].id = W!NoProxy \/ HeldAt(events[i].id, i)'
  <2>1. CASE i \in 1 .. Len(events)
    <3>1. events'[i] = events[i]  BY <2>1, <1>o
    <3>2. \A j \in 1 .. i - 1 : events'[j] = events[j]
      <4> TAKE j \in 1 .. i - 1
      <4>1. j \in 1 .. Len(events)  BY <2>1, <1>q
      <4> QED  BY <4>1, <1>o
    <3>3. events[i].id = W!NoProxy \/ HeldAt(events[i].id, i)
      BY <1>4, <2>1, <3>1 DEF SelectionsOnTheirWay
    <3>4. CASE events[i].id \in offers.all /\ \A j \in 1 .. i - 1 : ~Prunes(events[j])
      <4>1. offers' = offers /\ \A j \in 1 .. i - 1 : ~Prunes(events'[j])  BY <3>2, <3>4 DEF W!seen
      <4> QED  BY <3>1, <3>4, <4>1 DEF HeldAt, Prunes
    <3>5. CASE \E k \in 1 .. i - 1 : /\ events[k] = [type |-> "offer", id |-> events[i].id]
                                    /\ \A j \in k + 1 .. i - 1 : ~Prunes(events[j])
      <4>1. PICK k \in 1 .. i - 1 : /\ events[k] = [type |-> "offer", id |-> events[i].id]
                                    /\ \A j \in k + 1 .. i - 1 : ~Prunes(events[j])
        BY <3>5
      <4>2. events'[k] = [type |-> "offer", id |-> events'[i].id]  BY <3>1, <3>2, <4>1
      <4>3. \A j \in k + 1 .. i - 1 : ~Prunes(events'[j])  BY <3>2, <4>1
      <4> QED  BY <4>2, <4>3 DEF HeldAt, Prunes
    <3> QED  BY <3>1, <3>3, <3>4, <3>5 DEF HeldAt
  <2>2. CASE i \notin 1 .. Len(events)
    <3> DEFINE m == i - Len(events)
    <3>1. m \in 1 .. Len(es) /\ events'[i] = es[m] /\ Len(events) \in Nat  BY <2>2, <1>q, <1>o, <1>s, <1>r
    <3>2. CASE es[m].id # W!NoProxy
      <4>1. PICK k \in 1 .. m - 1 :
              es[k] = [type |-> "offer", id |-> es[m].id] /\ \A j \in k + 1 .. m - 1 : ~Prunes(es[j])
        BY <1>4, <3>1, <3>2 DEF WellSent
      <4>2. k \in 1 .. Len(es) /\ Len(events) + k \in 1 .. i - 1  BY <3>1, <4>1, <1>q, <1>o, <1>s, <1>r
      <4>3. events'[Len(events) + k] = [type |-> "offer", id |-> events'[i].id]  BY <3>1, <4>1, <4>2, <1>q, <1>o, <1>s, <1>r
      <4>4. \A j \in (Len(events) + k) + 1 .. i - 1 : ~Prunes(events'[j])
        <5> TAKE j \in (Len(events) + k) + 1 .. i - 1
        <5>1. j - Len(events) \in k + 1 .. m - 1 /\ j - Len(events) \in 1 .. Len(es)  BY <3>1, <4>1, <1>q, <1>o, <1>s, <1>r
        <5>2. events'[Len(events) + (j - Len(events))] = es[j - Len(events)]  BY <5>1, <1>q, <1>o, <1>s, <1>r
        <5>3. Len(events) + (j - Len(events)) = j  BY <3>1
        <5> QED  BY <4>1, <5>1, <5>2, <5>3
      <4> QED  BY <4>2, <4>3, <4>4 DEF HeldAt, Prunes
    <3> QED  BY <3>1, <3>2
  <2> QED  BY <2>1, <2>2
<1>5. ASSUME \A i \in 1 .. Len(es) : es[i].type # "selection", announced' = announced
      PROVE  /\ \A i \in 1 .. Len(events') : LastSelection(i)' => events'[i].id = announced'
             /\ (\A i \in 1 .. Len(events') : events'[i].type # "selection") => offered' = announced'
  <2>1. ASSUME NEW i \in 1 .. Len(events'), LastSelection(i)' PROVE events'[i].id = announced'
    <3>1. i \in 1 .. Len(events) /\ events'[i] = events[i]  BY <1>5, <2>1, <1>q, <1>o, <1>s, <1>r DEF LastSelection
    <3>2. \A j \in i + 1 .. Len(events) : j \in i + 1 .. Len(events') /\ events'[j] = events[j]
      BY <3>1, <1>q, <1>o, <1>s, <1>r
    <3>3. LastSelection(i)  BY <2>1, <3>1, <3>2 DEF LastSelection
    <3> QED  BY <1>5, <3>1, <3>3 DEF SelectionsOnTheirWay
  <2>2. ASSUME \A i \in 1 .. Len(events') : events'[i].type # "selection" PROVE offered' = announced'
    <3>1. \A i \in 1 .. Len(events) : events[i].type # "selection"  BY <2>2, <1>q, <1>o, <1>s, <1>r
    <3> QED  BY <1>5, <3>1 DEF SelectionsOnTheirWay, W!seen
  <2> QED  BY <2>1, <2>2
<1>6. ASSUME NEW k \in 1 .. Len(es), es[k].type = "selection",
             \A i \in 1 .. Len(es) : es[i].type = "selection" => es[i].id = announced'
      PROVE  /\ \A i \in 1 .. Len(events') : LastSelection(i)' => events'[i].id = announced'
             /\ (\A i \in 1 .. Len(events') : events'[i].type # "selection") => offered' = announced'
  <2>1. Len(events) + k \in 1 .. Len(events') /\ events'[Len(events) + k].type = "selection"
    BY <1>6, <1>q, <1>o, <1>s, <1>r
  <2>2. ASSUME NEW i \in 1 .. Len(events'), LastSelection(i)' PROVE events'[i].id = announced'
    <3>1. i \notin 1 .. Len(events)
      <4>1. SUFFICES ASSUME i \in 1 .. Len(events) PROVE FALSE
        OBVIOUS
      <4>2. Len(events) + k \in i + 1 .. Len(events')  BY <2>1, <4>1, <1>q, <1>o, <1>s, <1>r
      <4> QED  BY <2>1, <2>2, <4>2 DEF LastSelection
    <3>2. i - Len(events) \in 1 .. Len(es) /\ events'[i] = es[i - Len(events)]  BY <3>1, <1>q, <1>o, <1>s, <1>r
    <3>3. events'[i].type = "selection"  BY <2>2 DEF LastSelection
    <3> QED  BY <1>6, <3>2, <3>3
  <2> QED  BY <2>1, <2>2
<1>7. SelectionsOnTheirWay'
  BY <1>4, <1>5, <1>6 DEF SelectionsOnTheirWay
<1> QED  BY <1>2, <1>3, <1>7

\* A clipboard begins without an offer, and nothing on its way.
LEMMA OfferInvInit == W!Init => OfferInv
<1> SUFFICES ASSUME W!Init PROVE OfferInv
  OBVIOUS
<1>1. dragging \in BOOLEAN  BY DEF W!Init
<1>2. offers = [all |-> {}, text |-> {}] /\ offered = W!NoProxy /\ announced = W!NoProxy /\ events = <<>>
  BY DEF W!Init
<1>3. HeldOffers  BY <1>1, <1>2 DEF HeldOffers
<1>4. OffersOnTheirWay /\ SelectionsOnTheirWay  BY <1>2 DEF OffersOnTheirWay, SelectionsOnTheirWay
<1> QED  BY <1>3, <1>4, WaylandOwnInvInit DEF OfferInv

\* pruneOffers() keeps the selection's offer, and the events about offers are handled in the order
\* in which the compositor sent them.
LEMMA OfferInvKept == OfferInv /\ [W!Next]_W!vars => OfferInv'
<1> SUFFICES ASSUME OfferInv, [W!Next]_W!vars PROVE OfferInv'
  OBVIOUS
<1>0. WaylandOwnInv' /\ events \in Seq(Event) /\ made \in [sources : Nat, offers : Nat]
  BY WaylandOwnInvKept DEF OfferInv, WaylandOwnInv
<1>i. HeldOffers /\ OffersOnTheirWay /\ SelectionsOnTheirWay  BY DEF OfferInv
<1> SUFFICES HeldOffers' /\ OffersOnTheirWay' /\ SelectionsOnTheirWay'
  BY <1>0 DEF OfferInv
<1>1. ASSUME UNCHANGED <<W!seen, announced, dragging, events>>
      PROVE  HeldOffers' /\ OffersOnTheirWay' /\ SelectionsOnTheirWay'
  BY <1>1, <1>i DEF W!seen, HeldOffers, OffersOnTheirWay, SelectionsOnTheirWay, PrunedAfter, HeldAt, LastSelection, Prunes
<1>2. CASE W!AdoptManager \/ W!AttachSeat \/ W!SetText \/ W!TextAtOnce \/ W!TextOfTheirs \/ W!Transfers \/ UNCHANGED W!vars
  <2>1. UNCHANGED <<W!seen, announced, dragging, events>>
    BY <1>2 DEF W!AdoptManager, W!AttachSeat, W!SetText, W!TextAtOnce, W!TextOfTheirs, W!Transfers, W!ReceivePiece, W!ReceiveEnd,
       W!SendPiece, W!SendBroken, W!TransferTimedOut, W!Tick, W!PeerMoves, W!Aside, W!compositor, W!vars
  <2> QED  BY <1>1, <2>1
<1>3. CASE W!DetachSeat
  <2>1. /\ events' = <<>> /\ announced' = W!NoProxy /\ offered' = W!NoProxy
        /\ offers' = [all |-> {}, text |-> {}]
    BY <1>3 DEF W!DetachSeat
  <2>2. dragging' \in BOOLEAN  BY <1>3 DEF W!DetachSeat
  <2>3. HeldOffers'  BY <2>1, <2>2 DEF HeldOffers
  <2> QED  BY <2>1, <2>3 DEF OffersOnTheirWay, SelectionsOnTheirWay
<1>4. CASE W!HandleOfferMime \/ W!HandleSourceSend \/ W!HandleSourceCancelled
  <2>1. /\ events # <<>> /\ events' = Tail(events) /\ Head(events).type \notin {"offer", "leave", "selection"}
        /\ UNCHANGED <<dragging, announced, offered>>
    BY <1>4 DEF W!HandleOfferMime, W!HandleSourceSend, W!HandleSourceCancelled, W!Handle, W!compositor, W!seen
  <2>2. offers' = offers \/ offers' = [offers EXCEPT !.text = @ \cup ({W!It} \cap offers.all)]
    BY <1>4 DEF W!HandleOfferMime, W!HandleSourceSend, W!HandleSourceCancelled, W!seen
  <2>3. offers' = [all |-> offers.all, text |-> offers'.text]  BY <1>i, <2>2 DEF HeldOffers
  <2>4. ~Prunes(Head(events)) /\ ~LastSelection(1)  BY <1>0, <2>1, Shifted DEF Prunes, LastSelection
  <2>5. OffersOnTheirWay' /\ SelectionsOnTheirWay'
    BY <1>0, <1>i, <2>1, <2>3, <2>4, OffersHandled
  <2>6. HeldOffers'  BY <1>0, <1>i, <2>1, <2>3, <2>4, PrunedShifts DEF HeldOffers
  <2> QED  BY <2>5, <2>6
<1>5. CASE W!HandleDataOffer
  <2>1. /\ events # <<>> /\ events' = Tail(events) /\ Head(events).type = "offer"
        /\ offers' = [offers EXCEPT !.all = @ \cup {Head(events).id}]
        /\ UNCHANGED <<dragging, announced, offered>>
    BY <1>5 DEF W!HandleDataOffer, W!Handle, W!It, W!compositor
  <2>2. offers' = [all |-> offers.all \cup {Head(events).id}, text |-> offers.text]
    BY <1>i, <2>1 DEF HeldOffers
  <2>3. ~Prunes(Head(events)) /\ ~LastSelection(1)  BY <1>0, <2>1, Shifted DEF Prunes, LastSelection
  <2>4. OffersOnTheirWay' /\ SelectionsOnTheirWay'
    BY <1>0, <1>i, <2>1, <2>2, <2>3, OffersHandled
  <2>5. Head(events).id \in Nat \ {W!NoProxy} /\ PrunedAfter(1)
    <3>1. 1 \in 1 .. Len(events) /\ events[1] = Head(events) /\ Head(events) \in Event
      BY <1>0, <2>1
    <3> QED  BY <1>i, <2>1, <3>1 DEF OffersOnTheirWay, Event
  <2>6. PrunedAfter(0)'  BY <1>0, <2>1, <2>5, PrunedShifts
  <2>7. HeldOffers'  BY <1>i, <2>1, <2>2, <2>5, <2>6 DEF HeldOffers
  <2> QED  BY <2>4, <2>7
<1>6. CASE W!HandleDragOver
  <2>1. /\ events # <<>> /\ events' = Tail(events) /\ Head(events).type = "leave"
        /\ offers' = [all |-> offers.all \cap {offered}, text |-> offers.text \cap {offered}]
        /\ UNCHANGED <<dragging, announced, offered>>
    BY <1>6 DEF W!HandleDragOver, W!PruneOffers, W!Handle, W!compositor
  <2>2. Prunes(Head(events)) /\ ~LastSelection(1)  BY <1>0, <2>1, Shifted DEF Prunes, LastSelection
  <2>3. OffersOnTheirWay' /\ SelectionsOnTheirWay'
    BY <1>0, <1>i, <2>1, <2>2, OffersHandled
  <2>4. HeldOffers'  BY <1>i, <2>1 DEF HeldOffers
  <2> QED  BY <2>3, <2>4
<1>7. CASE W!HandleSelection
  <2>1. /\ events # <<>> /\ events' = Tail(events) /\ Head(events).type = "selection"
        /\ offered' = IF Head(events).id \in offers.all THEN Head(events).id ELSE W!NoProxy
        /\ offers' = [all |-> offers.all \cap {offered'}, text |-> offers.text \cap {offered'}]
        /\ UNCHANGED <<dragging, announced>>
    BY <1>7 DEF W!HandleSelection, W!PruneOffers, W!Handle, W!It, W!compositor
  <2>2. Prunes(Head(events)) /\ 1 \in 1 .. Len(events) /\ events[1] = Head(events)
    BY <1>0, <2>1 DEF Prunes
  <2>3. Head(events).id = W!NoProxy \/ HeldAt(Head(events).id, 1)
    BY <1>i, <2>1, <2>2 DEF SelectionsOnTheirWay
  <2>4. Head(events).id = W!NoProxy \/ Head(events).id \in offers.all  BY <2>3 DEF HeldAt
  <2>5. offered' = Head(events).id  BY <2>1, <2>4
  <2>6. LastSelection(1) => offered' = announced  BY <1>i, <2>2, <2>5 DEF SelectionsOnTheirWay
  <2>7. OffersOnTheirWay' /\ SelectionsOnTheirWay'
    BY <1>0, <1>i, <2>1, <2>2, <2>6, OffersHandled
  <2>8. HeldOffers'  BY <1>i, <2>1 DEF HeldOffers
  <2> QED  BY <2>7, <2>8
<1>8. ASSUME NEW es \in {<<>>, <<Cancelled(source)>>, <<[type |-> "send", id |-> source]>>}, W!Send(es),
             UNCHANGED <<W!seen, announced, dragging>>
      PROVE  HeldOffers' /\ OffersOnTheirWay' /\ SelectionsOnTheirWay'
  <2>1. Cancelled(source) \in Event /\ [type |-> "send", id |-> source] \in Event
    BY DEF OfferInv, WaylandOwnInv, Event, Cancelled
  <2>2. /\ <<>> \in Seq(Event)
        /\ <<Cancelled(source)>> \in Seq(Event)
        /\ <<[type |-> "send", id |-> source]>> \in Seq(Event)
    BY <2>1
  <2>3. es \in Seq(Event)  BY <1>8, <2>2, Zenon
  <2>4. \A i \in 1 .. Len(es) : es[i].type \in {"cancelled", "send"}  BY <1>8 DEF Cancelled
  <2>5. WellSent(es, dragging) /\ dragging \in BOOLEAN  BY <1>i, <2>4 DEF WellSent, HeldOffers
  <2> QED  BY <1>0, <1>i, <1>8, <2>3, <2>4, <2>5, OffersSent
<1>9. CASE W!TheyCopy \/ W!TheyPaste
  <2>1. UNCHANGED <<W!seen, announced, dragging>>  BY <1>9 DEF W!TheyCopy, W!TheyPaste, W!compositor
  <2>2. W!Send(<<>>) \/ W!Send(<<Cancelled(source)>>) \/ W!Send(<<[type |-> "send", id |-> source]>>)
    BY <1>9 DEF W!TheyCopy, W!TheyPaste, Cancelled
  <2> QED  BY <1>8, <2>1, <2>2
<1>10. CASE W!AnnounceSelection
  <2>1. /\ made' = [made EXCEPT !.offers = @ + 1] /\ announced' = made'.offers
        /\ UNCHANGED <<W!seen, dragging>>
        /\ \/ W!Send(<<W!TheOffer, W!ItsFormat, W!Selected(announced')>>)
           \/ W!Send(<<W!TheOffer, W!Selected(announced')>>)
    BY <1>10 DEF W!AnnounceSelection, W!NewOffer
  <2>2. made'.offers \in Nat /\ made'.offers # W!NoProxy  BY <1>0, <2>1 DEF W!NoProxy
  <2>3. W!TheOffer \in Event /\ W!ItsFormat \in Event /\ W!Selected(announced') \in Event
    BY <2>1, <2>2 DEF W!TheOffer, W!ItsFormat, W!Selected, Event
  <2>4. /\ W!TheOffer = [type |-> "offer", id |-> announced'] /\ W!ItsFormat.type = "mime"
        /\ W!Selected(announced') = [type |-> "selection", id |-> announced']
    BY <2>1 DEF W!TheOffer, W!ItsFormat, W!Selected
  <2>5. ASSUME NEW es \in {<<W!TheOffer, W!ItsFormat, W!Selected(announced')>>, <<W!TheOffer, W!Selected(announced')>>}, W!Send(es)
        PROVE  HeldOffers' /\ OffersOnTheirWay' /\ SelectionsOnTheirWay'
    <3>1. es \in Seq(Event)
      <4>1. <<W!TheOffer, W!ItsFormat, W!Selected(announced')>> \in Seq(Event)  BY <2>3
      <4>2. <<W!TheOffer, W!Selected(announced')>> \in Seq(Event)  BY <2>3
      <4> QED  BY <2>5, <4>1, <4>2, Zenon
    <3>2. /\ Len(es) \in 2 .. 3 /\ es[1] = W!TheOffer /\ es[Len(es)] = W!Selected(announced')
          /\ \A i \in 1 .. Len(es) : i = 1 \/ i = Len(es) \/ (i = 2 /\ es[i] = W!ItsFormat)
      <4>1. CASE es = <<W!TheOffer, W!ItsFormat, W!Selected(announced')>>
        BY <4>1
      <4>2. CASE es = <<W!TheOffer, W!Selected(announced')>>
        BY <4>2
      <4> QED  BY <2>5, <4>1, <4>2, Zenon
    <3>3. ~Prunes(W!ItsFormat) /\ Prunes(W!Selected(announced'))  BY <2>4 DEF Prunes
    <3>4. \A i \in 1 .. Len(es) : es[i].type = "offer" =>
            es[i].id # W!NoProxy /\ \E j \in i + 1 .. Len(es) : Prunes(es[j])
      BY <2>1, <2>2, <2>4, <3>2, <3>3, SMTT(60)
    <3>5. \A i \in 1 .. Len(es) : es[i].type = "selection" => i = Len(es)
      BY <2>4, <3>2
    <3>6. es[1] = [type |-> "offer", id |-> es[Len(es)].id]  BY <2>4, <3>2
    <3>7. \A j \in 2 .. Len(es) - 1 : ~Prunes(es[j])  BY <3>2, <3>3
    <3>8. WellSent(es, dragging)
      <4>1. 1 \in 1 .. Len(es) - 1  BY <3>2
      <4> QED  BY <3>4, <3>5, <3>6, <3>7, <4>1 DEF WellSent
    <3>9. Len(es) \in 1 .. Len(es) /\ es[Len(es)].type = "selection" /\ es[Len(es)].id = announced'
      BY <2>4, <3>2
    <3>10. dragging \in BOOLEAN /\ dragging' = dragging  BY <1>i, <2>1 DEF HeldOffers
    <3> QED  BY <1>0, <1>i, <2>1, <2>5, <3>1, <3>5, <3>8, <3>9, <3>10, OffersSent
  <2> QED  BY <2>1, <2>5
<1>11. CASE W!AnnounceNothing
  <2>1. /\ announced' = W!NoProxy /\ W!Send(<<W!Selected(W!NoProxy)>>)
        /\ UNCHANGED <<W!seen, dragging>>
    BY <1>11 DEF W!AnnounceNothing
  <2> DEFINE es == <<W!Selected(W!NoProxy)>>
  <2>2. es \in Seq(Event) /\ Len(es) = 1 /\ es[1].type = "selection" /\ es[1].id = W!NoProxy
    BY DEF W!Selected, Event, W!NoProxy
  <2>3. WellSent(es, dragging) /\ dragging \in BOOLEAN  BY <1>i, <2>2 DEF WellSent, HeldOffers
  <2>4. 1 \in 1 .. Len(es) /\ \A i \in 1 .. Len(es) : i = 1  BY <2>2
  <2>5. W!Send(es) /\ dragging' = dragging /\ announced' = W!NoProxy /\ UNCHANGED W!seen  BY <2>1
  <2> HIDE DEF es
  <2> QED  BY <1>0, <1>i, <2>2, <2>3, <2>4, <2>5, OffersSent
<1>12. CASE W!DragEnters
  <2>1. /\ made' = [made EXCEPT !.offers = @ + 1] /\ dragging' = TRUE
        /\ W!Send(<<W!TheOffer, W!ItsFormat>>) /\ UNCHANGED <<W!seen, announced>>
    BY <1>12 DEF W!DragEnters, W!NewOffer
  <2> DEFINE es == <<W!TheOffer, W!ItsFormat>>
  <2>2. made'.offers \in Nat /\ made'.offers # W!NoProxy  BY <1>0, <2>1 DEF W!NoProxy
  <2>3. W!TheOffer \in Event /\ W!ItsFormat \in Event  BY <2>2 DEF W!TheOffer, W!ItsFormat, Event
  <2>4. es \in Seq(Event) /\ \A i \in 1 .. Len(es) : es[i].type # "selection" /\ es[i].id # W!NoProxy
    BY <2>2, <2>3 DEF W!TheOffer, W!ItsFormat
  <2>5. W!Send(es) /\ dragging' = TRUE /\ announced' = announced /\ UNCHANGED W!seen  BY <2>1
  <2> HIDE DEF es
  <2>6. WellSent(es, TRUE)  BY <2>4 DEF WellSent
  <2> QED  BY <1>0, <1>i, <2>4, <2>5, <2>6, OffersSent
<1>13. CASE W!DragLeaves
  <2>1. dragging' = FALSE /\ W!Send(<<[type |-> "leave"]>>) /\ UNCHANGED <<W!seen, announced>>
    BY <1>13 DEF W!DragLeaves
  <2> DEFINE es == <<[type |-> "leave"]>>
  <2>2. es \in Seq(Event) /\ Len(es) = 1 /\ \A i \in 1 .. Len(es) : es[i].type = "leave"
    BY DEF Event
  <2>3. W!Send(es) /\ dragging' = FALSE /\ announced' = announced /\ UNCHANGED W!seen  BY <2>1
  <2> HIDE DEF es
  <2>4. WellSent(es, FALSE) /\ 1 \in 1 .. Len(es) /\ Prunes(es[1])  BY <2>2 DEF WellSent, Prunes
  <2> QED  BY <1>0, <1>i, <2>2, <2>3, <2>4, OffersSent
<1> QED
  BY <1>2, <1>3, <1>4, <1>5, <1>6, <1>7, <1>9, <1>10, <1>11, <1>12, <1>13
  DEF W!Next, W!Client, W!Dispatch, W!Compositor

\* An empty queue prunes nothing later, and has no selection in it.
LEMMA OfferInvFollows == OfferInv => W!OffersFollowSelection
<1> SUFFICES ASSUME OfferInv, events = <<>>
             PROVE  offered = announced /\ (dragging \/ offers.all = {offered} \ {W!NoProxy})
  BY DEF W!OffersFollowSelection
<1>1. offered = announced  BY DEF OfferInv, SelectionsOnTheirWay
<1>2. dragging \/ offers.all \subseteq {offered}  BY DEF OfferInv, HeldOffers, PrunedAfter
<1>3. offered = W!NoProxy \/ offered \in offers.all  BY DEF OfferInv, HeldOffers
<1>4. W!NoProxy \notin offers.all  BY DEF OfferInv, HeldOffers
<1> QED  BY <1>1, <1>2, <1>3, <1>4

\* Once the client has handled what the compositor sent, selection_ is the offer of the selection,
\* and every other offer but a drag's has been destroyed (handleSelection() and pruneOffers(),
\* WaylandClipboard.cpp).
THEOREM SelectionIsFollowed == W!Spec => []W!OffersFollowSelection
BY OfferInvInit, OfferInvKept, OfferInvFollows, PTL DEF W!Spec


(* The formats of an offer.                                                 *)

\* A format comes right behind the offer it is of, and the last selection right behind the
\* format of the offer it is, if that offer has one.
FormatsOnTheirWay ==
  /\ \A i \in 1 .. Len(events) : events[i].type = "mime" =>
       IF i = 1 THEN events[1].id \in offers.all ELSE events[i - 1] = [type |-> "offer", id |-> events[i].id]
  /\ readable => \A i \in 1 .. Len(events) : LastSelection(i) =>
       IF i = 1 THEN announced \in offers.text ELSE events[i - 1] = [type |-> "mime", id |-> announced]
  /\ readable /\ W!CaughtUp => announced \in offers.text

\* A call reads the offer it began with.
ReadsHeld == W!Busy /\ call.pc = "receive" => offered \in offers.text /\ source = W!NoProxy

\* Text of this client goes with a source.
TextOfSource == source = W!NoProxy => ownedText = W!Empty

FormatInv == FormatsOnTheirWay /\ TextOfSource /\ W!ReadIsAnnounced

\* A step that returns nothing reads nothing wrong.
LEMMA NoneAnnounced == ASSUME out'.what \notin {"read", "own"} PROVE W!ReadIsAnnounced'
BY DEF W!ReadIsAnnounced

\* What is on its way stays in order when an event is handled.
LEMMA FormatsHandled ==
  ASSUME events \in Seq(Event), events # <<>>, events' = Tail(events), UNCHANGED <<announced, readable>>,
         FormatsOnTheirWay,
         Head(events).type = "offer" => Head(events).id \in offers'.all,
         Head(events).type = "mime" /\ Head(events).id \in offers.all => Head(events).id \in offers'.text,
         announced \in offers.text /\ (W!CaughtUp \/ LastSelection(1)) => announced \in offers'.text
  PROVE  FormatsOnTheirWay'
<1>1. ASSUME NEW i \in 1 .. Len(events'), events'[i].type = "mime"
      PROVE  IF i = 1 THEN events'[1].id \in offers'.all
             ELSE events'[i - 1] = [type |-> "offer", id |-> events'[i].id]
  <2>1. i + 1 \in 1 .. Len(events) /\ events'[i] = events[i + 1] /\ i + 1 # 1  BY Shifted
  <2>2. events[i] = [type |-> "offer", id |-> events[i + 1].id]  BY <1>1, <2>1 DEF FormatsOnTheirWay
  <2>3. CASE i = 1
    <3>1. Head(events) = [type |-> "offer", id |-> events'[1].id]  BY <2>1, <2>2, <2>3, Shifted
    <3> QED  BY <2>3, <3>1
  <2>4. CASE i # 1
    <3>1. i - 1 \in 1 .. Len(events') /\ events'[i - 1] = events[i]  BY <2>4, Shifted
    <3> QED  BY <2>1, <2>2, <2>4, <3>1
  <2> QED  BY <2>3, <2>4
<1>2. ASSUME readable, NEW i \in 1 .. Len(events'), LastSelection(i)'
      PROVE  IF i = 1 THEN announced \in offers'.text ELSE events'[i - 1] = [type |-> "mime", id |-> announced]
  <2>1. i + 1 \in 1 .. Len(events) /\ events'[i] = events[i + 1] /\ i + 1 # 1  BY Shifted
  <2>2. LastSelection(i + 1)
    <3>1. \A j \in i + 2 .. Len(events) : events[j].type # "selection"
      <4> TAKE j \in i + 2 .. Len(events)
      <4>1. j - 1 \in i + 1 .. Len(events') /\ events'[j - 1] = events[j]  BY Shifted
      <4> QED  BY <1>2, <4>1 DEF LastSelection
    <3> QED  BY <1>2, <2>1, <3>1 DEF LastSelection
  <2>3. events[i] = [type |-> "mime", id |-> announced]  BY <1>2, <2>1, <2>2 DEF FormatsOnTheirWay
  <2>4. CASE i = 1
    <3>1. Head(events) = [type |-> "mime", id |-> announced]  BY <2>3, <2>4, Shifted
    <3>0. 1 \in 1 .. Len(events) /\ events[1].type = "mime" /\ events[1].id = announced  BY <2>1, <2>3, <2>4
    <3>2. announced \in offers.all  BY <3>0 DEF FormatsOnTheirWay
    <3> QED  BY <2>4, <3>1, <3>2
  <2>5. CASE i # 1
    <3>1. i - 1 \in 1 .. Len(events') /\ events'[i - 1] = events[i]  BY <2>5, Shifted
    <3> QED  BY <2>3, <2>5, <3>1
  <2> QED  BY <2>4, <2>5
<1>3. ASSUME readable, W!CaughtUp' PROVE announced \in offers'.text
  <2>1. \A j \in 2 .. Len(events) : events[j].type # "selection"
    <3> TAKE j \in 2 .. Len(events)
    <3>1. j - 1 \in 1 .. Len(events') /\ events'[j - 1] = events[j]  BY Shifted
    <3> QED  BY <1>3, <3>1 DEF W!CaughtUp
  <2>2. 1 \in 1 .. Len(events) /\ events[1] = Head(events)  BY Shifted
  <2>3. CASE Head(events).type = "selection"
    <3>1. LastSelection(1)  BY <2>1, <2>2, <2>3 DEF LastSelection
    <3>2. announced \in offers.text  BY <1>3, <2>2, <3>1 DEF FormatsOnTheirWay
    <3> QED  BY <3>1, <3>2
  <2>4. CASE Head(events).type # "selection"
    <3>1. W!CaughtUp  BY <2>1, <2>2, <2>4 DEF W!CaughtUp
    <3>2. announced \in offers.text  BY <1>3, <3>1 DEF FormatsOnTheirWay
    <3> QED  BY <3>1, <3>2
  <2> QED  BY <2>3, <2>4
<1>4. (\A i \in 1 .. Len(events') : events'[i].type = "mime" =>
         IF i = 1 THEN events'[1].id \in offers'.all
         ELSE events'[i - 1] = [type |-> "offer", id |-> events'[i].id])
  BY <1>1
<1> QED  BY <1>2, <1>3, <1>4 DEF FormatsOnTheirWay

\* What is sent with a format or a selection is sent in its order.
Ordered(es) ==
  /\ \A i \in 1 .. Len(es) : es[i].type = "mime" => i # 1 /\ es[i - 1] = [type |-> "offer", id |-> es[i].id]
  /\ readable' => \A i \in 1 .. Len(es) : es[i].type = "selection" =>
       i # 1 /\ es[i - 1] = [type |-> "mime", id |-> announced']

\* The compositor sends what keeps the queue in that order.
LEMMA FormatsSent ==
  ASSUME events \in Seq(Event), NEW es \in Seq(Event), W!Send(es), UNCHANGED W!seen, FormatsOnTheirWay, Ordered(es),
         \/ UNCHANGED <<announced, readable>> /\ \A i \in 1 .. Len(es) : es[i].type # "selection"
         \/ \E i \in 1 .. Len(es) : es[i].type = "selection"
  PROVE  FormatsOnTheirWay'
<1>q. Len(events) \in Nat /\ Len(es) \in Nat /\ Len(events') = Len(events) + Len(es)  BY Sent
<1>o. \A i \in 1 .. Len(events) : i \in 1 .. Len(events') /\ events'[i] = events[i]  BY Sent
<1>s. \A i \in 1 .. Len(es) : Len(events) + i \in 1 .. Len(events') /\ events'[Len(events) + i] = es[i]  BY Sent
<1>r. \A i \in 1 .. Len(events') : i \in 1 .. Len(events) \/ (i - Len(events) \in 1 .. Len(es) /\ events'[i] = es[i - Len(events)])
  BY Sent
<1>u. offers' = offers  BY DEF W!seen
<1>p. ASSUME NEW i \in 1 .. Len(events'), i \notin 1 .. Len(events), i - Len(events) # 1
      PROVE  i # 1 /\ events'[i - 1] = es[(i - Len(events)) - 1]
  <2>0. i \in Nat /\ i - Len(events) \in 1 .. Len(es)  BY <1>p, <1>r
  <2>1. (i - Len(events)) - 1 \in 1 .. Len(es)  BY <1>p, <1>q, <2>0
  <2>2. Len(events) + ((i - Len(events)) - 1) = i - 1 /\ i # 1  BY <1>q, <2>0, <2>1
  <2> QED  BY <1>s, <2>1, <2>2
<1>b. ASSUME NEW i \in 1 .. Len(events), i # 1 PROVE events'[i - 1] = events[i - 1]
  <2>1. i - 1 \in 1 .. Len(events)  BY <1>b, <1>q
  <2> QED  BY <1>o, <2>1
<1>1. ASSUME NEW i \in 1 .. Len(events'), events'[i].type = "mime"
      PROVE  IF i = 1 THEN events'[1].id \in offers'.all
             ELSE events'[i - 1] = [type |-> "offer", id |-> events'[i].id]
  <2>1. CASE i \in 1 .. Len(events)
    <3>1. events'[i] = events[i]  BY <1>o, <2>1
    <3>2. IF i = 1 THEN events[1].id \in offers.all ELSE events[i - 1] = [type |-> "offer", id |-> events[i].id]
      BY <1>1, <2>1, <3>1 DEF FormatsOnTheirWay
    <3>3. CASE i = 1
      BY <1>u, <3>1, <3>2, <3>3
    <3>4. CASE i # 1
      BY <1>b, <2>1, <3>1, <3>2, <3>4
    <3> QED  BY <3>3, <3>4
  <2>2. CASE i \notin 1 .. Len(events)
    <3>1. i - Len(events) \in 1 .. Len(es) /\ events'[i] = es[i - Len(events)]  BY <1>r, <2>2
    <3>2. i - Len(events) # 1 /\ es[(i - Len(events)) - 1] = [type |-> "offer", id |-> events'[i].id]
      BY <1>1, <3>1 DEF Ordered
    <3> QED  BY <1>p, <2>2, <3>2
  <2> QED  BY <2>1, <2>2
<1>2. CASE UNCHANGED <<announced, readable>> /\ \A i \in 1 .. Len(es) : es[i].type # "selection"
  <2>1. ASSUME readable, NEW i \in 1 .. Len(events'), LastSelection(i)'
        PROVE  IF i = 1 THEN announced \in offers'.text ELSE events'[i - 1] = [type |-> "mime", id |-> announced]
    <3>1. i \in 1 .. Len(events) /\ events'[i] = events[i]  BY <1>2, <2>1, <1>o, <1>r DEF LastSelection
    <3>2. \A j \in i + 1 .. Len(events) : j \in i + 1 .. Len(events') /\ events'[j] = events[j]
      BY <3>1, <1>q, <1>o
    <3>3. LastSelection(i)  BY <2>1, <3>1, <3>2 DEF LastSelection
    <3>4. IF i = 1 THEN announced \in offers.text ELSE events[i - 1] = [type |-> "mime", id |-> announced]
      BY <2>1, <3>1, <3>3 DEF FormatsOnTheirWay
    <3>5. CASE i = 1
      BY <1>u, <3>4, <3>5
    <3>6. CASE i # 1
      BY <1>b, <3>1, <3>4, <3>6
    <3> QED  BY <3>5, <3>6
  <2>2. W!CaughtUp' => W!CaughtUp  BY <1>o DEF W!CaughtUp
  <2> QED  BY <1>1, <1>2, <1>u, <2>1, <2>2 DEF FormatsOnTheirWay
<1>3. CASE \E k \in 1 .. Len(es) : es[k].type = "selection"
  <2>1. PICK k \in 1 .. Len(es) : es[k].type = "selection"  BY <1>3
  <2>2. Len(events) + k \in 1 .. Len(events') /\ events'[Len(events) + k].type = "selection"  BY <1>s, <2>1
  <2>3. ~W!CaughtUp'  BY <2>2 DEF W!CaughtUp
  <2>4. ASSUME readable', NEW i \in 1 .. Len(events'), LastSelection(i)'
        PROVE  i # 1 /\ events'[i - 1] = [type |-> "mime", id |-> announced']
    <3>1. i \notin 1 .. Len(events)
      <4>1. SUFFICES ASSUME i \in 1 .. Len(events) PROVE FALSE
        OBVIOUS
      <4>2. Len(events) + k \in i + 1 .. Len(events')  BY <2>2, <4>1, <1>q
      <4> QED  BY <2>2, <2>4, <4>2 DEF LastSelection
    <3>2. i - Len(events) \in 1 .. Len(es) /\ events'[i] = es[i - Len(events)]  BY <3>1, <1>r
    <3>3. events'[i].type = "selection"  BY <2>4 DEF LastSelection
    <3>4. i - Len(events) # 1 /\ es[(i - Len(events)) - 1] = [type |-> "mime", id |-> announced']
      BY <2>4, <3>2, <3>3 DEF Ordered
    <3> QED  BY <1>p, <3>1, <3>4
  <2> QED  BY <1>1, <2>3, <2>4 DEF FormatsOnTheirWay
<1> QED  BY <1>2, <1>3

\* A clipboard begins with nothing announced.
LEMMA FormatInvInit == W!Init => FormatInv /\ ReadsHeld
<1> SUFFICES ASSUME W!Init PROVE FormatInv /\ ReadsHeld
  OBVIOUS
<1>1. events = <<>> /\ readable = FALSE /\ ownedText = W!Empty /\ out = W!Silent /\ call = W!Idle
  BY DEF W!Init
<1>2. FormatsOnTheirWay  BY <1>1 DEF FormatsOnTheirWay
<1>3. W!ReadIsAnnounced  BY <1>1 DEF W!ReadIsAnnounced, W!Silent
<1> QED  BY <1>1, <1>2, <1>3 DEF FormatInv, TextOfSource, ReadsHeld, W!Busy

\* An offer's format is known before the offer is the selection, an offer that is pruned is not the
\* selection, and a call reads the offer it began with: handleOfferMime(), handleSelection() and
\* pruneOffers().
LEMMA FormatInvKept ==
  ASSUME OfferInv, TransferInv, FormatInv, ReadsHeld, [W!Next]_W!vars PROVE FormatInv' /\ ReadsHeld'
<1>0. OfferInv' /\ events \in Seq(Event) /\ made \in [sources : Nat, offers : Nat]
  BY OfferInvKept DEF OfferInv, WaylandOwnInv
<1>i. HeldOffers /\ FormatsOnTheirWay /\ TextOfSource  BY DEF OfferInv, FormatInv
<1>a. W!CaughtUp => offered = announced  BY DEF W!CaughtUp, OfferInv, SelectionsOnTheirWay
<1>1. ASSUME UNCHANGED <<W!seen, announced, readable, events>> PROVE FormatsOnTheirWay'
  BY <1>1, <1>i DEF W!seen, FormatsOnTheirWay, LastSelection, W!CaughtUp
<1>2. ASSUME UNCHANGED W!own PROVE TextOfSource'
  BY <1>2, <1>i DEF W!own, TextOfSource
<1>3. ASSUME call' = call, UNCHANGED <<W!seen, source>> PROVE ReadsHeld'
  BY <1>3 DEF ReadsHeld, W!Busy, W!seen
<1>4. ASSUME ~W!Busy, call' = call PROVE ReadsHeld'
  BY <1>4 DEF ReadsHeld, W!Busy
<1>5. ASSUME W!Quiet PROVE W!ReadIsAnnounced' /\ call' = call
  BY <1>5, NoneAnnounced DEF W!Quiet, W!Silent
<1>6. CASE W!AdoptManager \/ W!AttachSeat
  <2>1. W!Quiet /\ UNCHANGED <<W!own, W!seen, announced, readable, events>> /\ ~W!Busy
    BY <1>6 DEF W!AdoptManager, W!AttachSeat, W!compositor
  <2> QED  BY <1>1, <1>2, <1>4, <1>5, <2>1 DEF FormatInv
<1>7. CASE W!DetachSeat
  <2>1. /\ W!Quiet /\ ~W!Busy /\ events' = <<>> /\ readable' = FALSE
        /\ source' = W!NoProxy /\ ownedText' = W!Empty
    BY <1>7 DEF W!DetachSeat
  <2>2. FormatsOnTheirWay'  BY <2>1 DEF FormatsOnTheirWay
  <2> QED  BY <1>4, <1>5, <2>1, <2>2 DEF FormatInv, TextOfSource
<1>8. CASE W!SetText
  <2>1. /\ W!Quiet /\ ~W!Busy /\ made' = [made EXCEPT !.sources = @ + 1] /\ source' = made'.sources
        /\ UNCHANGED <<W!seen, announced, readable, events>>
    BY <1>8 DEF W!SetText
  <2>2. source' # W!NoProxy  BY <1>0, <2>1 DEF W!NoProxy
  <2> QED  BY <1>1, <1>4, <1>5, <2>1, <2>2 DEF FormatInv, TextOfSource
<1>9. CASE W!TextAtOnce
  <2>1. /\ source # W!NoProxy \/ offered \notin offers.text
        /\ out' = [what |-> "own", text |-> ownedText] /\ ~W!Busy
        /\ UNCHANGED <<W!own, W!seen, announced, readable, events, call>>
    BY <1>9 DEF W!TextAtOnce, W!compositor
  <2>2. W!ReadIsAnnounced'
    <3>1. ASSUME source = W!NoProxy, W!CaughtUp PROVE ownedText = W!Empty /\ ~readable
      <4>1. offered = announced /\ offered \notin offers.text  BY <1>a, <2>1, <3>1
      <4>2. readable => announced \in offers.text  BY <1>i, <3>1 DEF FormatsOnTheirWay
      <4> QED  BY <1>i, <3>1, <4>1, <4>2 DEF TextOfSource
    <3>2. W!CaughtUp' => W!CaughtUp  BY <2>1 DEF W!CaughtUp
    <3> QED  BY <2>1, <3>1, <3>2 DEF W!ReadIsAnnounced, W!own
  <2> QED  BY <1>1, <1>2, <1>4, <2>1, <2>2 DEF FormatInv
<1>10. CASE W!TextOfTheirs
  <2>1. /\ source = W!NoProxy /\ offered \in offers.text /\ out' = W!Silent
        /\ UNCHANGED <<W!own, W!seen, announced, readable, events>>
    BY <1>10 DEF W!TextOfTheirs, W!compositor
  <2>2. ReadsHeld'  BY <2>1 DEF ReadsHeld, W!own, W!seen
  <2> QED  BY <1>1, <1>2, <2>1, <2>2, NoneAnnounced DEF FormatInv, W!Silent
<1>11. CASE W!Transfers
  <2>1. InTransit(call) \/ ~W!Busy  BY DEF TransferInv
  <2>2. /\ W!Aside /\ W!Busy
        /\ \/ out' = W!Silent /\ call'.pc = call.pc
           \/ \E complete \in BOOLEAN : W!Finish(complete)
    <3>1. CASE W!ReceivePiece
      <4>1. W!Aside /\ W!Busy  BY <3>1 DEF W!ReceivePiece, W!Busy, W!Idle
      <4>2. CASE W!Finish(FALSE)  BY <4>1, <4>2
      <4>3. CASE call' = [call EXCEPT !.pipe = 0, !.moved = @ + 1, !.idle = IdleTimeout] /\ out' = W!Silent
        BY <2>1, <4>1, <4>3 DEF InTransit, Moving
      <4> QED  BY <3>1, <4>2, <4>3 DEF W!ReceivePiece
    <3>2. CASE W!ReceiveEnd
      <4>1. W!Aside /\ W!Busy  BY <3>2 DEF W!ReceiveEnd, W!Busy, W!Idle
      <4> QED  BY <3>2, <4>1 DEF W!ReceiveEnd
    <3>3. CASE W!SendPiece
      <4>1. W!Aside /\ W!Busy  BY <3>3 DEF W!SendPiece, W!Busy, W!Idle
      <4>2. CASE W!Finish(TRUE)  BY <4>1, <4>2
      <4>3. CASE call' = [call EXCEPT !.pipe = 1, !.moved = @ + 1, !.idle = IdleTimeout] /\ out' = W!Silent
        BY <2>1, <4>1, <4>3 DEF InTransit, Moving
      <4> QED  BY <3>3, <4>2, <4>3 DEF W!SendPiece
    <3>4. CASE W!SendBroken
      <4>1. W!Aside /\ W!Busy  BY <3>4 DEF W!SendBroken, W!Busy, W!Idle
      <4> QED  BY <3>4, <4>1 DEF W!SendBroken
    <3>5. CASE W!TransferTimedOut
      BY <3>5 DEF W!TransferTimedOut
    <3>6. CASE W!Tick
      <4>1. /\ W!Aside /\ W!Busy /\ out' = W!Silent
            /\ call' = [call EXCEPT !.idle = @ - 1, !.elapsed = @ + 1]
        BY <3>6 DEF W!Tick
      <4> QED  BY <2>1, <4>1 DEF InTransit, Moving
    <3>7. CASE W!PeerMoves
      <4>1. W!Aside /\ W!Busy /\ out' = W!Silent  BY <3>7 DEF W!PeerMoves
      <4>2. \/ call' = [call EXCEPT !.pipe = 1, !.sent = @ + 1] \/ call' = [call EXCEPT !.pipe = 0]
            \/ call' = [call EXCEPT !.closed = TRUE]
        BY <3>7 DEF W!PeerMoves
      <4> QED  BY <2>1, <4>1, <4>2 DEF InTransit, Moving
    <3> QED  BY <1>11, <3>1, <3>2, <3>3, <3>4, <3>5, <3>6, <3>7 DEF W!Transfers
  <2>3. UNCHANGED <<W!own, W!seen, announced, readable, events, source>>
    BY <2>2 DEF W!Aside, W!compositor, W!own
  <2>4. FormatsOnTheirWay' /\ TextOfSource'  BY <1>1, <1>2, <2>3
  <2>5. call' = W!Idle \/ call'.pc = call.pc  BY <2>2 DEF W!Finish
  <2>6. ReadsHeld'  BY <2>2, <2>3, <2>5 DEF ReadsHeld, W!Busy, W!seen
  <2>7. out'.what # "own"  BY <2>2 DEF W!Finish, W!Silent
  <2>8. W!CaughtUp' => offered' = announced'  BY <1>a, <2>3 DEF W!CaughtUp, W!seen
  <2>9. W!ReadIsAnnounced'  BY <2>7, <2>8 DEF W!ReadIsAnnounced
  <2> QED  BY <2>4, <2>6, <2>9 DEF FormatInv
<1>12. ASSUME NEW type, W!Handle(type), call' = call
       PROVE  events # <<>> /\ events' = Tail(events) /\ Head(events).type = type /\ ReadsHeld'
  BY <1>4, <1>12 DEF W!Handle
<1>13. CASE W!HandleDataOffer
  <2>1. /\ W!Handle("offer") /\ W!Quiet /\ UNCHANGED <<W!own, announced, readable>>
        /\ offers' = [offers EXCEPT !.all = @ \cup {Head(events).id}]
    BY <1>13 DEF W!HandleDataOffer, W!It, W!compositor
  <2>2. offers' = [all |-> offers.all \cup {Head(events).id}, text |-> offers.text]
    BY <1>i, <2>1 DEF HeldOffers
  <2>3. FormatsOnTheirWay'  BY <1>0, <1>5, <1>12, <1>i, <2>1, <2>2, FormatsHandled
  <2> QED  BY <1>2, <1>5, <1>12, <2>1, <2>3 DEF FormatInv
<1>14. CASE W!HandleOfferMime
  <2>1. /\ W!Handle("mime") /\ W!Quiet /\ UNCHANGED <<W!own, announced, readable>>
        /\ offers' = [offers EXCEPT !.text = @ \cup ({Head(events).id} \cap offers.all)]
    BY <1>14 DEF W!HandleOfferMime, W!It, W!compositor
  <2>2. offers' = [all |-> offers.all, text |-> offers.text \cup ({Head(events).id} \cap offers.all)]
    BY <1>i, <2>1 DEF HeldOffers
  <2>3. FormatsOnTheirWay'  BY <1>0, <1>5, <1>12, <1>i, <2>1, <2>2, FormatsHandled
  <2> QED  BY <1>2, <1>5, <1>12, <2>1, <2>3 DEF FormatInv
<1>15. CASE W!HandleDragOver
  <2>1. /\ W!Handle("leave") /\ W!Quiet /\ UNCHANGED <<W!own, announced, readable, offered>>
        /\ offers' = [all |-> offers.all \cap {offered}, text |-> offers.text \cap {offered}]
    BY <1>15 DEF W!HandleDragOver, W!PruneOffers, W!compositor
  <2>2. events # <<>> /\ events' = Tail(events) /\ Head(events).type = "leave" /\ ReadsHeld'
    BY <1>5, <1>12, <2>1
  <2>3. ~LastSelection(1)  BY <1>0, <2>2, Shifted DEF LastSelection
  <2>4. FormatsOnTheirWay'  BY <1>0, <1>a, <1>i, <2>1, <2>2, <2>3, FormatsHandled
  <2> QED  BY <1>2, <1>5, <2>1, <2>2, <2>4 DEF FormatInv
<1>16. CASE W!HandleSelection
  <2>1. /\ W!Handle("selection") /\ W!Quiet /\ UNCHANGED <<W!own, announced, readable>>
        /\ offered' = IF Head(events).id \in offers.all THEN Head(events).id ELSE W!NoProxy
        /\ offers' = [all |-> offers.all \cap {offered'}, text |-> offers.text \cap {offered'}]
    BY <1>16 DEF W!HandleSelection, W!PruneOffers, W!It, W!compositor
  <2>2. events # <<>> /\ events' = Tail(events) /\ Head(events).type = "selection" /\ ReadsHeld'
    BY <1>5, <1>12, <2>1
  <2>3. 1 \in 1 .. Len(events) /\ events[1] = Head(events)  BY <1>0, <2>2
  <2>4. ~W!CaughtUp  BY <2>2, <2>3 DEF W!CaughtUp
  <2>5. Head(events).id = W!NoProxy \/ Head(events).id \in offers.all
    <3>1. Head(events).id = W!NoProxy \/ HeldAt(Head(events).id, 1)
      BY <2>2, <2>3 DEF OfferInv, SelectionsOnTheirWay
    <3> QED  BY <3>1 DEF HeldAt
  <2>6. LastSelection(1) => offered' = announced
    BY <2>1, <2>3, <2>5 DEF OfferInv, SelectionsOnTheirWay
  <2>7. FormatsOnTheirWay'  BY <1>0, <1>i, <2>1, <2>2, <2>4, <2>6, FormatsHandled
  <2> QED  BY <1>2, <1>5, <2>1, <2>2, <2>7 DEF FormatInv
<1>17. ASSUME events # <<>>, events' = Tail(events), Head(events).type \in {"send", "cancelled"},
              UNCHANGED <<W!seen, announced, readable>>
       PROVE  FormatsOnTheirWay'
  BY <1>0, <1>17, <1>i, FormatsHandled DEF W!seen
<1>18. CASE W!HandleSourceSend
  <2>1. /\ W!Handle("send") /\ out' = W!Silent /\ UNCHANGED <<W!own, W!seen, announced, readable>>
        /\ call'.pc # "receive"
    BY <1>18 DEF W!HandleSourceSend, W!Transfer, W!Idle, W!compositor
  <2>2. FormatsOnTheirWay'  BY <1>17, <2>1 DEF W!Handle
  <2> QED  BY <1>2, <2>1, <2>2, NoneAnnounced DEF FormatInv, ReadsHeld, W!Silent
<1>19. CASE W!HandleSourceCancelled
  <2>1. /\ W!Handle("cancelled") /\ W!Quiet /\ UNCHANGED <<W!seen, announced, readable>>
        /\ UNCHANGED W!own \/ ownedText' = W!Empty
    BY <1>19 DEF W!HandleSourceCancelled, W!SourceLost, W!compositor
  <2>2. FormatsOnTheirWay'  BY <1>17, <2>1 DEF W!Handle
  <2>3. TextOfSource'  BY <1>2, <2>1 DEF TextOfSource
  <2> QED  BY <1>5, <1>12, <2>1, <2>2, <2>3 DEF FormatInv
<1>20. ASSUME out' = W!Silent, UNCHANGED <<W!own, W!seen, call>>, FormatsOnTheirWay' PROVE FormatInv' /\ ReadsHeld'
  BY <1>2, <1>3, <1>20, NoneAnnounced DEF FormatInv, W!Silent, W!own
<1>21. ASSUME NEW es \in {<<>>, <<Cancelled(source)>>, <<[type |-> "send", id |-> source]>>, <<[type |-> "leave"]>>},
              W!Send(es), UNCHANGED <<W!seen, announced, readable>>
       PROVE  FormatsOnTheirWay'
  <2>1. Cancelled(source) \in Event /\ [type |-> "send", id |-> source] \in Event /\ [type |-> "leave"] \in Event
    BY DEF OfferInv, WaylandOwnInv, Event, Cancelled
  <2>2. /\ <<>> \in Seq(Event) /\ <<Cancelled(source)>> \in Seq(Event)
        /\ <<[type |-> "send", id |-> source]>> \in Seq(Event) /\ <<[type |-> "leave"]>> \in Seq(Event)
    BY <2>1
  <2>3. es \in Seq(Event)  BY <1>21, <2>2, Zenon
  <2>4. \A i \in 1 .. Len(es) : es[i].type \in {"cancelled", "send", "leave"}  BY <1>21 DEF Cancelled
  <2>5. Ordered(es)  BY <2>4 DEF Ordered
  <2> QED  BY <1>0, <1>i, <1>21, <2>3, <2>4, <2>5, FormatsSent
<1>22. CASE W!TheyCopy \/ W!TheyPaste \/ W!DragLeaves
  <2>1. UNCHANGED <<W!own, W!seen, announced, readable, call>> /\ out' = W!Silent
    BY <1>22 DEF W!TheyCopy, W!TheyPaste, W!DragLeaves, W!compositor
  <2>2. \/ W!Send(<<>>) \/ W!Send(<<Cancelled(source)>>) \/ W!Send(<<[type |-> "send", id |-> source]>>)
        \/ W!Send(<<[type |-> "leave"]>>)
    BY <1>22 DEF W!TheyCopy, W!TheyPaste, W!DragLeaves, Cancelled
  <2>3. FormatsOnTheirWay'  BY <1>21, <2>1, <2>2
  <2> QED  BY <1>20, <2>1, <2>3
<1>23. CASE W!AnnounceSelection
  <2>1. /\ made' = [made EXCEPT !.offers = @ + 1] /\ announced' = made'.offers
        /\ UNCHANGED <<W!own, W!seen, call>> /\ out' = W!Silent
        /\ \/ readable' = TRUE /\ W!Send(<<W!TheOffer, W!ItsFormat, W!Selected(announced')>>)
           \/ readable' = FALSE /\ W!Send(<<W!TheOffer, W!Selected(announced')>>)
    BY <1>23 DEF W!AnnounceSelection, W!NewOffer
  <2>2. made'.offers \in Nat  BY <1>0, <2>1
  <2>3. W!TheOffer \in Event /\ W!ItsFormat \in Event /\ W!Selected(announced') \in Event
    BY <2>1, <2>2 DEF W!TheOffer, W!ItsFormat, W!Selected, Event
  <2>4. /\ W!TheOffer = [type |-> "offer", id |-> announced'] /\ W!ItsFormat = [type |-> "mime", id |-> announced']
        /\ W!Selected(announced') = [type |-> "selection", id |-> announced']
    BY <2>1 DEF W!TheOffer, W!ItsFormat, W!Selected
  <2>5. CASE readable' = TRUE /\ W!Send(<<W!TheOffer, W!ItsFormat, W!Selected(announced')>>)
    <3> DEFINE es == <<W!TheOffer, W!ItsFormat, W!Selected(announced')>>
    <3>1. es \in Seq(Event) /\ Len(es) = 3  BY <2>3
    <3>2. es[1] = W!TheOffer /\ es[2] = W!ItsFormat /\ es[3] = W!Selected(announced')  OBVIOUS
    <3>3. W!Send(es)  BY <2>5
    <3> HIDE DEF es
    <3>4. \A i \in 1 .. Len(es) : i = 1 \/ (i = 2 /\ i - 1 = 1) \/ (i = 3 /\ i - 1 = 2)  BY <3>1
    <3>5. /\ es[1] = [type |-> "offer", id |-> announced'] /\ es[2] = [type |-> "mime", id |-> announced']
          /\ es[3] = [type |-> "selection", id |-> announced']
      BY <2>4, <3>2
    <3>6. \A i \in 1 .. Len(es) : es[i].type = "mime" => i # 1 /\ es[i - 1] = [type |-> "offer", id |-> es[i].id]
      BY <3>5, <3>4
    <3>7. \A i \in 1 .. Len(es) : es[i].type = "selection" => i # 1 /\ es[i - 1] = [type |-> "mime", id |-> announced']
      BY <3>5, <3>4
    <3>8. Ordered(es)  BY <3>6, <3>7 DEF Ordered
    <3>9. 3 \in 1 .. Len(es) /\ es[3].type = "selection"  BY <2>4, <3>1, <3>2
    <3>10. FormatsOnTheirWay'  BY <1>0, <1>i, <2>1, <3>1, <3>3, <3>8, <3>9, FormatsSent
    <3> QED  BY <1>20, <2>1, <3>10
  <2>6. CASE readable' = FALSE /\ W!Send(<<W!TheOffer, W!Selected(announced')>>)
    <3> DEFINE es == <<W!TheOffer, W!Selected(announced')>>
    <3>1. es \in Seq(Event) /\ Len(es) = 2  BY <2>3
    <3>2. es[1] = W!TheOffer /\ es[2] = W!Selected(announced')  OBVIOUS
    <3>3. W!Send(es)  BY <2>6
    <3> HIDE DEF es
    <3>4. \A i \in 1 .. Len(es) : i = 1 \/ i = 2  BY <3>1
    <3>5. Ordered(es)  BY <2>4, <2>6, <3>2, <3>4 DEF Ordered
    <3>6. 2 \in 1 .. Len(es) /\ es[2].type = "selection"  BY <2>4, <3>1, <3>2
    <3>7. FormatsOnTheirWay'  BY <1>0, <1>i, <2>1, <3>1, <3>3, <3>5, <3>6, FormatsSent
    <3> QED  BY <1>20, <2>1, <3>7
  <2> QED  BY <2>1, <2>5, <2>6
<1>24. CASE W!AnnounceNothing
  <2>1. /\ readable' = FALSE /\ W!Send(<<W!Selected(W!NoProxy)>>)
        /\ UNCHANGED <<W!own, W!seen, call>> /\ out' = W!Silent
    BY <1>24 DEF W!AnnounceNothing
  <2> DEFINE es == <<W!Selected(W!NoProxy)>>
  <2>2. es \in Seq(Event) /\ Len(es) = 1 /\ es[1].type = "selection"
    BY DEF W!Selected, Event, W!NoProxy
  <2>3. 1 \in 1 .. Len(es) /\ \A i \in 1 .. Len(es) : i = 1  BY <2>2
  <2>4. W!Send(es)  BY <2>1
  <2> HIDE DEF es
  <2>5. Ordered(es)  BY <2>1, <2>2, <2>3 DEF Ordered
  <2>6. FormatsOnTheirWay'  BY <1>0, <1>i, <2>1, <2>2, <2>3, <2>4, <2>5, FormatsSent
  <2> QED  BY <1>20, <2>1, <2>6
<1>25. CASE W!DragEnters
  <2>1. /\ made' = [made EXCEPT !.offers = @ + 1] /\ W!Send(<<W!TheOffer, W!ItsFormat>>)
        /\ UNCHANGED <<W!own, W!seen, announced, readable, call>> /\ out' = W!Silent
    BY <1>25 DEF W!DragEnters, W!NewOffer
  <2> DEFINE es == <<W!TheOffer, W!ItsFormat>>
  <2>2. made'.offers \in Nat  BY <1>0, <2>1
  <2>3. W!TheOffer \in Event /\ W!ItsFormat \in Event  BY <2>2 DEF W!TheOffer, W!ItsFormat, Event
  <2>4. /\ W!TheOffer = [type |-> "offer", id |-> made'.offers] /\ W!ItsFormat = [type |-> "mime", id |-> made'.offers]
    BY DEF W!TheOffer, W!ItsFormat
  <2>5. es \in Seq(Event) /\ Len(es) = 2 /\ es[1] = W!TheOffer /\ es[2] = W!ItsFormat  BY <2>3
  <2>6. W!Send(es)  BY <2>1
  <2> HIDE DEF es
  <2>7. \A i \in 1 .. Len(es) : i = 1 \/ (i = 2 /\ i - 1 = 1)  BY <2>5
  <2>8. Ordered(es) /\ \A i \in 1 .. Len(es) : es[i].type # "selection"  BY <2>4, <2>5, <2>7 DEF Ordered
  <2>9. FormatsOnTheirWay'  BY <1>0, <1>i, <2>1, <2>5, <2>6, <2>8, FormatsSent
  <2> QED  BY <1>20, <2>1, <2>9
<1>26. CASE UNCHANGED W!vars
  <2>1. UNCHANGED <<W!own, W!seen, announced, readable, events, source, call, out>>
    BY <1>26 DEF W!vars, W!compositor, W!own
  <2>2. FormatsOnTheirWay' /\ TextOfSource' /\ ReadsHeld'  BY <1>1, <1>2, <1>3, <2>1
  <2>3. W!ReadIsAnnounced'  BY <2>1 DEF FormatInv, W!ReadIsAnnounced, W!CaughtUp, W!seen
  <2> QED  BY <2>2, <2>3 DEF FormatInv
<1> QED
  BY <1>6, <1>7, <1>8, <1>9, <1>10, <1>11, <1>13, <1>14, <1>15, <1>16, <1>18, <1>19, <1>22, <1>23, <1>24, <1>25, <1>26
  DEF W!Next, W!Client, W!Dispatch, W!Compositor

-----------------------------------------------------------------------------
(***************************************************************************)
(* Utf8Text.                                                               *)
(*                                                                         *)
(* decodeOne() accepts what the standard's table of well-formed sequences  *)
(* has, with its value, and encode() gives the same sequence back: first   *)
(* the arithmetic of a sequence of each length, then the bytes of a text.  *)
(***************************************************************************)

\* The range matters to the arithmetic of the first lemmas and only hinders the later ones.
Byte == 0 .. 255
USE DEF Byte

\* What a lead byte that is no character of its own calls for.
LEMMA Leads ==
  ASSUME NEW lead \in Byte
  PROVE  /\ lead \div 32 = 6 <=> lead \in 192 .. 223
         /\ lead \div 16 = 14 <=> lead \in 224 .. 239
         /\ lead \div 8 = 30 <=> lead \in 240 .. 247
<1>1. lead \div 32 = 6 <=> lead \in 192 .. 223  OBVIOUS
<1>2. lead \div 16 = 14 <=> lead \in 224 .. 239  OBVIOUS
<1>3. lead \div 8 = 30 <=> lead \in 240 .. 247  OBVIOUS
<1> QED  BY <1>1, <1>2, <1>3

\* A lead of two bytes keeps five bits.
LEMMA LeadsTwo ==
  ASSUME NEW lead \in 192 .. 223 PROVE T!Form(lead) = [extra |-> 1, bits |-> lead - 192, least |-> 128]
<1>1. lead \div 32 = 6  BY Leads
<1>2. lead % 32 = lead - 192  OBVIOUS
<1> QED  BY <1>1, <1>2 DEF T!Form

\* A lead of three keeps four.
LEMMA LeadsThree ==
  ASSUME NEW lead \in 224 .. 239 PROVE T!Form(lead) = [extra |-> 2, bits |-> lead - 224, least |-> 2048]
<1>1. lead \div 32 # 6 /\ lead \div 16 = 14  BY Leads
<1>2. lead % 16 = lead - 224  OBVIOUS
<1> QED  BY <1>1, <1>2 DEF T!Form

\* A lead of four keeps three.
LEMMA LeadsFour ==
  ASSUME NEW lead \in 240 .. 247 PROVE T!Form(lead) = [extra |-> 3, bits |-> lead - 240, least |-> 65536]
<1>1. lead \div 32 # 6 /\ lead \div 16 # 14 /\ lead \div 8 = 30  BY Leads
<1>2. lead % 8 = lead - 240  OBVIOUS
<1> QED  BY <1>1, <1>2 DEF T!Form

\* Any other byte begins nothing longer than itself.
LEMMA LeadsNone ==
  ASSUME NEW lead \in Byte, lead \notin 192 .. 247 PROVE T!Form(lead) = [extra |-> 0, bits |-> 0, least |-> 0]
<1>1. lead \div 32 # 6 /\ lead \div 16 # 14 /\ lead \div 8 # 30  BY Leads
<1> QED  BY <1>1 DEF T!Form

\* The continuation bytes are those of the standard, and each adds six bits.
LEMMA Continues == ASSUME NEW byte \in Byte PROVE T!IsContinuation(byte) <=> byte \in T!Tails
BY DEF T!IsContinuation, T!Tails

\* A continuation byte makes room for its six bits.
LEMMA Joins ==
  ASSUME NEW bits \in Nat, NEW byte \in T!Tails
  PROVE  T!Join(bits, byte) = bits * 64 + (byte - 128) /\ T!Join(bits, byte) \in Nat
<1>1. byte \in 128 .. 191  BY DEF T!Tails
<1>2. byte % 64 = byte - 128  BY <1>1
<1> QED  BY <1>1, <1>2 DEF T!Join

\* What decodeOne() asks of the value it has made.
Accepted(value, least) == ~(value < least \/ T!Surrogate(value) \/ value > 1114111)

\* The values of two, three and four bytes, and what the table of the standard says of the second.
Two(a, b) == (a - 192) * 64 + (b - 128)
Three(a, b, c) == (a - 224) * 4096 + (b - 128) * 64 + (c - 128)
Four(a, b, c, d) == (a - 240) * 262144 + (b - 128) * 4096 + (c - 128) * 64 + (d - 128)

SecondOfThree(a, b) == (a = 224 /\ b >= 160) \/ (a = 237 /\ b < 160) \/ a \in (225 .. 239) \ {237}
SecondOfFour(a, b) == (a = 240 /\ b >= 144) \/ a \in 241 .. 243 \/ (a = 244 /\ b < 144)

\* The value that two bytes make, and that decodeOne() asks of it what the standard's table asks
\* of the bytes: no overlong form is accepted.
LEMMA SumTwo ==
  ASSUME NEW a \in 192 .. 223, NEW b \in T!Tails, NEW value, value = T!Join(T!Form(a).bits, b)
  PROVE  value = Two(a, b) /\ value \in Nat /\ (Accepted(value, T!Form(a).least) <=> a \in 194 .. 223)
<1>1. PICK bits \in Nat : bits = a - 192  OBVIOUS
<1>2. T!Form(a).bits = bits /\ T!Form(a).least = 128  BY <1>1, LeadsTwo
<1>3. T!Join(bits, b) = bits * 64 + (b - 128)  BY Joins
<1>4. value = (a - 192) * 64 + (b - 128)  BY <1>1, <1>2, <1>3
<1>5. value \in Nat /\ value >= (a - 192) * 64 /\ value < (a - 191) * 64  BY <1>4 DEF T!Tails
<1>6. Accepted(value, 128) <=> a \in 194 .. 223  BY <1>5, SMTT(60) DEF Accepted, T!Surrogate
<1>7. value = Two(a, b)  BY <1>4 DEF Two
<1> QED  BY <1>2, <1>5, <1>6, <1>7

\* The same of three: no overlong form and no surrogate is accepted.
LEMMA SumThree ==
  ASSUME NEW a \in 224 .. 239, NEW b \in T!Tails, NEW c \in T!Tails,
         NEW value, value = T!Join(T!Join(T!Form(a).bits, b), c)
  PROVE  /\ value = Three(a, b, c) /\ value \in Nat
         /\ Accepted(value, T!Form(a).least) <=> SecondOfThree(a, b)
<1>1. PICK bits \in Nat : bits = a - 224  OBVIOUS
<1>2. T!Form(a).bits = bits /\ T!Form(a).least = 2048  BY <1>1, LeadsThree
<1>3. PICK first \in Nat : first = T!Join(bits, b) /\ first = bits * 64 + (b - 128)  BY Joins
<1>4. T!Join(first, c) = first * 64 + (c - 128)  BY Joins
<1>5. value = (a - 224) * 4096 + (b - 128) * 64 + (c - 128)
  <2>1. value = first * 64 + (c - 128)  BY <1>2, <1>3, <1>4
  <2>2. first = (a - 224) * 64 + (b - 128)  BY <1>1, <1>3
  <2> QED  BY <2>1, <2>2 DEF T!Tails
<1>6. value \in Nat  BY <1>5 DEF T!Tails
<1>7. Accepted(value, 2048) <=> SecondOfThree(a, b)
  BY <1>5 DEF Accepted, SecondOfThree, T!Surrogate, T!Tails
<1>8. value = Three(a, b, c)  BY <1>5 DEF Three
<1> QED  BY <1>2, <1>6, <1>7, <1>8

\* The same of four: nothing overlong and nothing beyond U+10FFFF is accepted.
LEMMA SumFour ==
  ASSUME NEW a \in 240 .. 247, NEW b \in T!Tails, NEW c \in T!Tails, NEW d \in T!Tails,
         NEW value, value = T!Join(T!Join(T!Join(T!Form(a).bits, b), c), d)
  PROVE  /\ value = Four(a, b, c, d) /\ value \in Nat
         /\ Accepted(value, T!Form(a).least) <=> SecondOfFour(a, b)
<1>1. PICK bits \in Nat : bits = a - 240  OBVIOUS
<1>2. T!Form(a).bits = bits /\ T!Form(a).least = 65536  BY <1>1, LeadsFour
<1>3. PICK first \in Nat : first = T!Join(bits, b) /\ first = bits * 64 + (b - 128)  BY Joins
<1>4. PICK second \in Nat : second = T!Join(first, c) /\ second = first * 64 + (c - 128)  BY Joins
<1>5. T!Join(second, d) = second * 64 + (d - 128)  BY Joins
<1>6. value = (a - 240) * 262144 + (b - 128) * 4096 + (c - 128) * 64 + (d - 128)
  BY <1>1, <1>2, <1>3, <1>4, <1>5, SMTT(60) DEF T!Tails
<1>7. value \in Nat  BY <1>6 DEF T!Tails
<1>8. Accepted(value, 65536) <=> SecondOfFour(a, b)
  BY <1>6 DEF Accepted, SecondOfFour, T!Surrogate, T!Tails
<1>9. value = Four(a, b, c, d)  BY <1>6 DEF Four
<1> QED  BY <1>2, <1>7, <1>8, <1>9

\* How many continuation bytes each lead wants.
LEMMA Extras ==
  ASSUME NEW lead \in Byte
  PROVE  /\ T!Form(lead).extra \in 0 .. 3
         /\ T!Form(lead).extra = 1 <=> lead \in 192 .. 223
         /\ T!Form(lead).extra = 2 <=> lead \in 224 .. 239
         /\ T!Form(lead).extra = 3 <=> lead \in 240 .. 247
<1>1. CASE lead \in 192 .. 223
  <2>1. T!Form(lead).extra = 1  BY <1>1, LeadsTwo
  <2> QED  BY <1>1, <2>1
<1>2. CASE lead \in 224 .. 239
  <2>1. T!Form(lead).extra = 2  BY <1>2, LeadsThree
  <2> QED  BY <1>2, <2>1
<1>3. CASE lead \in 240 .. 247
  <2>1. T!Form(lead).extra = 3  BY <1>3, LeadsFour
  <2> QED  BY <1>3, <2>1
<1>4. CASE lead \notin 192 .. 247
  <2>1. T!Form(lead).extra = 0  BY <1>4, LeadsNone, SMTT(60)
  <2> QED  BY <1>4, <2>1
<1> QED  BY <1>1, <1>2, <1>3, <1>4

\* The definitions, by the length of the sequence.
LEMMA LengthTwo ==
  ASSUME NEW s, NEW a, NEW b, Len(s) = 2, s[1] = a, s[2] = b
  PROVE  /\ T!WellFormed(s) <=> a \in 194 .. 223 /\ b \in T!Tails
         /\ T!Value(s) = Two(a, b)
BY DEF T!WellFormed, T!Value, Two

\* Of three bytes.
LEMMA LengthThree ==
  ASSUME NEW s, NEW a, NEW b, NEW c, Len(s) = 3, s[1] = a, s[2] = b, s[3] = c
  PROVE  /\ T!WellFormed(s) <=>
              /\ c \in T!Tails
              /\ \/ a = 224 /\ b \in 160 .. 191
                 \/ a = 237 /\ b \in 128 .. 159
                 \/ a \in (225 .. 239) \ {237} /\ b \in T!Tails
         /\ T!Value(s) = Three(a, b, c)
BY DEF T!WellFormed, T!Value, Three

\* Of four bytes.
LEMMA LengthFour ==
  ASSUME NEW s, NEW a, NEW b, NEW c, NEW d, Len(s) = 4, s[1] = a, s[2] = b, s[3] = c, s[4] = d
  PROVE  /\ T!WellFormed(s) <=>
              /\ c \in T!Tails /\ d \in T!Tails
              /\ \/ a = 240 /\ b \in 144 .. 191
                 \/ a \in 241 .. 243 /\ b \in T!Tails
                 \/ a = 244 /\ b \in 128 .. 143
         /\ T!Value(s) = Four(a, b, c, d)
BY DEF T!WellFormed, T!Value, Four

\* What the continuation bytes make of the bits of the lead.
LEMMA Accumulates ==
  ASSUME NEW bits, NEW tail, NEW b, tail[1] = b
  PROVE  /\ Len(tail) = 1 => T!Accumulate(bits, tail) = T!Join(bits, b)
         /\ Len(tail) = 2 => T!Accumulate(bits, tail) = T!Join(T!Join(bits, b), tail[2])
         /\ Len(tail) = 3 => T!Accumulate(bits, tail) = T!Join(T!Join(T!Join(bits, b), tail[2]), tail[3])
BY DEF T!Accumulate

\* A sequence of one byte.
LEMMA OneByte ==
  ASSUME NEW s, NEW a \in Byte, Len(s) = 1, s[1] = a
  PROVE  (T!WellFormed(s) <=> a < 128) /\ T!Value(s) = a
BY DEF T!WellFormed, T!Value

\* A sequence of two bytes: decodeOne() accepts its value just when the standard has it.
LEMMA TwoBytes ==
  ASSUME NEW s, NEW a \in Byte, NEW b \in Byte, Len(s) = 2, s[1] = a, s[2] = b,
         NEW tail, Len(tail) = 1, tail[1] = b
  PROVE  /\ T!WellFormed(s) => a \in 192 .. 223 /\ b \in T!Tails
         /\ a \in 192 .. 223 /\ b \in T!Tails =>
              LET value == T!Accumulate(T!Form(a).bits, tail) IN
              /\ T!WellFormed(s) <=> Accepted(value, T!Form(a).least)
              /\ T!Value(s) = value /\ value \in Nat
<1>1. /\ T!WellFormed(s) <=> a \in 194 .. 223 /\ b \in T!Tails
      /\ T!Value(s) = Two(a, b)
  BY LengthTwo
<1>2. T!WellFormed(s) => a \in 192 .. 223 /\ b \in T!Tails  BY <1>1
<1>3. ASSUME a \in 192 .. 223, b \in T!Tails
      PROVE  LET value == T!Accumulate(T!Form(a).bits, tail) IN
             /\ T!WellFormed(s) <=> Accepted(value, T!Form(a).least)
             /\ T!Value(s) = value /\ value \in Nat
  <2>1. PICK value : value = T!Join(T!Form(a).bits, b)  OBVIOUS
  <2>2. T!Accumulate(T!Form(a).bits, tail) = value  BY <2>1, Accumulates
  <2>3. /\ value = Two(a, b)
        /\ value \in Nat
        /\ Accepted(value, T!Form(a).least) <=> a \in 194 .. 223
    BY <1>3, <2>1, SumTwo
  <2>4. T!WellFormed(s) <=> Accepted(value, T!Form(a).least)  BY <1>1, <1>3, <2>3
  <2>5. T!Value(s) = value  BY <1>1, <2>3
  <2> QED  BY <2>2, <2>3, <2>4, <2>5
<1> QED  BY <1>2, <1>3

\* A sequence of three.
LEMMA ThreeBytes ==
  ASSUME NEW s, NEW a \in Byte, NEW b \in Byte, NEW c \in Byte, Len(s) = 3, s[1] = a, s[2] = b, s[3] = c,
         NEW tail, Len(tail) = 2, tail[1] = b, tail[2] = c
  PROVE  /\ T!WellFormed(s) => a \in 224 .. 239 /\ b \in T!Tails /\ c \in T!Tails
         /\ a \in 224 .. 239 /\ b \in T!Tails /\ c \in T!Tails =>
              LET value == T!Accumulate(T!Form(a).bits, tail) IN
              /\ T!WellFormed(s) <=> Accepted(value, T!Form(a).least)
              /\ T!Value(s) = value /\ value \in Nat
<1>1. /\ T!WellFormed(s) <=>
           /\ c \in T!Tails
           /\ \/ a = 224 /\ b \in 160 .. 191
              \/ a = 237 /\ b \in 128 .. 159
              \/ a \in (225 .. 239) \ {237} /\ b \in T!Tails
      /\ T!Value(s) = Three(a, b, c)
  BY LengthThree
<1>2. T!WellFormed(s) => a \in 224 .. 239 /\ b \in T!Tails /\ c \in T!Tails  BY <1>1 DEF T!Tails
<1>3. ASSUME a \in 224 .. 239, b \in T!Tails, c \in T!Tails
      PROVE  LET value == T!Accumulate(T!Form(a).bits, tail) IN
             /\ T!WellFormed(s) <=> Accepted(value, T!Form(a).least)
             /\ T!Value(s) = value /\ value \in Nat
  <2>1. PICK value : value = T!Join(T!Join(T!Form(a).bits, b), c)  OBVIOUS
  <2>2. T!Accumulate(T!Form(a).bits, tail) = value  BY <2>1, Accumulates
  <2>3. /\ value = Three(a, b, c)
        /\ value \in Nat
        /\ Accepted(value, T!Form(a).least) <=> SecondOfThree(a, b)
    BY <1>3, <2>1, SumThree
  <2>4. T!WellFormed(s) <=> SecondOfThree(a, b)  BY <1>1, <1>3 DEF T!Tails, SecondOfThree
  <2>5. T!Value(s) = value  BY <1>1, <2>3
  <2> QED  BY <2>2, <2>3, <2>4, <2>5
<1> QED  BY <1>2, <1>3

\* A sequence of four.
LEMMA FourBytes ==
  ASSUME NEW s, NEW a \in Byte, NEW b \in Byte, NEW c \in Byte, NEW d \in Byte,
         Len(s) = 4, s[1] = a, s[2] = b, s[3] = c, s[4] = d,
         NEW tail, Len(tail) = 3, tail[1] = b, tail[2] = c, tail[3] = d
  PROVE  /\ T!WellFormed(s) => a \in 240 .. 247 /\ b \in T!Tails /\ c \in T!Tails /\ d \in T!Tails
         /\ a \in 240 .. 247 /\ b \in T!Tails /\ c \in T!Tails /\ d \in T!Tails =>
              LET value == T!Accumulate(T!Form(a).bits, tail) IN
              /\ T!WellFormed(s) <=> Accepted(value, T!Form(a).least)
              /\ T!Value(s) = value /\ value \in Nat
<1>1. /\ T!WellFormed(s) <=>
           /\ c \in T!Tails /\ d \in T!Tails
           /\ \/ a = 240 /\ b \in 144 .. 191
              \/ a \in 241 .. 243 /\ b \in T!Tails
              \/ a = 244 /\ b \in 128 .. 143
      /\ T!Value(s) = Four(a, b, c, d)
  BY LengthFour
<1>2. T!WellFormed(s) => a \in 240 .. 247 /\ b \in T!Tails /\ c \in T!Tails /\ d \in T!Tails
  BY <1>1 DEF T!Tails
<1>3. ASSUME a \in 240 .. 247, b \in T!Tails, c \in T!Tails, d \in T!Tails
      PROVE  LET value == T!Accumulate(T!Form(a).bits, tail) IN
             /\ T!WellFormed(s) <=> Accepted(value, T!Form(a).least)
             /\ T!Value(s) = value /\ value \in Nat
  <2>1. PICK value : value = T!Join(T!Join(T!Join(T!Form(a).bits, b), c), d)  OBVIOUS
  <2>2. T!Accumulate(T!Form(a).bits, tail) = value  BY <2>1, Accumulates
  <2>3. /\ value = Four(a, b, c, d)
        /\ value \in Nat
        /\ Accepted(value, T!Form(a).least) <=> SecondOfFour(a, b)
    BY <1>3, <2>1, SumFour, SMTT(60)
  <2>4. T!WellFormed(s) <=> SecondOfFour(a, b)  BY <1>1, <1>3 DEF T!Tails, SecondOfFour
  <2>5. T!Value(s) = value  BY <1>1, <2>3
  <2> QED  BY <2>2, <2>3, <2>4, <2>5
<1> QED  BY <1>2, <1>3

\* What decodeOne() makes of n bytes from i on, and when it takes them for a character.
Made(bytes, i, n) == T!Accumulate(T!Form(bytes[i]).bits, SubSeq(bytes, i + 1, i + n - 1))

Taken(bytes, i, n) ==
  /\ T!Form(bytes[i]).extra = n - 1
  /\ \A k \in 1 .. n - 1 : bytes[i + k] \in T!Tails
  /\ Accepted(Made(bytes, i, n), T!Form(bytes[i]).least)

HIDE DEF Byte

\* The bytes of a character.
LEMMA Window ==
  ASSUME NEW bytes \in Seq(Byte), NEW i \in 1 .. Len(bytes), NEW n \in 1 .. 4, i + n - 1 <= Len(bytes)
  PROVE  /\ Len(SubSeq(bytes, i, i + n - 1)) = n /\ Len(SubSeq(bytes, i + 1, i + n - 1)) = n - 1
         /\ \A k \in 1 .. n : bytes[i + k - 1] \in Byte /\ SubSeq(bytes, i, i + n - 1)[k] = bytes[i + k - 1]
         /\ \A k \in 1 .. n - 1 : bytes[i + k] \in Byte /\ SubSeq(bytes, i + 1, i + n - 1)[k] = bytes[i + k]
<1>1. Len(SubSeq(bytes, i, i + n - 1)) = n /\ Len(SubSeq(bytes, i + 1, i + n - 1)) = n - 1  OBVIOUS
<1>2. ASSUME NEW k \in 1 .. n
      PROVE  bytes[i + k - 1] \in Byte /\ SubSeq(bytes, i, i + n - 1)[k] = bytes[i + k - 1]
  <2>1. i + k - 1 \in 1 .. Len(bytes)  OBVIOUS
  <2>2. SubSeq(bytes, i, i + n - 1)[k] = bytes[i + k - 1]  OBVIOUS
  <2>3. \A j \in 1 .. Len(bytes) : bytes[j] \in Byte  OBVIOUS
  <2> QED  BY <2>1, <2>2, <2>3
<1>3. ASSUME NEW k \in 1 .. n - 1
      PROVE  bytes[i + k] \in Byte /\ SubSeq(bytes, i + 1, i + n - 1)[k] = bytes[i + k]
  <2>1. i + k \in 1 .. Len(bytes)  OBVIOUS
  <2>2. SubSeq(bytes, i + 1, i + n - 1)[k] = bytes[(i + 1) + k - 1]  OBVIOUS
  <2>3. (i + 1) + k - 1 = i + k  OBVIOUS
  <2>4. \A j \in 1 .. Len(bytes) : bytes[j] \in Byte  OBVIOUS
  <2> QED  BY <2>1, <2>2, <2>3, <2>4
<1> QED  BY <1>1, <1>2, <1>3

\* The characters of the standard are those that decodeOne() takes, and so are their values.
LEMMA Standard ==
  ASSUME NEW bytes \in Seq(Byte), NEW i \in 1 .. Len(bytes), NEW n \in 1 .. 4, i + n - 1 <= Len(bytes)
  PROVE  LET s == SubSeq(bytes, i, i + n - 1) IN
         /\ n = 1 => (T!WellFormed(s) <=> bytes[i] < 128) /\ T!Value(s) = bytes[i]
         /\ n > 1 => /\ T!WellFormed(s) <=> Taken(bytes, i, n)
                     /\ T!WellFormed(s) => T!Value(s) = Made(bytes, i, n) /\ Made(bytes, i, n) \in Nat
<1>1. PICK s, tail : s = SubSeq(bytes, i, i + n - 1) /\ tail = SubSeq(bytes, i + 1, i + n - 1)
  OBVIOUS
<1>2. PICK a \in Byte : a = bytes[i]  OBVIOUS
<1>3. Len(s) = n /\ Len(tail) = n - 1  BY <1>1, Window
<1>4. \A k \in 1 .. n : bytes[i + k - 1] \in Byte /\ s[k] = bytes[i + k - 1]  BY <1>1, Window
<1>5. \A k \in 1 .. n - 1 : bytes[i + k] \in Byte /\ tail[k] = bytes[i + k]  BY <1>1, Window
<1>6. s[1] = a  BY <1>2, <1>4
<1>7. Made(bytes, i, n) = T!Accumulate(T!Form(a).bits, tail)  BY <1>1, <1>2 DEF Made
<1>8. CASE n = 1
  <2>1. (T!WellFormed(s) <=> a < 128) /\ T!Value(s) = a  BY <1>3, <1>6, <1>8, OneByte
  <2> QED  BY <1>1, <1>2, <1>8, <2>1
<1>9. ASSUME n > 1,
             T!WellFormed(s) => T!Form(a).extra = n - 1 /\ \A k \in 1 .. n - 1 : tail[k] \in T!Tails,
             T!Form(a).extra = n - 1 /\ (\A k \in 1 .. n - 1 : tail[k] \in T!Tails) =>
               /\ T!WellFormed(s) <=> Accepted(Made(bytes, i, n), T!Form(a).least)
               /\ T!Value(s) = Made(bytes, i, n) /\ Made(bytes, i, n) \in Nat
      PROVE  /\ T!WellFormed(s) <=> Taken(bytes, i, n)
             /\ T!WellFormed(s) => T!Value(s) = Made(bytes, i, n) /\ Made(bytes, i, n) \in Nat
  <2>1. (\A k \in 1 .. n - 1 : bytes[i + k] \in T!Tails) <=> \A k \in 1 .. n - 1 : tail[k] \in T!Tails
    BY <1>5
  <2> QED  BY <1>2, <1>9, <2>1 DEF Taken
<1>10. CASE n = 2
  <2>1. PICK b \in Byte : b = tail[1] /\ s[2] = b  BY <1>4, <1>5, <1>10
  <2>2. (\A k \in 1 .. n - 1 : tail[k] \in T!Tails) <=> b \in T!Tails  BY <1>10, <2>1
  <2>3. T!Form(a).extra = n - 1 <=> a \in 192 .. 223  BY <1>10, Extras
  <2>4. /\ T!WellFormed(s) => a \in 192 .. 223 /\ b \in T!Tails
        /\ a \in 192 .. 223 /\ b \in T!Tails =>
             /\ T!WellFormed(s) <=> Accepted(Made(bytes, i, n), T!Form(a).least)
             /\ T!Value(s) = Made(bytes, i, n) /\ Made(bytes, i, n) \in Nat
    <3>1. Len(s) = 2 /\ s[1] = a /\ s[2] = b  BY <1>3, <1>6, <1>10, <2>1
    <3>2. Len(tail) = 1 /\ tail[1] = b  BY <1>3, <1>10, <2>1
    <3>3. PICK value : value = Made(bytes, i, n)  OBVIOUS
    <3>4. T!Accumulate(T!Form(a).bits, tail) = value  BY <1>7, <3>3
    <3>5. T!WellFormed(s) => a \in 192 .. 223 /\ b \in T!Tails  BY <3>1, <3>2, TwoBytes, ZenonT(60)
    <3>6. a \in 192 .. 223 /\ b \in T!Tails =>
            (T!WellFormed(s) <=> Accepted(value, T!Form(a).least)) /\ T!Value(s) = value /\ value \in Nat
      BY <3>1, <3>2, <3>4, TwoBytes
    <3> QED  BY <3>3, <3>5, <3>6
  <2> QED  BY <1>1, <1>9, <1>10, <2>2, <2>3, <2>4
<1>11. CASE n = 3
  <2>1. PICK b \in Byte, c \in Byte : b = tail[1] /\ s[2] = b /\ c = tail[2] /\ s[3] = c
    BY <1>4, <1>5, <1>11
  <2>2. (\A k \in 1 .. n - 1 : tail[k] \in T!Tails) <=> b \in T!Tails /\ c \in T!Tails  BY <1>11, <2>1
  <2>3. T!Form(a).extra = n - 1 <=> a \in 224 .. 239  BY <1>11, Extras
  <2>4. /\ T!WellFormed(s) => a \in 224 .. 239 /\ b \in T!Tails /\ c \in T!Tails
        /\ a \in 224 .. 239 /\ b \in T!Tails /\ c \in T!Tails =>
             /\ T!WellFormed(s) <=> Accepted(Made(bytes, i, n), T!Form(a).least)
             /\ T!Value(s) = Made(bytes, i, n) /\ Made(bytes, i, n) \in Nat
    <3>1. Len(s) = 3 /\ s[1] = a /\ s[2] = b /\ s[3] = c  BY <1>3, <1>6, <1>11, <2>1
    <3>2. Len(tail) = 2 /\ tail[1] = b /\ tail[2] = c  BY <1>3, <1>11, <2>1
    <3>3. PICK value : value = Made(bytes, i, n)  OBVIOUS
    <3>4. T!Accumulate(T!Form(a).bits, tail) = value  BY <1>7, <3>3
    <3>5. T!WellFormed(s) => a \in 224 .. 239 /\ b \in T!Tails /\ c \in T!Tails  BY <3>1, <3>2, ThreeBytes, SMTT(60)
    <3>6. a \in 224 .. 239 /\ b \in T!Tails /\ c \in T!Tails =>
            (T!WellFormed(s) <=> Accepted(value, T!Form(a).least)) /\ T!Value(s) = value /\ value \in Nat
      BY <3>1, <3>2, <3>4, ThreeBytes
    <3> QED  BY <3>3, <3>5, <3>6
  <2> QED  BY <1>1, <1>9, <1>11, <2>2, <2>3, <2>4
<1>12. CASE n = 4
  <2>1. PICK b \in Byte, c \in Byte, d \in Byte :
          b = tail[1] /\ s[2] = b /\ c = tail[2] /\ s[3] = c /\ d = tail[3] /\ s[4] = d
    BY <1>4, <1>5, <1>12
  <2>2. (\A k \in 1 .. n - 1 : tail[k] \in T!Tails) <=> b \in T!Tails /\ c \in T!Tails /\ d \in T!Tails
    BY <1>12, <2>1
  <2>3. T!Form(a).extra = n - 1 <=> a \in 240 .. 247  BY <1>12, Extras
  <2>4. /\ T!WellFormed(s) => a \in 240 .. 247 /\ b \in T!Tails /\ c \in T!Tails /\ d \in T!Tails
        /\ a \in 240 .. 247 /\ b \in T!Tails /\ c \in T!Tails /\ d \in T!Tails =>
             /\ T!WellFormed(s) <=> Accepted(Made(bytes, i, n), T!Form(a).least)
             /\ T!Value(s) = Made(bytes, i, n) /\ Made(bytes, i, n) \in Nat
    <3>1. Len(s) = 4 /\ s[1] = a /\ s[2] = b /\ s[3] = c /\ s[4] = d  BY <1>3, <1>6, <1>12, <2>1
    <3>2. Len(tail) = 3 /\ tail[1] = b /\ tail[2] = c /\ tail[3] = d  BY <1>3, <1>12, <2>1
    <3>3. PICK value : value = Made(bytes, i, n)  OBVIOUS
    <3>4. T!Accumulate(T!Form(a).bits, tail) = value  BY <1>7, <3>3
    <3>5. T!WellFormed(s) => a \in 240 .. 247 /\ b \in T!Tails /\ c \in T!Tails /\ d \in T!Tails  BY <3>1, <3>2, FourBytes
    <3>6. a \in 240 .. 247 /\ b \in T!Tails /\ c \in T!Tails /\ d \in T!Tails =>
            (T!WellFormed(s) <=> Accepted(value, T!Form(a).least)) /\ T!Value(s) = value /\ value \in Nat
      BY <3>1, <3>2, <3>4, FourBytes, SMTT(60)
    <3> QED  BY <3>3, <3>5, <3>6
  <2> QED  BY <1>1, <1>9, <1>12, <2>2, <2>3, <2>4
<1> QED  BY <1>8, <1>10, <1>11, <1>12

\* Where a character begins, and how long it is.
LEMMA Begins ==
  ASSUME NEW bytes \in Seq(Byte), NEW i \in 1 .. Len(bytes), NEW n
  PROVE  n \in T!Lengths(bytes, i) <=>
           /\ n \in 1 .. 4 /\ i + n - 1 <= Len(bytes)
           /\ n = 1 => bytes[i] < 128
           /\ n > 1 => Taken(bytes, i, n)
<1>1. n \in T!Lengths(bytes, i) <=>
        n \in 1 .. 4 /\ i + n - 1 <= Len(bytes) /\ T!WellFormed(SubSeq(bytes, i, i + n - 1))
  BY DEF T!Lengths
<1>2. ASSUME n \in 1 .. 4, i + n - 1 <= Len(bytes)
      PROVE  T!WellFormed(SubSeq(bytes, i, i + n - 1)) <=>
               (n = 1 => bytes[i] < 128) /\ (n > 1 => Taken(bytes, i, n))
  <2>1. CASE n = 1
    BY <1>2, <2>1, Standard
  <2>2. CASE n > 1
    BY <1>2, <2>2, Standard
  <2> QED  BY <1>2, <2>1, <2>2
<1> QED  BY <1>1, <1>2

\* No character begins at a continuation byte.
LEMMA NoneBegins ==
  ASSUME NEW bytes \in Seq(Byte), NEW i \in 1 .. Len(bytes), bytes[i] \in T!Tails
  PROVE  T!Lengths(bytes, i) = {}
<1> SUFFICES ASSUME NEW n \in T!Lengths(bytes, i) PROVE FALSE
  OBVIOUS
<1>1. PICK lead \in Byte : lead = bytes[i]  OBVIOUS
<1>2. lead \in 128 .. 191  BY <1>1 DEF T!Tails
<1>3. T!Form(lead).extra = 0  BY <1>2, LeadsNone
<1>4. n \in 1 .. 4 /\ (n = 1 => lead < 128) /\ (n > 1 => T!Form(lead).extra = n - 1)
  BY <1>1, Begins DEF Taken
<1> QED  BY <1>2, <1>3, <1>4

\* decodeOne() reads the character that begins here, or skips bytes at which none begins; it
\* always moves on, and what it reads is a codepoint of Unicode.
LEMMA Decoding ==
  ASSUME NEW bytes \in Seq(Byte), NEW i \in 1 .. Len(bytes), NEW decoded, decoded = T!DecodeOne(bytes, i)
  PROVE  /\ decoded.next \in i + 1 .. Len(bytes) + 1
         /\ decoded.ok =>
              /\ decoded.next - i \in T!Lengths(bytes, i)
              /\ decoded.value = T!Value(SubSeq(bytes, i, decoded.next - 1))
              /\ decoded.value \in Nat /\ decoded.value <= 1114111 /\ ~T!Surrogate(decoded.value)
         /\ ~decoded.ok => \A j \in i .. decoded.next - 1 : T!Lengths(bytes, j) = {}
<1>1. PICK lead \in Byte : lead = bytes[i]  OBVIOUS
<1>2. PICK extra \in 0 .. 3 : extra = T!Form(lead).extra  BY Extras
<1>3. PICK last : last = T!Min2(i + extra, Len(bytes))  OBVIOUS
<1>4. last \in i .. Len(bytes) /\ last <= i + extra /\ (last < i + extra => last = Len(bytes))
  BY <1>3 DEF T!Min2
<1>5. PICK value : value = T!Accumulate(T!Form(lead).bits, SubSeq(bytes, i + 1, last))  OBVIOUS
<1>6. decoded =
        IF lead < 128 THEN T!Decoded(lead, i + 1)
        ELSE IF extra = 0 THEN T!Rejected(i + 1)
        ELSE IF \E n \in (i + 1) .. last : ~T!IsContinuation(bytes[n]) THEN T!Rejected(i + 1)
        ELSE IF last < i + extra THEN T!Rejected(Len(bytes) + 1)
        ELSE IF ~Accepted(value, T!Form(lead).least) THEN T!Rejected(last + 1)
        ELSE T!Decoded(value, last + 1)
  BY <1>1, <1>2, <1>3, <1>5 DEF T!DecodeOne, Accepted
<1>7. \A n : n \in T!Lengths(bytes, i) <=>
             /\ n \in 1 .. 4 /\ i + n - 1 <= Len(bytes)
             /\ n = 1 => lead < 128
             /\ n > 1 => Taken(bytes, i, n)
  BY <1>1, Begins
<1>8. \A n : n \in T!Lengths(bytes, i) /\ lead >= 128 => n = extra + 1 /\ n > 1
  BY <1>1, <1>2, <1>7 DEF Taken, Byte
<1>9. CASE lead < 128
  <2>1. decoded = [ok |-> TRUE, value |-> lead, next |-> i + 1]  BY <1>6, <1>9 DEF T!Decoded
  <2>2. 1 \in T!Lengths(bytes, i)  BY <1>7, <1>9
  <2>3. T!Value(SubSeq(bytes, i, i)) = lead
    <3>1. T!Value(SubSeq(bytes, i, i + 1 - 1)) = lead  BY <1>1, Standard
    <3> QED  BY <3>1
  <2>4. lead \in Nat /\ lead <= 1114111 /\ ~T!Surrogate(lead)  BY <1>9, SMTT(60) DEF Byte, T!Surrogate
  <2> QED  BY <2>1, <2>2, <2>3, <2>4
<1>10. ASSUME lead >= 128, T!Lengths(bytes, i) = {}, decoded = T!Rejected(i + 1)
       PROVE  decoded.next = i + 1 /\ ~decoded.ok /\ \A j \in i .. i : T!Lengths(bytes, j) = {}
  BY <1>10 DEF T!Rejected
<1>11. CASE lead >= 128 /\ extra = 0
  <2>1. T!Lengths(bytes, i) = {}  BY <1>8, <1>11
  <2>2. decoded = T!Rejected(i + 1)  BY <1>6, <1>11 DEF Byte
  <2> QED  BY <1>10, <1>11, <2>1, <2>2
<1>12. CASE lead >= 128 /\ extra # 0 /\ \E n \in (i + 1) .. last : ~T!IsContinuation(bytes[n])
  <2>1. PICK n \in (i + 1) .. last : ~T!IsContinuation(bytes[n])  BY <1>12
  <2>2. n \in 1 .. Len(bytes) /\ n - i \in 1 .. extra /\ i + (n - i) = n  BY <1>4, <2>1
  <2>3. bytes[n] \notin T!Tails  BY <2>1, <2>2, Continues
  <2>4. ~Taken(bytes, i, extra + 1)
    <3>1. n - i \in 1 .. (extra + 1) - 1  BY <2>2
    <3> QED  BY <2>2, <2>3, <3>1 DEF Taken
  <2>5. T!Lengths(bytes, i) = {}  BY <1>7, <1>8, <1>12, <2>4
  <2>6. decoded = T!Rejected(i + 1)  BY <1>6, <1>12 DEF Byte
  <2> QED  BY <1>10, <1>12, <2>5, <2>6
<1>13. ASSUME lead >= 128, extra # 0, \A n \in (i + 1) .. last : T!IsContinuation(bytes[n])
       PROVE  \A j \in (i + 1) .. last : T!Lengths(bytes, j) = {}
  <2> TAKE j \in (i + 1) .. last
  <2>1. j \in 1 .. Len(bytes)  BY <1>4
  <2>2. bytes[j] \in T!Tails  BY <1>13, <2>1, Continues
  <2> QED  BY <2>1, <2>2, NoneBegins
<1>14. CASE /\ lead >= 128 /\ extra # 0 /\ \A n \in (i + 1) .. last : T!IsContinuation(bytes[n])
            /\ last < i + extra
  <2>1. decoded = T!Rejected(Len(bytes) + 1)  BY <1>6, <1>14 DEF Byte
  <2>2. T!Lengths(bytes, i) = {}  BY <1>4, <1>7, <1>8, <1>14
  <2>3. \A j \in i .. Len(bytes) : T!Lengths(bytes, j) = {}  BY <1>4, <1>13, <1>14, <2>2
  <2>4. decoded.next = Len(bytes) + 1 /\ ~decoded.ok  BY <2>1 DEF T!Rejected
  <2> QED  BY <2>3, <2>4
<1>15. CASE /\ lead >= 128 /\ extra # 0 /\ \A n \in (i + 1) .. last : T!IsContinuation(bytes[n])
            /\ ~(last < i + extra)
  <2>1. last = i + extra /\ last = i + (extra + 1) - 1 /\ extra + 1 \in 2 .. 4  BY <1>4, <1>15
  <2>2. value = Made(bytes, i, extra + 1)  BY <1>1, <1>5, <2>1 DEF Made
  <2>3. \A k \in 1 .. extra : bytes[i + k] \in T!Tails
    <3> TAKE k \in 1 .. extra
    <3>1. i + k \in (i + 1) .. last /\ i + k \in 1 .. Len(bytes)  BY <1>4, <2>1
    <3> QED  BY <1>15, <3>1, Continues
  <2>4. Taken(bytes, i, extra + 1) <=> Accepted(value, T!Form(lead).least)
    BY <1>1, <1>2, <2>2, <2>3 DEF Taken
  <2>5. CASE ~Accepted(value, T!Form(lead).least)
    <3>1. decoded = T!Rejected(last + 1)  BY <1>6, <1>15, <2>5 DEF Byte
    <3>2. T!Lengths(bytes, i) = {}  BY <1>7, <1>8, <1>15, <2>4, <2>5
    <3>3. \A j \in i .. last : T!Lengths(bytes, j) = {}  BY <1>4, <1>13, <1>15, <3>2
    <3>4. decoded.next = last + 1 /\ ~decoded.ok  BY <3>1 DEF T!Rejected
    <3> QED  BY <1>4, <3>3, <3>4
  <2>6. CASE Accepted(value, T!Form(lead).least)
    <3>1. decoded = [ok |-> TRUE, value |-> value, next |-> last + 1]
      BY <1>6, <1>15, <2>6 DEF Byte, T!Decoded
    <3>2. extra + 1 \in T!Lengths(bytes, i)  BY <1>4, <1>7, <2>1, <2>4, <2>6
    <3>3. T!WellFormed(SubSeq(bytes, i, last))  BY <2>1, <3>2 DEF T!Lengths
    <3>4. T!Value(SubSeq(bytes, i, last)) = value /\ value \in Nat
      BY <1>4, <2>1, <2>2, <3>3, Standard
    <3>5. value \in Nat /\ value <= 1114111 /\ ~T!Surrogate(value)  BY <2>6, <3>4 DEF Accepted
    <3>6. decoded.next - i = extra + 1 /\ decoded.next - 1 = last  BY <2>1, <3>1
    <3> QED  BY <1>4, <3>1, <3>2, <3>4, <3>5, <3>6
  <2> QED  BY <2>5, <2>6
<1> QED  BY <1>9, <1>11, <1>12, <1>14, <1>15 DEF Byte

\* At most one character begins at a byte.
LEMMA OneCharacter ==
  ASSUME NEW bytes \in Seq(Byte), NEW i \in 1 .. Len(bytes),
         NEW m \in T!Lengths(bytes, i), NEW n \in T!Lengths(bytes, i)
  PROVE  m = n
<1>1. PICK lead \in Byte : lead = bytes[i]  OBVIOUS
<1>2. PICK extra \in 0 .. 3 : extra = T!Form(lead).extra  BY Extras
<1>3. m \in 1 .. 4 /\ (m = 1 => lead < 128) /\ (m > 1 => m = extra + 1)
  BY <1>1, <1>2, Begins DEF Taken
<1>4. n \in 1 .. 4 /\ (n = 1 => lead < 128) /\ (n > 1 => n = extra + 1)
  BY <1>1, <1>2, Begins DEF Taken
<1>5. lead < 128 => lead \notin 192 .. 247  BY DEF Byte
<1>6. ASSUME lead < 128 PROVE extra = 0
  <2>1. lead \notin 192 .. 247  BY <1>5, <1>6
  <2>2. T!Form(lead) = [extra |-> 0, bits |-> 0, least |-> 0]  BY <2>1, LeadsNone
  <2> QED  BY <1>2, <2>2
<1> QED  BY <1>3, <1>4, <1>6 DEF Byte

\* encode() gives back what decodeOne() read: a well-formed sequence with the same value.
LEMMA Encoding ==
  ASSUME NEW value \in Nat, value <= 1114111, ~T!Surrogate(value)
  PROVE  T!WellFormed(T!Encode(value)) /\ T!Value(T!Encode(value)) = value
<1>1. CASE value < 128
  <2>1. T!EncodedLength(value) = 1  BY <1>1 DEF T!EncodedLength
  <2>2. T!Encode(value) = <<value>>  BY <2>1 DEF T!Encode
  <2> QED  BY <1>1, <2>2 DEF T!WellFormed, T!Value
<1>2. CASE value >= 128 /\ value < 2048
  <2>1. T!EncodedLength(value) = 2  BY <1>2 DEF T!EncodedLength
  <2>2. PICK a, b : a = 192 + value \div 64 /\ b = T!Continuation(value, 1)  OBVIOUS
  <2>3. T!Encode(value) = <<a, b>>  BY <2>1, <2>2 DEF T!Encode
  <2>4. b = 128 + (value % 64)
    <3>1. value \div 1 = value  OBVIOUS
    <3> QED  BY <2>2, <3>1 DEF T!Continuation
  <2>5. a \in 194 .. 223 /\ b \in 128 .. 191 /\ (a - 192) * 64 + (b - 128) = value
    BY <1>2, <2>2, <2>4
  <2>6. (T!WellFormed(<<a, b>>) <=> a \in 194 .. 223 /\ b \in T!Tails) /\ T!Value(<<a, b>>) = Two(a, b)
    BY LengthTwo
  <2> QED  BY <2>3, <2>5, <2>6 DEF Two, T!Tails
<1>3. CASE value >= 2048 /\ value < 65536
  <2>1. T!EncodedLength(value) = 3  BY <1>3 DEF T!EncodedLength
  <2>2. PICK a, b, c :
          a = 224 + value \div 4096 /\ b = T!Continuation(value, 64) /\ c = T!Continuation(value, 1)
    OBVIOUS
  <2>3. T!Encode(value) = <<a, b, c>>  BY <2>1, <2>2 DEF T!Encode
  <2>4. b = 128 + ((value \div 64) % 64) /\ c = 128 + (value % 64)
    <3>1. value \div 1 = value  OBVIOUS
    <3> QED  BY <2>2, <3>1 DEF T!Continuation
  <2>5. value \div 4096 = (value \div 64) \div 64  OBVIOUS
  <2>6. PICK high \in Nat : high = value \div 64  OBVIOUS
  <2>7. value = high * 64 + (c - 128) /\ c \in 128 .. 191  BY <2>4, <2>6
  <2>8. high = (a - 224) * 64 + (b - 128) /\ b \in 128 .. 191  BY <2>2, <2>4, <2>5, <2>6
  <2>9. a \in 224 .. 239  BY <1>3, <2>2
  <2>10. (a - 224) * 4096 + (b - 128) * 64 + (c - 128) = value  BY <2>7, <2>8, <2>9, SMTT(60)
  <2>11. (a = 224 => b >= 160) /\ (a = 237 => b < 160)
    BY <1>3, <2>7, <2>8, <2>9, <2>10 DEF T!Surrogate
  <2>12. T!WellFormed(<<a, b, c>>) /\ T!Value(<<a, b, c>>) = Three(a, b, c)
    BY <2>7, <2>8, <2>9, <2>11, LengthThree DEF T!Tails
  <2> QED  BY <2>3, <2>10, <2>12 DEF Three
<1>4. CASE value >= 65536
  <2>1. T!EncodedLength(value) = 4  BY <1>4 DEF T!EncodedLength
  <2>2. PICK a, b, c, d :
          /\ a = 240 + value \div 262144 /\ b = T!Continuation(value, 4096)
          /\ c = T!Continuation(value, 64) /\ d = T!Continuation(value, 1)
    OBVIOUS
  <2>3. T!Encode(value) = <<a, b, c, d>>  BY <2>1, <2>2 DEF T!Encode
  <2>4. /\ b = 128 + ((value \div 4096) % 64) /\ c = 128 + ((value \div 64) % 64)
        /\ d = 128 + (value % 64)
    <3>1. value \div 1 = value  OBVIOUS
    <3> QED  BY <2>2, <3>1 DEF T!Continuation
  <2>5. PICK high \in Nat : high = value \div 64  OBVIOUS
  <2>6. PICK higher \in Nat : higher = high \div 64  BY <2>5
  <2>7. value \div 4096 = higher  BY <2>5, <2>6
  <2>8. value \div 262144 = higher \div 64  BY <2>5, <2>6
  <2>9. value = high * 64 + (d - 128) /\ d \in 128 .. 191  BY <2>4, <2>5
  <2>10. high = higher * 64 + (c - 128) /\ c \in 128 .. 191  BY <2>4, <2>5, <2>6
  <2>11. higher = (a - 240) * 64 + (b - 128) /\ b \in 128 .. 191  BY <2>2, <2>4, <2>7, <2>8
  <2>12. a \in 240 .. 244  BY <1>4, <2>2
  <2>13. (a - 240) * 262144 + (b - 128) * 4096 + (c - 128) * 64 + (d - 128) = value
    BY <2>9, <2>10, <2>11, <2>12
  <2>14. (a = 240 => b >= 144) /\ (a = 244 => b < 144)
    BY <1>4, <2>9, <2>10, <2>11, <2>12, <2>13
  <2>15. T!WellFormed(<<a, b, c, d>>) /\ T!Value(<<a, b, c, d>>) = Four(a, b, c, d)
    BY <2>9, <2>10, <2>11, <2>12, <2>14, LengthFour DEF T!Tails
  <2> QED  BY <2>3, <2>13, <2>15 DEF Four
<1> QED  BY <1>1, <1>2, <1>3, <1>4

\* What decode() holds: where it is, and that what it has emitted are characters.
TextInv ==
  /\ text \in Seq(Byte) /\ text \in Inputs
  /\ index \in 1 .. Len(text) + 1
  /\ \E codepoints : emitted \in Seq(codepoints)
  /\ Len(emitted) < index
  /\ T!EmittedIsUnicode

\* Nothing is emitted at first.
LEMMA TextInvInit == ASSUME T!InputsAssumption PROVE T!Init => TextInv
<1> SUFFICES ASSUME T!Init PROVE TextInv
  OBVIOUS
<1>1. text \in Seq(Byte) /\ text \in Inputs  BY DEF T!Init, T!InputsAssumption, Byte
<1>2. index = 1 /\ emitted = <<>>  BY DEF T!Init
<1>3. emitted \in Seq({}) /\ Len(emitted) = 0  BY <1>2
<1> QED  BY <1>1, <1>2, <1>3 DEF TextInv, T!EmittedIsUnicode

\* Each step moves on, and what it emits encodes to a character.
LEMMA TextInvKept == TextInv /\ [T!Next]_T!vars => TextInv'
<1> SUFFICES ASSUME TextInv, [T!Next]_T!vars PROVE TextInv'
  OBVIOUS
<1>1. CASE T!Next
  <2>1. PICK decoded : decoded = T!DecodeOne(text, index)  OBVIOUS
  <2>2. /\ index <= Len(text) /\ index' = decoded.next /\ text' = text
        /\ emitted' = IF decoded.ok THEN Append(emitted, decoded.value) ELSE emitted
    BY <1>1, <2>1 DEF T!Next, T!Decode
  <2>3. text \in Seq(Byte) /\ text \in Inputs /\ index \in 1 .. Len(text)  BY <2>2 DEF TextInv
  <2>4. index' \in index + 1 .. Len(text) + 1  BY <2>1, <2>2, <2>3, Decoding
  <2>5. decoded.ok => decoded.value \in Nat /\ decoded.value <= 1114111 /\ ~T!Surrogate(decoded.value)
    BY <2>1, <2>3, Decoding
  <2>6. decoded.ok => /\ T!WellFormed(T!Encode(decoded.value))
                      /\ T!Value(T!Encode(decoded.value)) = decoded.value
    BY <2>5, Encoding
  <2>7. PICK codepoints : emitted \in Seq(codepoints)  BY DEF TextInv
  <2>8. CASE decoded.ok
    <3> DEFINE more == codepoints \cup {decoded.value}
    <3>1. emitted \in Seq(more)  BY <2>7
    <3>2. emitted' = Append(emitted, decoded.value) /\ decoded.value \in more  BY <2>2, <2>8
    <3> HIDE DEF more
    <3>3. emitted' \in Seq(more) /\ Len(emitted') = Len(emitted) + 1  BY <3>1, <3>2
    <3>4. \A i \in DOMAIN emitted' : (i \in DOMAIN emitted /\ emitted'[i] = emitted[i])
                                     \/ emitted'[i] = decoded.value
      BY <3>1, <3>2
    <3>5. T!EmittedIsUnicode'  BY <2>6, <2>8, <3>4 DEF TextInv, T!EmittedIsUnicode
    <3>6. Len(emitted') < index'  BY <2>3, <2>4, <3>1, <3>3 DEF TextInv
    <3> QED  BY <2>2, <2>3, <2>4, <3>3, <3>5, <3>6 DEF TextInv
  <2>9. CASE ~decoded.ok
    <3>1. emitted' = emitted  BY <2>2, <2>9
    <3>2. Len(emitted') < index'  BY <2>3, <2>4, <2>7, <3>1 DEF TextInv
    <3> QED  BY <2>2, <2>3, <2>4, <2>7, <3>1, <3>2 DEF TextInv, T!EmittedIsUnicode
  <2> QED  BY <2>8, <2>9
<1>2. CASE UNCHANGED T!vars
  BY <1>2 DEF T!vars, TextInv, T!EmittedIsUnicode
<1> QED  BY <1>1, <1>2

\* Each step of decode() reads the character of the standard that begins where it is, or skips
\* bytes at which none begins (utf8::decode() and decodeOne(), Utf8.hpp).
LEMMA TextInvDecodes == TextInv => T!StepDecodes
<1> SUFFICES ASSUME TextInv, index <= Len(text),
                    NEW decoded, decoded = T!DecodeOne(text, index)
             PROVE  IF decoded.ok
                    THEN /\ decoded.next - index \in T!Lengths(text, index)
                         /\ decoded.value = T!Value(SubSeq(text, index, decoded.next - 1))
                    ELSE \A i \in index .. decoded.next - 1 : T!Lengths(text, i) = {}
  BY DEF T!StepDecodes
<1>1. text \in Seq(Byte) /\ index \in 1 .. Len(text)  BY DEF TextInv
<1> QED  BY <1>1, Decoding

\* No byte of a text hides a character, for any bytes (utf8::decode(), Utf8.hpp).
THEOREM StepsDecode == ASSUME T!InputsAssumption PROVE T!Spec => []T!StepDecodes
BY TextInvInit, TextInvKept, TextInvDecodes, PTL DEF T!Spec

\* No overlong form, surrogate or value beyond U+10FFFF is emitted, and encode() gives back what
\* was decoded (Utf8.hpp).
THEOREM OnlyUnicode == ASSUME T!InputsAssumption PROVE T!Spec => []T!EmittedIsUnicode
<1>1. TextInv => T!EmittedIsUnicode  BY DEF TextInv
<1> QED  BY <1>1, TextInvInit, TextInvKept, PTL DEF T!Spec

-----------------------------------------------------------------------------
(***************************************************************************)
(* The types of both clipboards.                                           *)
(***************************************************************************)

\* A call of text() under way.
Asking ==
  [pc : {"ask", "reply", "chunk"}, target : X!Targets, n : 0 .. MaxChunks,
   text : Texts \cup {X!Empty, X!Garbled}, idle : 0 .. ReplyTimeout, limit : 0 .. TransferLimit,
   elapsed : 0 .. MaxTicks, clean : BOOLEAN, during : SUBSET (Texts \cup {X!Empty})]

\* The types of X11Clipboard are kept by every step: what a call holds comes from the property
\* and from its deadlines, and each queue stays within its bound.
LEMMA X11TypeKept ==
  ASSUME X!TimesAssumption, X!QueueAssumption, X!TypeOK, X!Next
  PROVE  X!TypeOK'
<1> USE DEF X!TimesAssumption, X!QueueAssumption
<1>1. /\ selection \in X!Selections
      /\ owned \in BOOLEAN /\ ownedText \in Texts \cup {X!Empty}
      /\ property \in X!Contents
      /\ clears \in 0 .. MaxQueued /\ requests \in 0 .. MaxQueued /\ changes \in 0 .. MaxQueued + 1
      /\ notifies \in Seq(BOOLEAN)
      /\ asked \in Seq([text : Texts, target : X!Targets])
      /\ transfer = X!NoTransfer \/ transfer \in [text : Texts, encoding : X!Targets, n : 1 .. MaxChunks + 2]
      /\ call \in X!Calls
      /\ out \in X!Outputs
      /\ alive \in {"yes", "closing", "no"}
  BY DEF X!TypeOK
<1>2. selection.text \in Texts \cup {X!Empty} /\ (selection.owner = "them" => selection.text \in Texts)
  BY <1>1 DEF X!Selections, X!Nobody, X!Ours, X!Theirs
<1>3. X!Silent \in X!Outputs /\ X!Idle \in X!Calls  BY DEF X!Outputs, X!Calls
<1>4. X!Busy => call \in Asking  BY <1>1 DEF X!Busy, X!Calls, Asking
<1>5. Asking \subseteq X!Calls  BY DEF Asking, X!Calls
<1>6. property.type \in {"none", "incr", "unreadable", "whole", "chunk"} /\ X!None \in X!Contents
  BY <1>1 DEF X!Contents, X!None
<1>7. ASSUME X!Busy, NEW result \in Texts \cup {X!Empty, X!Garbled}, NEW failed \in BOOLEAN, X!Return(result, failed)
      PROVE  call' \in X!Calls /\ out' \in X!Outputs
  BY <1>3, <1>4, <1>7 DEF X!Return, Asking, X!Outputs
<1>8. ASSUME X!Busy, NEW failed \in BOOLEAN, X!TryNext(failed) PROVE call' \in X!Calls /\ out' \in X!Outputs
  <2>1. CASE call.target = "utf8"
    <3>1. call' = [call EXCEPT !.pc = "ask", !.target = "string"] /\ out' = X!Silent  BY <1>8, <2>1 DEF X!TryNext
    <3>2. call' \in Asking  BY <1>4, <1>8, <3>1 DEF Asking, X!Targets
    <3> QED  BY <1>3, <1>5, <3>1, <3>2
  <2>2. CASE call.target # "utf8"
    BY <1>7, <1>8, <2>2 DEF X!TryNext
  <2> QED  BY <2>1, <2>2
<1>9. property.type \in {"whole", "chunk"} => X!Decoded(property) \in Texts \cup {X!Garbled}
  BY <1>1 DEF X!Decoded, X!Contents, X!None
<1>10. /\ asked \in Seq([text : Texts, target : X!Targets])
       /\ notifies \in Seq(BOOLEAN)
  BY <1>1
<1>11. /\ notifies # <<>> => Tail(notifies) \in Seq(BOOLEAN)
       /\ \A answer \in BOOLEAN : Append(notifies, answer) \in Seq(BOOLEAN)
  BY <1>10
<1>12. \A i \in 1 .. Len(asked) : asked[i].text \in Texts /\ asked[i].target \in X!Targets /\ X!Without(i) \in Seq([text : Texts, target : X!Targets])
  <2> DEFINE Asked == [text : Texts, target : X!Targets]
  <2>1. asked \in Seq(Asked)  BY <1>10
  <2>2. \A i \in 1 .. Len(asked) : asked[i] \in Asked /\ X!Without(i) \in Seq(Asked)
    <3> HIDE DEF Asked
    <3> QED  BY <2>1 DEF X!Without
  <2> QED  BY <2>2
<1>13. CASE X!TextOfOurs
  <2>1. out' \in X!Outputs  BY <1>1, <1>2, <1>13 DEF X!TextOfOurs, X!Outputs
  <2> QED  BY <1>1, <1>13, <2>1 DEF X!TextOfOurs, X!TypeOK, X!server, X!own, X!queue
<1>14. CASE X!TextOfTheirs
  <2>1. call' \in Asking  BY <1>2, <1>14 DEF X!TextOfTheirs, Asking, X!Targets, X!NothingOnItsWay
  <2> QED  BY <1>1, <1>3, <1>5, <1>14, <2>1 DEF X!TextOfTheirs, X!TypeOK, X!server, X!own, X!queue
<1>15. CASE X!Ask
  <2>1. call' \in Asking
    <3>1. call' = [call EXCEPT !.pc = "reply", !.idle = ReplyTimeout]  BY <1>15 DEF X!Ask
    <3>2. call \in Asking  BY <1>4, <1>15 DEF X!Ask
    <3>3. ReplyTimeout \in 0 .. ReplyTimeout  OBVIOUS
    <3> QED  BY <3>1, <3>2, <3>3 DEF Asking
  <2>2. call.target \in X!Targets  BY <1>4, <1>15 DEF X!Ask, Asking
  <2>3. asked' \in Seq([text : Texts, target : X!Targets]) /\ notifies' \in Seq(BOOLEAN)
    <3>1. CASE selection.owner = "them"
      <4> DEFINE Asked == [text : Texts, target : X!Targets]
                 new == [text |-> selection.text, target |-> call.target]
      <4>1. asked' = Append(asked, new) /\ notifies' = notifies  BY <1>15, <3>1 DEF X!Ask
      <4>2. new \in Asked  BY <1>2, <2>2, <3>1
      <4>3. asked \in Seq(Asked)  BY <1>10
      <4>4. asked' \in Seq(Asked)
        <5> HIDE DEF Asked, new
        <5> QED  BY <4>1, <4>2, <4>3
      <4> QED  BY <1>10, <4>1, <4>4
    <3>2. CASE selection.owner # "them"
      <4>1. asked' = asked /\ notifies' = Append(notifies, FALSE)  BY <1>15, <3>2 DEF X!Ask
      <4> QED  BY <1>10, <1>11, <4>1
    <3> QED  BY <3>1, <3>2
  <2> QED  BY <1>1, <1>3, <1>5, <1>6, <1>15, <2>1, <2>3 DEF X!Ask, X!TypeOK, X!own
<1>16. CASE X!TimedOut
  <2>1. call' \in X!Calls /\ out' \in X!Outputs  BY <1>7, <1>16 DEF X!TimedOut
  <2> QED  BY <1>1, <1>16, <2>1 DEF X!TimedOut, X!TypeOK, X!server, X!own, X!queue
<1>17. CASE X!TakeRefusal
  <2>1. call' \in X!Calls /\ out' \in X!Outputs  BY <1>8, <1>17 DEF X!TakeRefusal, X!Replied
  <2>2. notifies' \in Seq(BOOLEAN)
    <3>1. notifies # <<>> /\ notifies' = Tail(notifies)  BY <1>17 DEF X!TakeRefusal, X!Replied
    <3> QED  BY <1>11, <3>1
  <2> QED  BY <1>1, <1>17, <2>1, <2>2 DEF X!TakeRefusal, X!TypeOK, X!server, X!own
<1>18. CASE X!TakeAnnouncement
  <2>1. X!ChunkDeadline(TransferLimit) \in 0 .. ReplyTimeout  BY DEF X!ChunkDeadline, X!Least
  <2>2. call' \in Asking
    <3>1. call' = [call EXCEPT !.pc = "chunk", !.limit = TransferLimit, !.idle = X!ChunkDeadline(TransferLimit)]
      BY <1>18 DEF X!TakeAnnouncement
    <3>2. call \in Asking  BY <1>4, <1>18 DEF X!TakeAnnouncement, X!Replied
    <3>3. TransferLimit \in 0 .. TransferLimit  OBVIOUS
    <3> QED  BY <2>1, <3>1, <3>2, <3>3 DEF Asking
  <2>3. notifies' \in Seq(BOOLEAN) /\ changes' = 0
    <3>1. notifies # <<>> /\ notifies' = Tail(notifies)  BY <1>18 DEF X!TakeAnnouncement, X!Replied
    <3>2. changes' = 0  BY <1>18 DEF X!TakeAnnouncement, X!StaleChanges
    <3> QED  BY <1>11, <3>1, <3>2
  <2> QED  BY <1>1, <1>3, <1>5, <1>6, <1>18, <2>2, <2>3 DEF X!TakeAnnouncement, X!TypeOK, X!own
<1>19. CASE X!TakeWhole
  <2>1. X!Busy /\ notifies' \in Seq(BOOLEAN) /\ property' = X!None
    <3>1. X!Busy /\ notifies # <<>> /\ notifies' = Tail(notifies) /\ property' = X!None
      BY <1>19 DEF X!TakeWhole, X!Replied
    <3> QED  BY <1>11, <3>1
  <2>2. call' \in X!Calls /\ out' \in X!Outputs
    <3>1. CASE property.type = "whole"
      <4>1. X!Return(X!Decoded(property), FALSE)  BY <1>19, <3>1 DEF X!TakeWhole
      <4> QED  BY <1>7, <1>9, <2>1, <3>1, <4>1
    <3>2. CASE property.type = "chunk"
      <4>1. X!Return(IF property.n = 0 THEN X!Empty ELSE X!Garbled, FALSE)  BY <1>19, <3>2 DEF X!TakeWhole
      <4> QED  BY <1>7, <2>1, <4>1
    <3>3. CASE property.type \notin {"whole", "chunk"}
      <4>1. X!TryNext(property.type = "unreadable")  BY <1>19, <3>3 DEF X!TakeWhole
      <4> QED  BY <1>8, <2>1, <4>1
    <3> QED  BY <3>1, <3>2, <3>3
  <2> QED  BY <1>1, <1>6, <1>19, <2>1, <2>2 DEF X!TakeWhole, X!TypeOK, X!own
<1>20. CASE X!TakeChunk
  <2>1. X!Busy /\ changes' \in 0 .. MaxQueued + 1 /\ property' = X!None  BY <1>1, <1>20 DEF X!TakeChunk
  <2>2. call' \in X!Calls /\ out' \in X!Outputs
    <3>1. CASE property.type = "chunk" /\ property.n = 0
      <4>1. X!Return(call.text, FALSE)  BY <1>20, <3>1 DEF X!TakeChunk
      <4>2. call.text \in Texts \cup {X!Empty, X!Garbled}  BY <1>4, <2>1 DEF Asking
      <4> QED  BY <1>7, <2>1, <4>1, <4>2
    <3>2. CASE /\ property.type = "whole" \/ (property.type = "chunk" /\ property.n # 0)
               /\ call.n = MaxChunks
      <4>1. X!Return(X!Empty, TRUE)  BY <1>20, <3>2 DEF X!TakeChunk
      <4> QED  BY <1>7, <2>1, <4>1
    <3>3. CASE /\ property.type = "whole" \/ (property.type = "chunk" /\ property.n # 0)
               /\ call.n # MaxChunks
      <4>1. /\ call' = [call EXCEPT !.n = @ + 1, !.text = X!NextChunk, !.idle = X!ChunkDeadline(call.limit)]
            /\ out' = X!Silent
        BY <1>20, <3>3 DEF X!TakeChunk
      <4>2. X!NextChunk \in Texts \cup {X!Garbled}  BY <1>9, <3>3 DEF X!NextChunk
      <4>3. call.limit \in Nat /\ call.n + 1 \in 0 .. MaxChunks  BY <1>4, <2>1, <3>3 DEF Asking
      <4>4. X!ChunkDeadline(call.limit) \in 0 .. ReplyTimeout  BY <4>3 DEF X!ChunkDeadline, X!Least
      <4>5. call' \in Asking  BY <1>4, <2>1, <4>1, <4>2, <4>3, <4>4 DEF Asking
      <4> QED  BY <1>3, <1>5, <4>1, <4>5
    <3>4. CASE property.type \notin {"whole", "chunk"}
      <4>1. X!Return(X!Empty, property.type = "unreadable")  BY <1>20, <3>4 DEF X!TakeChunk
      <4> QED  BY <1>7, <2>1, <4>1
    <3> QED  BY <3>1, <3>2, <3>3, <3>4
  <2> QED  BY <1>1, <1>6, <1>20, <2>1, <2>2 DEF X!TakeChunk, X!TypeOK, X!own
<1>21. CASE X!SetText
  <2>1. PICK copy \in Texts, won \in BOOLEAN, other \in Texts :
          /\ selection' = IF won THEN X!Ours(copy) ELSE X!Theirs(other)
          /\ clears' = clears + (IF won THEN 0 ELSE 1)
          /\ owned' = won
          /\ ownedText' = IF won THEN copy ELSE X!Empty
    BY <1>21 DEF X!SetText
  <2>2. selection' \in X!Selections  BY <2>1 DEF X!Selections
  <2>3. clears' \in 0 .. MaxQueued  BY <1>1, <1>21, <2>1 DEF X!SetText
  <2>4. owned' \in BOOLEAN /\ ownedText' \in Texts \cup {X!Empty}  BY <2>1
  <2> QED  BY <1>1, <1>3, <1>21, <2>2, <2>3, <2>4 DEF X!SetText, X!TypeOK
<1>22. CASE X!HandleClear
  <2>1. clears' \in 0 .. MaxQueued  BY <1>1, <1>22 DEF X!HandleClear
  <2>2. owned' \in BOOLEAN /\ ownedText' \in Texts \cup {X!Empty}  BY <1>22 DEF X!HandleClear, X!SelectionLost
  <2> QED  BY <1>1, <1>3, <1>22, <2>1, <2>2 DEF X!HandleClear, X!TypeOK, X!server
<1>23. CASE X!HandleRequest
  <2>1. out' \in X!Outputs
    <3>1. PICK target \in X!Targets \cup {"targets", "other"}, known \in BOOLEAN :
            out' = [what |-> "served", property |-> known,
                    text |-> IF known /\ target \in X!Targets THEN ownedText ELSE X!Empty]
      BY <1>1, <1>23 DEF X!HandleRequest
    <3> QED  BY <1>1, <3>1 DEF X!Outputs
  <2> QED  BY <1>1, <1>23, <2>1 DEF X!HandleRequest, X!TypeOK, X!server, X!own
<1>24. CASE X!DropNotify
  <2>1. notifies' \in Seq(BOOLEAN)  BY <1>1, <1>24 DEF X!DropNotify
  <2> QED  BY <1>1, <1>3, <1>24, <2>1 DEF X!DropNotify, X!TypeOK, X!server, X!own
<1>25. CASE X!DropChange
  BY <1>1, <1>3, <1>25 DEF X!DropChange, X!TypeOK, X!server, X!own
<1>26. CASE X!Destroy
  BY <1>1, <1>3, <1>26 DEF X!Destroy, X!TypeOK, X!server, X!own, X!queue
<1>27. CASE X!Disown
  <2>1. selection' \in X!Selections  BY <1>27 DEF X!Disown, X!Selections
  <2> QED  BY <1>1, <1>3, <1>27, <2>1 DEF X!Disown, X!TypeOK, X!own, X!queue
<1>28. ASSUME NEW seen \in Texts \cup {X!Empty}, call' = X!Witnessed(seen) PROVE call' \in X!Calls
  <2>1. CASE X!Busy
    <3>1. call' = [call EXCEPT !.during = @ \cup {seen}]  BY <1>28, <2>1 DEF X!Witnessed
    <3>2. call' \in Asking  BY <1>4, <2>1, <3>1 DEF Asking
    <3> QED  BY <1>5, <3>2
  <2>2. CASE ~X!Busy
    BY <1>1, <1>28, <2>2 DEF X!Witnessed
  <2> QED  BY <2>1, <2>2
<1>29. CASE X!TheyCopy
  <2>1. PICK copy \in Texts : selection' = X!Theirs(copy) /\ call' = X!Witnessed(copy)  BY <1>29 DEF X!TheyCopy
  <2>2. selection' \in X!Selections /\ call' \in X!Calls  BY <1>28, <2>1 DEF X!Selections
  <2>3. clears' \in 0 .. MaxQueued  BY <1>1, <1>29 DEF X!TheyCopy
  <2> QED  BY <1>1, <1>3, <1>29, <2>2, <2>3 DEF X!TheyCopy, X!TypeOK, X!own
<1>30. CASE X!TheyLeave
  <2>1. selection' \in X!Selections /\ call' \in X!Calls  BY <1>28, <1>30 DEF X!TheyLeave, X!Selections
  <2> QED  BY <1>1, <1>3, <1>30, <2>1 DEF X!TheyLeave, X!TypeOK, X!own, X!queue
<1>31. CASE X!TheyRequest
  BY <1>1, <1>3, <1>31 DEF X!TheyRequest, X!TypeOK, X!server, X!own
<1>32. CASE X!TheyAnswer
  <2>1. PICK i \in 1 .. Len(asked) :
          /\ asked' = X!Without(i)
          /\ \/ /\ notifies' = Append(notifies, FALSE)
                /\ UNCHANGED <<property, changes, transfer>>
             \/ /\ notifies' = Append(notifies, TRUE)
                /\ changes' = changes + 1
                /\ \/ /\ property' \in {[type |-> "unreadable"],
                                       [type |-> "whole", text |-> asked[i].text, encoding |-> asked[i].target]}
                      /\ UNCHANGED transfer
                   \/ /\ property' = [type |-> "incr"]
                      /\ transfer' = [text |-> asked[i].text, encoding |-> asked[i].target, n |-> 1]
             \/ UNCHANGED <<notifies, property, changes, transfer>>
          /\ Len(notifies') <= MaxQueued /\ changes' <= MaxQueued + 1
          /\ UNCHANGED <<selection, X!own, clears, requests, call, alive>> /\ out' = X!Silent
    BY <1>32 DEF X!TheyAnswer, X!own
  <2>2. asked[i].text \in Texts /\ asked[i].target \in X!Targets  BY <1>12
  <2>3. asked' \in Seq([text : Texts, target : X!Targets])  BY <1>12, <2>1
  <2>4. /\ notifies' \in Seq(BOOLEAN)
        /\ changes' \in 0 .. MaxQueued + 1
        /\ property' \in X!Contents
        /\ transfer' = X!NoTransfer \/ transfer' \in [text : Texts, encoding : X!Targets, n : 1 .. MaxChunks + 2]
    <3> DEFINE Typed == /\ notifies \in Seq(BOOLEAN)
                        /\ changes \in 0 .. MaxQueued + 1
                        /\ property \in X!Contents
                        /\ \/ transfer = X!NoTransfer
                           \/ transfer \in [text : Texts, encoding : X!Targets, n : 1 .. MaxChunks + 2]
    <3>1. CASE notifies' = Append(notifies, FALSE) /\ UNCHANGED <<property, changes, transfer>>
      BY <1>1, <1>11, <3>1
    <3>2. ASSUME notifies' = Append(notifies, TRUE), changes' = changes + 1, changes' <= MaxQueued + 1,
                 property' \in {[type |-> "unreadable"],
                               [type |-> "whole", text |-> asked[i].text, encoding |-> asked[i].target]},
                 UNCHANGED transfer
          PROVE  Typed'
      <4>1. notifies' \in Seq(BOOLEAN)  BY <1>11, <3>2
      <4>2. changes' \in 0 .. MaxQueued + 1  BY <1>1, <3>2
      <4>3. property' \in X!Contents  BY <2>2, <3>2 DEF X!Contents
      <4> QED  BY <1>1, <3>2, <4>1, <4>2, <4>3
    <3>3. ASSUME notifies' = Append(notifies, TRUE), changes' = changes + 1, changes' <= MaxQueued + 1,
                 property' = [type |-> "incr"],
                 transfer' = [text |-> asked[i].text, encoding |-> asked[i].target, n |-> 1]
          PROVE  Typed'
      <4>1. notifies' \in Seq(BOOLEAN)  BY <1>11, <3>3
      <4>2. changes' \in 0 .. MaxQueued + 1  BY <1>1, <3>3
      <4>3. property' \in X!Contents  BY <3>3 DEF X!Contents
      <4>4. 1 \in 1 .. MaxChunks + 2  OBVIOUS
      <4>5. transfer' \in [text : Texts, encoding : X!Targets, n : 1 .. MaxChunks + 2]  BY <2>2, <3>3, <4>4
      <4> QED  BY <4>1, <4>2, <4>3, <4>5
    <3>4. CASE UNCHANGED <<notifies, property, changes, transfer>>
      BY <1>1, <3>4
    <3> QED  BY <2>1, <3>1, <3>2, <3>3, <3>4
  <2> QED  BY <1>1, <1>3, <2>1, <2>3, <2>4 DEF X!TypeOK, X!own
<1>33. CASE X!TheySend
  <2>1. transfer \in [text : Texts, encoding : X!Targets, n : 1 .. MaxChunks + 2]  BY <1>1, <1>33 DEF X!TheySend
  <2>2. changes' \in 0 .. MaxQueued + 1  BY <1>1, <1>33, SMTT(60) DEF X!TheySend
  <2>3. property' \in X!Contents  BY <1>1, <1>33, <2>1, SMTT(60) DEF X!TheySend, X!Contents
  <2>4. transfer' = X!NoTransfer \/ transfer' \in [text : Texts, encoding : X!Targets, n : 1 .. MaxChunks + 2]
    BY <1>33, <2>1 DEF X!TheySend
  <2> QED  BY <1>1, <1>3, <1>33, <2>2, <2>3, <2>4 DEF X!TheySend, X!TypeOK, X!own
<1>34. CASE X!Tick
  <2>1. call \in Asking /\ call.idle > 0 /\ call.elapsed < MaxTicks  BY <1>4, <1>34 DEF X!Tick
  <2>2. call' = [call EXCEPT !.idle = @ - 1, !.elapsed = @ + 1, !.limit = IF @ > 0 THEN @ - 1 ELSE 0]
    BY <1>34 DEF X!Tick
  <2>3. /\ call.idle - 1 \in 0 .. ReplyTimeout /\ call.elapsed + 1 \in 0 .. MaxTicks
        /\ (IF call.limit > 0 THEN call.limit - 1 ELSE 0) \in 0 .. TransferLimit
    BY <2>1 DEF Asking
  <2>4. call' \in Asking  BY <2>1, <2>2, <2>3 DEF Asking
  <2> QED  BY <1>1, <1>3, <1>5, <1>34, <2>4 DEF X!Tick, X!TypeOK, X!server, X!own, X!queue
<1> QED
  BY <1>13, <1>14, <1>15, <1>16, <1>17, <1>18, <1>19, <1>20, <1>21, <1>22, <1>23, <1>24, <1>25, <1>26, <1>27,
     <1>29, <1>30, <1>31, <1>32, <1>33, <1>34
  DEF X!Next, X!Text, X!Dispatch, X!Others

\* Nothing is queued and nothing asked at first.
LEMMA X11TypeInit == ASSUME X!QueueAssumption PROVE X!Init => X!TypeOK
<1> SUFFICES ASSUME X!Init PROVE X!TypeOK
  OBVIOUS
<1>1. notifies \in Seq(BOOLEAN) /\ asked \in Seq([text : Texts, target : X!Targets])  BY DEF X!Init
<1>2. 0 \in 0 .. MaxQueued /\ 0 \in 0 .. MaxQueued + 1  BY DEF X!QueueAssumption
<1>3. property \in X!Contents /\ selection \in X!Selections /\ call \in X!Calls /\ out \in X!Outputs
  BY DEF X!Init, X!Contents, X!None, X!Selections, X!Calls, X!Outputs
<1> QED  BY <1>1, <1>2, <1>3 DEF X!Init, X!TypeOK

\* A step of the clipboard, or none, keeps the types.
LEMMA X11TypeStays ==
  ASSUME X!TimesAssumption, X!QueueAssumption, X!TypeOK, [X!Next]_X!vars PROVE X!TypeOK'
<1>1. CASE UNCHANGED X!vars
  BY <1>1 DEF X!vars, X!server, X!own, X!queue, X!TypeOK
<1> QED  BY <1>1, X11TypeKept

\* A transfer under way, in either direction.
Transferring ==
  [pc : {"receive", "send"}, moved : 0 .. MaxBytes, pipe : 0 .. 1, sent : 0 .. MaxBytes + 2,
   closed : BOOLEAN, idle : 0 .. IdleTimeout, elapsed : 0 .. MaxTicks]

\* Only a selection is announced without an offer (handleSelection() with a null id).
Announcement ==
  [type : {"offer", "mime"}, id : W!Offers] \cup [type : {"selection"}, id : {W!NoProxy} \cup W!Offers]
  \cup [type : {"cancelled", "send"}, id : W!Sources] \cup [type : {"leave"}]

\* The types of WaylandClipboard, where no event announces the offer that is none.
WaylandTyped ==
  /\ manager \in BOOLEAN /\ seat \in BOOLEAN /\ device \in BOOLEAN
  /\ source \in {W!NoProxy} \cup W!Sources /\ ownedText \in Texts \cup {W!Empty}
  /\ offers \in [all : SUBSET W!Offers, text : SUBSET W!Offers] /\ offers.text \subseteq offers.all
  /\ offered \in {W!NoProxy} \cup W!Offers /\ announced \in {W!NoProxy} \cup W!Offers
  /\ selection \in {W!Nobody, W!Them} \cup {W!Ours(s) : s \in W!Sources}
  /\ declined \in BOOLEAN /\ readable \in BOOLEAN /\ dragging \in BOOLEAN
  /\ events \in Seq(Announcement)
  /\ made \in [sources : {0} \cup W!Sources, offers : {0} \cup W!Offers]
  /\ call = W!Idle \/ call \in Transferring
  /\ out.what \in {"nothing", "own", "read"}

\* Nothing is announced at first.
LEMMA WaylandTypedInit == W!Init => WaylandTyped
<1> SUFFICES ASSUME W!Init PROVE WaylandTyped
  OBVIOUS
<1>1. events \in Seq(Announcement)  BY DEF W!Init
<1>2. offers \in [all : SUBSET W!Offers, text : SUBSET W!Offers] /\ offers.text \subseteq offers.all
  BY DEF W!Init
<1> QED  BY <1>1, <1>2 DEF WaylandTyped, W!Init, W!Silent

\* The types of the module are among them.
LEMMA WaylandTypedIsTyped == WaylandTyped => W!TypeOK
<1> SUFFICES ASSUME WaylandTyped PROVE W!TypeOK
  OBVIOUS
<1>1. events \in Seq([type : {"offer", "mime", "selection"}, id : {W!NoProxy} \cup W!Offers]
                    \cup [type : {"cancelled", "send"}, id : W!Sources] \cup [type : {"leave"}])
  <2> DEFINE Wide == [type : {"offer", "mime", "selection"}, id : {W!NoProxy} \cup W!Offers]
                    \cup [type : {"cancelled", "send"}, id : W!Sources] \cup [type : {"leave"}]
  <2>1. Announcement \subseteq Wide  BY DEF Announcement
  <2>2. events \in Seq(Announcement)  BY DEF WaylandTyped
  <2> HIDE DEF Wide
  <2>3. events \in Seq(Wide)  BY <2>1, <2>2
  <2> QED  BY <2>3 DEF Wide
<1>2. W!proxies \in BOOLEAN \X BOOLEAN \X BOOLEAN  BY DEF WaylandTyped, W!proxies
<1>3. offers.all \subseteq W!Offers  BY DEF WaylandTyped
<1> QED  BY <1>1, <1>2, <1>3 DEF WaylandTyped, W!TypeOK, Transferring

\* Every step keeps them: an offer that is handled was announced by its own event.
LEMMA WaylandTypedKept ==
  ASSUME W!TimesAssumption, W!CountsAssumption, WaylandTyped, W!Next
  PROVE  WaylandTyped'
<1> USE DEF W!TimesAssumption, W!CountsAssumption
<1> DEFINE Known == /\ manager \in BOOLEAN /\ seat \in BOOLEAN /\ device \in BOOLEAN
           Own == source \in {W!NoProxy} \cup W!Sources /\ ownedText \in Texts \cup {W!Empty}
           Seen == /\ offers \in [all : SUBSET W!Offers, text : SUBSET W!Offers] /\ offers.text \subseteq offers.all
                   /\ offered \in {W!NoProxy} \cup W!Offers
           Chosen == /\ announced \in {W!NoProxy} \cup W!Offers
                     /\ selection \in {W!Nobody, W!Them} \cup {W!Ours(s) : s \in W!Sources}
                     /\ declined \in BOOLEAN /\ readable \in BOOLEAN /\ dragging \in BOOLEAN
           Queued == events \in Seq(Announcement)
           Counted == made \in [sources : {0} \cup W!Sources, offers : {0} \cup W!Offers]
           Called == (call = W!Idle \/ call \in Transferring) /\ out.what \in {"nothing", "own", "read"}
<1>1. Known /\ Own /\ Seen /\ Chosen /\ Queued /\ Counted /\ Called  BY DEF WaylandTyped
<1>2. ASSUME Known', Own', Seen', Chosen', Queued', Counted', Called' PROVE WaylandTyped'
  BY <1>2 DEF WaylandTyped
<1>3. UNCHANGED W!proxies => Known'  BY <1>1 DEF W!proxies
<1>4. UNCHANGED W!own => Own'  BY <1>1 DEF W!own
<1>5. UNCHANGED W!seen => Seen'  BY <1>1 DEF W!seen
<1>6. UNCHANGED W!compositor => Chosen'  BY <1>1 DEF W!compositor
<1>7. UNCHANGED events => Queued'  BY <1>1
<1>8. UNCHANGED made => Counted'  BY <1>1
<1>9. W!Quiet => Called'  BY <1>1 DEF W!Quiet, W!Silent
<1>10. ASSUME W!Aside, Called' PROVE WaylandTyped'
  BY <1>2, <1>3, <1>4, <1>5, <1>6, <1>7, <1>8, <1>10 DEF W!Aside
<1>11. W!WithoutSource(source) \in {W!Nobody, W!Them} \cup {W!Ours(s) : s \in W!Sources}
  BY <1>1 DEF W!WithoutSource
<1>12. ASSUME NEW complete, W!Finish(complete) PROVE Called'
  BY <1>12 DEF W!Finish, W!Silent
<1>13. ASSUME NEW type, W!Handle(type) PROVE Queued' /\ Head(events) \in Announcement /\ Head(events).type = type
  <2>1. events # <<>> /\ events' = Tail(events) /\ Head(events).type = type  BY <1>13 DEF W!Handle
  <2>2. events \in Seq(Announcement)  BY <1>1
  <2>3. events' \in Seq(Announcement) /\ Head(events) \in Announcement  BY <2>1, <2>2
  <2> QED  BY <2>1, <2>3
<1>14. ASSUME NEW es \in Seq(Announcement), W!Send(es) PROVE Queued'
  <2>1. events \in Seq(Announcement) /\ events' = events \o es  BY <1>1, <1>14 DEF W!Send
  <2> QED  BY <2>1
<1>15. \A o \in {W!NoProxy} \cup W!Offers :
         LET kept == W!PruneOffers(o)
         IN  kept \in [all : SUBSET W!Offers, text : SUBSET W!Offers] /\ kept.text \subseteq kept.all
  BY <1>1 DEF W!PruneOffers
<1> HIDE DEF Known, Own, Seen, Chosen, Queued, Counted, Called
<1>16. CASE W!AdoptManager \/ W!AttachSeat
  <2>1. Known'  BY <1>1, <1>16 DEF W!AdoptManager, W!AttachSeat, Known
  <2>2. /\ W!Quiet /\ UNCHANGED <<W!own, W!seen, W!compositor, events, made>>
    BY <1>16 DEF W!AdoptManager, W!AttachSeat
  <2> QED  BY <1>2, <1>4, <1>5, <1>6, <1>7, <1>8, <1>9, <2>1, <2>2
<1>17. CASE W!DetachSeat
  <2>1. Known' /\ Own'  BY <1>1, <1>17 DEF W!DetachSeat, Known, Own
  <2>2. Seen'  BY <1>17 DEF W!DetachSeat, Seen
  <2>3. Chosen'  BY <1>1, <1>11, <1>17 DEF W!DetachSeat, Chosen
  <2>4. Queued'  BY <1>17 DEF W!DetachSeat, Queued
  <2>5. W!Quiet /\ UNCHANGED made  BY <1>17 DEF W!DetachSeat
  <2> QED  BY <1>2, <1>8, <1>9, <2>1, <2>2, <2>3, <2>4, <2>5
<1>18. CASE W!SetText
  <2>1. /\ made.sources < MaxSources /\ made' = [made EXCEPT !.sources = @ + 1] /\ source' = made'.sources
        /\ ownedText' \in Texts /\ declined' \in BOOLEAN
        /\ selection' = IF declined' THEN W!WithoutSource(source) ELSE W!Ours(source')
        /\ W!Quiet /\ UNCHANGED <<W!proxies, W!seen, announced, readable, dragging, events>>
    BY <1>18 DEF W!SetText
  <2>2. made.sources + 1 \in W!Sources  BY <1>1, <2>1 DEF Counted, W!Sources
  <2>3. Counted' /\ source' \in W!Sources  BY <1>1, <2>1, <2>2 DEF Counted
  <2>4. Own'  BY <2>1, <2>3 DEF Own
  <2>5. Chosen'  BY <1>1, <1>11, <2>1, <2>3 DEF Chosen
  <2> QED  BY <1>2, <1>3, <1>5, <1>7, <1>9, <2>1, <2>3, <2>4, <2>5
<1>19. CASE W!TextAtOnce
  <2>1. out'.what = "own" /\ call' = call /\ W!Aside  BY <1>19 DEF W!TextAtOnce, W!Aside
  <2> QED  BY <1>1, <1>10, <2>1 DEF Called
<1>20. ASSUME NEW direction \in {"receive", "send"}, NEW closed \in BOOLEAN
       PROVE  W!Transfer(direction) \in Transferring /\ [W!Transfer(direction) EXCEPT !.closed = closed] \in Transferring
  BY DEF W!Transfer, Transferring
<1>21. CASE W!TextOfTheirs
  <2>1. PICK gone \in BOOLEAN : call' = [W!Transfer("receive") EXCEPT !.closed = gone]
    BY <1>21 DEF W!TextOfTheirs
  <2>2. out' = W!Silent /\ W!Aside  BY <1>21 DEF W!TextOfTheirs, W!Aside
  <2>3. call' \in Transferring  BY <1>20, <2>1
  <2> QED  BY <1>10, <2>2, <2>3 DEF Called, W!Silent
<1>22. ASSUME call \in Transferring, call' \in Transferring, out' = W!Silent, W!Aside PROVE WaylandTyped'
  BY <1>10, <1>22 DEF Called, W!Silent
<1>23. call.pc \in {"receive", "send"} => call \in Transferring
  BY <1>1 DEF Called, W!Idle
<1>24. ASSUME call \in Transferring, NEW pipe \in 0 .. 1, NEW moved \in 0 .. MaxBytes, NEW idle \in 0 .. IdleTimeout
       PROVE  [call EXCEPT !.pipe = pipe, !.moved = moved, !.idle = idle] \in Transferring
  BY <1>24 DEF Transferring
<1>25. ASSUME call \in Transferring, NEW pipe \in 0 .. 1, NEW sent \in 0 .. MaxBytes + 2
       PROVE  [call EXCEPT !.pipe = pipe, !.sent = sent] \in Transferring
  BY <1>25 DEF Transferring
<1>26. 0 \in 0 .. 1 /\ 1 \in 0 .. 1  OBVIOUS
<1>27. CASE W!ReceivePiece
  <2>1. CASE call.moved = MaxBytes
    BY <1>10, <1>12, <1>27, <2>1 DEF W!ReceivePiece
  <2>2. CASE call.moved # MaxBytes
    <3>1. /\ call' = [call EXCEPT !.pipe = 0, !.moved = @ + 1, !.idle = IdleTimeout] /\ out' = W!Silent
          /\ call.pc = "receive" /\ W!Aside
      BY <1>27, <2>2 DEF W!ReceivePiece
    <3>2. call \in Transferring  BY <1>23, <3>1
    <3>3. call.moved + 1 \in 0 .. MaxBytes  BY <2>2, <3>2 DEF Transferring
    <3>4. IdleTimeout \in 0 .. IdleTimeout  OBVIOUS
    <3>5. call' \in Transferring  BY <1>24, <1>26, <3>1, <3>2, <3>3, <3>4
    <3> QED  BY <1>22, <3>1, <3>2, <3>5
  <2> QED  BY <2>1, <2>2
<1>28. CASE W!ReceiveEnd \/ W!SendBroken \/ W!TransferTimedOut
  BY <1>10, <1>12, <1>28 DEF W!ReceiveEnd, W!SendBroken, W!TransferTimedOut
<1>29. CASE W!SendPiece
  <2>1. CASE W!Finish(TRUE)
    BY <1>10, <1>12, <1>29, <2>1 DEF W!SendPiece
  <2>2. CASE /\ call.moved < MaxBytes /\ out' = W!Silent
             /\ call' = [call EXCEPT !.pipe = 1, !.moved = @ + 1, !.idle = IdleTimeout]
    <3>1. call \in Transferring /\ W!Aside  BY <1>23, <1>29 DEF W!SendPiece
    <3>2. call.moved + 1 \in 0 .. MaxBytes  BY <2>2, <3>1 DEF Transferring
    <3>3. IdleTimeout \in 0 .. IdleTimeout  OBVIOUS
    <3>4. call' \in Transferring  BY <1>24, <1>26, <2>2, <3>1, <3>2, <3>3
    <3> QED  BY <1>22, <2>2, <3>1, <3>4
  <2> QED  BY <1>29, <2>1, <2>2 DEF W!SendPiece
<1>30. CASE W!Tick
  <2>1. call \in Transferring  BY <1>1, <1>30 DEF W!Tick, W!Busy, Called
  <2>2. call.idle > 0 /\ call.elapsed < MaxTicks /\ call' = [call EXCEPT !.idle = @ - 1, !.elapsed = @ + 1]
    BY <1>30 DEF W!Tick, W!InTime
  <2>3. call.idle - 1 \in 0 .. IdleTimeout /\ call.elapsed + 1 \in 0 .. MaxTicks
    BY <2>1, <2>2 DEF Transferring
  <2>4. call' \in Transferring  BY <2>1, <2>2, <2>3 DEF Transferring
  <2> QED  BY <1>22, <1>30, <2>1, <2>4 DEF W!Tick
<1>31. CASE W!PeerMoves
  <2>1. call \in Transferring  BY <1>1, <1>31 DEF W!PeerMoves, W!Busy, Called
  <2>2. CASE call.sent < MaxBytes + 2 /\ call' = [call EXCEPT !.pipe = 1, !.sent = @ + 1]
    <3>1. call.sent + 1 \in 0 .. MaxBytes + 2  BY <2>1, <2>2 DEF Transferring
    <3>2. call' \in Transferring  BY <1>25, <1>26, <2>1, <2>2, <3>1
    <3> QED  BY <1>22, <1>31, <2>1, <3>2 DEF W!PeerMoves
  <2>3. CASE call' = [call EXCEPT !.pipe = 0]
    <3>1. call' \in Transferring  BY <2>1, <2>3 DEF Transferring
    <3> QED  BY <1>22, <1>31, <2>1, <3>1 DEF W!PeerMoves
  <2>4. CASE call' = [call EXCEPT !.closed = TRUE]
    <3>1. call' \in Transferring  BY <2>1, <2>4 DEF Transferring
    <3> QED  BY <1>22, <1>31, <2>1, <3>1 DEF W!PeerMoves
  <2> QED  BY <1>31, <2>2, <2>3, <2>4 DEF W!PeerMoves
<1>32. CASE W!HandleDataOffer
  <2>1. W!It \in W!Offers /\ Queued'
    <3>1. Queued' /\ Head(events) \in Announcement /\ Head(events).type = "offer"
      BY <1>13, <1>32 DEF W!HandleDataOffer
    <3> QED  BY <3>1 DEF Announcement, W!It
  <2>2. offers' = [offers EXCEPT !.all = @ \cup {W!It}] /\ offered' = offered
    BY <1>32 DEF W!HandleDataOffer
  <2>3. Seen'  BY <1>1, <2>1, <2>2 DEF Seen
  <2> QED  BY <1>2, <1>3, <1>4, <1>6, <1>8, <1>9, <1>32, <2>1, <2>3 DEF W!HandleDataOffer
<1>33. CASE W!HandleOfferMime
  <2>1. Queued'  BY <1>13, <1>33 DEF W!HandleOfferMime
  <2>2. offers' = [offers EXCEPT !.text = @ \cup ({W!It} \cap offers.all)] /\ offered' = offered
    BY <1>33 DEF W!HandleOfferMime
  <2>3. Seen'  BY <1>1, <2>2 DEF Seen
  <2> QED  BY <1>2, <1>3, <1>4, <1>6, <1>8, <1>9, <1>33, <2>1, <2>3 DEF W!HandleOfferMime
<1>34. CASE W!HandleDragOver
  <2>1. Queued'  BY <1>13, <1>34 DEF W!HandleDragOver
  <2>2. offers' = W!PruneOffers(offered) /\ offered' = offered  BY <1>34 DEF W!HandleDragOver
  <2>3. offered \in {W!NoProxy} \cup W!Offers  BY <1>1 DEF Seen
  <2>4. Seen'  BY <1>15, <2>2, <2>3 DEF Seen
  <2> QED  BY <1>2, <1>3, <1>4, <1>6, <1>8, <1>9, <1>34, <2>1, <2>4 DEF W!HandleDragOver
<1>35. CASE W!HandleSelection
  <2>1. Queued'  BY <1>13, <1>35 DEF W!HandleSelection
  <2>2. offers' = W!PruneOffers(offered') /\ offered' = IF W!It \in offers.all THEN W!It ELSE W!NoProxy
    BY <1>35 DEF W!HandleSelection
  <2>3. offered' \in {W!NoProxy} \cup W!Offers  BY <1>1, <2>2 DEF Seen
  <2>4. Seen'  BY <1>15, <2>2, <2>3 DEF Seen
  <2> QED  BY <1>2, <1>3, <1>4, <1>6, <1>8, <1>9, <1>35, <2>1, <2>4 DEF W!HandleSelection
<1>36. CASE W!HandleSourceSend
  <2>1. Queued'  BY <1>13, <1>36 DEF W!HandleSourceSend
  <2>2. call' = W!Idle \/ call' \in Transferring
    <3>1. PICK known \in BOOLEAN : call' = IF known /\ W!It = source THEN W!Transfer("send") ELSE W!Idle
      BY <1>36 DEF W!HandleSourceSend
    <3>2. W!Transfer("send") \in Transferring  BY <1>20
    <3> QED  BY <3>1, <3>2
  <2>3. Called'  BY <1>36, <2>2 DEF W!HandleSourceSend, Called, W!Silent
  <2> QED  BY <1>2, <1>3, <1>4, <1>5, <1>6, <1>8, <1>36, <2>1, <2>3 DEF W!HandleSourceSend
<1>37. CASE W!HandleSourceCancelled
  <2>1. Queued'  BY <1>13, <1>37 DEF W!HandleSourceCancelled
  <2>2. Own'  BY <1>1, <1>37 DEF W!HandleSourceCancelled, W!SourceLost, Own, W!own
  <2> QED  BY <1>2, <1>3, <1>5, <1>6, <1>8, <1>9, <1>37, <2>1, <2>2 DEF W!HandleSourceCancelled
<1>38. call' = call /\ out' = W!Silent => Called'  BY <1>1 DEF Called, W!Silent
<1>39. CASE W!TheyCopy
  <2>1. Chosen'  BY <1>1, <1>39 DEF W!TheyCopy, Chosen
  <2>2. Queued'
    <3>1. CASE selection \in {W!Ours(source)}
      <4>1. selection = W!Ours(source) /\ selection \in {W!Nobody, W!Them} \cup {W!Ours(s) : s \in W!Sources}
        BY <1>1, <3>1 DEF Chosen
      <4>2. source \in W!Sources  BY <4>1 DEF W!Ours, W!Nobody, W!Them
      <4>3. [type |-> "cancelled", id |-> source] \in Announcement  BY <4>2 DEF Announcement
      <4>4. W!Send(<<[type |-> "cancelled", id |-> source]>>)  BY <1>39, <3>1 DEF W!TheyCopy
      <4>5. <<[type |-> "cancelled", id |-> source]>> \in Seq(Announcement)  BY <4>3
      <4> QED  BY <1>14, <4>4, <4>5
    <3>2. CASE selection \notin {W!Ours(source)}
      <4>1. W!Send(<<>>) /\ <<>> \in Seq(Announcement)  BY <1>39, <3>2 DEF W!TheyCopy
      <4> QED  BY <1>14, <4>1
    <3> QED  BY <3>1, <3>2
  <2> QED  BY <1>2, <1>3, <1>4, <1>5, <1>8, <1>38, <1>39, <2>1, <2>2 DEF W!TheyCopy
<1>40. ASSUME W!NewOffer
       PROVE  /\ Counted' /\ made'.offers \in W!Offers
              /\ W!TheOffer \in Announcement /\ W!ItsFormat \in Announcement
  <2>1. made' = [made EXCEPT !.offers = @ + 1] /\ made.offers + 1 \in W!Offers
    BY <1>1, <1>40 DEF W!NewOffer, Counted, W!Offers
  <2>2. Counted' /\ made'.offers \in W!Offers  BY <1>1, <2>1 DEF Counted
  <2> QED  BY <2>2 DEF W!TheOffer, W!ItsFormat, Announcement
<1>41. \A o \in {W!NoProxy} \cup W!Offers : W!Selected(o) \in Announcement
  BY DEF W!Selected, Announcement
<1>42. CASE W!AnnounceSelection
  <2>1. W!NewOffer /\ announced' = made'.offers  BY <1>42 DEF W!AnnounceSelection
  <2>2. W!Selected(announced') \in Announcement  BY <1>40, <1>41, <2>1
  <2>3. /\ <<W!TheOffer, W!ItsFormat, W!Selected(announced')>> \in Seq(Announcement)
        /\ <<W!TheOffer, W!Selected(announced')>> \in Seq(Announcement)
    BY <1>40, <2>1, <2>2
  <2>4. \/ W!Send(<<W!TheOffer, W!ItsFormat, W!Selected(announced')>>)
        \/ W!Send(<<W!TheOffer, W!Selected(announced')>>)
    BY <1>42 DEF W!AnnounceSelection
  <2>5. Queued'  BY <1>14, <2>3, <2>4
  <2>6. Chosen'  BY <1>1, <1>40, <1>42, <2>1 DEF W!AnnounceSelection, Chosen
  <2> QED  BY <1>2, <1>3, <1>4, <1>5, <1>38, <1>40, <1>42, <2>1, <2>5, <2>6 DEF W!AnnounceSelection
<1>43. CASE W!AnnounceNothing
  <2>1. Chosen'  BY <1>1, <1>43 DEF W!AnnounceNothing, Chosen
  <2>2. <<W!Selected(W!NoProxy)>> \in Seq(Announcement)  BY <1>41
  <2>3. Queued'  BY <1>14, <1>43, <2>2 DEF W!AnnounceNothing
  <2> QED  BY <1>2, <1>3, <1>4, <1>5, <1>8, <1>38, <1>43, <2>1, <2>3 DEF W!AnnounceNothing
<1>44. CASE W!DragEnters
  <2>1. W!NewOffer /\ W!Send(<<W!TheOffer, W!ItsFormat>>)  BY <1>44 DEF W!DragEnters
  <2>2. <<W!TheOffer, W!ItsFormat>> \in Seq(Announcement)  BY <1>40, <2>1
  <2>3. Queued'  BY <1>14, <2>1, <2>2
  <2>4. Chosen'  BY <1>1, <1>44 DEF W!DragEnters, Chosen
  <2> QED  BY <1>2, <1>3, <1>4, <1>5, <1>38, <1>40, <1>44, <2>1, <2>3, <2>4 DEF W!DragEnters
<1>45. CASE W!DragLeaves
  <2>1. <<[type |-> "leave"]>> \in Seq(Announcement)
    <3>1. [type |-> "leave"] \in Announcement  BY DEF Announcement
    <3> QED  BY <3>1
  <2>2. Queued'  BY <1>14, <1>45, <2>1 DEF W!DragLeaves
  <2>3. Chosen'  BY <1>1, <1>45 DEF W!DragLeaves, Chosen
  <2> QED  BY <1>2, <1>3, <1>4, <1>5, <1>8, <1>38, <1>45, <2>2, <2>3 DEF W!DragLeaves
<1>46. CASE W!TheyPaste
  <2>1. source \in W!Sources  BY <1>1, <1>46 DEF W!TheyPaste, Own
  <2>2. <<[type |-> "send", id |-> source]>> \in Seq(Announcement)
    <3>1. [type |-> "send", id |-> source] \in Announcement  BY <2>1 DEF Announcement
    <3> QED  BY <3>1
  <2>3. Queued'  BY <1>14, <1>46, <2>2 DEF W!TheyPaste
  <2> QED  BY <1>2, <1>3, <1>4, <1>5, <1>6, <1>8, <1>38, <1>46, <2>3 DEF W!TheyPaste
<1> QED
  BY <1>16, <1>17, <1>18, <1>19, <1>21, <1>27, <1>28, <1>29, <1>30, <1>31, <1>32, <1>33, <1>34, <1>35,
     <1>36, <1>37, <1>39, <1>42, <1>43, <1>44, <1>45, <1>46
  DEF W!Next, W!Client, W!Transfers, W!Dispatch, W!Compositor

\* A step of the clipboard, or none, keeps the types.
LEMMA WaylandTypeStays ==
  ASSUME W!TimesAssumption, W!CountsAssumption, WaylandTyped, [W!Next]_W!vars PROVE WaylandTyped'
<1>1. CASE UNCHANGED W!vars
  BY <1>1 DEF W!vars, W!proxies, W!own, W!seen, W!compositor, WaylandTyped
<1> QED  BY <1>1, WaylandTypedKept

-----------------------------------------------------------------------------
(***************************************************************************)
(* The run.                                                                *)
(***************************************************************************)

\* The invariants of the three parts' proofs, each of the part it is about.
X11Inv == system = "x11" => X!TypeOK /\ X11OwnInv /\ StallInv /\ FindInv
WaylandInv ==
  system = "wayland" => WaylandTyped /\ OfferInv /\ TransferInv /\ FormatInv /\ ReadsHeld
DecodingInv == system = "text" => TextInv

\* A behaviour of the run begins as one of the part it is of, and stays one.
LEMMA StartsAsPart ==
  Init => /\ system = "x11" => X!Init
          /\ system = "wayland" => W!Init
          /\ system = "text" => T!Init
BY DEF Init

\* Its steps are steps of that part.
LEMMA StepsAsPart ==
  ASSUME [Next]_<<system, both, onlyX, onlyW, onlyT>>
  PROVE  /\ system' = system
         /\ system = "x11" => [X!Next]_X!vars
         /\ system = "wayland" => [W!Next]_W!vars
         /\ system = "text" => [T!Next]_T!vars
<1>1. CASE Next
  BY <1>1 DEF Next
<1>2. CASE UNCHANGED <<system, both, onlyX, onlyW, onlyT>>
  BY <1>2 DEF both, onlyX, onlyW, onlyT, X!vars, X!server, X!own, X!queue, W!vars, W!proxies, W!own, W!seen,
     W!compositor, T!vars
<1> QED  BY <1>1, <1>2

\* The invariants hold of every behaviour of the run.
THEOREM RunInvariance == Spec => [](X11Inv /\ WaylandInv /\ DecodingInv)
<1>1. Init => X11Inv /\ WaylandInv /\ DecodingInv
  <2> SUFFICES ASSUME Init PROVE X11Inv /\ WaylandInv /\ DecodingInv
    OBVIOUS
  <2>1. X11Inv
    BY StartsAsPart, X11TypeInit, X11OwnInvInit, StallInvInit, FindInvInit, X11Assumption DEF X11Inv
  <2>2. WaylandInv
    BY StartsAsPart, WaylandTypedInit, OfferInvInit, TransferInvInit, FormatInvInit DEF WaylandInv
  <2>3. DecodingInv
    BY StartsAsPart, TextInvInit, TextAssumption DEF DecodingInv
  <2> QED  BY <2>1, <2>2, <2>3
<1>2. X11Inv /\ WaylandInv /\ DecodingInv /\ [Next]_<<system, both, onlyX, onlyW, onlyT>>
      => X11Inv' /\ WaylandInv' /\ DecodingInv'
  <2> SUFFICES ASSUME X11Inv, WaylandInv, DecodingInv, [Next]_<<system, both, onlyX, onlyW, onlyT>>
               PROVE  X11Inv' /\ WaylandInv' /\ DecodingInv'
    OBVIOUS
  <2>1. X11Inv'
    <3>1. system = "x11" => X!TypeOK'  BY StepsAsPart, X11TypeStays, X11Assumption DEF X11Inv
    <3>2. system = "x11" => X11OwnInv' /\ StallInv' /\ FindInv'
      BY StepsAsPart, X11OwnInvKept, StallInvKept, FindInvKept, X11Assumption DEF X11Inv
    <3> QED  BY <3>1, <3>2, StepsAsPart DEF X11Inv
  <2>2. WaylandInv'
    <3>1. system = "wayland" => WaylandTyped'
      BY StepsAsPart, WaylandTypeStays, WaylandAssumption DEF WaylandInv
    <3>2. system = "wayland" => OfferInv' /\ TransferInv'
      BY StepsAsPart, OfferInvKept, TransferInvKept, WaylandAssumption DEF WaylandInv
    <3>3. system = "wayland" => FormatInv' /\ ReadsHeld'
      BY StepsAsPart, FormatInvKept DEF WaylandInv
    <3> QED  BY <3>1, <3>2, <3>3, StepsAsPart DEF WaylandInv
  <2>3. DecodingInv'
    BY StepsAsPart, TextInvKept DEF DecodingInv
  <2> QED  BY <2>1, <2>2, <2>3
<1> QED  BY <1>1, <1>2, PTL DEF Spec

\* The types of the clipboards and of the text hold in every behaviour of the run (the members of
\* X11Clipboard and WaylandClipboard, the locals of utf8::decode()).
THEOREM TypeCorrectness == Spec => []TypeOK
<1>1. X11Inv /\ WaylandInv /\ DecodingInv => TypeOK
  <2>1. TextInv => T!TypeOK  BY DEF TextInv, T!TypeOK
  <2> QED  BY <2>1, WaylandTypedIsTyped DEF X11Inv, WaylandInv, DecodingInv, TypeOK, OnX11, OnWayland, OnText
<1> QED  BY <1>1, RunInvariance, PTL

\* What either clipboard takes for its own is the selection, or the news that it is not is on
\* its way (owned_ and source_).
THEOREM OwnershipIsKnown == Spec => []OwnershipKnown
<1>1. X11Inv /\ WaylandInv => OwnershipKnown
  BY DEF X11Inv, WaylandInv, OwnershipKnown, OnX11, OnWayland, X11OwnInv, OfferInv, WaylandOwnInv
<1> QED  BY <1>1, RunInvariance, PTL

\* Neither clipboard stalls the event thread past its deadlines (text(), receive(), writeAll()).
THEOREM DeadlinesAreKept == Spec => []DeadlinesKept
<1>1. X11Inv /\ WaylandInv => DeadlinesKept
  BY StallInvBounds, X11Assumption
  DEF X11Inv, WaylandInv, DeadlinesKept, OnX11, OnWayland, TransferInv, InTransit, W!TransferBounded
<1> QED  BY <1>1, RunInvariance, PTL

\* selection_ and offers_ are what the compositor announced (handleSelection(), pruneOffers()).
THEOREM OffersAreFollowed == Spec => []OffersFollowSelection
<1>1. X11Inv /\ WaylandInv => OffersFollowSelection
  BY OfferInvFollows DEF WaylandInv, OffersFollowSelection, OnWayland
<1> QED  BY <1>1, RunInvariance, PTL

\* On X11 a call of text() that begins with nothing of an earlier one on its way returns what the
\* selection held at some moment of the call, or nothing.  On Wayland text() reads the offer last
\* announced, once that announcement was handled, and returns all of it or nothing; without a source
\* of its own it asks nobody only if that offer was announced without text.
THEOREM SelectionIsRead == Spec => []ReadIsSelection
<1>1. X11Inv /\ WaylandInv => ReadIsSelection
  BY DEF X11Inv, WaylandInv, ReadIsSelection, OnX11, OnWayland, FindInv, TransferInv, FormatInv
<1> QED  BY <1>1, RunInvariance, PTL

\* No byte of a text hides a character of it, what comes out is Unicode, and encode() gives it
\* back (utf8::decode(), decodeOne() and encode(), Utf8.hpp).
THEOREM NoCharacterIsLost == Spec => []CharactersAreKept
<1>1. DecodingInv => CharactersAreKept
  BY TextInvDecodes DEF DecodingInv, CharactersAreKept, OnText, TextInv
<1> QED  BY <1>1, RunInvariance, PTL

=============================================================================
