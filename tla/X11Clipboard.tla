------------------------------ MODULE X11Clipboard ------------------------------
(***************************************************************************)
(* The X11 clipboard (X11Clipboard.cpp): the CLIPBOARD selection, owned by *)
(* this window or by other clients, the text this client serves, and       *)
(* text(), which asks the owner and waits for the answer, whole or in      *)
(* chunks (INCR), with deadlines, while nothing else is dispatched.        *)
(*                                                                         *)
(* The X server and the other clients are external.  They answer late,     *)
(* refuse, trickle, or never answer.                                       *)
(***************************************************************************)
EXTENDS Naturals, Sequences

CONSTANTS
  Texts,          \* what can be copied
  LargeTexts,     \* those that do not fit one request (maxPropertyBytes)
  ReplyTimeout,   \* kReplyTimeout, in ticks
  TransferLimit,  \* kTransferLimit, in ticks
  MaxChunks,      \* kMaxBytes, in chunks
  MaxAsked,       \* bound: conversions that wait for their owner
  MaxQueued,      \* bound: events of one type in the queue
  MaxTicks        \* bound on the time one call takes, past what is promised

TimesAssumption == ReplyTimeout \in Nat /\ TransferLimit \in Nat /\ MaxTicks \in Nat
QueueAssumption == MaxChunks \in Nat /\ MaxAsked \in Nat /\ MaxQueued \in Nat

Empty == "empty"      \* std::string{}
Garbled == "garbled"  \* bytes that are no client's text
Targets == {"utf8", "string"}

TextsAssumption == Texts \cap {Empty, Garbled} = {} /\ LargeTexts \subseteq Texts

VARIABLES
  selection,  \* server: the owner of CLIPBOARD and its text
  owned,      \* owned_
  ownedText,  \* ownedText_
  property,   \* server: what the WMA_CLIPBOARD property of the window holds
  clears,     \* queued SelectionClear events
  requests,   \* queued SelectionRequest events, whose targets are read as they are handled
  notifies,   \* queued SelectionNotify events
  changes,    \* queued PropertyNotify events: a new value of the property
  asked,      \* conversions the owner of that time has not answered
  transfer,   \* the INCR transfer of another client to this window, or NoTransfer
  call,       \* text() under way, or Idle
  out,        \* what the last step returned to its caller, or sent to another client
  alive       \* the clipboard is not destroyed, or is being destroyed

own == <<owned, ownedText>>
server == <<selection, property, asked, transfer>>
queue == <<clears, requests, notifies, changes>>
vars == <<server, own, queue, call, out, alive>>

Nobody == [owner |-> "none", text |-> Empty]
Ours(text) == [owner |-> "us", text |-> text]
Theirs(text) == [owner |-> "them", text |-> text]
Selections == {Nobody} \cup {Ours(t) : t \in Texts} \cup {Theirs(t) : t \in Texts}

None == [type |-> "none"]
Contents ==
  {None} \cup [type : {"incr", "unreadable"}]
  \cup [type : {"whole"}, text : Texts, encoding : Targets]
  \cup [type : {"chunk"}, text : Texts, encoding : Targets, n : 0 .. MaxChunks + 1]

NoTransfer == [n |-> 0]
Idle == [pc |-> "idle"]

Calls ==
  {Idle} \cup
  [pc : {"ask", "reply", "chunk"}, target : Targets, n : 0 .. MaxChunks, text : Texts \cup {Empty, Garbled},
   idle : 0 .. ReplyTimeout, limit : 0 .. TransferLimit, elapsed : 0 .. MaxTicks,
   clean : BOOLEAN, during : SUBSET (Texts \cup {Empty})]

Silent == [what |-> "nothing"]
Outputs ==
  {Silent} \cup
  [what : {"read"}, result : Texts \cup {Empty, Garbled}, during : SUBSET (Texts \cup {Empty}),
   clean : BOOLEAN, failed : BOOLEAN] \cup
  [what : {"served"}, property : BOOLEAN, text : Texts \cup {Empty}]

TypeOK ==
  /\ selection \in Selections
  /\ owned \in BOOLEAN /\ ownedText \in Texts \cup {Empty}
  /\ property \in Contents
  /\ clears \in 0 .. MaxQueued /\ requests \in 0 .. MaxQueued /\ changes \in 0 .. MaxQueued + 1
  /\ notifies \in Seq(BOOLEAN)
  /\ asked \in Seq([text : Texts, target : Targets])
  /\ transfer = NoTransfer \/ transfer \in [text : Texts, encoding : Targets, n : 1 .. MaxChunks + 2]
  /\ call \in Calls
  /\ out \in Outputs
  /\ alive \in {"yes", "closing", "no"}

\* owned_ is the client's idea of a fact the server decides.
Init ==
  /\ selection \in {Nobody} \cup {Theirs(t) : t \in Texts}
  /\ owned = FALSE /\ ownedText = Empty
  /\ property = None
  /\ clears = 0 /\ requests = 0 /\ notifies = <<>> /\ changes = 0
  /\ asked = <<>> /\ transfer = NoTransfer
  /\ call = Idle
  /\ out = Silent
  /\ alive = "yes"

-----------------------------------------------------------------------------
(* Plausible mistakes in the code below.                                    *)

\* The announcement's own change notice is left in the queue.
KeepChanges == changes

\* A trickling owner is waited for as long as it trickles.
ChunkWithoutLimit(remaining) == ReplyTimeout

\* The news that the selection is lost takes the text and leaves the claim.
TextLost == ownedText' = Empty /\ UNCHANGED owned

-----------------------------------------------------------------------------
(* Time.  A wait ends with what it waits for, or when a deadline is over.   *)

Busy == call # Idle

Least(a, b) == IF a < b THEN a ELSE b

\* The next chunk may take the reply's time, within what is left of the transfer's.
ChunkDeadline(remaining) == Least(ReplyTimeout, remaining)

\* waitForServer(), seen from the clock.
Tick ==
  /\ Busy /\ call.pc # "ask" /\ call.idle > 0 /\ call.elapsed < MaxTicks
  /\ call' = [call EXCEPT !.idle = @ - 1, !.elapsed = @ + 1, !.limit = IF @ > 0 THEN @ - 1 ELSE 0]
  /\ UNCHANGED <<server, own, queue, alive>> /\ out' = Silent

-----------------------------------------------------------------------------
(* text()                                                                   *)

Return(result, failed) ==
  /\ call' = Idle
  /\ out' = [what |-> "read", result |-> result, during |-> call.during, clean |-> call.clean,
             failed |-> failed]

NothingOnItsWay == asked = <<>> /\ notifies = <<>> /\ transfer = NoTransfer

\* text() when nobody owns the selection, or this window does.
TextOfOurs ==
  /\ alive = "yes" /\ ~Busy /\ selection.owner # "them"
  /\ out' = [what |-> "read", result |-> IF selection.owner = "us" /\ owned THEN ownedText ELSE Empty,
             during |-> {selection.text}, clean |-> TRUE, failed |-> selection.owner = "us" /\ ~owned]
  /\ UNCHANGED <<server, own, queue, call, alive>>

\* text() when another client does: UTF8_STRING first.
TextOfTheirs ==
  /\ alive = "yes" /\ ~Busy /\ selection.owner = "them"
  /\ call' = [pc |-> "ask", target |-> "utf8", text |-> Empty, n |-> 0,
              idle |-> 0, limit |-> 0, elapsed |-> 0,
              clean |-> NothingOnItsWay, during |-> {selection.text}]
  /\ UNCHANGED <<server, own, queue, alive>> /\ out' = Silent

\* convert() up to its wait: the property goes, the request is made.  The server itself
\* refuses when the owner has gone.
Ask ==
  /\ Busy /\ call.pc = "ask"
  /\ property' = None
  /\ IF selection.owner = "them"
     THEN /\ Len(asked) < MaxAsked
          /\ asked' = Append(asked, [text |-> selection.text, target |-> call.target])
          /\ UNCHANGED notifies
     ELSE notifies' = Append(notifies, FALSE) /\ UNCHANGED asked
  /\ call' = [call EXCEPT !.pc = "reply", !.idle = ReplyTimeout]
  /\ UNCHANGED <<selection, transfer, own, clears, requests, changes, alive>> /\ out' = Silent

TimedOut ==
  /\ Busy /\ call.idle = 0
  /\ \/ call.pc = "reply" /\ notifies = <<>>
     \/ call.pc = "chunk" /\ changes = 0
  /\ Return(Empty, TRUE)
  /\ UNCHANGED <<server, own, queue, alive>>

\* The owner refuses, or what it sent cannot be taken: STRING is the second choice.
TryNext(failed) ==
  IF call.target = "utf8" THEN call' = [call EXCEPT !.pc = "ask", !.target = "string"] /\ out' = Silent
  ELSE Return(Empty, failed)

\* latin1ToUtf8() or no conversion: right when the bytes are what was asked for.
Decoded(content) == IF content.encoding = call.target THEN content.text ELSE Garbled

Replied(ready) ==
  /\ Busy /\ call.pc = "reply" /\ notifies # <<>> /\ Head(notifies) = ready
  /\ notifies' = Tail(notifies)

TakeRefusal ==
  /\ Replied(FALSE)
  /\ TryNext(TRUE)
  /\ UNCHANGED <<server, own, clears, requests, changes, alive>>

\* What is left of the queued changes once the stale ones are taken out.
StaleChanges == 0

\* An announcement: what was queued for the property before its deletion goes first.
TakeAnnouncement ==
  /\ Replied(TRUE) /\ property.type = "incr"
  /\ changes' = StaleChanges
  /\ property' = None
  /\ call' = [call EXCEPT !.pc = "chunk", !.limit = TransferLimit, !.idle = ChunkDeadline(TransferLimit)]
  /\ UNCHANGED <<selection, transfer, asked, own, clears, requests, alive>> /\ out' = Silent

\* takeProperty() reads and deletes; without bytes the next target is tried.
TakeWhole ==
  /\ Replied(TRUE) /\ property.type # "incr"
  /\ property' = None
  /\ CASE property.type = "whole" -> Return(Decoded(property), FALSE)
       [] property.type = "chunk" -> Return(IF property.n = 0 THEN Empty ELSE Garbled, FALSE)
       [] OTHER -> TryNext(property.type = "unreadable")
  /\ UNCHANGED <<selection, transfer, asked, own, clears, requests, changes, alive>>

\* readIncremental(): one chunk, the end of the transfer, or nothing to take.
NextChunk ==
  IF property.type = "chunk" /\ property.n = call.n + 1
     /\ (call.n = 0 \/ Decoded(property) = call.text)
  THEN Decoded(property) ELSE Garbled

TakeChunk ==
  /\ Busy /\ call.pc = "chunk" /\ changes > 0
  /\ changes' = changes - 1
  /\ property' = None
  /\ CASE property.type = "chunk" /\ property.n = 0 -> Return(call.text, FALSE)
       [] property.type = "whole" \/ (property.type = "chunk" /\ property.n # 0) ->
            IF call.n = MaxChunks THEN Return(Empty, TRUE)
            ELSE call' = [call EXCEPT !.n = @ + 1, !.text = NextChunk, !.idle = ChunkDeadline(call.limit)]
                 /\ out' = Silent
       [] OTHER -> Return(Empty, property.type = "unreadable")
  /\ UNCHANGED <<selection, transfer, asked, own, clears, requests, notifies, alive>>

-----------------------------------------------------------------------------
(* setText(), the events of the selection, and the end.                     *)

\* setText(): another client may take the selection before the server is asked who
\* owns it, and then this window is told it lost the selection.
SetText ==
  /\ alive = "yes" /\ ~Busy
  /\ \E text \in Texts, won \in BOOLEAN, other \in Texts :
       /\ selection' = IF won THEN Ours(text) ELSE Theirs(other)
       /\ clears' = clears + (IF won THEN 0 ELSE 1)
       /\ owned' = won
       /\ ownedText' = IF won THEN text ELSE Empty
  /\ clears' <= MaxQueued
  /\ UNCHANGED <<property, asked, transfer, requests, notifies, changes, call, alive>> /\ out' = Silent

Dispatching == alive = "yes" /\ ~Busy

SelectionLost == owned' = FALSE /\ ownedText' = Empty

HandleClear ==
  /\ Dispatching /\ clears > 0
  /\ clears' = clears - 1
  /\ SelectionLost
  /\ UNCHANGED <<server, requests, notifies, changes, call, alive>> /\ out' = Silent

\* handleRequest() and answer(): the list of targets, the text in either encoding, or a
\* refusal.
HandleRequest ==
  /\ Dispatching /\ requests > 0
  /\ \E target \in Targets \cup {"targets", "other"} :
       LET known == owned /\ (target = "targets" \/ (target \in Targets /\ ownedText \notin LargeTexts))
       IN out' = [what |-> "served", property |-> known,
                  text |-> IF known /\ target \in Targets THEN ownedText ELSE Empty]
  /\ requests' = requests - 1
  /\ UNCHANGED <<server, own, clears, notifies, changes, call, alive>>

\* pollEvents() has no use for the answer to a call that gave up, or for a property.
DropNotify ==
  /\ Dispatching /\ notifies # <<>>
  /\ notifies' = Tail(notifies)
  /\ UNCHANGED <<server, own, clears, requests, changes, call, alive>> /\ out' = Silent

DropChange ==
  /\ Dispatching /\ changes > 0
  /\ changes' = changes - 1
  /\ UNCHANGED <<server, own, clears, requests, notifies, call, alive>> /\ out' = Silent

\* The destructor asks the server who owns the selection, then gives it up.
Destroy ==
  /\ Dispatching
  /\ alive' = IF owned /\ selection.owner = "us" THEN "closing" ELSE "no"
  /\ UNCHANGED <<server, own, queue, call>> /\ out' = Silent

Disown ==
  /\ alive = "closing"
  /\ alive' = "no" /\ selection' = Nobody
  /\ UNCHANGED <<property, asked, transfer, own, queue, call>> /\ out' = Silent

-----------------------------------------------------------------------------
(* The other clients.                                                       *)

\* What the selection holds while text() runs.
Witnessed(text) == IF Busy THEN [call EXCEPT !.during = @ \cup {text}] ELSE call

TheyCopy ==
  /\ \E text \in Texts :
       selection' = Theirs(text) /\ selection' # selection /\ call' = Witnessed(text)
  /\ clears' = clears + (IF selection.owner = "us" THEN 1 ELSE 0) /\ clears' <= MaxQueued
  /\ UNCHANGED <<property, asked, transfer, own, requests, notifies, changes, alive>> /\ out' = Silent

TheyLeave ==
  /\ selection.owner = "them"
  /\ selection' = Nobody /\ call' = Witnessed(Empty)
  /\ UNCHANGED <<property, asked, transfer, own, queue, alive>> /\ out' = Silent

TheyRequest ==
  /\ alive = "yes" /\ selection.owner = "us" /\ requests < MaxQueued
  /\ requests' = requests + 1
  /\ UNCHANGED <<server, own, clears, notifies, changes, call, alive>> /\ out' = Silent

\* The owner of a conversion's time answers it, or has gone and never will.
Without(i) == SubSeq(asked, 1, i - 1) \o SubSeq(asked, i + 1, Len(asked))

TheyAnswer ==
  \E i \in 1 .. Len(asked) :
    /\ asked' = Without(i)
    /\ \/ /\ notifies' = Append(notifies, FALSE)
          /\ UNCHANGED <<property, changes, transfer>>
       \/ /\ notifies' = Append(notifies, TRUE)
          /\ changes' = changes + 1
          /\ \/ /\ property' \in {[type |-> "unreadable"],
                                 [type |-> "whole", text |-> asked[i].text, encoding |-> asked[i].target]}
                /\ UNCHANGED transfer
             \/ /\ property' = [type |-> "incr"]
                /\ transfer' = [text |-> asked[i].text, encoding |-> asked[i].target, n |-> 1]
       \/ UNCHANGED <<notifies, property, changes, transfer>>
    /\ Len(notifies') <= MaxQueued /\ changes' <= MaxQueued + 1
    /\ UNCHANGED <<selection, own, clears, requests, call, alive>> /\ out' = Silent

\* The next chunk once the last one is deleted, the empty one that ends it, or silence.
TheySend ==
  /\ transfer # NoTransfer
  /\ \/ /\ property = None /\ changes <= MaxQueued
        /\ changes' = changes + 1
        /\ \/ /\ transfer.n <= MaxChunks + 1
              /\ property' = [type |-> "chunk", text |-> transfer.text, encoding |-> transfer.encoding,
                              n |-> transfer.n]
              /\ transfer' = [transfer EXCEPT !.n = @ + 1]
           \/ /\ transfer.n > 1
              /\ property' = [type |-> "chunk", text |-> transfer.text, encoding |-> transfer.encoding,
                              n |-> 0]
              /\ transfer' = NoTransfer
     \/ transfer' = NoTransfer /\ UNCHANGED <<property, changes>>
  /\ UNCHANGED <<selection, asked, own, clears, requests, notifies, call, alive>> /\ out' = Silent

-----------------------------------------------------------------------------
Text ==
  \/ TextOfOurs \/ TextOfTheirs \/ Ask \/ TimedOut \/ TakeRefusal
  \/ TakeAnnouncement \/ TakeWhole \/ TakeChunk

Dispatch == HandleClear \/ HandleRequest \/ DropNotify \/ DropChange

Others == alive # "no" /\ (TheyCopy \/ TheyLeave \/ TheyRequest \/ TheyAnswer \/ TheySend)

Next == Text \/ SetText \/ Dispatch \/ Destroy \/ Disown \/ Others \/ Tick

Spec == Init /\ [][Next]_vars

-----------------------------------------------------------------------------
(* Properties.                                                              *)

\* "The selection's text, empty when there is none or its owner does not answer in time"
\* (X11Clipboard.hpp, line 33), of this client's own text, which only the news of a loss
\* may have wiped, and of the calls that begin with nothing of an earlier one on its way:
\* the result is what the selection held at some moment of the call, and only empty instead
\* when an owner refused, was too slow or sent too much; a transfer in chunks is never cut,
\* mixed or wrongly decoded, whoever takes the selection meanwhile.
ReadFindsSelection ==
  out.what = "read" /\ out.clean => out.result \in out.during \cup IF out.failed THEN {Empty} ELSE {}

\* The same sentence for every call: what text() returns the selection held meanwhile, or it
\* is empty.  convert() takes any SelectionNotify of its window for the answer to its
\* request, also one that answers an earlier call, which had given up.
TextIsSelection == out.what = "read" => out.result \in out.during \cup {Empty}

\* The time text() may take: two owners that refuse late, then a transfer that trickles.
StallBounded == Busy => call.elapsed <= 2 * ReplyTimeout + TransferLimit

\* What this client serves is the selection, or the news that it is not is on its way.
OwnershipTracked == alive # "no" /\ owned => selection = Ours(ownedText) \/ clears > 0

=============================================================================
