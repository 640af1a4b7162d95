---------------------------- MODULE WaylandClipboard ----------------------------
(***************************************************************************)
(* The Wayland clipboard (WaylandClipboard.cpp): the source this client    *)
(* offers, the offers the compositor announces, and the two transfers      *)
(* through a pipe that stall the event thread, each with a deadline for    *)
(* the next byte and one for the whole.                                    *)
(*                                                                         *)
(* The compositor and the clients at the other end of a pipe are external. *)
(* Events for a proxy the client has destroyed are dropped by libwayland.  *)
(***************************************************************************)
EXTENDS Naturals, Sequences

CONSTANTS
  Texts,          \* what this client copies
  IdleTimeout,    \* kIdleTimeout, in ticks
  TransferLimit,  \* kTransferLimit, in ticks
  MaxBytes,       \* kMaxBytes, in pieces of text
  MaxSources,     \* bound: sources created
  MaxOffers,      \* bound: offers announced
  MaxEvents,      \* bound: events queued
  MaxTicks        \* bound on the time one transfer takes, past what is promised

TimesAssumption == IdleTimeout \in Nat /\ TransferLimit \in Nat /\ MaxTicks \in Nat
CountsAssumption == {MaxBytes, MaxSources, MaxOffers, MaxEvents} \subseteq Nat

NoProxy == 0
Empty == "empty"
TextsAssumption == Empty \notin Texts

VARIABLES
  manager, seat, device,  \* manager_, seat_ and device_ are not null
  source, ownedText,      \* source_ and ownedText_
  offers,                 \* offers_: the announced offers, and those that can be read as text
  offered,                \* selection_: the offer of the selection
  selection,              \* compositor: whose the selection is
  declined,               \* history: the compositor declined the last set_selection
  announced,              \* compositor: the offer of its last selection event
  readable,               \* history: the offer of that event was announced with a text format
  dragging,               \* compositor: a drag is over the surface
  events,                 \* events on their way to this client
  made,                   \* how many sources and offers were made
  call,                   \* the transfer under way, or Idle
  out                     \* what the last step returned to its caller

proxies == <<manager, seat, device>>
own == <<source, ownedText>>
seen == <<offers, offered>>
compositor == <<selection, declined, announced, readable, dragging>>
vars == <<proxies, own, seen, compositor, events, made, call, out>>

Nobody == [who |-> "nobody"]
Them == [who |-> "them"]
Ours(s) == [who |-> "us", source |-> s]

Idle == [pc |-> "idle"]
Silent == [what |-> "nothing"]
Sources == 1 .. MaxSources
Offers == 1 .. MaxOffers

TypeOK ==
  /\ proxies \in BOOLEAN \X BOOLEAN \X BOOLEAN
  /\ source \in {NoProxy} \cup Sources /\ ownedText \in Texts \cup {Empty}
  /\ offers.all \subseteq Offers /\ offers.text \subseteq offers.all
  /\ offered \in {NoProxy} \cup Offers /\ announced \in {NoProxy} \cup Offers
  /\ selection \in {Nobody, Them} \cup {Ours(s) : s \in Sources}
  /\ declined \in BOOLEAN /\ readable \in BOOLEAN /\ dragging \in BOOLEAN
  /\ events \in Seq([type : {"offer", "mime", "selection"}, id : {NoProxy} \cup Offers]
                    \cup [type : {"cancelled", "send"}, id : Sources] \cup [type : {"leave"}])
  /\ made \in [sources : {0} \cup Sources, offers : {0} \cup Offers]
  /\ \/ call = Idle
     \/ call \in [pc : {"receive", "send"}, moved : 0 .. MaxBytes, pipe : 0 .. 1, sent : 0 .. MaxBytes + 2,
                  closed : BOOLEAN, idle : 0 .. IdleTimeout, elapsed : 0 .. MaxTicks]
  /\ out.what \in {"nothing", "own", "read"}

Init ==
  /\ manager = FALSE /\ seat = FALSE /\ device = FALSE
  /\ source = NoProxy /\ ownedText = Empty
  /\ offers = [all |-> {}, text |-> {}] /\ offered = NoProxy
  /\ selection \in {Nobody, Them} /\ declined = FALSE /\ dragging = FALSE
  /\ announced = NoProxy /\ readable = FALSE
  /\ events = <<>> /\ made = [sources |-> 0, offers |-> 0]
  /\ call = Idle /\ out = Silent

-----------------------------------------------------------------------------
(* Plausible mistakes in the code below.                                    *)

\* Offers are pruned before the new selection is known.
PruneEarly(chosen) == [all |-> offers.all \cap {offered}, text |-> offers.text \cap {offered}]

\* What is known of an offer's formats stays when the offer is destroyed.
KeepFormats(chosen) == [all |-> offers.all \cap {chosen}, text |-> offers.text]

-----------------------------------------------------------------------------
(* Globals come and go.                                                     *)

Busy == call # Idle
Quiet == out' = Silent /\ UNCHANGED call

\* adoptManager(); a second manager is destroyed at once.  ensureDevice() is the same
\* whichever of the two comes last.
AdoptManager ==
  /\ ~Busy
  /\ manager' = TRUE /\ device' = (device \/ seat) /\ UNCHANGED seat
  /\ Quiet /\ UNCHANGED <<own, seen, compositor, events, made>>

AttachSeat ==
  /\ ~Busy /\ ~seat
  /\ seat' = TRUE /\ device' = (device \/ manager) /\ UNCHANGED manager
  /\ Quiet /\ UNCHANGED <<own, seen, compositor, events, made>>

\* dropSource(): the compositor forgets a selection whose source is destroyed.
WithoutSource(s) == IF selection = Ours(s) THEN Nobody ELSE selection

\* detachSeat(), which is also most of the destructor: source, selection, offers, device.
DetachSeat ==
  /\ ~Busy /\ seat
  /\ selection' = WithoutSource(source)
  /\ source' = NoProxy /\ ownedText' = Empty
  /\ offers' = [all |-> {}, text |-> {}] /\ offered' = NoProxy
  /\ device' = FALSE /\ seat' = FALSE /\ UNCHANGED manager
  /\ events' = <<>> /\ announced' = NoProxy /\ readable' = FALSE /\ dragging' = FALSE
  /\ Quiet /\ UNCHANGED <<declined, made>>

-----------------------------------------------------------------------------
(* setText() and text().                                                    *)

\* Nothing without a device and the serial of some input.  The compositor declines a
\* serial that is too old and tells nobody; then the old source is destroyed.
\* Its events stay in the queue: libwayland drops them, and their handlers would.
SetText ==
  /\ ~Busy /\ device /\ made.sources < MaxSources
  /\ made' = [made EXCEPT !.sources = @ + 1]
  /\ source' = made'.sources
  /\ \E text \in Texts : ownedText' = text
  /\ declined' \in BOOLEAN
  /\ selection' = IF declined' THEN WithoutSource(source) ELSE Ours(source')
  /\ Quiet /\ UNCHANGED <<proxies, seen, announced, readable, dragging, events>>

\* text() when this client has a source, or nothing that can be read.
TextAtOnce ==
  /\ ~Busy /\ (source # NoProxy \/ offered \notin offers.text)
  /\ out' = [what |-> "own", text |-> ownedText]
  /\ UNCHANGED <<proxies, own, seen, compositor, events, made, call>>

Transfer(direction) ==
  [pc |-> direction, moved |-> 0, pipe |-> 0, sent |-> 0, closed |-> FALSE,
   idle |-> IdleTimeout, elapsed |-> 0]

\* receive() up to its wait; when the selection has changed since, nobody writes.
TextOfTheirs ==
  /\ ~Busy /\ source = NoProxy /\ offered \in offers.text
  /\ \E gone \in BOOLEAN : call' = [Transfer("receive") EXCEPT !.closed = gone]
  /\ out' = Silent
  /\ UNCHANGED <<proxies, own, seen, compositor, events, made>>

-----------------------------------------------------------------------------
(* Transfers: receive() and writeAll().                                     *)

InTime(transfer) == transfer.idle > 0 /\ transfer.elapsed < TransferLimit

\* Half a text would be pasted as if it were all of it.
Result(transfer, complete) == IF complete THEN transfer.moved ELSE 0

Finish(complete) ==
  /\ call' = Idle
  /\ out' = IF call.pc = "receive"
            THEN [what |-> "read", result |-> Result(call, complete), sent |-> call.sent, closed |-> call.closed]
            ELSE Silent

Aside == UNCHANGED <<proxies, own, seen, compositor, events, made>>

\* One piece is read; the piece that passes kMaxBytes ends it.
ReceivePiece ==
  /\ call.pc = "receive" /\ InTime(call) /\ call.pipe > 0
  /\ IF call.moved = MaxBytes THEN Finish(FALSE)
     ELSE /\ call' = [call EXCEPT !.pipe = 0, !.moved = @ + 1, !.idle = IdleTimeout]
          /\ out' = Silent
  /\ Aside

ReceiveEnd ==
  /\ call.pc = "receive" /\ InTime(call) /\ call.pipe = 0 /\ call.closed
  /\ Finish(TRUE) /\ Aside

\* One piece is written, the text is at its end, or the reader is gone (EPIPE).
SendPiece ==
  /\ call.pc = "send" /\ InTime(call) /\ call.pipe = 0 /\ ~call.closed
  /\ \/ call.moved < MaxBytes /\ out' = Silent
        /\ call' = [call EXCEPT !.pipe = 1, !.moved = @ + 1, !.idle = IdleTimeout]
     \/ call.moved > 0 /\ Finish(TRUE)
  /\ Aside

SendBroken ==
  /\ call.pc = "send" /\ InTime(call) /\ call.closed
  /\ Finish(FALSE) /\ Aside

TransferTimedOut ==
  /\ Busy /\ ~InTime(call)
  /\ Finish(FALSE) /\ Aside

Tick ==
  /\ Busy /\ InTime(call) /\ call.elapsed < MaxTicks
  /\ call' = [call EXCEPT !.idle = @ - 1, !.elapsed = @ + 1]
  /\ out' = Silent /\ Aside

\* The client at the other end writes, reads or goes away.
PeerMoves ==
  /\ Busy /\ ~call.closed
  /\ \/ /\ call.pc = "receive" /\ call.pipe = 0 /\ call.sent < MaxBytes + 2
        /\ call' = [call EXCEPT !.pipe = 1, !.sent = @ + 1]
     \/ call.pc = "send" /\ call.pipe = 1 /\ call' = [call EXCEPT !.pipe = 0]
     \/ call' = [call EXCEPT !.closed = TRUE]
  /\ out' = Silent /\ Aside

-----------------------------------------------------------------------------
(* The events of the device, the offers and the source.                     *)

Handle(type) == ~Busy /\ events # <<>> /\ Head(events).type = type /\ events' = Tail(events)
It == Head(events).id

HandleDataOffer ==
  /\ Handle("offer")
  /\ offers' = [offers EXCEPT !.all = @ \cup {It}]
  /\ Quiet /\ UNCHANGED <<proxies, own, offered, compositor, made>>

\* handleOfferMime(), for a format text() knows.
HandleOfferMime ==
  /\ Handle("mime")
  /\ offers' = [offers EXCEPT !.text = @ \cup ({It} \cap offers.all)]
  /\ Quiet /\ UNCHANGED <<proxies, own, offered, compositor, made>>

\* pruneOffers(): offers other than the selection's are drags this client never accepts.
PruneOffers(chosen) == [all |-> offers.all \cap {chosen}, text |-> offers.text \cap {chosen}]

\* handleLeave() and handleDrop().
HandleDragOver ==
  /\ Handle("leave")
  /\ offers' = PruneOffers(offered)
  /\ Quiet /\ UNCHANGED <<proxies, own, offered, compositor, made>>

HandleSelection ==
  /\ Handle("selection")
  /\ offered' = IF It \in offers.all THEN It ELSE NoProxy
  /\ offers' = PruneOffers(offered')
  /\ Quiet /\ UNCHANGED <<proxies, own, compositor, made>>

\* handleSourceSend(): nothing is written for a format it never offered, or a former source.
HandleSourceSend ==
  /\ Handle("send")
  /\ \E known \in BOOLEAN : call' = IF known /\ It = source THEN Transfer("send") ELSE Idle
  /\ out' = Silent /\ UNCHANGED <<proxies, own, seen, compositor, made>>

\* handleSourceCancelled(): another client took the selection.
SourceLost(cancelled) ==
  IF cancelled = source THEN source' = NoProxy /\ ownedText' = Empty ELSE UNCHANGED own

HandleSourceCancelled ==
  /\ Handle("cancelled")
  /\ SourceLost(It)
  /\ Quiet /\ UNCHANGED <<proxies, seen, compositor, made>>

-----------------------------------------------------------------------------
(* The compositor.                                                          *)

Send(es) == events' = events \o es /\ Len(events') <= MaxEvents

TheyCopy ==
  /\ selection # Them /\ selection' = Them
  /\ Send(IF selection \in {Ours(source)} THEN <<[type |-> "cancelled", id |-> source]>> ELSE <<>>)
  /\ out' = Silent /\ UNCHANGED <<proxies, own, seen, declined, announced, readable, dragging, made, call>>

NewOffer == /\ device /\ made.offers < MaxOffers
            /\ made' = [made EXCEPT !.offers = @ + 1]

TheOffer == [type |-> "offer", id |-> made'.offers]
ItsFormat == [type |-> "mime", id |-> made'.offers]
Selected(o) == [type |-> "selection", id |-> o]

\* The surface gets the focus, or the selection changes while it has it: an offer, the
\* formats it comes in, and that it is the selection.
AnnounceSelection ==
  /\ selection # Nobody /\ NewOffer /\ announced' = made'.offers
  /\ \/ readable' = TRUE /\ Send(<<TheOffer, ItsFormat, Selected(announced')>>)
     \/ readable' = FALSE /\ Send(<<TheOffer, Selected(announced')>>)
  /\ out' = Silent /\ UNCHANGED <<proxies, own, seen, selection, declined, dragging, call>>

AnnounceNothing ==
  /\ device /\ selection = Nobody /\ announced # NoProxy /\ announced' = NoProxy
  /\ readable' = FALSE /\ Send(<<Selected(NoProxy)>>)
  /\ out' = Silent /\ UNCHANGED <<proxies, own, seen, selection, declined, dragging, made, call>>

\* A drag comes over the surface, and leaves it or ends there.
DragEnters ==
  /\ ~dragging /\ dragging' = TRUE /\ NewOffer
  /\ Send(<<TheOffer, ItsFormat>>)
  /\ out' = Silent /\ UNCHANGED <<proxies, own, seen, selection, declined, announced, readable, call>>

DragLeaves ==
  /\ dragging /\ dragging' = FALSE
  /\ Send(<<[type |-> "leave"]>>)
  /\ out' = Silent /\ UNCHANGED <<proxies, own, seen, selection, declined, announced, readable, made, call>>

\* Another client asks for the text this one offers.
TheyPaste ==
  /\ source # NoProxy /\ selection = Ours(source)
  /\ Send(<<[type |-> "send", id |-> source]>>)
  /\ out' = Silent /\ UNCHANGED <<proxies, own, seen, compositor, made, call>>

-----------------------------------------------------------------------------
Client == AdoptManager \/ AttachSeat \/ DetachSeat \/ SetText \/ TextAtOnce \/ TextOfTheirs

Transfers ==
  ReceivePiece \/ ReceiveEnd \/ SendPiece \/ SendBroken \/ TransferTimedOut \/ Tick \/ PeerMoves

Dispatch ==
  \/ HandleDataOffer \/ HandleOfferMime \/ HandleDragOver \/ HandleSelection
  \/ HandleSourceSend \/ HandleSourceCancelled

Compositor ==
  TheyCopy \/ AnnounceSelection \/ AnnounceNothing \/ DragEnters \/ DragLeaves \/ TheyPaste

Next == Client \/ Transfers \/ Dispatch \/ Compositor

Spec == Init /\ [][Next]_vars

-----------------------------------------------------------------------------
(* Properties.                                                              *)

\* A source this client still holds is the selection, unless the compositor declined it
\* or the news that it is not is on its way: replacing a source (setText()) destroys the
\* old one and only that, and no cancellation is missed or taken for another source's.
SourceOwnsSelection ==
  source # NoProxy /\ ~declined =>
    selection = Ours(source) \/ \E i \in 1 .. Len(events) : events[i] = [type |-> "cancelled", id |-> source]

\* Once the client has handled what the compositor sent, selection_ is the offer of the
\* selection, and every other offer but a drag's has been destroyed.
OffersFollowSelection ==
  events = <<>> => offered = announced /\ (dragging \/ offers.all = {offered} \ {NoProxy})

\* text() returns what the other client wrote until it closed the pipe, all of it, or
\* nothing: never the part that came before a deadline passed or the limit was reached.
ReadIsWhole ==
  out.what = "read" => out.result = 0 \/ (out.closed /\ out.result = out.sent)

\* What text() reads is the offer the compositor last announced as the selection, and it
\* reads nothing only when that offer has no text, unless a newer announcement is queued: no
\* drag, no former offer and no late format is taken for the selection or keeps it from being
\* read.
CaughtUp == \A i \in 1 .. Len(events) : events[i].type # "selection"
ReadIsAnnounced ==
  CaughtUp =>
    /\ out.what = "read" => offered = announced
    /\ out.what = "own" /\ source = NoProxy => out.text = Empty /\ ~readable

\* "Both directions run on the event thread": neither stalls it past kTransferLimit, however
\* steadily the other client trickles.
TransferBounded == Busy => call.elapsed <= TransferLimit

=============================================================================
