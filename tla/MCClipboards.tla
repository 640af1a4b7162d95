------------------------------ MODULE MCClipboards ------------------------------
(***************************************************************************)
(* The two clipboards and the conversions of their text, which nothing     *)
(* connects, in one run: a behaviour is one of X11Clipboard, of            *)
(* WaylandClipboard or of Utf8Text.                                        *)
(***************************************************************************)
EXTENDS Naturals, Sequences

CONSTANTS Texts, LargeTexts, ReplyTimeout, TransferLimit, MaxChunks, MaxAsked, MaxQueued, MaxTicks,
          IdleTimeout, PipeLimit, MaxBytes, MaxSources, MaxOffers, MaxEvents

VARIABLES
  system,
  selection, ownedText, call, out,
  owned, property, clears, requests, notifies, changes, asked, transfer, alive,
  manager, seat, device, source, offers, offered, declined, announced, readable, dragging, events, made,
  text, index, emitted

\* Bytes at the boundaries of the forms of UTF-8; four of them only after a lead that wants four.
Bytes == {65, 128, 143, 144, 159, 160, 191, 193, 194, 224, 237, 240, 244, 245}
Inputs ==
  UNION {[1..n -> Bytes] : n \in 1..3}
  \cup {<<lead>> \o rest : lead \in {240, 244, 245}, rest \in [1..3 -> {65, 128, 143, 144, 191, 193, 240}]}

X == INSTANCE X11Clipboard
W == INSTANCE WaylandClipboard WITH TransferLimit <- PipeLimit
T == INSTANCE Utf8Text

ASSUME X11Assumption == X!TimesAssumption /\ X!QueueAssumption /\ X!TextsAssumption
ASSUME WaylandAssumption == W!TimesAssumption /\ W!CountsAssumption /\ W!TextsAssumption
ASSUME TextAssumption == T!InputsAssumption

onlyX == <<owned, property, clears, requests, notifies, changes, asked, transfer, alive>>
onlyW == <<manager, seat, device, source, offers, offered, declined, announced, readable, dragging, events, made>>
onlyT == <<text, index, emitted>>
both == <<selection, ownedText, call, out>>

Init ==
  \/ /\ system = "x11" /\ X!Init
     /\ text = 0 /\ index = 0 /\ emitted = 0
     /\ manager = 0 /\ seat = 0 /\ device = 0 /\ source = 0 /\ offers = 0
     /\ offered = 0 /\ declined = 0 /\ announced = 0 /\ dragging = 0 /\ events = 0
     /\ made = 0 /\ readable = 0
  \/ /\ system = "wayland" /\ W!Init
     /\ text = 0 /\ index = 0 /\ emitted = 0
     /\ owned = 0 /\ property = 0 /\ clears = 0 /\ requests = 0 /\ notifies = 0
     /\ changes = 0 /\ asked = 0 /\ transfer = 0 /\ alive = 0
  \/ /\ system = "text" /\ T!Init
     /\ selection = 0 /\ ownedText = 0 /\ call = 0 /\ out = 0
     /\ manager = 0 /\ seat = 0 /\ device = 0 /\ source = 0 /\ offers = 0
     /\ offered = 0 /\ declined = 0 /\ announced = 0 /\ dragging = 0 /\ events = 0
     /\ made = 0 /\ readable = 0
     /\ owned = 0 /\ property = 0 /\ clears = 0 /\ requests = 0 /\ notifies = 0
     /\ changes = 0 /\ asked = 0 /\ transfer = 0 /\ alive = 0

Next ==
  /\ UNCHANGED system
  /\ \/ system = "x11" /\ X!Next /\ UNCHANGED <<onlyW, onlyT>>
     \/ system = "wayland" /\ W!Next /\ UNCHANGED <<onlyX, onlyT>>
     \/ system = "text" /\ T!Next /\ UNCHANGED <<both, onlyX, onlyW>>

Spec == Init /\ [][Next]_<<system, both, onlyX, onlyW, onlyT>>

OnX11(P) == system = "x11" => P
OnWayland(P) == system = "wayland" => P
OnText(P) == system = "text" => P

\* The type invariants of the three modules.
TypeOK == OnX11(X!TypeOK) /\ OnWayland(W!TypeOK) /\ OnText(T!TypeOK)

\* text() finds the selection, whole, or says nothing.  On X11 this is of the calls that begin with
\* nothing of an earlier one on its way: TextIsSelection leaves that condition out.  On Wayland it is
\* the selection the compositor last announced, once the client has that news (ReadFindsSelection,
\* ReadIsWhole, ReadIsAnnounced).
ReadIsSelection == OnX11(X!ReadFindsSelection) /\ OnWayland(W!ReadIsWhole /\ W!ReadIsAnnounced)

\* text() never returns what the selection did not hold during the call (X11Clipboard.hpp, line 33).
TextIsSelection == OnX11(X!TextIsSelection)

\* Each step of decode() reads the character of the standard that begins there, or skips bytes
\* at which none begins, and only characters come out (StepDecodes, EmittedIsUnicode).
CharactersAreKept == OnText(T!StepDecodes /\ T!EmittedIsUnicode)

\* The whole of a text is decoded to what it means, and Latin-1 survives both ways (TextIsDecoded).
TextIsDecoded == OnText(T!TextIsDecoded)

\* owned_ and source_ are the server's idea of who owns the selection, or the news that they
\* are not is on its way (OwnershipTracked, SourceOwnsSelection).
OwnershipKnown == OnX11(X!OwnershipTracked) /\ OnWayland(W!SourceOwnsSelection)

\* Neither clipboard stalls the event thread past its deadlines (StallBounded,
\* TransferBounded).
DeadlinesKept == OnX11(X!StallBounded) /\ OnWayland(W!TransferBounded)

\* selection_ and offers_ are what the compositor announced (WaylandClipboard).
OffersFollowSelection == OnWayland(W!OffersFollowSelection)

=============================================================================
