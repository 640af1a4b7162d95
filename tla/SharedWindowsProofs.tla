-------------------------- MODULE SharedWindowsProofs --------------------------
(***************************************************************************)
(* Proofs about SharedWindows, for any managers, windows, sizes, setups,   *)
(* periods and bound on the queue: the library is up exactly while a       *)
(* manager owns a reference to it, what is held is alive, callbacks reach  *)
(* the manager that holds the window, and what a manager that has polled   *)
(* says of its window is so.                                               *)
(*                                                                         *)
(* The argument: for the library, the references are counted: there are as *)
(* many as managers that own one, and a window that is open is one         *)
(* manager's. For what a manager says of its window, the last event of a   *)
(* kind on its way says what the window is, and when there is none the     *)
(* manager has it already. The audio device stays SDL's only where no      *)
(* constructor can fail to load Vulkan: see AudioWithoutVulkan.            *)
(***************************************************************************)
EXTENDS SharedWindows, FiniteSetTheorems, WellFoundedInduction, SequenceTheorems, TLAPS

\* No setup has an SDL manager with Vulkan beside an audio device: a constructor that cannot load
\* Vulkan and has the only reference quits SDL, the audio subsystem with it.
AudioWithoutVulkan ==
  \A s \in Setups : ~(s.library = "sdl" /\ s.api = "vulkan" /\ "audio" \in s.uses)

\* The manager objects.
Manager ==
  [state : {"absent", "live", "moved"}, window : Windows \cup {None}, listener : Windows \cup {None}, owns : BOOLEAN,
   context : BOOLEAN, cursors : BOOLEAN, focused : BOOLEAN, minimized : BOOLEAN, maximized : BOOLEAN, size : Sizes,
   resized : BOOLEAN, shown : Sizes, text : BOOLEAN, dismissed : BOOLEAN, closing : BOOLEAN]
\* The windows, as the library has them.
LibraryWindow ==
  [open : BOOLEAN, user : Managers \cup {None}, focused : BOOLEAN, minimized : BOOLEAN, size : Sizes,
   maximized : BOOLEAN, text : BOOLEAN, closing : BOOLEAN]
\* What an event tells beside a size, and the events.
Flags == {"focused", "minimized", "maximized", "closing"}
QueueEvents ==
  [window : Windows \cup {None}, kind : Flags, value : BOOLEAN]
  \cup [window : Windows \cup {None}, kind : {"size"}, value : Sizes]

\* The variables' types.
SharedTyped ==
  /\ setup \in Setups
  /\ library \in [up : BOOLEAN, refs : Nat, vulkan : Nat, audio : {0, 1}]
  /\ managers \in [Managers -> Manager]
  /\ windows \in [Windows -> LibraryWindow]
  /\ queue \in Seq(QueueEvents) /\ Len(queue) <= MaxEvents
  /\ polled \subseteq Managers
  /\ device \in [stream : BOOLEAN, owns : BOOLEAN, running : BOOLEAN, mix : BOOLEAN, scratch : Nat, block : Nat,
                 alive : BOOLEAN]

\* The references to the library are those of the managers.
Owners == {x \in Managers : managers[x].owns}
OwnersCounted ==
  /\ library.refs = Cardinality(Owners)
  /\ library.up <=> Owners # {}
  /\ library.vulkan = IF Sdl /\ setup.api = "vulkan" THEN library.refs ELSE 0

\* What a manager holds is there, and a window knows its manager.
HoldsWindow(x) ==
  /\ ~Live(x) => ~managers[x].owns
  /\ Window(x) # None => /\ managers[x].owns /\ windows[Window(x)].open /\ managers[x].listener = Window(x)
                         /\ windows[Window(x)].user = IF Sdl THEN None ELSE x
  /\ managers[x].cursors \/ managers[x].context => Window(x) # None
  /\ ~Sdl => managers[x].listener = Window(x)
  /\ managers[x].size # managers[x].shown => managers[x].resized
WindowsHeld ==
  /\ \A x \in Managers : HoldsWindow(x)
  /\ \A x \in Managers : \A y \in Managers \ {x} : Window(x) # None => Window(x) # Window(y)
  /\ \A w \in Windows : /\ windows[w].open => \E x \in Managers : Window(x) = w
                        /\ windows[w].text => windows[w].open
  /\ ~setup.several => \A x \in Managers : \A y \in Managers \ {x} : Live(x) => ~Live(y)

\* What the window last told is what it is, and what the manager has when nothing is on its way.
ToldBy(w, kind) == {i \in DOMAIN queue : queue[i].window = w /\ queue[i].kind = kind}
Says(w, kind, held, is) ==
  \/ ToldBy(w, kind) = {} /\ held = is
  \/ \E i \in ToldBy(w, kind) : queue[i].value = is /\ \A j \in ToldBy(w, kind) : j <= i
Follows(x) ==
  LET w == Window(x)  manager == managers[x] IN
  /\ Says(w, "focused", manager.focused, windows[w].focused)
  /\ Says(w, "minimized", manager.minimized, windows[w].minimized)
  /\ ~Sdl => Says(w, "maximized", manager.maximized, windows[w].maximized)
  /\ ~Sdl => Says(w, "size", manager.size, windows[w].size)
  /\ Sdl /\ windows[w].closing => manager.closing \/ ToldBy(w, "closing") # {}
  /\ Sdl /\ windows[w].text => manager.text
  /\ Sdl /\ x \in polled => manager.size = windows[w].size /\ manager.text = windows[w].text
\* What a manager without a window says of it.
Fresh(manager) ==
  ~manager.focused /\ ~manager.minimized /\ ~manager.maximized /\ ~manager.text /\ manager.size = Asked
\* Every manager follows its window; no event is of a window that is gone, but for GLFW's, which it drops.
Followed ==
  /\ \A i \in DOMAIN queue : queue[i].window # None => windows[queue[i].window].open
  /\ Sdl => \A i \in DOMAIN queue : queue[i].window # None
  /\ \A x \in Managers : /\ Window(x) # None => Follows(x)
                         /\ managers[x].owns /\ Window(x) = None => Fresh(managers[x])

\* The audio device is SDL's as long as nothing quits SDL under it.
DeviceHeld ==
  /\ device.stream => "audio" \in setup.uses
  /\ library.audio = 1 => device.owns
  /\ AudioWithoutVulkan => DeviceIsLive

\* The inductive invariant. With several SDL managers the queue is drained by whoever polls first.
SharedInv ==
  /\ SharedTyped /\ OwnersCounted /\ WindowsHeld /\ DeviceHeld
  /\ polled # {} => queue = <<>>
  /\ ~(Sdl /\ setup.several) => Followed

-----------------------------------------------------------------------------
(* A set of places has a last one.                                          *)
LEMMA LastOne ==
  ASSUME NEW n \in Nat, NEW S \in SUBSET (1 .. n), S # {}
  PROVE  Max(S) \in S /\ \A j \in S : j <= Max(S)
<1> DEFINE T == {k \in Nat : \E i \in S : k = n - i}
<1>1. T # {}
  <2>1. PICK i \in S : TRUE  OBVIOUS
  <2>2. i \in Nat /\ i <= n  OBVIOUS
  <2>3. n - i \in T  BY <2>2
  <2> QED  BY <2>3
<1>2. PICK k \in T : \A y \in T : ~(<<y, k>> \in OpToRel(<, Nat))
  BY <1>1, NatLessThanWellFounded, WFMin
<1>3. \A y \in Nat : y < k => <<y, k>> \in OpToRel(<, Nat)
  BY DEF OpToRel
<1>4. PICK i \in S : k = n - i  OBVIOUS
<1>5. ASSUME NEW j \in S PROVE i >= j
  <2>1. n - j \in T /\ i \in Nat /\ j \in Nat  BY <1>5
  <2>2. ~(n - j < k)  BY <1>2, <1>3, <2>1
  <2> QED  BY <1>4, <2>1, <2>2
<1>6. \E x \in S : \A y \in S : x >= y  BY <1>5
<1>7. Max(S) \in S /\ \A y \in S : Max(S) >= y  BY <1>6 DEF Max
<1>8. S \subseteq Nat  OBVIOUS
<1> QED  BY <1>7, <1>8

\* What the manager has once the events on their way are handled is what the window is.
LEMMA LatestIs ==
  ASSUME SharedTyped, NEW w, NEW kind, NEW held, NEW is, Says(w, kind, held, is)
  PROVE  Latest(ToldBy(w, kind), held) = is
<1>1. CASE ToldBy(w, kind) = {}  BY <1>1 DEF Says, Latest
<1>2. CASE ToldBy(w, kind) # {}
  <2>1. PICK i \in ToldBy(w, kind) : queue[i].value = is /\ \A j \in ToldBy(w, kind) : j <= i
    BY <1>2 DEF Says
  <2>2. ToldBy(w, kind) \in SUBSET (1 .. Len(queue)) /\ Len(queue) \in Nat  BY DEF ToldBy, SharedTyped
  <2> DEFINE m == Max(ToldBy(w, kind))
  <2>3. m \in ToldBy(w, kind) /\ \A j \in ToldBy(w, kind) : j <= m  BY <1>2, <2>2, LastOne
  <2> HIDE DEF m
  <2>4. m = i  BY <2>1, <2>2, <2>3
  <2> QED  BY <1>2, <2>1, <2>4 DEF Latest, m
<1> QED  BY <1>1, <1>2

\* The type of what an event says.
LEMMA LatestTyped ==
  ASSUME SharedTyped, NEW x, NEW y
  PROVE  /\ \A kind \in Flags : \A was \in BOOLEAN : Latest(Told(x, y, kind), was) \in BOOLEAN
         /\ \A was \in Sizes : Latest(Told(x, y, "size"), was) \in Sizes
<1>1. ASSUME NEW kind \in Flags \cup {"size"}, Told(x, y, kind) # {}
      PROVE  \E e \in QueueEvents : e.kind = kind /\ queue[Max(Told(x, y, kind))] = e
  <2>1. Told(x, y, kind) \in SUBSET (1 .. Len(queue)) /\ Len(queue) \in Nat  BY DEF Told, SharedTyped
  <2>2. Max(Told(x, y, kind)) \in Told(x, y, kind)  BY <1>1, <2>1, LastOne
  <2> DEFINE m == Max(Told(x, y, kind))
  <2> HIDE DEF m
  <2>3. m \in DOMAIN queue /\ queue[m].kind = kind  BY <2>2 DEF Told, m
  <2>4. queue[m] \in QueueEvents  BY <2>3 DEF SharedTyped
  <2> QED  BY <2>3, <2>4 DEF m
<1>2. \A e \in QueueEvents : (e.kind \in Flags => e.value \in BOOLEAN) /\ (e.kind = "size" => e.value \in Sizes)
  BY DEF QueueEvents, Flags
<1>3. ASSUME NEW kind \in Flags, NEW was \in BOOLEAN PROVE Latest(Told(x, y, kind), was) \in BOOLEAN
  <2>1. CASE Told(x, y, kind) = {}  BY <2>1 DEF Latest
  <2>2. CASE Told(x, y, kind) # {}  BY <1>1, <1>2, <2>2 DEF Latest
  <2> QED  BY <2>1, <2>2
<1>4. ASSUME NEW was \in Sizes PROVE Latest(Told(x, y, "size"), was) \in Sizes
  <2>1. CASE Told(x, y, "size") = {}  BY <2>1 DEF Latest
  <2>2. CASE Told(x, y, "size") # {}  BY <1>1, <1>2, <2>2 DEF Latest
  <2> QED  BY <2>1, <2>2
<1> QED  BY <1>3, <1>4

\* One manager more, one less, or another one in its place, among those that own a reference.
LEMMA OwnersFinite ==
  ASSUME ManagersAssumption
  PROVE  IsFiniteSet(Owners) /\ Cardinality(Owners) \in Nat /\ Cardinality(Owners) <= Cardinality(Managers)
         /\ (Cardinality(Owners) = 0 <=> Owners = {})
         /\ Cardinality(Managers) \in Nat
BY FS_Subset, FS_CardinalityType, FS_EmptySet DEF Owners, ManagersAssumption

\* The last reference is the only owner's.
LEMMA OneOwner ==
  ASSUME ManagersAssumption, NEW x \in Owners
  PROVE  Cardinality(Owners) = 1 <=> Owners = {x}
<1>1. IsFiniteSet(Owners)  BY OwnersFinite
<1>2. Cardinality(Owners) = 1 => \E y : Owners = {y}  BY <1>1, FS_Singleton
<1>3. Cardinality({x}) = 1  BY FS_Singleton
<1> QED  BY <1>2, <1>3

\* The parts of the invariant that depend on no more than the fields named.
OwnersStay == \A x \in Managers : managers'[x].owns = managers[x].owns

\* The count goes with the owners.
LEMMA OwnersKept ==
  ASSUME OwnersCounted, setup' = setup, OwnersStay,
         library'.refs = library.refs, library'.up = library.up, library'.vulkan = library.vulkan
  PROVE  OwnersCounted'
<1>1. Owners' = Owners  BY DEF Owners, OwnersStay
<1>2. Sdl' = Sdl  BY DEF Sdl
<1>3. Cardinality(Owners)' = Cardinality(Owners)  BY <1>1
<1> QED  BY <1>1, <1>2, <1>3, Zenon DEF OwnersCounted

\* As far as holding goes a record is as it was, with cursors only where there is a window.
SameHolding(m, n) ==
  /\ n.state = m.state /\ n.window = m.window /\ n.listener = m.listener /\ n.owns = m.owns /\ n.context = m.context
  /\ n.cursors => m.cursors \/ n.window # None
  /\ n.size # n.shown => n.resized

\* A step that leaves what the managers hold alone, and the windows they hold open.
LEMMA HoldingKept ==
  ASSUME SharedTyped, WindowsHeld, setup' = setup,
         \A x \in Managers : SameHolding(managers[x], managers'[x]),
         \A w \in Windows : /\ windows'[w].open = windows[w].open /\ windows'[w].user = windows[w].user
                            /\ windows'[w].text => windows[w].text \/ windows[w].open
  PROVE  WindowsHeld' /\ OwnersStay
<1>1. /\ Sdl' = Sdl
      /\ \A x \in Managers : Window(x)' = Window(x) /\ (Live(x)' <=> Live(x))
  BY DEF Sdl, Window, Live, SameHolding
<1>2. \A x \in Managers : Window(x) \in Windows \cup {None}  BY DEF Window, SharedTyped, Manager
<1>3. ASSUME NEW x \in Managers PROVE HoldsWindow(x)'
  <2>1. HoldsWindow(x) /\ SameHolding(managers[x], managers'[x])  BY DEF WindowsHeld
  <2> QED  BY <1>1, <1>2, <2>1 DEF HoldsWindow, SameHolding, Window
<1>9. \A w \in Windows : (windows[w].open => \E x \in Managers : Window(x) = w) /\ (windows[w].text => windows[w].open)
  BY DEF WindowsHeld
<1>4. \A w \in Windows : windows'[w].open => \E x \in Managers : Window(x)' = w  BY <1>1, <1>9
<1>8. \A w \in Windows : windows'[w].text => windows'[w].open  BY <1>9
<1>5. \A x \in Managers : \A y \in Managers \ {x} : Window(x)' # None => Window(x)' # Window(y)'
  BY <1>1 DEF WindowsHeld
<1>6. ~setup'.several => \A x \in Managers : \A y \in Managers \ {x} : Live(x)' => ~Live(y)'
  BY <1>1 DEF WindowsHeld
<1>7. OwnersStay  BY DEF OwnersStay, SameHolding
<1> QED  BY <1>3, <1>4, <1>5, <1>6, <1>7, <1>8 DEF WindowsHeld

\* What follows of a window that nothing happened to, whichever manager it has come to.
LEMMA SaysKept ==
  ASSUME NEW w, NEW kind, ToldBy(w, kind)' = ToldBy(w, kind),
         \A i \in ToldBy(w, kind) : queue'[i].value = queue[i].value,
         NEW held, NEW is, Says(w, kind, held, is)
  PROVE  Says(w, kind, held, is)'
BY DEF Says

SameFlags(m, n) ==
  /\ n.window = m.window /\ n.focused = m.focused /\ n.minimized = m.minimized /\ n.maximized = m.maximized
  /\ m.closing => n.closing
SameWindow(v, w) ==
  v.focused = w.focused /\ v.minimized = w.minimized /\ v.maximized = w.maximized /\ v.size = w.size
  /\ v.closing = w.closing

\* A manager that follows its window still does when neither, nor the events between, change.
LEMMA FollowsKept ==
  ASSUME SharedTyped, NEW x \in Managers, NEW y \in Managers, NEW w \in Windows, w = Window(x),
         SameFlags(managers[x], managers'[y]), SameWindow(windows[w], windows'[w]),
         managers'[y].size = managers[x].size \/ (Sdl /\ managers'[y].size = windows[w].size),
         y \in polled' => x \in polled,
         \/ managers'[y].text = managers[x].text /\ windows'[w].text = windows[w].text
         \/ /\ Sdl /\ windows'[w].text => managers'[y].text
            /\ Sdl /\ y \in polled' => managers'[y].text = windows'[w].text,
         \A kind : /\ ToldBy(w, kind)' = ToldBy(w, kind)
                   /\ \A i \in ToldBy(w, kind) : queue'[i].value = queue[i].value,
         setup' = setup, Follows(x)
  PROVE  Follows(y)'
<1>1. Sdl' = Sdl /\ Window(y)' = w  BY DEF Sdl, Window, SameFlags
<1>2. /\ Says(w, "focused", managers[x].focused, windows[w].focused)
      /\ Says(w, "minimized", managers[x].minimized, windows[w].minimized)
      /\ ~Sdl => Says(w, "maximized", managers[x].maximized, windows[w].maximized)
      /\ ~Sdl => Says(w, "size", managers[x].size, windows[w].size)
      /\ Sdl /\ windows[w].closing => managers[x].closing \/ ToldBy(w, "closing") # {}
      /\ Sdl /\ windows[w].text => managers[x].text
      /\ Sdl /\ x \in polled => managers[x].size = windows[w].size /\ managers[x].text = windows[w].text
  BY DEF Follows
<1>3. ASSUME NEW kind, NEW held, NEW is, Says(w, kind, held, is) PROVE Says(w, kind, held, is)'
  BY <1>3, SaysKept
<1>4. /\ Says(w, "focused", managers[y].focused, windows[w].focused)'
      /\ Says(w, "minimized", managers[y].minimized, windows[w].minimized)'
  BY <1>2, <1>3 DEF Says, SameFlags, SameWindow
<1>5. ~Sdl => /\ Says(w, "maximized", managers[y].maximized, windows[w].maximized)'
              /\ Says(w, "size", managers[y].size, windows[w].size)'
  BY <1>2, <1>3 DEF Says, SameFlags, SameWindow
<1>6. ToldBy(w, "closing")' = ToldBy(w, "closing")  OBVIOUS
<1>7. Sdl /\ windows'[w].closing => managers'[y].closing \/ ToldBy(w, "closing")' # {}
  BY <1>2, <1>6 DEF SameFlags, SameWindow
<1>8. /\ Sdl /\ windows'[w].text => managers'[y].text
      /\ Sdl /\ y \in polled' => managers'[y].size = windows'[w].size /\ managers'[y].text = windows'[w].text
  BY <1>2 DEF SameWindow
<1> QED  BY <1>1, <1>4, <1>5, <1>7, <1>8 DEF Follows

\* Nothing but the records of managers changes, and those not in what is followed.
LEMMA FollowedKept ==
  ASSUME SharedTyped, WindowsHeld, Followed, UNCHANGED <<setup, windows, queue, polled>>,
         \A x \in Managers :
           /\ SameFlags(managers[x], managers'[x])
           /\ managers'[x].owns = managers[x].owns /\ managers'[x].text = managers[x].text
           /\ \/ managers'[x].size = managers[x].size
              \/ Sdl /\ Window(x) # None /\ managers'[x].size = windows[Window(x)].size
  PROVE  Followed'
<1>1. /\ Sdl' = Sdl /\ \A x \in Managers : Window(x)' = Window(x) /\ Window(x) \in Windows \cup {None}
  BY DEF Sdl, Window, SameFlags, SharedTyped, Manager
<1>2. \A w : \A kind : ToldBy(w, kind)' = ToldBy(w, kind)  BY DEF ToldBy
<1>3. ASSUME NEW x \in Managers, Window(x)' # None PROVE Follows(x)'
  <2>1. Window(x) # None /\ Follows(x)  BY <1>1, <1>3 DEF Followed
  <2>2. SameWindow(windows[Window(x)], windows'[Window(x)])  BY DEF SameWindow
  <2> QED  BY <1>1, <1>2, <2>1, <2>2, FollowsKept
<1>4. ASSUME NEW x \in Managers, managers'[x].owns, Window(x)' = None PROVE Fresh(managers[x])'
  <2>1. Fresh(managers[x])  BY <1>1, <1>4 DEF Followed
  <2> QED  BY <1>1, <1>4, <2>1 DEF Fresh, SameFlags
<1> QED  BY <1>1, <1>3, <1>4 DEF Followed

\* Nothing is up, nothing is held.
LEMMA SharedInvInit ==
  ASSUME ManagersAssumption, WindowsAssumption, SizesAssumption, QueueAssumption
  PROVE  Init => SharedInv
<1> SUFFICES ASSUME Init PROVE SharedInv
  OBVIOUS
<1>1. Absent \in Manager /\ Closed \in LibraryWindow  BY DEF Absent, Constructed, Closed, Manager, LibraryWindow, SizesAssumption
<1>2. SharedTyped
  BY <1>1 DEF Init, SharedTyped, NoDevice, QueueAssumption
<1>3. \A x \in Managers : /\ Window(x) = None /\ ~managers[x].owns /\ ~Live(x) /\ managers[x].listener = None
                          /\ ~managers[x].cursors /\ ~managers[x].context /\ managers[x].size = managers[x].shown
  BY DEF Init, Window, Live, Absent, Constructed
<1>4. Owners = {}  BY <1>3 DEF Owners
<1>5. OwnersCounted  BY <1>4, FS_EmptySet DEF OwnersCounted, Init
<1>6. WindowsHeld  BY <1>3 DEF WindowsHeld, HoldsWindow, Init, Closed
<1>7. DeviceHeld  BY DEF Init, DeviceHeld, DeviceIsLive, NoDevice
<1>8. Followed  BY <1>3 DEF Followed, Init
<1> QED  BY <1>2, <1>5, <1>6, <1>7, <1>8 DEF SharedInv, Init

\* The audio device.
LEMMA DeviceKept ==
  ASSUME SharedInv, UNCHANGED <<setup, managers, windows, queue, polled>>,
         library' \in [up : BOOLEAN, refs : Nat, vulkan : Nat, audio : {0, 1}],
         library'.refs = library.refs, library'.up = library.up, library'.vulkan = library.vulkan,
         device' \in [stream : BOOLEAN, owns : BOOLEAN, running : BOOLEAN, mix : BOOLEAN, scratch : Nat, block : Nat,
                      alive : BOOLEAN],
         DeviceHeld'
  PROVE  SharedInv'
<1>1. SharedTyped /\ WindowsHeld /\ OwnersCounted  BY DEF SharedInv
<1>2. SharedTyped'  BY <1>1 DEF SharedTyped
<1>3. \A x \in Managers : SameHolding(managers[x], managers'[x])
  BY <1>1 DEF WindowsHeld, HoldsWindow, SameHolding
<1>4. WindowsHeld' /\ OwnersCounted'
  BY <1>1, <1>3, HoldingKept, OwnersKept
<1>5. ~(Sdl' /\ setup'.several) => Followed'
  <2>1. Sdl' = Sdl  BY DEF Sdl
  <2>2. \A x \in Managers : SameFlags(managers[x], managers'[x])  BY DEF SameFlags
  <2> QED  BY <1>1, <2>1, <2>2, FollowedKept DEF SharedInv
<1> QED  BY <1>2, <1>4, <1>5 DEF SharedInv

\* The audio device's own steps.
LEMMA DeviceKeeps ==
  ASSUME SharedInv, QueueAssumption,
         \/ \E period \in Periods : OpenDevice(period)
         \/ OpenFails \/ CloseDevice
         \/ \E b \in BOOLEAN : SetMixCallback(b) \/ Resume(b)
         \/ \E wanted \in Requests : FillStream(wanted)
  PROVE  SharedInv'
<1> DEFINE DeviceSet == [stream : BOOLEAN, owns : BOOLEAN, running : BOOLEAN, mix : BOOLEAN, scratch : Nat, block : Nat,
                         alive : BOOLEAN]
           LibrarySet == [up : BOOLEAN, refs : Nat, vulkan : Nat, audio : {0, 1}]
<1>1. /\ device \in DeviceSet /\ library \in LibrarySet
      /\ device.stream => "audio" \in setup.uses
      /\ library.audio = 1 => device.owns
      /\ AudioWithoutVulkan => DeviceIsLive
  BY DEF SharedInv, SharedTyped, DeviceHeld
<1>2. /\ Unsubscribed \in LibrarySet /\ Unsubscribed.audio = 0 /\ Unsubscribed.refs = library.refs
      /\ Unsubscribed.up = library.up /\ Unsubscribed.vulkan = library.vulkan
  BY <1>1 DEF Unsubscribed
<1>3. /\ DeviceClosed \in DeviceSet /\ ~DeviceClosed.stream /\ ~DeviceClosed.alive /\ ~DeviceClosed.owns /\ ~DeviceClosed.running
      /\ DeviceClosed.scratch = 0 /\ DeviceClosed.block = 0
  BY <1>1 DEF DeviceClosed
<1>4. ASSUME NEW period \in Periods, OpenDevice(period) PROVE SharedInv'
  <2>1. period \in Nat  BY DEF QueueAssumption
  <2>2. library' = [Unsubscribed EXCEPT !.audio = @ + 1] /\ UNCHANGED <<setup, managers, windows, queue, polled>>
        /\ device' = [DeviceClosed EXCEPT !.stream = TRUE, !.alive = TRUE, !.owns = TRUE, !.scratch = 4 * period]
        /\ "audio" \in setup.uses
    BY <1>4 DEF OpenDevice
  <2>3. /\ library' \in LibrarySet /\ library'.audio = 1 /\ library'.refs = library.refs
        /\ library'.up = library.up /\ library'.vulkan = library.vulkan
    BY <1>2, <2>2
  <2>4. /\ device' \in DeviceSet /\ device'.stream /\ device'.alive /\ device'.owns
        /\ device'.scratch = 4 * period /\ device'.block = 0
    <3> DEFINE n == 4 * period
    <3>1. n \in Nat  BY <2>1
    <3> HIDE DEF n
    <3>2. device' = [DeviceClosed EXCEPT !.stream = TRUE, !.alive = TRUE, !.owns = TRUE, !.scratch = n]
      BY <2>2 DEF n
    <3>3. /\ device' \in DeviceSet /\ device'.stream /\ device'.alive /\ device'.owns
          /\ device'.scratch = n /\ device'.block = 0
      BY <1>3, <3>1, <3>2
    <3> QED  BY <3>3 DEF n
  <2>5. DeviceIsLive'  BY <2>1, <2>3, <2>4 DEF DeviceIsLive
  <2>6. DeviceHeld'  BY <2>2, <2>4, <2>5 DEF DeviceHeld
  <2> QED  BY <2>2, <2>3, <2>4, <2>6, DeviceKept
<1>5. CASE OpenFails \/ CloseDevice
  <2>1. library' = Unsubscribed /\ device' = DeviceClosed /\ UNCHANGED <<setup, managers, windows, queue, polled>>
    BY <1>5 DEF OpenFails, CloseDevice
  <2>2. DeviceIsLive'  BY <1>2, <1>3, <2>1 DEF DeviceIsLive
  <2>3. DeviceHeld'  BY <1>2, <1>3, <2>1, <2>2 DEF DeviceHeld
  <2> QED  BY <1>2, <1>3, <2>1, <2>3, DeviceKept
<1>6. ASSUME NEW b \in BOOLEAN, SetMixCallback(b) \/ Resume(b) PROVE SharedInv'
  <2>1. UNCHANGED <<setup, library, managers, windows, queue, polled>>
        /\ \/ device' = [device EXCEPT !.mix = b]
           \/ device' = [device EXCEPT !.running = b, !.block = 0] /\ device.stream
    BY <1>6 DEF SetMixCallback, Resume
  <2>2. CASE device' = [device EXCEPT !.mix = b]
    <3>1. /\ device' \in DeviceSet /\ device'.stream = device.stream /\ device'.alive = device.alive
          /\ device'.owns = device.owns /\ device'.running = device.running /\ device'.block = device.block
          /\ device'.scratch = device.scratch
      BY <1>1, <2>2
    <3>2. AudioWithoutVulkan => DeviceIsLive'  BY <1>1, <2>1, <3>1 DEF DeviceIsLive
    <3>3. DeviceHeld'  BY <1>1, <2>1, <3>1, <3>2 DEF DeviceHeld
    <3> QED  BY <1>1, <2>1, <3>1, <3>3, DeviceKept
  <2>3. CASE device' = [device EXCEPT !.running = b, !.block = 0] /\ device.stream
    <3>1. /\ device' \in DeviceSet /\ device'.stream = device.stream /\ device'.alive = device.alive
          /\ device'.owns = device.owns /\ device'.block = 0 /\ device'.scratch = device.scratch
      BY <1>1, <2>3
    <3>2. device.scratch \in Nat  BY <1>1
    <3>3. device'.running => device'.stream  BY <2>3, <3>1
    <3>4. AudioWithoutVulkan => DeviceIsLive'  BY <1>1, <2>1, <3>1, <3>2, <3>3 DEF DeviceIsLive
    <3>5. DeviceHeld'  BY <1>1, <2>1, <3>1, <3>4 DEF DeviceHeld
    <3> QED  BY <1>1, <2>1, <3>1, <3>5, DeviceKept
  <2> QED  BY <2>1, <2>2, <2>3
<1>7. ASSUME NEW wanted \in Requests, FillStream(wanted) PROVE SharedInv'
  <2>1. wanted \in Nat  BY DEF Requests, QueueAssumption
  <2>2. UNCHANGED <<setup, library, managers, windows, queue, polled>> /\ device' = [device EXCEPT !.block = Clamped(wanted)]
    BY <1>7 DEF FillStream
  <2>3. Clamped(wanted) \in Nat /\ Clamped(wanted) <= device.scratch  BY <1>1, <2>1 DEF Clamped
  <2> DEFINE n == Clamped(wanted)
  <2> HIDE DEF n
  <2>4. /\ device' \in DeviceSet /\ device'.stream = device.stream /\ device'.owns = device.owns /\ device'.block = n
        /\ device'.alive = device.alive /\ device'.running = device.running /\ device'.scratch = device.scratch
    <3>1. n \in Nat /\ device' = [device EXCEPT !.block = n]  BY <2>2, <2>3 DEF n
    <3> QED  BY <1>1, <3>1
  <2>5. AudioWithoutVulkan => DeviceIsLive'  BY <1>1, <2>2, <2>3, <2>4 DEF DeviceIsLive, n
  <2>6. DeviceHeld'  BY <1>1, <2>2, <2>4, <2>5 DEF DeviceHeld
  <2> QED  BY <1>1, <2>2, <2>4, <2>6, DeviceKept
<1> QED  BY <1>4, <1>5, <1>6, <1>7

\* The steps on the record of one manager that leave its hold on the library alone.
LEMMA RecordKept ==
  ASSUME SharedInv, NEW x \in Managers, NEW new \in Manager, managers' = [managers EXCEPT ![x] = new],
         UNCHANGED <<setup, library, windows, queue, polled, device>>,
         SameHolding(managers[x], new), SameFlags(managers[x], new), new.text = managers[x].text,
         \/ new.size = managers[x].size
         \/ Sdl /\ Window(x) # None /\ new.size = windows[Window(x)].size
  PROVE  SharedInv'
<1>1. SharedTyped /\ WindowsHeld /\ OwnersCounted  BY DEF SharedInv
<1>2. SharedTyped'  BY <1>1 DEF SharedTyped
<1>3. managers'[x] = new /\ \A y \in Managers \ {x} : managers'[y] = managers[y]  BY <1>1 DEF SharedTyped
<1>4. \A y \in Managers : SameHolding(managers[y], managers'[y])
  BY <1>1, <1>3 DEF WindowsHeld, HoldsWindow, SameHolding
<1>5. WindowsHeld' /\ OwnersCounted'  BY <1>1, <1>4, HoldingKept, OwnersKept
<1>6. DeviceHeld'  BY DEF SharedInv, DeviceHeld, DeviceIsLive
<1>7. ~(Sdl' /\ setup'.several) => Followed'
  <2>1. Sdl' = Sdl  BY DEF Sdl
  <2>2. \A y \in Managers :
           /\ SameFlags(managers[y], managers'[y])
           /\ managers'[y].owns = managers[y].owns /\ managers'[y].text = managers[y].text
           /\ \/ managers'[y].size = managers[y].size
              \/ Sdl /\ Window(y) # None /\ managers'[y].size = windows[Window(y)].size
    BY <1>3 DEF SameFlags, SameHolding
  <2> QED  BY <1>1, <2>1, <2>2, FollowedKept DEF SharedInv
<1> QED  BY <1>2, <1>5, <1>6, <1>7 DEF SharedInv

\* A record as one of its set.
LEMMA RecordTyped ==
  ASSUME SharedInv, NEW x \in Managers
  PROVE  /\ managers[x] \in Manager /\ Window(x) \in Windows \cup {None} /\ Window(x) = managers[x].window
         /\ (managers[x].cursors => Window(x) # None) /\ (managers[x].size # managers[x].shown => managers[x].resized)
BY DEF SharedInv, SharedTyped, WindowsHeld, HoldsWindow, Manager, Window

\* What pollEvents() takes from the window itself.
LEMMA SyncedIs ==
  ASSUME SharedInv, NEW x \in Managers, NEW m \in Manager, m.window = Window(x)
  PROVE  /\ SizeSynced(m) \in Manager
         /\ \/ SizeSynced(m) = m
            \/ /\ Sdl /\ Window(x) # None
               /\ SizeSynced(m) = [m EXCEPT !.size = windows[Window(x)].size, !.resized = TRUE]
         /\ Sdl /\ Window(x) # None => SizeSynced(m).size = windows[Window(x)].size
<1>1. Window(x) \in Windows \cup {None} /\ windows \in [Windows -> LibraryWindow]
  BY RecordTyped DEF SharedInv, SharedTyped
<1>2. Window(x) # None => windows[Window(x)].size \in Sizes  BY <1>1 DEF LibraryWindow
<1>3. CASE Sdl /\ Window(x) # None /\ windows[Window(x)].size # m.size
  <2>1. SizeSynced(m) = [m EXCEPT !.size = windows[Window(x)].size, !.resized = TRUE]
    BY <1>3 DEF SizeSynced, Resized
  <2>2. SizeSynced(m) \in Manager /\ SizeSynced(m).size = windows[Window(x)].size  BY <1>2, <1>3, <2>1 DEF Manager
  <2> QED  BY <1>3, <2>1, <2>2
<1>4. CASE ~(Sdl /\ Window(x) # None /\ windows[Window(x)].size # m.size)
  BY <1>4 DEF SizeSynced
<1> QED  BY <1>3, <1>4

\* takeResize, close() and the cursor change the manager's record alone.
LEMMA RecordKeeps ==
  ASSUME SharedInv, NEW x \in Managers, TakeResize(x) \/ Close(x) \/ SetCursor(x)
  PROVE  SharedInv'
<1>1. managers[x] \in Manager /\ Window(x) \in Windows \cup {None} /\ Window(x) = managers[x].window
      /\ (managers[x].cursors => Window(x) # None) /\ (managers[x].size # managers[x].shown => managers[x].resized)
  BY RecordTyped
<1>2. CASE TakeResize(x)
  <2> DEFINE synced == SizeSynced(managers[x])
             new == [synced EXCEPT !.resized = FALSE, !.shown = synced.size]
  <2>1. managers' = [managers EXCEPT ![x] = new] /\ UNCHANGED <<setup, library, windows, queue, polled, device>>
    BY <1>2 DEF TakeResize
  <2>2. /\ synced \in Manager
        /\ \/ synced = managers[x]
           \/ /\ Sdl /\ Window(x) # None
              /\ synced = [managers[x] EXCEPT !.size = windows[Window(x)].size, !.resized = TRUE]
    BY <1>1, SyncedIs
  <2> HIDE DEF synced
  <2>3. /\ new \in Manager /\ new.size = synced.size /\ new.shown = synced.size
        /\ SameFlags(synced, new) /\ SameHolding(synced, new) /\ new.text = synced.text
    BY <2>2 DEF Manager, SameFlags, SameHolding
  <2>4. SameFlags(managers[x], synced) /\ synced.text = managers[x].text /\ synced.owns = managers[x].owns /\ synced.state = managers[x].state
        /\ synced.listener = managers[x].listener /\ synced.context = managers[x].context /\ synced.cursors = managers[x].cursors
        /\ \/ synced.size = managers[x].size
           \/ Sdl /\ Window(x) # None /\ synced.size = windows[Window(x)].size
    BY <1>1, <2>2, ZenonT(60) DEF Manager, SameFlags
  <2>5. SameHolding(managers[x], new) /\ SameFlags(managers[x], new)
    BY <2>3, <2>4 DEF SameHolding, SameFlags
  <2> HIDE DEF new
  <2> QED  BY <2>1, <2>3, <2>4, <2>5, RecordKept
<1>3. CASE Close(x)
  <2> DEFINE new == [managers[x] EXCEPT !.closing = TRUE]
  <2>1. managers' = [managers EXCEPT ![x] = new] /\ UNCHANGED <<setup, library, windows, queue, polled, device>>
    BY <1>3 DEF Close
  <2>2. new \in Manager /\ new.size = managers[x].size /\ SameFlags(managers[x], new) /\ SameHolding(managers[x], new)
        /\ new.text = managers[x].text
    BY <1>1 DEF Manager, SameFlags, SameHolding
  <2> HIDE DEF new
  <2> QED  BY <2>1, <2>2, RecordKept
<1>4. CASE SetCursor(x)
  <2> DEFINE new == [managers[x] EXCEPT !.cursors = TRUE]
  <2>1. managers' = [managers EXCEPT ![x] = new] /\ UNCHANGED <<setup, library, windows, queue, polled, device>>
        /\ Window(x) # None
    BY <1>4 DEF SetCursor
  <2>2. new \in Manager /\ new.size = managers[x].size /\ SameFlags(managers[x], new) /\ SameHolding(managers[x], new)
        /\ new.text = managers[x].text
    BY <1>1, <2>1 DEF Manager, SameFlags, SameHolding
  <2> HIDE DEF new
  <2> QED  BY <2>1, <2>2, RecordKept
<1> QED  BY <1>2, <1>3, <1>4

\* The steps on one window that leave it with its manager, and may change that manager's record.
LEMMA WindowKept ==
  ASSUME SharedInv, NEW w \in Windows, NEW new \in LibraryWindow, windows' = [windows EXCEPT ![w] = new],
         new.open = windows[w].open, new.user = windows[w].user,
         managers' \in [Managers -> Manager], \A x \in Managers : SameHolding(managers[x], managers'[x]),
         \A x \in Managers : Window(x) # w => managers'[x] = managers[x],
         queue' \in Seq(QueueEvents), Len(queue') <= MaxEvents, polled' \in {polled, {}}, polled' # {} => queue' = <<>>,
         UNCHANGED <<setup, library, device>>,
         ~(Sdl /\ setup.several) =>
            /\ \A i \in DOMAIN queue' : queue'[i].window = w \/ (i \in DOMAIN queue /\ queue'[i].window = queue[i].window)
            /\ \A v \in Windows \ {w} : \A kind : /\ ToldBy(v, kind)' = ToldBy(v, kind)
                                                /\ \A i \in ToldBy(v, kind) : queue'[i].value = queue[i].value
            /\ \A x \in Managers : Window(x) = w => Follows(x)',
         w = None => FALSE, new.open
  PROVE  SharedInv'
<1>1. SharedTyped /\ WindowsHeld /\ OwnersCounted  BY DEF SharedInv
<1>2. SharedTyped'  BY <1>1 DEF SharedTyped
<1>3. windows'[w] = new /\ \A v \in Windows \ {w} : windows'[v] = windows[v]  BY <1>1 DEF SharedTyped
<1>4. WindowsHeld' /\ OwnersCounted'  BY <1>1, <1>3, HoldingKept, OwnersKept
<1>5. DeviceHeld'  BY DEF SharedInv, DeviceHeld, DeviceIsLive
<1>6. /\ Sdl' = Sdl /\ \A x \in Managers : Window(x)' = Window(x) /\ Window(x) \in Windows \cup {None}
  BY <1>1 DEF Sdl, Window, SameHolding, SharedTyped, Manager
<1>7. ASSUME ~(Sdl' /\ setup'.several) PROVE Followed'
  <2>0. Followed  BY <1>6, <1>7 DEF SharedInv
  <2>1. ASSUME NEW x \in Managers, Window(x)' # None PROVE Follows(x)'
    <3>1. Window(x) # None /\ Follows(x)  BY <1>6, <2>0, <2>1 DEF Followed
    <3>2. CASE Window(x) = w  BY <1>6, <1>7, <3>2
    <3>3. CASE Window(x) # w
      <4>1. managers'[x] = managers[x] /\ windows'[Window(x)] = windows[Window(x)]  BY <1>3, <1>6, <3>1, <3>3
      <4>2. SameFlags(managers[x], managers'[x]) /\ SameWindow(windows[Window(x)], windows'[Window(x)])
        BY <4>1 DEF SameFlags, SameWindow
      <4>3. \A kind : /\ ToldBy(Window(x), kind)' = ToldBy(Window(x), kind)
                      /\ \A i \in ToldBy(Window(x), kind) : queue'[i].value = queue[i].value
        BY <1>6, <1>7, <3>1, <3>3
      <4>4. x \in polled' => x \in polled  OBVIOUS
      <4> QED  BY <1>1, <1>6, <3>1, <4>1, <4>2, <4>3, <4>4, FollowsKept
    <3> QED  BY <3>2, <3>3
  <2>2. ASSUME NEW x \in Managers, managers'[x].owns, Window(x)' = None PROVE Fresh(managers[x])'
    <3>1. managers'[x] = managers[x]  BY <1>6, <2>2
    <3> QED  BY <1>6, <2>0, <2>2, <3>1 DEF Followed, Fresh
  <2>3. \A i \in DOMAIN queue' : queue'[i].window # None => windows'[queue'[i].window].open
    <3> SUFFICES ASSUME NEW i \in DOMAIN queue', queue'[i].window # None PROVE windows'[queue'[i].window].open
      OBVIOUS
    <3>1. CASE queue'[i].window = w  BY <1>3, <3>1
    <3>2. CASE queue'[i].window # w
      <4>1. i \in DOMAIN queue /\ queue'[i].window = queue[i].window  BY <1>6, <1>7, <3>2
      <4>2. windows[queue[i].window].open /\ queue[i] \in QueueEvents  BY <1>1, <2>0, <4>1 DEF Followed, SharedTyped
      <4>3. queue[i].window \in Windows  BY <4>1, <4>2 DEF QueueEvents
      <4> QED  BY <1>3, <3>2, <4>1, <4>2, <4>3
    <3> QED  BY <3>1, <3>2
  <2>4. Sdl' => \A i \in DOMAIN queue' : queue'[i].window # None
    BY <1>6, <1>7, <2>0 DEF Followed
  <2> QED  BY <2>1, <2>2, <2>3, <2>4 DEF Followed
<1> QED  BY <1>2, <1>4, <1>5, <1>7 DEF SharedInv

\* setTextInputEnabled() changes the manager and the window together.
LEMMA TextKeeps ==
  ASSUME WindowsAssumption, SharedInv, NEW x \in Managers, NEW enabled \in BOOLEAN, SetTextInputEnabled(x, enabled)
  PROVE  SharedInv'
<1> DEFINE new == [managers[x] EXCEPT !.text = enabled]
           shown == IF Sdl THEN [windows[Window(x)] EXCEPT !.text = enabled] ELSE windows[Window(x)]
<1>0. PICK w : w = Window(x)  OBVIOUS
<1>1. managers[x] \in Manager /\ w \in Windows /\ managers[x].window = w
      /\ (managers[x].size # managers[x].shown => managers[x].resized) /\ windows[w] \in LibraryWindow
      /\ (managers[x].cursors => w # None)
  BY <1>0, RecordTyped DEF SetTextInputEnabled, SharedInv, SharedTyped
<1>2. managers' = [managers EXCEPT ![x] = new] /\ UNCHANGED <<setup, library, queue, polled, device>>
      /\ windows' = [windows EXCEPT ![w] = shown]
  BY <1>0, <1>1 DEF SetTextInputEnabled, SharedInv, SharedTyped
<1>3. /\ new \in Manager /\ SameHolding(managers[x], new) /\ SameFlags(managers[x], new) /\ new.size = managers[x].size
      /\ new.text = enabled
  BY <1>1 DEF Manager, SameHolding, SameFlags
<1>4. /\ shown \in LibraryWindow /\ SameWindow(windows[w], shown) /\ shown.open = windows[w].open
      /\ shown.user = windows[w].user /\ (Sdl => shown.text = enabled)
  BY <1>0, <1>1 DEF LibraryWindow, SameWindow
<1> HIDE DEF new, shown
<1>5. SharedTyped /\ WindowsHeld  BY DEF SharedInv
<1>6. /\ managers' \in [Managers -> Manager] /\ managers'[x] = new /\ \A y \in Managers \ {x} : managers'[y] = managers[y]
      /\ windows'[w] = shown
  BY <1>1, <1>2, <1>3, <1>5 DEF SharedTyped
<1>7. \A y \in Managers : SameHolding(managers[y], managers'[y])
  BY <1>3, <1>5, <1>6 DEF WindowsHeld, HoldsWindow, SameHolding
<1>8. w # None /\ windows[w].open /\ \A y \in Managers \ {x} : Window(y) # w
  BY <1>0, <1>1, <1>5 DEF WindowsAssumption, WindowsHeld, HoldsWindow
<1>9. \A v : \A kind : ToldBy(v, kind)' = ToldBy(v, kind)  BY <1>2 DEF ToldBy
<1>10. ASSUME ~(Sdl /\ setup.several) PROVE Follows(x)'
  <2>1. Follows(x)  BY <1>0, <1>8, <1>10 DEF SharedInv, Followed
  <2> QED  BY <1>0, <1>1, <1>2, <1>3, <1>4, <1>5, <1>6, <1>9, <2>1, FollowsKept
<1>11. \A y \in Managers : Window(y) # w => managers'[y] = managers[y]  BY <1>0, <1>6
<1>12. \A y \in Managers : Window(y) = w => y = x  BY <1>8
<1>13. polled' # {} => queue' = <<>>  BY <1>2 DEF SharedInv
<1>14. queue' \in Seq(QueueEvents) /\ Len(queue') <= MaxEvents /\ DOMAIN queue' = DOMAIN queue  BY <1>2, <1>5 DEF SharedTyped
<1> QED
  BY <1>1, <1>2, <1>4, <1>6, <1>7, <1>8, <1>9, <1>10, <1>11, <1>12, <1>13, <1>14, WindowKept, ZenonT(60)

\* The user dismisses the on-screen keyboard.
LEMMA DismissKeeps ==
  ASSUME WindowsAssumption, SharedInv, NEW w \in Windows, DismissText(w)
  PROVE  SharedInv'
<1> DEFINE new == [windows[w] EXCEPT !.text = FALSE]
<1>1. SharedTyped /\ WindowsHeld /\ windows[w] \in LibraryWindow  BY DEF SharedInv, SharedTyped
<1>2. windows' = [windows EXCEPT ![w] = new] /\ UNCHANGED <<setup, library, managers, queue, device>> /\ polled' = {}
      /\ windows[w].text
  BY <1>1 DEF DismissText, SharedTyped
<1>3. /\ new \in LibraryWindow /\ SameWindow(windows[w], new) /\ new.open = windows[w].open
      /\ new.user = windows[w].user /\ ~new.text
  BY <1>1 DEF LibraryWindow, SameWindow
<1> HIDE DEF new
<1>4. windows[w].open /\ w # None  BY <1>1, <1>2 DEF WindowsHeld, WindowsAssumption
<1>5. \A y \in Managers : SameHolding(managers[y], managers'[y])
  BY <1>1, <1>2 DEF WindowsHeld, HoldsWindow, SameHolding
<1>6. windows'[w] = new  BY <1>1, <1>2 DEF SharedTyped
<1>7. \A v : \A kind : ToldBy(v, kind)' = ToldBy(v, kind)  BY <1>2 DEF ToldBy
<1>8. ASSUME ~(Sdl /\ setup.several), NEW x \in Managers, Window(x) = w PROVE Follows(x)'
  <2>1. Follows(x)  BY <1>4, <1>8 DEF SharedInv, Followed
  <2>2. SameFlags(managers[x], managers'[x])  BY <1>2 DEF SameFlags
  <2>3. x \in polled' => x \in polled  BY <1>2
  <2>4. /\ Sdl /\ windows'[w].text => managers'[x].text
        /\ Sdl /\ x \in polled' => managers'[x].text = windows'[w].text
    BY <1>2, <1>3, <1>6
  <2> QED  BY <1>1, <1>2, <1>3, <1>6, <1>7, <1>8, <2>1, <2>2, <2>3, <2>4, FollowsKept
<1>9. queue' \in Seq(QueueEvents) /\ Len(queue') <= MaxEvents /\ DOMAIN queue' = DOMAIN queue  BY <1>1, <1>2 DEF SharedTyped
<1>10. managers' \in [Managers -> Manager]  BY <1>1, <1>2 DEF SharedTyped
<1> QED
  BY <1>2, <1>3, <1>4, <1>5, <1>7, <1>8, <1>9, <1>10, WindowKept

\* What has been told after one event more.
LEMMA ToldAppended ==
  ASSUME SharedTyped, NEW w, NEW kind, NEW value, queue' = Append(queue, [window |-> w, kind |-> kind, value |-> value])
  PROVE  /\ \A v, k : ~(v = w /\ k = kind) => ToldBy(v, k)' = ToldBy(v, k)
         /\ ToldBy(w, kind)' = ToldBy(w, kind) \cup {Len(queue) + 1}
         /\ \A i \in DOMAIN queue : queue'[i] = queue[i]
         /\ queue'[Len(queue) + 1] = [window |-> w, kind |-> kind, value |-> value]
         /\ DOMAIN queue' = DOMAIN queue \cup {Len(queue) + 1}
<1> DEFINE e == [window |-> w, kind |-> kind, value |-> value]
<1>0. e.window = w /\ e.kind = kind  OBVIOUS
<1> HIDE DEF e
<1>1. queue \in Seq(QueueEvents) /\ queue' = Append(queue, e) /\ Len(queue) \in Nat  BY DEF SharedTyped, e
<1>2. DOMAIN queue = 1 .. Len(queue) /\ DOMAIN queue' = 1 .. (Len(queue) + 1)  BY <1>1
<1>3. /\ \A i \in DOMAIN queue : queue'[i] = queue[i]
      /\ queue'[Len(queue) + 1] = e
      /\ DOMAIN queue' = DOMAIN queue \cup {Len(queue) + 1}
  BY <1>1, <1>2
<1>4. \A v, k : ToldBy(v, k)' = {i \in DOMAIN queue' : queue'[i].window = v /\ queue'[i].kind = k}
  BY DEF ToldBy
<1>5. \A v, k : ~(v = w /\ k = kind) => ToldBy(v, k)' = ToldBy(v, k)
  BY <1>0, <1>3, <1>4 DEF ToldBy
<1>6. ToldBy(w, kind)' = ToldBy(w, kind) \cup {Len(queue) + 1}
  BY <1>0, <1>3, <1>4 DEF ToldBy
<1> QED  BY <1>3, <1>5, <1>6 DEF e

\* A change of one field of a window, told last.
LEMMA ChangeKeeps ==
  ASSUME WindowsAssumption, QueueAssumption, SharedInv, NEW w \in Windows, Change(w)
  PROVE  SharedInv'
<1>1. PICK c \in Changes :
       /\ windows' = [windows EXCEPT ![w] = [@ EXCEPT ![c[1]] = c[2]]]
       /\ queue' = Append(queue, [window |-> w, kind |-> c[1], value |-> c[2]])
  BY DEF Change
<1>2. PICK kind, value : kind = c[1] /\ value = c[2]  OBVIOUS
<1>3. \/ kind \in Flags /\ value \in BOOLEAN
      \/ kind = "size" /\ value \in Sizes
  <2>1. \/ \E k \in {"focused", "minimized", "maximized"}, b \in BOOLEAN : c = <<k, b>>
        \/ \E s \in Sizes : c = <<"size", s>>
        \/ c = <<"closing", TRUE>>
    BY DEF Changes
  <2>2. CASE \E k \in {"focused", "minimized", "maximized"}, b \in BOOLEAN : c = <<k, b>>
    <3>1. PICK k \in {"focused", "minimized", "maximized"}, b \in BOOLEAN : c = <<k, b>>  BY <2>2
    <3>2. kind = k /\ value = b  BY <1>2, <3>1
    <3> QED  BY <3>1, <3>2, Zenon DEF Flags
  <2>3. CASE c = <<"closing", TRUE>>
    <3>1. kind = "closing" /\ value = TRUE  BY <1>2, <2>3
    <3> QED  BY <3>1, Zenon DEF Flags
  <2>4. CASE \E s \in Sizes : c = <<"size", s>>  BY <1>2, <2>4
  <2> QED  BY <2>1, <2>2, <2>3, <2>4
<1> DEFINE new == [windows[w] EXCEPT ![kind] = value]
           e == [window |-> w, kind |-> kind, value |-> value]
<1>4. SharedTyped /\ WindowsHeld /\ windows[w] \in LibraryWindow  BY DEF SharedInv, SharedTyped
<1>5. /\ windows' = [windows EXCEPT ![w] = new] /\ queue' = Append(queue, e)
      /\ UNCHANGED <<setup, library, managers, device>> /\ polled' = {} /\ windows[w].open /\ Len(queue) < MaxEvents
  BY <1>1, <1>2, <1>4 DEF Change, SharedTyped
<1>6. /\ new \in LibraryWindow /\ new.open = windows[w].open /\ new.user = windows[w].user /\ new.text = windows[w].text
      /\ \A k \in Flags \cup {"size"} : new[k] = IF k = kind THEN value ELSE windows[w][k]
  <2>1. CASE kind = "focused"  BY <1>3, <1>4, <2>1 DEF LibraryWindow, Flags
  <2>2. CASE kind = "minimized"  BY <1>3, <1>4, <2>2 DEF LibraryWindow, Flags
  <2>3. CASE kind = "maximized"  BY <1>3, <1>4, <2>3 DEF LibraryWindow, Flags
  <2>4. CASE kind = "closing"  BY <1>3, <1>4, <2>4 DEF LibraryWindow, Flags
  <2>5. CASE kind = "size"  BY <1>3, <1>4, <2>5 DEF LibraryWindow, Flags
  <2> QED  BY <1>3, <2>1, <2>2, <2>3, <2>4, <2>5 DEF Flags
<1> HIDE DEF new
<1>7. e \in QueueEvents  BY <1>3 DEF QueueEvents
<1>8. queue' \in Seq(QueueEvents) /\ Len(queue') <= MaxEvents
  <2> HIDE DEF e
  <2>1. queue \in Seq(QueueEvents) /\ Len(queue') = Len(queue) + 1  BY <1>4, <1>5 DEF SharedTyped
  <2>2. queue' \in Seq(QueueEvents)  BY <1>5, <1>7, <2>1
  <2> QED  BY <1>5, <2>1, <2>2 DEF QueueAssumption
<1>9. /\ \A v, k : ~(v = w /\ k = kind) => ToldBy(v, k)' = ToldBy(v, k)
      /\ ToldBy(w, kind)' = ToldBy(w, kind) \cup {Len(queue) + 1}
      /\ \A i \in DOMAIN queue : queue'[i] = queue[i]
      /\ queue'[Len(queue) + 1] = e
      /\ DOMAIN queue' = DOMAIN queue \cup {Len(queue) + 1}
  BY <1>4, <1>5, ToldAppended
<1>10. w # None /\ windows'[w] = new  BY <1>4, <1>5 DEF WindowsAssumption, SharedTyped
<1>11. \A y \in Managers : SameHolding(managers[y], managers'[y])
  BY <1>4, <1>5 DEF WindowsHeld, HoldsWindow, SameHolding
<1>12. \A k : ToldBy(w, k) \subseteq DOMAIN queue /\ \A i \in ToldBy(w, k) : i <= Len(queue) + 1
  BY <1>4 DEF ToldBy, SharedTyped
<1>13. \A k : ToldBy(w, k) \subseteq DOMAIN queue  BY <1>12
<1>14. ASSUME NEW k \in Flags \cup {"size"}, NEW held, Says(w, k, held, windows[w][k])
       PROVE  \/ ToldBy(w, k)' = {} /\ held = windows'[w][k]
              \/ \E i \in ToldBy(w, k)' : queue'[i].value = windows'[w][k] /\ \A j \in ToldBy(w, k)' : j <= i
  <2>1. CASE k = kind
    <3>1. windows'[w][k] = value /\ queue'[Len(queue) + 1].value = value  BY <1>6, <1>9, <1>10, <2>1
    <3>2. Len(queue) + 1 \in ToldBy(w, k)' /\ Len(queue) + 1 <= Len(queue) + 1 /\ \A j \in ToldBy(w, k)' : j <= Len(queue) + 1
      BY <1>4, <1>9, <1>12, <2>1 DEF SharedTyped
    <3> QED  BY <3>1, <3>2
  <2>2. CASE k # kind
    <3>1. ToldBy(w, k)' = ToldBy(w, k) /\ windows'[w][k] = windows[w][k]  BY <1>6, <1>9, <1>10, <2>2
    <3> QED  BY <1>9, <1>13, <1>14, <3>1 DEF Says
  <2> QED  BY <2>1, <2>2
<1>15. ASSUME ~(Sdl /\ setup.several), NEW x \in Managers, Window(x) = w PROVE Follows(x)'
  <2>1. Follows(x)  BY <1>10, <1>15 DEF SharedInv, Followed
  <2>2. Window(x)' = w /\ Sdl' = Sdl /\ managers' = managers  BY <1>5, <1>15 DEF Window, Sdl
  <2>3. /\ Says(w, "focused", managers[x].focused, windows[w]["focused"])
        /\ Says(w, "minimized", managers[x].minimized, windows[w]["minimized"])
        /\ ~Sdl => Says(w, "maximized", managers[x].maximized, windows[w]["maximized"])
        /\ ~Sdl => Says(w, "size", managers[x].size, windows[w]["size"])
        /\ Sdl /\ windows[w].closing => managers[x].closing \/ ToldBy(w, "closing") # {}
        /\ Sdl /\ windows[w].text => managers[x].text
    BY <1>15, <2>1 DEF Follows
  <2>4. Says(w, "focused", managers[x].focused, windows[w].focused)'
    BY <1>14, <2>2, <2>3, ZenonT(60) DEF Says, Flags
  <2>9. Says(w, "minimized", managers[x].minimized, windows[w].minimized)'
    BY <1>14, <2>2, <2>3, ZenonT(60) DEF Says, Flags
  <2>5. ~Sdl => /\ Says(w, "maximized", managers[x].maximized, windows[w].maximized)'
                /\ Says(w, "size", managers[x].size, windows[w].size)'
    BY <1>14, <2>2, <2>3, ZenonT(60) DEF Says, Flags
  <2>6. Sdl /\ windows'[w].closing => managers[x].closing \/ ToldBy(w, "closing")' # {}
    <3>1. CASE kind = "closing"  BY <1>9, <3>1
    <3>2. CASE kind # "closing"
      <4>1. ToldBy(w, "closing")' = ToldBy(w, "closing") /\ windows'[w]["closing"] = windows[w]["closing"]
        BY <1>6, <1>9, <1>10, <3>2 DEF Flags
      <4> QED  BY <2>3, <4>1
    <3> QED  BY <3>1, <3>2
  <2>7. Sdl /\ windows'[w].text => managers[x].text  BY <1>6, <1>10, <2>3
  <2>8. x \notin polled'  BY <1>5
  <2> QED  BY <2>2, <2>4, <2>5, <2>6, <2>7, <2>8, <2>9 DEF Follows
<1>16. \A i \in DOMAIN queue' : queue'[i].window = w \/ (i \in DOMAIN queue /\ queue'[i].window = queue[i].window)
  BY <1>9
<1>17. \A v \in Windows \ {w} : \A k : /\ ToldBy(v, k)' = ToldBy(v, k)
                                       /\ \A i \in ToldBy(v, k) : queue'[i].value = queue[i].value
  BY <1>9 DEF ToldBy
<1>18. managers' \in [Managers -> Manager] /\ managers' = managers  BY <1>4, <1>5 DEF SharedTyped
<1> QED
  BY <1>5, <1>6, <1>8, <1>10, <1>11, <1>15, <1>16, <1>17, <1>18, WindowKept

\* The managers but one are as they were.
LEMMA OthersFollow ==
  ASSUME SharedTyped, Followed, NEW y \in Managers, managers'[y] = managers[y], UNCHANGED <<setup, queue>>,
         Window(y) # None, windows'[Window(y)] = windows[Window(y)], y \in polled' => y \in polled
  PROVE  Follows(y)'
<1>1. PICK w : w = Window(y)  OBVIOUS
<1>2. w \in Windows  BY <1>1 DEF SharedTyped, Manager, Window
<1>3. SameFlags(managers[y], managers'[y]) /\ SameWindow(windows[w], windows'[w])
  BY <1>1 DEF SameFlags, SameWindow
<1>4. \A kind : ToldBy(w, kind)' = ToldBy(w, kind)  BY DEF ToldBy
<1>5. Follows(y)  BY DEF Followed
<1>6. managers'[y].text = managers[y].text /\ windows'[w].text = windows[w].text /\ managers'[y].size = managers[y].size
  BY <1>1
<1>7. \A kind : \A i \in ToldBy(w, kind) : queue'[i].value = queue[i].value  OBVIOUS
<1> QED  BY <1>1, <1>2, <1>3, <1>4, <1>5, <1>6, <1>7, FollowsKept

\* The constructor: no reference when the library or Vulkan fails, one when neither does.
LEMMA ConstructKeeps ==
  ASSUME ManagersAssumption, SizesAssumption, SharedInv, NEW x \in Managers, Construct(x)
  PROVE  SharedInv'
<1>1. /\ SharedTyped /\ WindowsHeld /\ OwnersCounted /\ managers[x] \in Manager /\ managers[x].state = "absent"
      /\ library \in [up : BOOLEAN, refs : Nat, vulkan : Nat, audio : {0, 1}]
      /\ device \in [stream : BOOLEAN, owns : BOOLEAN, running : BOOLEAN, mix : BOOLEAN, scratch : Nat, block : Nat,
                     alive : BOOLEAN]
      /\ DeviceHeld
      /\ UNCHANGED <<setup, polled>>
  BY DEF SharedInv, SharedTyped, Construct
<1>2. CASE InitFails(x)
  <2>1. UNCHANGED <<setup, library, windows, queue, polled, device>> /\ managers' = [managers EXCEPT ![x] = managers[x]]
    BY <1>1, <1>2 DEF InitFails, SharedTyped
  <2>2. SameHolding(managers[x], managers[x]) /\ SameFlags(managers[x], managers[x])
    BY RecordTyped DEF SameHolding, SameFlags
  <2> QED  BY <1>1, <2>1, <2>2, RecordKept
<1>3. CASE VulkanFails(x)
  <2>0. /\ library' = VulkanLeaves(library.refs + 1) /\ device' = QuitDevice(library.refs = 0)
        /\ UNCHANGED <<setup, managers, windows, queue, polled>> /\ setup.library = "sdl" /\ setup.api = "vulkan"
    BY <1>1, <1>3 DEF VulkanFails, Sdl
  <2>1. AudioWithoutVulkan =>
          ~device.stream /\ ~device.owns /\ ~device.running /\ device.block <= device.scratch
    BY <1>1, <2>0 DEF AudioWithoutVulkan, DeviceHeld, SharedTyped, DeviceIsLive
  <2>2. CASE library.refs = 0
    <3>1. library.up = FALSE /\ library.vulkan = 0
      BY <1>1, <2>0, <2>2, OwnersFinite DEF OwnersCounted, Sdl
    <3>2. library' = Down /\ device' = [device EXCEPT !.alive = FALSE]
      BY <2>0, <2>2 DEF VulkanLeaves, QuitDevice
    <3>3. /\ library' \in [up : BOOLEAN, refs : Nat, vulkan : Nat, audio : {0, 1}]
          /\ library'.refs = library.refs /\ library'.up = library.up /\ library'.vulkan = library.vulkan /\ library'.audio = 0
      BY <2>2, <3>1, <3>2 DEF Down
    <3>4. /\ device' \in [stream : BOOLEAN, owns : BOOLEAN, running : BOOLEAN, mix : BOOLEAN, scratch : Nat, block : Nat,
                          alive : BOOLEAN]
          /\ device'.stream = device.stream /\ device'.alive = FALSE /\ device'.owns = device.owns
          /\ device'.running = device.running /\ device'.block = device.block /\ device'.scratch = device.scratch
      BY <1>1, <3>2
    <3>5. AudioWithoutVulkan => DeviceIsLive'  BY <1>1, <2>1, <3>3, <3>4 DEF DeviceIsLive
    <3>6. DeviceHeld'  BY <1>1, <2>0, <3>3, <3>4, <3>5 DEF DeviceHeld
    <3> QED  BY <2>0, <3>3, <3>4, <3>6, DeviceKept
  <2>3. CASE library.refs # 0
    <3>1. library' = [library EXCEPT !.refs = library.refs + 1 - 1] /\ device' = device
      BY <1>1, <2>0, <2>3 DEF VulkanLeaves, QuitDevice
    <3>2. library.refs + 1 - 1 = library.refs  BY <1>1
    <3>3. library' = library  BY <1>1, <3>1, <3>2
    <3>4. DeviceHeld'  BY <1>1, <2>0, <3>1, <3>3 DEF DeviceHeld, DeviceIsLive
    <3> QED  BY <1>1, <2>0, <3>1, <3>3, <3>4, DeviceKept
  <2> QED  BY <2>2, <2>3
<1>4. CASE Initialized(x)
  <2> DEFINE new == [Constructed EXCEPT !.owns = TRUE]
  <2>1. /\ library' = IF Sdl /\ setup.api = "vulkan" THEN [Referenced EXCEPT !.vulkan = @ + 1] ELSE Referenced
        /\ managers' = [managers EXCEPT ![x] = new]
        /\ UNCHANGED <<setup, polled, windows, queue, device>>
    BY <1>1, <1>4 DEF Initialized
  <2>2. /\ new \in Manager /\ new.state = "live" /\ new.owns /\ new.window = None /\ new.listener = None /\ ~new.cursors
        /\ ~new.context /\ new.size = new.shown /\ Fresh(new)
    BY SizesAssumption DEF Constructed, Manager, Fresh, SizesAssumption
  <2> HIDE DEF new
  <2>3. /\ library' \in [up : BOOLEAN, refs : Nat, vulkan : Nat, audio : {0, 1}]
        /\ library'.refs = library.refs + 1 /\ library'.up = TRUE /\ library'.audio = library.audio
        /\ library'.vulkan = IF Sdl /\ setup.api = "vulkan" THEN library.vulkan + 1 ELSE library.vulkan
    <3> DEFINE n == library.refs + 1
               m == library.vulkan + 1
    <3>1. n \in Nat /\ m \in Nat  BY <1>1
    <3>2. Referenced = [library EXCEPT !.up = TRUE, !.refs = n]  BY DEF Referenced
    <3> HIDE DEF n
    <3>3. Referenced \in [up : BOOLEAN, refs : Nat, vulkan : Nat, audio : {0, 1}] /\ Referenced.refs = n /\ Referenced.up = TRUE
          /\ Referenced.vulkan = library.vulkan /\ Referenced.audio = library.audio
      BY <1>1, <3>1, <3>2
    <3>4. library' = IF Sdl /\ setup.api = "vulkan" THEN [Referenced EXCEPT !.vulkan = m] ELSE Referenced
      BY <2>1, <3>3
    <3> HIDE DEF m
    <3>5. /\ library' \in [up : BOOLEAN, refs : Nat, vulkan : Nat, audio : {0, 1}]
          /\ library'.refs = n /\ library'.up = TRUE /\ library'.audio = library.audio
          /\ library'.vulkan = IF Sdl /\ setup.api = "vulkan" THEN m ELSE library.vulkan
      BY <3>1, <3>3, <3>4
    <3> QED  BY <3>5 DEF n, m
  <2>4. managers'[x] = new /\ (\A y \in Managers \ {x} : managers'[y] = managers[y]) /\ managers' \in [Managers -> Manager]
    BY <1>1, <2>1, <2>2 DEF SharedTyped
  <2>5. SharedTyped'  BY <1>1, <2>1, <2>3, <2>4 DEF SharedTyped
  <2>6. Sdl' = Sdl /\ Window(x)' = None /\ Live(x)' /\ \A y \in Managers \ {x} : Window(y)' = Window(y) /\ (Live(y)' <=> Live(y))
    BY <2>1, <2>2, <2>4 DEF Sdl, Window, Live
  <2>7. ~managers[x].owns /\ Window(x) = None /\ ~Live(x)  BY <1>1 DEF WindowsHeld, HoldsWindow, Live
  <2>8. OwnersCounted'
    <3>1. Owners' = Owners \cup {x} /\ x \notin Owners  BY <2>2, <2>4, <2>7 DEF Owners
    <3>2. Cardinality(Owners') = Cardinality(Owners) + 1  BY <3>1, OwnersFinite, FS_AddElement
    <3>3. library'.refs = Cardinality(Owners')  BY <1>1, <2>3, <3>2 DEF OwnersCounted
    <3>4. library'.vulkan = IF Sdl /\ setup.api = "vulkan" THEN library'.refs ELSE 0  BY <1>1, <2>3 DEF OwnersCounted
    <3> QED  BY <2>1, <2>3, <2>6, <3>1, <3>3, <3>4 DEF OwnersCounted
  <2>9. WindowsHeld'
    <3>1. HoldsWindow(x)'  BY <2>2, <2>4, <2>6 DEF HoldsWindow
    <3>2. ASSUME NEW y \in Managers \ {x} PROVE HoldsWindow(y)'
      <4>1. HoldsWindow(y)  BY <1>1 DEF WindowsHeld
      <4> QED  BY <2>1, <2>4, <2>6, <4>1 DEF HoldsWindow
    <3>3. \A y \in Managers : \A z \in Managers \ {y} : Window(y)' # None => Window(y)' # Window(z)'
      BY <1>1, <2>6 DEF WindowsHeld
    <3>4. \A w \in Windows : windows[w].open => \E y \in Managers : Window(y) = w  BY <1>1 DEF WindowsHeld
    <3>5. ASSUME NEW w \in Windows, windows'[w].open PROVE \E y \in Managers : Window(y)' = w
      <4>1. PICK y \in Managers : Window(y) = w  BY <2>1, <3>4, <3>5
      <4>2. HoldsWindow(y)  BY <1>1 DEF WindowsHeld
      <4>3. y # x \/ w = None  BY <2>7, <4>1
      <4> QED  BY <2>6, <4>1, <4>3
    <3>6. \A w \in Windows : windows'[w].text => windows'[w].open  BY <1>1, <2>1 DEF WindowsHeld
    <3>7. ~setup'.several => \A y \in Managers : \A z \in Managers \ {y} : Live(y)' => ~Live(z)'
      <4>1. setup.several \/ \A y \in Managers : managers[y].state = "absent"  BY DEF Construct
      <4>2. ~setup.several => \A y \in Managers \ {x} : ~Live(y)'  BY <2>6, <4>1 DEF Live
      <4> QED  BY <1>1, <4>2
    <3> QED  BY <3>1, <3>2, <3>3, <3>5, <3>6, <3>7 DEF WindowsHeld
  <2>10. DeviceHeld'  BY <1>1, <2>1, <2>3 DEF DeviceHeld, DeviceIsLive, SharedInv
  <2>11. ASSUME ~(Sdl' /\ setup'.several) PROVE Followed'
    <3>1. Followed  BY <2>1, <2>6, <2>11 DEF SharedInv
    <3>2. ASSUME NEW y \in Managers, Window(y)' # None PROVE Follows(y)'
      <4>1. y # x  BY <2>6, <3>2
      <4> QED  BY <1>1, <2>1, <2>4, <2>6, <3>1, <3>2, <4>1, OthersFollow
    <3>3. ASSUME NEW y \in Managers, managers'[y].owns, Window(y)' = None PROVE Fresh(managers[y])'
      <4>1. CASE y = x  BY <2>2, <2>4, <4>1 DEF Fresh
      <4>2. CASE y # x  BY <2>4, <2>6, <3>1, <3>3, <4>2 DEF Followed, Fresh
      <4> QED  BY <4>1, <4>2
    <3> QED  BY <2>1, <2>6, <3>1, <3>2, <3>3 DEF Followed
  <2>12. polled' # {} => queue' = <<>>  BY <2>1 DEF SharedInv
  <2> QED  BY <2>5, <2>8, <2>9, <2>10, <2>11, <2>12 DEF SharedInv
<1> QED  BY <1>2, <1>3, <1>4 DEF Construct

\* createWindow(): a new window at its manager, about which no event is on its way.
LEMMA CreateKeeps ==
  ASSUME ManagersAssumption, WindowsAssumption, SizesAssumption, SharedInv, NEW x \in Managers, CreateWindow(x)
  PROVE  SharedInv'
<1>1. /\ SharedTyped /\ WindowsHeld /\ OwnersCounted /\ managers[x] \in Manager
  BY DEF SharedInv, SharedTyped
<1>0. PICK w \in {v \in Windows : ~windows[v].open}, size \in (IF Sdl THEN Sizes ELSE {Asked}) :
       /\ windows' = [windows EXCEPT ![w] = NewWindow(x, size)]
       /\ managers' = [managers EXCEPT ![x].window = w, ![x].listener = w, ![x].context = (Sdl /\ setup.api = "gl")]
  BY DEF CreateWindow
<1>2. w \in Windows /\ ~windows[w].open /\ size \in Sizes /\ (~Sdl => size = Asked)
  BY DEF SizesAssumption
<1> DEFINE gl == Sdl /\ setup.api = "gl"
           new == [managers[x] EXCEPT !.window = w, !.listener = w, !.context = gl]
           shown == NewWindow(x, size)
<1>3. gl \in BOOLEAN  OBVIOUS
<1>4. /\ managers' = [managers EXCEPT ![x] = new] /\ polled' = polled \ {x} /\ UNCHANGED <<setup, library, queue, device>>
      /\ Live(x) /\ Window(x) = None /\ managers[x].owns /\ windows' = [windows EXCEPT ![w] = shown]
  BY <1>0, <1>1, <1>2 DEF CreateWindow, SharedTyped
<1> HIDE DEF gl
<1>5. /\ new \in Manager /\ new.window = w /\ new.listener = w /\ new.owns /\ new.state = "live"
      /\ new.focused = managers[x].focused /\ new.minimized = managers[x].minimized /\ new.maximized = managers[x].maximized
      /\ new.text = managers[x].text /\ new.size = managers[x].size /\ new.shown = managers[x].shown
      /\ new.resized = managers[x].resized
  BY <1>1, <1>3, <1>4 DEF Manager, Live
<1>6. /\ shown \in LibraryWindow /\ shown.open /\ shown.user = (IF Sdl THEN None ELSE x) /\ ~shown.text /\ ~shown.focused
      /\ ~shown.minimized /\ ~shown.maximized /\ shown.size = size /\ ~shown.closing
  BY SizesAssumption DEF NewWindow, Closed, LibraryWindow, SizesAssumption
<1> HIDE DEF new, shown
<1>7. /\ managers'[x] = new /\ (\A y \in Managers \ {x} : managers'[y] = managers[y]) /\ managers' \in [Managers -> Manager]
      /\ windows'[w] = shown /\ (\A v \in Windows \ {w} : windows'[v] = windows[v]) /\ windows' \in [Windows -> LibraryWindow]
  BY <1>1, <1>4, <1>5, <1>6 DEF SharedTyped
<1>8. SharedTyped'  BY <1>1, <1>4, <1>7 DEF SharedTyped
<1>9. /\ Sdl' = Sdl /\ Window(x)' = w /\ Live(x)' /\ w # None
      /\ \A y \in Managers \ {x} : Window(y)' = Window(y) /\ (Live(y)' <=> Live(y))
  BY <1>4, <1>5, <1>7 DEF Sdl, Window, Live, WindowsAssumption
<1>10. \A y \in Managers : Window(y) # w /\ (Window(y) # None => windows[Window(y)].open /\ Window(y) \in Windows)
  BY <1>1, <1>2, <1>9 DEF WindowsHeld, HoldsWindow, Window, SharedTyped, Manager
<1>11. OwnersStay  BY <1>4, <1>5, <1>7 DEF OwnersStay
<1>12. OwnersCounted'  BY <1>1, <1>4, <1>11, OwnersKept
<1>13. WindowsHeld'
  <2>1. HoldsWindow(x)  BY <1>1 DEF WindowsHeld
  <2>2. HoldsWindow(x)'  BY <1>5, <1>6, <1>7, <1>9, <2>1 DEF HoldsWindow
  <2>3. ASSUME NEW y \in Managers \ {x} PROVE HoldsWindow(y)'
    <3>1. HoldsWindow(y)  BY <1>1 DEF WindowsHeld
    <3>2. Window(y) # None => windows'[Window(y)] = windows[Window(y)]  BY <1>7, <1>10
    <3> QED  BY <1>7, <1>9, <3>1, <3>2 DEF HoldsWindow
  <2>4. \A y \in Managers : \A z \in Managers \ {y} : Window(y)' # None => Window(y)' # Window(z)'
    BY <1>1, <1>9, <1>10 DEF WindowsHeld
  <2>5. \A v \in Windows : windows[v].open => \E y \in Managers : Window(y) = v  BY <1>1 DEF WindowsHeld
  <2>6. ASSUME NEW v \in Windows, windows'[v].open PROVE \E y \in Managers : Window(y)' = v
    <3>1. CASE v = w  BY <1>9, <3>1
    <3>2. CASE v # w
      <4>1. v # None  BY DEF WindowsAssumption
      <4>2. PICK y \in Managers : Window(y) = v  BY <1>7, <2>5, <2>6, <3>2
      <4> QED  BY <1>4, <1>9, <4>1, <4>2
    <3> QED  BY <3>1, <3>2
  <2>7. \A v \in Windows : windows'[v].text => windows'[v].open
    <3>1. \A v \in Windows : windows[v].text => windows[v].open  BY <1>1 DEF WindowsHeld
    <3> QED  BY <1>6, <1>7, <3>1
  <2>8. ~setup'.several => \A y \in Managers : \A z \in Managers \ {y} : Live(y)' => ~Live(z)'
    <3>1. \A y \in Managers : Live(y)' <=> Live(y)  BY <1>4, <1>9
    <3> QED  BY <1>1, <1>4, <3>1 DEF WindowsHeld
  <2> QED  BY <2>2, <2>3, <2>4, <2>6, <2>7, <2>8 DEF WindowsHeld
<1>14. DeviceHeld'  BY <1>4 DEF DeviceHeld, DeviceIsLive, SharedInv
<1>15. ASSUME ~(Sdl' /\ setup'.several) PROVE Followed'
  <2>1. Followed  BY <1>4, <1>9, <1>15 DEF SharedInv
  <2>2. ASSUME NEW y \in Managers \ {x}, Window(y)' # None PROVE Follows(y)'
    <3>1. windows'[Window(y)] = windows[Window(y)] /\ Window(y) # None  BY <1>7, <1>9, <1>10, <2>2
    <3> QED  BY <1>1, <1>4, <1>7, <2>1, <3>1, OthersFollow
  <2>3. Follows(x)'
    <3>1. Fresh(managers[x])  BY <1>4, <2>1 DEF Followed
    <3>2. \A kind : ToldBy(w, kind) = {}  BY <1>2, <1>9, <2>1 DEF Followed, ToldBy
    <3>3. \A kind : ToldBy(w, kind)' = {}  BY <1>4, <3>2 DEF ToldBy
    <3>4. x \notin polled'  BY <1>4
    <3>5. ~new.focused /\ ~new.minimized /\ ~new.maximized /\ ~new.text /\ new.size = Asked  BY <1>5, <3>1 DEF Fresh
    <3>6. /\ Says(w, "focused", managers[x].focused, windows[w].focused)'
          /\ Says(w, "minimized", managers[x].minimized, windows[w].minimized)'
      <4>1. new.focused = shown.focused /\ new.minimized = shown.minimized  BY <1>5, <1>6, <3>5 DEF Manager, LibraryWindow
      <4> QED  BY <1>7, <3>3, <4>1 DEF Says
    <3>7. Says(w, "maximized", managers[x].maximized, windows[w].maximized)'
      <4>1. new.maximized = shown.maximized  BY <1>5, <1>6, <3>5 DEF Manager, LibraryWindow
      <4> QED  BY <1>7, <3>3, <4>1 DEF Says
    <3>8. ~Sdl => Says(w, "size", managers[x].size, windows[w].size)'
      <4>1. ~Sdl => new.size = shown.size  BY <1>2, <1>6, <3>5
      <4> QED  BY <1>7, <3>3, <4>1 DEF Says
    <3>9. ~windows'[w].closing /\ ~windows'[w].text  BY <1>6, <1>7
    <3> QED  BY <1>9, <3>4, <3>6, <3>7, <3>8, <3>9 DEF Follows
  <2>4. ASSUME NEW y \in Managers, managers'[y].owns, Window(y)' = None PROVE Fresh(managers[y])'
    <3>1. y # x  BY <1>9, <2>4
    <3> QED  BY <1>7, <1>9, <2>1, <2>4, <3>1 DEF Followed, Fresh
  <2>5. \A i \in DOMAIN queue' : queue'[i].window # None => windows'[queue'[i].window].open
    <3> SUFFICES ASSUME NEW i \in DOMAIN queue, queue[i].window # None PROVE windows'[queue[i].window].open
      BY <1>4
    <3>1. windows[queue[i].window].open /\ queue[i] \in QueueEvents  BY <1>1, <2>1 DEF Followed, SharedTyped
    <3>2. queue[i].window \in Windows  BY <3>1 DEF QueueEvents
    <3> QED  BY <1>6, <1>7, <3>1, <3>2
  <2>6. Sdl' => \A i \in DOMAIN queue' : queue'[i].window # None  BY <1>4, <1>9, <2>1 DEF Followed
  <2> QED  BY <2>2, <2>3, <2>4, <2>5, <2>6 DEF Followed
<1>16. polled' # {} => queue' = <<>>  BY <1>4 DEF SharedInv
<1> QED  BY <1>8, <1>12, <1>13, <1>14, <1>15, <1>16 DEF SharedInv

\* A record after the events that reach it.
LEMMA HandledIs ==
  ASSUME SharedTyped, NEW x \in Managers, NEW y \in Managers
  PROVE  LET m == managers[y]  h == Handled(x, y) IN
         /\ h \in Manager /\ h.state = m.state /\ h.window = m.window /\ h.listener = m.listener /\ h.owns = m.owns
         /\ h.context = m.context /\ h.cursors = m.cursors /\ h.shown = m.shown /\ h.text = m.text
         /\ h.size = Latest(Told(x, y, "size"), m.size) /\ (m.resized \/ Told(x, y, "size") # {} => h.resized)
         /\ h.focused = Latest(Told(x, y, "focused"), m.focused)
         /\ h.minimized = Latest(Told(x, y, "minimized"), m.minimized)
         /\ h.maximized = IF Sdl THEN m.maximized ELSE Latest(Told(x, y, "maximized"), m.maximized)
         /\ m.closing => h.closing
         /\ Sdl /\ Window(y) # None /\ (\E i \in Told(x, y, "closing") : queue[i].window = Window(y)) => h.closing
<1> DEFINE m == managers[y]
           a == Latest(Told(x, y, "size"), m.size)
           b == m.resized \/ Told(x, y, "size") # {}
           c == Latest(Told(x, y, "focused"), m.focused)
           d == Latest(Told(x, y, "minimized"), m.minimized)
           e == IF Sdl THEN m.maximized ELSE Latest(Told(x, y, "maximized"), m.maximized)
           told == Sdl /\ \E i \in Told(x, y, "closing") : queue[i].window \in {Window(y)} \ {None}
           f == m.closing \/ told
<1>1. m \in Manager  BY DEF SharedTyped
<1>2. m.size \in Sizes /\ m.focused \in BOOLEAN /\ m.minimized \in BOOLEAN /\ m.maximized \in BOOLEAN  BY <1>1 DEF Manager
<1>3. a \in Sizes /\ c \in BOOLEAN /\ d \in BOOLEAN /\ e \in BOOLEAN  BY <1>2, LatestTyped DEF Flags
<1>4. b \in BOOLEAN /\ told \in BOOLEAN /\ f \in BOOLEAN  OBVIOUS
<1>5. Handled(x, y) = [m EXCEPT !.size = a, !.resized = b, !.focused = c, !.minimized = d, !.maximized = e, !.closing = f]
  BY DEF Handled
<1>6. /\ m.closing => f
      /\ Sdl /\ Window(y) # None /\ (\E i \in Told(x, y, "closing") : queue[i].window = Window(y)) => f
      /\ m.resized \/ Told(x, y, "size") # {} => b
  OBVIOUS
<1> DEFINE h == Handled(x, y)
<1>7. /\ h \in Manager /\ h.state = m.state /\ h.window = m.window /\ h.listener = m.listener /\ h.owns = m.owns
      /\ h.context = m.context /\ h.cursors = m.cursors /\ h.shown = m.shown /\ h.text = m.text
      /\ h.size = a /\ h.resized = b /\ h.focused = c /\ h.minimized = d /\ h.maximized = e /\ h.closing = f
  <2> DEFINE g == [m EXCEPT !.size = a, !.resized = b, !.focused = c]
  <2> HIDE DEF m, a, b, c, d, e, f, h
  <2>1. /\ g \in Manager /\ g.state = m.state /\ g.window = m.window /\ g.listener = m.listener /\ g.owns = m.owns
        /\ g.context = m.context /\ g.cursors = m.cursors /\ g.shown = m.shown /\ g.text = m.text
        /\ g.size = a /\ g.resized = b /\ g.focused = c
    BY <1>1, <1>3, <1>4 DEF Manager
  <2>2. h = [g EXCEPT !.minimized = d, !.maximized = e, !.closing = f]
    BY <1>1, <1>5 DEF h, Manager
  <2> HIDE DEF g
  <2> DEFINE p == [g EXCEPT !.minimized = d]  q == [p EXCEPT !.maximized = e]
  <2>3. h = [q EXCEPT !.closing = f]  BY <2>1, <2>2 DEF Manager
  <2>4. /\ p \in Manager /\ p.minimized = d
        /\ p.state = g.state /\ p.window = g.window /\ p.listener = g.listener /\ p.owns = g.owns
        /\ p.context = g.context /\ p.cursors = g.cursors /\ p.shown = g.shown /\ p.text = g.text
        /\ p.size = g.size /\ p.resized = g.resized /\ p.focused = g.focused
    BY <1>4, <1>3, <2>1 DEF Manager
  <2> HIDE DEF p
  <2>5. /\ q \in Manager /\ q.maximized = e /\ q.minimized = p.minimized
        /\ q.state = p.state /\ q.window = p.window /\ q.listener = p.listener /\ q.owns = p.owns
        /\ q.context = p.context /\ q.cursors = p.cursors /\ q.shown = p.shown /\ q.text = p.text
        /\ q.size = p.size /\ q.resized = p.resized /\ q.focused = p.focused
    BY <1>4, <1>3, <2>4 DEF Manager
  <2> HIDE DEF q
  <2>6. /\ h \in Manager /\ h.closing = f /\ h.minimized = q.minimized /\ h.maximized = q.maximized
        /\ h.state = q.state /\ h.window = q.window /\ h.listener = q.listener /\ h.owns = q.owns
        /\ h.context = q.context /\ h.cursors = q.cursors /\ h.shown = q.shown /\ h.text = q.text
        /\ h.size = q.size /\ h.resized = q.resized /\ h.focused = q.focused
    BY <1>4, <2>3, <2>5 DEF Manager
  <2> QED  BY <2>1, <2>4, <2>5, <2>6
<1> QED  BY <1>6, <1>7

\* The events that reach a manager are those of its window.
LEMMA ToldIs ==
  ASSUME WindowsAssumption, ManagersAssumption, SharedInv, ~(Sdl /\ setup.several), NEW x \in Managers, Live(x),
         NEW y \in Managers, Sdl => y = x, NEW kind
  PROVE  IF Window(y) = None THEN Told(x, y, kind) = {} ELSE Told(x, y, kind) = ToldBy(Window(y), kind)
<1>1. SharedTyped /\ WindowsHeld /\ Followed  BY DEF SharedInv
<1>2. ASSUME NEW i \in DOMAIN queue, queue[i].window # None
      PROVE  Receives(x, y, queue[i]) <=> queue[i].window = Window(y)
  <2>1. PICK v : v = queue[i].window  OBVIOUS
  <2>2. windows[v].open /\ queue[i] \in QueueEvents  BY <1>1, <1>2, <2>1 DEF Followed, SharedTyped
  <2>3. v \in Windows  BY <1>2, <2>1, <2>2 DEF QueueEvents
  <2>4. PICK z \in Managers : Window(z) = v
    <3>1. \A w \in Windows : windows[w].open => \E z \in Managers : Window(z) = w  BY <1>1 DEF WindowsHeld
    <3> QED  BY <2>2, <2>3, <3>1
  <2>5. HoldsWindow(z) /\ HoldsWindow(y)  BY <1>1 DEF WindowsHeld
  <2>6. Live(z) /\ windows[v].user = IF Sdl THEN None ELSE z  BY <1>2, <2>1, <2>4, <2>5 DEF HoldsWindow
  <2>7. CASE Sdl
    <3>1. z = x  BY <1>1, <2>6, <2>7 DEF WindowsHeld
    <3> QED  BY <2>1, <2>4, <2>7, <3>1 DEF Receives
  <2>8. CASE ~Sdl
    <3>1. windows[v].user = z  BY <2>6, <2>8
    <3>2. Window(y) = v => windows[v].user = y  BY <1>2, <2>1, <2>5, <2>8 DEF HoldsWindow
    <3> QED  BY <1>2, <2>1, <2>4, <2>8, <3>1, <3>2 DEF Receives
  <2> QED  BY <2>7, <2>8
<1>3. ASSUME NEW i \in DOMAIN queue, queue[i].window = None PROVE ~Receives(x, y, queue[i])
  BY <1>1, <1>3 DEF Followed, Receives
<1>4. CASE Window(y) = None  BY <1>2, <1>3, <1>4 DEF Told
<1>5. CASE Window(y) # None  BY <1>2, <1>3, <1>5 DEF Told, ToldBy
<1> QED  BY <1>4, <1>5

\* What pollEvents() finds of text input that was dismissed.
LEMMA StoppedIs ==
  ASSUME NEW m \in Manager
  PROVE  LET n == TextStopped(m) IN
         /\ n \in Manager
         /\ n.state = m.state /\ n.window = m.window /\ n.listener = m.listener /\ n.owns = m.owns /\ n.context = m.context
         /\ n.cursors = m.cursors /\ n.focused = m.focused /\ n.minimized = m.minimized /\ n.maximized = m.maximized
         /\ n.size = m.size /\ n.resized = m.resized /\ n.shown = m.shown /\ n.closing = m.closing
         /\ n.text => m.text
         /\ Sdl /\ m.listener # None /\ n.text => windows[m.listener].text
         /\ m.text /\ windows[m.listener].text => n.text
         /\ ~Sdl => n = m
<1>1. CASE Sdl /\ m.listener # None /\ m.text /\ ~windows[m.listener].text
  <2> DEFINE n == [m EXCEPT !.text = FALSE, !.dismissed = TRUE]
  <2>1. TextStopped(m) = n  BY <1>1 DEF TextStopped
  <2>2. /\ n \in Manager
        /\ n.state = m.state /\ n.window = m.window /\ n.listener = m.listener /\ n.owns = m.owns /\ n.context = m.context
        /\ n.cursors = m.cursors /\ n.focused = m.focused /\ n.minimized = m.minimized /\ n.maximized = m.maximized
        /\ n.size = m.size /\ n.resized = m.resized /\ n.shown = m.shown /\ n.closing = m.closing /\ ~n.text
    BY DEF Manager
  <2> HIDE DEF n
  <2> QED  BY <1>1, <2>1, <2>2
<1>2. CASE ~(Sdl /\ m.listener # None /\ m.text /\ ~windows[m.listener].text)
  <2>1. TextStopped(m) = m  BY <1>2 DEF TextStopped
  <2> QED  BY <1>2, <2>1
<1> QED  BY <1>1, <1>2

\* pollEvents() handles everything on its way.
LEMMA PollKeeps ==
  ASSUME WindowsAssumption, ManagersAssumption, QueueAssumption, SharedInv, NEW x \in Managers, PollEvents(x)
  PROVE  SharedInv'
<1> DEFINE t == TextStopped(Handled(x, x))
           s == SizeSynced(t)
<1>1. /\ SharedTyped /\ WindowsHeld /\ OwnersCounted /\ Live(x)
      /\ UNCHANGED <<setup, library, windows, device>> /\ queue' = <<>>
      /\ managers' = [Dispatched(x) EXCEPT ![x] = SizeSynced(TextStopped(@))]
      /\ polled' = IF Sdl THEN polled \cup {x} ELSE {y \in Managers : Live(y)}
  BY DEF SharedInv, PollEvents
<1>2. \A y \in Managers : managers'[y] = IF y = x THEN s ELSE Handled(x, y)
  BY <1>1 DEF Dispatched
<1>3. managers' = [y \in Managers |-> managers'[y]]  BY <1>1 DEF Dispatched
<1>4. ASSUME NEW y \in Managers PROVE Handled(x, y) \in Manager /\ SameHolding(managers[y], Handled(x, y))
  <2> DEFINE m == managers[y]
             h == Handled(x, y)
  <2>1. /\ h \in Manager /\ h.state = m.state /\ h.window = m.window /\ h.listener = m.listener /\ h.owns = m.owns
        /\ h.context = m.context /\ h.cursors = m.cursors /\ h.shown = m.shown
        /\ h.size = Latest(Told(x, y, "size"), m.size) /\ (m.resized \/ Told(x, y, "size") # {} => h.resized)
    BY <1>1, HandledIs
  <2>2. HoldsWindow(y)  BY <1>1 DEF WindowsHeld
  <2>3. m.size # m.shown => m.resized  BY <2>2 DEF HoldsWindow
  <2>4. h.size # h.shown => h.resized  BY <2>1, <2>3 DEF Latest
  <2> HIDE DEF m, h
  <2> QED  BY <2>1, <2>4 DEF SameHolding, h, m
<1>5. Handled(x, x).window = Window(x) /\ Handled(x, x).listener = managers[x].listener
  BY <1>4 DEF SameHolding, Window
<1>6. /\ t \in Manager
      /\ t.state = Handled(x, x).state /\ t.window = Handled(x, x).window /\ t.listener = Handled(x, x).listener
      /\ t.owns = Handled(x, x).owns /\ t.context = Handled(x, x).context
      /\ t.cursors = Handled(x, x).cursors /\ t.focused = Handled(x, x).focused /\ t.minimized = Handled(x, x).minimized
      /\ t.maximized = Handled(x, x).maximized
      /\ t.size = Handled(x, x).size /\ t.resized = Handled(x, x).resized /\ t.shown = Handled(x, x).shown
      /\ t.closing = Handled(x, x).closing
      /\ t.text => Handled(x, x).text
      /\ Sdl /\ Handled(x, x).listener # None /\ t.text => windows[Handled(x, x).listener].text
      /\ Handled(x, x).text /\ windows[Handled(x, x).listener].text => t.text
      /\ ~Sdl => t = Handled(x, x)
  BY <1>4, StoppedIs
<1> HIDE DEF t
<1>7. /\ s \in Manager
      /\ \/ s = t
         \/ Sdl /\ Window(x) # None /\ s = [t EXCEPT !.size = windows[Window(x)].size, !.resized = TRUE]
      /\ Sdl /\ Window(x) # None => s.size = windows[Window(x)].size
  BY <1>5, <1>6, SyncedIs, ZenonT(60)
<1> HIDE DEF s
<1>8. /\ s.state = t.state /\ s.window = t.window /\ s.listener = t.listener /\ s.owns = t.owns /\ s.context = t.context
      /\ s.cursors = t.cursors /\ s.focused = t.focused /\ s.minimized = t.minimized /\ s.maximized = t.maximized
      /\ s.closing = t.closing /\ s.text = t.text /\ s.shown = t.shown
      /\ \/ s = t
         \/ Sdl /\ Window(x) # None /\ s.resized
  BY <1>6, <1>7, ZenonT(60) DEF Manager
<1>9. SameHolding(managers[x], s)
  BY <1>4, <1>6, <1>8 DEF SameHolding
<1>10. \A y \in Managers : managers'[y] \in Manager /\ SameHolding(managers[y], managers'[y])
  BY <1>2, <1>4, <1>7, <1>9
<1>11. managers' \in [Managers -> Manager]  BY <1>3, <1>10
<1>12. SharedTyped'
  <2>1. queue' \in Seq(QueueEvents) /\ Len(queue') = 0  BY <1>1
  <2>2. polled' \subseteq Managers  BY <1>1 DEF SharedTyped
  <2> QED  BY <1>1, <1>11, <2>1, <2>2 DEF SharedTyped, QueueAssumption
<1>13. WindowsHeld' /\ OwnersCounted'
  BY <1>1, <1>10, HoldingKept, OwnersKept
<1>14. DeviceHeld'  BY <1>1 DEF DeviceHeld, DeviceIsLive, SharedInv
<1>15. Sdl' = Sdl /\ \A y \in Managers : Window(y)' = Window(y)  BY <1>1, <1>10 DEF Sdl, Window, SameHolding
<1>16. ASSUME ~(Sdl' /\ setup'.several) PROVE Followed'
  <2>0. ~(Sdl /\ setup.several) /\ Followed  BY <1>1, <1>15, <1>16 DEF SharedInv
  <2>1. \A y \in Managers : managers[y].owns => (Sdl => y = x)
    <3>1. \A y \in Managers : managers[y].owns => Live(y)  BY <1>1 DEF WindowsHeld, HoldsWindow
    <3> QED  BY <1>1, <2>0, <3>1 DEF WindowsHeld
  <2>2. \A y \in Managers : Window(y) # None => managers[y].owns /\ managers[y].listener = Window(y)
    BY <1>1 DEF WindowsHeld, HoldsWindow
  <2>3. \A v, kind : ToldBy(v, kind)' = {}  BY <1>1 DEF ToldBy
  <2>4. ASSUME NEW y \in Managers, Window(y)' # None PROVE Follows(y)'
    <3> DEFINE m == managers[y]
               h == Handled(x, y)
    <3>0. PICK w : w = Window(y)  OBVIOUS
    <3>1. w # None /\ Window(y)' = w /\ (Sdl => y = x) /\ m.listener = w  BY <1>15, <2>1, <2>2, <2>4, <3>0
    <3>2. \A kind : Told(x, y, kind) = ToldBy(w, kind)  BY <1>1, <2>0, <3>0, <3>1, ToldIs
    <3>3. /\ h.size = Latest(ToldBy(w, "size"), m.size)
          /\ h.focused = Latest(ToldBy(w, "focused"), m.focused)
          /\ h.minimized = Latest(ToldBy(w, "minimized"), m.minimized)
          /\ ~Sdl => h.maximized = Latest(ToldBy(w, "maximized"), m.maximized)
          /\ m.closing => h.closing
          /\ Sdl /\ (\E i \in ToldBy(w, "closing") : queue[i].window = w) => h.closing
          /\ h.text = m.text
      BY <1>1, <3>0, <3>1, <3>2, HandledIs
    <3>4. Follows(y)  BY <2>0, <3>0, <3>1 DEF Followed
    <3>5. /\ Says(w, "focused", m.focused, windows[w].focused)
          /\ Says(w, "minimized", m.minimized, windows[w].minimized)
          /\ ~Sdl => Says(w, "maximized", m.maximized, windows[w].maximized)
          /\ ~Sdl => Says(w, "size", m.size, windows[w].size)
          /\ Sdl /\ windows[w].closing => m.closing \/ ToldBy(w, "closing") # {}
          /\ Sdl /\ windows[w].text => m.text
      BY <3>0, <3>4 DEF Follows
    <3>6. h.focused = windows[w].focused /\ h.minimized = windows[w].minimized
      BY <1>1, <3>3, <3>5, LatestIs
    <3>7. ~Sdl => h.maximized = windows[w].maximized /\ h.size = windows[w].size
      BY <1>1, <3>3, <3>5, LatestIs
    <3>8. Sdl /\ windows[w].closing => h.closing
      BY <3>3, <3>5 DEF ToldBy
    <3> DEFINE n == managers'[y]
    <3> HIDE DEF m, h
    <3>9. n.focused = h.focused /\ n.minimized = h.minimized /\ n.maximized = h.maximized /\ (n.closing <=> h.closing)
      BY <1>2, <1>6, <1>8 DEF h
    <3>10. ~Sdl => n.size = h.size  BY <1>2, <1>6, <1>7 DEF h
    <3>11. Sdl => /\ n.size = windows[w].size /\ (n.text => windows[w].text) /\ (windows[w].text => n.text)
      BY <1>2, <1>5, <1>6, <1>7, <1>8, <3>0, <3>1, <3>3, <3>5 DEF h, m
    <3>12. Sdl => n.text = windows[w].text
      <4>1. n.text \in BOOLEAN  BY <1>10 DEF Manager
      <4>2. w \in Windows  BY <1>1, <3>0, <3>1 DEF SharedTyped, Manager, Window
      <4>3. windows[w].text \in BOOLEAN  BY <1>1, <4>2 DEF SharedTyped, LibraryWindow
      <4> QED  BY <3>11, <4>1, <4>3
    <3>13. /\ Says(w, "focused", managers[y].focused, windows[w].focused)'
           /\ Says(w, "minimized", managers[y].minimized, windows[w].minimized)'
      BY <1>1, <2>3, <3>6, <3>9 DEF Says
    <3>14. ~Sdl => /\ Says(w, "maximized", managers[y].maximized, windows[w].maximized)'
                   /\ Says(w, "size", managers[y].size, windows[w].size)'
      BY <1>1, <2>3, <3>7, <3>9, <3>10 DEF Says
    <3>15. Sdl /\ windows'[w].closing => managers'[y].closing  BY <1>1, <3>8, <3>9
    <3> QED  BY <1>1, <1>15, <3>1, <3>11, <3>12, <3>13, <3>14, <3>15 DEF Follows
  <2>5. ASSUME NEW y \in Managers, managers'[y].owns, Window(y)' = None PROVE Fresh(managers[y])'
    <3> DEFINE m == managers[y]
               h == Handled(x, y)
    <3>1. Window(y) = None /\ m.owns  BY <1>10, <1>15, <2>5 DEF SameHolding
    <3>2. \A kind : Told(x, y, kind) = {}  BY <1>1, <2>0, <2>1, <3>1, ToldIs
    <3>3. h.size = m.size /\ h.focused = m.focused /\ h.minimized = m.minimized /\ h.maximized = m.maximized /\ h.text = m.text
      BY <1>1, <3>2, HandledIs DEF Latest
    <3>4. Fresh(m)  BY <2>0, <3>1 DEF Followed
    <3> HIDE DEF m, h
    <3>5. managers'[y].focused = h.focused /\ managers'[y].minimized = h.minimized /\ managers'[y].maximized = h.maximized
      BY <1>2, <1>6, <1>8 DEF h
    <3>6. managers'[y].size = h.size
      BY <1>2, <1>6, <1>8, <3>1 DEF h
    <3>7. managers'[y].text => h.text  BY <1>2, <1>6, <1>8 DEF h
    <3> QED  BY <3>3, <3>4, <3>5, <3>6, <3>7 DEF Fresh
  <2>6. DOMAIN queue' = {}  BY <1>1
  <2> QED  BY <2>4, <2>5, <2>6 DEF Followed
<1>17. polled' # {} => queue' = <<>>  BY <1>1
<1> QED  BY <1>12, <1>13, <1>14, <1>16, <1>17 DEF SharedInv

\* The queue of a library a manager lets go of: what was told by other windows is there.
LEMMA QueueAfter ==
  ASSUME WindowsAssumption, SharedInv, QueueAssumption, NEW x \in Managers, LetGo(x)
  PROVE  /\ queue' \in Seq(QueueEvents) /\ Len(queue') <= MaxEvents /\ (queue = <<>> => queue' = <<>>)
         /\ \A i \in DOMAIN queue' : /\ queue'[i].window # None =>
                                          /\ i \in DOMAIN queue /\ queue'[i].window = queue[i].window
                                          /\ queue'[i].window # Window(x) /\ ~Quits(x)
                                     /\ queue'[i].window = None =>
                                          i \in DOMAIN queue /\ queue[i].window \in {None, Window(x)} /\ ~Quits(x)
         /\ \A v \in Windows : \A kind : v # Window(x) /\ ~Quits(x) =>
              /\ ToldBy(v, kind)' = ToldBy(v, kind)
              /\ \A i \in ToldBy(v, kind) : queue'[i].value = queue[i].value
<1>1. queue \in Seq(QueueEvents) /\ Len(queue) <= MaxEvents  BY DEF SharedInv, SharedTyped
<1>2. CASE Quits(x)
  <2>1. queue' = <<>>  BY <1>2 DEF LetGo
  <2>2. queue' \in Seq(QueueEvents) /\ Len(queue') = 0 /\ DOMAIN queue' = {}  BY <2>1
  <2> QED  BY <1>2, <2>1, <2>2 DEF QueueAssumption
<1>3. CASE ~Quits(x)
  <2> DEFINE at(i) == IF queue[i].window = Window(x) THEN [queue[i] EXCEPT !.window = None] ELSE queue[i]
  <2>1. queue' = [i \in DOMAIN queue |-> at(i)]  BY <1>3 DEF LetGo
  <2>2. ASSUME NEW i \in DOMAIN queue
        PROVE  /\ at(i) \in QueueEvents /\ at(i).kind = queue[i].kind /\ at(i).value = queue[i].value
               /\ at(i).window = IF queue[i].window = Window(x) THEN None ELSE queue[i].window
    <3>1. queue[i] \in QueueEvents  BY <1>1
    <3>2. ASSUME NEW e \in QueueEvents, NEW d, d = [e EXCEPT !.window = None]
          PROVE  d \in QueueEvents /\ d.kind = e.kind /\ d.value = e.value /\ d.window = None
      <4>1. CASE e \in [window : Windows \cup {None}, kind : Flags, value : BOOLEAN]  BY <3>2, <4>1 DEF QueueEvents
      <4>2. CASE e \in [window : Windows \cup {None}, kind : {"size"}, value : Sizes]  BY <3>2, <4>2 DEF QueueEvents
      <4> QED  BY <4>1, <4>2 DEF QueueEvents
    <3>3. CASE queue[i].window = Window(x)
      <4>1. at(i) = [queue[i] EXCEPT !.window = None]  BY <3>3
      <4> HIDE DEF at
      <4> QED  BY <3>1, <3>2, <3>3, <4>1
    <3>4. CASE queue[i].window # Window(x)  BY <3>1, <3>4
    <3> QED  BY <3>3, <3>4
  <2> HIDE DEF at
  <2>3. DOMAIN queue = 1 .. Len(queue) /\ Len(queue) \in Nat  BY <1>1
  <2>4. queue' \in Seq(QueueEvents) /\ Len(queue') = Len(queue) /\ DOMAIN queue' = DOMAIN queue
    BY <2>1, <2>2, <2>3
  <2>5. \A i \in DOMAIN queue : queue'[i] = at(i)  BY <2>1
  <2>6. queue = <<>> => queue' = <<>>  BY <2>3, <2>4
  <2>7. ASSUME NEW v \in Windows, NEW kind, v # Window(x)
        PROVE  /\ ToldBy(v, kind)' = ToldBy(v, kind)
               /\ \A i \in ToldBy(v, kind) : queue'[i].value = queue[i].value
    <3>1. v # None  BY DEF WindowsAssumption
    <3>2. \A i \in DOMAIN queue : queue'[i].window = v /\ queue'[i].kind = kind <=> queue[i].window = v /\ queue[i].kind = kind
      BY <2>2, <2>5, <2>7, <3>1
    <3>3. ToldBy(v, kind)' = {i \in DOMAIN queue : queue'[i].window = v /\ queue'[i].kind = kind}
      BY <2>4 DEF ToldBy
    <3> QED  BY <2>2, <2>5, <3>2, <3>3 DEF ToldBy
  <2>8. ASSUME NEW i \in DOMAIN queue'
        PROVE  /\ queue'[i].window # None =>
                     i \in DOMAIN queue /\ queue'[i].window = queue[i].window /\ queue'[i].window # Window(x)
               /\ queue'[i].window = None => i \in DOMAIN queue /\ queue[i].window \in {None, Window(x)}
    BY <2>2, <2>4, <2>5
  <2> QED  BY <1>1, <1>3, <2>4, <2>6, <2>7, <2>8
<1> QED  BY <1>2, <1>3

\* What destroy() does to the library and to the audio device.
LEMMA LetGoIs ==
  ASSUME ManagersAssumption, SharedInv, NEW x \in Managers, LetGo(x), setup' = setup
  PROVE  /\ library' \in [up : BOOLEAN, refs : Nat, vulkan : Nat, audio : {0, 1}]
         /\ library'.refs = Cardinality(Owners \ {x}) /\ (library'.up <=> Owners \ {x} # {})
         /\ library'.vulkan = IF Sdl /\ setup.api = "vulkan" THEN library'.refs ELSE 0
         /\ device' \in [stream : BOOLEAN, owns : BOOLEAN, running : BOOLEAN, mix : BOOLEAN, scratch : Nat, block : Nat,
                         alive : BOOLEAN]
         /\ DeviceHeld'
         /\ (Quits(x) <=> Owners = {x})
<1>1. /\ OwnersCounted /\ DeviceHeld /\ library \in [up : BOOLEAN, refs : Nat, vulkan : Nat, audio : {0, 1}]
      /\ device \in [stream : BOOLEAN, owns : BOOLEAN, running : BOOLEAN, mix : BOOLEAN, scratch : Nat, block : Nat,
                     alive : BOOLEAN]
  BY DEF SharedInv, SharedTyped
<1>2. library' = WithoutReference(x) /\ device' = QuitDevice(Quits(x)) /\ (Quits(x) => ~device.stream)
  BY DEF LetGo
<1>3. library.refs = Cardinality(Owners) /\ (library.up <=> Owners # {})
      /\ library.vulkan = IF Sdl /\ setup.api = "vulkan" THEN library.refs ELSE 0
  BY <1>1 DEF OwnersCounted
<1>4. Quits(x) <=> Owners = {x}
  <2>1. x \in Owners => (Cardinality(Owners) = 1 <=> Owners = {x})  BY OneOwner
  <2>2. managers[x].owns <=> x \in Owners  BY DEF Owners
  <2> QED  BY <1>3, <2>1, <2>2 DEF Quits
<1>5. CASE Quits(x)
  <2>1. Owners \ {x} = {} /\ Cardinality({}) = 0  BY <1>4, <1>5, FS_EmptySet
  <2>2. library' = Down /\ device' = [device EXCEPT !.alive = FALSE] /\ ~device.stream
    BY <1>2, <1>5 DEF WithoutReference, Quits, QuitDevice
  <2>3. /\ device' \in [stream : BOOLEAN, owns : BOOLEAN, running : BOOLEAN, mix : BOOLEAN, scratch : Nat, block : Nat,
                         alive : BOOLEAN]
        /\ ~device'.stream /\ ~device'.alive /\ device'.owns = device.owns /\ device'.running = device.running
        /\ device'.block = device.block /\ device'.scratch = device.scratch
    BY <1>1, <2>2
  <2>4. /\ library' \in [up : BOOLEAN, refs : Nat, vulkan : Nat, audio : {0, 1}] /\ library'.refs = 0 /\ library'.up = FALSE
        /\ library'.vulkan = 0 /\ library'.audio = 0
    BY <2>2 DEF Down
  <2>5. DeviceHeld'  BY <1>1, <2>2, <2>3, <2>4 DEF DeviceHeld, DeviceIsLive
  <2> QED  BY <1>4, <2>1, <2>3, <2>4, <2>5
<1>6. CASE ~Quits(x)
  <2>1. device' = device  BY <1>2, <1>6 DEF QuitDevice
  <2>2. CASE ~managers[x].owns
    <3>1. Owners \ {x} = Owners  BY <2>2 DEF Owners
    <3>2. library' = library  BY <1>2, <2>2 DEF WithoutReference
    <3>3. DeviceHeld'  BY <1>1, <2>1, <3>2 DEF DeviceHeld, DeviceIsLive
    <3> QED  BY <1>1, <1>3, <1>4, <2>1, <3>1, <3>2, <3>3
  <2>3. CASE managers[x].owns
    <3> DEFINE n == library.refs - 1
               m == IF Sdl /\ setup.api = "vulkan" THEN library.vulkan - 1 ELSE library.vulkan
    <3>1. x \in Owners /\ IsFiniteSet(Owners)  BY <2>3, OwnersFinite DEF Owners
    <3>2. IsFiniteSet(Owners \ {x}) /\ Cardinality(Owners \ {x}) = n  BY <1>3, <3>1, FS_RemoveElement
    <3>3. n \in Nat /\ m \in Nat /\ m = (IF Sdl /\ setup.api = "vulkan" THEN n ELSE 0)
      <4>1. n \in Nat  BY <3>2, FS_CardinalityType
      <4> QED  BY <1>1, <1>3, <4>1
    <3>4. Owners \ {x} # {}  BY <1>4, <1>6, <3>1
    <3>5. library.up = TRUE  BY <1>1, <1>3, <3>1
    <3>6. library' = [library EXCEPT !.refs = n, !.vulkan = m]
      BY <1>1, <1>2, <1>6, <2>3 DEF WithoutReference
    <3> HIDE DEF n, m
    <3>7. /\ library' \in [up : BOOLEAN, refs : Nat, vulkan : Nat, audio : {0, 1}] /\ library'.refs = n
          /\ library'.up = library.up /\ library'.vulkan = m /\ library'.audio = library.audio
      BY <1>1, <3>3, <3>6
    <3>8. DeviceHeld'  BY <1>1, <2>1, <3>7 DEF DeviceHeld, DeviceIsLive
    <3> QED  BY <1>1, <1>4, <2>1, <3>2, <3>3, <3>4, <3>5, <3>7, <3>8
  <2> QED  BY <2>2, <2>3
<1> QED  BY <1>5, <1>6

\* When a manager lets go of the library another one's window is as it was.
LEMMA OthersKeep ==
  ASSUME WindowsAssumption, ManagersAssumption, SharedInv, QueueAssumption, NEW x \in Managers, LetGo(x),
         setup' = setup,
         NEW z \in Managers \ {x}, Window(z) # None
  PROVE  /\ Window(z) \in Windows /\ Window(z) # Window(x) /\ ~Quits(x) /\ z \in Owners
         /\ Without(x)[Window(z)] = windows[Window(z)]
<1>1. SharedTyped /\ WindowsHeld  BY DEF SharedInv
<1>2. Window(z) \in Windows  BY <1>1 DEF SharedTyped, Manager, Window
<1>3. Window(z) # Window(x) /\ z \in Owners  BY <1>1 DEF WindowsHeld, HoldsWindow, Owners
<1>4. ~Quits(x)  BY <1>3, LetGoIs
<1> QED  BY <1>2, <1>3, <1>4 DEF Without

\* The windows when a manager lets go of its own.
LEMMA WithoutIs ==
  ASSUME WindowsAssumption, SharedInv, SizesAssumption, NEW x \in Managers
  PROVE  /\ Without(x) \in [Windows -> LibraryWindow]
         /\ \A w \in Windows : /\ Without(x)[w].open => w # Window(x) /\ ~Quits(x) /\ windows[w].open
                               /\ w # Window(x) /\ ~Quits(x) => Without(x)[w] = windows[w]
                               /\ Without(x)[w].text => Without(x)[w].open
<1>1. /\ windows \in [Windows -> LibraryWindow]
      /\ \A w \in Windows : windows[w].text => windows[w].open
  BY DEF SharedInv, SharedTyped, WindowsHeld
<1>2. Closed \in LibraryWindow /\ ~Closed.open /\ ~Closed.text
  BY DEF Closed, LibraryWindow, SizesAssumption
<1> QED  BY <1>1, <1>2 DEF Without

\* A manager that is destroyed or deleted holds nothing; the others are as they were.
LEMMA DropKeeps ==
  ASSUME WindowsAssumption, ManagersAssumption, QueueAssumption, SizesAssumption, SharedInv, NEW x \in Managers,
         Destroy(x) \/ Delete(x)
  PROVE  SharedInv'
<1>1. /\ SharedTyped /\ WindowsHeld /\ LetGo(x) /\ setup' = setup /\ windows' = Without(x) /\ polled' \subseteq polled
      /\ managers[x] \in Manager
  BY DEF SharedInv, SharedTyped, Destroy, Delete
<1>2. PICK new \in Manager :
       /\ managers' = [managers EXCEPT ![x] = new] /\ new.window = None /\ ~new.owns /\ ~new.cursors /\ ~new.context
       /\ (~Sdl => new.listener = None) /\ (new.size # new.shown => new.resized) /\ (new.state = "live" => Live(x))
  <2>1. CASE Destroy(x)
    <3> DEFINE listener == IF Sdl THEN managers[x].listener ELSE None
               maximized == Sdl /\ managers[x].maximized
               new == [managers[x] EXCEPT !.closing = TRUE, !.cursors = FALSE, !.context = FALSE, !.window = None,
                                          !.owns = FALSE, !.listener = listener, !.maximized = maximized]
    <3>1. managers' = [managers EXCEPT ![x] = new] /\ Live(x)  BY <1>1, <2>1 DEF Destroy, Destroyed, SharedTyped
    <3>2. listener \in Windows \cup {None} /\ maximized \in BOOLEAN /\ (~Sdl => listener = None)  BY <1>1 DEF Manager
    <3>3. managers[x].size # managers[x].shown => managers[x].resized  BY RecordTyped
    <3> HIDE DEF listener, maximized
    <3>4. new \in Manager /\ new.window = None /\ ~new.owns /\ ~new.cursors /\ ~new.context
          /\ new.listener = listener /\ (new.size # new.shown => new.resized)
      BY <1>1, <3>2, <3>3, ZenonT(60) DEF Manager
    <3> HIDE DEF new
    <3> QED  BY <3>1, <3>2, <3>4
  <2>2. CASE Delete(x)
    <3>1. /\ Absent \in Manager /\ Absent.window = None /\ ~Absent.owns /\ ~Absent.cursors /\ ~Absent.context
          /\ Absent.listener = None /\ Absent.size = Absent.shown /\ Absent.state = "absent"
      BY DEF Absent, Constructed, Manager, SizesAssumption
    <3>2. managers' = [managers EXCEPT ![x] = Absent]  BY <2>2 DEF Delete
    <3> QED  BY <3>1, <3>2
  <2> QED  BY <2>1, <2>2
<1>3. /\ managers'[x] = new /\ (\A y \in Managers \ {x} : managers'[y] = managers[y]) /\ managers' \in [Managers -> Manager]
  BY <1>1, <1>2 DEF SharedTyped
<1>4. /\ Sdl' = Sdl /\ Window(x)' = None /\ (Live(x)' => Live(x))
      /\ \A y \in Managers \ {x} : Window(y)' = Window(y) /\ (Live(y)' <=> Live(y))
  BY <1>1, <1>2, <1>3 DEF Sdl, Window, Live
<1>5. /\ queue' \in Seq(QueueEvents) /\ Len(queue') <= MaxEvents /\ (queue = <<>> => queue' = <<>>)
      /\ \A i \in DOMAIN queue' : /\ queue'[i].window # None =>
                                       /\ i \in DOMAIN queue /\ queue'[i].window = queue[i].window
                                       /\ queue'[i].window # Window(x) /\ ~Quits(x)
                                  /\ queue'[i].window = None =>
                                       i \in DOMAIN queue /\ queue[i].window \in {None, Window(x)} /\ ~Quits(x)
      /\ \A v \in Windows : \A kind : v # Window(x) /\ ~Quits(x) =>
           /\ ToldBy(v, kind)' = ToldBy(v, kind)
           /\ \A i \in ToldBy(v, kind) : queue'[i].value = queue[i].value
  BY <1>1, QueueAfter
<1>6. /\ library' \in [up : BOOLEAN, refs : Nat, vulkan : Nat, audio : {0, 1}]
      /\ library'.refs = Cardinality(Owners \ {x}) /\ (library'.up <=> Owners \ {x} # {})
      /\ library'.vulkan = IF Sdl /\ setup.api = "vulkan" THEN library'.refs ELSE 0
      /\ device' \in [stream : BOOLEAN, owns : BOOLEAN, running : BOOLEAN, mix : BOOLEAN, scratch : Nat, block : Nat,
                      alive : BOOLEAN]
      /\ DeviceHeld'
      /\ (Quits(x) <=> Owners = {x})
  BY <1>1, LetGoIs
<1>7. /\ windows' \in [Windows -> LibraryWindow]
      /\ \A w \in Windows : /\ windows'[w].open => w # Window(x) /\ ~Quits(x) /\ windows[w].open
                            /\ w # Window(x) /\ ~Quits(x) => windows'[w] = windows[w]
                            /\ windows'[w].text => windows'[w].open
  BY <1>1, WithoutIs
<1>8. \A z \in Managers \ {x} : Window(z) # None =>
         /\ Window(z) \in Windows /\ Window(z) # Window(x) /\ ~Quits(x)
         /\ windows'[Window(z)] = windows[Window(z)]
  BY <1>1, OthersKeep
<1>9. SharedTyped'  BY <1>1, <1>3, <1>5, <1>6, <1>7 DEF SharedTyped
<1>10. OwnersCounted'
  <2>1. Owners' = Owners \ {x}  BY <1>2, <1>3 DEF Owners
  <2>2. Cardinality(Owners)' = Cardinality(Owners \ {x})  BY <2>1
  <2> QED  BY <1>1, <1>4, <1>6, <2>1, <2>2 DEF OwnersCounted
<1>11. WindowsHeld'
  <2>1. HoldsWindow(x)'  BY <1>2, <1>3, <1>4 DEF HoldsWindow
  <2>2. ASSUME NEW y \in Managers \ {x} PROVE HoldsWindow(y)'
    <3>1. HoldsWindow(y)  BY <1>1 DEF WindowsHeld
    <3>2. Window(y) # None => windows'[Window(y)] = windows[Window(y)]  BY <1>8
    <3> QED  BY <1>3, <1>4, <3>1, <3>2 DEF HoldsWindow
  <2>3. \A y \in Managers : \A z \in Managers \ {y} : Window(y)' # None => Window(y)' # Window(z)'
    BY <1>1, <1>4 DEF WindowsHeld
  <2>4. \A w \in Windows : windows[w].open => \E y \in Managers : Window(y) = w  BY <1>1 DEF WindowsHeld
  <2>5. ASSUME NEW w \in Windows, windows'[w].open PROVE \E y \in Managers : Window(y)' = w
    <3>1. PICK y \in Managers : Window(y) = w  BY <1>7, <2>4, <2>5
    <3>2. y # x  BY <1>7, <2>5, <3>1
    <3> QED  BY <1>4, <3>1, <3>2
  <2>6. \A w \in Windows : windows'[w].text => windows'[w].open  BY <1>7
  <2>7. ~setup'.several => \A y \in Managers : \A z \in Managers \ {y} : Live(y)' => ~Live(z)'
    <3>1. \A y \in Managers : Live(y)' => Live(y)  BY <1>4
    <3> QED  BY <1>1, <3>1 DEF WindowsHeld
  <2> QED  BY <2>1, <2>2, <2>3, <2>5, <2>6, <2>7 DEF WindowsHeld
<1>12. DeviceHeld'  BY <1>6
<1>13. polled' # {} => queue' = <<>>  BY <1>1, <1>5 DEF SharedInv
<1>14. ASSUME ~(Sdl' /\ setup'.several) PROVE Followed'
  <2>1. ~(Sdl /\ setup.several) /\ Followed  BY <1>1, <1>4, <1>14 DEF SharedInv
  <2>2. ASSUME NEW y \in Managers, Window(y)' # None PROVE Follows(y)'
    <3>1. y # x /\ Window(y) # None  BY <1>4, <2>2
    <3>2. PICK w : w = Window(y)  OBVIOUS
    <3>3. w \in Windows /\ w # Window(x) /\ ~Quits(x) /\ windows'[w] = windows[w]  BY <1>8, <3>1, <3>2
    <3>4. SameFlags(managers[y], managers'[y]) /\ SameWindow(windows[w], windows'[w])
      BY <1>3, <3>1, <3>3 DEF SameFlags, SameWindow
    <3>5. \A kind : /\ ToldBy(w, kind)' = ToldBy(w, kind)
                    /\ \A i \in ToldBy(w, kind) : queue'[i].value = queue[i].value
      BY <1>5, <3>3
    <3>6. Follows(y)  BY <2>1, <3>1 DEF Followed
    <3>7. y \in polled' => y \in polled  BY <1>1
    <3>8. managers'[y].text = managers[y].text /\ windows'[w].text = windows[w].text /\ managers'[y].size = managers[y].size
      BY <1>3, <3>1, <3>3
    <3> QED  BY <1>1, <3>2, <3>3, <3>4, <3>5, <3>6, <3>7, <3>8, FollowsKept
  <2>3. ASSUME NEW y \in Managers, managers'[y].owns, Window(y)' = None PROVE Fresh(managers[y])'
    <3>1. y # x  BY <1>2, <1>3, <2>3
    <3> QED  BY <1>3, <1>4, <2>1, <2>3, <3>1 DEF Followed, Fresh
  <2>4. \A i \in DOMAIN queue' : queue'[i].window # None => windows'[queue'[i].window].open
    <3> SUFFICES ASSUME NEW i \in DOMAIN queue', queue'[i].window # None PROVE windows'[queue'[i].window].open
      OBVIOUS
    <3>1. /\ i \in DOMAIN queue /\ queue'[i].window = queue[i].window
          /\ queue'[i].window # Window(x) /\ ~Quits(x)
      BY <1>5
    <3>2. windows[queue[i].window].open /\ queue[i] \in QueueEvents  BY <1>1, <2>1, <3>1 DEF Followed, SharedTyped
    <3>3. queue[i].window \in Windows  BY <3>1, <3>2 DEF QueueEvents
    <3> QED  BY <1>7, <3>1, <3>2, <3>3
  <2>5. ASSUME Sdl', NEW i \in DOMAIN queue' PROVE queue'[i].window # None
    <3>1. Sdl /\ ~setup.several  BY <1>4, <2>1, <2>5
    <3> SUFFICES ASSUME queue'[i].window = None PROVE FALSE
      OBVIOUS
    <3>2. i \in DOMAIN queue /\ queue[i].window \in {None, Window(x)} /\ ~Quits(x)  BY <1>5
    <3>3. queue[i].window # None  BY <2>1, <3>1, <3>2 DEF Followed
    <3>4. Window(x) # None  BY <3>2, <3>3
    <3>5. \A y \in Managers : managers[y].owns => Live(y)  BY <1>1 DEF WindowsHeld, HoldsWindow
    <3>6. managers[x].owns  BY <1>1, <3>4 DEF WindowsHeld, HoldsWindow
    <3>7. Owners = {x}  BY <1>1, <3>1, <3>5, <3>6 DEF WindowsHeld, Owners
    <3> QED  BY <1>6, <3>2, <3>7
  <2> QED  BY <2>2, <2>3, <2>4, <2>5 DEF Followed
<1> QED  BY <1>6, <1>9, <1>10, <1>11, <1>12, <1>13, <1>14 DEF SharedInv

\* What a manager has comes to another, which has let go of what it had.
LEMMA AdoptKeeps ==
  ASSUME WindowsAssumption, ManagersAssumption, QueueAssumption, SizesAssumption, SharedInv,
         NEW x \in Managers, NEW y \in Managers, x # y, Live(x), LetGo(y), setup' = setup,
         managers' = [managers EXCEPT ![x] = MovedFrom(@), ![y] = managers[x]],
         windows' = Repointed(Without(y), x, y), polled' = PolledAs(x, y)
  PROVE  SharedInv'
<1> DEFINE old == MovedFrom(managers[x])
<1>1. SharedTyped /\ WindowsHeld /\ managers[x] \in Manager
  BY DEF SharedInv, SharedTyped
<1>2. /\ old \in Manager /\ old.state = "moved" /\ old.window = None /\ old.listener = None /\ ~old.owns /\ ~old.cursors
      /\ ~old.context /\ old.size = old.shown
  <2> DEFINE size == managers[x].size
             closing == managers[x].closing
  <2>1. size \in Sizes /\ closing \in BOOLEAN  BY <1>1 DEF Manager
  <2>2. old = [Absent EXCEPT !.state = "moved", !.size = size, !.shown = size, !.closing = closing]
    BY DEF MovedFrom
  <2>3. /\ Absent \in Manager /\ Absent.window = None /\ Absent.listener = None /\ ~Absent.owns /\ ~Absent.cursors
        /\ ~Absent.context
    BY DEF Absent, Constructed, Manager, SizesAssumption
  <2> HIDE DEF size, closing, old
  <2> QED  BY <2>1, <2>2, <2>3 DEF Manager
<1> HIDE DEF old
<1>3. /\ managers'[x] = old /\ managers'[y] = managers[x]
      /\ (\A z \in Managers \ {x, y} : managers'[z] = managers[z]) /\ managers' \in [Managers -> Manager]
  BY <1>1, <1>2 DEF SharedTyped, old
<1>4. /\ Sdl' = Sdl /\ Window(x)' = None /\ ~Live(x)' /\ Window(y)' = Window(x) /\ Live(y)'
      /\ \A z \in Managers \ {x, y} : Window(z)' = Window(z) /\ (Live(z)' <=> Live(z))
  BY <1>2, <1>3 DEF Sdl, Window, Live
<1>5. /\ queue' \in Seq(QueueEvents) /\ Len(queue') <= MaxEvents /\ (queue = <<>> => queue' = <<>>)
      /\ \A i \in DOMAIN queue' : /\ queue'[i].window # None =>
                                       /\ i \in DOMAIN queue /\ queue'[i].window = queue[i].window
                                       /\ queue'[i].window # Window(y) /\ ~Quits(y)
                                  /\ queue'[i].window = None =>
                                       i \in DOMAIN queue /\ queue[i].window \in {None, Window(y)} /\ ~Quits(y)
      /\ \A v \in Windows : \A kind : v # Window(y) /\ ~Quits(y) =>
           /\ ToldBy(v, kind)' = ToldBy(v, kind)
           /\ \A i \in ToldBy(v, kind) : queue'[i].value = queue[i].value
  BY QueueAfter
<1>6. /\ library' \in [up : BOOLEAN, refs : Nat, vulkan : Nat, audio : {0, 1}]
      /\ library'.refs = Cardinality(Owners \ {y}) /\ (library'.up <=> Owners \ {y} # {})
      /\ library'.vulkan = IF Sdl /\ setup.api = "vulkan" THEN library'.refs ELSE 0
      /\ device' \in [stream : BOOLEAN, owns : BOOLEAN, running : BOOLEAN, mix : BOOLEAN, scratch : Nat, block : Nat,
                      alive : BOOLEAN]
      /\ DeviceHeld'
      /\ (Quits(y) <=> Owners = {y})
  BY LetGoIs
<1>7. /\ Without(y) \in [Windows -> LibraryWindow]
      /\ \A w \in Windows : /\ Without(y)[w].open => w # Window(y) /\ ~Quits(y) /\ windows[w].open
                            /\ w # Window(y) /\ ~Quits(y) => Without(y)[w] = windows[w]
                            /\ Without(y)[w].text => Without(y)[w].open
  BY WithoutIs
<1>8. /\ windows' \in [Windows -> LibraryWindow]
      /\ \A w \in Windows : /\ windows'[w].open = Without(y)[w].open /\ windows'[w].text = Without(y)[w].text
                            /\ SameWindow(Without(y)[w], windows'[w])
                            /\ windows'[w].user = IF Without(y)[w].user = x THEN y ELSE Without(y)[w].user
  <2>1. ASSUME NEW w \in Windows
        PROVE  /\ windows'[w] \in LibraryWindow
               /\ windows'[w].open = Without(y)[w].open /\ windows'[w].text = Without(y)[w].text
               /\ SameWindow(Without(y)[w], windows'[w])
               /\ windows'[w].user = IF Without(y)[w].user = x THEN y ELSE Without(y)[w].user
    <3> DEFINE was == Without(y)[w]
    <3>1. was \in LibraryWindow  BY <1>7
    <3>2. windows'[w] = IF was.user = x THEN [was EXCEPT !.user = y] ELSE was  BY DEF Repointed
    <3> HIDE DEF was
    <3>3. CASE was.user = x
      <4>1. windows'[w] = [was EXCEPT !.user = y]  BY <3>2, <3>3
      <4>2. windows'[w] \in LibraryWindow /\ windows'[w].open = was.open /\ windows'[w].text = was.text
            /\ SameWindow(was, windows'[w]) /\ windows'[w].user = y
        BY <3>1, <4>1 DEF LibraryWindow, SameWindow
      <4> QED  BY <3>3, <4>2 DEF was
    <3>4. CASE was.user # x
      <4>1. windows'[w] = was  BY <3>2, <3>4
      <4> QED  BY <3>1, <3>4, <4>1 DEF was, SameWindow
    <3> QED  BY <3>3, <3>4
  <2>2. windows' = [w \in Windows |-> windows'[w]]  BY DEF Repointed
  <2> QED  BY <2>1, <2>2
<1>9. \A z \in Managers \ {y} : Window(z) # None =>
         /\ Window(z) \in Windows /\ Window(z) # Window(y) /\ ~Quits(y)
         /\ Without(y)[Window(z)] = windows[Window(z)]
  BY OthersKeep
<1>10. SharedTyped'
  <2>1. polled' \subseteq Managers  BY <1>1 DEF SharedTyped, PolledAs
  <2> QED  BY <1>1, <1>3, <1>5, <1>6, <1>8, <2>1 DEF SharedTyped
<1>11. OwnersCounted'
  <2>1. CASE managers[x].owns
    <3>1. Owners' = ((Owners \ {y}) \ {x}) \cup {y} /\ x \in Owners \ {y}  BY <1>2, <1>3, <2>1 DEF Owners
    <3>2. IsFiniteSet(Owners \ {y})  BY OwnersFinite, FS_RemoveElement
    <3>3. IsFiniteSet((Owners \ {y}) \ {x}) /\ Cardinality((Owners \ {y}) \ {x}) = Cardinality(Owners \ {y}) - 1
      BY <3>1, <3>2, FS_RemoveElement
    <3>4. Cardinality(((Owners \ {y}) \ {x}) \cup {y}) = Cardinality((Owners \ {y}) \ {x}) + 1
      BY <3>3, FS_AddElement
    <3>5. Cardinality(Owners \ {y}) \in Nat  BY <3>2, FS_CardinalityType
    <3>6. Cardinality(Owners)' = Cardinality(Owners \ {y})  BY <3>1, <3>3, <3>4, <3>5
    <3> QED  BY <1>4, <1>6, <3>1, <3>6 DEF OwnersCounted
  <2>2. CASE ~managers[x].owns
    <3>1. Owners' = Owners \ {y}  BY <1>2, <1>3, <2>2 DEF Owners
    <3>2. Cardinality(Owners)' = Cardinality(Owners \ {y})  BY <3>1
    <3> QED  BY <1>4, <1>6, <3>1, <3>2 DEF OwnersCounted
  <2> QED  BY <2>1, <2>2
<1>12. WindowsHeld'
  <2>1. HoldsWindow(x)'  BY <1>2, <1>3, <1>4 DEF HoldsWindow
  <2>2. HoldsWindow(y)'
    <3>1. HoldsWindow(x)  BY <1>1 DEF WindowsHeld
    <3>2. Window(x) # None => /\ windows'[Window(x)].open
                              /\ windows'[Window(x)].user = IF Sdl THEN None ELSE y
      <4> SUFFICES ASSUME Window(x) # None
                   PROVE  windows'[Window(x)].open /\ windows'[Window(x)].user = IF Sdl THEN None ELSE y
        OBVIOUS
      <4>1. Window(x) \in Windows /\ Without(y)[Window(x)] = windows[Window(x)]  BY <1>9
      <4>2. windows[Window(x)].open /\ windows[Window(x)].user = IF Sdl THEN None ELSE x  BY <3>1 DEF HoldsWindow
      <4>3. None # x  BY DEF ManagersAssumption
      <4> QED  BY <1>8, <4>1, <4>2, <4>3
    <3> QED  BY <1>3, <1>4, <3>1, <3>2 DEF HoldsWindow
  <2>3. ASSUME NEW z \in Managers \ {x, y} PROVE HoldsWindow(z)'
    <3>1. HoldsWindow(z)  BY <1>1 DEF WindowsHeld
    <3>2. Window(z) # None => /\ windows'[Window(z)].open
                              /\ windows'[Window(z)].user = IF Sdl THEN None ELSE z
      <4> SUFFICES ASSUME Window(z) # None
                   PROVE  windows'[Window(z)].open /\ windows'[Window(z)].user = IF Sdl THEN None ELSE z
        OBVIOUS
      <4>1. Window(z) \in Windows /\ Without(y)[Window(z)] = windows[Window(z)]  BY <1>9
      <4>2. windows[Window(z)].open /\ windows[Window(z)].user = IF Sdl THEN None ELSE z  BY <3>1 DEF HoldsWindow
      <4>3. None # x /\ z # x  BY DEF ManagersAssumption
      <4> QED  BY <1>8, <4>1, <4>2, <4>3
    <3> QED  BY <1>3, <1>4, <3>1, <3>2 DEF HoldsWindow
  <2>4. \A z \in Managers : \A v \in Managers \ {z} : Window(z)' # None => Window(z)' # Window(v)'
    BY <1>1, <1>4 DEF WindowsHeld
  <2>5. \A w \in Windows : windows[w].open => \E z \in Managers : Window(z) = w  BY <1>1 DEF WindowsHeld
  <2>6. ASSUME NEW w \in Windows, windows'[w].open PROVE \E z \in Managers : Window(z)' = w
    <3>1. windows[w].open /\ w # Window(y)  BY <1>7, <1>8, <2>6
    <3>2. PICK z \in Managers : Window(z) = w  BY <2>5, <3>1
    <3> QED  BY <1>4, <3>1, <3>2
  <2>7. \A w \in Windows : windows'[w].text => windows'[w].open  BY <1>7, <1>8
  <2>8. ~setup'.several => \A z \in Managers : \A v \in Managers \ {z} : Live(z)' => ~Live(v)'
    <3>1. ~setup.several => \A v \in Managers \ {x} : ~Live(v)  BY <1>1 DEF WindowsHeld
    <3>2. ~setup.several => \A v \in Managers \ {y} : ~Live(v)'  BY <1>4, <3>1
    <3> QED  BY <3>2
  <2> QED  BY <2>1, <2>2, <2>3, <2>4, <2>6, <2>7, <2>8 DEF WindowsHeld
<1>13. DeviceHeld'  BY <1>6
<1>14. polled' # {} => queue' = <<>>  BY <1>5 DEF SharedInv, PolledAs
<1>15. ASSUME ~(Sdl' /\ setup'.several) PROVE Followed'
  <2>1. ~(Sdl /\ setup.several) /\ Followed  BY <1>4, <1>15 DEF SharedInv
  <2>2. ASSUME NEW v \in Managers, NEW z \in Managers, Window(z) # None, z # y, managers'[v] = managers[z],
               v \in polled' => z \in polled
        PROVE  Follows(v)'
    <3>1. PICK w : w = Window(z)  OBVIOUS
    <3>2. w \in Windows /\ w # Window(y) /\ ~Quits(y) /\ Without(y)[w] = windows[w]  BY <1>9, <2>2, <3>1
    <3>3. SameFlags(managers[z], managers'[v]) /\ SameWindow(windows[w], windows'[w])
      BY <1>8, <2>2, <3>2 DEF SameFlags
    <3>4. \A kind : /\ ToldBy(w, kind)' = ToldBy(w, kind)
                    /\ \A i \in ToldBy(w, kind) : queue'[i].value = queue[i].value
      BY <1>5, <3>2
    <3>5. Follows(z)  BY <2>1, <2>2 DEF Followed
    <3>6. managers'[v].text = managers[z].text /\ windows'[w].text = windows[w].text /\ managers'[v].size = managers[z].size
      BY <1>8, <2>2, <3>2
    <3> QED  BY <1>1, <2>2, <3>1, <3>2, <3>3, <3>4, <3>5, <3>6, FollowsKept
  <2>3. ASSUME NEW v \in Managers, Window(v)' # None PROVE Follows(v)'
    <3>1. CASE v = y
      <4>1. y \in polled' => x \in polled  BY DEF PolledAs
      <4> QED  BY <1>3, <1>4, <2>2, <2>3, <3>1, <4>1
    <3>2. CASE v # y
      <4>1. v # x  BY <1>4, <2>3
      <4>2. v \in polled' => v \in polled  BY <3>2, <4>1 DEF PolledAs
      <4> QED  BY <1>3, <1>4, <2>2, <2>3, <3>2, <4>1, <4>2
    <3> QED  BY <3>1, <3>2
  <2>4. ASSUME NEW v \in Managers, managers'[v].owns, Window(v)' = None PROVE Fresh(managers[v])'
    <3>1. v # x  BY <1>2, <1>3, <2>4
    <3>2. CASE v = y  BY <1>3, <1>4, <2>1, <2>4, <3>2 DEF Followed, Fresh
    <3>3. CASE v # y  BY <1>3, <1>4, <2>1, <2>4, <3>1, <3>3 DEF Followed, Fresh
    <3> QED  BY <3>2, <3>3
  <2>5. \A i \in DOMAIN queue' : queue'[i].window # None => windows'[queue'[i].window].open
    <3> SUFFICES ASSUME NEW i \in DOMAIN queue', queue'[i].window # None PROVE windows'[queue'[i].window].open
      OBVIOUS
    <3>1. /\ i \in DOMAIN queue /\ queue'[i].window = queue[i].window
          /\ queue'[i].window # Window(y) /\ ~Quits(y)
      BY <1>5
    <3>2. windows[queue[i].window].open /\ queue[i] \in QueueEvents  BY <1>1, <2>1, <3>1 DEF Followed, SharedTyped
    <3>3. queue[i].window \in Windows  BY <3>1, <3>2 DEF QueueEvents
    <3>4. Without(y)[queue[i].window] = windows[queue[i].window]  BY <1>7, <3>1, <3>3
    <3> QED  BY <1>8, <3>1, <3>2, <3>3, <3>4
  <2>6. ASSUME Sdl', NEW i \in DOMAIN queue' PROVE queue'[i].window # None
    <3>1. Sdl /\ ~setup.several  BY <1>4, <2>1, <2>6
    <3> SUFFICES ASSUME queue'[i].window = None PROVE FALSE
      OBVIOUS
    <3>2. i \in DOMAIN queue /\ queue[i].window \in {None, Window(y)} /\ ~Quits(y)  BY <1>5
    <3>3. queue[i].window # None  BY <2>1, <3>1, <3>2 DEF Followed
    <3>4. Window(y) # None  BY <3>2, <3>3
    <3>5. Live(y)  BY <1>1, <3>4 DEF WindowsHeld, HoldsWindow
    <3> QED  BY <1>1, <3>1, <3>5 DEF WindowsHeld
  <2> QED  BY <2>3, <2>4, <2>5, <2>6 DEF Followed
<1> QED  BY <1>6, <1>10, <1>11, <1>12, <1>13, <1>14, <1>15 DEF SharedInv

\* A manager that is constructed from another one had nothing to let go of.
LEMMA NothingToLetGo ==
  ASSUME WindowsAssumption, SharedInv, NEW y \in Managers, managers[y].state = "absent",
         UNCHANGED <<library, queue, device>>
  PROVE  LetGo(y) /\ Without(y) = windows
<1>1. SharedTyped /\ WindowsHeld  BY DEF SharedInv
<1>2. ~managers[y].owns /\ Window(y) = None /\ ~Quits(y)  BY <1>1 DEF WindowsHeld, HoldsWindow, Live, Quits
<1>3. library' = WithoutReference(y) /\ device' = QuitDevice(Quits(y))  BY <1>2 DEF WithoutReference, QuitDevice
<1>4. Without(y) = windows
  <2>1. \A w \in Windows : w # None  BY DEF WindowsAssumption
  <2>2. Without(y) = [w \in Windows |-> windows[w]]  BY <1>2, <2>1 DEF Without
  <2> QED  BY <1>1, <2>2 DEF SharedTyped
<1>5. queue = [i \in DOMAIN queue |-> IF queue[i].window = Window(y) THEN [queue[i] EXCEPT !.window = None] ELSE queue[i]]
  <2> DEFINE at(i) == IF queue[i].window = Window(y) THEN [queue[i] EXCEPT !.window = None] ELSE queue[i]
  <2>1. ASSUME NEW i \in DOMAIN queue PROVE at(i) = queue[i]
    <3>1. queue[i] \in QueueEvents  BY <1>1 DEF SharedTyped
    <3>2. \A e \in QueueEvents : e.window = None => [e EXCEPT !.window = None] = e
      <4>1. \A e \in [window : Windows \cup {None}, kind : Flags, value : BOOLEAN] :
              e.window = None => [e EXCEPT !.window = None] = e
        OBVIOUS
      <4>2. \A e \in [window : Windows \cup {None}, kind : {"size"}, value : Sizes] :
              e.window = None => [e EXCEPT !.window = None] = e
        OBVIOUS
      <4> QED  BY <4>1, <4>2 DEF QueueEvents
    <3> QED  BY <1>2, <3>1, <3>2
  <2>2. queue \in Seq(QueueEvents)  BY <1>1 DEF SharedTyped
  <2>3. queue = [i \in DOMAIN queue |-> queue[i]]  BY <2>2
  <2> HIDE DEF at
  <2>4. queue = [i \in DOMAIN queue |-> at(i)]  BY <2>1, <2>3
  <2> QED  BY <2>4 DEF at
<1> QED  BY <1>2, <1>3, <1>4, <1>5 DEF LetGo

\* Every step keeps the invariant.
LEMMA SharedInvKept ==
  ASSUME WindowsAssumption, ManagersAssumption, QueueAssumption, SizesAssumption,
         SharedInv, [Next]_vars
  PROVE  SharedInv'
<1>1. ASSUME NEW x \in Managers, Construct(x) PROVE SharedInv'  BY <1>1, ConstructKeeps
<1>2. ASSUME NEW x \in Managers, CreateWindow(x) PROVE SharedInv'  BY <1>2, CreateKeeps
<1>3. ASSUME NEW x \in Managers, Destroy(x) \/ Delete(x) PROVE SharedInv'  BY <1>3, DropKeeps
<1>4. ASSUME NEW x \in Managers, PollEvents(x) PROVE SharedInv'  BY <1>4, PollKeeps
<1>5. ASSUME NEW x \in Managers, TakeResize(x) \/ Close(x) \/ SetCursor(x) PROVE SharedInv'  BY <1>5, RecordKeeps
<1>6. ASSUME NEW x \in Managers, NEW enabled \in BOOLEAN, SetTextInputEnabled(x, enabled) PROVE SharedInv'
  BY <1>6, TextKeeps
<1>7. ASSUME NEW x \in Managers, NEW y \in Managers, MoveAssign(x, y) PROVE SharedInv'
  BY <1>7, AdoptKeeps DEF MoveAssign
<1>8. ASSUME NEW x \in Managers, NEW y \in Managers, MoveConstruct(x, y) PROVE SharedInv'
  <2>1. LetGo(y) /\ Without(y) = windows  BY <1>8, NothingToLetGo DEF MoveConstruct
  <2>2. x # y  BY <1>8 DEF MoveConstruct, Live
  <2> QED  BY <1>8, <2>1, <2>2, AdoptKeeps DEF MoveConstruct
<1>9. ASSUME NEW w \in Windows, Change(w) PROVE SharedInv'  BY <1>9, ChangeKeeps
<1>10. ASSUME NEW w \in Windows, DismissText(w) PROVE SharedInv'  BY <1>10, DismissKeeps
<1>11. ASSUME \/ \E period \in Periods : OpenDevice(period)
              \/ OpenFails \/ CloseDevice
              \/ \E b \in BOOLEAN : SetMixCallback(b) \/ Resume(b)
              \/ \E wanted \in Requests : FillStream(wanted)
       PROVE  SharedInv'
  BY <1>11, DeviceKeeps
<1>12. CASE UNCHANGED vars
  <2>1. SharedTyped /\ WindowsHeld /\ OwnersCounted /\ DeviceHeld  BY DEF SharedInv
  <2>2. UNCHANGED <<setup, library, managers, windows, queue, polled, device>>  BY <1>12 DEF vars
  <2>3. DeviceHeld'  BY <2>1, <2>2 DEF DeviceHeld, DeviceIsLive
  <2> QED  BY <2>1, <2>2, <2>3, DeviceKept DEF SharedInv, SharedTyped
<1> QED
  BY <1>1, <1>2, <1>3, <1>4, <1>5, <1>6, <1>7, <1>8, <1>9, <1>10, <1>11, <1>12 DEF Next

\* A state the invariant describes has what is promised.
LEMMA SharedInvImplies ==
  ASSUME WindowsAssumption, ManagersAssumption, SharedInv
  PROVE  /\ TypeOK /\ LibraryFollowsOwners /\ CallbacksReachHolder /\ StateFollowsWindow
         /\ AudioWithoutVulkan => DeviceIsLive
<1>1. SharedTyped /\ WindowsHeld /\ OwnersCounted /\ DeviceHeld  BY DEF SharedInv
<1>2. IsFiniteSet(Owners) /\ Cardinality(Owners) \in Nat /\ Cardinality(Owners) <= Cardinality(Managers)
      /\ (Cardinality(Owners) = 0 <=> Owners = {}) /\ Cardinality(Managers) \in Nat
  BY OwnersFinite
<1>3. \A x \in Managers : HoldsWindow(x)  BY <1>1 DEF WindowsHeld
<1>4. TypeOK
  <2>1. library.refs \in 0 .. Cardinality(Managers) /\ library.vulkan \in 0 .. library.refs
    BY <1>1, <1>2 DEF OwnersCounted
  <2>2. \A x \in Managers : managers[x].state \in {"absent", "live", "moved"} /\ Window(x) \in Windows \cup {None}
                            /\ managers[x].size \in Sizes
    BY <1>1 DEF SharedTyped, Manager, Window
  <2> QED  BY <1>1, <2>1, <2>2 DEF TypeOK, SharedTyped
<1>5. LibraryFollowsOwners
  <2>1. library.up <=> \E x \in Managers : managers[x].owns  BY <1>1 DEF OwnersCounted, Owners
  <2>2. library.refs = Cardinality({x \in Managers : managers[x].owns})  BY <1>1 DEF OwnersCounted, Owners
  <2>3. Sdl /\ setup.api = "vulkan" => library.vulkan = library.refs  BY <1>1 DEF OwnersCounted
  <2>4. ASSUME NEW x \in Managers
        PROVE  /\ Window(x) # None => managers[x].owns /\ windows[Window(x)].open
               /\ managers[x].cursors \/ managers[x].context => Window(x) # None
               /\ ~Sdl => managers[x].listener = Window(x)
    BY <1>3 DEF HoldsWindow
  <2>5. ASSUME NEW w \in Windows, windows[w].open PROVE Cardinality({x \in Managers : Window(x) = w}) = 1
    <3>1. PICK x \in Managers : Window(x) = w  BY <1>1, <2>5 DEF WindowsHeld
    <3>2. w # None  BY DEF WindowsAssumption
    <3>3. {z \in Managers : Window(z) = w} = {x}  BY <1>1, <3>1, <3>2 DEF WindowsHeld
    <3> QED  BY <3>3, FS_Singleton
  <2> QED  BY <2>1, <2>2, <2>3, <2>4, <2>5 DEF LibraryFollowsOwners
<1>6. CallbacksReachHolder
  <2> SUFFICES ASSUME ~Sdl, NEW w \in Windows, windows[w].open PROVE managers[windows[w].user].window = w
    BY DEF CallbacksReachHolder
  <2>1. PICK x \in Managers : Window(x) = w  BY <1>1 DEF WindowsHeld
  <2>2. w # None  BY DEF WindowsAssumption
  <2>3. windows[w].user = x  BY <1>3, <2>1, <2>2 DEF HoldsWindow
  <2> QED  BY <2>1, <2>3 DEF Window
<1>7. StateFollowsWindow
  <2>1. ASSUME ~(Sdl /\ setup.several), NEW x \in Holders \cap polled PROVE FlagsFollow(x)
    <3>1. x \in Managers /\ Window(x) # None /\ x \in polled /\ Window(x) = managers[x].window
      BY DEF Holders, Window
    <3>2. Follows(x) /\ queue = <<>>  BY <2>1, <3>1 DEF SharedInv, Followed
    <3>3. DOMAIN queue = {}  BY <3>2
    <3>4. \A w, kind : ToldBy(w, kind) = {}  BY <3>3 DEF ToldBy
    <3> QED  BY <3>1, <3>2, <3>4 DEF FlagsFollow, Follows, Says
  <2>2. \A x \in Managers : managers[x].size # managers[x].shown => managers[x].resized  BY <1>3 DEF HoldsWindow
  <2> QED  BY <2>1, <2>2 DEF StateFollowsWindow
<1> QED  BY <1>1, <1>4, <1>5, <1>6, <1>7 DEF DeviceHeld
=============================================================================
