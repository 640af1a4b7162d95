--------------------------- MODULE MCWindowsProofs ---------------------------
(***************************************************************************)
(* Proofs about the windows, the frame loop and the services, for every    *)
(* value of the constants: what the runs of MCWindows check of each of     *)
(* their six parts.                                                        *)
(*                                                                         *)
(* The invariant of SharedWindows is in the module of its proofs. Here are *)
(* those of WindowLifetime (L), WindowState (W), SdlSurface (U), FrameLoop *)
(* (F) and Services (V), and last what all six say of a behaviour of       *)
(* MCWindows.                                                              *)
(***************************************************************************)
EXTENDS MCWindows, SequenceTheorems, TLAPS

-----------------------------------------------------------------------------
(***************************************************************************)
(* WindowLifetime.                                                         *)
(*                                                                         *)
(* The argument: HandlesAreLive says nothing of a window that is half made *)
(* or half destroyed. What a manager holds is exactly what exists of its   *)
(* connection; while it is made, that is what the stages so far have made, *)
(* and while it is released, in destroy()'s order, nothing that stays      *)
(* needs what goes. So the handles of a connection are at all times closed *)
(* under what each of them needs.                                          *)
(***************************************************************************)

\* What a manager of the backend may hold.
BackendHandles == IF L!Wayland THEN {L!DestroyOrder[i] : i \in DOMAIN L!DestroyOrder}
                  ELSE {L!DestroyOrder[i] : i \in DOMAIN L!DestroyOrder} \cup {"listeners", "method"}

\* A pool is drawn to the surface.
Requires(h) == IF h = "pool" THEN {"connection", "surface"} ELSE L!Needs(h)

\* Nothing lacks what it needs.
Closed(handles) == \A h \in handles \ {"method", "leaked"} : Requires(h) \subseteq handles

\* What the stages before one make.
Made(stage) == (UNION {L!Stages[i].make : i \in 1 .. stage - 1}) \ setup.missing

\* The variables' types.
LifetimeTyped ==
  /\ setup \in LifetimeSetups
  /\ objects \in [Objects -> [state : {"absent", "live", "moved"}, connection : Connections \cup {L!None},
                              held : SUBSET BackendHandles, window : {"none", "asked", "made"}]]
  /\ alive \in [Connections -> SUBSET (BackendHandles \cup {"leaked"})]
  /\ user \in [Connections -> [L!Proxies -> Objects \cup {L!None}]]
  /\ dispatching \in Objects \cup {L!None}

\* The call that runs: createWindow() at a stage, or destroy() and what it is part of.
CallTyped ==
  \/ call = L!Idle
  \/ /\ L!Creating /\ call = [L!Idle EXCEPT !.of = call.of, !.doing = "create", !.stage = call.stage]
     /\ call.of \in Objects /\ call.stage \in 1 .. Len(L!Stages)
  \/ /\ L!Destroying /\ call = [of |-> call.of, doing |-> "destroy", stage |-> 0, next |-> call.next, from |-> call.from]
     /\ call.of \in Objects /\ call.next \in {"nothing", "delete", "adopt"}
     /\ call.next = "adopt" => call.from \in Objects \ {call.of} /\ objects[call.from].state = "live"

\* No two managers have a connection in common, and one that nobody has is unused.
ConnectionsAreOwn ==
  /\ \A o \in Objects : \A p \in Objects \ {o} : L!Connection(o) # L!None => L!Connection(o) # L!Connection(p)
  /\ \A c \in Connections : (\A o \in Objects : L!Connection(o) # c) => alive[c] = {}

\* What a manager holds is what exists of its connection.
Owns(o) ==
  LET c == L!Connection(o) IN
  /\ objects[o].window = "none" \/ objects[o].state # "live" => c = L!None
  /\ c = L!None => L!Held(o) \subseteq {"listeners"}
  /\ c # L!None => IF "connection" \in L!Held(o) THEN alive[c] \ {"leaked"} = L!Held(o) \ {"listeners"}
                 ELSE /\ alive[c] \subseteq L!Held(o) \cap {"method"}
                      /\ L!Held(o) \subseteq {"listeners", "method", "window", "colormap"}
  /\ L!Creating /\ call.of = o =>
       c # L!None /\ L!Held(o) \ {"listeners"} = Made(call.stage) /\ alive[c] = Made(call.stage)

\* The inductive invariant.
LifetimeInv ==
  /\ LifetimeTyped /\ CallTyped /\ ConnectionsAreOwn
  /\ \A o \in Objects : Owns(o)
  /\ \A c \in Connections : Closed(alive[c])
  /\ L!EventsReachHolder

-----------------------------------------------------------------------------
(* The stages of createWindow().                                            *)

\* What the second and third stage make on Wayland.
Globals == {"clipboard", "registry", "compositor", "shm", "wmBase", "decorations", "seat"}
Surface == {"surface", "xdgSurface", "toplevel", "decoration", "keyboard", "pointer"}

\* The stages of createWindow() on Wayland.
LEMMA WaylandStagesAre ==
  ASSUME L!Wayland
  PROVE  /\ Len(L!Stages) \in {3, 4}
         /\ L!Stages[1] = L!Stage({"connection"}, {{"connection"}})
         /\ L!Stages[2] = L!Stage(Globals, {{"compositor"}, {"wmBase"}})
         /\ L!Stages[3] = L!Stage(Surface, {{}})
         /\ Len(L!Stages) = 4 => \E h \in {"egl", "pool"} : L!Stages[4] = L!Stage({h}, {{h}})
<1> USE DEF Globals, Surface
<1>1. CASE setup.api = "gl"
  <2>1. L!Stages = <<L!Stage({"connection"}, {{"connection"}}), L!Stage(Globals, {{"compositor"}, {"wmBase"}}),
                   L!Stage(Surface, {{}})>> \o <<L!Stage({"egl"}, {{"egl"}})>>
    BY <1>1 DEF L!Stages, L!WaylandStages
  <2> QED  BY <2>1
<1>2. CASE setup.api = "cpu"
  <2>1. L!Stages = <<L!Stage({"connection"}, {{"connection"}}), L!Stage(Globals, {{"compositor"}, {"wmBase"}}),
                   L!Stage(Surface, {{}})>> \o <<L!Stage({"pool"}, {{"pool"}})>>
    BY <1>2 DEF L!Stages, L!WaylandStages
  <2> QED  BY <2>1
<1>3. CASE setup.api \notin {"gl", "cpu"}
  <2>1. L!Stages = <<L!Stage({"connection"}, {{"connection"}}), L!Stage(Globals, {{"compositor"}, {"wmBase"}}),
                   L!Stage(Surface, {{}})>> \o <<>>
    BY <1>3 DEF L!Stages, L!WaylandStages
  <2> QED  BY <2>1
<1> QED  BY <1>1, <1>2, <1>3

\* The stages of createWindow() on X11.
LEMMA X11StagesAre ==
  ASSUME ~L!Wayland
  PROVE  /\ Len(L!Stages) \in {3, 4}
         /\ L!Stages[1] = L!Stage({"connection"}, {{"connection"}})
         /\ \/ L!Stages[2] = L!Stage({"colormap", "window"}, {{"colormap", "window"}, {"window"}})
            \/ L!Stages[2] = L!Stage({"window"}, {{"window"}})
         /\ L!Stages[3] = L!Stage({"clipboard", "method"}, {})
         /\ Len(L!Stages) = 4 =>
              \/ L!Stages[4] = L!Stage({"context"}, {{"context"}})
              \/ L!Stages[4] = L!Stage({"gc", "present"}, {})
<1> DEFINE one == <<L!Stage({"connection"}, {{"connection"}})>>
           two == <<L!Stage({"colormap", "window"}, {{"colormap", "window"}, {"window"}})>>
           two2 == <<L!Stage({"window"}, {{"window"}})>>
           three == <<L!Stage({"clipboard", "method"}, {})>>
<1>1. CASE setup.api = "gl"
  <2>1. L!Stages = ((one \o two) \o three) \o <<L!Stage({"context"}, {{"context"}})>>
    BY <1>1 DEF L!Stages, L!X11Stages
  <2> QED  BY <2>1
<1>2. CASE setup.api = "cpu"
  <2>1. L!Stages = ((one \o two2) \o three) \o <<L!Stage({"gc", "present"}, {})>>
    BY <1>2 DEF L!Stages, L!X11Stages
  <2> QED  BY <2>1
<1>3. CASE setup.api \notin {"gl", "cpu"}
  <2>1. L!Stages = ((one \o two2) \o three) \o <<>>
    BY <1>3 DEF L!Stages, L!X11Stages
  <2> QED  BY <2>1
<1> QED  BY <1>1, <1>2, <1>3

\* What has been made when a stage begins.
LEMMA MadeStepwise ==
  ASSUME Len(L!Stages) \in Nat, NEW k \in 1 .. Len(L!Stages)
  PROVE  /\ Made(1) = {}
         /\ Made(k + 1) = Made(k) \cup (L!Stages[k].make \ setup.missing)
<1>1. 1 .. 1 - 1 = {}  OBVIOUS
<1>2. 1 .. (k + 1) - 1 = (1 .. k - 1) \cup {k}  OBVIOUS
<1>0. ASSUME NEW n, NEW h PROVE h \in Made(n) <=> (\E i \in 1 .. n - 1 : h \in L!Stages[i].make) /\ h \notin setup.missing
  BY Zenon DEF Made
<1>3. \A h : h \in Made(k + 1) <=> (\E i \in (1 .. k - 1) \cup {k} : h \in L!Stages[i].make) /\ h \notin setup.missing
  BY <1>0, <1>2, Zenon
<1>4. \A h : h \in Made(k) <=> (\E i \in 1 .. k - 1 : h \in L!Stages[i].make) /\ h \notin setup.missing
  BY <1>0, Zenon
<1>5. Made(1) = {}  BY <1>1 DEF Made
<1> QED  BY <1>3, <1>4, <1>5

\* The order of destroy(), without the order.
LEMMA OrderedHandles ==
  BackendHandles =
    IF L!Wayland
    THEN {"listeners", "egl", "frame", "pool", "clipboard", "keyboard", "pointer", "seat", "shm", "decoration",
          "decorations", "toplevel", "xdgSurface", "surface", "wmBase", "compositor", "registry", "connection"}
    ELSE {"clipboard", "slots", "context", "present", "gc", "window", "colormap", "connection", "listeners", "method"}
BY DEF BackendHandles, L!DestroyOrder

\* destroy() releases nothing before what needs it.
LEMMA OrderedNeeds ==
  ASSUME NEW i \in DOMAIN L!DestroyOrder, NEW j \in DOMAIN L!DestroyOrder, i < j
  PROVE  L!DestroyOrder[i] \notin Requires(L!DestroyOrder[j])
<1>1. CASE L!Wayland
  <2>1. \A h : h = L!DestroyOrder[j] => \E n \in DOMAIN L!DestroyOrder : n = j  OBVIOUS
  <2> QED  BY <1>1 DEF L!DestroyOrder, Requires, L!Needs
<1>2. CASE ~L!Wayland
  BY <1>2 DEF L!DestroyOrder, Requires, L!Needs
<1> QED  BY <1>1, <1>2

\* What a stage makes is made of what is there, whatever it goes without.
LEMMA StageCloses ==
  ASSUME L!SetupsAssumption, setup \in LifetimeSetups, NEW k \in 1 .. Len(L!Stages),
         NEW lacking \in L!Stages[k].lacks \cup {{}}, L!Wayland \/ "window" \notin L!Stages[k].make \/ lacking = {}
  PROVE  /\ Closed(Made(k) \cup (L!Stages[k].make \ (setup.missing \cup lacking)))
         /\ L!Stages[k].make \subseteq BackendHandles \ {"listeners"}
         /\ k # 1 => "connection" \in Made(k) /\ "connection" \notin lacking
         /\ k = 1 => L!Stages[k].make = {"connection"} /\ lacking \subseteq {"connection"}
<1>m. /\ setup.missing \subseteq L!Optional
      /\ "seat" \in setup.missing => {"keyboard", "pointer"} \subseteq setup.missing
      /\ "decorations" \in setup.missing => "decoration" \in setup.missing
  BY DEF L!SetupsAssumption
<1>1. CASE L!Wayland
  <2>1. Made(1) = {} /\ Made(2) = {"connection"}
    <3>1. 1 \in 1 .. Len(L!Stages) /\ 1 + 1 = 2 /\ Len(L!Stages) \in Nat /\ L!Stages[1].make = {"connection"}
      BY <1>1, WaylandStagesAre DEF L!Stage
    <3>2. Made(1) = {} /\ Made(1 + 1) = Made(1) \cup (L!Stages[1].make \ setup.missing)  BY <3>1, MadeStepwise
    <3> QED  BY <1>m, <3>1, <3>2 DEF L!Optional
  <2>2. Made(3) = {"connection"} \cup (Globals \ setup.missing)
    <3>1. 2 \in 1 .. Len(L!Stages) /\ 2 + 1 = 3 /\ Len(L!Stages) \in Nat /\ L!Stages[2].make = Globals
      BY <1>1, WaylandStagesAre DEF L!Stage
    <3>2. Made(2 + 1) = Made(2) \cup (L!Stages[2].make \ setup.missing)  BY <3>1, MadeStepwise
    <3> QED  BY <2>1, <3>1, <3>2
  <2>3. Made(4) = ({"connection"} \cup (Globals \ setup.missing)) \cup (Surface \ setup.missing)
    <3>1. 3 \in 1 .. Len(L!Stages) /\ 3 + 1 = 4 /\ Len(L!Stages) \in Nat /\ L!Stages[3].make = Surface
      BY <1>1, WaylandStagesAre DEF L!Stage
    <3>2. Made(3 + 1) = Made(3) \cup (L!Stages[3].make \ setup.missing)  BY <3>1, MadeStepwise
    <3> QED  BY <2>2, <3>1, <3>2
  <2>4. CASE k = 1
    BY <1>1, <1>m, <2>1, <2>4, WaylandStagesAre, OrderedHandles DEF L!Stage, Closed, Requires, L!Needs
  <2>5. CASE k = 2
    BY <1>1, <1>m, <2>1, <2>5, WaylandStagesAre, OrderedHandles DEF L!Stage, Closed, Requires, L!Needs, Globals
  <2>6. CASE k = 3
    BY <1>1, <1>m, <2>2, <2>6, WaylandStagesAre, OrderedHandles
    DEF L!Stage, Closed, Requires, L!Needs, Globals, Surface, L!Optional
  <2>7. CASE k = 4
    BY <1>1, <1>m, <2>3, <2>7, WaylandStagesAre, OrderedHandles
    DEF L!Stage, Closed, Requires, L!Needs, Globals, Surface, L!Optional
  <2> QED  BY <1>1, <2>4, <2>5, <2>6, <2>7, WaylandStagesAre
<1>2. CASE ~L!Wayland
  <2>1. Made(1) = {} /\ Made(2) = {"connection"}
    <3>1. 1 \in 1 .. Len(L!Stages) /\ 1 + 1 = 2 /\ Len(L!Stages) \in Nat /\ L!Stages[1].make = {"connection"}
      BY <1>2, X11StagesAre DEF L!Stage
    <3>2. Made(1) = {} /\ Made(1 + 1) = Made(1) \cup (L!Stages[1].make \ setup.missing)  BY <3>1, MadeStepwise
    <3> QED  BY <1>m, <3>1, <3>2 DEF L!Optional
  <2>2. {"connection", "window"} \subseteq Made(3) /\ Made(3) \subseteq {"connection", "window", "colormap"}
    <3>1. 2 \in 1 .. Len(L!Stages) /\ 2 + 1 = 3 /\ Len(L!Stages) \in Nat
          /\ L!Stages[2].make \in {{"colormap", "window"}, {"window"}}
      BY <1>2, X11StagesAre DEF L!Stage
    <3>2. Made(2 + 1) = Made(2) \cup (L!Stages[2].make \ setup.missing)  BY <3>1, MadeStepwise
    <3> QED  BY <1>m, <2>1, <3>1, <3>2 DEF L!Optional
  <2>3. /\ {"connection", "window", "clipboard"} \subseteq Made(4)
        /\ Made(4) \subseteq {"connection", "window", "colormap", "clipboard", "method"}
    <3>1. 3 \in 1 .. Len(L!Stages) /\ 3 + 1 = 4 /\ Len(L!Stages) \in Nat /\ L!Stages[3].make = {"clipboard", "method"}
      BY <1>2, X11StagesAre DEF L!Stage
    <3>2. Made(3 + 1) = Made(3) \cup (L!Stages[3].make \ setup.missing)  BY <3>1, MadeStepwise
    <3> QED  BY <1>m, <2>2, <3>1, <3>2 DEF L!Optional
  <2>4. CASE k = 1
    BY <1>2, <1>m, <2>1, <2>4, X11StagesAre, OrderedHandles DEF L!Stage, Closed, Requires, L!Needs
  <2>5. CASE k = 2
    BY <1>2, <1>m, <2>1, <2>5, X11StagesAre, OrderedHandles DEF L!Stage, Closed, Requires, L!Needs, L!Optional
  <2>6. CASE k = 3
    BY <1>2, <1>m, <2>2, <2>6, X11StagesAre, OrderedHandles DEF L!Stage, Closed, Requires, L!Needs, L!Optional
  <2>7. CASE k = 4
    BY <1>2, <1>m, <2>3, <2>7, X11StagesAre, OrderedHandles DEF L!Stage, Closed, Requires, L!Needs, L!Optional
  <2> QED  BY <1>2, <2>4, <2>5, <2>6, <2>7, X11StagesAre
<1> QED  BY <1>1, <1>2

-----------------------------------------------------------------------------
(* The invariant.                                                           *)

\* A manager object.
Object == [state : {"absent", "live", "moved"}, connection : Connections \cup {L!None},
           held : SUBSET BackendHandles, window : {"none", "asked", "made"}]

\* What depends on the backend alone does not change.
LEMMA SetupStays ==
  ASSUME setup' = setup
  PROVE  /\ L!Wayland' = L!Wayland /\ L!Stages' = L!Stages /\ L!DestroyOrder' = L!DestroyOrder
         /\ BackendHandles' = BackendHandles
         /\ \A k : Made(k)' = Made(k)
         /\ \A h : Requires(h)' = Requires(h)
         /\ \A s : Closed(s)' = Closed(s)
<1>1. L!Wayland' = L!Wayland  BY DEF L!Wayland
<1>2. L!Stages' = L!Stages  BY <1>1 DEF L!Stages, L!WaylandStages, L!X11Stages, L!Stage
<1>3. L!DestroyOrder' = L!DestroyOrder  BY <1>1 DEF L!DestroyOrder
<1>4. BackendHandles' = BackendHandles  BY <1>1, <1>3, Zenon DEF BackendHandles
<1>5. \A k : Made(k)' = Made(k)  BY <1>2 DEF Made
<1>6. \A h : Requires(h)' = Requires(h)  BY <1>1 DEF Requires, L!Needs
<1>7. \A s : Closed(s)' = Closed(s)  BY <1>6 DEF Closed
<1> QED  BY <1>1, <1>2, <1>3, <1>4, <1>5, <1>6, <1>7

\* A manager that nothing happens to still owns what it did.
LEMMA OthersOwn ==
  ASSUME LifetimeInv, setup' = setup, NEW p \in Objects, objects'[p] = objects[p],
         L!Connection(p) # L!None => alive'[L!Connection(p)] = alive[L!Connection(p)],
         ~(call'.doing = "create" /\ call'.of = p)
  PROVE  Owns(p)'
<1>1. Owns(p)  BY DEF LifetimeInv
<1>2. L!Connection(p)' = L!Connection(p) /\ L!Held(p)' = L!Held(p)  BY DEF L!Connection, L!Held
<1> QED  BY <1>1, <1>2 DEF Owns, L!Creating

\* Every setup begins with nothing held.
LEMMA LifetimeInvInit == ASSUME L!ConnectionsAssumption, L!SetupsAssumption PROVE L!Init => LifetimeInv
<1> SUFFICES ASSUME L!Init PROVE LifetimeInv
  OBVIOUS
<1>1. LifetimeTyped
  <2>1. L!Absent \in [state : {"absent", "live", "moved"}, connection : Connections \cup {L!None},
                    held : SUBSET BackendHandles, window : {"none", "asked", "made"}]
    BY DEF L!Absent
  <2> QED  BY <2>1 DEF L!Init, LifetimeTyped
<1>2. CallTyped  BY DEF L!Init, CallTyped
<1>3. \A o \in Objects : L!Connection(o) = L!None /\ L!Held(o) = {} /\ objects[o].state = "absent"
  BY DEF L!Init, L!Connection, L!Held, L!Absent
<1>4. \A c \in Connections : alive[c] = {}  BY DEF L!Init
<1>5. ConnectionsAreOwn  BY <1>3, <1>4 DEF ConnectionsAreOwn
<1>6. \A o \in Objects : Owns(o)  BY <1>3 DEF Owns, L!Creating, L!Init, L!Idle
<1>7. \A c \in Connections : Closed(alive[c])  BY <1>4 DEF Closed
<1>8. L!EventsReachHolder  BY <1>3 DEF L!EventsReachHolder
<1> QED  BY <1>1, <1>2, <1>5, <1>6, <1>7, <1>8 DEF LifetimeInv

\* A manager whose handles are not used by the call, in terms of what it may hold.
LEMMA Connected ==
  ASSUME LifetimeInv, NEW o \in Objects, NEW h \in L!Held(o), h \notin {"listeners", "method", "window", "colormap"}
  PROVE  /\ L!Connection(o) \in Connections /\ "connection" \in L!Held(o)
         /\ alive[L!Connection(o)] \ {"leaked"} = L!Held(o) \ {"listeners"}
         /\ objects[o].state = "live" /\ objects[o].window # "none"
<1>1. Owns(o) /\ objects[o] \in Object  BY DEF LifetimeInv, LifetimeTyped, Object
<1>2. L!Connection(o) \in Connections \cup {L!None}  BY <1>1 DEF Object, L!Connection
<1> QED  BY <1>1, <1>2 DEF Owns

\* Only the call changes.
LEMMA CallKeeps ==
  ASSUME LifetimeInv, UNCHANGED <<setup, objects, alive, user>>, CallTyped', dispatching' \in Objects \cup {L!None},
         call' = call \/ call'.doing # "create"
  PROVE  LifetimeInv'
<1>1. LifetimeTyped'  BY SetupStays DEF LifetimeInv, LifetimeTyped
<1>2. \A o : L!Connection(o)' = L!Connection(o) /\ L!Held(o)' = L!Held(o)  BY DEF L!Connection, L!Held
<1>3. ConnectionsAreOwn'  BY <1>2 DEF LifetimeInv, ConnectionsAreOwn
<1>4. ASSUME NEW o \in Objects PROVE Owns(o)'
  <2>1. CASE call' = call
    <3>1. Owns(o)  BY DEF LifetimeInv
    <3>2. \A k : Made(k)' = Made(k)  BY SetupStays
    <3> QED  BY <1>2, <2>1, <3>1, <3>2 DEF Owns, L!Creating
  <2>2. CASE call'.doing # "create"
    BY <2>2, OthersOwn
  <2> QED  BY <2>1, <2>2
<1>5. \A c \in Connections : Closed(alive[c])'  BY SetupStays DEF LifetimeInv
<1>6. L!EventsReachHolder'  BY <1>2 DEF LifetimeInv, L!EventsReachHolder
<1> QED  BY <1>1, <1>3, <1>4, <1>5, <1>6 DEF LifetimeInv

\* The steps that begin or end a call, or call the application back.
LEMMA BeginKeeps ==
  ASSUME LifetimeInv, NEW o \in Objects,
         L!Destroy(o) \/ L!Delete(o) \/ L!Dispatch(o) \/ L!CallbackReturns \/ \E p \in Objects : L!MoveAssign(o, p)
  PROVE  LifetimeInv'
<1>0. UNCHANGED <<setup, objects, alive, user>> /\ dispatching' \in {dispatching, o, L!None}
  BY DEF L!Destroy, L!Delete, L!Dispatch, L!CallbackReturns, L!MoveAssign, L!Release
<1>1. CASE L!Destroy(o) \/ L!Delete(o)
  <2>1. call' = [of |-> o, doing |-> "destroy", stage |-> 0, next |-> call'.next, from |-> L!None]
        /\ call'.next \in {"nothing", "delete"}
    BY <1>1 DEF L!Destroy, L!Delete, L!Release
  <2> QED  BY <1>0, <2>1, CallKeeps DEF CallTyped, L!Destroying, LifetimeInv, LifetimeTyped
<1>2. CASE L!Dispatch(o) \/ L!CallbackReturns
  <2>1. call' = call /\ call = L!Idle  BY <1>2 DEF L!Dispatch, L!CallbackReturns, L!Free
  <2>2. CallTyped'  BY <2>1 DEF CallTyped, L!Idle
  <2> QED  BY <1>0, <2>1, <2>2, CallKeeps DEF LifetimeInv, LifetimeTyped
<1>3. ASSUME NEW p \in Objects, L!MoveAssign(o, p) PROVE LifetimeInv'
  <2>1. call' = [of |-> p, doing |-> "destroy", stage |-> 0, next |-> "adopt", from |-> o]
        /\ o # p /\ objects[o].state = "live"
    BY <1>3 DEF L!MoveAssign, L!Release
  <2>2. CallTyped'  BY <1>0, <2>1 DEF CallTyped, L!Destroying
  <2> QED  BY <1>0, <2>1, <2>2, CallKeeps DEF LifetimeInv, LifetimeTyped
<1> QED  BY <1>1, <1>2, <1>3

\* The constructor makes the listeners alone.
LEMMA ConstructKeeps ==
  ASSUME L!ConnectionsAssumption, LifetimeInv, NEW o \in Objects, L!Construct(o)
  PROVE  LifetimeInv'
<1> DEFINE new == [state |-> "live", connection |-> L!None, held |-> {"listeners"}, window |-> "none"]
<1>1. /\ objects' = [objects EXCEPT ![o] = new] /\ UNCHANGED <<setup, alive, user, call, dispatching>>
      /\ call = L!Idle /\ objects[o].state = "absent"
  <2>1. [L!Absent EXCEPT !.state = "live", !.held = {"listeners"}]
          \in [state : {"live"}, connection : {L!None}, held : {{"listeners"}}, window : {"none"}]
    BY DEF L!Absent
  <2>2. ASSUME NEW r \in [state : {"live"}, connection : {L!None}, held : {{"listeners"}}, window : {"none"}]
        PROVE  r = new
    OBVIOUS
  <2>3. [L!Absent EXCEPT !.state = "live", !.held = {"listeners"}] = new  BY <2>1, <2>2
  <2> HIDE DEF new
  <2> QED  BY <2>3 DEF L!Construct, L!Free
<1>2. L!Connection(o) = L!None  BY <1>1 DEF LifetimeInv, Owns
<1>3. new \in [state : {"absent", "live", "moved"}, connection : Connections \cup {L!None},
               held : SUBSET BackendHandles, window : {"none", "asked", "made"}]
  BY OrderedHandles
<1>4. /\ objects'[o] = new /\ \A p \in Objects \ {o} : objects'[p] = objects[p]
      /\ LifetimeTyped'
  BY <1>1, <1>3, SetupStays DEF LifetimeInv, LifetimeTyped
<1> HIDE DEF new
<1>5. \A p \in Objects : L!Connection(p)' = L!Connection(p)
  BY <1>2, <1>4 DEF L!Connection, new
<1>6. CallTyped' /\ call'.doing # "create"  BY <1>1 DEF CallTyped, L!Idle
<1>7. ConnectionsAreOwn'  BY <1>1, <1>5 DEF LifetimeInv, ConnectionsAreOwn
<1>8. ASSUME NEW p \in Objects PROVE Owns(p)'
  <2>1. CASE p = o
    BY <1>2, <1>4, <1>5, <1>6, <2>1 DEF Owns, L!Held, L!Connection, L!Creating, new
  <2>2. CASE p # o
    BY <1>1, <1>4, <1>6, <2>2, OthersOwn
  <2> QED  BY <2>1, <2>2
<1>9. \A c \in Connections : Closed(alive[c])'  BY <1>1, SetupStays DEF LifetimeInv
<1>10. L!EventsReachHolder'
  BY <1>1, <1>2, <1>4, <1>5 DEF LifetimeInv, L!EventsReachHolder, L!Held
<1> QED  BY <1>4, <1>6, <1>7, <1>8, <1>9, <1>10 DEF LifetimeInv

\* createWindow() takes a connection nobody has and begins with the first stage.
LEMMA CreateKeeps ==
  ASSUME L!ConnectionsAssumption, L!SetupsAssumption, LifetimeInv, NEW o \in Objects, L!CreateWindow(o)
  PROVE  LifetimeInv'
<1> DEFINE c == CHOOSE c \in Connections : L!Unused(c)
<1>1. /\ objects' = [objects EXCEPT ![o].window = "asked", ![o].connection = c]
      /\ call' = [L!Idle EXCEPT !.of = o, !.doing = "create", !.stage = 1]
      /\ UNCHANGED <<setup, alive, user, dispatching>>
      /\ objects[o].state = "live" /\ objects[o].window = "none"
  BY DEF L!CreateWindow
<1>2. c \in Connections /\ L!Unused(c)  BY DEF L!CreateWindow
<1> HIDE DEF c
<1>3. c # L!None /\ alive[c] = {} /\ \A p \in Objects : L!Connection(p) # c
  BY <1>2 DEF L!Unused, L!ConnectionsAssumption
<1>4. L!Connection(o) = L!None /\ L!Held(o) \subseteq {"listeners"}  BY <1>1 DEF LifetimeInv, Owns
<1>5. /\ objects'[o].state = "live" /\ objects'[o].window = "asked"
      /\ L!Held(o)' = L!Held(o) /\ L!Connection(o)' = c
      /\ \A p \in Objects \ {o} : objects'[p] = objects[p]
      /\ LifetimeTyped'
  BY <1>1, <1>2, SetupStays DEF LifetimeInv, LifetimeTyped, L!Held, L!Connection
<1>6. \A p \in Objects \ {o} : L!Connection(p)' = L!Connection(p) /\ L!Held(p)' = L!Held(p)
  BY <1>5 DEF L!Connection, L!Held
<1>7. Len(L!Stages) \in {3, 4}  BY WaylandStagesAre, X11StagesAre
<1>8. CallTyped'
  <2>1. call'.of = o /\ call'.doing = "create" /\ call'.stage = 1  BY <1>1 DEF L!Idle
  <2>2. L!Stages' = L!Stages  BY <1>1, SetupStays
  <2>3. 1 \in 1 .. Len(L!Stages')  BY <1>7, <2>2
  <2> QED  BY <1>1, <2>1, <2>3 DEF CallTyped, L!Creating
<1>9. ConnectionsAreOwn'
  <2>0. ConnectionsAreOwn  BY DEF LifetimeInv
  <2>1. ASSUME NEW p \in Objects, NEW q \in Objects \ {p}, L!Connection(p)' # L!None PROVE L!Connection(p)' # L!Connection(q)'
    BY <1>3, <1>5, <1>6, <2>0, <2>1 DEF ConnectionsAreOwn
  <2>2. ASSUME NEW d \in Connections, \A p \in Objects : L!Connection(p)' # d PROVE alive'[d] = {}
    <3>1. \A p \in Objects : L!Connection(p) # d  BY <1>3, <1>4, <1>6, <2>2 DEF L!ConnectionsAssumption
    <3> QED  BY <1>1, <2>0, <3>1 DEF ConnectionsAreOwn
  <2> QED  BY <2>1, <2>2 DEF ConnectionsAreOwn
<1>10. ASSUME NEW p \in Objects PROVE Owns(p)'
  <2>1. call'.of = o /\ call'.doing = "create" /\ call'.stage = 1  BY <1>1 DEF L!Idle
  <2>2. CASE p = o
    <3>1. Made(1)' = {}  BY <1>1, <1>7, MadeStepwise, SetupStays
    <3>2. L!Held(o)' \ {"listeners"} = {}  BY <1>4, <1>5
    <3>3. "connection" \notin L!Held(o)'  BY <1>4, <1>5
    <3>4. alive'[c] = {}  BY <1>1, <1>3
    <3> QED  BY <1>3, <1>4, <1>5, <2>1, <2>2, <3>1, <3>2, <3>3, <3>4 DEF Owns
  <2>3. CASE p # o
    BY <1>1, <1>5, <2>1, <2>3, OthersOwn
  <2> QED  BY <2>2, <2>3
<1>11. \A d \in Connections : Closed(alive[d])'  BY <1>1, SetupStays DEF LifetimeInv
<1>12. L!EventsReachHolder'
  <2>1. L!Proxies \cap L!Held(o)' = {}  BY <1>4, <1>5 DEF L!Proxies
  <2> QED  BY <1>1, <1>6, <2>1 DEF LifetimeInv, L!EventsReachHolder
<1> QED  BY <1>5, <1>8, <1>9, <1>10, <1>11, <1>12 DEF LifetimeInv

\* The manager that a call of createWindow() is for.
LEMMA Making ==
  ASSUME L!ConnectionsAssumption, L!SetupsAssumption, LifetimeInv, L!Creating
  PROVE  /\ call.of \in Objects /\ call.stage \in 1 .. Len(L!Stages) /\ Len(L!Stages) \in {3, 4}
         /\ L!Connection(call.of) \in Connections
         /\ objects[call.of].state = "live" /\ objects[call.of].window # "none"
         /\ L!Held(call.of) \ {"listeners"} = Made(call.stage) /\ alive[L!Connection(call.of)] = Made(call.stage)
         /\ setup \in LifetimeSetups /\ L!Current = L!Stages[call.stage]
         /\ Made(call.stage) \subseteq BackendHandles \ {"listeners"}
         /\ {"listeners", "leaked"} \cap Made(call.stage) = {}
<1>1. call.of \in Objects /\ call.stage \in 1 .. Len(L!Stages)
  BY DEF LifetimeInv, CallTyped, L!Creating, L!Destroying, L!Idle
<1>2. Owns(call.of) /\ objects[call.of] \in Object  BY <1>1 DEF LifetimeInv, LifetimeTyped, Object
<1>3. L!Connection(call.of) \in Connections \cup {L!None} /\ L!Held(call.of) \subseteq BackendHandles
  BY <1>2 DEF Object, L!Connection, L!Held
<1>4. Len(L!Stages) \in {3, 4}  BY WaylandStagesAre, X11StagesAre
<1>5. "leaked" \notin BackendHandles  BY OrderedHandles
<1> QED  BY <1>1, <1>2, <1>3, <1>4, <1>5 DEF Owns, Object, LifetimeInv, LifetimeTyped, L!Current

\* A step of one manager, on its record and on its connection, in what it leaves to be shown.
LEMMA OneChanges ==
  ASSUME L!ConnectionsAssumption, LifetimeInv, NEW o \in Objects, NEW c, c = L!Connection(o), NEW new \in Object,
         new.connection = c, NEW a \in SUBSET (BackendHandles \cup {"leaked"}),
         objects' = [objects EXCEPT ![o] = new],
         alive' = IF c = L!None THEN alive ELSE [alive EXCEPT ![c] = a],
         user' \in [Connections -> [L!Proxies -> Objects \cup {L!None}]],
         \A d \in Connections \ {c} : user'[d] = user[d],
         UNCHANGED <<setup, dispatching>>,
         CallTyped', \A q \in Objects \ {o} : ~(call'.doing = "create" /\ call'.of = q),
         Owns(o)', c # L!None => Closed(a) /\ \A p \in L!Proxies \cap new.held : user'[c][p] = o
  PROVE  LifetimeInv'
<1>0. /\ c \in Connections \cup {L!None} /\ ConnectionsAreOwn /\ L!EventsReachHolder
      /\ \A q \in Objects : L!Connection(q) \in Connections \cup {L!None}
  BY DEF LifetimeInv, LifetimeTyped, L!Connection
<1>1. LifetimeTyped'
  <2>1. objects' \in [Objects -> Object]  BY DEF LifetimeInv, LifetimeTyped, Object
  <2>2. alive' \in [Connections -> SUBSET (BackendHandles \cup {"leaked"})]
    BY <1>0 DEF LifetimeInv, LifetimeTyped
  <2> QED  BY <2>1, <2>2, SetupStays DEF LifetimeInv, LifetimeTyped, Object
<1>2. /\ objects'[o] = new /\ \A q \in Objects \ {o} : objects'[q] = objects[q]
      /\ \A d \in Connections \ {c} : alive'[d] = alive[d]
      /\ c # L!None => alive'[c] = a
  BY <1>0 DEF LifetimeInv, LifetimeTyped
<1>3. \A q \in Objects : L!Connection(q)' = L!Connection(q)  BY <1>2 DEF L!Connection
<1>4. \A q \in Objects \ {o} : L!Held(q)' = L!Held(q)  BY <1>2 DEF L!Held
<1>5. \A q \in Objects \ {o} : L!Connection(q) # L!None => L!Connection(q) \in Connections \ {c}
  BY <1>0 DEF ConnectionsAreOwn
<1>6. ConnectionsAreOwn'
  <2>1. \A d \in Connections : (\A q \in Objects : L!Connection(q)' # d) => alive'[d] = {}
    BY <1>0, <1>2, <1>3 DEF ConnectionsAreOwn
  <2> QED  BY <1>0, <1>3, <2>1 DEF ConnectionsAreOwn
<1>7. ASSUME NEW q \in Objects \ {o} PROVE Owns(q)'
  BY <1>2, <1>5, OthersOwn
<1>8. \A d \in Connections : Closed(alive[d])'
  <2>1. \A d \in Connections : Closed(alive'[d])  BY <1>0, <1>2 DEF LifetimeInv
  <2>2. \A s : Closed(s)' = Closed(s)  BY SetupStays
  <2> QED  BY <2>1, <2>2 DEF Closed
<1>9. L!EventsReachHolder'
  <2>1. ASSUME NEW q \in Objects, L!Connection(q) # L!None, NEW p \in L!Proxies \cap L!Held(q)'
        PROVE  user'[L!Connection(q)][p] = q
    <3>1. CASE q = o  BY <1>2, <2>1, <3>1 DEF L!Held
    <3>2. CASE q # o  BY <1>0, <1>4, <1>5, <2>1, <3>2 DEF L!EventsReachHolder
    <3> QED  BY <3>1, <3>2
  <2> QED  BY <1>3, <2>1 DEF L!EventsReachHolder
<1> QED  BY <1>1, <1>6, <1>7, <1>8, <1>9 DEF LifetimeInv

\* What createWindow() makes of a stage, all of it or the part before it throws, is held and exists.
LEMMA AcquireKeeps ==
  ASSUME L!ConnectionsAssumption, L!SetupsAssumption, LifetimeInv, L!Creating,
         NEW o, o = call.of, NEW c, c = L!Connection(o), NEW k, k = call.stage,
         NEW made \in SUBSET (BackendHandles \ {"listeners"}), NEW w \in {"asked", "made"},
         L!Acquire(o, made, w), UNCHANGED <<setup, dispatching>>,
         Closed(Made(k) \cup made),
         "connection" \in Made(k) \cup made \/ Made(k) \cup made = {},
         \/ call' = L!Idle
         \/ /\ call' = [call EXCEPT !.stage = @ + 1] /\ k + 1 \in 1 .. Len(L!Stages)
            /\ Made(k + 1) = Made(k) \cup made
  PROVE  LifetimeInv'
<1> DEFINE all == Made(k) \cup made
           new == [objects[o] EXCEPT !.held = @ \cup made, !.window = w]
<1>0. /\ o \in Objects /\ c \in Connections /\ objects[o].state = "live"
      /\ L!Held(o) \ {"listeners"} = Made(k) /\ alive[c] = Made(k)
      /\ {"listeners", "leaked"} \cap Made(k) = {} /\ objects[o] \in Object /\ k \in Nat
  BY Making DEF LifetimeInv, LifetimeTyped, Object
<1>1. /\ objects' = [objects EXCEPT ![o] = new]
      /\ alive' = [alive EXCEPT ![c] = @ \cup made]
      /\ user' = [user EXCEPT ![c] = [p \in L!Proxies |-> IF p \in made THEN o ELSE @[p]]]
  BY DEF L!Acquire
<1>n. c # L!None /\ {"listeners", "leaked"} \cap made = {}  BY <1>0, OrderedHandles DEF L!ConnectionsAssumption
<1>o. /\ new \in Object /\ new.state = "live" /\ new.window = w
      /\ new.held = L!Held(o) \cup made /\ new.connection = c
  BY <1>0 DEF Object, L!Held, L!Connection
<1> HIDE DEF new
<1>2. /\ alive' = [alive EXCEPT ![c] = all] /\ all \subseteq BackendHandles \cup {"leaked"}
      /\ user' \in [Connections -> [L!Proxies -> Objects \cup {L!None}]]
      /\ \A d \in Connections \ {c} : user'[d] = user[d]
  BY <1>0, <1>1 DEF LifetimeInv, LifetimeTyped
<1>3. objects'[o] = new /\ alive'[c] = all
  BY <1>0, <1>1 DEF LifetimeInv, LifetimeTyped
<1>4. L!Held(o)' = L!Held(o) \cup made /\ L!Connection(o)' = c  BY <1>o, <1>3 DEF L!Held, L!Connection
<1>6. CallTyped'
  <2>1. CASE call' = L!Idle  BY <2>1 DEF CallTyped
  <2>2. CASE call' = [call EXCEPT !.stage = @ + 1] /\ k + 1 \in 1 .. Len(L!Stages)
    <3>1. call = [L!Idle EXCEPT !.of = call.of, !.doing = "create", !.stage = call.stage]
      BY DEF LifetimeInv, CallTyped, L!Creating, L!Destroying, L!Idle
    <3>2. call' = [L!Idle EXCEPT !.of = call'.of, !.doing = "create", !.stage = call'.stage]
          /\ call'.of = o /\ call'.stage = k + 1 /\ call'.doing = "create"
      BY <2>2, <3>1 DEF L!Idle
    <3>3. L!Stages' = L!Stages  BY SetupStays
    <3> QED  BY <1>0, <2>2, <3>2, <3>3 DEF CallTyped, L!Creating
  <2> QED  BY <2>1, <2>2
<1>7. Owns(o)'
  <2>1. L!Held(o)' \ {"listeners"} = all  BY <1>0, <1>4, <1>n
  <2>2. alive'[c] \ {"leaked"} = all  BY <1>0, <1>3, <1>n
  <2>3. CASE call' = L!Idle
    <3>1. call'.doing # "create"  BY <2>3 DEF L!Idle
    <3> QED  BY <1>3, <1>4, <1>o, <1>n, <1>0, <2>1, <2>2, <3>1 DEF Owns, L!Creating
  <2>4. CASE call' = [call EXCEPT !.stage = @ + 1] /\ Made(k + 1) = all
    <3>1. call'.stage = k + 1
      BY <2>4 DEF LifetimeInv, CallTyped, L!Creating, L!Destroying, L!Idle
    <3>2. Made(k + 1)' = all  BY <2>4, SetupStays
    <3>3. Made(call.stage)' = all  BY <3>1, <3>2, Zenon
    <3> QED  BY <1>3, <1>4, <1>o, <1>n, <1>0, <2>1, <2>2, <3>3 DEF Owns
  <2> QED  BY <2>3, <2>4
<1>8. \A q \in Objects \ {o} : ~(call'.doing = "create" /\ call'.of = q)
  <2>1. CASE call' = L!Idle  BY <2>1 DEF L!Idle
  <2>2. CASE call' = [call EXCEPT !.stage = @ + 1]
    <3>1. call'.of = call.of  BY <2>2 DEF LifetimeInv, CallTyped, L!Creating, L!Destroying, L!Idle
    <3> QED  BY <3>1
  <2> QED  BY <2>1, <2>2
<1>9. \A p \in L!Proxies \cap new.held : user'[c][p] = o
  BY <1>0, <1>1, <1>o, <1>n DEF L!EventsReachHolder, LifetimeInv, LifetimeTyped
<1> QED  BY <1>0, <1>1, <1>2, <1>6, <1>7, <1>8, <1>9, <1>o, <1>n, OneChanges, ZenonT(60)

\* A stage succeeds.
LEMMA MakeKeeps ==
  ASSUME L!ConnectionsAssumption, L!SetupsAssumption, LifetimeInv, L!Make
  PROVE  LifetimeInv'
<1>1. PICK o, c, k : o = call.of /\ c = L!Connection(o) /\ k = call.stage  OBVIOUS
<1> DEFINE made == L!Stages[k].make \ setup.missing
<1>2. /\ k \in 1 .. Len(L!Stages) /\ Len(L!Stages) \in Nat /\ setup \in LifetimeSetups /\ L!Current = L!Stages[k] /\ L!Creating
  BY <1>1, Making DEF L!Make
<1>3. /\ Closed(Made(k) \cup (L!Stages[k].make \ (setup.missing \cup {})))
      /\ made \subseteq BackendHandles \ {"listeners"}
      /\ "connection" \in Made(k) \cup L!Stages[k].make
  BY <1>2, StageCloses
<1>4. Closed(Made(k) \cup made)
  <2>1. setup.missing \cup {} = setup.missing  OBVIOUS
  <2> QED  BY <1>3, <2>1
<1>5. "connection" \in Made(k) \cup made  BY <1>2, <1>3 DEF L!SetupsAssumption, L!Optional
<1>6. Made(k + 1) = Made(k) \cup made  BY <1>2, MadeStepwise
<1>7. PICK w \in {"asked", "made"} : L!Acquire(o, made, w)
  <2>1. L!Acquire(o, L!Current.make \ setup.missing, IF L!AtLast THEN "made" ELSE "asked")  BY <1>1 DEF L!Make
  <2> QED  BY <1>2, <2>1
<1>8. UNCHANGED <<setup, dispatching>>  BY DEF L!Make
<1>9. \/ call' = L!Idle
      \/ call' = [call EXCEPT !.stage = @ + 1] /\ k + 1 \in 1 .. Len(L!Stages)
  BY <1>1, <1>2 DEF L!Make, L!AtLast
<1> HIDE DEF made
<1> QED  BY <1>1, <1>2, <1>3, <1>4, <1>5, <1>6, <1>7, <1>8, <1>9, AcquireKeeps

\* createWindow() throws.
LEMMA ThrowKeeps ==
  ASSUME L!ConnectionsAssumption, L!SetupsAssumption, LifetimeInv, L!Throw
  PROVE  LifetimeInv'
<1>1. PICK o, c, k : o = call.of /\ c = L!Connection(o) /\ k = call.stage  OBVIOUS
<1>2. /\ k \in 1 .. Len(L!Stages) /\ Len(L!Stages) \in {3, 4} /\ setup \in LifetimeSetups /\ L!Current = L!Stages[k] /\ L!Creating
      /\ o \in Objects /\ c \in Connections /\ objects[o].state = "live" /\ objects[o].window # "none"
      /\ L!Held(o) \ {"listeners"} = Made(k) /\ alive[c] = Made(k) /\ Made(k) \subseteq BackendHandles \ {"listeners"}
      /\ {"listeners", "leaked"} \cap Made(k) = {} /\ c # L!None
  BY <1>1, Making DEF L!Throw, L!ConnectionsAssumption
<1>3. call' = L!Idle /\ UNCHANGED <<setup, dispatching>>  BY DEF L!Throw
<1>4. CASE L!ThrowHolding
  <2>1. PICK lacking \in L!Stages[k].lacks : L!Acquire(o, L!Stages[k].make \ (setup.missing \cup lacking), "asked")
    BY <1>1, <1>2, <1>4 DEF L!ThrowHolding
  <2> DEFINE made == L!Stages[k].make \ (setup.missing \cup lacking)
  <2>2. L!Wayland \/ "window" \notin L!Stages[k].make  BY <1>2, <1>4 DEF L!ThrowHolding
  <2>3. /\ Closed(Made(k) \cup made) /\ made \subseteq BackendHandles \ {"listeners"}
        /\ k # 1 => "connection" \in Made(k)
        /\ k = 1 => L!Stages[k].make = {"connection"}
    BY <1>2, <2>2, StageCloses
  <2>4. "connection" \in Made(k) \cup made \/ Made(k) \cup made = {}
    <3>1. Made(1) = {}  BY <1>2, MadeStepwise
    <3> QED  BY <2>3, <3>1
  <2>5. L!Acquire(o, made, "asked")  BY <2>1
  <2> HIDE DEF made
  <2> QED  BY <1>1, <1>2, <1>3, <2>3, <2>4, <2>5, AcquireKeeps
<1>5. CASE L!ThrowClosing \/ L!ThrowLate
  <2>1. PICK h, a : /\ objects' = [objects EXCEPT ![o].held = h] /\ h \subseteq BackendHandles
                    /\ alive' = [alive EXCEPT ![c] = a] /\ user' = user
                    /\ \/ h = L!Held(o) /\ "connection" \in h /\ a = Made(k) \cup {"leaked"}
                       \/ h \subseteq {"listeners", "window", "colormap"} /\ a = {}
    <3>1. CASE L!ThrowClosing
      <4>1. ~L!Wayland /\ "window" \in L!Stages[k].make  BY <1>2, <3>1 DEF L!ThrowClosing
      <4>2. Made(2) = {"connection"}
        <5>1. Made(1) = {} /\ Made(1 + 1) = Made(1) \cup (L!Stages[1].make \ setup.missing)
          BY <1>2, MadeStepwise
        <5> QED  BY <1>2, <4>1, <5>1, X11StagesAre DEF L!Stage, L!SetupsAssumption, L!Optional
      <4>3. k = 2 /\ L!Stages[k].make \subseteq {"window", "colormap"}
        BY <1>2, <4>1, X11StagesAre DEF L!Stage
      <4>4. PICK lacking \in L!Stages[k].lacks :
              objects' = [objects EXCEPT ![o].held = (@ \cup L!Stages[k].make) \ ({"connection"} \cup lacking)]
        BY <1>1, <1>2, <3>1 DEF L!ThrowClosing
      <4>5. alive' = [alive EXCEPT ![c] = L!Disconnected(@)] /\ user' = user  BY <1>1, <3>1 DEF L!ThrowClosing
      <4>6. L!Disconnected(alive[c]) = {}  BY <1>2, <4>2, <4>3 DEF L!Disconnected
      <4> DEFINE h == (L!Held(o) \cup L!Stages[k].make) \ ({"connection"} \cup lacking)
      <4>7. h \subseteq {"listeners", "window", "colormap"} /\ h \subseteq BackendHandles
        BY <1>2, <4>1, <4>2, <4>3, OrderedHandles
      <4>8. objects' = [objects EXCEPT ![o].held = h]  BY <1>2, <4>4 DEF L!Held
      <4>9. alive' = [alive EXCEPT ![c] = {}]  BY <1>2, <4>5, <4>6 DEF LifetimeInv, LifetimeTyped
      <4> HIDE DEF h
      <4> QED  BY <4>5, <4>7, <4>8, <4>9
    <3>2. CASE L!ThrowLate
      <4>1. "egl" \in L!Stages[k].make  BY <1>2, <3>2 DEF L!ThrowLate
      <4>2. L!Wayland /\ k # 1
        BY <1>2, <4>1, WaylandStagesAre, X11StagesAre DEF L!Stage
      <4>3. "connection" \in Made(k)  BY <1>2, <4>2, StageCloses
      <4>4. "connection" \in L!Held(o) /\ L!Held(o) \subseteq BackendHandles
        BY <1>2, <4>3 DEF LifetimeInv, LifetimeTyped, L!Held
      <4>5. objects' = [objects EXCEPT ![o].held = L!Held(o)] /\ user' = user
        BY <1>2, <3>2 DEF L!ThrowLate, LifetimeInv, LifetimeTyped, L!Held
      <4>6. alive' = [alive EXCEPT ![c] = Made(k) \cup {"leaked"}]
        BY <1>1, <1>2, <3>2 DEF L!ThrowLate, LifetimeInv, LifetimeTyped
      <4> QED  BY <4>4, <4>5, <4>6
    <3> QED  BY <1>5, <3>1, <3>2
  <2> DEFINE new == [objects[o] EXCEPT !.held = h]
  <2>2. objects' = [objects EXCEPT ![o] = new]  BY <2>1
  <2>3. /\ new \in Object /\ new.state = "live" /\ new.window # "none" /\ new.held = h /\ new.connection = c
    <3>1. objects[o] \in Object /\ objects[o].connection = c /\ h \in SUBSET BackendHandles
      BY <1>1, <1>2, <2>1 DEF LifetimeInv, LifetimeTyped, Object, L!Connection
    <3> QED  BY <1>2, <3>1 DEF Object
  <2> HIDE DEF new
  <2>4. a \in SUBSET (BackendHandles \cup {"leaked"}) /\ Closed(a)
    BY <1>2, <2>1 DEF LifetimeInv, Closed
  <2>5. objects'[o] = new /\ alive'[c] = a  BY <1>2, <2>1, <2>2 DEF LifetimeInv, LifetimeTyped
  <2>6. CallTyped' /\ call'.doing # "create"  BY <1>3 DEF CallTyped, L!Idle
  <2>7. Owns(o)'
    <3>1. L!Connection(o)' = c /\ L!Held(o)' = h  BY <2>3, <2>5 DEF L!Connection, L!Held
    <3> QED  BY <1>2, <2>1, <2>3, <2>5, <2>6, <3>1 DEF Owns, L!Creating
  <2>8. \A p \in L!Proxies \cap new.held : user'[c][p] = o
    <3>1. CASE h = L!Held(o)  BY <1>1, <1>2, <2>1, <2>3, <3>1 DEF LifetimeInv, L!EventsReachHolder
    <3>2. CASE h \subseteq {"listeners", "window", "colormap"}  BY <2>3, <3>2 DEF L!Proxies
    <3> QED  BY <2>1, <3>1, <3>2
  <2>9. user' \in [Connections -> [L!Proxies -> Objects \cup {L!None}]]  BY <2>1 DEF LifetimeInv, LifetimeTyped
  <2> QED  BY <1>1, <1>2, <1>3, <2>1, <2>2, <2>3, <2>4, <2>6, <2>7, <2>8, <2>9, OneChanges
<1> QED  BY <1>4, <1>5 DEF L!Throw

\* A frame callback, or the slots of X11, come and go over what they need.
LEMMA DrawKeeps ==
  ASSUME L!ConnectionsAssumption, LifetimeInv, NEW o \in Objects, L!Draw(o)
  PROVE  LifetimeInv'
<1> DEFINE h == IF L!Wayland THEN "frame" ELSE "slots"
           over == IF L!Wayland THEN "pool" ELSE "gc"
           new == [objects[o] EXCEPT !.held = @ \cup {h}]
<1>1. PICK c : c = L!Connection(o)  OBVIOUS
<1>2. /\ over \in L!Held(o) /\ objects' = [objects EXCEPT ![o] = new]
      /\ alive' = [alive EXCEPT ![c] = @ \cup {h}]
      /\ user' = IF L!Wayland THEN [user EXCEPT ![c]["frame"] = o] ELSE user
      /\ UNCHANGED <<setup, call, dispatching>> /\ call = L!Idle
  BY <1>1 DEF L!Draw, L!Free
<1>3. /\ c \in Connections /\ "connection" \in L!Held(o) /\ alive[c] \ {"leaked"} = L!Held(o) \ {"listeners"}
      /\ objects[o].state = "live" /\ objects[o].window # "none"
  BY <1>1, <1>2, Connected
<1>4. c # L!None /\ objects[o] \in Object  BY <1>3 DEF L!ConnectionsAssumption, LifetimeInv, LifetimeTyped, Object
<1>5. h \in BackendHandles /\ h \notin {"listeners", "leaked"}  BY OrderedHandles
<1>6. Requires(h) \subseteq alive[c]
  <2>1. over \in alive[c] \ {"method", "leaked"}  BY <1>2, <1>3
  <2>2. Requires(over) \subseteq alive[c]  BY <1>3, <2>1 DEF LifetimeInv, Closed
  <2> QED  BY <2>1, <2>2 DEF Requires, L!Needs
<1>7. Closed(alive[c] \cup {h})  BY <1>3, <1>6 DEF LifetimeInv, Closed
<1>8. /\ new \in Object /\ new.state = "live" /\ new.window # "none" /\ new.held = L!Held(o) \cup {h} /\ new.connection = c
  BY <1>1, <1>3, <1>4, <1>5 DEF Object, L!Held, L!Connection
<1> HIDE DEF h, over, new
<1>9. /\ alive' = [alive EXCEPT ![c] = alive[c] \cup {h}] /\ alive'[c] = alive[c] \cup {h}
      /\ alive[c] \cup {h} \in SUBSET (BackendHandles \cup {"leaked"}) /\ objects'[o] = new
  BY <1>2, <1>3, <1>5 DEF LifetimeInv, LifetimeTyped
<1>10. CallTyped' /\ call'.doing # "create"  BY <1>2 DEF CallTyped, L!Idle
<1>11. Owns(o)'
  <2>1. L!Connection(o)' = c /\ L!Held(o)' = L!Held(o) \cup {h}  BY <1>8, <1>9 DEF L!Connection, L!Held
  <2> QED  BY <1>3, <1>4, <1>5, <1>8, <1>9, <1>10, <2>1 DEF Owns, L!Creating
<1>12. /\ user' \in [Connections -> [L!Proxies -> Objects \cup {L!None}]]
       /\ \A d \in Connections \ {c} : user'[d] = user[d]
       /\ \A p \in L!Proxies \cap new.held : user'[c][p] = o
  <2>1. user \in [Connections -> [L!Proxies -> Objects \cup {L!None}]]  BY DEF LifetimeInv, LifetimeTyped
  <2>2. \A p \in L!Proxies \cap L!Held(o) : user[c][p] = o  BY <1>1, <1>4 DEF LifetimeInv, L!EventsReachHolder
  <2>3. CASE L!Wayland
    <3>1. "frame" \in L!Proxies  BY DEF L!Proxies
    <3> QED  BY <1>2, <1>3, <1>8, <2>1, <2>2, <2>3, <3>1 DEF h
  <2>4. CASE ~L!Wayland
    <3>1. "slots" \notin L!Proxies  BY DEF L!Proxies
    <3> QED  BY <1>2, <1>3, <1>8, <2>1, <2>2, <2>4, <3>1 DEF h
  <2> QED  BY <2>3, <2>4
<1> QED  BY <1>1, <1>2, <1>4, <1>7, <1>8, <1>9, <1>10, <1>11, <1>12, OneChanges, ZenonT(60)

\* The compositor's frame callback is done.
LEMMA FrameDoneKeeps ==
  ASSUME L!ConnectionsAssumption, LifetimeInv, NEW o \in Objects, L!FrameDone(o)
  PROVE  LifetimeInv'
<1> DEFINE new == [objects[o] EXCEPT !.held = @ \ {"frame"}]
<1>1. PICK c : c = L!Connection(o)  OBVIOUS
<1>2. /\ "frame" \in L!Held(o) /\ objects' = [objects EXCEPT ![user[c]["frame"]].held = @ \ {"frame"}]
      /\ alive' = [alive EXCEPT ![c] = @ \ {"frame"}]
      /\ UNCHANGED <<setup, user, call, dispatching>> /\ call = L!Idle
  BY <1>1 DEF L!FrameDone, L!Free
<1>3. /\ c \in Connections /\ "connection" \in L!Held(o) /\ alive[c] \ {"leaked"} = L!Held(o) \ {"listeners"}
      /\ objects[o].state = "live" /\ objects[o].window # "none"
  BY <1>1, <1>2, Connected
<1>4. c # L!None /\ objects[o] \in Object  BY <1>3 DEF L!ConnectionsAssumption, LifetimeInv, LifetimeTyped, Object
<1>5. \A p \in L!Proxies \cap L!Held(o) : user[c][p] = o  BY <1>1, <1>4 DEF LifetimeInv, L!EventsReachHolder
<1>6. user[c]["frame"] = o  BY <1>2, <1>5 DEF L!Proxies
<1>7. \A h : "frame" \notin Requires(h)  BY DEF Requires, L!Needs
<1>8. Closed(alive[c] \ {"frame"})  BY <1>3, <1>7 DEF LifetimeInv, Closed
<1>9. /\ new \in Object /\ new.state = "live" /\ new.window # "none" /\ new.held = L!Held(o) \ {"frame"} /\ new.connection = c
  BY <1>1, <1>3, <1>4 DEF Object, L!Held, L!Connection
<1>10. objects' = [objects EXCEPT ![o] = new]  BY <1>2, <1>6
<1> HIDE DEF new
<1>11. /\ alive' = [alive EXCEPT ![c] = alive[c] \ {"frame"}] /\ alive'[c] = alive[c] \ {"frame"}
       /\ alive[c] \ {"frame"} \in SUBSET (BackendHandles \cup {"leaked"}) /\ objects'[o] = new
  BY <1>2, <1>3, <1>10 DEF LifetimeInv, LifetimeTyped
<1>12. CallTyped' /\ call'.doing # "create"  BY <1>2 DEF CallTyped, L!Idle
<1>13. Owns(o)'
  <2>1. L!Connection(o)' = c /\ L!Held(o)' = L!Held(o) \ {"frame"}  BY <1>9, <1>11 DEF L!Connection, L!Held
  <2> QED  BY <1>3, <1>4, <1>9, <1>11, <1>12, <2>1 DEF Owns, L!Creating
<1>14. user' \in [Connections -> [L!Proxies -> Objects \cup {L!None}]]  BY <1>2 DEF LifetimeInv, LifetimeTyped
<1>15. \A p \in L!Proxies \cap new.held : user'[c][p] = o  BY <1>2, <1>5, <1>9
<1>16. \A q \in Objects \ {o} : ~(call'.doing = "create" /\ call'.of = q)  BY <1>12
<1> QED  BY <1>1, <1>2, <1>4, <1>8, <1>9, <1>10, <1>11, <1>12, <1>13, <1>14, <1>15, <1>16, OneChanges, ZenonT(60)

\* destroy() releases a handle: nothing left needs it.
LEMMA ReleaseKeeps ==
  ASSUME L!ConnectionsAssumption, LifetimeInv, L!ReleaseNext
  PROVE  LifetimeInv'
<1>1. PICK o, c, left : o = call.of /\ c = L!Connection(o) /\ left = L!ToRelease(o)  OBVIOUS
<1>2. PICK i \in left :
        /\ \A j \in left : i <= j
        /\ objects' = [objects EXCEPT ![o].held = @ \ {L!DestroyOrder[i]}]
        /\ alive' = IF c = L!None THEN alive
                    ELSE [alive EXCEPT ![c] = IF L!DestroyOrder[i] = "connection" THEN L!Disconnected(@)
                                              ELSE @ \ {L!DestroyOrder[i]}]
  BY <1>1 DEF L!ReleaseNext
<1>3. UNCHANGED <<setup, user, call, dispatching>> /\ L!Destroying  BY DEF L!ReleaseNext
<1>4. /\ o \in Objects /\ objects[o] \in Object /\ c \in Connections \cup {L!None} /\ L!Held(o) \subseteq BackendHandles
      /\ call.doing = "destroy" /\ Owns(o)
  BY <1>1, <1>3 DEF LifetimeInv, LifetimeTyped, CallTyped, L!Destroying, L!Creating, L!Idle, Object, L!Connection, L!Held
<1> DEFINE new == [objects[o] EXCEPT !.held = @ \ {L!DestroyOrder[i]}]
           h == L!DestroyOrder[i]
           a == IF c = L!None THEN {} ELSE IF h = "connection" THEN L!Disconnected(alive[c]) ELSE alive[c] \ {h}
<1>5. /\ new \in Object /\ new.state = objects[o].state /\ new.window = objects[o].window
      /\ new.held = L!Held(o) \ {h} /\ new.connection = c
  BY <1>1, <1>4 DEF Object, L!Held, L!Connection
<1>6. objects' = [objects EXCEPT ![o] = new] /\ alive' = IF c = L!None THEN alive ELSE [alive EXCEPT ![c] = a]
  BY <1>2, <1>4 DEF LifetimeInv, LifetimeTyped
<1>7. i \in DOMAIN L!DestroyOrder /\ h \in L!Held(o) /\ (~L!Wayland => "connection" \in L!Held(o))
  BY <1>1, <1>2 DEF L!ToRelease
<1>8. \A g \in L!Held(o) : \A j \in DOMAIN L!DestroyOrder : g = L!DestroyOrder[j] => i <= j
  BY <1>1, <1>2, <1>7 DEF L!ToRelease
<1>9. \A g \in L!Held(o) \ {"listeners", "method", h} : h \notin Requires(g)
  <2>1. ASSUME NEW g \in L!Held(o) \ {"listeners", "method", h}
        PROVE  h \notin Requires(g)
    <3>1. PICK j \in DOMAIN L!DestroyOrder : g = L!DestroyOrder[j]
      BY <1>4, <2>1 DEF BackendHandles
    <3>2. i <= j /\ i # j  BY <1>8, <2>1, <3>1
    <3>3. i \in Nat /\ j \in Nat  BY <1>7, <3>1 DEF L!DestroyOrder
    <3>4. i < j  BY <3>2, <3>3
    <3> QED  BY <1>7, <3>1, <3>4, OrderedNeeds
  <2> QED  BY <2>1
<1>10. Requires("listeners") = {} /\ "connection" \in BackendHandles /\ "leaked" \notin BackendHandles
       /\ \A g \in BackendHandles \ {"listeners", "method", "connection"} : "connection" \in Requires(g)
  BY OrderedHandles DEF Requires, L!Needs
<1> HIDE DEF new, h
<1>11. objects'[o] = new /\ (c # L!None => alive'[c] = a)  BY <1>4, <1>6 DEF LifetimeInv, LifetimeTyped
<1>12. a \in SUBSET (BackendHandles \cup {"leaked"})
  BY <1>4 DEF LifetimeInv, LifetimeTyped, L!Disconnected
<1>13. CallTyped' /\ call'.doing # "create"
  <2>1. CallTyped /\ call' = call  BY <1>3 DEF LifetimeInv
  <2>2. \A q : objects'[q].state = objects[q].state \/ q = o  BY <1>4, <1>6 DEF LifetimeInv, LifetimeTyped
  <2>3. call.next = "adopt" => call.from # o  BY <2>1, <1>1, <1>4 DEF CallTyped, L!Creating, L!Destroying, L!Idle
  <2> QED  BY <1>1, <1>4, <2>1, <2>2, <2>3 DEF CallTyped, L!Creating, L!Destroying
<1>14. L!Connection(o)' = c /\ L!Held(o)' = L!Held(o) \ {h}  BY <1>5, <1>11 DEF L!Connection, L!Held
<1> DEFINE Owned == IF "connection" \in L!Held(o) \ {h} THEN a \ {"leaked"} = (L!Held(o) \ {h}) \ {"listeners"}
                    ELSE /\ a \subseteq (L!Held(o) \ {h}) \cap {"method"}
                         /\ L!Held(o) \ {h} \subseteq {"listeners", "method", "window", "colormap"}
<1>19. ASSUME c = L!None => L!Held(o) \ {h} \subseteq {"listeners"}, c # L!None => Owned
       PROVE  Owns(o)'
  <2>1. c # L!None => alive'[c] = a  BY <1>11
  <2>2. objects'[o].window = "none" \/ objects'[o].state # "live" => c = L!None  BY <1>1, <1>4, <1>5, <1>11 DEF Owns
  <2> HIDE DEF a
  <2> QED  BY <1>13, <1>14, <1>19, <2>1, <2>2 DEF Owns, L!Creating
<1>15. (c # L!None => Closed(a)) /\ Owns(o)'
  <2>0. /\ c = L!Connection(o)
        /\ objects[o].window = "none" \/ objects[o].state # "live" => c = L!None
        /\ c = L!None => L!Held(o) \subseteq {"listeners"}
    BY <1>1, <1>4 DEF Owns
  <2>1. CASE c = L!None
    BY <1>19, <2>0, <2>1
  <2>2. CASE c # L!None /\ "connection" \in L!Held(o)
    <3>1. alive[c] \ {"leaked"} = L!Held(o) \ {"listeners"} /\ Closed(alive[c])
      BY <1>1, <1>4, <2>2 DEF Owns, LifetimeInv
    <3>2. CASE h = "connection"
      <4>1. L!Held(o) \subseteq {"connection", "listeners", "method"}
        <5>1. ASSUME NEW g \in L!Held(o) \ {"connection", "listeners", "method"} PROVE FALSE
          BY <1>4, <1>9, <1>10, <3>2, <5>1
        <5> QED  BY <5>1
      <4>2. a \subseteq (L!Held(o) \ {h}) \cap {"method"}  BY <2>2, <3>1, <3>2 DEF L!Disconnected
      <4>3. Closed(a)  BY <4>2 DEF Closed
      <4>4. L!Held(o)' \subseteq {"listeners", "method"}  BY <1>14, <3>2, <4>1
      <4> QED  BY <1>14, <1>19, <2>2, <3>2, <4>2, <4>3, <4>4
    <3>3. CASE h # "connection"
      <4>1. a = alive[c] \ {h}  BY <2>2, <3>3
      <4>2. a \ {"leaked"} = (L!Held(o) \ {h}) \ {"listeners"}  BY <3>1, <4>1
      <4>3. Closed(a)
        <5>1. ASSUME NEW g \in a \ {"method", "leaked"} PROVE Requires(g) \subseteq a
          <6>1. g \in L!Held(o) \ {"listeners", "method", h}  BY <3>1, <4>1, <5>1
          <6>2. Requires(g) \subseteq alive[c]  BY <3>1, <4>1, <5>1 DEF Closed
          <6> QED  BY <1>9, <4>1, <6>1, <6>2
        <5> QED  BY <5>1 DEF Closed
      <4> QED  BY <1>19, <2>2, <3>3, <4>2, <4>3
    <3> QED  BY <3>2, <3>3
  <2>3. CASE c # L!None /\ "connection" \notin L!Held(o)
    <3>1. L!Wayland /\ h # "connection"  BY <1>7, <2>3
    <3>2. /\ alive[c] \subseteq L!Held(o) \cap {"method"}
          /\ L!Held(o) \subseteq {"listeners", "method", "window", "colormap"}
      BY <1>1, <1>4, <2>3 DEF Owns
    <3>3. "method" \notin L!Held(o)  BY <1>4, <3>1, OrderedHandles
    <3>4. a = {}  BY <2>3, <3>1, <3>2, <3>3
    <3>5. Closed(a)  BY <3>4 DEF Closed
    <3> QED  BY <1>19, <2>3, <3>2, <3>4, <3>5
  <2> QED  BY <2>1, <2>2, <2>3
<1>16. user' \in [Connections -> [L!Proxies -> Objects \cup {L!None}]] /\ user' = user
  BY <1>3 DEF LifetimeInv, LifetimeTyped
<1>17. c # L!None => \A p \in L!Proxies \cap new.held : user'[c][p] = o
  BY <1>1, <1>4, <1>5, <1>16 DEF LifetimeInv, L!EventsReachHolder
<1> HIDE DEF a
<1>18. \A q \in Objects \ {o} : ~(call'.doing = "create" /\ call'.of = q)  BY <1>13
<1> QED  BY <1>1, <1>3, <1>4, <1>5, <1>6, <1>12, <1>13, <1>15, <1>16, <1>17, <1>18, OneChanges

\* What is left of a manager that has been destroyed.
LEMMA Released ==
  ASSUME LifetimeInv, NEW o \in Objects, L!ToRelease(o) = {}
  PROVE  "connection" \notin L!Held(o)
<1>1. \E i \in DOMAIN L!DestroyOrder : L!DestroyOrder[i] = "connection"
  <2>1. CASE L!Wayland
    <3>1. 18 \in DOMAIN L!DestroyOrder /\ L!DestroyOrder[18] = "connection"  BY <2>1 DEF L!DestroyOrder
    <3> QED  BY <3>1
  <2>2. CASE ~L!Wayland
    <3>1. 8 \in DOMAIN L!DestroyOrder /\ L!DestroyOrder[8] = "connection"  BY <2>2 DEF L!DestroyOrder
    <3> QED  BY <3>1
  <2> QED  BY <2>1, <2>2
<1> QED  BY <1>1 DEF L!ToRelease

\* The input method goes with the object: nothing of its connection is left.
LEMMA NothingLeft ==
  ASSUME L!ConnectionsAssumption, LifetimeInv, NEW o \in Objects, "connection" \notin L!Held(o), alive' = L!WithoutMethod(o)
  PROVE  /\ alive' \in [Connections -> SUBSET (BackendHandles \cup {"leaked"})]
         /\ \A d \in Connections : alive'[d] = IF d = L!Connection(o) THEN {} ELSE alive[d]
<1>1. alive \in [Connections -> SUBSET (BackendHandles \cup {"leaked"})] /\ L!Connection(o) \in Connections \cup {L!None}
      /\ Owns(o)
  BY DEF LifetimeInv, LifetimeTyped, L!Connection
<1>2. CASE L!Connection(o) = L!None  BY <1>1, <1>2 DEF L!WithoutMethod, L!ConnectionsAssumption
<1>3. CASE L!Connection(o) # L!None
  <2>1. alive[L!Connection(o)] \subseteq {"method"}  BY <1>1, <1>3 DEF Owns
  <2> QED  BY <1>1, <1>3, <2>1 DEF L!WithoutMethod
<1> QED  BY <1>2, <1>3

\* The destructor after its destroy().
LEMMA DeleteKeeps ==
  ASSUME L!ConnectionsAssumption, LifetimeInv, NEW o \in Objects, "connection" \notin L!Held(o),
         objects' = [objects EXCEPT ![o] = L!Absent], alive' = L!WithoutMethod(o), call' = L!Idle,
         UNCHANGED <<setup, user, dispatching>>
  PROVE  LifetimeInv'
<1>1. L!Absent \in Object /\ L!Absent.connection = L!None /\ L!Absent.held = {} /\ L!Absent.state = "absent"
  BY DEF L!Absent, Object
<1>2. LifetimeTyped'
  <2>1. objects' \in [Objects -> Object]  BY <1>1 DEF LifetimeInv, LifetimeTyped, Object
  <2> QED  BY <2>1, NothingLeft, SetupStays DEF LifetimeInv, LifetimeTyped, Object
<1>3. /\ L!Connection(o)' = L!None /\ L!Held(o)' = {} /\ objects'[o].state = "absent"
      /\ \A q \in Objects \ {o} : objects'[q] = objects[q]
  BY <1>1 DEF LifetimeInv, LifetimeTyped, L!Connection, L!Held
<1>4. \A q \in Objects \ {o} : L!Connection(q)' = L!Connection(q) /\ L!Held(q)' = L!Held(q)
  BY <1>3 DEF L!Connection, L!Held
<1>5. ConnectionsAreOwn /\ L!EventsReachHolder /\ \A q \in Objects : L!Connection(q) \in Connections \cup {L!None}
  BY DEF LifetimeInv, LifetimeTyped, L!Connection
<1>6. ConnectionsAreOwn'
  <2>1. ASSUME NEW d \in Connections, \A q \in Objects : L!Connection(q)' # d PROVE alive'[d] = {}
    BY <1>4, <1>5, <2>1, NothingLeft DEF ConnectionsAreOwn
  <2>2. \A q \in Objects : \A r \in Objects \ {q} : L!Connection(q)' # L!None => L!Connection(q)' # L!Connection(r)'
    BY <1>3, <1>4, <1>5 DEF ConnectionsAreOwn
  <2> QED  BY <2>1, <2>2 DEF ConnectionsAreOwn
<1>7. call'.doing # "create" /\ CallTyped'  BY DEF L!Idle, CallTyped
<1>8. ASSUME NEW q \in Objects PROVE Owns(q)'
  <2>1. CASE q = o  BY <1>3, <1>7, <2>1 DEF Owns, L!Creating
  <2>2. CASE q # o
    <3>1. L!Connection(q) # L!None => alive'[L!Connection(q)] = alive[L!Connection(q)]
      BY <1>5, <2>2, NothingLeft DEF ConnectionsAreOwn
    <3> QED  BY <1>3, <1>7, <2>2, <3>1, OthersOwn
  <2> QED  BY <2>1, <2>2
<1>9. \A d \in Connections : Closed(alive[d])'
  <2>1. \A d \in Connections : Closed(alive'[d])  BY NothingLeft DEF LifetimeInv, Closed
  <2>2. \A s : Closed(s)' = Closed(s)  BY SetupStays
  <2> QED  BY <2>1, <2>2 DEF Closed
<1>10. L!EventsReachHolder'  BY <1>3, <1>4, <1>5 DEF L!EventsReachHolder
<1> QED  BY <1>2, <1>6, <1>7, <1>8, <1>9, <1>10 DEF LifetimeInv

\* A manager takes over what another one holds, and has the events sent to itself.
LEMMA AdoptKeeps ==
  ASSUME L!ConnectionsAssumption, LifetimeInv, NEW x \in Objects, NEW y \in Objects \ {x}, "connection" \notin L!Held(y),
         objects[x].state = "live", objects' = L!Adopted(x, y), user' = L!Rebound(x, y), alive' = L!WithoutMethod(y),
         call' = L!Idle, UNCHANGED <<setup, dispatching>>
  PROVE  LifetimeInv'
<1> DEFINE empty == L!MovedFrom(objects[x])
<1>1. objects \in [Objects -> Object] /\ user \in [Connections -> [L!Proxies -> Objects \cup {L!None}]]
  BY DEF LifetimeInv, LifetimeTyped, Object
<1>2. /\ empty \in Object /\ empty.connection = L!None /\ empty.held = {} /\ empty.state = "moved"
      /\ empty.window = objects[x].window
  BY <1>1 DEF L!MovedFrom, Object
<1> HIDE DEF empty
<1>3. /\ objects' \in [Objects -> Object]
      /\ objects'[x] = empty /\ objects'[y] = objects[x] /\ \A q \in Objects \ {x, y} : objects'[q] = objects[q]
  <2>1. objects' = [objects EXCEPT ![y] = objects[x], ![x] = empty]  BY DEF L!Adopted, empty
  <2> QED  BY <1>1, <1>2, <2>1
<1>4. PICK c : c = L!Connection(x)  OBVIOUS
<1>5. /\ ConnectionsAreOwn /\ L!EventsReachHolder /\ \A q \in Objects : L!Connection(q) \in Connections \cup {L!None}
  BY DEF LifetimeInv, LifetimeTyped, L!Connection
<1>6. /\ L!Connection(x)' = L!None /\ L!Held(x)' = {} /\ L!Connection(y)' = c /\ L!Held(y)' = L!Held(x)
      /\ \A q \in Objects \ {x, y} : L!Connection(q)' = L!Connection(q) /\ L!Held(q)' = L!Held(q)
  BY <1>2, <1>3, <1>4 DEF L!Connection, L!Held
<1>7. user' = IF c = L!None THEN user
              ELSE [user EXCEPT ![c] = [p \in L!Proxies |-> IF p \in L!Held(x) THEN y ELSE @[p]]]
  BY <1>4 DEF L!Rebound
<1>8. LifetimeTyped'
  <2>1. user' \in [Connections -> [L!Proxies -> Objects \cup {L!None}]]  BY <1>1, <1>4, <1>5, <1>7
  <2> QED  BY <1>3, <2>1, NothingLeft, SetupStays DEF LifetimeInv, LifetimeTyped, Object
<1>9. ConnectionsAreOwn'
  <2>1. ASSUME NEW d \in Connections, \A q \in Objects : L!Connection(q)' # d PROVE alive'[d] = {}
    <3>1. d # c /\ \A q \in Objects \ {x, y} : L!Connection(q) # d  BY <1>6, <2>1
    <3> QED  BY <1>4, <1>5, <3>1, NothingLeft DEF ConnectionsAreOwn
  <2>2. ASSUME NEW q \in Objects, NEW r \in Objects \ {q}, L!Connection(q)' # L!None PROVE L!Connection(q)' # L!Connection(r)'
    <3>1. q # x  BY <1>6, <2>2
    <3>2. CASE q = y  BY <1>4, <1>5, <1>6, <2>2, <3>2 DEF ConnectionsAreOwn
    <3>3. CASE q # y  BY <1>4, <1>5, <1>6, <2>2, <3>1, <3>3 DEF ConnectionsAreOwn
    <3> QED  BY <3>2, <3>3
  <2> QED  BY <2>1, <2>2 DEF ConnectionsAreOwn
<1>10. call'.doing # "create" /\ CallTyped'  BY DEF L!Idle, CallTyped
<1>11. \A q \in Objects \ {y} : L!Connection(q) # L!None => alive'[L!Connection(q)] = alive[L!Connection(q)]
  BY <1>5, NothingLeft DEF ConnectionsAreOwn
<1>12. ASSUME NEW q \in Objects PROVE Owns(q)'
  <2>1. CASE q = x  BY <1>6, <1>10, <2>1 DEF Owns, L!Creating
  <2>2. CASE q = y
    <3>1. Owns(x)  BY DEF LifetimeInv
    <3>2. c # L!None => alive'[c] = alive[c]  BY <1>4, <1>11
    <3> QED  BY <1>3, <1>4, <1>6, <1>10, <2>2, <3>1, <3>2 DEF Owns, L!Creating
  <2>3. CASE q \in Objects \ {x, y}  BY <1>3, <1>10, <1>11, <2>3, OthersOwn
  <2> QED  BY <2>1, <2>2, <2>3
<1>13. \A d \in Connections : Closed(alive[d])'
  <2>1. \A d \in Connections : Closed(alive'[d])  BY NothingLeft DEF LifetimeInv, Closed
  <2>2. \A s : Closed(s)' = Closed(s)  BY SetupStays
  <2> QED  BY <2>1, <2>2 DEF Closed
<1>14. L!EventsReachHolder'
  <2>1. ASSUME NEW q \in Objects, L!Connection(q)' # L!None, NEW p \in L!Proxies \cap L!Held(q)'
        PROVE  user'[L!Connection(q)'][p] = q
    <3>1. q # x  BY <1>6, <2>1
    <3>2. CASE q = y  BY <1>1, <1>4, <1>5, <1>6, <1>7, <2>1, <3>2
    <3>3. CASE q # y
      <4>1. L!Connection(q) \in Connections /\ L!Connection(q) # c
        BY <1>4, <1>5, <1>6, <2>1, <3>1, <3>3 DEF ConnectionsAreOwn
      <4>2. user'[L!Connection(q)] = user[L!Connection(q)]  BY <1>1, <1>7, <4>1
      <4> QED  BY <1>5, <1>6, <2>1, <3>1, <3>3, <4>2 DEF L!EventsReachHolder
    <3> QED  BY <3>2, <3>3
  <2> QED  BY <2>1 DEF L!EventsReachHolder
<1> QED  BY <1>8, <1>9, <1>10, <1>12, <1>13, <1>14 DEF LifetimeInv

\* destroy() has released everything; the call it was part of goes on.
LEMMA DestroyReturnsKeeps ==
  ASSUME L!ConnectionsAssumption, LifetimeInv, L!DestroyReturns
  PROVE  LifetimeInv'
<1>1. PICK o, from : o = call.of /\ from = call.from  OBVIOUS
<1>2. /\ o \in Objects /\ call.next \in {"nothing", "delete", "adopt"}
      /\ call.next = "adopt" => from \in Objects \ {o} /\ objects[from].state = "live"
  BY <1>1 DEF L!DestroyReturns, LifetimeInv, CallTyped, L!Creating, L!Destroying, L!Idle
<1>3. L!ToRelease(o) = {} /\ call' = L!Idle /\ UNCHANGED <<setup, dispatching>>  BY <1>1 DEF L!DestroyReturns
<1>4. "connection" \notin L!Held(o)  BY <1>2, <1>3, Released
<1>5. CASE call.next = "nothing"
  <2>1. UNCHANGED <<objects, alive, user>>  BY <1>5 DEF L!DestroyReturns
  <2>2. CallTyped' /\ call'.doing # "create"  BY <1>3 DEF CallTyped, L!Idle
  <2> QED  BY <1>3, <2>1, <2>2, CallKeeps DEF LifetimeInv, LifetimeTyped
<1>6. CASE call.next = "delete"
  <2>1. objects' = [objects EXCEPT ![o] = L!Absent] /\ alive' = L!WithoutMethod(o) /\ user' = user
    BY <1>1, <1>6 DEF L!DestroyReturns
  <2> QED  BY <1>2, <1>3, <1>4, <2>1, DeleteKeeps
<1>7. CASE call.next = "adopt"
  <2>1. objects' = L!Adopted(from, o) /\ alive' = L!WithoutMethod(o) /\ user' = L!Rebound(from, o)
    BY <1>1, <1>7 DEF L!DestroyReturns
  <2> QED  BY <1>2, <1>3, <1>4, <1>7, <2>1, AdoptKeeps
<1> QED  BY <1>2, <1>5, <1>6, <1>7

\* A move into a new object is a move into one that holds nothing.
LEMMA MoveConstructKeeps ==
  ASSUME L!ConnectionsAssumption, LifetimeInv, NEW x \in Objects, NEW y \in Objects, L!MoveConstruct(x, y)
  PROVE  LifetimeInv'
<1>1. /\ objects[x].state = "live" /\ objects[y].state = "absent" /\ call' = L!Idle
      /\ objects' = L!Adopted(x, y) /\ user' = L!Rebound(x, y) /\ UNCHANGED <<setup, alive, dispatching>>
  BY DEF L!MoveConstruct, L!Free
<1>2. L!Connection(y) = L!None /\ L!Held(y) \subseteq {"listeners"}  BY <1>1 DEF LifetimeInv, Owns
<1>3. alive' = L!WithoutMethod(y)  BY <1>1, <1>2 DEF L!WithoutMethod
<1> QED  BY <1>1, <1>2, <1>3, AdoptKeeps

\* Every step keeps the invariant.
LEMMA LifetimeInvKept ==
  ASSUME L!ConnectionsAssumption, L!SetupsAssumption, LifetimeInv, [L!Next]_L!vars
  PROVE  LifetimeInv'
<1>1. CASE UNCHANGED L!vars
  <2>1. CallTyped'  BY <1>1 DEF L!vars, CallTyped, LifetimeInv, L!Creating, L!Destroying, L!Stages, L!WaylandStages, L!X11Stages, L!Wayland
  <2> QED  BY <1>1, <2>1, CallKeeps DEF L!vars, LifetimeInv, LifetimeTyped
<1>2. CASE L!Next
  <2>1. ASSUME NEW o \in Objects,
               \/ L!Construct(o) \/ L!CreateWindow(o) \/ L!Draw(o) \/ L!FrameDone(o) \/ L!Destroy(o) \/ L!Delete(o) \/ L!Dispatch(o)
               \/ \E p \in Objects : L!MoveAssign(o, p) \/ L!MoveConstruct(o, p)
        PROVE  LifetimeInv'
    BY <2>1, ConstructKeeps, CreateKeeps, DrawKeeps, FrameDoneKeeps, BeginKeeps, MoveConstructKeeps
  <2>2. CASE L!Make \/ L!Throw \/ L!ReleaseNext \/ L!DestroyReturns
    BY <2>2, MakeKeeps, ThrowKeeps, ReleaseKeeps, DestroyReturnsKeeps
  <2>3. CASE L!CallbackReturns
    <3>1. dispatching \in Objects  BY <2>3 DEF L!CallbackReturns, LifetimeInv, LifetimeTyped
    <3> QED  BY <2>3, <3>1, BeginKeeps
  <2> QED  BY <1>2, <2>1, <2>2, <2>3 DEF L!Next
<1> QED  BY <1>1, <1>2

\* What the runs check of a window manager follows.
LEMMA LifetimeInvImplies ==
  ASSUME L!ConnectionsAssumption, LifetimeInv
  PROVE  L!TypeOK /\ L!HandlesAreLive /\ L!EventsReachHolder
<1>1. /\ objects \in [Objects -> Object] /\ alive \in [Connections -> SUBSET (BackendHandles \cup {"leaked"})]
      /\ ConnectionsAreOwn /\ \A o \in Objects : Owns(o)
      /\ \A o \in Objects : L!Connection(o) \in Connections \cup {L!None} /\ L!Held(o) \subseteq BackendHandles
  BY DEF LifetimeInv, LifetimeTyped, Object, L!Connection, L!Held
<1>2. L!TypeOK
  <2>1. L!Handles \cup {"listeners"} = BackendHandles \cup {"method", "leaked", "listeners"}
        /\ (L!Wayland => "listeners" \in L!Handles)
    <3>1. BackendHandles \cup {"method", "leaked", "listeners"}
            = {L!DestroyOrder[i] : i \in DOMAIN L!DestroyOrder} \cup {"method", "leaked", "listeners"}
      BY DEF BackendHandles
    <3>2. "listeners" \in BackendHandles  BY OrderedHandles
    <3> QED  BY <3>1, <3>2 DEF L!Handles, BackendHandles
  <2>2. ASSUME NEW c \in Connections PROVE "listeners" \notin alive[c]
    <3>1. CASE \A o \in Objects : L!Connection(o) # c  BY <1>1, <3>1 DEF ConnectionsAreOwn
    <3>2. ASSUME NEW o \in Objects, L!Connection(o) = c PROVE "listeners" \notin alive[c]
      BY <1>1, <3>2 DEF Owns, L!ConnectionsAssumption
    <3> QED  BY <3>1, <3>2
  <2> QED  BY <1>1, <2>1, <2>2 DEF L!TypeOK, LifetimeInv, LifetimeTyped, Object
<1>3. L!HandlesAreLive
  <2>1. \A c \in Connections : \A h \in alive[c] \ {"method", "leaked"} : L!Needs(h) \subseteq alive[c]
    <3>1. \A h : L!Needs(h) \subseteq Requires(h)  BY DEF Requires, L!Needs
    <3> QED  BY <3>1 DEF LifetimeInv, Closed
  <2>2. ASSUME NEW o \in Objects, "connection" \in L!Held(o) PROVE L!Held(o) \ {"listeners"} \subseteq alive[L!Connection(o)]
    BY <1>1, <2>2 DEF Owns
  <2>3. ASSUME NEW c \in Connections, NEW h \in alive[c] \ {"leaked"}
        PROVE  \E o \in Objects : L!Connection(o) = c /\ h \in L!Held(o) /\ \A p \in Objects \ {o} : L!Connection(p) # c
    <3>1. PICK o \in Objects : L!Connection(o) = c  BY <1>1, <2>3 DEF ConnectionsAreOwn
    <3>2. c # L!None  BY DEF L!ConnectionsAssumption
    <3>3. h \in L!Held(o)  BY <1>1, <2>3, <3>1, <3>2 DEF Owns
    <3>4. \A p \in Objects \ {o} : L!Connection(p) # c  BY <1>1, <3>1, <3>2 DEF ConnectionsAreOwn
    <3> QED  BY <3>1, <3>3, <3>4
  <2> QED  BY <2>1, <2>2, <2>3 DEF L!HandlesAreLive
<1> QED  BY <1>2, <1>3 DEF LifetimeInv

-----------------------------------------------------------------------------
(***************************************************************************)
(* WindowState.                                                            *)
(*                                                                         *)
(* The argument: the events on their way are a path. What the client       *)
(* becomes when it handles them, one after the other, is what the server   *)
(* decided last; so when none is left it is that already. What is told     *)
(* apart from the events (a request to close, a resize not yet taken) is   *)
(* on its way or there.                                                    *)
(***************************************************************************)

\* What the client has taken in, and what it will have taken in when it has handled every event.
Configured == [size : Sizes \cup {W!Unset}, maximized : BOOLEAN, floating : BOOLEAN, served : BOOLEAN]
Clients == [size : Sizes, maximized : BOOLEAN, served : BOOLEAN, floating : Sizes, pending : Configured]

\* The client as the window manager has it.
Client ==
  [size |-> window.size, maximized |-> W!Wayland /\ window.maximized, served |-> window.served,
   floating |-> floating, pending |-> pending]

\* The client as it will be.
Agreed ==
  [size |-> server.size, maximized |-> W!Wayland /\ server.state = "maximized", served |-> server.served,
   floating |-> server.floating,
   pending |-> [size |-> W!Unset, maximized |-> W!Wayland /\ server.state = "maximized",
                floating |-> W!Wayland => server.state = "floating", served |-> server.served]]

\* The events of each server.
WaylandEvents ==
  [is : {"toplevel"}, size : Sizes \cup {W!Unset}, state : W!States] \cup [is : {"decoration"}, served : BOOLEAN]
  \cup [is : {"surface"}] \cup [is : {"close"}]
X11Events == [is : {"configured"}, size : Sizes] \cup [is : {"property"}] \cup [is : {"close"}]
\* What the server of the setup sends.
Sendable == IF W!Wayland THEN WaylandEvents ELSE X11Events
AllEvents == WaylandEvents \cup X11Events

\* What a client is after one event.
Grants(c) == IF c.pending.size # W!Unset THEN c.pending.size ELSE IF c.pending.floating THEN c.floating ELSE c.size
\* What the client is after one more event.
ClientAfter(c, e) ==
  CASE e.is = "toplevel" ->
         [c EXCEPT !.pending = [size |-> e.size, maximized |-> e.state = "maximized",
                                floating |-> e.state = "floating", served |-> c.pending.served]]
    [] e.is = "decoration" ->
         [c EXCEPT !.pending = [size |-> c.pending.size, maximized |-> c.pending.maximized,
                                floating |-> c.pending.floating, served |-> e.served]]
    [] e.is = "surface" ->
         [size |-> Grants(c), maximized |-> c.pending.maximized, served |-> c.pending.served,
          floating |-> IF c.pending.floating THEN Grants(c) ELSE c.floating,
          pending |-> [size |-> W!Unset, maximized |-> c.pending.maximized,
                       floating |-> c.pending.floating, served |-> c.pending.served]]
    [] e.is = "configured" -> [c EXCEPT !.size = e.size]
    [] OTHER -> c

\* The events of s lead from c to d.
Leads(s, c, d) ==
  \E f \in [0 .. Len(s) -> Clients] :
    f[0] = c /\ f[Len(s)] = d /\ \A i \in 1 .. Len(s) : f[i] = ClientAfter(f[i - 1], s[i])

\* The variables' types.
StateTyped ==
  /\ setup \in NativeBackends
  /\ window \in [size : Sizes, maximized : BOOLEAN, served : BOOLEAN, closing : BOOLEAN, resized : BOOLEAN]
  /\ pending \in Configured /\ floating \in Sizes /\ taken \in Sizes
  /\ server \in [size : Sizes, floating : Sizes, state : W!States, served : BOOLEAN, closing : BOOLEAN]
  /\ sent \in Seq(Sendable)

\* An event of a kind is on its way.
IsQueued(kind) == \E i \in 1 .. Len(sent) : sent[i].is = kind

\* What the events on their way lead to is what the server decided.
ChangesAreTold ==
  /\ Leads(sent, Client, Agreed)
  /\ W!Wayland \/ window.maximized = (server.state = "maximized") \/ IsQueued("property")
  /\ server.closing => window.closing \/ IsQueued("close")
  /\ taken # window.size => window.resized

\* The inductive invariant.
StateInv == StateTyped /\ ChangesAreTold

-----------------------------------------------------------------------------
\* It is a client still.
LEMMA HandledTyped == \A c \in Clients, e \in AllEvents : ClientAfter(c, e) \in Clients
<1> SUFFICES ASSUME NEW c \in Clients, NEW e \in AllEvents PROVE ClientAfter(c, e) \in Clients
  OBVIOUS
<1>1. Grants(c) \in Sizes /\ c.pending \in Configured  BY DEF Grants, Clients, Configured
<1>2. CASE e.is = "toplevel"
  <2>1. e.size \in Sizes \cup {W!Unset}  BY <1>2 DEF AllEvents, WaylandEvents, X11Events
  <2> QED  BY <1>1, <1>2, <2>1 DEF ClientAfter, Clients, Configured
<1>3. CASE e.is = "decoration"
  <2>1. e.served \in BOOLEAN  BY <1>3 DEF AllEvents, WaylandEvents, X11Events
  <2> QED  BY <1>1, <1>3, <2>1 DEF ClientAfter, Clients, Configured
<1>4. CASE e.is = "surface"
  BY <1>1, <1>4 DEF ClientAfter, Clients, Configured
<1>5. CASE e.is = "configured"
  <2>1. e.size \in Sizes  BY <1>5 DEF AllEvents, WaylandEvents, X11Events
  <2> QED  BY <1>5, <2>1 DEF ClientAfter, Clients
<1>6. CASE e.is \notin {"toplevel", "decoration", "surface", "configured"}
  BY <1>6 DEF ClientAfter
<1> QED  BY <1>2, <1>3, <1>4, <1>5, <1>6

\* Nothing queued: there already.
LEMMA LeadsNowhere == \A c, d : Leads(<<>>, c, d) => c = d
BY DEF Leads

\* Nowhere is a path.
LEMMA LeadsFromNowhere == \A c \in Clients : Leads(<<>>, c, c)
<1> SUFFICES ASSUME NEW c \in Clients PROVE Leads(<<>>, c, c)
  OBVIOUS
<1> DEFINE f == [i \in 0 .. 0 |-> c]
<1>1. f \in [0 .. 0 -> Clients] /\ f[0] = c /\ Len(<<>>) = 0  OBVIOUS
<1> HIDE DEF f
<1> QED  BY <1>1 DEF Leads

\* One more event takes one step more.
LEMMA LeadsFurther ==
  ASSUME NEW s \in Seq(AllEvents), NEW c, NEW d \in Clients, NEW e \in AllEvents, Leads(s, c, d)
  PROVE  Append(s, e) \in Seq(AllEvents) /\ Leads(Append(s, e), c, ClientAfter(d, e)) /\ ClientAfter(d, e) \in Clients
<1> DEFINE n == Len(s)
           t == Append(s, e)
<1>1. n \in Nat /\ Len(t) = n + 1 /\ t[n + 1] = e /\ (\A i \in 1 .. n : t[i] = s[i]) /\ t \in Seq(AllEvents)
  OBVIOUS
<1>2. PICK f \in [0 .. n -> Clients] :
        f[0] = c /\ f[n] = d /\ \A i \in 1 .. n : f[i] = ClientAfter(f[i - 1], s[i])
  BY DEF Leads
<1> HIDE DEF n, t
<1>3. ClientAfter(d, e) \in Clients  BY HandledTyped
<1> DEFINE g == [i \in 0 .. n + 1 |-> IF i <= n THEN f[i] ELSE ClientAfter(d, e)]
<1>4. g \in [0 .. n + 1 -> Clients]  BY <1>1, <1>3
<1>5. g[0] = c /\ g[n + 1] = ClientAfter(d, e) /\ g[n] = d  BY <1>1, <1>2
<1>6. ASSUME NEW i \in 1 .. n + 1 PROVE g[i] = ClientAfter(g[i - 1], t[i])
  <2>1. CASE i = n + 1  BY <1>1, <1>5, <2>1
  <2>2. CASE i # n + 1
    <3>1. i \in 1 .. n /\ i - 1 \in 0 .. n  BY <1>1, <2>2
    <3> QED  BY <1>1, <1>2, <3>1
  <2> QED  BY <2>1, <2>2
<1> HIDE DEF g
<1>7. Leads(t, c, ClientAfter(d, e))
  BY <1>1, <1>4, <1>5, <1>6 DEF Leads
<1> QED  BY <1>1, <1>3, <1>7 DEF t

\* The first event takes the first step.
LEMMA LeadsOn ==
  ASSUME NEW s \in Seq(AllEvents), s # <<>>, NEW c, NEW d, Leads(s, c, d)
  PROVE  Leads(Tail(s), ClientAfter(c, Head(s)), d)
<1> DEFINE n == Len(s)
           t == Tail(s)
<1>1. n \in Nat \ {0} /\ Len(t) = n - 1 /\ Head(s) = s[1] /\ \A i \in 1 .. n - 1 : t[i] = s[i + 1]
  OBVIOUS
<1>2. PICK f \in [0 .. n -> Clients] :
        f[0] = c /\ f[n] = d /\ \A i \in 1 .. n : f[i] = ClientAfter(f[i - 1], s[i])
  BY DEF Leads
<1> HIDE DEF n, t
<1> DEFINE g == [i \in 0 .. n - 1 |-> f[i + 1]]
<1>3. g \in [0 .. n - 1 -> Clients]  BY <1>1
<1>4. g[0] = ClientAfter(c, Head(s)) /\ g[n - 1] = d
  <2>1. g[0] = f[1] /\ g[n - 1] = f[n]  BY <1>1
  <2>2. f[1] = ClientAfter(f[0], s[1])  BY <1>1, <1>2
  <2> QED  BY <1>1, <1>2, <2>1, <2>2
<1>5. ASSUME NEW i \in 1 .. n - 1 PROVE g[i] = ClientAfter(g[i - 1], t[i])
  <2>1. i + 1 \in 1 .. n /\ i \in 0 .. n - 1 /\ i - 1 \in 0 .. n - 1  BY <1>1
  <2>2. f[i + 1] = ClientAfter(f[i], s[i + 1])  BY <1>2, <2>1
  <2>3. g[i] = f[i + 1] /\ g[i - 1] = f[i]  BY <2>1
  <2> QED  BY <1>1, <2>2, <2>3
<1> HIDE DEF g
<1> QED  BY <1>1, <1>3, <1>4, <1>5 DEF Leads, t

\* The client and what it will be are clients.
LEMMA ClientTyped == ASSUME StateTyped PROVE Client \in Clients
<1>1. (W!Wayland /\ window.maximized) \in BOOLEAN  OBVIOUS
<1> QED  BY <1>1 DEF StateTyped, Client, Clients

\* So is what the server has decided.
LEMMA AgreedTyped == ASSUME W!SizesAssumption, StateTyped PROVE Agreed \in Clients /\ Agreed.pending \in Configured
<1>1. (W!Wayland /\ server.state = "maximized") \in BOOLEAN /\ (W!Wayland => server.state = "floating") \in BOOLEAN
  OBVIOUS
<1> QED  BY <1>1 DEF StateTyped, Agreed, Clients, Configured

\* What was sent can be handled.
LEMMA SentTyped == ASSUME StateTyped PROVE sent \in Seq(AllEvents) /\ Sendable \subseteq AllEvents
<1>1. Sendable \subseteq AllEvents  BY DEF Sendable, AllEvents
<1> QED  BY <1>1, SeqMonotonic DEF StateTyped

\* A window begins as it was asked for, with nothing but its first configuration on its way.
LEMMA StateInvInit == ASSUME W!SizesAssumption PROVE W!Init => StateInv
<1> SUFFICES ASSUME W!Init PROVE StateInv
  OBVIOUS
<1>1. StateTyped
  <2>1. pending \in Configured  BY DEF W!Init, Configured
  <2>2. sent \in Seq(Sendable)  BY DEF W!Init
  <2> QED  BY <2>1, <2>2 DEF W!Init, StateTyped, W!SizesAssumption, W!States
<1>2. Client = Agreed  BY DEF W!Init, Client, Agreed
<1>3. Leads(<<>>, Client, Agreed)  BY <1>1, <1>2, ClientTyped, LeadsFromNowhere
<1>4. Leads(sent, Client, Agreed)  BY <1>3 DEF W!Init
<1> QED  BY <1>1, <1>4 DEF W!Init, StateInv, ChangesAreTold

\* One message more, at the end.
LEMMA QueuedMore ==
  ASSUME StateTyped, NEW m \in Seq(Sendable), sent' = sent \o m, setup' = setup
  PROVE  /\ sent' \in Seq(Sendable)'
         /\ \A kind : IsQueued(kind) => IsQueued(kind)'
         /\ \A kind : (\E i \in 1 .. Len(m) : m[i].is = kind) => IsQueued(kind)'
<1>1. /\ sent' \in Seq(Sendable) /\ Len(sent') = Len(sent) + Len(m) /\ Len(sent) \in Nat /\ Len(m) \in Nat
      /\ \A i \in 1 .. Len(sent) + Len(m) : sent'[i] = IF i <= Len(sent) THEN sent[i] ELSE m[i - Len(sent)]
  BY ConcatProperties, LenProperties DEF StateTyped
<1>2. \A i \in 1 .. Len(m) : Len(sent) + i \in 1 .. Len(sent') /\ sent'[Len(sent) + i] = m[i]
  BY <1>1
<1>3. Sendable' = Sendable
  <2>1. W!Wayland' = W!Wayland  BY DEF W!Wayland
  <2> QED  BY <2>1 DEF Sendable
<1>4. ASSUME NEW kind, IsQueued(kind) PROVE IsQueued(kind)'
  <2>1. PICK i \in 1 .. Len(sent) : sent[i].is = kind  BY <1>4 DEF IsQueued
  <2>2. i \in 1 .. Len(sent') /\ sent'[i] = sent[i]  BY <1>1
  <2> QED  BY <2>1, <2>2 DEF IsQueued
<1>5. ASSUME NEW kind, \E i \in 1 .. Len(m) : m[i].is = kind PROVE IsQueued(kind)'
  <2>1. PICK i \in 1 .. Len(m) : m[i].is = kind  BY <1>5
  <2> QED  BY <1>2, <2>1 DEF IsQueued
<1> QED  BY <1>1, <1>3, <1>4, <1>5

\* What was appended is on its way.
LEMMA QueuedOne ==
  ASSUME StateTyped, NEW e \in Sendable, sent' = sent \o <<e>>, setup' = setup
  PROVE  /\ e \in AllEvents /\ sent' \in Seq(Sendable)' /\ IsQueued(e.is)'
         /\ \A kind : IsQueued(kind) => IsQueued(kind)'
<1>1. <<e>> \in Seq(Sendable) /\ 1 \in 1 .. Len(<<e>>) /\ <<e>>[1].is = e.is  OBVIOUS
<1>2. Sendable \subseteq AllEvents  BY SentTyped
<1> QED  BY <1>1, <1>2, QueuedMore

\* One message alone leads one step on.
LEMMA LeadsByOne ==
  ASSUME StateTyped, NEW c, NEW d \in Clients, Leads(sent, c, d), NEW e \in AllEvents
  PROVE  Leads(sent \o <<e>>, c, ClientAfter(d, e))
<1>1. sent \in Seq(AllEvents)  BY SentTyped
<1>2. sent \o <<e>> = Append(sent, e)  BY <1>1
<1> QED  BY <1>1, <1>2, LeadsFurther

\* What a Wayland compositor decides, the configuration it sends tells.
LEMMA ConfiguresKeeps ==
  ASSUME W!SizesAssumption, StateInv, NEW size \in Sizes \cup {W!Unset}, NEW state \in W!States, NEW served \in BOOLEAN,
         NEW parts \in SUBSET {"toplevel", "decoration"}, W!Configures(size, state, served, parts),
         UNCHANGED <<setup, window, pending, floating, taken>>
  PROVE  StateInv'
<1> DEFINE now == IF "toplevel" \in parts THEN state ELSE server.state
           given == IF "toplevel" \in parts THEN size ELSE W!Unset
           held == IF given # W!Unset THEN given ELSE IF now = "floating" THEN server.floating ELSE server.size
           top == [is |-> "toplevel", size |-> size, state |-> state]
           deco == [is |-> "decoration", served |-> served]
           surf == [is |-> "surface"]
           A == IF "toplevel" \in parts THEN <<top>> ELSE <<>>
           B == IF "decoration" \in parts THEN <<deco>> ELSE <<>>
           C == <<surf>>
<1>1. W!Wayland /\ parts # {} /\ sent' = sent \o ((A \o B) \o C)
  BY DEF W!Configures, W!Send
<1>2. server' = [server EXCEPT !.size = held, !.state = now,
                               !.floating = IF now = "floating" THEN held ELSE @,
                               !.served = IF "decoration" \in parts THEN served ELSE @]
  BY DEF W!Configures
<1>3. server' = [size |-> held, floating |-> IF now = "floating" THEN held ELSE server.floating, state |-> now,
                 served |-> IF "decoration" \in parts THEN served ELSE server.served, closing |-> server.closing]
  BY <1>2 DEF StateInv, StateTyped
<1>4. top \in Sendable /\ deco \in Sendable /\ surf \in Sendable
  BY <1>1 DEF Sendable, WaylandEvents
<1>5. A \in Seq(Sendable) /\ B \in Seq(Sendable) /\ C \in Seq(Sendable) /\ (A \o B) \o C \in Seq(Sendable)
  BY <1>4
<1> HIDE DEF A, B, C
<1>6. /\ sent' \in Seq(Sendable)' /\ \A kind : IsQueued(kind) => IsQueued(kind)'
  BY <1>1, <1>5, QueuedMore DEF StateInv
<1>7. held \in Sizes /\ now \in W!States  BY DEF StateInv, StateTyped
<1>8. StateTyped'
  BY <1>3, <1>6, <1>7 DEF StateInv, StateTyped
<1>9. Leads(sent', Client, Agreed')
  <2> DEFINE d0 == Agreed
             d1 == IF "toplevel" \in parts THEN ClientAfter(d0, top) ELSE d0
             d2 == IF "decoration" \in parts THEN ClientAfter(d1, deco) ELSE d1
             d3 == ClientAfter(d2, surf)
             s1 == sent \o A
             s2 == s1 \o B
             s3 == s2 \o C
  <2>0. sent \in Seq(AllEvents) /\ d0 \in Clients /\ Leads(sent, Client, d0)
        /\ top \in AllEvents /\ deco \in AllEvents /\ surf \in AllEvents
    BY <1>4, SentTyped, AgreedTyped DEF StateInv, ChangesAreTold
  <2>1. s1 \in Seq(AllEvents) /\ d1 \in Clients /\ Leads(s1, Client, d1)
    <3>1. CASE "toplevel" \in parts
      <4>1. s1 = Append(sent, top) /\ d1 = ClientAfter(d0, top)  BY <2>0, <3>1 DEF A
      <4> QED  BY <2>0, <4>1, LeadsFurther
    <3>2. CASE "toplevel" \notin parts
      <4>1. s1 = sent /\ d1 = d0  BY <2>0, <3>2 DEF A
      <4> QED  BY <2>0, <4>1
    <3> QED  BY <3>1, <3>2
  <2> HIDE DEF s1, d1
  <2>2. s2 \in Seq(AllEvents) /\ d2 \in Clients /\ Leads(s2, Client, d2)
    <3>1. CASE "decoration" \in parts
      <4>1. s2 = Append(s1, deco) /\ d2 = ClientAfter(d1, deco)  BY <2>1, <3>1 DEF B
      <4> QED  BY <2>0, <2>1, <4>1, LeadsFurther
    <3>2. CASE "decoration" \notin parts
      <4>1. s2 = s1 /\ d2 = d1  BY <2>1, <3>2 DEF B
      <4> QED  BY <2>1, <4>1
    <3> QED  BY <3>1, <3>2
  <2> HIDE DEF s2, d2
  <2>3. Leads(s3, Client, d3)
    <3>1. s3 = Append(s2, surf)  BY <2>2 DEF C
    <3> QED  BY <2>0, <2>2, <3>1, LeadsFurther
  <2>4. s3 = sent'
    <3>1. sent \in Seq(Sendable)  BY DEF StateInv, StateTyped
    <3>a. \A s, t, u \in Seq(Sendable) : s \o (t \o u) = (s \o t) \o u  BY ConcatAssociative, SMTT(60)
    <3>2. sent \o ((A \o B) \o C) = (sent \o (A \o B)) \o C
      <4>1. A \o B \in Seq(Sendable)  BY <1>5
      <4> QED  BY <1>5, <3>1, <4>1, <3>a, SMTT(60)
    <3>3. sent \o (A \o B) = (sent \o A) \o B  BY <1>5, <3>1, <3>a, SMTT(60)
    <3> QED  BY <1>1, <3>2, <3>3 DEF s2, s1
  <2>5. d3 = Agreed'
    <3>1. d0 = [size |-> server.size, maximized |-> server.state = "maximized", served |-> server.served,
                floating |-> server.floating,
                pending |-> [size |-> W!Unset, maximized |-> server.state = "maximized",
                             floating |-> server.state = "floating", served |-> server.served]]
      BY <1>1 DEF Agreed
    <3>2. d1 = [d0 EXCEPT !.pending = [size |-> given, maximized |-> now = "maximized",
                                       floating |-> now = "floating", served |-> server.served]]
      BY <3>1 DEF d1, ClientAfter
    <3>3. d2 = [d0 EXCEPT !.pending = [size |-> given, maximized |-> now = "maximized",
                                       floating |-> now = "floating",
                                       served |-> IF "decoration" \in parts THEN served ELSE server.served]]
      BY <3>1, <3>2, ZenonT(60) DEF d2, ClientAfter
    <3>4. Grants(d2) = held
      BY <3>1, <3>3 DEF Grants
    <3>5. d3 = [size |-> held, maximized |-> now = "maximized",
                served |-> IF "decoration" \in parts THEN served ELSE server.served,
                floating |-> IF now = "floating" THEN held ELSE server.floating,
                pending |-> [size |-> W!Unset, maximized |-> now = "maximized", floating |-> now = "floating",
                             served |-> IF "decoration" \in parts THEN served ELSE server.served]]
      BY <3>1, <3>3, <3>4 DEF ClientAfter
    <3> QED  BY <1>1, <1>3, <3>5 DEF Agreed, W!Wayland
  <2> QED  BY <2>3, <2>4, <2>5
<1>10. Client' = Client  BY DEF Client, W!Wayland
<1>11. ChangesAreTold'
  BY <1>1, <1>3, <1>6, <1>9, <1>10 DEF StateInv, ChangesAreTold, W!Wayland
<1> QED  BY <1>8, <1>11 DEF StateInv

\* So does what an X server says, and a request to close.
LEMMA ServerKeeps ==
  ASSUME W!SizesAssumption, StateInv, W!Decides
  PROVE  StateInv'
<1>0. UNCHANGED <<setup, window, pending, floating, taken>>  BY DEF W!Decides
<1>c. Client' = Client /\ Client \in Clients /\ W!Wayland' = W!Wayland
  BY <1>0, ClientTyped DEF StateInv, Client, W!Wayland
<1>a. Agreed \in Clients /\ Leads(sent, Client, Agreed) /\ StateTyped
  BY AgreedTyped DEF StateInv, ChangesAreTold
<1>1. ASSUME NEW size \in Sizes \cup {W!Unset}, NEW state \in W!States, NEW served \in BOOLEAN,
             NEW parts \in SUBSET {"toplevel", "decoration"}, W!Configures(size, state, served, parts)
      PROVE  StateInv'
  BY <1>0, <1>1, ConfiguresKeeps
<1>2. ASSUME NEW size \in Sizes, W!Reconfigures(size) PROVE StateInv'
  <2> DEFINE e == [is |-> "configured", size |-> size]
  <2>1. ~W!Wayland /\ sent' = sent \o <<e>> /\ server' = [server EXCEPT !.size = size]
    BY <1>2 DEF W!Reconfigures, W!Send
  <2>2. e \in Sendable  BY <2>1 DEF Sendable, X11Events
  <2>3. e \in AllEvents /\ sent' \in Seq(Sendable)' /\ \A kind : IsQueued(kind) => IsQueued(kind)'
    BY <1>0, <1>a, <2>1, <2>2, QueuedOne
  <2>4. server' = [size |-> size, floating |-> server.floating, state |-> server.state, served |-> server.served,
                   closing |-> server.closing]
    BY <1>a, <2>1 DEF StateTyped
  <2>5. StateTyped'  BY <1>0, <1>a, <2>3, <2>4 DEF StateTyped
  <2>6. Agreed' = ClientAfter(Agreed, e)
    <3>1. Agreed' = [Agreed EXCEPT !.size = size]  BY <1>c, <2>1, <2>4 DEF Agreed
    <3> QED  BY <3>1 DEF ClientAfter
  <2>7. Leads(sent', Client', Agreed')
    BY <1>a, <1>c, <2>1, <2>3, <2>6, LeadsByOne
  <2>8. ChangesAreTold'  BY <1>0, <1>c, <2>3, <2>4, <2>7 DEF StateInv, ChangesAreTold
  <2> QED  BY <2>5, <2>8 DEF StateInv
<1>3. ASSUME NEW state \in W!States, W!Restates(state) PROVE StateInv'
  <2> DEFINE e == [is |-> "property"]
  <2>1. ~W!Wayland /\ sent' = sent \o <<e>> /\ server' = [server EXCEPT !.state = state]
    BY <1>3 DEF W!Restates, W!Send
  <2>2. e \in Sendable /\ e.is = "property"  BY <2>1 DEF Sendable, X11Events
  <2>3. e \in AllEvents /\ sent' \in Seq(Sendable)' /\ IsQueued("property")' /\ \A kind : IsQueued(kind) => IsQueued(kind)'
    BY <1>0, <1>a, <2>1, <2>2, QueuedOne
  <2>4. server' = [size |-> server.size, floating |-> server.floating, state |-> state, served |-> server.served,
                   closing |-> server.closing]
    BY <1>a, <2>1 DEF StateTyped
  <2>5. StateTyped'  BY <1>0, <1>a, <2>3, <2>4 DEF StateTyped
  <2>6. Agreed' = ClientAfter(Agreed, e)
    <3>1. Agreed' = Agreed  BY <1>c, <2>1, <2>4 DEF Agreed
    <3> QED  BY <3>1 DEF ClientAfter
  <2>7. Leads(sent', Client', Agreed')
    BY <1>a, <1>c, <2>1, <2>3, <2>6, LeadsByOne
  <2>8. ChangesAreTold'  BY <1>0, <1>c, <2>3, <2>4, <2>7 DEF StateInv, ChangesAreTold
  <2> QED  BY <2>5, <2>8 DEF StateInv
<1>4. CASE W!AsksToClose
  <2> DEFINE e == [is |-> "close"]
  <2>1. sent' = sent \o <<e>> /\ server' = [server EXCEPT !.closing = TRUE]
    BY <1>4 DEF W!AsksToClose, W!Send
  <2>2. e \in Sendable /\ e.is = "close"  BY <2>1 DEF Sendable, X11Events, WaylandEvents
  <2>3. e \in AllEvents /\ sent' \in Seq(Sendable)' /\ IsQueued("close")' /\ \A kind : IsQueued(kind) => IsQueued(kind)'
    BY <1>0, <1>a, <2>1, <2>2, QueuedOne
  <2>4. server' = [size |-> server.size, floating |-> server.floating, state |-> server.state,
                   served |-> server.served, closing |-> TRUE]
    BY <1>a, <2>1 DEF StateTyped
  <2>5. StateTyped'  BY <1>0, <1>a, <2>3, <2>4 DEF StateTyped
  <2>6. Agreed' = ClientAfter(Agreed, e)
    <3>1. Agreed' = Agreed  BY <1>c, <2>1, <2>4 DEF Agreed
    <3> QED  BY <3>1 DEF ClientAfter
  <2>7. Leads(sent', Client', Agreed')
    BY <1>a, <1>c, <2>1, <2>3, <2>6, LeadsByOne
  <2>8. ChangesAreTold'  BY <1>0, <1>c, <2>3, <2>4, <2>7 DEF StateInv, ChangesAreTold
  <2> QED  BY <2>5, <2>8 DEF StateInv
<1> QED  BY <1>1, <1>2, <1>3, <1>4 DEF W!Decides

\* Handling the first event takes the client the first step of the way.
LEMMA DispatchKeeps ==
  ASSUME W!SizesAssumption, StateInv, W!Dispatch
  PROVE  StateInv'
<1> DEFINE e == Head(sent)
<1>0. sent # <<>> /\ sent' = Tail(sent) /\ UNCHANGED <<setup, taken, server, events>>  BY DEF W!Dispatch
<1>1. StateTyped /\ ChangesAreTold  BY DEF StateInv
<1>2. /\ W!Wayland' = W!Wayland /\ Sendable' = Sendable /\ Agreed' = Agreed
  <2>1. W!Wayland' = W!Wayland  BY <1>0 DEF W!Wayland
  <2> QED  BY <1>0, <2>1 DEF Sendable, Agreed
<1>3. /\ e \in Sendable /\ e = sent[1] /\ sent' \in Seq(Sendable) /\ Len(sent) \in Nat \ {0}
      /\ Len(sent') = Len(sent) - 1 /\ \A i \in 1 .. Len(sent') : sent'[i] = sent[i + 1]
  BY <1>0, <1>1 DEF StateTyped
<1>4. ASSUME NEW kind, IsQueued(kind), e.is # kind PROVE IsQueued(kind)'
  <2>1. PICK i \in 1 .. Len(sent) : sent[i].is = kind  BY <1>4 DEF IsQueued
  <2>2. i # 1 /\ i - 1 \in 1 .. Len(sent') /\ sent'[i - 1] = sent[i]  BY <1>3, <1>4, <2>1
  <2> QED  BY <2>1, <2>2 DEF IsQueued
<1>5. Leads(sent', ClientAfter(Client, e), Agreed)
  BY <1>0, <1>1, LeadsOn, SentTyped DEF ChangesAreTold
<1> HIDE DEF e
<1>t. /\ window = [size |-> window.size, maximized |-> window.maximized, served |-> window.served,
                   closing |-> window.closing, resized |-> window.resized]
      /\ window \in [size : Sizes, maximized : BOOLEAN, served : BOOLEAN, closing : BOOLEAN, resized : BOOLEAN]
      /\ pending \in Configured /\ floating \in Sizes /\ taken \in Sizes
  BY <1>1 DEF StateTyped
<1> DEFINE Win == [size : Sizes, maximized : BOOLEAN, served : BOOLEAN, closing : BOOLEAN, resized : BOOLEAN]
           Goal == /\ Client' = ClientAfter(Client, e)
                   /\ window' \in Win /\ pending' \in Configured /\ floating' \in Sizes
                   /\ W!Wayland \/ window'.maximized = window.maximized \/ e.is = "property"
                   /\ W!Wayland \/ e.is # "property" \/ window'.maximized = (server.state = "maximized")
                   /\ window.closing => window'.closing
                   /\ e.is = "close" => window'.closing
                   /\ taken # window'.size => window'.resized
<1>6. ASSUME Goal PROVE StateInv'
  <2>1. StateTyped'
    BY <1>0, <1>1, <1>2, <1>3, <1>6 DEF StateTyped
  <2>2. Leads(sent', Client', Agreed')  BY <1>2, <1>5, <1>6
  <2>3. W!Wayland' \/ window'.maximized = (server'.state = "maximized") \/ IsQueued("property")'
    BY <1>0, <1>1, <1>2, <1>4, <1>6 DEF ChangesAreTold
  <2>4. server'.closing => window'.closing \/ IsQueued("close")'
    BY <1>0, <1>1, <1>4, <1>6 DEF ChangesAreTold
  <2>5. taken' # window'.size => window'.resized  BY <1>0, <1>6
  <2> QED  BY <2>1, <2>2, <2>3, <2>4, <2>5 DEF StateInv, ChangesAreTold
<1> HIDE DEF Win
<1>r. ASSUME NEW size \in Sizes
      PROVE  /\ W!Resized(size) = [size |-> size, maximized |-> window.maximized, served |-> window.served,
                                 closing |-> window.closing, resized |-> window.resized \/ size # window.size]
             /\ W!Resized(size) \in Win
             /\ taken # size => window.resized \/ size # window.size
  <2>1. W!Resized(size) = [size |-> size, maximized |-> window.maximized, served |-> window.served,
                         closing |-> window.closing, resized |-> window.resized \/ size # window.size]
    <3> DEFINE r == window.resized \/ size # window.size
    <3>1. W!Resized(size) = [window EXCEPT !.size = size, !.resized = r]  BY DEF W!Resized
    <3> HIDE DEF r
    <3>2. W!Resized(size) = [size |-> size, maximized |-> window.maximized, served |-> window.served,
                           closing |-> window.closing, resized |-> r]
      BY <1>t, <3>1 DEF Win
    <3> QED  BY <3>2 DEF r
  <2>2. (window.resized \/ size # window.size) \in BOOLEAN  OBVIOUS
  <2>3. W!Resized(size) \in Win  BY <1>t, <2>1, <2>2 DEF Win
  <2> QED  BY <1>1, <2>1, <2>3 DEF ChangesAreTold
<1>7. CASE e.is = "toplevel" /\ W!ToplevelConfigure(e)
  <2>1. W!Wayland /\ e.size \in Sizes \cup {W!Unset} /\ e.state \in W!States
    BY <1>3, <1>7 DEF Sendable, WaylandEvents, X11Events
  <2>2. /\ pending' = [size |-> e.size, maximized |-> e.state = "maximized", floating |-> e.state = "floating",
                       served |-> pending.served]
        /\ window' = window /\ floating' = floating
    BY <1>7, <1>t DEF W!ToplevelConfigure, Configured
  <2>3. pending' \in Configured  BY <1>t, <2>1, <2>2 DEF Configured
  <2>4. Client' = ClientAfter(Client, e)  BY <1>2, <1>7, <2>2 DEF Client, ClientAfter
  <2> QED  BY <1>1, <1>6, <1>7, <1>t, <2>1, <2>2, <2>3, <2>4 DEF Win, ChangesAreTold
<1>8. CASE e.is = "decoration" /\ W!DecorationConfigure(e)
  <2>1. W!Wayland /\ e.served \in BOOLEAN
    BY <1>3, <1>8 DEF Sendable, WaylandEvents, X11Events
  <2>2. /\ pending' = [size |-> pending.size, maximized |-> pending.maximized, floating |-> pending.floating,
                       served |-> e.served]
        /\ window' = window /\ floating' = floating
    BY <1>8, <1>t DEF W!DecorationConfigure, Configured
  <2>3. pending' \in Configured  BY <1>t, <2>1, <2>2 DEF Configured
  <2>4. Client' = ClientAfter(Client, e)  BY <1>2, <1>8, <2>2 DEF Client, ClientAfter
  <2> QED  BY <1>1, <1>6, <1>8, <1>t, <2>1, <2>2, <2>3, <2>4 DEF Win, ChangesAreTold
<1>9. CASE e.is = "surface" /\ W!SurfaceConfigure
  <2>1. W!Wayland  BY <1>3, <1>9 DEF Sendable, WaylandEvents, X11Events
  <2>2. W!Granted \in Sizes  BY <1>t DEF W!Granted, Configured
  <2> DEFINE r == window.resized \/ W!Granted # window.size
  <2>r. r \in BOOLEAN /\ (taken # W!Granted => r)  BY <1>r, <2>2
  <2>3. window' = [size |-> W!Granted, maximized |-> pending.maximized, served |-> pending.served,
                   closing |-> window.closing, resized |-> r]
    <3>1. window' = [W!Resized(W!Granted) EXCEPT !.maximized = pending.maximized, !.served = pending.served]
      BY <1>9 DEF W!SurfaceConfigure
    <3>2. W!Resized(W!Granted) = [size |-> W!Granted, maximized |-> window.maximized, served |-> window.served,
                              closing |-> window.closing, resized |-> r]
      BY <1>r, <2>2
    <3> DEFINE x == W!Resized(W!Granted)
    <3>3. /\ x = [size |-> W!Granted, maximized |-> window.maximized, served |-> window.served,
                  closing |-> window.closing, resized |-> r]
          /\ window' = [x EXCEPT !.maximized = pending.maximized, !.served = pending.served]
      BY <3>1, <3>2
    <3> HIDE DEF r, x
    <3> QED  BY <3>3
  <2> HIDE DEF r
  <2>4. /\ floating' = IF pending.floating THEN W!Granted ELSE floating
        /\ pending' = [size |-> W!Unset, maximized |-> pending.maximized, floating |-> pending.floating,
                       served |-> pending.served]
    BY <1>9, <1>t DEF W!SurfaceConfigure, W!Committed, Configured
  <2>5. pending' \in Configured /\ floating' \in Sizes  BY <1>t, <2>2, <2>4 DEF Configured
  <2>6. window' \in Win  BY <1>t, <2>2, <2>3, <2>r DEF Win, Configured
  <2>7. Grants(Client) = W!Granted  BY DEF Client, Grants, W!Granted
  <2>8. Client' = ClientAfter(Client, e)
    <3>1. Client' = [size |-> window'.size, maximized |-> window'.maximized, served |-> window'.served,
                     floating |-> floating', pending |-> pending']
      BY <1>2, <2>1, <2>6 DEF Client, Win
    <3>2. ClientAfter(Client, e) =
            [size |-> W!Granted, maximized |-> pending.maximized, served |-> pending.served,
             floating |-> IF pending.floating THEN W!Granted ELSE floating,
             pending |-> [size |-> W!Unset, maximized |-> pending.maximized,
                          floating |-> pending.floating, served |-> pending.served]]
      BY <1>9, <2>7 DEF ClientAfter, Client
    <3> QED  BY <2>3, <2>4, <3>1, <3>2
  <2>9. taken # window'.size => window'.resized  BY <2>3, <2>r
  <2> QED  BY <1>6, <1>9, <2>1, <2>3, <2>5, <2>6, <2>8, <2>9
<1>10. CASE e.is = "configured" /\ W!ConfigureNotify(e)
  <2>1. ~W!Wayland /\ e.size \in Sizes
    BY <1>3, <1>10 DEF Sendable, WaylandEvents, X11Events
  <2>2. window' = W!Resized(e.size) /\ pending' = pending /\ floating' = floating  BY <1>10 DEF W!ConfigureNotify
  <2> DEFINE r == window.resized \/ e.size # window.size
  <2>a. /\ window' = [size |-> e.size, maximized |-> window.maximized, served |-> window.served,
                      closing |-> window.closing, resized |-> r]
        /\ window' \in Win /\ (taken # e.size => r)
    BY <1>r, <2>1, <2>2
  <2> HIDE DEF r
  <2>3. Client' = ClientAfter(Client, e)  BY <1>2, <1>10, <2>1, <2>2, <2>a DEF Client, ClientAfter
  <2> QED  BY <1>6, <1>10, <1>t, <2>1, <2>2, <2>3, <2>a
<1>11. CASE e.is = "property" /\ W!PropertyNotify
  <2>1. ~W!Wayland  BY <1>3, <1>11 DEF Sendable, WaylandEvents, X11Events
  <2>2. /\ window' = [size |-> window.size, maximized |-> server.state = "maximized", served |-> window.served,
                      closing |-> window.closing, resized |-> window.resized]
        /\ pending' = pending /\ floating' = floating
    BY <1>11, <1>t DEF W!PropertyNotify, W!RefreshMaximized
  <2>3. Client' = ClientAfter(Client, e)  BY <1>2, <1>11, <2>1, <2>2 DEF Client, ClientAfter
  <2>4. window' \in Win
    <3>1. (server.state = "maximized") \in BOOLEAN  OBVIOUS
    <3> QED  BY <1>t, <2>2, <3>1 DEF Win
  <2> QED  BY <1>1, <1>6, <1>11, <1>t, <2>1, <2>2, <2>3, <2>4 DEF ChangesAreTold
<1>12. CASE e.is = "close" /\ W!CloseRequested
  <2>1. /\ window' = [size |-> window.size, maximized |-> window.maximized, served |-> window.served,
                      closing |-> TRUE, resized |-> window.resized]
        /\ pending' = pending /\ floating' = floating
    BY <1>12, <1>t DEF W!CloseRequested
  <2>2. Client' = ClientAfter(Client, e)  BY <1>2, <1>12, <2>1 DEF Client, ClientAfter
  <2>3. window' \in Win  BY <1>t, <2>1 DEF Win
  <2> QED  BY <1>1, <1>6, <1>12, <1>t, <2>1, <2>2, <2>3 DEF ChangesAreTold
<1> QED  BY <1>7, <1>8, <1>9, <1>10, <1>11, <1>12 DEF W!Dispatch, e

\* The application does not touch what the server decides.
LEMMA ApplicationKeeps ==
  ASSUME StateInv, W!Close \/ W!TakeResize \/ UNCHANGED W!vars
  PROVE  StateInv'
<1>1. /\ UNCHANGED <<setup, pending, floating, server, sent>> /\ taken' \in {taken, window.size}
      /\ \/ window' = window /\ taken' = taken
         \/ window' = [window EXCEPT !.closing = TRUE] /\ taken' = taken
         \/ window' = [window EXCEPT !.resized = FALSE] /\ taken' = window.size
  BY DEF W!Close, W!TakeResize, W!vars
<1>2. Client' = Client /\ Agreed' = Agreed /\ Sendable' = Sendable /\ W!Wayland' = W!Wayland
  <2>1. W!Wayland' = W!Wayland  BY <1>1 DEF W!Wayland
  <2>2. window'.size = window.size /\ window'.maximized = window.maximized /\ window'.served = window.served
    BY <1>1 DEF StateInv, StateTyped
  <2> QED  BY <1>1, <2>1, <2>2 DEF Client, Agreed, Sendable
<1>3. StateTyped'  BY <1>1, <1>2 DEF StateInv, StateTyped
<1>4. /\ window'.size = window.size /\ window'.maximized = window.maximized /\ (window.closing => window'.closing)
      /\ taken' # window'.size => window'.resized
  <2>1. CASE window' = window /\ taken' = taken
    BY <2>1 DEF StateInv, ChangesAreTold
  <2>2. CASE window' = [window EXCEPT !.closing = TRUE] /\ taken' = taken
    BY <2>2 DEF StateInv, StateTyped, ChangesAreTold
  <2>3. CASE window' = [window EXCEPT !.resized = FALSE] /\ taken' = window.size
    BY <2>3 DEF StateInv, StateTyped
  <2> QED  BY <1>1, <2>1, <2>2, <2>3
<1>5. \A kind : IsQueued(kind)' = IsQueued(kind)  BY <1>1 DEF IsQueued
<1>6. ChangesAreTold'
  <2>1. Leads(sent', Client', Agreed')  BY <1>1, <1>2 DEF StateInv, ChangesAreTold
  <2>2. W!Wayland' \/ window'.maximized = (server'.state = "maximized") \/ IsQueued("property")'
    <3>1. W!Wayland \/ window.maximized = (server.state = "maximized") \/ IsQueued("property")
      BY DEF StateInv, ChangesAreTold
    <3> QED  BY <1>1, <1>2, <1>4, <1>5, <3>1, Zenon
  <2>3. server'.closing => window'.closing \/ IsQueued("close")'
    <3>1. server.closing => window.closing \/ IsQueued("close")
      BY DEF StateInv, ChangesAreTold
    <3> QED  BY <1>1, <1>4, <1>5, <3>1, Zenon
  <2> QED  BY <1>4, <2>1, <2>2, <2>3 DEF ChangesAreTold
<1> QED  BY <1>3, <1>6 DEF StateInv

\* Every step keeps the invariant.
LEMMA StateInvKept ==
  ASSUME W!SizesAssumption, StateInv, [W!Next]_W!vars
  PROVE  StateInv'
BY ServerKeeps, DispatchKeeps, ApplicationKeeps DEF W!Next

\* What the runs check follows.
LEMMA StateInvImplies == StateInv => W!TypeOK /\ W!StateFollowsServer
<1> SUFFICES ASSUME StateInv PROVE W!TypeOK /\ W!StateFollowsServer
  OBVIOUS
<1>1. W!TypeOK
  <2>1. \A i \in DOMAIN sent : sent[i].is \in W!Kinds
    BY DEF StateInv, StateTyped, Sendable, WaylandEvents, X11Events, W!Kinds
  <2> QED  BY <2>1 DEF StateInv, StateTyped, W!TypeOK, Configured
<1>2. ASSUME sent = <<>>
      PROVE  /\ window.size = server.size /\ window.maximized = (server.state = "maximized")
             /\ window.served = server.served
             /\ server.closing => window.closing
  <2>1. Client = Agreed  BY <1>2, LeadsNowhere DEF StateInv, ChangesAreTold
  <2>2. ~IsQueued("property") /\ ~IsQueued("close")  BY <1>2 DEF IsQueued
  <2>3. W!Wayland => window.maximized = (server.state = "maximized")
    <3>1. Client.maximized = Agreed.maximized  BY <2>1
    <3> QED  BY <3>1 DEF Client, Agreed, StateInv, StateTyped
  <2>4. window.size = server.size /\ window.served = server.served
    <3>1. Client.size = Agreed.size /\ Client.served = Agreed.served  BY <2>1
    <3> QED  BY <3>1 DEF Client, Agreed
  <2> QED  BY <2>2, <2>3, <2>4 DEF StateInv, ChangesAreTold
<1> QED  BY <1>1, <1>2 DEF StateInv, ChangesAreTold, W!StateFollowsServer

-----------------------------------------------------------------------------
(***************************************************************************)
(* SdlSurface.                                                             *)
(*                                                                         *)
(* The argument: a surface that is drawn to is the one SDL has, or the     *)
(* poll that told of a new one has said so. A wait that ends has counted   *)
(* pumps in which SDL's copy did not change.                               *)
(***************************************************************************)

\* A surface and its size, as the system has it or SDL.
Copies == [surface : Surfaces \cup {U!None}, extent : SurfaceExtents]

\* Every variable has its set; a wait has attempts left.
SurfaceTyped ==
  /\ native \in Copies /\ cached \in Copies
  /\ last \in Surfaces \cup {U!None} /\ lost \in BOOLEAN
  /\ used \in [surface : Surfaces \cup {U!None}, steady : {StablePolls}]
  /\ wait \in [running : BOOLEAN, attempt : 0..Attempts - 1, stable : 0..StablePolls, last : Copies]
  /\ steady \in 0..StablePolls

\* A surface that is drawn to is SDL's, or a poll tells of it: the next one, or the last one did.
LossIsTold == lost \/ last # cached.surface \/ used.surface \in {U!None, cached.surface}

\* A wait draws to nothing, and remembers SDL's copy; for how many pumps it has seen the same one,
\* that copy has not changed.
WaitIsSteady ==
  /\ wait.running => used.surface = U!None
  /\ wait.last \in {cached, U!NoSurface} \/ ~wait.running
  /\ wait.stable <= steady \/ ~wait.running

\* The inductive invariant.
SurfaceInv == SurfaceTyped /\ LossIsTold /\ WaitIsSteady

\* SDL has the first surface, and nothing draws.
LEMMA SurfaceInvInit == ASSUME U!SurfacesAssumption, U!CountsAssumption PROVE U!Init => SurfaceInv
<1> DEFINE s0 == CHOOSE s \in Surfaces : \A r \in Surfaces : s <= r
           e0 == CHOOSE e \in SurfaceExtents : e # U!NoExtent
<1>1. s0 \in Surfaces  BY DEF U!SurfacesAssumption
<1>2. e0 \in SurfaceExtents  BY DEF U!SurfacesAssumption
<1>3. U!First \in Copies /\ U!NoSurface \in Copies /\ U!First.surface \in Surfaces
  BY <1>1, <1>2 DEF U!First, Copies, U!NoSurface, U!SurfacesAssumption
<1>4. 0 \in 0 .. Attempts - 1 /\ 0 \in 0 .. StablePolls  BY DEF U!CountsAssumption
<1> SUFFICES ASSUME U!Init PROVE SurfaceInv
  OBVIOUS
<1>5. wait \in [running : BOOLEAN, attempt : 0..Attempts - 1, stable : 0..StablePolls, last : Copies]
  BY <1>3, <1>4 DEF U!Init, U!NotWaiting
<1>6. SurfaceTyped
  BY <1>3, <1>4, <1>5 DEF U!Init, SurfaceTyped
<1> QED
  BY <1>6 DEF U!Init, SurfaceInv, LossIsTold, WaitIsSteady, U!NotWaiting

\* Every step keeps the invariant.
LEMMA SurfaceInvKept ==
  ASSUME U!SurfacesAssumption, U!CountsAssumption, SurfaceInv, [U!Next]_U!vars
  PROVE  SurfaceInv'
<1> USE DEF SurfaceInv, SurfaceTyped, LossIsTold, WaitIsSteady
<1>n. U!NoSurface \in Copies  BY DEF U!NoSurface, Copies, U!SurfacesAssumption
<1>1. CASE U!SystemChanges
  BY <1>1, <1>n DEF U!SystemChanges, Copies
<1>p. ASSUME U!Pump PROVE cached' \in Copies /\ steady' \in 0 .. StablePolls
  BY <1>p DEF U!Pump, U!CountsAssumption
<1>2. CASE U!PollEvents
  BY <1>2, <1>p DEF U!PollEvents, U!Pump, Copies
<1>3. CASE U!WaitUntilWindowReady
  <2>1. /\ wait' = [U!NotWaiting EXCEPT !.running = TRUE] /\ used' = U!NotUsed /\ lost' = FALSE
        /\ native' = native /\ cached' = cached /\ last' = last /\ steady' = steady
    BY <1>3 DEF U!WaitUntilWindowReady
  <2>2. wait' = [running |-> TRUE, attempt |-> 0, stable |-> 0, last |-> U!NoSurface]
    BY <2>1 DEF U!NotWaiting
  <2>3. 0 \in 0 .. Attempts - 1 /\ 0 \in 0 .. StablePolls  BY DEF U!CountsAssumption
  <2>4. wait' \in [running : BOOLEAN, attempt : 0..Attempts - 1, stable : 0..StablePolls, last : Copies]
    BY <2>2, <2>3, <1>n
  <2>5. used' \in [surface : Surfaces \cup {U!None}, steady : {StablePolls}] /\ used'.surface = U!None
    BY <2>1 DEF U!NotUsed
  <2>6. WaitIsSteady'  BY <2>1, <2>2, <2>5 DEF U!CountsAssumption
  <2> QED  BY <2>1, <2>4, <2>5, <2>6
<1>4. CASE U!Attempt
  <2>1. cached' = native /\ steady' = IF native # cached THEN 0 ELSE IF steady < StablePolls THEN steady + 1 ELSE steady
    BY <1>4 DEF U!Attempt, U!Pump
  <2>2. cached' \in Copies /\ steady' \in 0 .. StablePolls  BY <1>4, <1>p DEF U!Attempt
  <2>3. /\ U!Stable(cached') \in Nat
        /\ U!Stable(cached') <= steady' \/ (U!Stable(cached') >= StablePolls /\ steady' = StablePolls)
    <3>1. CASE U!Usable(cached') /\ cached' = wait.last
      <4>1. cached' = cached  BY <1>4, <3>1 DEF U!Attempt, U!Usable, U!NoSurface
      <4>2. U!Stable(cached') = wait.stable + 1  BY <3>1 DEF U!Stable
      <4>3. wait.stable \in 0..StablePolls /\ steady \in 0..StablePolls /\ wait.stable <= steady  BY <1>4 DEF U!Attempt
      <4>4. steady' = IF steady < StablePolls THEN steady + 1 ELSE steady  BY <2>1, <4>1
      <4>5. CASE steady < StablePolls  BY <4>2, <4>3, <4>4, <4>5 DEF U!CountsAssumption
      <4>6. CASE ~(steady < StablePolls)
        <5>1. steady' = StablePolls  BY <4>3, <4>4, <4>6 DEF U!CountsAssumption
        <5>2. CASE wait.stable + 1 <= StablePolls  BY <4>2, <4>3, <5>1, <5>2 DEF U!CountsAssumption
        <5>3. CASE ~(wait.stable + 1 <= StablePolls)  BY <4>2, <4>3, <5>1, <5>3 DEF U!CountsAssumption
        <5> QED  BY <5>2, <5>3
      <4> QED  BY <4>5, <4>6
    <3>2. CASE ~(U!Usable(cached') /\ cached' = wait.last)
      <4>1. U!Stable(cached') = 0  BY <3>2 DEF U!Stable
      <4> QED  BY <2>2, <4>1 DEF U!CountsAssumption
    <3> QED  BY <3>1, <3>2
  <2>4. U!Remembered(cached') \in {cached', U!NoSurface}  BY DEF U!Remembered
  <2>5. CASE U!Stable(cached') >= StablePolls
    <3>1. wait' = U!NotWaiting /\ used' = [surface |-> cached'.surface, steady |-> steady'] /\ native' = native /\ last' = last /\ lost' = lost
      BY <1>4, <2>5 DEF U!Attempt
    <3>2. steady' = StablePolls  BY <2>2, <2>3, <2>5 DEF U!CountsAssumption
    <3> QED  BY <3>1, <3>2, <2>2, <1>n DEF U!NotWaiting, U!CountsAssumption, Copies
  <2>6. CASE ~(U!Stable(cached') >= StablePolls)
    <3>1. /\ wait' = (IF wait.attempt + 1 = Attempts THEN U!NotWaiting
                    ELSE [wait EXCEPT !.attempt = @ + 1, !.stable = U!Stable(cached'), !.last = U!Remembered(cached')])
          /\ used' = used /\ native' = native /\ last' = last /\ lost' = lost
      BY <1>4, <2>6 DEF U!Attempt
    <3>2. wait.running BY <1>4 DEF U!Attempt
    <3>a. wait.attempt + 1 # Attempts => wait.attempt + 1 \in 0 .. Attempts - 1
      BY DEF U!CountsAssumption
    <3>b. U!Stable(cached') \in 0 .. StablePolls  BY <2>3, <2>6 DEF U!CountsAssumption
    <3>3. wait' \in [running : BOOLEAN, attempt : 0..Attempts - 1, stable : 0..StablePolls, last : Copies]
      <4>1. CASE wait.attempt + 1 = Attempts
        <5>1. wait' = [running |-> FALSE, attempt |-> 0, stable |-> 0, last |-> U!NoSurface]  BY <3>1, <4>1 DEF U!NotWaiting
        <5>2. 0 \in 0 .. Attempts - 1 /\ 0 \in 0 .. StablePolls  BY DEF U!CountsAssumption
        <5> QED  BY <5>1, <5>2, <1>n
      <4>2. CASE wait.attempt + 1 # Attempts
        <5>1. wait' = [wait EXCEPT !.attempt = wait.attempt + 1, !.stable = U!Stable(cached'), !.last = U!Remembered(cached')]
          BY <3>1, <4>2
        <5>2. U!Remembered(cached') \in Copies  BY <2>2, <2>4, <1>n
        <5> QED  BY <5>1, <5>2, <3>a, <3>b, <4>2
      <4> QED  BY <4>1, <4>2
    <3>4. WaitIsSteady'
      BY <3>1, <3>2, <2>3, <2>4, <2>6 DEF U!NotWaiting, U!CountsAssumption
    <3> QED  BY <3>1, <3>2, <3>3, <3>4, <2>2 
  <2> QED  BY <2>5, <2>6
<1>5. CASE UNCHANGED U!vars
  BY <1>5 DEF U!vars, U!NoSurface
<1> QED  BY <1>1, <1>2, <1>3, <1>4, <1>5 DEF U!Next

\* What the runs check follows.
LEMMA SurfaceInvImplies == ASSUME U!CountsAssumption PROVE SurfaceInv => U!TypeOK /\ U!SurfaceIsCurrent
BY DEF U!CountsAssumption, SurfaceInv, SurfaceTyped, LossIsTold, WaitIsSteady, U!TypeOK, U!SurfaceIsCurrent, Copies

-----------------------------------------------------------------------------
(***************************************************************************)
(* FrameLoop.                                                              *)
(*                                                                         *)
(* The argument: a rate that was read is the display's, or what will make  *)
(* the loop read it again is on its way. On X11 that is a position other   *)
(* than lastX_ and lastY_, so the queue must end in the window's position. *)
(***************************************************************************)

\* No window comes to lie on another monitor by growing.
NothingGrows == \A s \in LoopSetups : ~s.growing

\* Where a window is and what its monitors run at, and the events.
Displays == [place : Places, extent : Extents, rates : [F!Monitors -> Rates]]
LoopEvents == [is : {"configured"}, place : Places] \cup [is : {"display"}]

\* The variables' types.
LoopTyped ==
  /\ setup \in LoopSetups
  /\ display \in Displays
  /\ sent \in Seq(LoopEvents)
  /\ changed \in BOOLEAN /\ waits \in BOOLEAN
  /\ rate = [hz |-> rate.hz, have |-> rate.have] /\ rate.have \in BOOLEAN
  /\ rate.hz \in Rates \cup {F!Unknown}

\* The frame's times.
LoopTimed ==
  /\ timer = [target |-> timer.target, spent |-> timer.spent, delta |-> timer.delta, held |-> timer.held]
  /\ timer.target \in Nat /\ timer.spent \in Nat /\ timer.delta \in Nat /\ timer.held \in Nat
  /\ timer.delta >= timer.held

\* An event that tells of a position.
ToldOfPlace(place, i) == sent[i].is = "configured" /\ sent[i].place = place

\* X11: the last position the queue tells of, or else the one known, is the window's.
PositionIsKnown ==
  ~F!Sdl =>
    /\ display.place # last => \E i \in 1 .. Len(sent) : ToldOfPlace(display.place, i)
    /\ \A i \in 1 .. Len(sent) :
         sent[i].is = "configured" /\ sent[i].place # display.place =>
           \E j \in 1 .. Len(sent) : j > i /\ ToldOfPlace(display.place, j)

\* An event in the queue that marks the display as changed.
WillMark ==
  \E i \in 1 .. Len(sent) :
    \/ sent[i].is = "display"
    \/ ~F!Sdl /\ sent[i].is = "configured" /\ sent[i].place # last

\* A rate is only read for the cap, and it is the display's until something is under way.
RateIsFresh ==
  rate.have => F!CapsAtDisplayRate /\ (changed \/ WillMark \/ rate.hz = F!DisplayRefreshHz)

\* While the application acts, the frame has the period of the rate that was read.
FrameIsTimed ==
  phase = "acting" =>
    /\ ~changed
    /\ timer.target = F!Period(F!EffectiveTargetFPS(rate.hz))
    /\ F!CapsAtDisplayRate => rate.have

\* The inductive invariant.
LoopInv == LoopTyped /\ LoopTimed /\ PositionIsKnown /\ RateIsFresh /\ FrameIsTimed


(* Lemmas.                                                                  *)

\* What the loop knows of the display, from what the display is.
LEMMA RateOfPlace ==
  ASSUME LoopTyped, LoopTyped', setup' = setup, display'.rates = display.rates, F!Monitor(display') = F!Monitor(display)
  PROVE  F!DisplayRefreshHz' = F!DisplayRefreshHz
BY DEF F!DisplayRefreshHz

\* A period is a number of ticks.
LEMMA PeriodIsTicks ==
  ASSUME F!TicksAssumption, NEW fps \in Nat
  PROVE  F!Period(fps) \in Nat
BY DEF F!TicksAssumption, F!Period

\* So is the rate the loop is capped at.
LEMMA TargetIsNumber ==
  ASSUME F!SetupsAssumption, F!RatesAssumption, LoopTyped, NEW hz \in Rates \cup {F!Unknown}
  PROVE  F!EffectiveTargetFPS(hz) \in Nat
BY DEF F!SetupsAssumption, F!RatesAssumption, LoopTyped, F!EffectiveTargetFPS, F!Unknown, F!kUnpacedVsyncFPS

\* The rate that is read is one of the monitors', or unknown.
LEMMA RefreshIsRate == ASSUME LoopTyped PROVE F!DisplayRefreshHz \in Rates \cup {F!Unknown}
BY DEF LoopTyped, Displays, F!DisplayRefreshHz, F!Monitor, F!Monitors, F!Unknown

\* Sending at most one event adds it at the end.
LEMMA LoopSentAfter ==
  ASSUME sent \in Seq(LoopEvents), NEW e \in LoopEvents, sent' = sent \o <<e>>
  PROVE  /\ sent' \in Seq(LoopEvents) /\ Len(sent') = Len(sent) + 1
         /\ sent'[Len(sent) + 1] = e
         /\ \A i \in 1 .. Len(sent) : sent'[i] = sent[i]
OBVIOUS

\* Polling takes the first event, and the others move up.
LEMMA LoopPolled ==
  ASSUME sent \in Seq(LoopEvents), sent # <<>>, sent' = Tail(sent)
  PROVE  /\ sent' \in Seq(LoopEvents) /\ Head(sent) \in LoopEvents /\ Head(sent) = sent[1]
         /\ Len(sent') = Len(sent) - 1 /\ Len(sent) >= 1
         /\ \A i \in 1 .. Len(sent') : sent'[i] = sent[i + 1]
OBVIOUS


(* The invariant.                                                           *)

\* The loop begins without a rate, on X11 with the window's position on its way
\* (the constructors of IWindowManager and FrameTimer).
LEMMA LoopInvInit ==
  ASSUME F!PlacesAssumption, F!RatesAssumption, F!SetupsAssumption, F!Init
  PROVE  LoopInv
<1>0. /\ setup \in LoopSetups /\ display \in Displays /\ changed \in BOOLEAN /\ waits \in BOOLEAN
      /\ rate = [hz |-> rate.hz, have |-> rate.have] /\ rate.have \in BOOLEAN
      /\ rate.hz \in Rates \cup {F!Unknown}
      /\ LoopTimed /\ RateIsFresh /\ FrameIsTimed
  <2>1. setup \in LoopSetups /\ display \in Displays  BY DEF F!Init, Displays
  <2>2. waits \in BOOLEAN /\ changed \in BOOLEAN  BY Zenon DEF F!Init, F!SetupsAssumption
  <2>3. rate = [hz |-> F!Unknown, have |-> FALSE] /\ phase = "polling"  BY DEF F!Init
  <2>4. LoopTimed  BY DEF F!Init, LoopTimed
  <2> QED  BY <2>1, <2>2, <2>3, <2>4 DEF RateIsFresh, FrameIsTimed
<1>1. CASE setup.backend = "x11"
  <2>1. sent = <<[is |-> "configured", place |-> display.place]>>  BY <1>1 DEF F!Init
  <2>2. [is |-> "configured", place |-> display.place] \in LoopEvents
    BY DEF F!Init, LoopEvents
  <2>3. sent \in Seq(LoopEvents) /\ Len(sent) = 1 /\ sent[1].place = display.place /\ sent[1].is = "configured"
    BY <2>1, <2>2
  <2>4. PositionIsKnown  BY <2>3 DEF PositionIsKnown, ToldOfPlace
  <2> QED  BY <1>0, <2>3, <2>4 DEF LoopInv, LoopTyped
<1>2. CASE setup.backend # "x11"
  <2>1. F!Sdl /\ sent = <<>>  BY <1>2 DEF F!Init, F!SetupsAssumption, F!Sdl
  <2>2. sent \in Seq(LoopEvents)  BY <2>1
  <2>3. PositionIsKnown  BY <2>1 DEF PositionIsKnown
  <2> QED  BY <1>0, <2>2, <2>3 DEF LoopInv, LoopTyped
<1> QED  BY <1>1, <1>2

\* A change of the display is told of, unless the rate stays.
LEMMA LoopChangeKeeps ==
  ASSUME NothingGrows, LoopInv, F!DisplayChanges
  PROVE  LoopInv'
<1> DEFINE told == F!Announce(display')
<1>1. /\ display' \in Displays /\ sent' = sent \o told
      /\ UNCHANGED <<setup, last, changed, waits, rate, timer, phase>>
  BY DEF F!DisplayChanges, LoopInv, LoopTyped, Displays
<1>2. display'.rates # display.rates => display'.place = display.place /\ display'.extent = display.extent
  BY DEF F!DisplayChanges, LoopInv, LoopTyped, Displays
<1>3. F!Sdl \/ (display'.place = display.place => F!Monitor(display') = F!Monitor(display))
  BY DEF F!DisplayChanges, LoopInv, LoopTyped, Displays, NothingGrows, F!Monitor
<1>4. LoopTyped /\ PositionIsKnown /\ RateIsFresh  BY DEF LoopInv
<1>5. LoopTimed' /\ FrameIsTimed'
  BY <1>1 DEF LoopInv, LoopTimed, FrameIsTimed, F!EffectiveTargetFPS, F!CapsAtDisplayRate
<1>6. CASE F!Sdl /\ told = <<>>
  <2>1. sent' = sent  BY <1>1, <1>4, <1>6 DEF LoopTyped
  <2>2. display'.rates[F!Monitor(display')] = display.rates[F!Monitor(display)]
    BY <1>6 DEF F!Announce
  <2>3. F!DisplayRefreshHz' = F!DisplayRefreshHz  BY <1>1, <2>2 DEF F!DisplayRefreshHz
  <2>4. LoopTyped' /\ PositionIsKnown'
    BY <1>1, <1>4, <1>6, <2>1 DEF LoopTyped, PositionIsKnown, F!Sdl
  <2>5. RateIsFresh'
    BY <1>1, <1>4, <2>1, <2>3 DEF RateIsFresh, F!CapsAtDisplayRate, WillMark, F!Sdl
  <2> QED  BY <1>5, <2>4, <2>5 DEF LoopInv
<1>7. CASE told = <<[is |-> "display"]>>
  <2>1. [is |-> "display"] \in LoopEvents /\ sent' = sent \o <<[is |-> "display"]>>
    BY <1>1, <1>7 DEF LoopEvents
  <2>2. /\ sent' \in Seq(LoopEvents) /\ Len(sent') = Len(sent) + 1
        /\ sent'[Len(sent) + 1].is = "display"
        /\ \A i \in 1 .. Len(sent) : sent'[i] = sent[i]
    BY <1>4, <2>1, LoopSentAfter DEF LoopTyped
  <2>3. LoopTyped'  BY <1>1, <1>4, <2>2 DEF LoopTyped
  <2>4. WillMark'  BY <1>4, <2>2 DEF WillMark, LoopTyped
  <2>5. PositionIsKnown'
    <3>1. ~F!Sdl => display'.place = display.place
      BY <1>2, <1>7 DEF F!Announce
    <3> QED  BY <1>1, <1>4, <2>2, <3>1 DEF PositionIsKnown, ToldOfPlace, LoopTyped, F!Sdl
  <2>6. RateIsFresh'  BY <1>1, <1>4, <2>4 DEF RateIsFresh, F!CapsAtDisplayRate
  <2> QED  BY <1>5, <2>3, <2>5, <2>6 DEF LoopInv
<1>8. CASE ~F!Sdl /\ told = <<[is |-> "configured", place |-> display'.place]>>
  <2> DEFINE e == [is |-> "configured", place |-> display'.place]
  <2>1. e \in LoopEvents /\ sent' = sent \o <<e>>  BY <1>1, <1>8 DEF LoopEvents, Displays
  <2>2. /\ sent' \in Seq(LoopEvents) /\ Len(sent') = Len(sent) + 1
        /\ sent'[Len(sent) + 1] = e
        /\ \A i \in 1 .. Len(sent) : sent'[i] = sent[i]
    BY <1>4, <2>1, LoopSentAfter DEF LoopTyped
  <2>3. LoopTyped'  BY <1>1, <1>4, <2>2 DEF LoopTyped
  <2>4. /\ Len(sent') \in 1 .. Len(sent')
        /\ sent'[Len(sent')].is = "configured" /\ sent'[Len(sent')].place = display'.place
        /\ \A i \in 1 .. Len(sent') : i # Len(sent') => i < Len(sent')
    BY <1>4, <2>2 DEF LoopTyped
  <2>5. PositionIsKnown'
    BY <2>4 DEF PositionIsKnown, ToldOfPlace
  <2>6. CASE WillMark'
    <3>1. RateIsFresh'  BY <1>1, <1>4, <2>6 DEF RateIsFresh, F!CapsAtDisplayRate
    <3> QED  BY <1>5, <2>3, <2>5, <3>1 DEF LoopInv
  <2>7. CASE ~WillMark'
    <3>1. display'.place = last  BY <1>1, <1>4, <1>8, <2>2, <2>7 DEF WillMark, F!Sdl, LoopTyped
    <3>2. ~WillMark  BY <1>1, <1>4, <1>8, <2>2, <2>7 DEF WillMark, F!Sdl, LoopTyped
    <3>3. display.place = last
      BY <1>4, <1>8, <3>2 DEF PositionIsKnown, WillMark, ToldOfPlace
    <3>4. F!Monitor(display') = F!Monitor(display)  BY <1>3, <1>8, <3>1, <3>3
    <3>5. display'.rates = display.rates  BY <1>8 DEF F!Announce
    <3>6. F!DisplayRefreshHz' = F!DisplayRefreshHz  BY <1>1, <1>4, <2>3, <3>4, <3>5, RateOfPlace
    <3>7. RateIsFresh'  BY <1>1, <1>4, <3>2, <3>6 DEF RateIsFresh, F!CapsAtDisplayRate
    <3> QED  BY <1>5, <2>3, <2>5, <3>7 DEF LoopInv
  <2> QED  BY <2>6, <2>7
<1> QED  BY <1>6, <1>7, <1>8 DEF F!Announce

\* Polling marks the display as changed, or what was under way still is.
LEMMA LoopPollKeeps ==
  ASSUME LoopInv, F!PollEvent
  PROVE  LoopInv'
<1>1. /\ sent # <<>> /\ sent' = Tail(sent) /\ changed' = (changed \/ F!Marks(Head(sent)))
      /\ last' = IF Head(sent).is = "configured" THEN Head(sent).place ELSE last
      /\ UNCHANGED <<setup, display, waits, rate, timer, phase>> /\ phase = "polling"
  BY DEF F!PollEvent
<1>2. LoopTyped /\ PositionIsKnown /\ RateIsFresh  BY DEF LoopInv
<1>3. /\ sent' \in Seq(LoopEvents) /\ Head(sent) = sent[1] /\ sent[1] \in LoopEvents
      /\ Len(sent') = Len(sent) - 1 /\ Len(sent) >= 1
      /\ \A i \in 1 .. Len(sent') : sent'[i] = sent[i + 1]
  BY <1>1, <1>2, LoopPolled DEF LoopTyped
<1>4. changed' \in BOOLEAN
  <2>1. F!Marks(Head(sent)) \in BOOLEAN  BY DEF F!Marks
  <2> QED  BY <1>1, <1>2, <2>1, Zenon DEF LoopTyped
<1>5. LoopTyped'  BY <1>1, <1>2, <1>3, <1>4 DEF LoopTyped
<1>6. LoopTimed' /\ FrameIsTimed'
  BY <1>1 DEF LoopInv, LoopTimed, FrameIsTimed
\* What is behind the first event is found one place earlier.
<1>7. \A i \in 1 .. Len(sent) : i # 1 => i - 1 \in 1 .. Len(sent') /\ sent'[i - 1] = sent[i]
  BY <1>2, <1>3 DEF LoopTyped
<1>8. PositionIsKnown'
  <2> SUFFICES ASSUME ~F!Sdl PROVE
        /\ display.place # last' => \E i \in 1 .. Len(sent') : ToldOfPlace(display.place, i)'
        /\ \A i \in 1 .. Len(sent') :
             sent'[i].is = "configured" /\ sent'[i].place # display.place =>
               \E j \in 1 .. Len(sent') : j > i /\ ToldOfPlace(display.place, j)'
    BY <1>1 DEF PositionIsKnown, ToldOfPlace, F!Sdl
  <2>1. ASSUME NEW j \in 1 .. Len(sent), j # 1, ToldOfPlace(display.place, j)
        PROVE  j - 1 \in 1 .. Len(sent') /\ ToldOfPlace(display.place, j - 1)'
    BY <1>1, <1>7, <2>1 DEF ToldOfPlace
  <2>2. ASSUME display.place # last' PROVE \E i \in 1 .. Len(sent') : ToldOfPlace(display.place, i)'
    <3>1. PICK j \in 1 .. Len(sent) : j # 1 /\ ToldOfPlace(display.place, j)
      <4>1. CASE sent[1].is = "configured"
        <5>1. sent[1].place # display.place  BY <1>1, <1>3, <2>2, <4>1
        <5>2. PICK j \in 1 .. Len(sent) : j > 1 /\ ToldOfPlace(display.place, j)
          BY <1>2, <1>3, <4>1, <5>1 DEF PositionIsKnown
        <5> QED  BY <5>2
      <4>2. CASE sent[1].is # "configured"
        <5>1. PICK j \in 1 .. Len(sent) : ToldOfPlace(display.place, j)
          BY <1>1, <1>2, <1>3, <2>2, <4>2 DEF PositionIsKnown
        <5> QED  BY <4>2, <5>1 DEF ToldOfPlace
      <4> QED  BY <4>1, <4>2
    <3> QED  BY <2>1, <3>1
  <2>3. ASSUME NEW i \in 1 .. Len(sent'), sent'[i].is = "configured", sent'[i].place # display.place
        PROVE  \E j \in 1 .. Len(sent') : j > i /\ ToldOfPlace(display.place, j)'
    <3>1. i + 1 \in 1 .. Len(sent) /\ sent[i + 1] = sent'[i]  BY <1>2, <1>3 DEF LoopTyped
    <3>2. PICK j \in 1 .. Len(sent) : j > i + 1 /\ ToldOfPlace(display.place, j)
      BY <1>2, <2>3, <3>1 DEF PositionIsKnown
    <3>3. j # 1 /\ j - 1 > i  BY <3>2
    <3> QED  BY <2>1, <3>2, <3>3
  <2> QED  BY <2>2, <2>3
<1>9. RateIsFresh'
  <2> SUFFICES ASSUME rate.have, ~changed' PROVE WillMark' \/ rate.hz = F!DisplayRefreshHz
    BY <1>1, <1>2 DEF RateIsFresh, F!CapsAtDisplayRate, F!DisplayRefreshHz
  <2>1. ~changed /\ sent[1].is # "display" /\ sent[1].place = last  BY <1>1, <1>3 DEF F!Marks
  <2>2. last' = last  BY <1>1, <1>3, <2>1
  <2>3. CASE WillMark
    <3>1. PICK i \in 1 .. Len(sent) :
            \/ sent[i].is = "display"
            \/ ~F!Sdl /\ sent[i].is = "configured" /\ sent[i].place # last
      BY <2>3 DEF WillMark
    <3>2. i # 1  BY <2>1, <3>1
    <3>3. i - 1 \in 1 .. Len(sent') /\ sent'[i - 1] = sent[i]  BY <1>7, <3>2
    <3> QED  BY <1>1, <2>2, <3>1, <3>3 DEF WillMark, F!Sdl
  <2> QED  BY <1>2, <2>1, <2>3 DEF RateIsFresh
<1> QED  BY <1>5, <1>6, <1>8, <1>9 DEF LoopInv

\* The loop's own steps: with the queue empty, the rate it goes on with is the display's.
LEMMA LoopFrameKeeps ==
  ASSUME F!SetupsAssumption, F!TicksAssumption, F!RatesAssumption, LoopInv, F!Decide \/ F!Act \/ F!EndFrame
  PROVE  LoopInv'
<1>0. LoopTyped /\ LoopTimed /\ PositionIsKnown /\ RateIsFresh /\ FrameIsTimed  BY DEF LoopInv
<1>1. CASE F!Decide
  <2>1. /\ sent = <<>> /\ rate' = IF F!Reads THEN [hz |-> F!DisplayRefreshHz, have |-> TRUE] ELSE rate
        /\ changed' = FALSE /\ phase' = "acting"
        /\ timer' = [timer EXCEPT !.target = F!Period(F!EffectiveTargetFPS(rate'.hz))]
        /\ UNCHANGED <<setup, display, sent, last, waits>>
    BY <1>1 DEF F!Decide
  <2>2. LoopTyped'  BY <1>0, <2>1, RefreshIsRate DEF LoopTyped
  <2>3. F!Period(F!EffectiveTargetFPS(rate'.hz)) \in Nat
    BY <1>0, <2>2, TargetIsNumber, PeriodIsTicks DEF LoopTyped
  <2>4. timer' = [target |-> F!Period(F!EffectiveTargetFPS(rate'.hz)), spent |-> timer.spent,
                  delta |-> timer.delta, held |-> timer.held]
    BY <1>0, <2>1 DEF LoopTimed
  <2>5. LoopTimed'  BY <1>0, <2>3, <2>4 DEF LoopTimed
  <2>6. PositionIsKnown'  BY <1>0, <2>1 DEF PositionIsKnown, ToldOfPlace, F!Sdl
  <2>7. ~WillMark  BY <2>1 DEF WillMark
  <2>8. RateIsFresh'
    <3>1. CASE F!Reads
      BY <2>1, <3>1 DEF F!Reads, RateIsFresh, F!CapsAtDisplayRate, F!DisplayRefreshHz
    <3>2. CASE ~F!Reads
      BY <1>0, <2>1, <2>7, <3>2 DEF F!Reads, RateIsFresh, F!CapsAtDisplayRate, F!DisplayRefreshHz
    <3> QED  BY <3>1, <3>2
  <2>9. FrameIsTimed'
    <3>1. \A hz : F!EffectiveTargetFPS(hz)' = F!EffectiveTargetFPS(hz)
      BY <2>1 DEF F!EffectiveTargetFPS, F!CapsAtDisplayRate
    <3>2. timer'.target = F!Period(F!EffectiveTargetFPS(rate'.hz))  BY <2>4
    <3>3. F!CapsAtDisplayRate' => rate'.have
      BY <2>1 DEF F!Reads, F!CapsAtDisplayRate
    <3> QED  BY <2>1, <3>1, <3>2, <3>3 DEF FrameIsTimed, F!EffectiveTargetFPS, F!CapsAtDisplayRate, F!Period
  <2> QED  BY <2>2, <2>5, <2>6, <2>8, <2>9 DEF LoopInv
<1>2. CASE F!Act
  <2>1. PICK spent \in 0 .. MaxSpent : timer' = [timer EXCEPT !.spent = spent]
    BY <1>2 DEF F!Act
  <2>2. /\ waits' \in {waits, FALSE} /\ phase' = "pacing"
        /\ UNCHANGED <<setup, display, sent, last, changed, rate>>
    BY <1>2 DEF F!Act
  <2>3. LoopTimed'
    <3>1. timer' = [target |-> timer.target, spent |-> spent, delta |-> timer.delta, held |-> timer.held]
      BY <1>0, <2>1 DEF LoopTimed
    <3> QED  BY <1>0, <3>1 DEF LoopTimed, F!TicksAssumption
  <2>4. LoopTyped' /\ PositionIsKnown'
    BY <1>0, <2>2 DEF LoopTyped, PositionIsKnown, ToldOfPlace, F!Sdl
  <2>5. FrameIsTimed'  BY <2>2 DEF FrameIsTimed
  \* Present can only be lost: a loop that caps its rate goes on capping it.
  <2>6. F!CapsAtDisplayRate => F!CapsAtDisplayRate'  BY <2>2, Zenon DEF F!CapsAtDisplayRate
  <2>7. WillMark' = WillMark /\ F!DisplayRefreshHz' = F!DisplayRefreshHz
    BY <2>2 DEF WillMark, F!Sdl, F!DisplayRefreshHz
  <2>8. RateIsFresh'  BY <1>0, <2>2, <2>6, <2>7, Zenon DEF RateIsFresh
  <2> QED  BY <2>3, <2>4, <2>5, <2>8 DEF LoopInv
<1>3. CASE F!EndFrame
  <2>1. /\ phase' = "polling" /\ UNCHANGED <<setup, display, sent, last, changed, waits, rate>>
        /\ timer' = [timer EXCEPT !.spent = 0, !.delta = F!Slept, !.held = timer.target]
    BY <1>3 DEF F!EndFrame
  <2>2. timer' = [target |-> timer.target, spent |-> 0, delta |-> F!Slept, held |-> timer.target]
    BY <1>0, <2>1 DEF LoopTimed
  <2>3. LoopTimed'  BY <1>0, <2>2 DEF LoopTimed, F!Slept
  <2>4. LoopTyped' /\ PositionIsKnown' /\ RateIsFresh' /\ FrameIsTimed'
    BY <1>0, <2>1
    DEF LoopTyped, PositionIsKnown, ToldOfPlace, F!Sdl, RateIsFresh, F!CapsAtDisplayRate, WillMark, F!DisplayRefreshHz, FrameIsTimed
  <2> QED  BY <2>3, <2>4 DEF LoopInv
<1> QED  BY <1>1, <1>2, <1>3


(* The types, which do not depend on how windows grow.                      *)

\* The rest of the types.
LoopRanged ==
  /\ last \in Places /\ phase \in {"polling", "acting", "pacing"}
  /\ timer = [target |-> timer.target, spent |-> timer.spent, delta |-> timer.delta, held |-> timer.held]
  /\ timer.spent \in 0 .. MaxSpent

\* The types hold at first.
LEMMA LoopTypesInit ==
  ASSUME F!PlacesAssumption, F!RatesAssumption, F!SetupsAssumption, F!TicksAssumption, F!Init
  PROVE  LoopTyped /\ LoopRanged
<1>1. LoopTyped  BY LoopInvInit DEF LoopInv
<1>2. LoopRanged  BY DEF F!Init, LoopRanged, F!PlacesAssumption, F!TicksAssumption
<1> QED  BY <1>1, <1>2

\* Every step keeps them.
LEMMA LoopTypesKept ==
  ASSUME F!PlacesAssumption, F!TicksAssumption, LoopTyped, LoopRanged, [F!Next]_F!vars
  PROVE  LoopTyped' /\ LoopRanged'
<1>1. CASE F!DisplayChanges
  <2>1. display' \in Displays /\ UNCHANGED <<setup, last, changed, waits, rate, timer, phase>>
    BY <1>1 DEF F!DisplayChanges, LoopTyped, Displays
  <2>2. sent' \in Seq(LoopEvents)
    <3>1. sent' = sent \o F!Announce(display')  BY <1>1 DEF F!DisplayChanges
    <3>2. [is |-> "display"] \in LoopEvents /\ [is |-> "configured", place |-> display'.place] \in LoopEvents
      BY <2>1 DEF LoopEvents, Displays
    <3>3. \/ F!Announce(display') = <<>> \/ F!Announce(display') = <<[is |-> "display"]>>
          \/ F!Announce(display') = <<[is |-> "configured", place |-> display'.place]>>
      BY DEF F!Announce
    <3>4. \A e \in LoopEvents : sent \o <<e>> \in Seq(LoopEvents)  BY DEF LoopTyped
    <3>5. sent \o <<>> \in Seq(LoopEvents)  BY DEF LoopTyped
    <3> QED  BY <3>1, <3>2, <3>3, <3>4, <3>5
  <2> QED  BY <2>1, <2>2 DEF LoopTyped, LoopRanged
<1>2. CASE F!PollEvent
  <2>1. sent' \in Seq(LoopEvents) /\ Head(sent) \in LoopEvents  BY <1>2, LoopPolled DEF F!PollEvent, LoopTyped
  <2>2. changed' \in BOOLEAN
    <3>1. F!Marks(Head(sent)) \in BOOLEAN  BY DEF F!Marks
    <3> QED  BY <1>2, <3>1, Zenon DEF LoopTyped, F!PollEvent
  <2>3. last' \in Places  BY <1>2, <2>1 DEF F!PollEvent, LoopRanged, LoopEvents
  <2>4. UNCHANGED <<setup, display, waits, rate, timer, phase>>  BY <1>2 DEF F!PollEvent
  <2> QED  BY <2>1, <2>2, <2>3, <2>4 DEF LoopTyped, LoopRanged
<1>3. CASE F!Decide
  <2>1. /\ rate' = IF F!Reads THEN [hz |-> F!DisplayRefreshHz, have |-> TRUE] ELSE rate
        /\ changed' = FALSE /\ phase' = "acting"
        /\ timer' = [timer EXCEPT !.target = F!Period(F!EffectiveTargetFPS(rate'.hz))]
        /\ UNCHANGED <<setup, display, sent, last, waits>>
    BY <1>3 DEF F!Decide
  <2>2. LoopTyped'  BY <2>1, RefreshIsRate DEF LoopTyped
  <2>3. timer' = [target |-> F!Period(F!EffectiveTargetFPS(rate'.hz)), spent |-> timer.spent,
                  delta |-> timer.delta, held |-> timer.held]
    BY <2>1 DEF LoopRanged
  <2> QED  BY <2>1, <2>2, <2>3 DEF LoopRanged
<1>4. CASE F!Act
  <2>1. PICK spent \in 0 .. MaxSpent : timer' = [timer EXCEPT !.spent = spent]
    BY <1>4 DEF F!Act
  <2>2. /\ waits' \in {waits, FALSE} /\ phase' = "pacing"
        /\ UNCHANGED <<setup, display, sent, last, changed, rate>>
    BY <1>4 DEF F!Act
  <2>3. timer' = [target |-> timer.target, spent |-> spent, delta |-> timer.delta, held |-> timer.held]
    BY <2>1 DEF LoopRanged
  <2> QED  BY <2>2, <2>3 DEF LoopTyped, LoopRanged
<1>5. CASE F!EndFrame
  <2>1. /\ phase' = "polling" /\ UNCHANGED <<setup, display, sent, last, changed, waits, rate>>
        /\ timer' = [target |-> timer.target, spent |-> 0, delta |-> F!Slept, held |-> timer.target]
    BY <1>5 DEF F!EndFrame, LoopRanged
  <2> QED  BY <2>1 DEF LoopTyped, LoopRanged, F!TicksAssumption
<1>6. CASE UNCHANGED F!vars
  BY <1>6 DEF F!vars, LoopTyped, LoopRanged
<1> QED  BY <1>1, <1>2, <1>3, <1>4, <1>5, <1>6 DEF F!Next

\* They are what the runs check.
LEMMA LoopTypesImply == LoopTyped /\ LoopRanged => F!TypeOK
BY DEF LoopTyped, LoopRanged, F!TypeOK, Displays


(* What it gives.                                                           *)

\* Every step keeps the invariant.
LEMMA LoopInvKept ==
  ASSUME F!SetupsAssumption, F!TicksAssumption, F!RatesAssumption, NothingGrows, LoopInv, [F!Next]_F!vars
  PROVE  LoopInv'
<1>1. ASSUME UNCHANGED F!vars PROVE LoopInv'
  BY <1>1
  DEF F!vars, LoopInv, LoopTyped, LoopTimed, PositionIsKnown, ToldOfPlace, F!Sdl, RateIsFresh, F!CapsAtDisplayRate,
      WillMark, F!DisplayRefreshHz, FrameIsTimed, F!EffectiveTargetFPS
<1> QED  BY <1>1, LoopChangeKeeps, LoopPollKeeps, LoopFrameKeeps DEF F!Next

\* A frame that paces itself has the period of the display's rate.
LEMMA LoopInvImplies == ASSUME F!RatesAssumption, LoopInv PROVE F!LoopIsPaced
<1>1. timer.delta >= timer.held  BY DEF LoopInv, LoopTimed
<1> SUFFICES ASSUME phase = "acting", sent = <<>>, setup.vsync, setup.api = "cpu", setup.targetFPS = 0, ~waits
             PROVE  timer.target =
                      Second \div (IF setup.known THEN display.rates[F!Monitor(display)] ELSE F!kUnpacedVsyncFPS)
  BY <1>1 DEF F!LoopIsPaced
<1>2. F!CapsAtDisplayRate  BY DEF F!CapsAtDisplayRate
<1>3. timer.target = F!Period(F!EffectiveTargetFPS(rate.hz)) /\ rate.have /\ ~changed
  BY <1>2 DEF LoopInv, FrameIsTimed
<1>4. rate.hz = F!DisplayRefreshHz  BY <1>3 DEF LoopInv, RateIsFresh, WillMark
<1>5. F!EffectiveTargetFPS(rate.hz) = IF setup.known THEN display.rates[F!Monitor(display)] ELSE F!kUnpacedVsyncFPS
  <2>1. display.rates[F!Monitor(display)] # F!Unknown
    BY DEF LoopInv, LoopTyped, Displays, F!Monitor, F!Monitors, F!RatesAssumption
  <2> QED  BY <1>2, <1>4, <2>1 DEF F!EffectiveTargetFPS, F!DisplayRefreshHz
<1>6. F!EffectiveTargetFPS(rate.hz) # 0
  <2>1. display.rates[F!Monitor(display)] # 0
    BY DEF LoopInv, LoopTyped, Displays, F!Monitor, F!Monitors, F!RatesAssumption, F!Unknown
  <2> QED  BY <1>5, <2>1 DEF F!kUnpacedVsyncFPS
<1> QED  BY <1>3, <1>5, <1>6 DEF F!Period

-----------------------------------------------------------------------------
(***************************************************************************)
(* Services.                                                               *)
(*                                                                         *)
(* The argument: a loader's memo agrees with what the machine has and with *)
(* the pointers that are bound, whatever was asked first. So what          *)
(* selectUsableBackend() and openAudioDevice() answered is installed and   *)
(* runs where the servers that are named answer, and GLFW draws what it    *)
(* was told it can.                                                        *)
(***************************************************************************)

\* What the world alone decides of a loader: yes if its libraries are there in full.
KnownLoader(service) ==
  /\ memo[service] = IF V!Loads(service) THEN "yes" ELSE "no"
  /\ (memo[service] = "yes") =
       \A i \in DOMAIN V!Names[service] : \E j \in DOMAIN V!Names[service][i] : slots[V!Names[service][i][j]] = "all"

\* No library of a loader is bound.
UnboundLoader(service) ==
  \A i \in DOMAIN V!Names[service] : \A j \in DOMAIN V!Names[service][i] : slots[V!Names[service][i][j]] = "none"

\* The loaders' types.
LoadersTyped ==
  /\ memo \in [V!ServiceNames -> {"unknown", "yes", "no"}] /\ slots \in [V!Sonames -> {"none", "all"}]

\* A loader that was asked knows, one that was not has bound nothing.
LoadersAnswer == \A s \in V!ServiceNames : IF memo[s] = "unknown" THEN UnboundLoader(s) ELSE KnownLoader(s)

\* selectUsableBackend() answered with the preferred backend where that runs, else with one that is
\* installed and whose server is named, or none runs.
SelectionRuns ==
  /\ world.servers \subseteq world.named
  /\ selected.backend \in V!Backends \cup {V!Nothing}
  /\ selected.asked # V!Nothing =>
       /\ V!Runs(selected.asked) => selected.backend = selected.asked
       /\ IF selected.backend = V!Nothing THEN \A b \in V!Backends : ~V!Runs(b)
          ELSE V!Installed(selected.backend) /\ V!HasDisplayServer(selected.backend)

\* GLFW was told of libdecor what the machine has.
FrameIsDrawn ==
  /\ frame.platform # V!Nothing => memo["wayland"] # "unknown"
  /\ frame.platform = "wayland" /\ frame.libdecor /\ memo["wayland"] = "yes" => world.plugin

\* The audio device is of a backend that is built in and whose server is there.
DeviceOpens ==
  /\ device \in [asked : V!AudioBackends \cup {V!Nothing}, backend : V!AudioBackends \cup {V!Nothing}, open : BOOLEAN,
                 running : BOOLEAN, callback : BOOLEAN]
  /\ device.running => device.open
  /\ device.backend # V!Nothing =>
       /\ device.backend \in world.audio \cup {"null"} /\ device.backend \in world.sound \cup {"null"}
       /\ device.asked \in (world.audio \cap world.sound) \cup {"null"} => device.backend = device.asked

\* The inductive invariant.
ServicesInv == LoadersTyped /\ LoadersAnswer /\ SelectionRuns /\ FrameIsDrawn /\ DeviceOpens

\* The first name that fits is one that fits, and there is one unless none fits.
LEMMA FirstOfFits ==
  ASSUME NEW list, NEW fit, DOMAIN list \subseteq 1..4
  PROVE  \/ V!FirstOf(list, fit) = V!Nothing /\ \A i \in DOMAIN list : list[i] \notin fit
         \/ V!FirstOf(list, fit) \in fit /\ \E i \in DOMAIN list : list[i] \in fit /\ V!FirstOf(list, fit) = list[i]
<1> DEFINE S == {i \in DOMAIN list : list[i] \in fit}
<1>1. CASE \A i \in DOMAIN list : list[i] \notin fit
  BY <1>1 DEF V!FirstOf
<1>2. CASE ~(\A i \in DOMAIN list : list[i] \notin fit)
  <2>1. S # {} /\ \A i \in S : i \in 1..4  BY <1>2
  <2>2. \E x \in S : \A y \in S : x <= y
    <3>1. CASE 1 \in S  BY <2>1, <3>1
    <3>2. CASE 1 \notin S /\ 2 \in S  BY <2>1, <3>2
    <3>3. CASE 1 \notin S /\ 2 \notin S /\ 3 \in S  BY <2>1, <3>3
    <3>4. CASE 1 \notin S /\ 2 \notin S /\ 3 \notin S  BY <2>1, <3>4
    <3> QED  BY <3>1, <3>2, <3>3, <3>4
  <2>3. V!Min(S) \in S  BY <2>2 DEF V!Min
  <2>4. V!FirstOf(list, fit) = list[V!Min(S)]  BY <1>2 DEF V!FirstOf
  <2> QED  BY <2>3, <2>4
<1> QED  BY <1>1, <1>2

\* A library that opens is there; it is bound in full or not at all.
LEMMA ServiceLists ==
  /\ V!ServiceNames = {"wayland", "x11", "shm", "glx", "egl"}
  /\ V!Names["wayland"] = <<<<"wayland-client">>>> /\ V!Names["x11"] = <<<<"X11">>>> /\ V!Names["shm"] = <<<<"Xext">>>>
  /\ V!Names["glx"] = <<<<"GLX", "GL">>>> /\ V!Names["egl"] = <<<<"EGL">>, <<"wayland-egl">>>>
BY DEF V!ServiceNames, V!Names

\* Nothing has been asked.
LEMMA ServicesInvInit == ASSUME V!WorldsAssumption PROVE V!Init => ServicesInv
<1> SUFFICES ASSUME V!Init PROVE ServicesInv
  OBVIOUS
<1>1. LoadersTyped  BY DEF V!Init, LoadersTyped
<1>2. \A s \in V!ServiceNames : UnboundLoader(s)
  <2> SUFFICES ASSUME NEW s \in V!ServiceNames, NEW i \in DOMAIN V!Names[s], NEW j \in DOMAIN V!Names[s][i]
               PROVE  V!Names[s][i][j] \in V!Sonames
    BY DEF V!Init, UnboundLoader
  <2> QED  BY ServiceLists DEF V!Sonames
<1>3. LoadersAnswer  BY <1>2 DEF V!Init, LoadersAnswer
<1>4. SelectionRuns /\ FrameIsDrawn  BY DEF V!Init, V!WorldsAssumption, SelectionRuns, FrameIsDrawn, V!Nothing
<1>5. DeviceOpens  BY DEF V!Init, DeviceOpens
<1> QED  BY <1>1, <1>3, <1>4, <1>5 DEF ServicesInv

\* Two services share no library.
LEMMA ServicesDisjoint ==
  ASSUME NEW s \in V!ServiceNames, NEW t \in V!ServiceNames, s # t,
         NEW i \in DOMAIN V!Names[s], NEW j \in DOMAIN V!Names[s][i],
         NEW k \in DOMAIN V!Names[t], NEW l \in DOMAIN V!Names[t][k]
  PROVE  V!Names[s][i][j] # V!Names[t][k][l]
BY ServiceLists

\* A library is there with all its symbols.
WholeLibrary(names) == \E i \in DOMAIN names : world.sonames[names[i]] = "whole"

\* Binding one library, by its names.
LEMMA BindEffect ==
  ASSUME NEW names, DOMAIN names \subseteq 1..4, \A i \in DOMAIN names : names[i] \in V!Sonames,
         NEW s \in [V!Sonames -> {"none", "all"}], \A i \in DOMAIN names : s[names[i]] = "none"
  PROVE  /\ V!AfterBind(names, s) \in [V!Sonames -> {"none", "all"}]
         /\ \A l \in V!Sonames : (\A i \in DOMAIN names : l # names[i]) => V!AfterBind(names, s)[l] = s[l]
         /\ V!BindsAll(names) <=> \E i \in DOMAIN names : V!AfterBind(names, s)[names[i]] = "all"
<1> DEFINE o == V!Opening(names)
<1>1. \/ o = V!Nothing
      \/ \E i \in DOMAIN names : o = names[i] /\ o # V!Nothing
  BY FirstOfFits DEF V!Opening, V!Sonames, V!Nothing
<1>2. CASE o = V!Nothing
  BY <1>2 DEF V!AfterBind, V!BindsAll
<1>3. CASE \E i \in DOMAIN names : o = names[i] /\ o # V!Nothing
  <2>1. V!AfterBind(names, s) = [s EXCEPT ![o] = V!Bound(o)] /\ (V!BindsAll(names) <=> V!Bound(o) = "all")
    BY <1>3 DEF V!AfterBind, V!BindsAll
  <2>2. V!Bound(o) \in {"none", "all"}  BY DEF V!Bound
  <2> QED  BY <1>3, <2>1, <2>2
<1> QED  BY <1>1, <1>2, <1>3

\* What asking a loader for the first time does.
LEMMA LoadEffect ==
  ASSUME LoadersTyped, NEW s \in V!ServiceNames, UnboundLoader(s)
  PROVE  /\ V!AfterLoad(s) \in [V!Sonames -> {"none", "all"}]
         /\ \A l \in V!Sonames : (\A i \in DOMAIN V!Names[s] : \A j \in DOMAIN V!Names[s][i] : l # V!Names[s][i][j])
              => V!AfterLoad(s)[l] = slots[l]
         /\ V!Loads(s) <=>
              \A i \in DOMAIN V!Names[s] : \E j \in DOMAIN V!Names[s][i] : V!AfterLoad(s)[V!Names[s][i][j]] = "all"
<1> DEFINE one == V!Names[s][1]
           r == V!AfterBind(one, slots)
<1>1. \A i \in DOMAIN V!Names[s] : /\ DOMAIN V!Names[s][i] \subseteq 1..4
                                 /\ \A j \in DOMAIN V!Names[s][i] : V!Names[s][i][j] \in V!Sonames
  BY ServiceLists DEF V!Sonames
<1>2. 1 \in DOMAIN V!Names[s]  BY ServiceLists
<1>3. /\ r \in [V!Sonames -> {"none", "all"}]
      /\ \A l \in V!Sonames : (\A j \in DOMAIN one : l # one[j]) => r[l] = slots[l]
      /\ V!BindsAll(one) <=> \E j \in DOMAIN one : r[one[j]] = "all"
  BY <1>1, <1>2, BindEffect DEF LoadersTyped, UnboundLoader
<1>4. CASE Len(V!Names[s]) = 1
  <2>1. DOMAIN V!Names[s] = {1}  BY <1>4, ServiceLists
  <2>2. V!AfterLoad(s) = r  BY <1>4 DEF V!AfterLoad
  <2>3. V!Loads(s) <=> V!BindsAll(one)  BY <2>1 DEF V!Loads
  <2> QED  BY <1>3, <2>1, <2>2, <2>3
<1>5. CASE Len(V!Names[s]) # 1
  <2> DEFINE two == V!Names[s][2]
             q == V!AfterBind(two, r)
  <2>1. s = "egl"  BY <1>5, ServiceLists
  <2>2. DOMAIN V!Names[s] = {1, 2} /\ one = <<"EGL">> /\ two = <<"wayland-egl">>  BY <2>1, ServiceLists
  <2>3. V!Loads(s) <=> V!BindsAll(one) /\ V!BindsAll(two)  BY <2>2 DEF V!Loads
  <2>a. \A j \in DOMAIN two : r[two[j]] = "none"
    <3>1. \A j \in DOMAIN two : two[j] \in V!Sonames /\ \A i \in DOMAIN one : two[j] # one[i]
      BY <2>2 DEF V!Sonames
    <3>2. \A j \in DOMAIN two : slots[two[j]] = "none"  BY <2>2 DEF UnboundLoader
    <3> QED  BY <1>3, <3>1, <3>2
  <2>4. CASE ~V!BindsAll(one)
    <3>1. V!AfterLoad(s) = r  BY <2>4 DEF V!AfterLoad
    <3>2. ~V!Loads(s)  BY <2>3, <2>4
    <3>3. ~ \E j \in DOMAIN one : r[one[j]] = "all"  BY <1>3, <2>4
    <3> QED  BY <1>3, <2>2, <3>1, <3>2, <3>3
  <2>5. CASE V!BindsAll(one)
    <3>1. V!AfterLoad(s) = q  BY <1>5, <2>5 DEF V!AfterLoad
    <3>2. /\ q \in [V!Sonames -> {"none", "all"}]
          /\ \A l \in V!Sonames : (\A j \in DOMAIN two : l # two[j]) => q[l] = r[l]
          /\ V!BindsAll(two) <=> \E j \in DOMAIN two : q[two[j]] = "all"
      BY <1>1, <1>3, <2>2, <2>a, BindEffect
    <3>3. V!Loads(s) <=> V!BindsAll(two)  BY <2>3, <2>5
    <3>4. \E j \in DOMAIN one : q[one[j]] = "all"  BY <1>1, <1>2, <1>3, <2>2, <2>5, <3>2
    <3>5. \A l \in V!Sonames : (\A i \in DOMAIN V!Names[s] : \A j \in DOMAIN V!Names[s][i] : l # V!Names[s][i][j])
              => q[l] = slots[l]
      BY <1>3, <2>2, <3>2
    <3>6. V!Loads(s) <=> \A i \in DOMAIN V!Names[s] : \E j \in DOMAIN V!Names[s][i] : q[V!Names[s][i][j]] = "all"
      BY <2>2, <3>2, <3>3, <3>4
    <3> QED  BY <3>1, <3>2, <3>5, <3>6
  <2> QED  BY <2>4, <2>5
<1> QED  BY <1>4, <1>5

\* Whether a loader can answer yes is for the world to say, which does not change.
LEMMA LoadsOfWorld ==
  ASSUME world' = world, NEW s PROVE V!Loads(s)' = V!Loads(s)
<1>1. {l \in V!Sonames : world'.sonames[l] # "missing"} = {l \in V!Sonames : world.sonames[l] # "missing"}  OBVIOUS
<1>2. \A names : V!Opening(names)' = V!Opening(names)  BY <1>1 DEF V!Opening
<1>3. \A names : V!BindsAll(names)' = V!BindsAll(names)  BY <1>2 DEF V!BindsAll, V!Bound
<1> QED  BY <1>3 DEF V!Loads

\* Asking a loader.
LEMMA LoadKept ==
  ASSUME ServicesInv, NEW s \in V!ServiceNames, V!Load(s)
  PROVE  LoadersTyped' /\ LoadersAnswer'
<1>1. /\ memo[s] = "unknown" /\ world' = world
      /\ memo' = [memo EXCEPT ![s] = IF V!Loads(s) THEN "yes" ELSE "no"]
      /\ slots' = V!AfterLoad(s)
  BY DEF V!Load, V!Memoise, V!Answer
<1>2. LoadersTyped /\ UnboundLoader(s)  BY <1>1 DEF ServicesInv, LoadersAnswer
<1>3. LoadersTyped'  BY <1>1, <1>2, LoadEffect DEF LoadersTyped
<1>4. \A t \in V!ServiceNames : V!Loads(t)' = V!Loads(t)
  BY <1>1, LoadsOfWorld
<1>5. ASSUME NEW t \in V!ServiceNames PROVE IF memo'[t] = "unknown" THEN UnboundLoader(t)' ELSE KnownLoader(t)'
  <2>1. CASE t = s
    <3>1. memo'[t] = IF V!Loads(s) THEN "yes" ELSE "no"  BY <1>1, <1>2, <2>1 DEF LoadersTyped
    <3>2. V!Loads(s)' = V!Loads(s)  BY <1>4
    <3>3. memo'[s] = "yes" <=>
            \A i \in DOMAIN V!Names[s] : \E j \in DOMAIN V!Names[s][i] : slots'[V!Names[s][i][j]] = "all"
      <4>1. V!Loads(s) <=>
              \A i \in DOMAIN V!Names[s] : \E j \in DOMAIN V!Names[s][i] : V!AfterLoad(s)[V!Names[s][i][j]] = "all"
        BY <1>2, LoadEffect
      <4>2. memo'[s] = "yes" <=> V!Loads(s)  BY <2>1, <3>1
      <4> QED  BY <1>1, <4>1, <4>2, Zenon
    <3>4. KnownLoader(s)'  BY <2>1, <3>1, <3>2, <3>3 DEF KnownLoader
    <3> QED  BY <2>1, <3>1, <3>4
  <2>2. CASE t # s
    <3>1. memo'[t] = memo[t]  BY <1>1, <1>2, <2>2 DEF LoadersTyped
    <3>2. ASSUME NEW i \in DOMAIN V!Names[t], NEW j \in DOMAIN V!Names[t][i]
          PROVE slots'[V!Names[t][i][j]] = slots[V!Names[t][i][j]]
      <4>1. V!Names[t][i][j] \in V!Sonames  BY ServiceLists DEF V!Sonames
      <4>2. \A k \in DOMAIN V!Names[s] : \A l \in DOMAIN V!Names[s][k] : V!Names[t][i][j] # V!Names[s][k][l]
        BY <2>2, ServicesDisjoint
      <4> QED  BY <1>1, <1>2, <4>1, <4>2, LoadEffect
    <3>3. CASE memo[t] = "unknown"
      <4>1. UnboundLoader(t)  BY <3>3 DEF ServicesInv, LoadersAnswer
      <4> QED  BY <3>1, <3>2, <3>3, <4>1 DEF UnboundLoader
    <3>4. CASE memo[t] # "unknown"
      <4>1. KnownLoader(t)  BY <3>4 DEF ServicesInv, LoadersAnswer
      <4> QED  BY <1>4, <3>1, <3>2, <3>4, <4>1 DEF KnownLoader
    <3> QED  BY <3>3, <3>4
  <2> QED  BY <2>1, <2>2
<1> QED  BY <1>3, <1>5 DEF LoadersAnswer

\* Once the native loaders that are compiled in have answered, what is usable is what is installed and
\* has a server that is named, and whatever runs is usable.
LEMMA UsableInstalled ==
  ASSUME ServicesInv, \A b \in {"wayland", "x11"} \cap world.compiled : memo[b] # "unknown", NEW b \in V!Backends
  PROVE  /\ V!Usable(b) <=> V!Installed(b) /\ V!HasDisplayServer(b)
         /\ V!Runs(b) => V!Usable(b)
<1>1. ASSUME NEW s \in {"wayland", "x11"}, memo[s] # "unknown"
      PROVE  memo[s] = "yes" <=> world.sonames[V!Names[s][1][1]] = "whole"
  <2> DEFINE one == V!Names[s][1]
  <2>1. DOMAIN V!Names[s] = {1} /\ DOMAIN one = {1} /\ one[1] \in V!Sonames /\ s \in V!ServiceNames  BY ServiceLists DEF V!Sonames
  <2>2. memo[s] = "yes" <=> V!BindsAll(one)  BY <1>1, <2>1 DEF ServicesInv, LoadersAnswer, KnownLoader, V!Loads
  <2>3. world.sonames[one[1]] = "whole" => V!Opening(one) = one[1]
    BY <2>1, FirstOfFits DEF V!Opening
  <2>4. V!Opening(one) \in {V!Nothing, one[1]}
    BY <2>1, FirstOfFits DEF V!Opening
  <2> QED  BY <2>1, <2>2, <2>3, <2>4 DEF V!BindsAll, V!Bound, V!Sonames, V!Nothing
<1>2. ASSUME b \in {"wayland", "x11"} PROVE V!IsBackendAvailable(b) <=> V!Installed(b)
  <2>1. V!Names["wayland"][1][1] = "wayland-client" /\ V!Names["x11"][1][1] = "X11"  BY ServiceLists
  <2> QED  BY <1>1, <1>2, <2>1 DEF V!IsBackendAvailable, V!Installed
<1>3. ASSUME b \in {"sdl", "glfw"} PROVE V!IsBackendAvailable(b) <=> V!Installed(b)
  BY <1>3 DEF V!IsBackendAvailable, V!Installed
<1>4. V!Usable(b) <=> V!Installed(b) /\ V!HasDisplayServer(b)  BY <1>2, <1>3 DEF V!Backends, V!Usable
<1>5. world.servers \subseteq world.named  BY DEF ServicesInv, SelectionRuns
<1>6. V!Reaches(b) => V!HasDisplayServer(b)  BY <1>5 DEF V!Reaches, V!HasDisplayServer, V!Backends
<1> QED  BY <1>4, <1>6 DEF V!Runs

\* Choosing a backend.
LEMMA SelectKept ==
  ASSUME ServicesInv, NEW p \in V!Backends, V!SelectUsableBackend(p)
  PROVE  SelectionRuns'
<1>1. selected' = [asked |-> p, backend |-> V!Chosen(p)] /\ world' = world  BY DEF V!SelectUsableBackend
<1>2. \A b \in V!Backends : (V!Usable(b) <=> V!Installed(b) /\ V!HasDisplayServer(b)) /\ (V!Runs(b) => V!Usable(b))
  BY UsableInstalled DEF V!SelectUsableBackend
<1>3. \A b \in V!Backends : V!Runs(b)' = V!Runs(b) /\ V!Installed(b)' = V!Installed(b)
                             /\ V!HasDisplayServer(b)' = V!HasDisplayServer(b)
  BY <1>1 DEF V!Runs, V!Installed, V!Reaches, V!HasDisplayServer
<1>n. (world.servers \subseteq world.named)'  BY <1>1 DEF ServicesInv, SelectionRuns
<1>m. V!Nothing \notin V!Backends  BY DEF V!Nothing, V!Backends
<1>4. DOMAIN V!Fallbacks \subseteq 1..4 /\ \A b \in V!Backends : \E i \in DOMAIN V!Fallbacks : V!Fallbacks[i] = b
  BY DEF V!Fallbacks, V!Backends
<1>5. CASE V!Usable(p)
  BY <1>1, <1>2, <1>3, <1>5, <1>n, <1>m DEF SelectionRuns, V!Chosen
<1>6. CASE ~V!Usable(p)
  <2> DEFINE fit == {b \in V!Backends : V!Usable(b)}
  <2>1. V!Chosen(p) = V!FirstOf(V!Fallbacks, fit)  BY <1>6 DEF V!Chosen
  <2>2. \/ V!Chosen(p) = V!Nothing /\ \A b \in V!Backends : ~V!Usable(b)
        \/ V!Chosen(p) \in fit
    BY <1>4, <2>1, FirstOfFits
  <2> QED  BY <1>1, <1>2, <1>3, <1>6, <1>n, <1>m, <2>2 DEF SelectionRuns
<1> QED  BY <1>5, <1>6

\* Opening, starting and closing the audio device.
LEMMA SoundDeviceKept ==
  ASSUME ServicesInv, NEW p \in V!AudioBackends, V!OpenAudioDevice(p)
  PROVE  DeviceOpens'
<1> DEFINE list == <<"alsa", "sdl", "null">>
           fit == {b \in V!AudioBackends : V!Fits(b)}
           d == V!FirstDevice(p)
<1>1. world' = world /\ device' = [asked |-> p, backend |-> d, open |-> TRUE, running |-> FALSE, callback |-> FALSE]
  BY DEF V!OpenAudioDevice
<1>2. \A b \in V!AudioBackends : V!Fits(b) <=> b = "null" \/ (b \in world.audio /\ b \in world.sound)
  BY DEF V!Fits, V!IsAudioBackendAvailable, V!OpensDevice
<1>3. d \in V!AudioBackends /\ V!Fits(d) /\ (V!Fits(p) => d = p)
  <2>1. CASE V!Fits(p)  BY <2>1 DEF V!FirstDevice
  <2>2. CASE ~V!Fits(p)
    <3>1. d = V!FirstOf(list, fit)  BY <2>2 DEF V!FirstDevice
    <3>2. list[3] \in fit /\ 3 \in DOMAIN list  BY <1>2 DEF V!AudioBackends
    <3>3. DOMAIN list \subseteq 1..4  OBVIOUS
    <3> HIDE DEF list, fit
    <3>4. d \in fit  BY <3>1, <3>2, <3>3, FirstOfFits
    <3> QED  BY <2>2, <3>4 DEF fit
  <2> QED  BY <2>1, <2>2
<1>4. /\ d \in world.audio \cup {"null"} /\ d \in world.sound \cup {"null"}
      /\ p \in (world.audio \cap world.sound) \cup {"null"} => d = p
  BY <1>2, <1>3
<1> HIDE DEF d
<1>5. device' \in [asked : V!AudioBackends \cup {V!Nothing}, backend : V!AudioBackends \cup {V!Nothing}, open : BOOLEAN,
                 running : BOOLEAN, callback : BOOLEAN]
  BY <1>1, <1>3
<1> QED  BY <1>1, <1>4, <1>5 DEF DeviceOpens

\* Every step keeps the invariant.
LEMMA ServicesInvKept ==
  ASSUME ServicesInv, [V!Next]_V!vars
  PROVE  ServicesInv'
<1> USE DEF ServicesInv
<1>w. world' = world
  BY DEF V!Next, V!vars, V!Load, V!SelectUsableBackend, V!InitGlfw, V!OpenAudioDevice, V!NullDevice
<1>l. memo' = memo /\ slots' = slots => LoadersTyped' /\ LoadersAnswer'
  <2>1. \A s \in V!ServiceNames : V!Loads(s)' = V!Loads(s)
    BY <1>w, LoadsOfWorld
  <2> SUFFICES ASSUME memo' = memo, slots' = slots PROVE LoadersTyped' /\ LoadersAnswer'
    OBVIOUS
  <2>2. \A s \in V!ServiceNames : UnboundLoader(s)' = UnboundLoader(s)  BY DEF UnboundLoader
  <2>3. \A s \in V!ServiceNames : KnownLoader(s)' = KnownLoader(s)  BY <2>1 DEF KnownLoader
  <2> QED  BY <2>2, <2>3 DEF LoadersTyped, LoadersAnswer
<1>s. selected' = selected => SelectionRuns'
  <2> SUFFICES ASSUME selected' = selected PROVE SelectionRuns'
    OBVIOUS
  <2>1. \A b : V!Installed(b)' = V!Installed(b) /\ V!Reaches(b)' = V!Reaches(b)
    BY <1>w DEF V!Installed, V!Reaches
  <2>2. \A b : V!Runs(b)' = V!Runs(b)  BY <2>1 DEF V!Runs
  <2>3. V!HasDisplayServer(selected.backend)' = V!HasDisplayServer(selected.backend)
    BY <1>w DEF V!HasDisplayServer
  <2> QED  BY <1>w, <2>1, <2>2, <2>3 DEF SelectionRuns
<1>f. frame' = frame /\ memo' = memo => FrameIsDrawn'
  BY <1>w DEF FrameIsDrawn
<1>d. device' = device => DeviceOpens'
  BY <1>w DEF DeviceOpens
<1>1. ASSUME NEW s \in V!ServiceNames, V!Load(s) PROVE ServicesInv'
  <2>1. FrameIsDrawn'
    <3>1. memo[s] = "unknown" /\ memo' = [memo EXCEPT ![s] = IF V!Loads(s) THEN "yes" ELSE "no"] /\ frame' = frame
      BY <1>1 DEF V!Load, V!Memoise, V!Answer
    <3>2. "wayland" \in V!ServiceNames /\ memo \in [V!ServiceNames -> {"unknown", "yes", "no"}]
      BY ServiceLists DEF LoadersTyped
    <3>3. CASE s = "wayland"  BY <1>w, <3>1, <3>2, <3>3 DEF FrameIsDrawn, V!Nothing
    <3>4. CASE s # "wayland"  BY <1>w, <3>1, <3>2, <3>4 DEF FrameIsDrawn
    <3> QED  BY <3>3, <3>4
  <2>2. selected' = selected /\ device' = device  BY <1>1 DEF V!Load
  <2> QED  BY <1>1, <1>s, <1>d, <2>1, <2>2, LoadKept
<1>2. ASSUME NEW b \in V!Backends, V!SelectUsableBackend(b) PROVE ServicesInv'
  BY <1>2, <1>l, <1>f, <1>d, SelectKept DEF V!SelectUsableBackend
<1>3. CASE V!InitGlfw
  <2>1. FrameIsDrawn'
    <3>1. memo' = memo /\ memo["wayland"] # "unknown"  BY <1>3 DEF V!InitGlfw
    <3>2. frame'.platform = "wayland" => "wayland" \in world.servers  BY <1>3 DEF V!InitGlfw, V!Nothing
    <3>3. frame'.libdecor /\ V!Connects => world.plugin
      BY <1>3 DEF V!InitGlfw, V!OffersServerDecorations, V!LibdecorHasPlugin
    <3> QED  BY <1>w, <3>1, <3>2, <3>3 DEF FrameIsDrawn, V!Connects
  <2> QED  BY <1>3, <2>1, <1>l, <1>s, <1>d DEF V!InitGlfw
<1>4. ASSUME NEW b \in V!AudioBackends, V!OpenAudioDevice(b) PROVE ServicesInv'
  BY <1>4, <1>l, <1>s, <1>f, SoundDeviceKept DEF V!OpenAudioDevice
<1>5. CASE V!NullDevice
  <2>1. DeviceOpens'
    <3>1. ASSUME NEW present \in BOOLEAN, V!SetMixCallback(present) PROVE DeviceOpens'
      BY <3>1, <1>w DEF V!SetMixCallback, DeviceOpens
    <3>2. CASE V!Start  BY <3>2, <1>w DEF V!Start, DeviceOpens
    <3>3. CASE V!Stop  BY <3>3, <1>w DEF V!Stop, DeviceOpens
    <3>4. CASE V!CloseNull  BY <3>4, <1>w DEF V!CloseNull, DeviceOpens
    <3>5. CASE V!Reopen  BY <3>5, <1>w DEF V!Reopen, DeviceOpens
    <3>6. ASSUME NEW n \in Blocks, V!RenderFrames(n) PROVE DeviceOpens'
      BY <3>6, <1>d DEF V!RenderFrames
    <3> QED  BY <1>5, <3>1, <3>2, <3>3, <3>4, <3>5, <3>6 DEF V!NullDevice
  <2> QED  BY <1>5, <2>1, <1>l, <1>s, <1>f DEF V!NullDevice
<1>6. CASE UNCHANGED V!vars
  BY <1>6, <1>l, <1>s, <1>f, <1>d DEF V!vars
<1> QED  BY <1>1, <1>2, <1>3, <1>4, <1>5, <1>6 DEF V!Next

\* What the runs check follows.
LEMMA ServicesInvImplies == ServicesInv => V!TypeOK /\ V!BackendRuns
<1> SUFFICES ASSUME ServicesInv PROVE V!TypeOK /\ V!BackendRuns
  OBVIOUS
<1>1. V!TypeOK
  BY DEF ServicesInv, LoadersTyped, SelectionRuns, DeviceOpens, V!TypeOK
<1>2. V!BackendRuns
  <2>1. \A s \in V!ServiceNames : memo[s] # "unknown" => KnownLoader(s)  BY DEF ServicesInv, LoadersAnswer
  <2>2. \A l \in V!Sonames : slots[l] # "some"  BY DEF ServicesInv, LoadersTyped
  <2>3. ASSUME selected.asked # V!Nothing, selected.backend # V!Nothing, world.named = world.servers
        PROVE  V!Reaches(selected.backend)
    BY <2>3 DEF ServicesInv, SelectionRuns, V!HasDisplayServer, V!Reaches
  <2> QED  BY <2>1, <2>2, <2>3 DEF ServicesInv, SelectionRuns, FrameIsDrawn, DeviceOpens, V!BackendRuns, KnownLoader
<1> QED  BY <1>1, <1>2

-----------------------------------------------------------------------------
(***************************************************************************)
(* The runs.                                                               *)
(***************************************************************************)

\* No setup has an SDL manager with Vulkan beside an audio device (see SharedWindowsProofs).
AudioWithoutVulkan == H!AudioWithoutVulkan

\* The invariants of the parts, of the part a behaviour is of.
PartsInv ==
  /\ part \in Parts
  /\ part = "shared" => H!SharedInv
  /\ part = "lifetime" => LifetimeInv
  /\ part = "state" => StateInv
  /\ part = "surface" => SurfaceInv
  /\ part = "loop" => LoopTyped /\ LoopRanged
  /\ part = "services" => ServicesInv

\* The invariant of a loop whose windows do not grow onto another monitor.
LoopPartInv == part = "loop" => LoopInv

\* A behaviour begins as one of the part it is of.
LEMMA StartsAsPart ==
  ASSUME Init
  PROVE  /\ part \in Parts
         /\ part = "shared" => H!Init
         /\ part = "lifetime" => L!Init
         /\ part = "state" => W!Init
         /\ part = "surface" => U!Init
         /\ part = "loop" => F!Init
         /\ part = "services" => V!Init
BY DEF Init

\* Its steps are steps of that part.
LEMMA StepsAsPart ==
  ASSUME [Next]_vars
  PROVE  /\ part' = part
         /\ part = "shared" => [H!Next]_H!vars
         /\ part = "lifetime" => [L!Next]_L!vars
         /\ part = "state" => [W!Next]_W!vars
         /\ part = "surface" => [U!Next]_U!vars
         /\ part = "loop" => [F!Next]_F!vars
         /\ part = "services" => [V!Next]_V!vars
<1>1. CASE Next
  BY <1>1 DEF Next
<1>2. CASE UNCHANGED vars
  BY <1>2 DEF vars, onlyH, onlyL, onlyW, onlyU, onlyF, onlyV, H!vars, L!vars, W!vars, U!vars, F!vars, V!vars
<1> QED  BY <1>1, <1>2

\* The invariants hold of every behaviour.
THEOREM PartsInvariance == Spec => []PartsInv
<1>1. Init => PartsInv
  <2> SUFFICES ASSUME Init PROVE PartsInv
    OBVIOUS
  <2>1. part = "shared" => H!SharedInv  BY StartsAsPart, SharedAssumption, H!SharedInvInit
  <2>2. part = "lifetime" => LifetimeInv  BY StartsAsPart, LifetimeAssumption, LifetimeInvInit
  <2>3. part = "state" => StateInv  BY StartsAsPart, StateAssumption, StateInvInit
  <2>4. part = "surface" => SurfaceInv  BY StartsAsPart, SurfaceAssumption, SurfaceInvInit
  <2>5. part = "loop" => LoopTyped /\ LoopRanged  BY StartsAsPart, LoopAssumption, LoopTypesInit
  <2>6. part = "services" => ServicesInv  BY StartsAsPart, ServicesInvInit, ServicesAssumption
  <2> QED  BY <2>1, <2>2, <2>3, <2>4, <2>5, <2>6, StartsAsPart DEF PartsInv
<1>2. PartsInv /\ [Next]_vars => PartsInv'
  <2> SUFFICES ASSUME PartsInv, [Next]_vars PROVE PartsInv'
    OBVIOUS
  <2>0. part \in Parts /\ part' = part  BY StepsAsPart DEF PartsInv
  <2>1. part = "shared" => H!SharedInv'  BY StepsAsPart, SharedAssumption, H!SharedInvKept DEF PartsInv
  <2>2. part = "lifetime" => LifetimeInv'  BY StepsAsPart, LifetimeAssumption, LifetimeInvKept DEF PartsInv
  <2>3. part = "state" => StateInv'  BY StepsAsPart, StateAssumption, StateInvKept DEF PartsInv
  <2>4. part = "surface" => SurfaceInv'  BY StepsAsPart, SurfaceAssumption, SurfaceInvKept DEF PartsInv
  <2>5. part = "loop" => LoopTyped' /\ LoopRanged'  BY StepsAsPart, LoopAssumption, LoopTypesKept DEF PartsInv
  <2>6. part = "services" => ServicesInv'  BY StepsAsPart, ServicesInvKept DEF PartsInv
  <2> QED  BY <2>0, <2>1, <2>2, <2>3, <2>4, <2>5, <2>6 DEF PartsInv
<1> QED  BY <1>1, <1>2, PTL DEF Spec

\* Every variable of every part stays in its set: the library's reference counts within the number
\* of managers, the queues within their bounds, handles, surfaces and devices of known kinds.
THEOREM TypeCorrectness == Spec => []TypeOK
<1>1. PartsInv => TypeOK
  <2> SUFFICES ASSUME PartsInv PROVE TypeOK
    OBVIOUS
  <2>1. part = "shared" => H!TypeOK  BY SharedAssumption, H!SharedInvImplies DEF PartsInv
  <2>2. part = "lifetime" => L!TypeOK  BY LifetimeAssumption, LifetimeInvImplies DEF PartsInv
  <2>3. part = "state" => W!TypeOK  BY StateInvImplies DEF PartsInv
  <2>4. part = "surface" => U!TypeOK  BY SurfaceAssumption, SurfaceInvImplies DEF PartsInv
  <2>5. part = "loop" => F!TypeOK  BY LoopTypesImply DEF PartsInv
  <2>6. part = "services" => V!TypeOK  BY ServicesInvImplies DEF PartsInv
  <2> QED  BY <2>1, <2>2, <2>3, <2>4, <2>5, <2>6 DEF TypeOK
<1> QED  BY <1>1, PartsInvariance, PTL

\* What managers and the audio device hold exists, nothing is held under what it needs, nothing is
\* left behind, and events reach the object that holds the window, whatever throws, moves or is
\* deleted (initializeSDL(), initializeGLFW(), createWindow(), destroy() and the move operators).
\* The audio device is SDL's as long as no SDL manager beside it asks for Vulkan.
THEOREM ResourcesStayLive == ASSUME AudioWithoutVulkan PROVE Spec => []ResourcesAreLive
<1>1. PartsInv => ResourcesAreLive
  <2> SUFFICES ASSUME PartsInv PROVE ResourcesAreLive
    OBVIOUS
  <2>1. part = "shared" => H!LibraryFollowsOwners /\ H!CallbacksReachHolder /\ H!DeviceIsLive
    BY SharedAssumption, H!SharedInvImplies DEF PartsInv, AudioWithoutVulkan
  <2>2. part = "lifetime" => L!HandlesAreLive /\ L!EventsReachHolder
    BY LifetimeAssumption, LifetimeInvImplies DEF PartsInv
  <2> QED  BY <2>1, <2>2 DEF ResourcesAreLive
<1> QED  BY <1>1, PartsInvariance, PTL

\* The same without a word on the audio device, whatever the setups: what managers hold exists, is
\* counted and is let go of, and the callbacks reach the holder.
THEOREM ManagersHoldWhatIs ==
  Spec => [](/\ part = "shared" => H!LibraryFollowsOwners /\ H!CallbacksReachHolder
             /\ part = "lifetime" => L!HandlesAreLive /\ L!EventsReachHolder)
<1>1. PartsInv => /\ part = "shared" => H!LibraryFollowsOwners /\ H!CallbacksReachHolder
                  /\ part = "lifetime" => L!HandlesAreLive /\ L!EventsReachHolder
  BY SharedAssumption, H!SharedInvImplies, LifetimeAssumption, LifetimeInvImplies DEF PartsInv
<1> QED  BY <1>1, PartsInvariance, PTL

\* What a window says of itself is what the display server, the library or the system decided last,
\* once it has polled what was sent (handleToplevelConfigure(), handleConfigureNotify(),
\* pollEvents(), GLFW's callbacks, surfaceMatchesNative()).
THEOREM StateIsFollowed == Spec => []StateFollowsServer
<1>1. PartsInv => StateFollowsServer
  <2> SUFFICES ASSUME PartsInv PROVE StateFollowsServer
    OBVIOUS
  <2>1. part = "shared" => H!StateFollowsWindow  BY SharedAssumption, H!SharedInvImplies DEF PartsInv
  <2>2. part = "state" => W!StateFollowsServer  BY StateInvImplies DEF PartsInv
  <2>3. part = "surface" => U!SurfaceIsCurrent  BY SurfaceAssumption, SurfaceInvImplies DEF PartsInv
  <2> QED  BY <2>1, <2>2, <2>3 DEF StateFollowsServer
<1> QED  BY <1>1, PartsInvariance, PTL

\* A software window with vsync never runs faster than the display it is on, whichever of moves,
\* changes of mode and the loss of Present comes first (process(), IWindowManager.cpp), if it does
\* not come to lie on another monitor by growing.
THEOREM LoopFollowsDisplay == ASSUME NothingGrows PROVE Spec => []LoopIsPaced
<1>1. Init => LoopPartInv
  BY StartsAsPart, LoopAssumption, LoopInvInit DEF LoopPartInv
<1>2. LoopPartInv /\ [Next]_vars => LoopPartInv'
  BY StepsAsPart, LoopAssumption, LoopInvKept DEF LoopPartInv
<1>3. LoopPartInv => LoopIsPaced
  BY LoopAssumption, LoopInvImplies DEF LoopPartInv, LoopIsPaced
<1> QED  BY <1>1, <1>2, <1>3, PTL DEF Spec

\* In whatever order they are asked for, the backend that is chosen is installed, is the preferred one
\* where that runs, and runs where the servers the environment names answer; the libraries are bound in
\* full or not at all, and the audio device opens (selectUsableBackend(), the loaders' memos,
\* openAudioDevice()).
THEOREM ChoicesRun == Spec => []BackendRuns
<1>1. PartsInv => BackendRuns
  BY ServicesInvImplies DEF PartsInv, BackendRuns
<1> QED  BY <1>1, PartsInvariance, PTL

=============================================================================
