------------------------------ MODULE InputTables ------------------------------
(***************************************************************************)
(* MouseListener and TouchListener, as far as the backends share them: the *)
(* input contexts, the actions bound in each of them, the dispatch of an   *)
(* event to the context that is resolved, and the wheel, which is          *)
(* accumulated for a poller.  KeyboardInput has the same for the keyboard. *)
(* A callback may call the listener: a dispatch is two steps.              *)
(***************************************************************************)
EXTENDS Naturals, Sequences

CONSTANTS
  MaxContexts,  \* bound: contexts the application uses
  MaxDepth,     \* bound on the stack of contexts
  MaxWheel      \* bound on the notches of the wheel that nobody has consumed

TablesAssumption == MaxContexts \in Nat \ {0} /\ MaxDepth \in Nat /\ MaxWheel \in Nat

Contexts == 0 .. MaxContexts - 1

\* A button of the table, one out of range, and the streams.
SlotsOf(kind) == IF kind = "mouse" THEN {"button", "bad button", "move", "scroll"} ELSE {"down", "move", "up"}

VARIABLES
  kind,        \* the listener: mouse or touch
  active,      \* activeContext_
  stack,       \* stack_
  capacity,    \* the size of buttonBindings_ and of the action vectors
  bound,       \* the slots that hold an action
  call,        \* the action that is running, or Idle
  accumulated  \* accumulatedScroll_

contexts == <<active, stack>>
vars == <<kind, contexts, capacity, bound, call, accumulated>>

Idle == <<>>

TypeOK ==
  /\ kind \in {"mouse", "touch"}
  /\ active \in Contexts /\ stack \in Seq(Contexts) /\ Len(stack) <= MaxDepth
  /\ capacity \in 1 .. MaxContexts
  /\ bound \subseteq (0 .. capacity - 1) \X (SlotsOf(kind) \ {"bad button"})
  /\ call \in {Idle} \cup (Contexts \X SlotsOf(kind))
  /\ accumulated \in 0 .. MaxWheel

Init ==
  /\ kind \in {"mouse", "touch"}
  /\ active = 0 /\ stack = <<>> /\ capacity = 1
  /\ bound = {} /\ call = Idle
  /\ accumulated = 0

-----------------------------------------------------------------------------
(* Plausible mistakes in the code below: the runs are known to catch them.  *)

\* A slot is assigned before there is room for its context.
NoRoom(context) == UNCHANGED capacity

-----------------------------------------------------------------------------
(* The application.                                                         *)

Resolved == IF stack = <<>> THEN active ELSE stack[Len(stack)]

EnsureContextCapacity(context) ==
  capacity' = IF capacity <= context THEN context + 1 ELSE capacity

SetActiveContext ==
  /\ active' \in Contexts
  /\ UNCHANGED <<kind, stack, capacity, bound, call, accumulated>>

PushContext ==
  /\ Len(stack) < MaxDepth
  /\ \E context \in Contexts : stack' = Append(stack, context)
  /\ UNCHANGED <<kind, active, capacity, bound, call, accumulated>>

PopContext ==
  /\ stack' = IF stack = <<>> THEN stack ELSE SubSeq(stack, 1, Len(stack) - 1)
  /\ UNCHANGED <<kind, active, capacity, bound, call, accumulated>>

\* A button out of range is ignored, before there is room made for its context.
SetAction ==
  /\ \E context \in Contexts, slot \in SlotsOf(kind) \ {"bad button"} :
       /\ EnsureContextCapacity(context)
       /\ bound' = bound \cup {<<context, slot>>}
  /\ UNCHANGED <<kind, contexts, call, accumulated>>

\* removeButtonAction() and an assignment of an empty action.
RemoveAction ==
  /\ \E context \in Contexts, slot \in SlotsOf(kind) \ {"bad button"} :
       /\ EnsureContextCapacity(context)
       /\ bound' = bound \ {<<context, slot>>}
  /\ UNCHANGED <<kind, contexts, call, accumulated>>

ClearAllActions ==
  /\ \/ bound' = {} /\ UNCHANGED capacity
     \/ \E context \in Contexts :
          /\ EnsureContextCapacity(context)
          /\ bound' = {slot \in bound : slot[1] # context}
  /\ UNCHANGED <<kind, contexts, call, accumulated>>

ConsumeScrollDelta ==
  /\ kind = "mouse"
  /\ accumulated' = 0
  /\ UNCHANGED <<kind, contexts, capacity, bound, call>>

-----------------------------------------------------------------------------
(* Dispatch.                                                                *)

\* The context that is resolved may have no table yet, or nothing bound in it.
Run(slot) ==
  /\ call = Idle
  /\ call' = IF Resolved < capacity /\ <<Resolved, slot>> \in bound THEN <<Resolved, slot>> ELSE Idle

\* dispatchButtonPress(), dispatchMove(), dispatchDown() and the others of their kind.
Dispatch ==
  /\ \E slot \in SlotsOf(kind) \ {"scroll"} : Run(slot)
  /\ UNCHANGED <<kind, contexts, capacity, bound, accumulated>>

\* dispatchScroll() accumulates whether or not an action is bound.
DispatchScroll ==
  /\ kind = "mouse"
  /\ \E notches \in 1 .. MaxWheel - accumulated : accumulated' = accumulated + notches
  /\ Run("scroll")
  /\ UNCHANGED <<kind, contexts, capacity, bound>>

CallbackReturns ==
  /\ call # Idle /\ call' = Idle
  /\ UNCHANGED <<kind, contexts, capacity, bound, accumulated>>

Next ==
  \/ SetActiveContext \/ PushContext \/ PopContext
  \/ SetAction \/ RemoveAction \/ ClearAllActions \/ ConsumeScrollDelta
  \/ Dispatch \/ DispatchScroll \/ CallbackReturns

Spec == Init /\ [][Next]_vars

=============================================================================
