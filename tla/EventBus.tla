------------------------------- MODULE EventBus -------------------------------
(***************************************************************************)
(* EventBus: handlers registered per event type and called one after the   *)
(* other by publish, which iterates the list of the type itself.  A        *)
(* handler is a client like any other: while it runs it may subscribe,     *)
(* unsubscribe, clear the bus or publish again.  Nothing runs in parallel, *)
(* so the calls of publish in progress form a stack.                       *)
(***************************************************************************)
EXTENDS Naturals, Sequences

CONSTANTS
  EventTypes, Handlers,
  MaxSubscriptions,   \* bound on the registrations, those withdrawn included
  MaxPublished,       \* bound on the events published
  MaxDepth            \* bound on the calls of publish inside one another

ASSUME BoundsAssumption ==
  MaxSubscriptions \in Nat /\ MaxPublished \in Nat /\ MaxDepth \in Nat

VARIABLES
  handlers,   \* EventBus._handlers: the list of each type, empty when it has none
  eventLog,   \* EventBus._event_log: the events, numbered in the order of publication
  subscribed, \* number of registrations so far
  published,  \* number of events published so far
  frames      \* the calls of publish in progress, the innermost last

vars == <<handlers, eventLog, subscribed, published, frames>>

(* A call in progress iterates the list of its type, or the list the type  *)
(* had before a clear took it out of the registry.  `before`, `called` and *)
(* `removed` record, for the properties, the list at the time of the call, *)
(* the handlers called, and how many left the list in the meantime.        *)
Frame(t, e) ==
  [type |-> t, event |-> e, live |-> TRUE, old |-> <<>>, next |-> 1, running |-> FALSE,
   before |-> handlers[t], called |-> <<>>, removed |-> 0]

Top == frames[Len(frames)]
WithTop(f) == [frames EXCEPT ![Len(frames)] = f]
Iterated(f) == IF f.live THEN handlers[f.type] ELSE f.old

Init ==
  /\ handlers = [t \in EventTypes |-> <<>>]
  /\ eventLog = <<>> /\ subscribed = 0 /\ published = 0
  /\ frames = <<>>

\* Code outside the bus runs: its user's, or that of the handler being called.
ClientRuns == frames # <<>> => Top.running

Subscribe(t, h) ==
  /\ ClientRuns
  /\ subscribed < MaxSubscriptions /\ subscribed' = subscribed + 1
  /\ handlers' = [handlers EXCEPT ![t] = Append(@, h)]
  /\ UNCHANGED <<eventLog, published, frames>>

First(t, h) == CHOOSE i \in DOMAIN handlers[t] :
  handlers[t][i] = h /\ \A j \in 1..(i - 1) : handlers[t][j] # h

Without(s, i) == SubSeq(s, 1, i - 1) \o SubSeq(s, i + 1, Len(s))

Unsubscribe(t, h) ==
  /\ ClientRuns
  /\ \E i \in DOMAIN handlers[t] : handlers[t][i] = h
  /\ handlers' = [handlers EXCEPT ![t] = Without(@, First(t, h))]
  /\ frames' = [n \in DOMAIN frames |->
                  IF frames[n].live /\ frames[n].type = t
                  THEN [frames[n] EXCEPT !.removed = @ + 1] ELSE frames[n]]
  /\ UNCHANGED <<eventLog, subscribed, published>>

\* Fault: the lists are emptied instead of being let go.
ClearEmpties ==
  /\ ClientRuns
  /\ handlers' = [t \in EventTypes |-> <<>>] /\ eventLog' = <<>>
  /\ UNCHANGED <<subscribed, published, frames>>

\* The registry lets its lists go; a publish that iterates one keeps it.
Clear ==
  /\ ClientRuns
  /\ handlers' = [t \in EventTypes |-> <<>>] /\ eventLog' = <<>>
  /\ frames' = [n \in DOMAIN frames |->
                  IF frames[n].live
                  THEN [frames[n] EXCEPT !.live = FALSE, !.old = handlers[frames[n].type]]
                  ELSE frames[n]]
  /\ UNCHANGED <<subscribed, published>>

Publish(t) ==
  /\ ClientRuns
  /\ Len(frames) < MaxDepth /\ published < MaxPublished
  /\ published' = published + 1
  /\ eventLog' = Append(eventLog, published')
  /\ frames' = Append(frames, Frame(t, published'))
  /\ UNCHANGED <<handlers, subscribed>>

-----------------------------------------------------------------------------
(* The loop of publish. *)

InLoop == frames # <<>> /\ ~ Top.running

CallHandler ==
  /\ InLoop /\ Top.next <= Len(Iterated(Top))
  /\ frames' = WithTop([Top EXCEPT !.running = TRUE, !.next = @ + 1,
                                   !.called = Append(@, Iterated(Top)[Top.next])])
  /\ UNCHANGED <<handlers, eventLog, subscribed, published>>

HandlerReturns ==
  /\ frames # <<>> /\ Top.running
  /\ frames' = WithTop([Top EXCEPT !.running = FALSE])
  /\ UNCHANGED <<handlers, eventLog, subscribed, published>>

\* Fault: the exception leaves the loop.
HandlerRaisesThrough ==
  /\ frames # <<>> /\ Top.running
  /\ frames' = SubSeq(frames, 1, Len(frames) - 1)
  /\ UNCHANGED <<handlers, eventLog, subscribed, published>>

\* The exception is logged and the loop goes on.
HandlerRaises ==
  /\ frames # <<>> /\ Top.running
  /\ frames' = WithTop([Top EXCEPT !.running = FALSE])
  /\ UNCHANGED <<handlers, eventLog, subscribed, published>>

Finish ==
  /\ InLoop /\ Top.next > Len(Iterated(Top))
  /\ frames' = SubSeq(frames, 1, Len(frames) - 1)
  /\ UNCHANGED <<handlers, eventLog, subscribed, published>>

Next ==
  \/ \E t \in EventTypes : Publish(t) \/ \E h \in Handlers : Subscribe(t, h) \/ Unsubscribe(t, h)
  \/ Clear \/ CallHandler \/ HandlerReturns \/ HandlerRaises \/ Finish

Spec == Init /\ [][Next]_vars
=============================================================================
