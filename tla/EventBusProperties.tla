-------------------------- MODULE EventBusProperties --------------------------
(***************************************************************************)
(* What a publisher may rely on, although handlers change the registry     *)
(* while their event is being delivered.                                   *)
(***************************************************************************)
EXTENDS EventBus, FiniteSets

FrameType ==
  [type : EventTypes, event : Nat, live : BOOLEAN, old : Seq(Handlers), next : Nat \ {0},
   running : BOOLEAN, before : Seq(Handlers), called : Seq(Handlers), removed : Nat]

\* Registry, log and calls are well formed: only the innermost call may be
\* between two handlers, every other waits for the handler that published, and
\* a call has called as many handlers as it has passed positions.
TypeOK ==
  /\ handlers \in [EventTypes -> Seq(Handlers)]
  /\ eventLog \in Seq(Nat) /\ subscribed \in Nat /\ published \in Nat
  /\ frames \in Seq(FrameType)
  /\ \A n \in 1..(Len(frames) - 1) : frames[n].running
  /\ \A n \in DOMAIN frames : frames[n].next = Len(frames[n].called) + 1

Returning == Len(frames') < Len(frames)

\* publish calls the handlers in the order of their registration, those that
\* registered meanwhile included, and none is left out for what another
\* handler does short of unsubscribing one: an exception, a publish of the
\* same or of another event, a clear (EventBus.publish).
EveryHandlerCalled ==
  [][Returning /\ Top.removed = 0 => Top.called = Iterated(Top)]_vars

Occurrences(s, h) == Cardinality({i \in DOMAIN s : s[i] = h})
Missed(f) == {h \in Handlers : Occurrences(f.called, h) < Occurrences(f.before, h)}

\* Each unsubscription from a list that is being iterated costs at most one
\* delivery: that of the handler removed, or of the one that takes its place
\* in a part of the list already passed.
MissesBounded ==
  \A n \in DOMAIN frames :
    LET f == frames[n]
    IN f.next > Len(Iterated(f)) => Cardinality(Missed(f)) <= f.removed

=============================================================================
