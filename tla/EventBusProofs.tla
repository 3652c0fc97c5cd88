---------------------------- MODULE EventBusProofs ----------------------------
(***************************************************************************)
(* The delivery guarantee of EventBusProperties, for every set of event    *)
(* types and handlers and every bound.                                     *)
(***************************************************************************)
EXTENDS EventBusProperties, FiniteSetTheorems, WellFoundedInduction, TLAPS

(* Why a call that lost no handler has called all of its list: what it     *)
(* called so far is the part of the list before its position, and only an  *)
(* unsubscription moves what is there.                                     *)
ListOf(f, lists) == IF f.live THEN lists[f.type] ELSE f.old

HasCalled(f, list) ==
  f.removed = 0 => \A i \in DOMAIN f.called : i \in DOMAIN list /\ f.called[i] = list[i]

CalledThePrefix == \A n \in DOMAIN frames : HasCalled(frames[n], ListOf(frames[n], handlers))

IInv == TypeOK /\ CalledThePrefix

-----------------------------------------------------------------------------
(* The registry. *)

\* Taking one element out of a sequence leaves a sequence of the same elements.
LEMMA WithoutType ==
  ASSUME NEW S, NEW s \in Seq(S), NEW i \in DOMAIN s
  PROVE  Without(s, i) \in Seq(S)
<1>1. SubSeq(s, 1, i - 1) \in Seq(S)  OBVIOUS
<1>2. SubSeq(s, i + 1, Len(s)) \in Seq(S)  OBVIOUS
<1> QED  BY <1>1, <1>2 DEF Without

LEMMA LeastOfNaturals ==
  ASSUME NEW T \in SUBSET Nat, T # {}
  PROVE  \E x \in T : \A y \in T : x <= y
<1> DEFINE R == {ss \in Nat \X Nat : ss[1] < ss[2]}
<1>1. IsWellFoundedOn(R, Nat)  BY NatLessThanWellFounded DEF OpToRel
<1>2. PICK x \in T : \A y \in T : ~ (<<y, x>> \in R)
  <2> HIDE DEF R
  <2> QED  BY <1>1, WFMin
<1>3. ASSUME NEW y \in T PROVE x <= y
  <2>1. <<y, x>> \in Nat \X Nat /\ <<y, x>>[1] = y /\ <<y, x>>[2] = x  OBVIOUS
  <2>2. ~ (y < x)  BY <1>2, <2>1
  <2> QED  BY <2>2
<1> QED  BY <1>3

\* The position unsubscribe removes is one of the list.
LEMMA FirstIsAPosition ==
  ASSUME TypeOK, NEW t \in EventTypes, NEW h, \E i \in DOMAIN handlers[t] : handlers[t][i] = h
  PROVE  First(t, h) \in DOMAIN handlers[t]
<1> DEFINE At == {i \in DOMAIN handlers[t] : handlers[t][i] = h}
<1>1. At # {} /\ At \in SUBSET Nat  BY DEF TypeOK
<1>2. PICK i \in At : \A j \in At : i <= j
  <2> HIDE DEF At
  <2> QED  BY <1>1, LeastOfNaturals
<1>3. \A j \in 1..(i - 1) : handlers[t][j] # h  BY <1>2 DEF TypeOK
<1> QED  BY <1>2, <1>3 DEF First

(***************************************************************************)
(* What each update of a call in progress leaves as it was.                *)
(***************************************************************************)
LEMMA OneRemoved ==
  ASSUME NEW f \in FrameType
  PROVE  LET g == [f EXCEPT !.removed = @ + 1] IN
         /\ g \in FrameType /\ g.removed = f.removed + 1
         /\ g.live = f.live /\ g.type = f.type /\ g.old = f.old
         /\ g.running = f.running /\ g.next = f.next /\ g.called = f.called
         /\ g.before = f.before
<1>1. f.removed + 1 \in Nat  BY DEF FrameType
<1> QED  BY <1>1, Zenon DEF FrameType

LEMMA ListKept ==
  ASSUME NEW f \in FrameType, NEW s \in Seq(Handlers)
  PROVE  LET g == [f EXCEPT !.live = FALSE, !.old = s] IN
         /\ g \in FrameType /\ g.live = FALSE /\ g.old = s /\ g.removed = f.removed
         /\ g.running = f.running /\ g.next = f.next /\ g.called = f.called
         /\ g.before = f.before
BY Zenon DEF FrameType

LEMMA OneCalled ==
  ASSUME NEW f \in FrameType, NEW h \in Handlers
  PROVE  LET g == [f EXCEPT !.running = TRUE, !.next = @ + 1, !.called = Append(@, h)] IN
         /\ g \in FrameType /\ g.running /\ g.next = f.next + 1
         /\ g.called = Append(f.called, h) /\ g.removed = f.removed
         /\ g.live = f.live /\ g.type = f.type /\ g.old = f.old /\ g.before = f.before
<1>1. f.next + 1 \in Nat \ {0} /\ Append(f.called, h) \in Seq(Handlers)  BY DEF FrameType
<1> QED  BY <1>1, Zenon DEF FrameType

LEMMA OneReturned ==
  ASSUME NEW f \in FrameType
  PROVE  LET g == [f EXCEPT !.running = FALSE] IN
         /\ g \in FrameType /\ ~ g.running /\ g.next = f.next
         /\ g.called = f.called /\ g.removed = f.removed
         /\ g.live = f.live /\ g.type = f.type /\ g.old = f.old /\ g.before = f.before
BY Zenon DEF FrameType

\* A new call has called nobody.
LEMMA NewFrame ==
  ASSUME TypeOK, NEW t \in EventTypes, NEW e \in Nat
  PROVE  /\ Frame(t, e) \in FrameType /\ Frame(t, e).called = <<>> /\ Frame(t, e).next = 1
         /\ Frame(t, e).live /\ Frame(t, e).type = t /\ Frame(t, e).before = handlers[t]
         /\ Frame(t, e).removed = 0
BY DEF Frame, FrameType, TypeOK

(***************************************************************************)
(* The calls in progress after each action, call by call.                  *)
(***************************************************************************)
LEMMA FramesAfterUnsubscribe ==
  ASSUME TypeOK, NEW t \in EventTypes, NEW h \in Handlers, Unsubscribe(t, h)
  PROVE  /\ DOMAIN frames' = DOMAIN frames /\ Len(frames') = Len(frames)
         /\ frames' \in Seq(FrameType)
         /\ \A n \in DOMAIN frames :
              /\ frames'[n].live = frames[n].live /\ frames'[n].type = frames[n].type
              /\ frames'[n].old = frames[n].old /\ frames'[n].running = frames[n].running
              /\ frames'[n].next = frames[n].next /\ frames'[n].called = frames[n].called
              /\ frames'[n].before = frames[n].before
              /\ frames'[n].removed = IF frames[n].live /\ frames[n].type = t
                                      THEN frames[n].removed + 1 ELSE frames[n].removed
<1>1. frames \in Seq(FrameType)  BY DEF TypeOK
<1> DEFINE Hit(n) == frames[n].live /\ frames[n].type = t
           G(n) == [frames[n] EXCEPT !.removed = @ + 1]
<1>2. frames' = [n \in DOMAIN frames |-> IF Hit(n) THEN G(n) ELSE frames[n]]
  BY DEF Unsubscribe
<1>3. \A n \in DOMAIN frames :
        /\ G(n) \in FrameType /\ G(n).removed = frames[n].removed + 1
        /\ G(n).live = frames[n].live /\ G(n).type = frames[n].type
        /\ G(n).old = frames[n].old /\ G(n).running = frames[n].running
        /\ G(n).next = frames[n].next /\ G(n).called = frames[n].called
        /\ G(n).before = frames[n].before
  <2>1. \A n \in DOMAIN frames : frames[n] \in FrameType  BY <1>1
  <2> QED  BY <2>1, OneRemoved, Zenon
<1> HIDE DEF G
<1>4. DOMAIN frames = 1..Len(frames) /\ Len(frames) \in Nat  BY <1>1
<1>5. \A n \in DOMAIN frames : frames'[n] \in FrameType  BY <1>1, <1>2, <1>3
<1>6. frames' \in [1..Len(frames) -> FrameType]  BY <1>2, <1>4, <1>5
<1>7. frames' \in Seq(FrameType) /\ Len(frames') = Len(frames)  BY <1>4, <1>6
<1> QED  BY <1>2, <1>3, <1>4, <1>7

LEMMA FramesAfterClear ==
  ASSUME TypeOK, Clear
  PROVE  /\ DOMAIN frames' = DOMAIN frames /\ Len(frames') = Len(frames)
         /\ frames' \in Seq(FrameType)
         /\ \A n \in DOMAIN frames :
              /\ ~ frames'[n].live /\ frames'[n].old = Iterated(frames[n])
              /\ frames'[n].running = frames[n].running /\ frames'[n].next = frames[n].next
              /\ frames'[n].called = frames[n].called
              /\ frames'[n].removed = frames[n].removed
              /\ frames'[n].before = frames[n].before
<1>1. frames \in Seq(FrameType) /\ handlers \in [EventTypes -> Seq(Handlers)]  BY DEF TypeOK
<1> DEFINE G(n) == [frames[n] EXCEPT !.live = FALSE, !.old = handlers[frames[n].type]]
<1>2. frames' = [n \in DOMAIN frames |-> IF frames[n].live THEN G(n) ELSE frames[n]]
  BY DEF Clear
<1>3. \A n \in DOMAIN frames :
        /\ G(n) \in FrameType /\ G(n).live = FALSE /\ G(n).old = handlers[frames[n].type]
        /\ G(n).removed = frames[n].removed /\ G(n).running = frames[n].running
        /\ G(n).next = frames[n].next /\ G(n).called = frames[n].called
        /\ G(n).before = frames[n].before
  <2>1. \A n \in DOMAIN frames : frames[n] \in FrameType  BY <1>1
  <2>2. \A n \in DOMAIN frames : handlers[frames[n].type] \in Seq(Handlers)
    BY <1>1, <2>1 DEF FrameType
  <2> QED  BY <2>1, <2>2, ListKept, Zenon
<1> HIDE DEF G
<1>4. DOMAIN frames = 1..Len(frames) /\ Len(frames) \in Nat  BY <1>1
<1>5. \A n \in DOMAIN frames : frames'[n] \in FrameType  BY <1>1, <1>2, <1>3
<1>6. frames' \in [1..Len(frames) -> FrameType]  BY <1>2, <1>4, <1>5
<1>7. frames' \in Seq(FrameType) /\ Len(frames') = Len(frames)  BY <1>4, <1>6
<1>8. \A n \in DOMAIN frames : frames[n].live \in BOOLEAN
  <2>1. \A n \in DOMAIN frames : frames[n] \in FrameType  BY <1>1
  <2> QED  BY <2>1 DEF FrameType
<1> QED  BY <1>2, <1>3, <1>4, <1>7, <1>8 DEF Iterated

\* An action that leaves where each call is.
CallsAsBefore ==
  /\ DOMAIN frames' = DOMAIN frames /\ Len(frames') = Len(frames)
  /\ \A n \in DOMAIN frames :
       /\ frames'[n].running = frames[n].running
       /\ frames'[n].next = frames[n].next /\ frames'[n].called = frames[n].called

LEMMA CallsKept ==
  ASSUME TypeOK, CallsAsBefore, frames' \in Seq(FrameType)
  PROVE  /\ \A n \in 1..(Len(frames') - 1) : frames'[n].running
         /\ \A n \in DOMAIN frames' : frames'[n].next = Len(frames'[n].called) + 1
<1>1. Len(frames) \in Nat /\ DOMAIN frames = 1..Len(frames)  BY DEF TypeOK
<1>2. \A n \in 1..(Len(frames) - 1) : n \in DOMAIN frames  BY <1>1
<1>3. \A n \in 1..(Len(frames) - 1) : frames[n].running  BY DEF TypeOK
<1>4. \A n \in DOMAIN frames : frames[n].next = Len(frames[n].called) + 1  BY DEF TypeOK
<1> QED  BY <1>2, <1>3, <1>4 DEF CallsAsBefore

\* An action on the innermost call leaves the others.
LEMMA TopReplaced ==
  ASSUME frames \in Seq(FrameType), frames # <<>>, NEW f \in FrameType,
         frames' = [frames EXCEPT ![Len(frames)] = f]
  PROVE  /\ frames' \in Seq(FrameType) /\ Len(frames') = Len(frames)
         /\ DOMAIN frames' = DOMAIN frames
         /\ frames'[Len(frames)] = f
         /\ \A n \in 1..(Len(frames) - 1) : frames'[n] = frames[n]
OBVIOUS

\* What a list holds at one of its positions.
LEMMA ElementOf ==
  ASSUME NEW S, NEW s \in Seq(S), NEW i \in Nat \ {0}, i <= Len(s)
  PROVE  s[i] \in S
OBVIOUS

LEMMA TopIsAFrame ==
  ASSUME TypeOK, frames # <<>>
  PROVE  Len(frames) \in DOMAIN frames /\ Top = frames[Len(frames)] /\ Top \in FrameType
         /\ Iterated(Top) \in Seq(Handlers)
<1>1. Len(frames) \in DOMAIN frames /\ Top \in FrameType  BY DEF TypeOK, Top
<1> QED  BY <1>1 DEF Top, TypeOK, FrameType, Iterated

-----------------------------------------------------------------------------
(* Type correctness. *)

LEMMA TypeInit == Init => TypeOK
BY DEF Init, TypeOK

LEMMA TypeNext ==
  ASSUME TypeOK, [Next]_vars
  PROVE  TypeOK'
<1> USE DEF TypeOK
<1>1. ASSUME NEW t \in EventTypes, Publish(t) PROVE TypeOK'
  <2>1. Frame(t, published') \in FrameType
    BY <1>1, NewFrame DEF Publish
  <2>2. Frame(t, published').next = Len(Frame(t, published').called) + 1
    BY <1>1, NewFrame DEF Publish
  <2>3. frames' \in Seq(FrameType)  BY <1>1, <2>1 DEF Publish
  <2>4. \A n \in DOMAIN frames : frames'[n] = frames[n]
    BY <1>1 DEF Publish
  <2>5. frames'[Len(frames')] = Frame(t, published') /\ Len(frames') = Len(frames) + 1
    BY <1>1 DEF Publish
  <2>6. \A n \in 1..(Len(frames') - 1) : frames'[n].running
    BY <1>1, <2>4, <2>5 DEF Publish, ClientRuns, Top
  <2>7. ASSUME NEW n \in DOMAIN frames' PROVE frames'[n].next = Len(frames'[n].called) + 1
    <3>1. CASE n = Len(frames')  BY <2>2, <2>5, <3>1
    <3>2. CASE n # Len(frames')
      <4>1. n \in DOMAIN frames  BY <2>3, <2>5, <3>2
      <4> QED  BY <2>4, <4>1
    <3> QED  BY <3>1, <3>2
  <2> QED  BY <1>1, <2>3, <2>6, <2>7 DEF Publish
<1>2. ASSUME NEW t \in EventTypes, NEW h \in Handlers, Subscribe(t, h) PROVE TypeOK'
  BY <1>2 DEF Subscribe
<1>3. ASSUME NEW t \in EventTypes, NEW h \in Handlers, Unsubscribe(t, h) PROVE TypeOK'
  <2>1. Without(handlers[t], First(t, h)) \in Seq(Handlers)
    BY <1>3, FirstIsAPosition, WithoutType DEF Unsubscribe
  <2>2. /\ handlers' = [handlers EXCEPT ![t] = Without(@, First(t, h))]
        /\ UNCHANGED <<eventLog, subscribed, published>>
    BY <1>3, Zenon DEF Unsubscribe
  <2>3. handlers' \in [EventTypes -> Seq(Handlers)]  BY <2>1, <2>2
  <2>4. CallsAsBefore /\ frames' \in Seq(FrameType)
    BY <1>3, FramesAfterUnsubscribe DEF CallsAsBefore
  <2> QED  BY <2>2, <2>3, <2>4, CallsKept
<1>4. CASE Clear
  <2>1. /\ handlers' = [t \in EventTypes |-> <<>>] /\ eventLog' = <<>>
        /\ UNCHANGED <<subscribed, published>>
    BY <1>4, Zenon DEF Clear
  <2>2. handlers' \in [EventTypes -> Seq(Handlers)] /\ eventLog' \in Seq(Nat)  BY <2>1
  <2>3. CallsAsBefore /\ frames' \in Seq(FrameType)
    BY <1>4, FramesAfterClear DEF CallsAsBefore
  <2> QED  BY <2>1, <2>2, <2>3, CallsKept
<1>5. CASE CallHandler
  <2> DEFINE f == [Top EXCEPT !.running = TRUE, !.next = @ + 1,
                              !.called = Append(@, Iterated(Top)[Top.next])]
  <2>1. Iterated(Top)[Top.next] \in Handlers
    <3>1. frames # <<>> /\ Top.next <= Len(Iterated(Top))  BY <1>5, Zenon DEF CallHandler, InLoop
    <3>2. Iterated(Top) \in Seq(Handlers) /\ Top \in FrameType  BY <3>1, TopIsAFrame, Zenon
    <3>3. Top.next \in Nat \ {0}  BY <3>2 DEF FrameType
    <3> QED  BY <3>1, <3>2, <3>3, ElementOf
  <2>2. /\ f \in FrameType /\ f.running /\ f.next = Top.next + 1
        /\ f.called = Append(Top.called, Iterated(Top)[Top.next])
    BY <1>5, <2>1, TopIsAFrame, OneCalled, Zenon DEF CallHandler, InLoop
  <2>3. frames' = [frames EXCEPT ![Len(frames)] = f]  BY <1>5 DEF CallHandler, WithTop
  <2> HIDE DEF f
  <2>4. f.next = Len(f.called) + 1
    <3>1. Top.next = Len(Top.called) + 1 /\ Top.called \in Seq(Handlers)
      BY <1>5, TopIsAFrame DEF CallHandler, InLoop, FrameType
    <3> QED  BY <2>1, <2>2, <3>1
  <2>5. frames # <<>> /\ frames \in Seq(FrameType)  BY <1>5 DEF CallHandler, InLoop
  <2> QED  BY <1>5, <2>2, <2>3, <2>4, <2>5, TopReplaced DEF CallHandler
<1>6. CASE HandlerReturns \/ HandlerRaises
  <2> DEFINE f == [Top EXCEPT !.running = FALSE]
  <2>1. f \in FrameType /\ f.next = Top.next /\ f.called = Top.called
    BY <1>6, TopIsAFrame, OneReturned, Zenon DEF HandlerReturns, HandlerRaises
  <2>2. frames' = [frames EXCEPT ![Len(frames)] = f]
    BY <1>6 DEF HandlerReturns, HandlerRaises, WithTop
  <2> HIDE DEF f
  <2>3. f.next = Len(f.called) + 1
    BY <1>6, <2>1, TopIsAFrame DEF HandlerReturns, HandlerRaises
  <2>4. frames # <<>> /\ frames \in Seq(FrameType)
    BY <1>6 DEF HandlerReturns, HandlerRaises
  <2>5. /\ frames' \in Seq(FrameType) /\ Len(frames') = Len(frames)
        /\ frames'[Len(frames)] = f
        /\ \A n \in 1..(Len(frames) - 1) : frames'[n] = frames[n]
    BY <2>1, <2>2, <2>4, TopReplaced
  <2>6. \A n \in 1..(Len(frames') - 1) : frames'[n].running  BY <2>4, <2>5
  <2>7. ASSUME NEW n \in DOMAIN frames' PROVE frames'[n].next = Len(frames'[n].called) + 1
    <3>1. CASE n = Len(frames)  BY <2>3, <2>5, <3>1
    <3>2. CASE n # Len(frames)
      <4>1. n \in DOMAIN frames /\ n \in 1..(Len(frames) - 1)  BY <2>4, <2>5, <3>2
      <4> QED  BY <2>5, <4>1
    <3> QED  BY <3>1, <3>2
  <2> QED  BY <1>6, <2>5, <2>6, <2>7 DEF HandlerReturns, HandlerRaises
<1>7. CASE Finish
  BY <1>7 DEF Finish, InLoop
<1>8. CASE UNCHANGED vars
  BY <1>8 DEF vars
<1> QED  BY <1>1, <1>2, <1>3, <1>4, <1>5, <1>6, <1>7, <1>8 DEF Next

(***************************************************************************)
(* The registry, the event log and the calls in progress stay well formed: *)
(* in every state all calls but the innermost are inside a handler, and a  *)
(* call has called one handler for each position it passed                 *)
(* (EventBus.publish).                                                     *)
(***************************************************************************)
THEOREM TypeCorrect == Spec => []TypeOK
<1> QED  BY TypeInit, TypeNext, PTL DEF Spec

-----------------------------------------------------------------------------
(* Delivery. *)

LEMMA PrefixInit == Init => CalledThePrefix
BY DEF Init, CalledThePrefix

(***************************************************************************)
(* What a step makes of one call in progress, e over the list k, and of    *)
(* its list: f over l.                                                     *)
(***************************************************************************)
Begins(f, l) == f.called = <<>> /\ f.next = 1 /\ f.removed = 0 /\ f.before = l

Waits(e, k, f, l) ==
  /\ f.called = e.called /\ f.next = e.next /\ f.removed = e.removed /\ f.before = e.before
  /\ l = k \/ \E h \in Handlers : l = Append(k, h)

LosesOne(e, k, f, l) ==
  /\ f.called = e.called /\ f.next = e.next /\ f.removed = e.removed + 1
  /\ f.before = e.before
  /\ \E i \in DOMAIN k : l = Without(k, i)

Delivers(e, k, f, l) ==
  /\ e.next <= Len(k) /\ l = k
  /\ f.called = Append(e.called, k[e.next]) /\ f.next = e.next + 1
  /\ f.removed = e.removed /\ f.before = e.before

CallStep(n) ==
  LET f == frames'[n]
      l == ListOf(frames'[n], handlers')
      e == frames[n]
      k == ListOf(frames[n], handlers)
  IN \/ n \notin DOMAIN frames /\ Begins(f, l)
     \/ n \in DOMAIN frames /\ (Waits(e, k, f, l) \/ LosesOne(e, k, f, l) \/ Delivers(e, k, f, l))

LEMMA UntouchedCall ==
  ASSUME NEW n \in DOMAIN frames, frames'[n] = frames[n], handlers' = handlers
  PROVE  CallStep(n)
BY DEF CallStep, Waits, ListOf

LEMMA CallSteps ==
  ASSUME TypeOK, [Next]_vars, NEW n \in DOMAIN frames'
  PROVE  CallStep(n)
<1>t. frames \in Seq(FrameType) /\ handlers \in [EventTypes -> Seq(Handlers)]  BY DEF TypeOK
<1>f. \A m \in DOMAIN frames : frames[m] \in FrameType  BY <1>t
<1>1. ASSUME NEW t \in EventTypes, Publish(t) PROVE CallStep(n)
  <2>1. handlers' = handlers /\ frames' = Append(frames, Frame(t, published')) /\ published' \in Nat
    BY <1>1 DEF Publish, TypeOK
  <2>2. CASE n \in DOMAIN frames
    <3>1. frames'[n] = frames[n]  BY <1>t, <2>1, <2>2
    <3> QED  BY <2>1, <2>2, <3>1, UntouchedCall
  <2>3. CASE n \notin DOMAIN frames
    <3>1. frames'[n] = Frame(t, published')  BY <1>t, <2>1, <2>3
    <3>2. Begins(frames'[n], ListOf(frames'[n], handlers'))
      BY <2>1, <3>1, NewFrame DEF Begins, ListOf
    <3> QED  BY <2>3, <3>2 DEF CallStep
  <2> QED  BY <2>2, <2>3
<1>2. ASSUME NEW t \in EventTypes, NEW h \in Handlers, Subscribe(t, h) PROVE CallStep(n)
  <2>1. frames' = frames /\ handlers' = [handlers EXCEPT ![t] = Append(@, h)]
    BY <1>2 DEF Subscribe
  <2>2. frames[n] \in FrameType  BY <1>f, <2>1
  <2> DEFINE l == ListOf(frames[n], handlers)  m == ListOf(frames[n], handlers')
  <2>3. m = l \/ m = Append(l, h)
    BY <1>t, <2>1, <2>2 DEF ListOf, FrameType
  <2> HIDE DEF l, m
  <2>4. Waits(frames[n], l, frames'[n], m)  BY <2>1, <2>3 DEF Waits
  <2> QED  BY <2>1, <2>4 DEF CallStep, l, m
<1>3. ASSUME NEW t \in EventTypes, NEW h \in Handlers, Unsubscribe(t, h) PROVE CallStep(n)
  <2>1. /\ handlers' = [handlers EXCEPT ![t] = Without(@, First(t, h))]
        /\ \E i \in DOMAIN handlers[t] : handlers[t][i] = h
    BY <1>3, Zenon DEF Unsubscribe
  <2>2. /\ n \in DOMAIN frames /\ frames'[n].live = frames[n].live
        /\ frames'[n].type = frames[n].type /\ frames'[n].old = frames[n].old
        /\ frames'[n].called = frames[n].called /\ frames'[n].next = frames[n].next
        /\ frames'[n].before = frames[n].before
        /\ frames'[n].removed = IF frames[n].live /\ frames[n].type = t
                                THEN frames[n].removed + 1 ELSE frames[n].removed
    BY <1>3, FramesAfterUnsubscribe
  <2>3. frames[n] \in FrameType  BY <1>f, <2>2
  <2>4. CASE frames[n].live /\ frames[n].type = t
    <3>1. /\ ListOf(frames[n], handlers) = handlers[t]
          /\ ListOf(frames'[n], handlers') = Without(handlers[t], First(t, h))
      BY <1>t, <2>1, <2>2, <2>4 DEF ListOf
    <3>2. First(t, h) \in DOMAIN handlers[t]  BY <2>1, FirstIsAPosition
    <3>3. LosesOne(frames[n], ListOf(frames[n], handlers),
                   frames'[n], ListOf(frames'[n], handlers'))
      BY <2>2, <2>4, <3>1, <3>2 DEF LosesOne
    <3> QED  BY <2>2, <3>3 DEF CallStep
  <2>5. CASE ~ (frames[n].live /\ frames[n].type = t)
    <3>1. ListOf(frames'[n], handlers') = ListOf(frames[n], handlers)
      BY <1>t, <2>1, <2>2, <2>3, <2>5 DEF ListOf, FrameType
    <3>2. frames'[n].removed = frames[n].removed  BY <2>2, <2>5
    <3> QED  BY <2>2, <3>1, <3>2 DEF CallStep, Waits
  <2> QED  BY <2>4, <2>5
<1>4. ASSUME Clear PROVE CallStep(n)
  <2>1. /\ n \in DOMAIN frames /\ ~ frames'[n].live /\ frames'[n].old = Iterated(frames[n])
        /\ frames'[n].called = frames[n].called /\ frames'[n].removed = frames[n].removed
        /\ frames'[n].next = frames[n].next /\ frames'[n].before = frames[n].before
    BY <1>4, FramesAfterClear
  <2>2. ListOf(frames'[n], handlers') = ListOf(frames[n], handlers)
    BY <2>1 DEF ListOf, Iterated
  <2> QED  BY <2>1, <2>2 DEF CallStep, Waits
<1>5. ASSUME CallHandler PROVE CallStep(n)
  <2> DEFINE h == Iterated(Top)[Top.next]
             f == [Top EXCEPT !.running = TRUE, !.next = @ + 1, !.called = Append(@, h)]
  <2>1. frames # <<>> /\ Top.next <= Len(Iterated(Top)) /\ handlers' = handlers
    BY <1>5, Zenon DEF CallHandler, InLoop
  <2>2. h \in Handlers
    <3>1. Iterated(Top) \in Seq(Handlers) /\ Top \in FrameType  BY <2>1, TopIsAFrame, Zenon
    <3>2. Top.next \in Nat \ {0}  BY <3>1 DEF FrameType
    <3> QED  BY <2>1, <3>1, <3>2, ElementOf
  <2>3. /\ f \in FrameType /\ f.called = Append(Top.called, h) /\ f.removed = Top.removed
        /\ f.next = Top.next + 1 /\ f.before = Top.before
        /\ f.live = Top.live /\ f.type = Top.type /\ f.old = Top.old
    BY <2>1, <2>2, TopIsAFrame, OneCalled, Zenon
  <2>4. frames' = [frames EXCEPT ![Len(frames)] = f]  BY <1>5 DEF CallHandler, WithTop
  <2>5. ListOf(f, handlers') = Iterated(Top) /\ ListOf(Top, handlers) = Iterated(Top)
    BY <2>1, <2>3 DEF ListOf, Iterated
  <2>6. Delivers(Top, ListOf(Top, handlers), f, ListOf(f, handlers'))
    BY <2>1, <2>3, <2>5, Zenon DEF Delivers
  <2> HIDE DEF f, h
  <2>7. CASE n = Len(frames)
    <3>1. n \in DOMAIN frames /\ Top = frames[n] /\ frames'[n] = f
      BY <1>t, <2>1, <2>3, <2>4, <2>7, TopReplaced, TopIsAFrame
    <3> QED  BY <2>6, <3>1, Zenon DEF CallStep
  <2>8. CASE n # Len(frames)
    <3>1. n \in DOMAIN frames /\ frames'[n] = frames[n]  BY <1>t, <2>4, <2>8
    <3> QED  BY <2>1, <3>1, UntouchedCall
  <2> QED  BY <2>7, <2>8
<1>6. ASSUME HandlerReturns \/ HandlerRaises PROVE CallStep(n)
  <2> DEFINE f == [Top EXCEPT !.running = FALSE]
  <2>1. frames # <<>> /\ handlers' = handlers
    BY <1>6, Zenon DEF HandlerReturns, HandlerRaises
  <2>2. /\ f \in FrameType /\ f.called = Top.called /\ f.removed = Top.removed
        /\ f.next = Top.next /\ f.before = Top.before
        /\ f.live = Top.live /\ f.type = Top.type /\ f.old = Top.old
    BY <2>1, TopIsAFrame, OneReturned, Zenon
  <2>3. frames' = [frames EXCEPT ![Len(frames)] = f]
    BY <1>6 DEF HandlerReturns, HandlerRaises, WithTop
  <2>4. ListOf(f, handlers') = ListOf(Top, handlers)  BY <2>1, <2>2 DEF ListOf
  <2> HIDE DEF f
  <2>5. Waits(Top, ListOf(Top, handlers), f, ListOf(f, handlers'))
    BY <2>2, <2>4, Zenon DEF Waits
  <2>6. CASE n = Len(frames)
    <3>1. n \in DOMAIN frames /\ Top = frames[n] /\ frames'[n] = f
      BY <1>t, <2>1, <2>2, <2>3, <2>6, TopReplaced, TopIsAFrame
    <3> QED  BY <2>5, <3>1, Zenon DEF CallStep
  <2>7. CASE n # Len(frames)
    <3>1. n \in DOMAIN frames /\ frames'[n] = frames[n]  BY <1>t, <2>3, <2>7
    <3> QED  BY <2>1, <3>1, UntouchedCall
  <2> QED  BY <2>6, <2>7
<1>7. ASSUME Finish PROVE CallStep(n)
  <2>1. n \in DOMAIN frames /\ frames'[n] = frames[n] /\ handlers' = handlers
    BY <1>t, <1>7 DEF Finish, InLoop
  <2> QED  BY <2>1, UntouchedCall
<1>8. ASSUME UNCHANGED vars PROVE CallStep(n)
  BY <1>8, UntouchedCall DEF vars
<1> QED  BY <1>1, <1>2, <1>3, <1>4, <1>5, <1>6, <1>7, <1>8 DEF Next

LEMMA FrameIsTyped ==
  ASSUME TypeOK, NEW n \in DOMAIN frames
  PROVE  /\ frames[n] \in FrameType /\ frames[n].next = Len(frames[n].called) + 1
         /\ frames[n].called \in Seq(Handlers) /\ frames[n].removed \in Nat
         /\ frames[n].before \in Seq(Handlers)
         /\ ListOf(frames[n], handlers) \in Seq(Handlers)
<1>1. frames[n] \in FrameType  BY DEF TypeOK
<1>2. handlers \in [EventTypes -> Seq(Handlers)]  BY DEF TypeOK
<1>3. ListOf(frames[n], handlers) \in Seq(Handlers)  BY <1>1, <1>2 DEF FrameType, ListOf
<1>4. frames[n].next = Len(frames[n].called) + 1  BY DEF TypeOK
<1> QED  BY <1>1, <1>3, <1>4 DEF FrameType

LEMMA PrefixKept ==
  ASSUME NEW e, NEW f, NEW l, NEW k \in Seq(Handlers), e.called \in Seq(Handlers),
         e.removed \in Nat, e.next = Len(e.called) + 1, HasCalled(e, k),
         Waits(e, k, f, l) \/ LosesOne(e, k, f, l) \/ Delivers(e, k, f, l)
  PROVE  HasCalled(f, l)
<1> SUFFICES ASSUME f.removed = 0, NEW i \in DOMAIN f.called
             PROVE  i \in DOMAIN l /\ f.called[i] = l[i]
  BY DEF HasCalled
<1>1. CASE Waits(e, k, f, l)
  <2>1. i \in DOMAIN k /\ f.called[i] = k[i]  BY <1>1 DEF Waits, HasCalled
  <2>2. CASE l = k  BY <2>1, <2>2
  <2>3. ASSUME NEW h \in Handlers, l = Append(k, h) PROVE i \in DOMAIN l /\ f.called[i] = l[i]
    BY <2>1, <2>3
  <2> QED  BY <1>1, <2>2, <2>3 DEF Waits
<1>2. CASE LosesOne(e, k, f, l)
  <2>1. f.removed = e.removed + 1  BY <1>2 DEF LosesOne
  <2> QED  BY <2>1
<1>3. CASE Delivers(e, k, f, l)
  <2>1. f.called = Append(e.called, k[e.next]) /\ e.next <= Len(k) /\ l = k /\ e.removed = 0
    BY <1>3 DEF Delivers
  <2>2. CASE i \in DOMAIN e.called
    <3>1. i \in DOMAIN k /\ e.called[i] = k[i]  BY <2>1, <2>2 DEF HasCalled
    <3> QED  BY <2>1, <2>2, <3>1
  <2>3. CASE i = e.next
    BY <2>1, <2>3
  <2>4. i \in 1..(Len(e.called) + 1)  BY <2>1
  <2> QED  BY <2>2, <2>3, <2>4
<1> QED  BY <1>1, <1>2, <1>3

LEMMA PrefixNext ==
  ASSUME IInv, [Next]_vars
  PROVE  CalledThePrefix'
<1> USE DEF IInv
<1> SUFFICES ASSUME NEW n \in DOMAIN frames'
             PROVE  HasCalled(frames'[n], ListOf(frames'[n], handlers'))
  BY DEF CalledThePrefix
<1>1. CASE n \notin DOMAIN frames
  BY <1>1, CallSteps DEF CallStep, Begins, HasCalled
<1>2. CASE n \in DOMAIN frames
  <2>1. HasCalled(frames[n], ListOf(frames[n], handlers))  BY <1>2 DEF CalledThePrefix
  <2>2. \/ Waits(frames[n], ListOf(frames[n], handlers), frames'[n], ListOf(frames'[n], handlers'))
        \/ LosesOne(frames[n], ListOf(frames[n], handlers), frames'[n], ListOf(frames'[n], handlers'))
        \/ Delivers(frames[n], ListOf(frames[n], handlers), frames'[n], ListOf(frames'[n], handlers'))
    BY <1>2, CallSteps DEF CallStep
  <2>3. /\ frames[n].called \in Seq(Handlers) /\ frames[n].removed \in Nat
        /\ frames[n].next = Len(frames[n].called) + 1
        /\ ListOf(frames[n], handlers) \in Seq(Handlers)
    BY <1>2, FrameIsTyped
  <2> QED  BY <2>1, <2>2, <2>3, PrefixKept
<1> QED  BY <1>1, <1>2

\* publish returns only where its list ends.
LEMMA ReturnsAtTheEnd ==
  ASSUME TypeOK, [Next]_vars, Returning
  PROVE  Finish
<1>0. Len(frames) \in Nat /\ frames \in Seq(FrameType)  BY DEF TypeOK
<1>1. ASSUME NEW t \in EventTypes, Publish(t) PROVE FALSE
  BY <1>0, <1>1 DEF Publish, Returning
<1>2. ASSUME NEW t \in EventTypes, NEW h \in Handlers, Subscribe(t, h) PROVE FALSE
  BY <1>0, <1>2 DEF Subscribe, Returning
<1>3. ASSUME NEW t \in EventTypes, NEW h \in Handlers, Unsubscribe(t, h) PROVE FALSE
  BY <1>0, <1>3, FramesAfterUnsubscribe DEF Returning
<1>4. ASSUME Clear PROVE FALSE
  BY <1>0, <1>4, FramesAfterClear DEF Returning
<1>5. ASSUME CallHandler \/ HandlerReturns \/ HandlerRaises PROVE FALSE
  <2>1. PICK f : frames' = [frames EXCEPT ![Len(frames)] = f]
    BY <1>5, Zenon DEF CallHandler, HandlerReturns, HandlerRaises, WithTop
  <2>2. Len(frames') = Len(frames)  BY <1>0, <2>1
  <2> QED  BY <1>0, <2>2 DEF Returning
<1>6. ASSUME UNCHANGED vars PROVE FALSE
  BY <1>0, <1>6 DEF vars, Returning
<1> QED  BY <1>1, <1>2, <1>3, <1>4, <1>5, <1>6 DEF Next

(***************************************************************************)
(* publish calls every handler of its list, in order and those registered  *)
(* meanwhile included, unless an unsubscription took one out, whatever     *)
(* the handlers raise, publish or clear (EventBus.publish), for any number *)
(* of events, handlers and calls inside one another.                       *)
(***************************************************************************)
THEOREM Delivery == Spec => EveryHandlerCalled
<1>1. Init => IInv  BY TypeInit, PrefixInit DEF IInv
<1>2. IInv /\ [Next]_vars => IInv'  BY TypeNext, PrefixNext DEF IInv
<1>3. IInv /\ [Next]_vars => [Returning /\ Top.removed = 0 => Top.called = Iterated(Top)]_vars
  <2> SUFFICES ASSUME IInv, [Next]_vars, Returning, Top.removed = 0
               PROVE  Top.called = Iterated(Top)
    OBVIOUS
  <2>1. frames # <<>> /\ Top.next > Len(Iterated(Top))
    BY ReturnsAtTheEnd DEF IInv, Finish, InLoop
  <2>2. Top.next = Len(Top.called) + 1 /\ Top.called \in Seq(Handlers)
    BY <2>1, TopIsAFrame DEF IInv, TypeOK, FrameType
  <2>3. HasCalled(Top, Iterated(Top))
    BY <2>1, TopIsAFrame DEF IInv, CalledThePrefix, ListOf, Iterated
  <2>4. Iterated(Top) \in Seq(Handlers)  BY <2>1, TopIsAFrame DEF IInv
  <2> QED  BY <2>1, <2>2, <2>3, <2>4 DEF HasCalled
<1> QED  BY <1>1, <1>2, <1>3, PTL DEF Spec, EveryHandlerCalled

-----------------------------------------------------------------------------
(***************************************************************************)
(* Missed deliveries.  A handler is short when those it received and those *)
(* its list still has in store for it, from the position of the call on,   *)
(* are fewer than its registrations when the call began.                   *)
(***************************************************************************)
Positions(s, n, h) == {i \in DOMAIN s : i >= n /\ s[i] = h}
FromOn(s, n, h) == Cardinality(Positions(s, n, h))

Short(f, l) ==
  {h \in Handlers : Occurrences(f.called, h) + FromOn(l, f.next, h) < Occurrences(f.before, h)}

ShortBounded(f, l) == IsFiniteSet(Short(f, l)) /\ Cardinality(Short(f, l)) <= f.removed

AllShortBounded ==
  \A n \in DOMAIN frames : ShortBounded(frames[n], ListOf(frames[n], handlers))

\* The positions of a handler in a list are finitely many.
LEMMA PositionsFinite ==
  ASSUME NEW S, NEW s \in Seq(S), NEW n, NEW h
  PROVE  IsFiniteSet(Positions(s, n, h)) /\ FromOn(s, n, h) \in Nat
<1>1. Positions(s, n, h) \in SUBSET (1..Len(s)) /\ Len(s) \in Nat  BY DEF Positions
<1>2. IsFiniteSet(1..Len(s))  BY <1>1, FS_Interval
<1>3. IsFiniteSet(Positions(s, n, h))  BY <1>1, <1>2, FS_Subset
<1> QED  BY <1>3, FS_CardinalityType DEF FromOn

LEMMA OccurrencesFromOne ==
  ASSUME NEW S, NEW s \in Seq(S), NEW h
  PROVE  Occurrences(s, h) = FromOn(s, 1, h) /\ Occurrences(s, h) \in Nat
<1>1. {i \in DOMAIN s : s[i] = h} = Positions(s, 1, h)  BY DEF Positions
<1>2. Occurrences(s, h) = FromOn(s, 1, h)  BY <1>1, Zenon DEF Occurrences, FromOn
<1> QED  BY <1>2, PositionsFinite

LEMMA OccurrencesAppend ==
  ASSUME NEW S, NEW s \in Seq(S), NEW x \in S, NEW h
  PROVE  Occurrences(Append(s, x), h) = Occurrences(s, h) + (IF x = h THEN 1 ELSE 0)
<1> DEFINE P == Positions(s, 1, h)
           Q == Positions(Append(s, x), 1, h)
<1>1. IsFiniteSet(P) /\ Cardinality(P) = Occurrences(s, h) /\ Occurrences(s, h) \in Nat
  BY PositionsFinite, OccurrencesFromOne, Zenon DEF FromOn
<1>2. Append(s, x) \in Seq(S)  OBVIOUS
<1>3. Cardinality(Q) = Occurrences(Append(s, x), h)
  BY <1>2, OccurrencesFromOne, Zenon DEF FromOn
<1>4. CASE x = h
  <2>1. Q = P \cup {Len(s) + 1}  BY <1>4 DEF Positions
  <2>2. Len(s) + 1 \notin P  BY DEF Positions
  <2> HIDE DEF P, Q
  <2>3. Cardinality(Q) = Cardinality(P) + 1  BY <1>1, <2>1, <2>2, FS_AddElement
  <2> QED  BY <1>1, <1>3, <1>4, <2>3
<1>5. CASE x # h
  <2>1. Q = P  BY <1>5 DEF Positions
  <2> HIDE DEF P, Q
  <2> QED  BY <1>1, <1>3, <1>5, <2>1
<1> QED  BY <1>4, <1>5

LEMMA FromOnAppend ==
  ASSUME NEW S, NEW s \in Seq(S), NEW x \in S, NEW n, NEW h
  PROVE  FromOn(s, n, h) <= FromOn(Append(s, x), n, h)
<1>1. Append(s, x) \in Seq(S)  OBVIOUS
<1>2. Positions(s, n, h) \in SUBSET Positions(Append(s, x), n, h)  BY DEF Positions
<1>3. IsFiniteSet(Positions(Append(s, x), n, h))  BY <1>1, PositionsFinite
<1> QED  BY <1>2, <1>3, FS_Subset DEF FromOn

\* The handler at a position is the first of those from there on.
LEMMA FromOnSplits ==
  ASSUME NEW S, NEW s \in Seq(S), NEW n \in DOMAIN s, NEW h
  PROVE  FromOn(s, n, h) = FromOn(s, n + 1, h) + (IF s[n] = h THEN 1 ELSE 0)
<1> DEFINE P == Positions(s, n + 1, h)
           Q == Positions(s, n, h)
<1>1. IsFiniteSet(P) /\ Cardinality(P) \in Nat  BY PositionsFinite DEF FromOn
<1>2. CASE s[n] = h
  <2>1. Q = P \cup {n}  BY <1>2 DEF Positions
  <2>2. n \notin P  BY DEF Positions
  <2> HIDE DEF P, Q
  <2>3. Cardinality(Q) = Cardinality(P) + 1  BY <1>1, <2>1, <2>2, FS_AddElement
  <2> QED  BY <1>2, <2>3 DEF FromOn, P, Q
<1>3. CASE s[n] # h
  <2>1. Q = P  BY <1>3 DEF Positions
  <2> QED  BY <1>1, <1>3, <2>1 DEF FromOn
<1> QED  BY <1>2, <1>3

LEMMA ConcatIs ==
  ASSUME NEW S, NEW a \in Seq(S), NEW b \in Seq(S)
  PROVE  /\ a \o b \in Seq(S) /\ Len(a \o b) = Len(a) + Len(b)
         /\ \A x \in 1..(Len(a) + Len(b)) :
              (a \o b)[x] = IF x <= Len(a) THEN a[x] ELSE b[x - Len(a)]
OBVIOUS

\* What a list holds when one of its elements is taken out.
LEMMA WithoutIs ==
  ASSUME NEW S, NEW s \in Seq(S), NEW i \in DOMAIN s
  PROVE  /\ Without(s, i) \in Seq(S) /\ Len(Without(s, i)) = Len(s) - 1
         /\ \A j \in DOMAIN s : j < i => j \in DOMAIN Without(s, i) /\ Without(s, i)[j] = s[j]
         /\ \A j \in DOMAIN s :
              j > i => j - 1 \in DOMAIN Without(s, i) /\ Without(s, i)[j - 1] = s[j]
<1> DEFINE a == SubSeq(s, 1, i - 1)
           b == SubSeq(s, i + 1, Len(s))
<1>1. a \in Seq(S) /\ Len(a) = i - 1 /\ \A j \in 1..(i - 1) : a[j] = s[j]  OBVIOUS
<1>2. b \in Seq(S) /\ Len(b) = Len(s) - i /\ \A j \in 1..(Len(s) - i) : b[j] = s[i + j]
  OBVIOUS
<1>3. Without(s, i) = a \o b  BY DEF Without
<1>4. Len(s) \in Nat /\ i \in 1..Len(s) /\ DOMAIN s = 1..Len(s)  OBVIOUS
<1> HIDE DEF a, b
<1>5. a \o b \in Seq(S) /\ Len(a \o b) = Len(s) - 1
  <2>1. a \o b \in Seq(S) /\ Len(a \o b) = Len(a) + Len(b)  BY <1>1, <1>2, ConcatIs
  <2>2. (i - 1) + (Len(s) - i) = Len(s) - 1  BY <1>4
  <2> QED  BY <1>1, <1>2, <2>1, <2>2
<1>6. ASSUME NEW j \in 1..Len(s), j < i PROVE j \in DOMAIN (a \o b) /\ (a \o b)[j] = s[j]
  BY <1>1, <1>2, <1>4, <1>6
<1>7. ASSUME NEW j \in 1..Len(s), j > i
      PROVE  j - 1 \in DOMAIN (a \o b) /\ (a \o b)[j - 1] = s[j]
  <2>1. j - 1 \in 1..(Len(a) + Len(b)) /\ j - 1 > Len(a) /\ j - 1 - Len(a) = j - i
    BY <1>1, <1>2, <1>4, <1>7
  <2>2. (a \o b)[j - 1] = b[j - i]
    <3>1. \A x \in 1..(Len(a) + Len(b)) :
            (a \o b)[x] = IF x <= Len(a) THEN a[x] ELSE b[x - Len(a)]
      BY <1>1, <1>2, ConcatIs
    <3>2. ~ (j - 1 <= Len(a))  BY <1>1, <1>4, <1>7
    <3> QED  BY <2>1, <3>1, <3>2
  <2>3. b[j - i] = s[j]  BY <1>2, <1>4, <1>7
  <2> QED  BY <1>1, <1>2, <2>1, <2>2, <2>3
<1> QED  BY <1>3, <1>4, <1>5, <1>6, <1>7

\* Of what is left of the list it costs the others nothing: those after the
\* element move up, and none but the first left can move out.
LEMMA OthersKeepTheirs ==
  ASSUME NEW S, NEW s \in Seq(S), NEW i \in DOMAIN s, NEW n \in Nat \ {0}, NEW h,
         h # s[IF i < n THEN n ELSE i]
  PROVE  FromOn(s, n, h) <= FromOn(Without(s, i), n, h)
<1> DEFINE P == Positions(s, n, h)
           Q == Positions(Without(s, i), n, h)
           m == [j \in P |-> IF j < i THEN j ELSE j - 1]
<1>1. IsFiniteSet(Q)  BY WithoutType, PositionsFinite
<1>2. \A j \in P : /\ j \in DOMAIN s /\ j \in Int /\ j >= n /\ s[j] = h /\ j # i
                   /\ i < n => j # n
  BY DEF Positions
<1>3. i \in Int  OBVIOUS
<1>4. ASSUME NEW j \in P PROVE m[j] \in Q
  <2>1. CASE j < i
    BY <1>2, <2>1, WithoutIs DEF Positions
  <2>2. CASE j > i
    <3>1. j - 1 \in DOMAIN Without(s, i) /\ Without(s, i)[j - 1] = h
      BY <1>2, <2>2, WithoutIs
    <3>2. j - 1 >= n
      <4>1. CASE i < n  BY <1>2, <4>1
      <4>2. CASE ~ (i < n)  BY <1>2, <1>3, <2>2, <4>2
      <4> QED  BY <4>1, <4>2
    <3> QED  BY <1>2, <1>3, <2>2, <3>1, <3>2 DEF Positions
  <2> QED  BY <1>2, <1>3, <2>1, <2>2
<1>5. ASSUME NEW j1 \in P, NEW j2 \in P, m[j1] = m[j2] PROVE j1 = j2
  BY <1>2, <1>3, <1>5
<1>6. m \in Injection(P, Q)
  <2> HIDE DEF P, Q
  <2>1. m \in [P -> Q]  BY <1>4
  <2> HIDE DEF m
  <2> QED  BY <1>5, <2>1 DEF Injection, IsInjective
<1> HIDE DEF m, P, Q
<1> QED  BY <1>1, <1>6, FS_Injection DEF FromOn, P, Q

(***************************************************************************)
(* No step makes more than one handler short, and only an unsubscription   *)
(* makes one.                                                              *)
(***************************************************************************)
LEMMA NoneShortAtFirst ==
  ASSUME NEW f, NEW l \in Seq(Handlers), Begins(f, l)
  PROVE  ShortBounded(f, l)
<1>1. f.called = <<>> /\ f.next = 1 /\ f.removed = 0 /\ f.before = l  BY DEF Begins
<1>2. ASSUME NEW h PROVE Occurrences(<<>>, h) + FromOn(l, 1, h) = Occurrences(l, h)
  <2>1. {i \in DOMAIN <<>> : <<>>[i] = h} = {}  OBVIOUS
  <2>2. Occurrences(<<>>, h) = 0  BY <2>1, FS_EmptySet, Zenon DEF Occurrences
  <2>3. FromOn(l, 1, h) = Occurrences(l, h) /\ Occurrences(l, h) \in Nat
    BY OccurrencesFromOne
  <2> QED  BY <2>2, <2>3
<1>3. \A h : Occurrences(l, h) \in Nat  BY OccurrencesFromOne
<1>4. Short(f, l) = {}  BY <1>1, <1>2, <1>3 DEF Short
<1> QED  BY <1>1, <1>4, FS_EmptySet DEF ShortBounded

LEMMA StaysBounded ==
  ASSUME NEW e, NEW k, NEW f, NEW l, ShortBounded(e, k), e.removed \in Nat,
         Short(f, l) \subseteq Short(e, k), f.removed = e.removed
  PROVE  ShortBounded(f, l)
<1>1. IsFiniteSet(Short(f, l)) /\ Cardinality(Short(f, l)) <= Cardinality(Short(e, k))
  BY FS_Subset DEF ShortBounded
<1>2. Cardinality(Short(f, l)) \in Nat /\ Cardinality(Short(e, k)) \in Nat
  BY <1>1, FS_CardinalityType DEF ShortBounded
<1> QED  BY <1>1, <1>2 DEF ShortBounded

LEMMA OneMoreShort ==
  ASSUME NEW e, NEW k, NEW f, NEW l, NEW x, ShortBounded(e, k), e.removed \in Nat,
         Short(f, l) \subseteq Short(e, k) \cup {x}, f.removed = e.removed + 1
  PROVE  ShortBounded(f, l)
<1>1. /\ IsFiniteSet(Short(e, k)) /\ Cardinality(Short(e, k)) \in Nat
      /\ Cardinality(Short(e, k)) <= e.removed
  BY FS_CardinalityType DEF ShortBounded
<1>2. /\ IsFiniteSet(Short(e, k) \cup {x})
      /\ Cardinality(Short(e, k) \cup {x}) <= Cardinality(Short(e, k)) + 1
      /\ Cardinality(Short(e, k) \cup {x}) \in Nat
  <2>1. /\ IsFiniteSet(Short(e, k) \cup {x})
        /\ Cardinality(Short(e, k) \cup {x}) =
             IF x \in Short(e, k) THEN Cardinality(Short(e, k)) ELSE Cardinality(Short(e, k)) + 1
    BY <1>1, FS_AddElement, Zenon
  <2> QED  BY <1>1, <2>1
<1>3. IsFiniteSet(Short(f, l)) /\ Cardinality(Short(f, l)) <= Cardinality(Short(e, k) \cup {x})
  BY <1>2, FS_Subset
<1>4. Cardinality(Short(f, l)) \in Nat  BY <1>3, FS_CardinalityType
<1> QED  BY <1>1, <1>2, <1>3, <1>4 DEF ShortBounded

LEMMA WaitingShortsNone ==
  ASSUME NEW e, NEW f, NEW l, NEW k \in Seq(Handlers), e.called \in Seq(Handlers),
         e.before \in Seq(Handlers), Waits(e, k, f, l)
  PROVE  Short(f, l) \subseteq Short(e, k)
<1>1. f.called = e.called /\ f.next = e.next /\ f.before = e.before  BY DEF Waits
<1>2. l \in Seq(Handlers) /\ \A h \in Handlers : FromOn(k, e.next, h) <= FromOn(l, e.next, h)
  <2>1. CASE l = k
    <3>1. \A h \in Handlers : FromOn(k, e.next, h) \in Nat  BY PositionsFinite
    <3> QED  BY <2>1, <3>1
  <2>2. ASSUME NEW x \in Handlers, l = Append(k, x)
        PROVE  l \in Seq(Handlers) /\ \A h \in Handlers : FromOn(k, e.next, h) <= FromOn(l, e.next, h)
    BY <2>2, FromOnAppend
  <2> QED  BY <2>1, <2>2 DEF Waits
<1>3. \A h \in Handlers :
        /\ FromOn(k, e.next, h) \in Nat /\ FromOn(l, e.next, h) \in Nat
        /\ Occurrences(e.called, h) \in Nat /\ Occurrences(e.before, h) \in Nat
  BY <1>2, PositionsFinite, OccurrencesFromOne
<1> QED  BY <1>1, <1>2, <1>3 DEF Short

LEMMA DeliveryShortsNone ==
  ASSUME NEW e, NEW f, NEW l, NEW k \in Seq(Handlers), e.called \in Seq(Handlers),
         e.before \in Seq(Handlers), e.next = Len(e.called) + 1, Delivers(e, k, f, l)
  PROVE  Short(f, l) \subseteq Short(e, k)
<1>1. /\ f.called = Append(e.called, k[e.next]) /\ f.next = e.next + 1 /\ f.before = e.before
      /\ l = k /\ e.next <= Len(k)
  BY DEF Delivers
<1>2. e.next \in DOMAIN k /\ k[e.next] \in Handlers  BY <1>1
<1>3. ASSUME NEW h \in Handlers
      PROVE  /\ Occurrences(e.called, h) \in Nat /\ Occurrences(e.before, h) \in Nat
             /\ FromOn(k, e.next + 1, h) \in Nat
             /\ Occurrences(f.called, h)
                  = Occurrences(e.called, h) + (IF k[e.next] = h THEN 1 ELSE 0)
             /\ FromOn(k, e.next, h)
                  = FromOn(k, e.next + 1, h) + (IF k[e.next] = h THEN 1 ELSE 0)
  BY <1>1, <1>2, PositionsFinite, OccurrencesFromOne, OccurrencesAppend, FromOnSplits
<1>4. ASSUME NEW h \in Handlers
      PROVE  Occurrences(f.called, h) + FromOn(l, f.next, h)
               = Occurrences(e.called, h) + FromOn(k, e.next, h)
  <2>1. CASE k[e.next] = h  BY <1>1, <1>3, <2>1
  <2>2. CASE k[e.next] # h  BY <1>1, <1>3, <2>2
  <2> QED  BY <2>1, <2>2
<1> QED  BY <1>1, <1>4 DEF Short

LEMMA RemovalBounded ==
  ASSUME NEW e, NEW f, NEW l, NEW k \in Seq(Handlers), e.called \in Seq(Handlers),
         e.before \in Seq(Handlers), e.next = Len(e.called) + 1, e.removed \in Nat,
         ShortBounded(e, k), LosesOne(e, k, f, l)
  PROVE  ShortBounded(f, l)
<1>1. /\ f.called = e.called /\ f.next = e.next /\ f.before = e.before
      /\ f.removed = e.removed + 1
  BY DEF LosesOne
<1>2. PICK i \in DOMAIN k : l = Without(k, i)  BY DEF LosesOne
<1> DEFINE x == k[IF i < e.next THEN e.next ELSE i]
<1>3. e.next \in Nat \ {0} /\ i \in Nat  OBVIOUS
<1>4. ASSUME NEW h \in Handlers, h # x, h \in Short(f, l) PROVE h \in Short(e, k)
  <2>1. FromOn(k, e.next, h) <= FromOn(l, e.next, h)
    BY <1>2, <1>3, <1>4, OthersKeepTheirs
  <2>2. l \in Seq(Handlers)  BY <1>2, WithoutType
  <2>3. /\ FromOn(k, e.next, h) \in Nat /\ FromOn(l, e.next, h) \in Nat
        /\ Occurrences(e.called, h) \in Nat /\ Occurrences(e.before, h) \in Nat
    BY <2>2, PositionsFinite, OccurrencesFromOne
  <2> QED  BY <1>1, <1>4, <2>1, <2>3 DEF Short
<1>5. Short(f, l) \subseteq Short(e, k) \cup {x}  BY <1>4 DEF Short
<1> HIDE DEF x
<1> QED  BY <1>1, <1>5, OneMoreShort

LEMMA ShortNext ==
  ASSUME TypeOK, AllShortBounded, [Next]_vars
  PROVE  AllShortBounded'
<1> SUFFICES ASSUME NEW n \in DOMAIN frames'
             PROVE  ShortBounded(frames'[n], ListOf(frames'[n], handlers'))
  BY DEF AllShortBounded
<1>1. CASE n \notin DOMAIN frames
  <2>1. Begins(frames'[n], ListOf(frames'[n], handlers'))  BY <1>1, CallSteps DEF CallStep
  <2>2. ListOf(frames'[n], handlers') \in Seq(Handlers)
    <3>1. TypeOK'  BY TypeNext
    <3>2. (frames[n] \in FrameType)'  BY <3>1 DEF TypeOK
    <3>3. handlers' \in [EventTypes -> Seq(Handlers)]  BY <3>1 DEF TypeOK
    <3> QED  BY <3>2, <3>3 DEF ListOf, FrameType
  <2> QED  BY <2>1, <2>2, NoneShortAtFirst
<1>2. CASE n \in DOMAIN frames
  <2> DEFINE f == frames'[n]
             l == ListOf(frames'[n], handlers')
             e == frames[n]
             k == ListOf(frames[n], handlers)
  <2>1. ShortBounded(e, k)  BY <1>2 DEF AllShortBounded
  <2>2. Waits(e, k, f, l) \/ LosesOne(e, k, f, l) \/ Delivers(e, k, f, l)
    BY <1>2, CallSteps DEF CallStep
  <2>3. /\ e.called \in Seq(Handlers) /\ e.before \in Seq(Handlers) /\ e.removed \in Nat
        /\ e.next = Len(e.called) + 1 /\ k \in Seq(Handlers)
    BY <1>2, FrameIsTyped
  <2> HIDE DEF e, k, f, l
  <2>4. CASE Waits(e, k, f, l)
    <3>1. f.removed = e.removed  BY <2>4 DEF Waits
    <3> QED  BY <2>1, <2>3, <2>4, <3>1, WaitingShortsNone, StaysBounded DEF f, l
  <2>5. CASE LosesOne(e, k, f, l)
    BY <2>1, <2>3, <2>5, RemovalBounded DEF f, l
  <2>6. CASE Delivers(e, k, f, l)
    <3>1. f.removed = e.removed  BY <2>6 DEF Delivers
    <3> QED  BY <2>1, <2>3, <2>6, <3>1, DeliveryShortsNone, StaysBounded DEF f, l
  <2> QED  BY <2>2, <2>4, <2>5, <2>6
<1> QED  BY <1>1, <1>2

\* Where the list ends nothing is in store: who is short has missed a delivery.
LEMMA ShortAtTheEnd ==
  ASSUME NEW f, NEW l \in Seq(Handlers), f.called \in Seq(Handlers), f.next \in Nat,
         f.next > Len(l), ShortBounded(f, l)
  PROVE  Cardinality(Missed(f)) <= f.removed
<1>1. ASSUME NEW h \in Handlers
      PROVE  Occurrences(f.called, h) + FromOn(l, f.next, h) = Occurrences(f.called, h)
  <2>1. Positions(l, f.next, h) = {}  BY DEF Positions
  <2>2. FromOn(l, f.next, h) = 0  BY <2>1, FS_EmptySet DEF FromOn
  <2>3. Occurrences(f.called, h) \in Nat  BY OccurrencesFromOne
  <2> QED  BY <2>2, <2>3
<1>2. Short(f, l) = Missed(f)  BY <1>1 DEF Short, Missed
<1> QED  BY <1>2 DEF ShortBounded

(***************************************************************************)
(* However handlers come and go while an event is delivered, no more of    *)
(* those registered when publish began miss a delivery than the times one  *)
(* was unsubscribed from the list it iterates (EventBus.publish,           *)
(* EventBus.unsubscribe).                                                  *)
(***************************************************************************)
THEOREM MissesAreBounded == Spec => []MissesBounded
<1>1. Init => TypeOK /\ AllShortBounded
  <2>1. Init => AllShortBounded  BY DEF Init, AllShortBounded
  <2> QED  BY <2>1, TypeInit
<1>2. TypeOK /\ AllShortBounded /\ [Next]_vars => (TypeOK /\ AllShortBounded)'
  BY TypeNext, ShortNext
<1>3. TypeOK /\ AllShortBounded => MissesBounded
  <2> SUFFICES ASSUME TypeOK, AllShortBounded, NEW n \in DOMAIN frames,
                      frames[n].next > Len(Iterated(frames[n]))
               PROVE  Cardinality(Missed(frames[n])) <= frames[n].removed
    BY DEF MissesBounded
  <2>1. ListOf(frames[n], handlers) = Iterated(frames[n])  BY DEF ListOf, Iterated
  <2>2. ShortBounded(frames[n], Iterated(frames[n]))  BY <2>1 DEF AllShortBounded
  <2>3. /\ frames[n].called \in Seq(Handlers) /\ frames[n].next \in Nat
        /\ Iterated(frames[n]) \in Seq(Handlers)
    BY <2>1, FrameIsTyped
  <2> QED  BY <2>2, <2>3, ShortAtTheEnd
<1> QED  BY <1>1, <1>2, <1>3, PTL DEF Spec
=============================================================================
