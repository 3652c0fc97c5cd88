----------------------------- MODULE KernelProofs -----------------------------
(***************************************************************************)
(* Proofs of KernelProperties for every set of subsystems, every order of  *)
(* registration and every start order.                                     *)
(***************************************************************************)
EXTENDS KernelProperties, TLAPS

-----------------------------------------------------------------------------
(* Types. *)

LEMMA ReverseElements ==
  ASSUME NEW S, NEW s \in Seq(S)
  PROVE  /\ Reverse(s) \in Seq(S)
         /\ \A i \in DOMAIN s : \E j \in DOMAIN Reverse(s) : Reverse(s)[j] = s[i]
         /\ \A j \in DOMAIN Reverse(s) : \E i \in DOMAIN s : Reverse(s)[j] = s[i]
<1>1. /\ DOMAIN Reverse(s) = 1..Len(s)
      /\ \A i \in 1..Len(s) : Reverse(s)[i] = s[(Len(s) - i) + 1]
  BY DEF Reverse
<1>2. Reverse(s) \in Seq(S)
  BY DEF Reverse
<1>3. ASSUME NEW i \in DOMAIN s
      PROVE  \E j \in DOMAIN Reverse(s) : Reverse(s)[j] = s[i]
  <2>1. (Len(s) - i) + 1 \in 1..Len(s) /\ (Len(s) - ((Len(s) - i) + 1)) + 1 = i
    OBVIOUS
  <2> QED  BY <1>1, <2>1
<1>4. ASSUME NEW j \in DOMAIN Reverse(s)
      PROVE  \E i \in DOMAIN s : Reverse(s)[j] = s[i]
  <2>1. (Len(s) - j) + 1 \in DOMAIN s
    BY <1>1
  <2> QED  BY <1>1, <2>1
<1> QED  BY <1>2, <1>3, <1>4

\* Only the subsystem of a transition changes state.
LEMMA TransitionType ==
  ASSUME state \in [ToSet(registered) -> SubsystemState],
         NEW n \in DOMAIN state, NEW target \in SubsystemState, Transition(n, target)
  PROVE  /\ state' \in [ToSet(registered) -> SubsystemState]
         /\ state'[n] = target
         /\ \A m \in DOMAIN state : m # n => state'[m] = state[m]
BY DEF Transition

\* The parts of TypeOK, and what shutdown has still to visit.
Types ==
  /\ registered \in Seq(Names) /\ startOrder \in Seq(Names) /\ todo \in Seq(Names)
  /\ state \in [ToSet(registered) -> SubsystemState]
  /\ booted \in BOOLEAN
  /\ op \in {"none", "boot", "shutdown"}
  /\ lastBoot \in {"none", "ready", "raised"}

Visiting ==
  /\ calling # NoName =>
       op # "none" /\ calling \in DOMAIN state /\ todo # <<>> /\ calling = Head(todo)
  /\ op = "shutdown" => \A i \in DOMAIN todo : todo[i] \in DOMAIN state

Transient ==
  \A n \in DOMAIN state :
    /\ state[n] = "starting" <=> op = "boot" /\ calling = n
    /\ state[n] = "stopping" <=> op = "shutdown" /\ calling = n

KernelInv == Types /\ Visiting /\ Transient /\ live \subseteq DOMAIN state

LEMMA Registered ==
  ASSUME Types
  PROVE  NoName \notin DOMAIN state /\ \A i \in DOMAIN registered : registered[i] \in DOMAIN state
BY NamesAssumption DEF Types, ToSet

LEMMA KernelInit == Init => KernelInv
<1> SUFFICES ASSUME Init PROVE KernelInv
  OBVIOUS
<1>1. registered \in Seq(Names) /\ startOrder \in Seq(Names)
  BY NamesAssumption DEF Init
<1>2. \A n \in DOMAIN state : state[n] = "registered"
  BY DEF Init
<1>3. state \in [ToSet(registered) -> SubsystemState]
  BY DEF Init, SubsystemState
<1>4. Types
  <2>1. /\ todo = <<>> /\ booted = FALSE /\ op = "none" /\ lastBoot = "none"
    BY DEF Init
  <2>2. <<>> \in Seq(Names)
    OBVIOUS
  <2> QED  BY <1>1, <1>3, <2>1, <2>2 DEF Types
<1>6. Visiting /\ live \subseteq DOMAIN state
  BY DEF Init, Visiting
<1>5. Transient
  BY <1>2 DEF Init, Transient
<1> QED  BY <1>4, <1>5, <1>6 DEF KernelInv

\* Calling a hook: the subsystem alone turns transient.
LEMMA CallKeeps ==
  ASSUME KernelInv, calling = NoName, NEW n \in DOMAIN state, todo # <<>>, n = Head(todo),
         NEW target, \/ op = "boot" /\ target = "starting"
                     \/ op = "shutdown" /\ target = "stopping",
         Transition(n, target), calling' = n,
         UNCHANGED <<registered, startOrder, booted, op, todo, lastBoot, live>>
  PROVE  KernelInv'
<1>1. target \in SubsystemState
  BY DEF SubsystemState
<1>2. /\ state' \in [ToSet(registered) -> SubsystemState]
      /\ state'[n] = target
      /\ \A m \in DOMAIN state : m # n => state'[m] = state[m]
  BY <1>1, TransitionType DEF KernelInv, Types
<1>3. DOMAIN state' = DOMAIN state
  BY <1>2 DEF KernelInv, Types
<1>4. Types'
  BY <1>2 DEF KernelInv, Types
<1>5. Visiting'
  BY <1>3 DEF KernelInv, Visiting
<1>6. \A m \in DOMAIN state : state[m] # "starting" /\ state[m] # "stopping"
  BY Registered DEF KernelInv, Transient
<1>7. Transient'
  BY <1>2, <1>3, <1>6 DEF Transient
<1> QED  BY <1>3, <1>4, <1>5, <1>7 DEF KernelInv

\* The return of a hook: the subsystem settles and the loop goes on.
LEMMA ReturnKeeps ==
  ASSUME KernelInv, calling # NoName, NEW target \in {"running", "stopped", "failed"},
         Transition(calling, target), calling' = NoName, todo' = Tail(todo),
         live' \subseteq live \cup {calling},
         UNCHANGED <<registered, startOrder, booted, op, lastBoot>>
  PROVE  KernelInv'
<1>1. target \in SubsystemState /\ calling \in DOMAIN state /\ todo # <<>>
  BY DEF SubsystemState, KernelInv, Visiting
<1>2. /\ state' \in [ToSet(registered) -> SubsystemState]
      /\ state'[calling] = target
      /\ \A m \in DOMAIN state : m # calling => state'[m] = state[m]
  BY <1>1, TransitionType DEF KernelInv, Types
<1>3. DOMAIN state' = DOMAIN state
  BY <1>2 DEF KernelInv, Types
<1>4. Tail(todo) \in Seq(Names) /\ \A i \in DOMAIN Tail(todo) : Tail(todo)[i] = todo[i + 1]
                                                               /\ i + 1 \in DOMAIN todo
  BY <1>1 DEF KernelInv, Types
<1>5. Types'
  BY <1>2, <1>4 DEF KernelInv, Types
<1>6. Visiting'
  BY <1>3, <1>4 DEF KernelInv, Visiting
<1>7. \A m \in DOMAIN state : m # calling => state[m] # "starting" /\ state[m] # "stopping"
  BY DEF KernelInv, Transient
<1>8. Transient'
  <2>1. \A m \in DOMAIN state' : state'[m] # "starting" /\ state'[m] # "stopping"
    BY <1>2, <1>3, <1>7
  <2> QED  BY <1>3, <2>1, Registered DEF Transient, KernelInv
<1> QED  BY <1>1, <1>3, <1>5, <1>6, <1>8 DEF KernelInv

\* Everything else happens between hooks and leaves the registry alone.
LEMMA QuietKeeps ==
  ASSUME KernelInv, calling = NoName, booted' \in BOOLEAN,
         op' \in {"none", "boot", "shutdown"}, lastBoot' \in {"none", "ready", "raised"},
         todo' \in Seq(Names),
         op' = "shutdown" => \A i \in DOMAIN todo' : todo'[i] \in DOMAIN state,
         UNCHANGED <<registered, startOrder, state, calling, live>>
  PROVE  KernelInv'
<1>1. \A m \in DOMAIN state : state[m] # "starting" /\ state[m] # "stopping" /\ m # NoName
  BY Registered DEF KernelInv, Transient
<1>2. Types' /\ Visiting'
  BY DEF KernelInv, Types, Visiting
<1>3. Transient'
  BY <1>1 DEF Transient
<1> QED  BY <1>2, <1>3 DEF KernelInv

LEMMA KernelStep == KernelInv /\ [Next]_vars => KernelInv'
<1> SUFFICES ASSUME KernelInv, [Next]_vars PROVE KernelInv'
  OBVIOUS
<1>t. ASSUME todo # <<>>
      PROVE  /\ Tail(todo) \in Seq(Names)
             /\ op = "shutdown" => \A i \in DOMAIN Tail(todo) : Tail(todo)[i] \in DOMAIN state
             /\ op = "shutdown" => Head(todo) \in DOMAIN state
  <2>1. todo \in Seq(Names)
    BY DEF KernelInv, Types
  <2>2. \A i \in DOMAIN Tail(todo) : Tail(todo)[i] = todo[i + 1] /\ i + 1 \in DOMAIN todo
    BY <1>t, <2>1
  <2>3. Head(todo) = todo[1] /\ 1 \in DOMAIN todo
    BY <1>t, <2>1
  <2> QED  BY <1>t, <2>1, <2>2, <2>3 DEF KernelInv, Visiting
<1>k. todo # <<>> \/ calling = NoName
  BY DEF KernelInv, Visiting
<1>n. op = "none" => calling = NoName
  BY DEF KernelInv, Visiting
<1>1. CASE Boot
  BY <1>1, <1>n, QuietKeeps DEF Boot, config, KernelInv, Types
<1>2. CASE Shutdown
  <2>1. /\ Reverse(registered) \in Seq(Names)
        /\ \A j \in DOMAIN Reverse(registered) : Reverse(registered)[j] \in DOMAIN state
    BY Registered, ReverseElements DEF KernelInv, Types
  <2> QED  BY <1>2, <1>n, <2>1, QuietKeeps DEF Shutdown, config, KernelInv, Types
<1>3. ASSUME NEW n, SkipUnregistered(n) PROVE KernelInv'
  BY <1>3, <1>t, QuietKeeps DEF SkipUnregistered, AtStart, config, KernelInv, Types
<1>4. ASSUME NEW n, CallStart(n) PROVE KernelInv'
  BY <1>4, CallKeeps DEF CallStart, AtStart, config
<1>5. ASSUME NEW n, BootRaises(n) PROVE KernelInv'
  BY <1>5, QuietKeeps DEF BootRaises, AtStart, config, KernelInv, Types
<1>6. ASSUME NEW n \in Names, Started(n) PROVE KernelInv'
  BY <1>6, ReturnKeeps, NamesAssumption DEF Started, config
<1>7. ASSUME NEW n \in Names, StartFails(n) PROVE KernelInv'
  BY <1>7, ReturnKeeps, NamesAssumption DEF StartFails, config
<1>8. ASSUME NEW n, SkipInactive(n) PROVE KernelInv'
  BY <1>8, <1>t, QuietKeeps DEF SkipInactive, AtStop, config, KernelInv, Types
<1>9. ASSUME NEW n, CallStop(n) PROVE KernelInv'
  BY <1>9, <1>t, CallKeeps DEF CallStop, AtStop, config
<1>10. ASSUME NEW n \in Names, Stopped(n) PROVE KernelInv'
  BY <1>10, ReturnKeeps, NamesAssumption DEF Stopped, config
<1>11. ASSUME NEW n \in Names, StopFails(n) PROVE KernelInv'
  BY <1>11, ReturnKeeps, NamesAssumption DEF StopFails, config
<1>12. CASE BootReady \/ ShutdownComplete
  BY <1>12, <1>k, QuietKeeps DEF BootReady, ShutdownComplete, config, KernelInv, Types, Visiting
<1>13. CASE UNCHANGED vars
  BY <1>13 DEF vars, KernelInv, Types, Visiting, Transient
<1> QED
  BY <1>1, <1>2, <1>3, <1>4, <1>5, <1>6, <1>7, <1>8, <1>9, <1>10, <1>11, <1>12, <1>13
  DEF Next, Step, Visit

LEMMA AlwaysKernelInv == Spec => []KernelInv
BY KernelInit, KernelStep, PTL DEF Spec

\* The registry is never left in a transient state between hooks, and a
\* running hook is the one the loop is at.
THEOREM TypeCorrect == Spec => []TypeOK
<1>1. KernelInv => TypeOK
  BY DEF KernelInv, Types, Visiting, Transient, TypeOK
<1> QED  BY <1>1, AlwaysKernelInv, PTL

-----------------------------------------------------------------------------
(* A boot that raised is final.  It raised at a subsystem that is RUNNING  *)
(* or STOPPED; no later boot gets past it, because boot moves no subsystem *)
(* out of these two states, and shutdown does nothing while not booted.    *)

Blocks(st, n) == n \in DOMAIN st /\ st[n] \in {"running", "stopped"}

BlockedInv ==
  /\ op = "boot" =>
       /\ ~ booted
       /\ \A i \in DOMAIN todo : \E j \in DOMAIN startOrder : todo[i] = startOrder[j]
  /\ op = "shutdown" => booted
  /\ lastBoot = "raised" =>
       /\ ~ booted
       /\ op = "none" => \E j \in DOMAIN startOrder : Blocks(state, startOrder[j])
       /\ op = "boot" => \E i \in DOMAIN todo : Blocks(state, todo[i])

\* Outside a shutdown, what runs keeps running and what stopped stays so.
LEMMA BootKeepsStates ==
  ASSUME KernelInv, op # "shutdown", [Next]_vars, NEW n, Blocks(state, n)
  PROVE  n \in DOMAIN state' /\ state'[n] = state[n]
<1> USE DEF Blocks
<1>1. CASE UNCHANGED state
  BY <1>1
<1>2. ASSUME NEW m, CallStart(m) PROVE n \in DOMAIN state' /\ state'[n] = state[n]
  <2>1. n # m
    BY <1>2 DEF CallStart, Transition, CanTransition, LegalTransitions
  <2> QED  BY <1>2, <2>1 DEF CallStart, Transition, KernelInv, Types
<1>3. ASSUME NEW m, Started(m) \/ StartFails(m)
      PROVE  n \in DOMAIN state' /\ state'[n] = state[n]
  <2>1. n # m
    BY <1>3 DEF Started, StartFails, KernelInv, Transient
  <2> QED  BY <1>3, <2>1 DEF Started, StartFails, Transition, KernelInv, Types
<1>4. ASSUME NEW m, Visit(m) PROVE n \in DOMAIN state' /\ state'[n] = state[n]
  BY <1>1, <1>2, <1>3, <1>4
  DEF Visit, SkipUnregistered, BootRaises, SkipInactive, CallStop, AtStop, Stopped, StopFails
<1>5. CASE Boot \/ Shutdown \/ BootReady \/ ShutdownComplete \/ UNCHANGED vars
  BY <1>1, <1>5 DEF Boot, Shutdown, BootReady, ShutdownComplete, vars
<1> QED  BY <1>4, <1>5 DEF Next, Step

\* The loops drop the head of todo, and boot never drops a subsystem that
\* blocks it.
LEMMA TailElements ==
  ASSUME Types, todo # <<>>
  PROVE  /\ 1 \in DOMAIN todo /\ todo[1] = Head(todo)
         /\ \A i \in DOMAIN Tail(todo) : i + 1 \in DOMAIN todo /\ Tail(todo)[i] = todo[i + 1]
         /\ \A i \in DOMAIN todo :
              i # 1 => i - 1 \in DOMAIN Tail(todo) /\ Tail(todo)[i - 1] = todo[i]
BY DEF Types

LEMMA BlockedInit == Init => BlockedInv
BY DEF Init, BlockedInv

LEMMA BlockedStep == KernelInv /\ BlockedInv /\ [Next]_vars => BlockedInv'
<1> SUFFICES ASSUME KernelInv, BlockedInv, [Next]_vars PROVE BlockedInv'
  OBVIOUS
<1> USE DEF BlockedInv
<1>b. ASSUME op # "shutdown", NEW n, Blocks(state, n) PROVE Blocks(state', n)
  BY <1>b, BootKeepsStates DEF Blocks
<1>1. CASE Boot
  BY <1>1, <1>b DEF Boot, config
<1>2. CASE Shutdown
  BY <1>2 DEF Shutdown, config
<1>3. ASSUME NEW n, op = "boot", todo # <<>>, n = Head(todo), ~ Blocks(state, n),
             todo' = Tail(todo), UNCHANGED <<startOrder, booted, op, lastBoot>>
      PROVE  BlockedInv'
  <2>1. \A i \in DOMAIN todo' : \E j \in DOMAIN startOrder' : todo'[i] = startOrder'[j]
    BY <1>3, TailElements DEF KernelInv
  <2>2. ASSUME lastBoot = "raised" PROVE \E i \in DOMAIN todo' : Blocks(state', todo'[i])
    <3>1. PICK i \in DOMAIN todo : Blocks(state, todo[i])
      BY <1>3, <2>2
    <3>2. i # 1
      BY <1>3, <3>1, TailElements DEF KernelInv
    <3>3. i - 1 \in DOMAIN todo' /\ todo'[i - 1] = todo[i]
      BY <1>3, <3>2, TailElements DEF KernelInv
    <3>4. Blocks(state', todo[i])
      BY <1>3, <1>b, <3>1
    <3> QED  BY <3>3, <3>4
  <2> QED  BY <1>3, <2>1, <2>2
<1>4. ASSUME NEW n, SkipUnregistered(n) PROVE BlockedInv'
  BY <1>3, <1>4 DEF SkipUnregistered, AtStart, Blocks, config
<1>5. ASSUME NEW n, CallStart(n) PROVE BlockedInv'
  BY <1>5, <1>b DEF CallStart, AtStart, config
<1>6. ASSUME NEW n, BootRaises(n) PROVE BlockedInv'
  <2>1. Blocks(state, n)
    BY <1>6 DEF BootRaises, AtStart, CanTransition, LegalTransitions, Blocks, KernelInv,
                Types, Transient, SubsystemState
  <2>2. \E j \in DOMAIN startOrder : n = startOrder[j]
    BY <1>6, TailElements DEF BootRaises, AtStart, KernelInv
  <2>3. Blocks(state', n)
    BY <1>6, <2>1 DEF BootRaises, Blocks
  <2> QED  BY <1>6, <2>2, <2>3 DEF BootRaises, AtStart, config
<1>7. ASSUME NEW n \in Names, Started(n) \/ StartFails(n) PROVE BlockedInv'
  <2>1. todo # <<>> /\ n = Head(todo)
    BY <1>7, NamesAssumption DEF Started, StartFails, KernelInv, Visiting
  <2>2. ~ Blocks(state, n)
    BY <1>7 DEF Started, StartFails, Blocks, KernelInv, Transient
  <2> QED  BY <1>3, <1>7, <2>1, <2>2 DEF Started, StartFails, config
<1>8. ASSUME NEW n, SkipInactive(n) \/ CallStop(n) \/ Stopped(n) \/ StopFails(n)
      PROVE  BlockedInv'
  BY <1>8 DEF SkipInactive, CallStop, AtStop, Stopped, StopFails, config
<1>9. CASE BootReady
  BY <1>9 DEF BootReady, config
<1>10. CASE ShutdownComplete
  BY <1>10 DEF ShutdownComplete, config
<1>11. CASE UNCHANGED vars
  BY <1>11 DEF vars, Blocks
<1> QED
  BY <1>1, <1>2, <1>4, <1>5, <1>6, <1>7, <1>8, <1>9, <1>10, <1>11 DEF Next, Step, Visit

\* Once boot has raised, no later boot succeeds and nothing that runs stops:
\* shutdown, the only way to stop it, is a no-op until a boot succeeds.
THEOREM FailedBootFinal == Spec => FailedBootIsFinal
<1>1. KernelInv /\ BlockedInv /\ [Next]_vars =>
        [lastBoot = "raised" => lastBoot' = "raised" /\ Active \subseteq Active']_vars
  <2> SUFFICES ASSUME KernelInv, BlockedInv, [Next]_vars, lastBoot = "raised"
               PROVE  lastBoot' = "raised" /\ Active \subseteq Active'
    OBVIOUS
  <2>1. op # "shutdown"
    BY DEF BlockedInv
  <2>2. \A n \in Active : n \in Active'
    BY <2>1, BootKeepsStates DEF Active, Blocks
  <2>3. ~ BootReady
    BY DEF BootReady, BlockedInv
  <2>4. ASSUME UNCHANGED vars PROVE lastBoot' = "raised"
    BY <2>4 DEF vars
  <2>5. ASSUME NEW n, Visit(n) PROVE lastBoot' = "raised"
    BY <2>5 DEF Visit, SkipUnregistered, CallStart, BootRaises, Started, StartFails,
                SkipInactive, CallStop, Stopped, StopFails
  <2>6. ASSUME Boot \/ Shutdown \/ ShutdownComplete PROVE lastBoot' = "raised"
    BY <2>6 DEF Boot, Shutdown, ShutdownComplete
  <2>7. lastBoot' = "raised"
    BY <2>3, <2>4, <2>5, <2>6 DEF Next, Step, vars
  <2> QED  BY <2>2, <2>7
<1>2. Spec => []BlockedInv
  BY BlockedInit, BlockedStep, AlwaysKernelInv, PTL DEF Spec
<1> QED  BY <1>1, <1>2, AlwaysKernelInv, PTL DEF Spec, FailedBootIsFinal

-----------------------------------------------------------------------------
(* Shutdown stops everything.  During it, what runs is still to be visited. *)

DownInv ==
  /\ op = "none" /\ ~ booted /\ lastBoot # "raised" => Active = {}
  /\ op = "shutdown" => \A n \in Active : \E i \in DOMAIN todo : todo[i] = n

LEMMA DownInit == Init => DownInv
BY DEF Init, DownInv, Active

LEMMA DownStep == KernelInv /\ DownInv /\ [Next]_vars => DownInv'
<1> SUFFICES ASSUME KernelInv, DownInv, [Next]_vars PROVE DownInv'
  OBVIOUS
<1> USE DEF DownInv
<1>1. CASE Boot
  BY <1>1 DEF Boot
<1>2. CASE Shutdown
  <2>1. \A n \in Active : \E i \in DOMAIN registered : registered[i] = n
    BY DEF Active, KernelInv, Types, ToSet
  <2>2. \A n \in Active : \E j \in DOMAIN Reverse(registered) : Reverse(registered)[j] = n
    BY <2>1, ReverseElements, SMTT(30) DEF KernelInv, Types
  <2> QED  BY <1>2, <2>2 DEF Shutdown, Active
<1>3. ASSUME NEW n, SkipUnregistered(n) \/ CallStart(n) \/ BootRaises(n)
      PROVE  DownInv'
  BY <1>3 DEF SkipUnregistered, CallStart, BootRaises, AtStart
<1>4. ASSUME NEW n, Started(n) \/ StartFails(n) PROVE DownInv'
  BY <1>4 DEF Started, StartFails
<1>5. ASSUME NEW n, op = "shutdown", todo # <<>>, n = Head(todo), todo' = Tail(todo),
             Active' \subseteq Active \ {n}, op' = op
      PROVE  DownInv'
  <2>1. ASSUME NEW m \in Active' PROVE \E j \in DOMAIN todo' : todo'[j] = m
    <3>1. PICK i \in DOMAIN todo : todo[i] = m
      BY <1>5, <2>1
    <3>2. i # 1
      BY <1>5, <2>1, <3>1, TailElements DEF KernelInv
    <3>3. i - 1 \in DOMAIN todo' /\ todo'[i - 1] = m
      BY <1>5, <3>1, <3>2, TailElements DEF KernelInv
    <3> QED  BY <3>3
  <2> QED  BY <1>5, <2>1
<1>6. ASSUME NEW n, SkipInactive(n) PROVE DownInv'
  BY <1>5, <1>6 DEF SkipInactive, AtStop, Active
<1>7. ASSUME NEW n, CallStop(n) PROVE DownInv'
  <2>1. Active' \subseteq Active
    BY <1>7 DEF CallStop, Transition, Active, KernelInv, Types
  <2> QED  BY <1>7, <2>1 DEF CallStop, AtStop
<1>8. ASSUME NEW n \in Names, Stopped(n) \/ StopFails(n) PROVE DownInv'
  <2>1. todo # <<>> /\ n = Head(todo)
    BY <1>8, NamesAssumption DEF Stopped, StopFails, KernelInv, Visiting
  <2>2. Active' \subseteq Active \ {n}
    BY <1>8 DEF Stopped, StopFails, Transition, Active, KernelInv, Types
  <2> QED  BY <1>5, <1>8, <2>1, <2>2 DEF Stopped, StopFails
<1>9. CASE BootReady
  BY <1>9 DEF BootReady
<1>10. CASE ShutdownComplete
  BY <1>10 DEF ShutdownComplete, Active
<1>11. CASE UNCHANGED vars
  BY <1>11 DEF vars, Active
<1> QED
  BY <1>1, <1>2, <1>3, <1>4, <1>6, <1>7, <1>8, <1>9, <1>10, <1>11 DEF Next, Step, Visit

\* A shutdown that completes has stopped every running subsystem, whichever
\* stop hooks raised.
THEOREM ShutdownStopsAll == Spec => []NothingRunsAfterShutdown
<1>1. DownInv => NothingRunsAfterShutdown
  BY DEF DownInv, NothingRunsAfterShutdown
<1> QED  BY <1>1, DownInit, DownStep, AlwaysKernelInv, PTL DEF Spec

-----------------------------------------------------------------------------
(* The registry against the hooks. *)

LEMMA HooksStep ==
  KernelInv /\ RegistryMatchesHooks /\ [Next]_vars => RegistryMatchesHooks'
<1> SUFFICES ASSUME KernelInv, RegistryMatchesHooks, [Next]_vars PROVE RegistryMatchesHooks'
  OBVIOUS
<1> USE DEF RegistryMatchesHooks, Active
<1>1. CASE UNCHANGED <<state, live, calling>>
  <2>1. state' = state /\ live' = live /\ calling' = calling
    BY <1>1
  <2> QED  BY <2>1, Zenon
<1>2. ASSUME NEW n, CallStart(n) \/ CallStop(n) PROVE RegistryMatchesHooks'
  <2>1. /\ calling = NoName /\ calling' = n /\ live' = live
        /\ \E target \in {"starting", "stopping"} : state' = [state EXCEPT ![n] = target]
    BY <1>2 DEF CallStart, AtStart, CallStop, AtStop, Transition
  <2>2. NoName \notin live
    BY Registered DEF KernelInv
  <2> QED  BY <2>1, <2>2 DEF KernelInv, Types
<1>3. ASSUME NEW n \in Names, Started(n) \/ StartFails(n) PROVE RegistryMatchesHooks'
  <2>1. n \in DOMAIN state /\ DOMAIN state' = DOMAIN state
    BY <1>3, NamesAssumption
    DEF Started, StartFails, Transition, KernelInv, Types, Visiting
  <2> QED  BY <1>3, <2>1 DEF Started, StartFails, Transition, KernelInv, Types
<1>4. ASSUME NEW n \in Names, Stopped(n) \/ StopFails(n) PROVE RegistryMatchesHooks'
  <2>1. n \in DOMAIN state /\ DOMAIN state' = DOMAIN state
    BY <1>4, NamesAssumption
    DEF Stopped, StopFails, Transition, KernelInv, Types, Visiting
  <2> QED  BY <1>4, <2>1 DEF Stopped, StopFails, Transition, KernelInv, Types
<1>5. ASSUME NEW n \in Names, Visit(n) PROVE RegistryMatchesHooks'
  BY <1>1, <1>2, <1>3, <1>4, <1>5 DEF Visit, SkipUnregistered, BootRaises, SkipInactive
<1>6. CASE Boot \/ Shutdown \/ BootReady \/ ShutdownComplete \/ UNCHANGED vars
  BY <1>1, <1>6 DEF Boot, Shutdown, BootReady, ShutdownComplete, vars
<1> QED  BY <1>5, <1>6 DEF Next, Step

\* The registry calls RUNNING exactly what started and has not been told to
\* stop, but for subsystems whose stop hook raised.
THEOREM RegistryTruthful == Spec => []RegistryMatchesHooks
<1>1. Init => RegistryMatchesHooks
  BY DEF Init, RegistryMatchesHooks, Active
<1> QED  BY <1>1, HooksStep, AlwaysKernelInv, PTL DEF Spec
=============================================================================
