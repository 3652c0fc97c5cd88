------------------------------ MODULE SessionProofs ------------------------------
(***************************************************************************)
(* Proofs about sessions, for any registration, start order and number of  *)
(* cycles.                                                                 *)
(***************************************************************************)
EXTENDS SessionProperties, TLAPS

-----------------------------------------------------------------------------
(* The invariant.                                                          *)

\* What the registry says of the runtime.
Is(s) == Runtime \in DOMAIN state /\ state[Runtime] = s

\* The loops of the kernel: shutdown visits registered subsystems only.
LoopInv ==
  /\ registered \in Seq(Names) /\ startOrder \in Seq(Names) /\ todo \in Seq(Names)
  /\ state \in [DOMAIN state -> K!SubsystemState]
  /\ \A i \in DOMAIN registered : registered[i] \in DOMAIN state
  /\ op = "shutdown" => \A i \in DOMAIN todo : todo[i] \in DOMAIN state
  /\ calling # NoName => op # "none" /\ todo # <<>> /\ calling \in DOMAIN state

\* The runtime is STARTING exactly while its start hook runs, and its save is
\* part of its stop hook.
CallInv ==
  /\ Is("starting") <=> op = "boot" /\ calling = Runtime
  /\ Is("stopping") \/ Is("stopped") => session \in {"leaving", "interrupted"}
  /\ saving # "no" => Is("stopping")

\* The registry knows a runtime that started: it is RUNNING, or the session is
\* being left.
StartedInv ==
  /\ Is("running") => started /\ session # "off"
  /\ started => Is("running") \/ session \in {"leaving", "interrupted"}
  /\ session \in {"off", "up"} /\ ~ booted /\ ~ started => committed = <<>>

\* The file of a running runtime can be read and is where its state began.
FileInv ==
  /\ Is("running") => file.form # "torn" /\ IsPrefixOf(file.state, committed)
  /\ SaveExtendsFile
  /\ StoppedIsSaved

IInv == TypeOK /\ LoopInv /\ CallInv /\ StartedInv /\ FileInv

LEMMA EmptyPrefix ==
  ASSUME NEW t \in Seq(Percepts)
  PROVE  IsPrefixOf(<<>>, t) /\ IsPrefixOf(t, t) /\ <<>> \in Seq(Percepts)
BY DEF IsPrefixOf

LEMMA PrefixGrows ==
  ASSUME NEW s \in Seq(Percepts), NEW t \in Seq(Percepts), NEW p \in Percepts, IsPrefixOf(s, t)
  PROVE  IsPrefixOf(s, Append(t, p))
BY DEF IsPrefixOf

LEMMA FileForms ==
  ASSUME TypeOK
  PROVE  /\ file.form \in {"missing", "torn", "whole"}
         /\ file.form # "whole" => file.state = <<>>
BY DEF TypeOK, R!NoFile, R!TornFile, R!FileWith

\* Leaving stop keeps the file, or the write had ended.
LEMMA StopRaisesFile ==
  ASSUME R!StopRaises
  PROVE  /\ saving # "no" /\ saving' = "no" /\ UNCHANGED <<committed, started>>
         /\ UNCHANGED file \/ (saving = "after" /\ file' = R!FileWith(committed))
BY DEF R!StopRaises

LEMMA FileTyped ==
  ASSUME TypeOK, UNCHANGED committed, UNCHANGED file \/ file' = R!FileWith(committed)
  PROVE  file'.state \in Seq(Percepts) /\ file' \in {R!NoFile, R!TornFile, R!FileWith(file'.state)}
<1>1. CASE UNCHANGED file
  BY <1>1 DEF TypeOK
<1>2. CASE file' = R!FileWith(committed)
  <2>1. file'.state = committed
    BY <1>2 DEF R!FileWith
  <2>2. file' = R!FileWith(file'.state)
    BY <1>2, <2>1, Zenon
  <2> QED  BY <2>1, <2>2 DEF TypeOK
<1> QED  BY <1>1, <1>2

LEMMA InitInv == Init => IInv
<1> SUFFICES ASSUME Init PROVE IInv
  OBVIOUS
<1> USE DEF Init, K!Init, R!New
<1>1. \A s \in {"starting", "running", "stopping", "stopped"} : ~ Is(s)
  BY DEF Is
<1>2. TypeOK
  <2>1. <<>> \in Seq(Percepts)
    OBVIOUS
  <2>2. file.state = <<>>
    BY DEF R!NoFile
  <2> QED  BY <2>1, <2>2 DEF TypeOK
<1>3. LoopInv
  <2>1. registered \in Seq(Names) /\ startOrder \in Seq(Names) /\ <<>> \in Seq(Names)
    BY SessionAssumption
  <2>2. state \in [DOMAIN state -> K!SubsystemState]
    BY DEF K!SubsystemState
  <2> QED  BY <2>1, <2>2 DEF LoopInv, K!ToSet
<1>4. CallInv /\ StartedInv /\ FileInv
  BY <1>1 DEF CallInv, StartedInv, FileInv, SaveExtendsFile, StoppedIsSaved, Is
<1> QED  BY <1>2, <1>3, <1>4 DEF IInv

-----------------------------------------------------------------------------
(* The loops.                                                              *)

LEMMA TailTyped ==
  ASSUME LoopInv, todo # <<>>
  PROVE  /\ Tail(todo) \in Seq(Names)
         /\ op = "shutdown" => \A i \in DOMAIN Tail(todo) : Tail(todo)[i] \in DOMAIN state
         /\ op = "shutdown" => Head(todo) \in DOMAIN state
<1>1. todo \in Seq(Names)
  BY DEF LoopInv
<1>2. \A i \in DOMAIN Tail(todo) : Tail(todo)[i] = todo[i + 1] /\ i + 1 \in DOMAIN todo
  BY <1>1
<1>3. Head(todo) = todo[1] /\ 1 \in DOMAIN todo
  BY <1>1
<1> QED  BY <1>1, <1>2, <1>3 DEF LoopInv

LEMMA ReverseTyped ==
  ASSUME LoopInv
  PROVE  /\ K!Reverse(registered) \in Seq(Names)
         /\ \A i \in DOMAIN K!Reverse(registered) : K!Reverse(registered)[i] \in DOMAIN state
<1>1. registered \in Seq(Names)
  BY DEF LoopInv
<1>2. /\ DOMAIN K!Reverse(registered) = 1..Len(registered)
      /\ \A i \in 1..Len(registered) :
           K!Reverse(registered)[i] = registered[(Len(registered) - i) + 1]
  BY <1>1 DEF K!Reverse
<1>3. K!Reverse(registered) \in Seq(Names)
  BY <1>1 DEF K!Reverse
<1>4. \A i \in 1..Len(registered) : (Len(registered) - i) + 1 \in DOMAIN registered
  BY <1>1
<1> QED  BY <1>2, <1>3, <1>4 DEF LoopInv

LEMMA TransitionTyped ==
  ASSUME LoopInv, NEW n, NEW s \in K!SubsystemState, K!Transition(n, s)
  PROVE  /\ DOMAIN state' = DOMAIN state
         /\ state' \in [DOMAIN state' -> K!SubsystemState]
         /\ n \in DOMAIN state => state'[n] = s
         /\ \A m \in DOMAIN state : m # n => state'[m] = state[m]
BY DEF LoopInv, K!Transition

LEMMA CallTyped ==
  ASSUME LoopInv, NEW n \in Names, K!CallStart(n) \/ K!CallStop(n)
  PROVE  LoopInv' /\ n \in DOMAIN state
<1>1. todo # <<>> /\ n = Head(todo) /\ calling' = n /\ op # "none"
  BY DEF K!CallStart, K!CallStop, K!AtStart, K!AtStop
<1>2. n \in DOMAIN state
  BY <1>1, TailTyped DEF K!CallStart, K!CallStop, K!AtStop
<1>3. DOMAIN state' = DOMAIN state /\ state' \in [DOMAIN state' -> K!SubsystemState]
  BY TransitionTyped DEF K!CallStart, K!CallStop, K!SubsystemState
<1> QED  BY <1>1, <1>2, <1>3 DEF K!CallStart, K!CallStop, K!config, LoopInv

LEMMA ReturnTyped ==
  ASSUME LoopInv, NEW n \in Names,
         K!Started(n) \/ K!StartFails(n) \/ K!Stopped(n) \/ K!StopFails(n)
  PROVE  LoopInv' /\ n \in DOMAIN state
<1>1. n \in DOMAIN state /\ todo # <<>>
  BY SessionAssumption DEF LoopInv, K!Started, K!StartFails, K!Stopped, K!StopFails
<1>2. DOMAIN state' = DOMAIN state /\ state' \in [DOMAIN state' -> K!SubsystemState]
  BY TransitionTyped DEF K!Started, K!StartFails, K!Stopped, K!StopFails, K!SubsystemState
<1>3. todo' = Tail(todo) /\ calling' = NoName /\ UNCHANGED <<registered, startOrder, op>>
  BY DEF K!Started, K!StartFails, K!Stopped, K!StopFails, K!config
<1> QED  BY <1>1, <1>2, <1>3, TailTyped DEF LoopInv

LEMMA QuietTyped ==
  ASSUME LoopInv,
         \/ \E n \in Names : K!SkipUnregistered(n) \/ K!SkipInactive(n) \/ K!BootRaises(n)
         \/ K!BootReady \/ K!ShutdownComplete
  PROVE  LoopInv' /\ UNCHANGED <<state, calling>>
<1>1. CASE \E n \in Names : K!SkipUnregistered(n) \/ K!SkipInactive(n)
  <2>1. todo # <<>> /\ todo' = Tail(todo) /\ UNCHANGED <<registered, startOrder, state, op, calling>>
        /\ calling = NoName
    BY <1>1 DEF K!SkipUnregistered, K!SkipInactive, K!AtStart, K!AtStop, K!config
  <2> QED  BY <2>1, TailTyped DEF LoopInv
<1>2. CASE \E n \in Names : K!BootRaises(n)
  BY <1>2 DEF K!BootRaises, K!AtStart, K!config, LoopInv
<1>3. CASE K!BootReady \/ K!ShutdownComplete
  BY <1>3 DEF K!BootReady, K!ShutdownComplete, K!config, LoopInv
<1> QED  BY <1>1, <1>2, <1>3

LEMMA BeginTyped ==
  ASSUME LoopInv, K!Boot \/ K!Shutdown
  PROVE  LoopInv' /\ UNCHANGED <<state, booted>> /\ calling = NoName /\ calling' = NoName
<1>1. calling = NoName
  BY DEF LoopInv, K!Boot, K!Shutdown
<1>2. UNCHANGED <<state, booted, calling, registered, startOrder>>
  BY DEF K!Boot, K!Shutdown, K!config
<1>3. CASE K!Boot
  BY <1>1, <1>2, <1>3 DEF K!Boot, LoopInv
<1>4. CASE K!Shutdown
  BY <1>1, <1>2, <1>4, ReverseTyped DEF K!Shutdown, LoopInv
<1> QED  BY <1>1, <1>2, <1>3, <1>4

-----------------------------------------------------------------------------
(* The kernel's steps.                                                     *)

\* A step that leaves the runtime's variables and its entry alone keeps what
\* is said about the file.
LEMMA FileKept ==
  ASSUME FileInv, UNCHANGED runtimeVars, DOMAIN state' = DOMAIN state,
         Runtime \in DOMAIN state => state'[Runtime] = state[Runtime]
  PROVE  FileInv'
BY DEF FileInv, SaveExtendsFile, StoppedIsSaved, IsPrefixOf, Is, runtimeVars

\* Hooks of other subsystems.
LEMMA OtherHookInv ==
  ASSUME IInv, UNCHANGED <<runtimeVars, session>>, NEW n \in Others,
         \/ K!CallStart(n) \/ K!Started(n) \/ K!StartFails(n)
         \/ K!CallStop(n) \/ K!Stopped(n) \/ K!StopFails(n)
  PROVE  IInv'
<1>1. n \in Names /\ n # Runtime /\ NoName # Runtime
  BY SessionAssumption DEF Others
<1>2. LoopInv' /\ n \in DOMAIN state
  BY <1>1, CallTyped, ReturnTyped DEF IInv
<1>3. DOMAIN state' = DOMAIN state /\ \A m \in DOMAIN state : m # n => state'[m] = state[m]
  BY TransitionTyped DEF IInv, K!CallStart, K!Started, K!StartFails, K!CallStop, K!Stopped,
     K!StopFails, K!SubsystemState
<1>4. \A s : Is(s)' <=> Is(s)
  BY <1>1, <1>3 DEF Is
<1>5. /\ UNCHANGED <<op, booted>>
      /\ calling # Runtime /\ calling' # Runtime
  BY <1>1 DEF K!CallStart, K!Started, K!StartFails, K!CallStop, K!Stopped, K!StopFails,
     K!AtStart, K!AtStop
<1>6. FileInv'
  BY <1>1, <1>3, FileKept DEF IInv
<1>7. TypeOK'
  BY <1>5 DEF IInv, TypeOK, runtimeVars
<1>8. CallInv' /\ StartedInv'
  BY <1>4, <1>5 DEF IInv, CallInv, StartedInv, runtimeVars
<1> QED  BY <1>2, <1>6, <1>7, <1>8 DEF IInv

\* The start hook of the runtime is called, which is not RUNNING then.
LEMMA CallStartInv ==
  ASSUME IInv, UNCHANGED <<runtimeVars, session>>, K!CallStart(Runtime)
  PROVE  IInv'
<1>1. LoopInv' /\ Runtime \in DOMAIN state
  BY SessionAssumption, CallTyped DEF IInv
<1>2. DOMAIN state' = DOMAIN state /\ state'[Runtime] = "starting"
  BY <1>1, TransitionTyped DEF IInv, K!CallStart, K!SubsystemState
<1>3. op = "boot" /\ calling = NoName /\ calling' = Runtime /\ UNCHANGED <<op, booted>>
  BY DEF K!CallStart, K!AtStart
<1>4. state[Runtime] \in {"starting", "registered", "failed"}
  BY DEF K!CallStart, K!Transition, K!CanTransition, K!LegalTransitions
<1>5. TypeOK' /\ saving = "no"
  BY <1>3 DEF IInv, TypeOK, runtimeVars
<1>6. ~ started
  BY <1>3, <1>4 DEF IInv, TypeOK, StartedInv, Is
<1>7. CallInv' /\ StartedInv'
  <2>1. \A s : Is(s)' <=> s = "starting"
    BY <1>1, <1>2 DEF Is
  <2>2. UNCHANGED <<committed, started, saving, session>>
    BY DEF runtimeVars
  <2>3. CallInv'
    BY <1>3, <1>5, <2>1, <2>2 DEF CallInv
  <2>4. StartedInv'
    BY <1>3, <1>6, <2>1, <2>2 DEF StartedInv, IInv
  <2> QED  BY <2>3, <2>4
<1>8. FileInv'
  BY <1>2, <1>5 DEF FileInv, SaveExtendsFile, StoppedIsSaved, Is, runtimeVars
<1> QED  BY <1>1, <1>5, <1>7, <1>8 DEF IInv

\* Steps between hooks.
LEMMA QuietInv ==
  ASSUME IInv, UNCHANGED <<runtimeVars, session>>,
         \/ \E n \in Names : K!SkipUnregistered(n) \/ K!SkipInactive(n) \/ K!BootRaises(n)
         \/ K!BootReady \/ K!ShutdownComplete
  PROVE  IInv'
<1>1. LoopInv' /\ UNCHANGED <<state, calling>>
  BY QuietTyped DEF IInv
<1>2. calling = NoName
  BY DEF IInv, LoopInv, K!SkipUnregistered, K!SkipInactive, K!BootRaises, K!BootReady,
     K!ShutdownComplete, K!AtStart, K!AtStop
<1>3. \/ UNCHANGED <<op, booted>>
      \/ op = "boot" /\ op' = "none" /\ UNCHANGED booted
      \/ op = "boot" /\ op' = "none" /\ booted' = TRUE
      \/ op = "shutdown" /\ op' = "none" /\ booted' = FALSE
  BY DEF K!SkipUnregistered, K!SkipInactive, K!BootRaises, K!BootReady, K!ShutdownComplete,
     K!AtStart
<1>4. saving = "no" /\ calling # Runtime
  BY <1>2, SessionAssumption DEF IInv, TypeOK
<1>5. TypeOK'
  BY <1>3, <1>4 DEF IInv, TypeOK, runtimeVars
<1>6. CallInv' /\ StartedInv'
  BY <1>1, <1>3, <1>4 DEF IInv, TypeOK, CallInv, StartedInv, Is, runtimeVars
<1>7. FileInv'
  BY <1>1, FileKept DEF IInv
<1> QED  BY <1>1, <1>5, <1>6, <1>7 DEF IInv

LEMMA KernelStepInv == IInv /\ KernelStep => IInv'
<1> SUFFICES ASSUME IInv, KernelStep PROVE IInv'
  OBVIOUS
<1>1. Others = Names \ {Runtime} /\ UNCHANGED <<runtimeVars, session>>
  BY DEF Others, KernelStep
<1>2. CASE OtherHooks
  <2>1. ASSUME NEW n \in Names, K!CallStart(n) PROVE IInv'
    BY <1>1, <2>1, CallStartInv, OtherHookInv
  <2>2. ASSUME NEW n \in Names, K!BootRaises(n) PROVE IInv'
    BY <1>1, <2>2, QuietInv
  <2> QED  BY <1>1, <1>2, <2>1, <2>2, OtherHookInv DEF OtherHooks
<1>3. CASE Skip \/ K!BootReady \/ K!ShutdownComplete
  BY <1>1, <1>3, QuietInv DEF Skip
<1> QED  BY <1>2, <1>3 DEF KernelStep

-----------------------------------------------------------------------------
(* The runtime's hooks.                                                    *)

\* The runtime starts from a file that can be read, and extends what it read.
LEMMA StartRuntimeInv == IInv /\ StartRuntime => IInv'
<1> SUFFICES ASSUME IInv, StartRuntime PROVE IInv'
  OBVIOUS
<1> USE DEF StartRuntime
<1>1. LoopInv' /\ Runtime \in DOMAIN state
  BY SessionAssumption, ReturnTyped DEF IInv
<1>2. \A s : Is(s)' <=> s = "running"
  BY <1>1, TransitionTyped DEF IInv, K!Started, K!SubsystemState, Is
<1>3. /\ op = "boot" /\ calling = Runtime /\ calling' = NoName /\ calling' # Runtime
      /\ UNCHANGED <<op, booted, session, saving, file>> /\ started'
      /\ file.form # "torn"
      /\ committed' = IF file.form = "whole" THEN file.state ELSE committed
  BY SessionAssumption DEF K!Started, R!Start
<1>4. TypeOK' /\ saving = "no" /\ session = "up"
  BY <1>3 DEF IInv, TypeOK
<1>5. CallInv' /\ StartedInv'
  BY <1>2, <1>3, <1>4 DEF CallInv, StartedInv
<1>6. IsPrefixOf(file.state, committed')
  BY <1>3, FileForms, EmptyPrefix DEF IInv, TypeOK
<1>7. FileInv'
  BY <1>2, <1>3, <1>4, <1>6 DEF FileInv, SaveExtendsFile, StoppedIsSaved, IsPrefixOf, Is
<1> QED  BY <1>1, <1>4, <1>5, <1>7 DEF IInv

LEMMA RuntimeStartFailsInv == IInv /\ RuntimeStartFails => IInv'
<1> SUFFICES ASSUME IInv, RuntimeStartFails PROVE IInv'
  OBVIOUS
<1> USE DEF RuntimeStartFails
<1>1. LoopInv' /\ Runtime \in DOMAIN state
  BY SessionAssumption, ReturnTyped DEF IInv
<1>2. \A s : Is(s)' <=> s = "failed"
  BY <1>1, TransitionTyped DEF IInv, K!StartFails, K!SubsystemState, Is
<1>3. /\ op = "boot" /\ calling = Runtime /\ calling' # Runtime
      /\ UNCHANGED <<op, booted, session, saving, file, started, committed>>
  BY SessionAssumption DEF K!StartFails, R!StartFails, R!runtimeVars
<1>4. TypeOK' /\ saving = "no" /\ Is("starting") /\ session = "up"
  BY <1>3 DEF IInv, TypeOK, CallInv
<1>5. ~ started
  BY <1>4 DEF IInv, StartedInv, Is
<1>6. CallInv' /\ StartedInv'
  BY <1>2, <1>3, <1>4, <1>5 DEF IInv, CallInv, StartedInv
<1>7. FileInv'
  BY <1>2, <1>3, <1>4 DEF FileInv, SaveExtendsFile, StoppedIsSaved, Is
<1> QED  BY <1>1, <1>4, <1>6, <1>7 DEF IInv

\* Only a RUNNING runtime is stopped, so one that started.
LEMMA StopRuntimeInv == IInv /\ StopRuntime => IInv'
<1> SUFFICES ASSUME IInv, StopRuntime PROVE IInv'
  OBVIOUS
<1> USE DEF StopRuntime
<1>1. LoopInv' /\ Runtime \in DOMAIN state
  BY SessionAssumption, CallTyped DEF IInv
<1>2. \A s : Is(s)' <=> s = "stopping"
  BY <1>1, TransitionTyped DEF IInv, K!CallStop, K!SubsystemState, Is
<1>3. /\ op = "shutdown" /\ calling = NoName /\ calling' = Runtime
      /\ saving = "no" /\ saving' = "before"
      /\ UNCHANGED <<op, booted, session, file, started, committed>>
  BY DEF K!CallStop, K!AtStop, R!Stop
<1>4. Is("running") /\ started
  BY <1>1, <1>3 DEF K!CallStop, IInv, CallInv, StartedInv, Is
<1>5. TypeOK' /\ session \in {"leaving", "interrupted"}
  BY <1>3, <1>4 DEF IInv, TypeOK
<1>6. CallInv' /\ StartedInv'
  BY <1>2, <1>3, <1>4, <1>5 DEF CallInv, StartedInv
<1>7. FileInv'
  BY <1>2, <1>3, <1>4 DEF IInv, FileInv, SaveExtendsFile, StoppedIsSaved, IsPrefixOf, Is
<1> QED  BY <1>1, <1>5, <1>6, <1>7 DEF IInv

LEMMA SaveOpensInv == IInv /\ SaveOpens => IInv'
<1> SUFFICES ASSUME IInv, SaveOpens PROVE IInv'
  OBVIOUS
<1>1. /\ saving = "before" /\ saving' = "after" /\ file' = R!TornFile
      /\ UNCHANGED <<committed, started, session>> /\ UNCHANGED kernelVars
  BY DEF SaveOpens, R!OpenFile
<1>2. LoopInv' /\ \A s : Is(s)' <=> Is(s)
  BY <1>1 DEF IInv, LoopInv, Is, kernelVars
<1>3. file'.state = <<>> /\ <<>> \in Seq(Percepts)
  BY <1>1 DEF R!TornFile
<1>4. TypeOK'
  BY <1>1, <1>3 DEF IInv, TypeOK, kernelVars
<1>5. CallInv' /\ StartedInv' /\ Is("stopping")
  BY <1>1, <1>2 DEF IInv, CallInv, StartedInv, kernelVars
<1>6. FileInv'
  BY <1>1, <1>2, <1>5 DEF FileInv, SaveExtendsFile, StoppedIsSaved, Is
<1> QED  BY <1>2, <1>4, <1>5, <1>6 DEF IInv

\* The stop hook returns: the file holds what was committed.
LEMMA RuntimeStoppedInv == IInv /\ RuntimeStopped => IInv'
<1> SUFFICES ASSUME IInv, RuntimeStopped PROVE IInv'
  OBVIOUS
<1> USE DEF RuntimeStopped
<1>1. LoopInv' /\ Runtime \in DOMAIN state
  BY SessionAssumption, ReturnTyped DEF IInv
<1>2. \A s : Is(s)' <=> s = "stopped"
  BY <1>1, TransitionTyped DEF IInv, K!Stopped, K!SubsystemState, Is
<1>3. /\ op = "shutdown" /\ calling' # Runtime
      /\ saving' = "no" /\ file' = R!FileWith(committed) /\ started' = FALSE
      /\ UNCHANGED <<op, booted, session, committed>>
  BY SessionAssumption DEF K!Stopped, R!WriteFile
<1>4. file'.state = committed
  BY <1>3 DEF R!FileWith
<1>5. TypeOK' /\ session \in {"leaving", "interrupted"}
  <2>1. file' \in {R!NoFile, R!TornFile, R!FileWith(file'.state)}
    BY <1>3, <1>4, Zenon
  <2>2. file'.state \in Seq(Percepts)
    BY <1>4 DEF IInv, TypeOK
  <2> QED  BY <1>3, <2>1, <2>2 DEF IInv, TypeOK
<1>6. CallInv' /\ StartedInv'
  BY <1>2, <1>3, <1>5 DEF CallInv, StartedInv
<1>7. FileInv'
  BY <1>2, <1>3 DEF FileInv, SaveExtendsFile, StoppedIsSaved, Is, R!FileWith
<1> QED  BY <1>1, <1>5, <1>6, <1>7 DEF IInv

LEMMA RuntimeStopFailsInv == IInv /\ RuntimeStopFails => IInv'
<1> SUFFICES ASSUME IInv, RuntimeStopFails PROVE IInv'
  OBVIOUS
<1> USE DEF RuntimeStopFails
<1>1. LoopInv' /\ Runtime \in DOMAIN state
  BY SessionAssumption, ReturnTyped DEF IInv
<1>2. \A s : Is(s)' <=> s = "failed"
  BY <1>1, TransitionTyped DEF IInv, K!StopFails, K!SubsystemState, Is
<1>3. /\ op = "shutdown" /\ calling' # Runtime /\ saving' = "no"
      /\ UNCHANGED <<op, booted, session, committed, started>>
      /\ UNCHANGED file \/ file' = R!FileWith(committed)
  BY SessionAssumption, StopRaisesFile DEF K!StopFails
<1>4. TypeOK' /\ session \in {"leaving", "interrupted"}
  BY <1>3, FileTyped DEF IInv, TypeOK
<1>5. CallInv' /\ StartedInv'
  BY <1>2, <1>3, <1>4 DEF CallInv, StartedInv
<1>6. FileInv'
  BY <1>2, <1>3 DEF FileInv, SaveExtendsFile, StoppedIsSaved, Is
<1> QED  BY <1>1, <1>4, <1>5, <1>6 DEF IInv

-----------------------------------------------------------------------------
(* The prompt and the process.                                             *)

LEMMA ProcessInv == ASSUME IInv, NEW p \in Percepts, Process(p) PROVE IInv'
<1>1. /\ session = "up" /\ booted /\ op = "none"
      /\ committed' = Append(committed, p)
      /\ UNCHANGED <<started, saving, file, session>> /\ UNCHANGED kernelVars
  BY DEF Process, R!Process
<1>2. LoopInv' /\ \A s : Is(s)' <=> Is(s)
  BY <1>1 DEF IInv, LoopInv, Is, kernelVars
<1>3. TypeOK' /\ saving = "no"
  BY <1>1 DEF IInv, TypeOK, kernelVars
<1>4. CallInv' /\ StartedInv'
  BY <1>1, <1>2 DEF IInv, CallInv, StartedInv, kernelVars
<1>5. IsPrefixOf(file.state, committed) => IsPrefixOf(file.state, committed')
  BY <1>1, PrefixGrows DEF IInv, TypeOK
<1>6. ~ Is("stopped")
  BY <1>1 DEF IInv, CallInv
<1>7. IsPrefixOf(file.state, committed)' <=> IsPrefixOf(file.state, committed')
  BY <1>1 DEF IsPrefixOf
<1>8. FileInv'
  BY <1>1, <1>2, <1>3, <1>5, <1>6, <1>7 DEF IInv, FileInv, SaveExtendsFile, StoppedIsSaved, Is
<1> QED  BY <1>2, <1>3, <1>4, <1>8 DEF IInv

\* The calls of boot and shutdown.
LEMMA BeginInv == IInv /\ (Launch \/ Exit \/ HandleInterrupt) => IInv'
<1> SUFFICES ASSUME IInv, Launch \/ Exit \/ HandleInterrupt PROVE IInv'
  OBVIOUS
<1>1. (K!Boot \/ K!Shutdown) /\ UNCHANGED runtimeVars
  BY DEF Launch, Exit, HandleInterrupt
<1>2. LoopInv' /\ UNCHANGED <<state, booted>> /\ calling = NoName /\ calling' = NoName
  BY <1>1, BeginTyped DEF IInv
<1>3. /\ op = "none"
      /\ \/ session = "off" /\ session' = "up" /\ op' = "boot" /\ ~ booted
         \/ session = "up" /\ session' = "leaving" /\ op' = "shutdown" /\ booted
         \/ session = "interrupted" /\ session' = "interrupted" /\ op' = "shutdown" /\ booted
  BY DEF Launch, Exit, HandleInterrupt, K!Boot, K!Shutdown
<1>4. UNCHANGED <<committed, started, saving, file>>
  BY <1>1 DEF runtimeVars
<1>5. TypeOK'
  BY <1>2, <1>3, <1>4 DEF IInv, TypeOK
<1>6. \A s : Is(s)' <=> Is(s)
  BY <1>2 DEF Is
<1>7. CallInv' /\ StartedInv'
  BY <1>2, <1>3, <1>4, <1>6, SessionAssumption DEF IInv, CallInv, StartedInv
<1>8. FileInv'
  BY <1>1, <1>2, FileKept DEF IInv
<1> QED  BY <1>2, <1>5, <1>7, <1>8 DEF IInv

\* An interrupt leaves the runtime STOPPING, which no second shutdown visits.
LEMMA InterruptInv == IInv /\ Interrupt => IInv'
<1> SUFFICES ASSUME IInv, Interrupt PROVE IInv'
  OBVIOUS
<1>1. /\ session = "leaving" /\ session' = "interrupted"
      /\ op = "shutdown" /\ op' = "none" /\ todo' = <<>> /\ calling' = NoName
      /\ UNCHANGED <<registered, state, startOrder, booted>>
  BY DEF Interrupt
<1>2. /\ UNCHANGED <<committed, started>> /\ saving' = "no"
      /\ UNCHANGED file \/ (saving # "no" /\ file' = R!FileWith(committed))
  BY StopRaisesFile DEF Interrupt, runtimeVars
<1>3. LoopInv' /\ \A s : Is(s)' <=> Is(s)
  BY <1>1 DEF IInv, LoopInv, Is
<1>4. TypeOK'
  BY <1>1, <1>2, FileTyped DEF IInv, TypeOK
<1>5. CallInv' /\ StartedInv'
  BY <1>1, <1>2, <1>3, SessionAssumption DEF IInv, CallInv, StartedInv
<1>6. FileInv'
  <2>1. CASE UNCHANGED file
    BY <1>1, <1>2, <1>3, <2>1
    DEF IInv, FileInv, SaveExtendsFile, StoppedIsSaved, IsPrefixOf, Is
  <2>2. CASE saving # "no"
    <3>1. ~ Is("running")' /\ ~ Is("stopped")'
      BY <1>3, <2>2 DEF IInv, CallInv, Is
    <3> QED  BY <1>2, <3>1 DEF FileInv, SaveExtendsFile, StoppedIsSaved, Is
  <2> QED  BY <1>2, <2>1, <2>2
<1> QED  BY <1>3, <1>4, <1>5, <1>6 DEF IInv

LEMMA EndInv == IInv /\ End => IInv'
<1> SUFFICES ASSUME IInv, End PROVE IInv'
  OBVIOUS
<1>1. /\ session' = "off" /\ op' = "none" /\ ~ booted' /\ todo' = <<>> /\ calling' = NoName
      /\ state' = [n \in DOMAIN state |-> "registered"]
      /\ committed' = <<>> /\ ~ started' /\ started' = FALSE /\ saving' = "no"
      /\ UNCHANGED <<file, registered, startOrder>>
  BY DEF End, R!End
<1>2. \A s \in {"starting", "running", "stopping", "stopped"} : ~ Is(s)'
  BY <1>1 DEF Is
<1>3. LoopInv'
  <2>1. state' \in [DOMAIN state' -> K!SubsystemState] /\ DOMAIN state' = DOMAIN state
    BY <1>1 DEF K!SubsystemState
  <2> QED  BY <1>1, <2>1 DEF IInv, LoopInv
<1>4. TypeOK'
  <2>1. <<>> \in Seq(Percepts)
    OBVIOUS
  <2> QED  BY <1>1, <2>1 DEF IInv, TypeOK
<1>5. CallInv' /\ StartedInv' /\ FileInv'
  BY <1>1, <1>2 DEF CallInv, StartedInv, FileInv, SaveExtendsFile, StoppedIsSaved, Is
<1> QED  BY <1>3, <1>4, <1>5 DEF IInv

LEMMA StutterInv == IInv /\ UNCHANGED vars => IInv'
BY DEF vars, kernelVars, runtimeVars, IInv, TypeOK, LoopInv, CallInv, StartedInv, FileInv,
   SaveExtendsFile, StoppedIsSaved, IsPrefixOf, Is

LEMMA StepInv == IInv /\ [Next]_vars => IInv'
BY KernelStepInv, StartRuntimeInv, RuntimeStartFailsInv, StopRuntimeInv, SaveOpensInv,
   RuntimeStoppedInv, RuntimeStopFailsInv, ProcessInv, BeginInv, InterruptInv, EndInv,
   StutterInv
DEF Next, Call, Return, Killed

LEMMA AlwaysInv == Spec => []IInv
BY InitInv, StepInv, PTL DEF Spec

\* The runtime saves only inside its stop hook and after it started, in every
\* session.
THEOREM TypeCorrect == Spec => []TypeOK
<1>1. IInv => TypeOK
  BY DEF IInv
<1> QED  BY <1>1, AlwaysInv, PTL

\* No session overwrites cycles it did not begin with, nor a torn file.
THEOREM SaveExtends == Spec => []SaveExtendsFile
<1>1. IInv => SaveExtendsFile
  BY DEF IInv, FileInv
<1> QED  BY <1>1, AlwaysInv, PTL

\* A runtime the registry calls STOPPED has all its cycles on disk.
THEOREM StoppedSaved == Spec => []StoppedIsSaved
<1>1. IInv => StoppedIsSaved
  BY DEF IInv, FileInv
<1> QED  BY <1>1, AlwaysInv, PTL

-----------------------------------------------------------------------------
(* The refinement.                                                         *)

LEMMA MapInit == Init => CheckpointOf!Init
BY DEF Init, R!New, R!NoFile, CheckpointOf!Init

\* A start attaches the session: nothing was processed before, so that without
\* a file the state is empty like the copy.
LEMMA MapStart == IInv /\ StartRuntime => CheckpointOf!Attach
<1> SUFFICES ASSUME IInv, StartRuntime PROVE CheckpointOf!Attach
  OBVIOUS
<1>1. /\ op = "boot" /\ calling = Runtime /\ UNCHANGED file /\ started' = TRUE
      /\ file.form # "torn"
      /\ committed' = IF file.form = "whole" THEN file.state ELSE committed
  BY DEF StartRuntime, K!Started, R!Start
<1>2. Is("starting") /\ session = "up" /\ ~ booted
  BY <1>1 DEF IInv, CallInv, TypeOK
<1>3. ~ started /\ committed = <<>>
  BY <1>2 DEF IInv, StartedInv, Is
<1>4. committed' = file.state
  BY <1>1, <1>3, FileForms DEF IInv
<1> QED  BY <1>1, <1>3, <1>4 DEF CheckpointOf!Attach

LEMMA MapSave == IInv /\ RuntimeStopped => CheckpointOf!Save
<1> SUFFICES ASSUME IInv, RuntimeStopped PROVE CheckpointOf!Save
  OBVIOUS
<1>1. saving = "after" /\ file' = R!FileWith(committed) /\ started' = FALSE
      /\ UNCHANGED committed
  BY DEF RuntimeStopped, R!WriteFile
<1>2. started
  BY <1>1 DEF IInv, TypeOK
<1> QED  BY <1>1, <1>2 DEF CheckpointOf!Save, R!FileWith

LEMMA MapOpen == IInv /\ SaveOpens => CheckpointOf!Tear
BY DEF IInv, TypeOK, SaveOpens, R!OpenFile, R!TornFile, CheckpointOf!Tear

LEMMA MapEnd == End => CheckpointOf!Leave
BY DEF End, R!End, CheckpointOf!Leave

\* Leaving stop by an exception or an interrupt shows nothing, or the copy
\* that was written.
LEMMA MapRaises ==
  IInv /\ (RuntimeStopFails \/ Interrupt) => CheckpointOf!Save \/ UNCHANGED CheckpointOf!vars
<1> SUFFICES ASSUME IInv, RuntimeStopFails \/ Interrupt
             PROVE  CheckpointOf!Save \/ UNCHANGED CheckpointOf!vars
  OBVIOUS
<1>1. \/ UNCHANGED <<committed, started, file>>
      \/ saving # "no" /\ UNCHANGED <<committed, started>> /\ file' = R!FileWith(committed)
  BY StopRaisesFile DEF RuntimeStopFails, Interrupt, runtimeVars
<1>2. CASE UNCHANGED <<committed, started, file>>
  BY <1>2 DEF CheckpointOf!vars
<1>3. CASE saving # "no" /\ UNCHANGED <<committed, started>> /\ file' = R!FileWith(committed)
  <2>1. started /\ started \in BOOLEAN
    BY <1>3 DEF IInv, TypeOK
  <2> QED  BY <1>3, <2>1 DEF CheckpointOf!Save, R!FileWith
<1> QED  BY <1>1, <1>2, <1>3

\* What the registry does the checkpoint does not see.
LEMMA MapQuiet ==
  ASSUME \/ Launch \/ KernelStep \/ RuntimeStartFails \/ StopRuntime
         \/ Exit \/ HandleInterrupt \/ UNCHANGED vars
  PROVE  UNCHANGED CheckpointOf!vars
<1>1. UNCHANGED <<committed, started, file>>
  BY DEF Launch, KernelStep, RuntimeStartFails, StopRuntime, Exit, HandleInterrupt, vars,
     runtimeVars, R!StartFails, R!runtimeVars, R!Stop
<1> QED  BY <1>1 DEF CheckpointOf!vars

\* Every behaviour of the sessions is one of the checkpoint: a session begins
\* from what was saved last or from nothing, and in the second case writes
\* nothing.
THEOREM RefinesCheckpoint == Spec => ImplementsCheckpoint
<1>1. IInv /\ [Next]_vars => [CheckpointOf!Next]_(CheckpointOf!vars)
  <2> SUFFICES ASSUME IInv, [Next]_vars
               PROVE  CheckpointOf!Next \/ UNCHANGED CheckpointOf!vars
    OBVIOUS
  <2>1. CASE StartRuntime
    BY <2>1, MapStart DEF CheckpointOf!Next
  <2>2. CASE SaveOpens \/ RuntimeStopped
    BY <2>2, MapOpen, MapSave DEF CheckpointOf!Next
  <2>3. ASSUME NEW p \in Percepts, Process(p) PROVE CheckpointOf!Next
    <3>1. CheckpointOf!Learn(p)
      BY <2>3 DEF Process, R!Process, CheckpointOf!Learn
    <3> QED  BY <3>1 DEF CheckpointOf!Next
  <2>4. CASE Return \/ Killed
    BY <2>4, MapEnd DEF Return, Killed, CheckpointOf!Next
  <2>5. CASE RuntimeStopFails \/ Interrupt
    BY <2>5, MapRaises DEF CheckpointOf!Next
  <2>6. CASE \/ Launch \/ KernelStep \/ RuntimeStartFails \/ StopRuntime
             \/ Exit \/ HandleInterrupt \/ UNCHANGED vars
    BY <2>6, MapQuiet
  <2> QED  BY <2>1, <2>2, <2>3, <2>4, <2>5, <2>6 DEF Next, Call
<1> QED  BY <1>1, MapInit, AlwaysInv, PTL DEF Spec, ImplementsCheckpoint, CheckpointOf!Spec
=============================================================================
