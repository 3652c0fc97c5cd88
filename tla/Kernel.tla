------------------------------- MODULE Kernel -------------------------------
(***************************************************************************)
(* Kernel.boot and Kernel.shutdown over the SubsystemRegistry and the      *)
(* LifecycleManager.  The composition root registers every subsystem and   *)
(* creates the kernel with the configured start order; after that callers  *)
(* boot and shut it down, in any sequence.  One step is one turn of the    *)
(* loop of boot or shutdown up to a call of a hook, or the return of the   *)
(* hook.                                                                   *)
(***************************************************************************)
EXTENDS Naturals, FiniteSets, SequencesExt

CONSTANTS
  Names,          \* names of subsystems, registered or only configured
  Registrations,  \* sequences of distinct names, in the order of registration
  StartOrders,    \* settings.kernel.subsystem_start_order: sequences of names
  Startable,      \* subsystems with a start hook
  Stoppable,      \* subsystems with a stop hook
  NoName          \* no subsystem

ASSUME NamesAssumption ==
  /\ Registrations \subseteq Seq(Names)
  /\ StartOrders \subseteq Seq(Names)
  /\ NoName \notin Names

SubsystemState == {"registered", "starting", "running", "stopping", "stopped", "failed"}

LegalTransitions ==
  {<<"registered", "starting">>,
   <<"starting", "running">>, <<"starting", "stopping">>, <<"starting", "failed">>,
   <<"running", "stopping">>, <<"running", "failed">>,
   <<"stopping", "stopped">>, <<"stopping", "failed">>,
   <<"failed", "starting">>}

VARIABLES
  registered,   \* the keys of SubsystemRegistry._entries, in insertion order
  state,        \* SubsystemEntry.state of each registered subsystem
  startOrder,   \* Kernel._start_order
  booted,       \* Kernel._is_booted
  op,           \* the call that is running: "none", "boot" or "shutdown"
  todo,         \* the names its loop has still to visit
  calling,      \* the subsystem whose hook is running, or NoName
  lastBoot,     \* how the last boot() ended: "none", "ready" or "raised"
  announced,    \* subjects of the SubsystemStarted events of the last boot
  ready,        \* the count the last SystemReady event carries
  live          \* subsystems that started and did not stop: their own state

config == <<registered, startOrder>>
vars == <<registered, state, startOrder, booted, op, todo, calling, lastBoot,
          announced, ready, live>>

\* SubsystemRegistry.transition raises unless this holds.
CanTransition(n, target) == state[n] = target \/ <<state[n], target>> \in LegalTransitions

Transition(n, target) ==
  /\ CanTransition(n, target)
  /\ state' = [state EXCEPT ![n] = target]

Init ==
  /\ registered \in Registrations
  /\ state = [n \in ToSet(registered) |-> "registered"]
  /\ startOrder \in StartOrders
  /\ booted = FALSE
  /\ op = "none" /\ todo = <<>> /\ calling = NoName
  /\ lastBoot = "none" /\ announced = <<>> /\ ready = 0
  /\ live = {}

-----------------------------------------------------------------------------
(* boot: a no-op on a booted kernel. *)

Boot ==
  /\ op = "none" /\ ~ booted
  /\ op' = "boot"
  /\ todo' = startOrder
  /\ announced' = <<>>
  /\ UNCHANGED <<config, state, booted, calling, lastBoot, ready, live>>

AtStart(n) == op = "boot" /\ calling = NoName /\ todo # <<>> /\ n = Head(todo)

\* The name is configured and not registered: skipped with a warning.
SkipUnregistered(n) ==
  /\ AtStart(n) /\ n \notin DOMAIN state
  /\ todo' = Tail(todo)
  /\ UNCHANGED <<config, state, booted, op, calling, lastBoot, announced, ready, live>>

CallStart(n) ==
  /\ AtStart(n) /\ n \in DOMAIN state
  /\ Transition(n, "starting")
  /\ calling' = n
  /\ UNCHANGED <<config, booted, op, todo, lastBoot, announced, ready, live>>

\* Fault: the kernel counts as booted when boot raises.
BootRaisesBooted(n) ==
  /\ AtStart(n) /\ n \in DOMAIN state
  /\ ~ CanTransition(n, "starting")
  /\ op' = "none" /\ todo' = <<>>
  /\ lastBoot' = "raised" /\ booted' = TRUE
  /\ UNCHANGED <<config, state, calling, announced, ready, live>>

\* The transition is illegal: InvalidStateTransitionError leaves boot where
\* it is, with what was started before still running.
BootRaises(n) ==
  /\ AtStart(n) /\ n \in DOMAIN state
  /\ ~ CanTransition(n, "starting")
  /\ op' = "none" /\ todo' = <<>>
  /\ lastBoot' = "raised"
  /\ UNCHANGED <<config, state, booted, calling, announced, ready, live>>

\* start() returns, or there is no such hook.
Started(n) ==
  /\ op = "boot" /\ calling = n
  /\ Transition(n, "running")
  /\ calling' = NoName /\ todo' = Tail(todo)
  /\ announced' = Append(announced, n)
  /\ live' = live \cup {n}
  /\ UNCHANGED <<config, booted, op, lastBoot, ready>>

\* Fault: the subsystem is marked RUNNING whatever start_subsystem returned.
StartFailsUnnoticed(n) ==
  /\ op = "boot" /\ calling = n /\ n \in Startable
  /\ Transition(n, "running")
  /\ calling' = NoName /\ todo' = Tail(todo)
  /\ announced' = Append(announced, n)
  /\ UNCHANGED <<config, booted, op, lastBoot, ready, live>>

\* start() raises: start_subsystem returns False and boot goes on.
StartFails(n) ==
  /\ op = "boot" /\ calling = n /\ n \in Startable
  /\ Transition(n, "failed")
  /\ calling' = NoName /\ todo' = Tail(todo)
  /\ UNCHANGED <<config, booted, op, lastBoot, announced, ready, live>>

BootReady ==
  /\ op = "boot" /\ todo = <<>>
  /\ op' = "none"
  /\ booted' = TRUE
  /\ lastBoot' = "ready"
  /\ ready' = Len(announced)
  /\ UNCHANGED <<config, state, todo, calling, announced, live>>

-----------------------------------------------------------------------------
(* shutdown: a no-op on a kernel that is not booted. *)

Shutdown ==
  /\ op = "none" /\ booted
  /\ op' = "shutdown"
  /\ todo' = Reverse(registered)
  /\ UNCHANGED <<config, state, booted, calling, lastBoot, announced, ready, live>>

AtStop(n) == op = "shutdown" /\ calling = NoName /\ todo # <<>> /\ n = Head(todo)

SkipInactive(n) ==
  /\ AtStop(n) /\ state[n] \notin {"starting", "running"}
  /\ todo' = Tail(todo)
  /\ UNCHANGED <<config, state, booted, op, calling, lastBoot, announced, ready, live>>

CallStop(n) ==
  /\ AtStop(n) /\ state[n] \in {"starting", "running"}
  /\ Transition(n, "stopping")
  /\ calling' = n
  /\ UNCHANGED <<config, booted, op, todo, lastBoot, announced, ready, live>>

Stopped(n) ==
  /\ op = "shutdown" /\ calling = n
  /\ Transition(n, "stopped")
  /\ calling' = NoName /\ todo' = Tail(todo)
  /\ live' = live \ {n}
  /\ UNCHANGED <<config, booted, op, lastBoot, announced, ready>>

\* Fault: a failed stop ends the loop.
StopFailsBreaks(n) ==
  /\ op = "shutdown" /\ calling = n /\ n \in Stoppable
  /\ Transition(n, "failed")
  /\ calling' = NoName /\ todo' = <<>>
  /\ UNCHANGED <<config, booted, op, lastBoot, announced, ready, live>>

\* stop() raises: the subsystem may not have let go of anything.
StopFails(n) ==
  /\ op = "shutdown" /\ calling = n /\ n \in Stoppable
  /\ Transition(n, "failed")
  /\ calling' = NoName /\ todo' = Tail(todo)
  /\ UNCHANGED <<config, booted, op, lastBoot, announced, ready, live>>

ShutdownComplete ==
  /\ op = "shutdown" /\ todo = <<>>
  /\ op' = "none"
  /\ booted' = FALSE
  /\ UNCHANGED <<config, state, todo, calling, lastBoot, announced, ready, live>>

-----------------------------------------------------------------------------

Visit(n) ==
  \/ SkipUnregistered(n) \/ CallStart(n) \/ BootRaises(n) \/ Started(n) \/ StartFails(n)
  \/ SkipInactive(n) \/ CallStop(n) \/ Stopped(n) \/ StopFails(n)

Step == (\E n \in Names : Visit(n)) \/ BootReady \/ ShutdownComplete

Next == Boot \/ Shutdown \/ Step

Spec == Init /\ [][Next]_vars
=============================================================================
