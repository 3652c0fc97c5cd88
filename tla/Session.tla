-------------------------------- MODULE Session --------------------------------
(***************************************************************************)
(* Sessions of the command line, one process after the other: the kernel   *)
(* boots the subsystems, the prompt feeds the symbolic runtime, and        *)
(* leaving shuts the kernel down.  Composes Kernel and SymbolicRuntime:    *)
(* the start and stop hooks of the subsystem Runtime are start() and       *)
(* stop() of SymbolicRuntime.  The process may end at any point, and an    *)
(* interrupt during the shutdown makes the prompt's handler shut down      *)
(* again.                                                                  *)
(***************************************************************************)
EXTENDS Naturals, Sequences, FiniteSets

CONSTANTS
  Names, Registrations, StartOrders, Startable, Stoppable, NoName,   \* see Kernel
  Runtime,     \* the name of the symbolic runtime
  Percepts,    \* what may be typed
  MaxCycles    \* bound on the cycles a state results from

ASSUME SessionAssumption ==
  /\ Runtime \in Names \cap Startable \cap Stoppable
  /\ NoName \notin Names
  /\ Registrations \subseteq Seq(Names)
  /\ StartOrders \subseteq Seq(Names)

VARIABLES
  registered, state, startOrder, booted, op, todo, calling, lastBoot, announced, ready, live,
  committed, started, saving, file,
  session      \* "off", "up", "leaving", or "interrupted" while leaving

kernelVars == <<registered, state, startOrder, booted, op, todo, calling, lastBoot,
                announced, ready, live>>
runtimeVars == <<committed, started, saving, file>>
vars == <<kernelVars, runtimeVars, session>>

K == INSTANCE Kernel
R == INSTANCE SymbolicRuntime

Init == K!Init /\ R!New /\ file = R!NoFile /\ session = "off"

\* bootstrap creates the objects, and the kernel boots.
Launch ==
  /\ session = "off" /\ session' = "up"
  /\ K!Boot
  /\ UNCHANGED runtimeVars

-----------------------------------------------------------------------------
(* The kernel's loops, with the hooks of the runtime and of the others. *)

Others == Names \ {Runtime}

Skip == \E n \in Names : K!SkipUnregistered(n) \/ K!SkipInactive(n)

OtherHooks ==
  \/ \E n \in Names : K!CallStart(n) \/ K!BootRaises(n)
  \/ \E n \in Others : \/ K!Started(n) \/ K!StartFails(n)
                       \/ K!CallStop(n) \/ K!Stopped(n) \/ K!StopFails(n)

KernelStep ==
  /\ Skip \/ OtherHooks \/ K!BootReady \/ K!ShutdownComplete
  /\ UNCHANGED <<runtimeVars, session>>

StartRuntime == K!Started(Runtime) /\ R!Start /\ UNCHANGED session

\* Fault: start_subsystem returns True when the hook raised.
RuntimeStartFailsUnnoticed == K!Started(Runtime) /\ R!StartFails /\ UNCHANGED session

RuntimeStartFails == K!StartFails(Runtime) /\ R!StartFails /\ UNCHANGED session

StopRuntime == K!CallStop(Runtime) /\ R!Stop /\ UNCHANGED session

SaveOpens == R!OpenFile /\ UNCHANGED <<kernelVars, session>>

RuntimeStopped == K!Stopped(Runtime) /\ R!WriteFile /\ UNCHANGED session

\* Fault: stop_subsystem returns True when the hook raised.
RuntimeStopFailsUnnoticed == K!Stopped(Runtime) /\ R!StopRaises /\ UNCHANGED session

RuntimeStopFails == K!StopFails(Runtime) /\ R!StopRaises /\ UNCHANGED session

-----------------------------------------------------------------------------
(* The prompt. *)

\* A line is processed, whether the runtime was started or not.
Process(p) ==
  /\ session = "up" /\ booted /\ op = "none"
  /\ Len(committed) < MaxCycles
  /\ R!Process(p)
  /\ UNCHANGED <<kernelVars, session>>

\* "/exit", or an interrupt while a line is processed.
Exit ==
  /\ session = "up" /\ session' = "leaving"
  /\ K!Shutdown
  /\ UNCHANGED runtimeVars

\* KeyboardInterrupt is no Exception: it passes the hook, the lifecycle
\* manager and the kernel, whose registry stays as it was.
Interrupt ==
  /\ session = "leaving" /\ session' = "interrupted"
  /\ op = "shutdown"
  /\ op' = "none" /\ todo' = <<>> /\ calling' = NoName
  /\ IF saving = "no" THEN UNCHANGED runtimeVars ELSE R!StopRaises
  /\ UNCHANGED <<registered, state, startOrder, booted, lastBoot, announced, ready, live>>

\* Fault: the handler goes back to the prompt.
HandleInterruptGoesOn ==
  /\ session = "interrupted" /\ session' = "up"
  /\ UNCHANGED <<kernelVars, runtimeVars>>

\* The handler of the prompt calls shutdown again.
HandleInterrupt ==
  /\ session = "interrupted"
  /\ K!Shutdown
  /\ UNCHANGED <<runtimeVars, session>>

\* The process ends; the next one begins with new objects.
End ==
  /\ session' = "off"
  /\ state' = [n \in DOMAIN state |-> "registered"]
  /\ booted' = FALSE
  /\ op' = "none" /\ todo' = <<>> /\ calling' = NoName
  /\ lastBoot' = "none" /\ announced' = <<>> /\ ready' = 0 /\ live' = {}
  /\ R!End
  /\ UNCHANGED <<registered, startOrder>>

\* It has nothing left to do: shutdown is complete, or boot raised.
Return ==
  /\ op = "none" /\ ~ booted /\ session # "off"
  /\ End

\* It is killed, or ended by a second interrupt, by another exception of a
\* cycle, or by an interrupt while the prompt waits, which click turns into
\* Abort.
Killed == session # "off" /\ End

-----------------------------------------------------------------------------

Call ==
  \/ KernelStep \/ StartRuntime \/ RuntimeStartFails
  \/ StopRuntime \/ SaveOpens \/ RuntimeStopped \/ RuntimeStopFails
  \/ HandleInterrupt \/ Return

Next ==
  \/ Launch \/ Call \/ Exit \/ Interrupt \/ Killed
  \/ \E p \in Percepts : Process(p)

Spec == Init /\ [][Next]_vars

\* Calls go on and hooks return; nobody need type, launch, or interrupt.
FairSpec == Spec /\ WF_vars(Call)
=============================================================================
