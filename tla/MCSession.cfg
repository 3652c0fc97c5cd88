\* Hooks of both subsystems may fail; states of up to two cycles.
SPECIFICATION FairSpec
CONSTANTS
  Names = {"bus", "runtime"}
  Registrations <- MCRegistrations
  StartOrders <- MCStartOrders
  Startable = {"bus", "runtime"}
  Stoppable = {"bus", "runtime"}
  NoName = "-"
  Runtime = "runtime"
  Percepts = {"a", "b"}
  MaxCycles = 2
INVARIANTS
  SaveExtendsFile
  StoppedIsSaved
PROPERTIES
  ImplementsCheckpoint
  LeavingEnds
