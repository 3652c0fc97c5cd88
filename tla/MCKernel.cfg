\* Every hook of two subsystems may fail; the third has no hooks.
SPECIFICATION Spec
CONSTANTS
  Names = {"bus", "memory", "runtime", "ghost"}
  Registrations <- MCRegistrations
  StartOrders <- MCStartOrders
  Startable = {"memory", "runtime"}
  Stoppable = {"memory", "runtime"}
  NoName = "-"
INVARIANTS
  RegistryMatchesHooks
  NothingRunsAfterShutdown
PROPERTIES
  FailedBootIsFinal
