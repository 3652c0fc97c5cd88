SPECIFICATION Spec
CONSTANTS
  EventTypes = {memory, goal}
  Handlers = {f, g}
  MaxSubscriptions = 4
  MaxPublished = 2
  MaxDepth = 2
INVARIANTS MissesBounded
PROPERTIES EveryHandlerCalled
CHECK_DEADLOCK FALSE
