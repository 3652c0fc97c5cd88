\* Two keys, two values, up to five ids of an engine, any number of restarts.
SPECIFICATION Spec
CONSTANTS
  Keys = {"name", "language"}
  Values = {"a", "b"}
  MaxIds = 5
INVARIANTS
  FactIsLatest
  ReturnedIsSaved
PROPERTY
  ImplementsFactLog
