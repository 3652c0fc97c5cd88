\* Every sequence of calls over four thoughts.
SPECIFICATION FairSpec
CONSTANTS
  Thoughts = {"t1", "t2", "t3", "t4"}
  Links <- MCLinks
PROPERTIES
  ImplementsDag
  CallsReturn
