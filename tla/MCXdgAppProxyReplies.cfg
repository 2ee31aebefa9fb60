CONSTANTS
  exact = exact
  wild = wild
  hidden = hidden
  prefix = prefix
  p1 = p1
  p2 = p2
  Names <- MCNames
  Prefixes = {prefix}
  ParentOf <- MCParentOf
  Policy <- MCPolicy
  Peers = {p1, p2}
  Me = Me
  InitialOwners <- MCInitialOwners
  Bus = Bus
  NULL = NULL
  Calls <- MCCalls
  Pipelining = FALSE
  MaxSerial = 3
  MaxEvents = 2
SPECIFICATION Spec
CHECK_DEADLOCK FALSE
INVARIANTS
  RepliesAllowed
