SPECIFICATION HelperSpec
CONSTANTS
  Statuses <- MCStatuses
  MaxOthers = 2
  MaxTrouble = 3
INVARIANTS
  StatusReported
  SandboxCovered
PROPERTY EverythingEnds
CHECK_DEADLOCK FALSE
