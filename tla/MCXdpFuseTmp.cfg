CONSTANTS
  Views = {app1, app2}
  Writers = {app1}
  Names = {n1, n2}
  Basename = basename
  Threads = {t1, t2}
  Handles = {h1}
  MaxTmps = 2
  Faults = {"open_dir", "mkstemp", "renameat"}
  NULL = NULL
SPECIFICATION Spec
SYMMETRY Symmetry
CHECK_DEADLOCK FALSE
INVARIANTS
  TempsSound
  UnlinkedOnce
  ListedHandlesStopped
