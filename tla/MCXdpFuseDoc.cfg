CONSTANTS
  Views = {app1, app2}
  Writers = {app1}
  Threads = {t1, t2}
  Handles = {h1, h2}
  MaxFiles = 2
  MaxLeaks = 1
  Faults = {"renameat", "reply"}
  NULL = NULL
SPECIFICATION Spec
SYMMETRY Symmetry
INVARIANTS
  HandlesSound
  ReplacedWhole
  OnlyWritersReplace
  TempsOwned
