SPECIFICATION Spec
CONSTANTS
  s1 = s1
  s2 = s2
  a1 = a1
  master = master
  beta = beta
  runtime = runtime
  c1 = c1
  c2 = c2
  f1 = f1
  f2 = f2
  NULL = NULL
  Slots <- MCSlots
  Apps <- MCApps
  Refs <- MCRefs
  AppRefs <- MCAppRefs
  Commits <- MCCommits
  Exported <- MCExported
  Dirs <- MCDirs
  MaxCommands = 3
  MaxTrouble = 1
SYMMETRY Symmetry
INVARIANTS
  InstalledStaysRunnable
  ExportsFollowCurrent
  LockedKeepsFiles
  UninstallLeavesNothing
  InstallDelivers
CHECK_DEADLOCK FALSE
