SPECIFICATION Spec
CONSTANTS
  ipc = ipc
  bus = bus
  home = home
  download = download
  desktop = desktop
  notes = notes
  srv = srv
  games = games
  app = app
  portal = portal
  peer = peer
  lang = lang
  c = c
  de = de
  s1 = s1
  s2 = s2
  NULL = NULL
  Flags <- MCFlags
  Home <- MCHome
  XdgDirs <- MCXdgDirs
  Disabled <- MCDisabled
  TildeDirs <- MCTildeDirs
  OtherDirs <- MCOtherDirs
  HostDirs <- MCHostDirs
  Paths <- MCPaths
  BusNames <- MCBusNames
  Vars <- MCVars
  Values <- MCValues
  Slots <- MCSlots
  AppId = app
  Portal = portal
  SessionBus = bus
  RuntimeWords <- MCRuntimeWords
  AppWords <- MCAppWords
  Handwritten <- MCHandwritten
  MaxWords = 2
SYMMETRY Symmetry
INVARIANTS
  TypeOK
  LastWordRuns
  ExposedAsSaid
  NamesAsSaid
