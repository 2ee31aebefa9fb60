-------------------------- MODULE MCXdgAppContext --------------------------
(***************************************************************************)
(* An instance of XdgAppContext for TLC: two flags, a filesystem of each   *)
(* kind, three names on the bus, and metadata that grants some of them.    *)
(***************************************************************************)
EXTENDS XdgAppContext

CONSTANTS ipc, bus, home, download, desktop, notes, srv, games, app, portal, peer, lang, c, de, s1, s2

MCFlags == {ipc, bus}
MCHome == {home}
MCXdgDirs == {download, desktop}
MCDisabled == {desktop}
MCTildeDirs == {notes}
MCOtherDirs == {srv}
MCHostDirs == {{download, desktop, srv}, {desktop, notes}}
MCPaths == {games}
MCBusNames == {app, portal, peer}
MCVars == {lang}
MCValues == {c, de}
MCSlots == {s1, s2}
MCRuntimeWords == {<<>>, <<<<<<"flag", ipc>>, TRUE>>, <<<<"fs", srv>>, TRUE>>>>}
MCAppWords ==
  {<<<<<<"flag", ipc>>, FALSE>>, <<<<"fs", srv>>, FALSE>>, <<<<"policy", peer>>, SEE>>>>,
   <<<<<<"fs", home>>, TRUE>>, <<<<"persist", games>>, TRUE>>, <<<<"env", lang>>, c>>,
     <<<<"policy", peer>>, TALK>>>>}
MCHandwritten == {<<<<<<"policy", peer>>, NONE>>, <<<<"fs", home>>, FALSE>>>>}
Symmetry == Permutations(MCSlots)
=============================================================================
