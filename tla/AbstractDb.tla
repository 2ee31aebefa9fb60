----------------------------- MODULE AbstractDb -----------------------------
(***************************************************************************)
(* What a user of an XdgAppDb is promised, without the overlay tables: a   *)
(* map from object ids to entries, the reverse index of the map (which ids *)
(* mention which app), one serialized copy of both, and the copy in the    *)
(* file.  XdgAppDb is shown to implement this module.                      *)
(***************************************************************************)
CONSTANTS Ids,      \* object ids (documents, resources)
          Apps,     \* application ids
          Perms,    \* permission strings
          Data,     \* the opaque data an entry carries
          NULL,     \* no entry, no contents
          MaxCopies \* bound on repeated ids in one list (see XdgAppDb)

VARIABLES map,        \* id -> entry, NULL when the id has none
          index,      \* app -> the ids listed for it
          serialized, \* the map last serialized, NULL if none
          stored      \* the map in the file, NULL if there is no file

vars == <<map, index, serialized, stored>>

Entry == [data : Data, permissions : [Apps -> SUBSET Perms]]

\* The apps that hold at least one permission in an entry.
AppsOf(entry) == IF entry = NULL THEN {}
                 ELSE {app \in Apps : entry.permissions[app] # {}}

\* The reverse index of a map.
IndexOf(m) == [app \in Apps |-> {id \in Ids : app \in AppsOf(m[id])}]

EmptyMap == [id \in Ids |-> NULL]

\* The map a file holds; no file is an empty map.
MapOf(contents) == IF contents = NULL THEN EmptyMap ELSE contents

Init ==
  /\ map = EmptyMap
  /\ index = IndexOf(EmptyMap)
  /\ serialized = NULL
  /\ stored = NULL

\* Add, replace or (NULL) remove one entry: the index moves with the map.
Set(id, entry) ==
  /\ map' = [map EXCEPT ![id] = entry]
  /\ index' = IndexOf(map')
  /\ UNCHANGED <<serialized, stored>>

Serialize ==
  /\ serialized' = map
  /\ UNCHANGED <<map, index, stored>>

Save ==
  /\ serialized # NULL
  /\ stored' = serialized
  /\ UNCHANGED <<map, index, serialized>>

\* A new process reads back exactly what was stored, index included.
Open ==
  /\ map' = MapOf(stored)
  /\ index' = IndexOf(map')
  /\ serialized' = stored
  /\ UNCHANGED stored

Next ==
  \/ \E id \in Ids, entry \in Entry \cup {NULL} : Set(id, entry)
  \/ Serialize
  \/ Save
  \/ Open

Spec == Init /\ [][Next]_vars
=============================================================================
