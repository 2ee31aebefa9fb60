------------------------------ MODULE XdgAppDb ------------------------------
(***************************************************************************)
(* lib/xdg-app-db.c: the permission database that the document portal and  *)
(* the permission store share as a library.  The tables read from the file *)
(* (main_table, app_table) are never changed; every change is kept in      *)
(* three hash tables laid over them (main_updates, app_additions,          *)
(* app_removals), and every query combines the two.                        *)
(*                                                                         *)
(* Abstractions.  A hash table with string keys is a function over the     *)
(* finite set of keys, Absent standing for a key that is not there.  The   *)
(* arrays of one app in the overlay never hold an id twice, so they are    *)
(* sets; the list of one app in the file can (see xdg_app_db_update), so   *)
(* it is a function from ids to how often each occurs, at most MaxCopies.  *)
(***************************************************************************)
EXTENDS Naturals

CONSTANTS Ids, Apps, Perms, Data,
          NULL,      \* the null pointer
          Absent,    \* what a lookup in main_updates finds for a missing key
          MaxCopies  \* how often one id may be repeated in an app's list

Entry == [data : Data, permissions : [Apps -> SUBSET Perms]]

\* A GVDB file: the table "main" and the table "apps".
Contents == [main : [Ids -> Entry \cup {NULL}], apps : [Apps -> [Ids -> Nat]]]

ASSUME MarkersAssumption ==
  /\ NULL \notin Entry
  /\ NULL \notin Contents \cup [Ids -> Entry \cup {NULL}]
  /\ Absent \notin Entry \cup {NULL}
ASSUME MaxCopiesAssumption == MaxCopies \in Nat \ {0}

VARIABLES
  main_table,    \* id -> entry as read from the file
  app_table,     \* app -> list of ids as read from the file
  main_updates,  \* id -> entry set since (NULL: removed)
  app_additions, \* app -> ids that list the app since
  app_removals,  \* app -> ids that do not list the app any more
  dirty,
  gvdb_contents, \* the serialized bytes, NULL before the first update
  file           \* the database file, NULL when there is none

tables  == <<main_table, app_table>>
overlay == <<main_updates, app_additions, app_removals>>
vars    == <<tables, overlay, dirty, gvdb_contents, file>>

-----------------------------------------------------------------------------
(* Entries.                                                                *)

\* The apps of an entry; an app whose permission list is empty is skipped.
xdg_app_db_entry_list_apps(entry) ==
  {app \in Apps : entry.permissions[app] # {}}

\* The lists a and b of set_entry: empty for a missing entry.
AppsOf(entry) == IF entry = NULL THEN {} ELSE xdg_app_db_entry_list_apps(entry)

-----------------------------------------------------------------------------
(* Queries.                                                                *)

xdg_app_db_lookup(id) ==
  IF main_updates[id] # Absent THEN main_updates[id] ELSE main_table[id]

xdg_app_db_list_ids ==
  {id \in Ids : main_updates[id] \notin {Absent, NULL}}
    \cup {id \in Ids : main_table[id] # NULL /\ main_updates[id] = Absent}

\* MUTANT of xdg_app_db_list_ids_by_app: forgets app_removals.
ListIgnoresRemovals(app) ==
  [id \in Ids |-> app_table[app][id] + (IF id \in app_additions[app] THEN 1 ELSE 0)]

\* How often each id is in the list of an app: once if added, and as often
\* as in the file unless removed.
xdg_app_db_list_ids_by_app(app) ==
  [id \in Ids |->
    (IF id \in app_additions[app] THEN 1 ELSE 0)
      + (IF id \in app_removals[app] THEN 0 ELSE app_table[app][id])]

Listed(app) == {id \in Ids : xdg_app_db_list_ids_by_app(app)[id] > 0}

xdg_app_db_list_apps ==
  {app \in Apps : app_additions[app] # {}}
    \cup {app \in Apps : /\ app_additions[app] = {}
                         /\ \E id \in Ids : app_table[app][id] > 0
                                            /\ id \notin app_removals[app]}

-----------------------------------------------------------------------------
(* Operations.                                                             *)

\* xdg_app_db_new on the current file: a process that starts.
OpenTables(contents) ==
  /\ main_table' = IF contents = NULL THEN [id \in Ids |-> NULL] ELSE contents.main
  /\ app_table'  = IF contents = NULL THEN [app \in Apps |-> [id \in Ids |-> 0]]
                   ELSE contents.apps
  /\ main_updates'  = [id \in Ids |-> Absent]
  /\ app_additions' = [app \in Apps |-> {}]
  /\ app_removals'  = [app \in Apps |-> {}]
  /\ dirty' = FALSE
  /\ gvdb_contents' = contents

Init ==
  /\ main_table = [id \in Ids |-> NULL]
  /\ app_table = [app \in Apps |-> [id \in Ids |-> 0]]
  /\ main_updates = [id \in Ids |-> Absent]
  /\ app_additions = [app \in Apps |-> {}]
  /\ app_removals = [app \in Apps |-> {}]
  /\ dirty = FALSE
  /\ gvdb_contents = NULL
  /\ file = NULL

\* The process ends, at any point, and another one opens the file.
initable_init == OpenTables(file) /\ UNCHANGED file

\* What add_app_id and remove_app_id leave in the two arrays of every app
\* after the merge walk of set_entry over the old and the new app list.
update_app_ids(id, added, removed) ==
  /\ app_additions' = [app \in Apps |->
       IF app \in added THEN app_additions[app] \cup {id}
       ELSE IF app \in removed THEN app_additions[app] \ {id}
       ELSE app_additions[app]]
  /\ app_removals' = [app \in Apps |->
       IF app \in added THEN app_removals[app] \ {id}
       ELSE IF app \in removed THEN app_removals[app] \cup {id}
       ELSE app_removals[app]]

\* MUTANT of xdg_app_db_set_entry: compares with the entry of the file.
ComparesWithFile(id, entry) ==
  LET old == AppsOf(main_table[id])
      new == AppsOf(entry)
  IN /\ dirty' = TRUE
     /\ main_updates' = [main_updates EXCEPT ![id] = entry]
     /\ update_app_ids(id, new \ old, old \ new)
     /\ UNCHANGED <<tables, gvdb_contents, file>>

\* Add, replace, or (NULL) remove an entry.
xdg_app_db_set_entry(id, entry) ==
  LET old == AppsOf(xdg_app_db_lookup(id))
      new == AppsOf(entry)
  IN /\ dirty' = TRUE
     /\ main_updates' = [main_updates EXCEPT ![id] = entry]
     /\ update_app_ids(id, new \ old, old \ new)
     /\ UNCHANGED <<tables, gvdb_contents, file>>

\* Serialize what the queries answer.  The lists are written as they come,
\* so an id that was removed from and added back to an app is written twice;
\* the guard caps how often, for model checking.
xdg_app_db_update ==
  LET ids_of == [app \in Apps |-> IF app \in xdg_app_db_list_apps
                                  THEN xdg_app_db_list_ids_by_app(app)
                                  ELSE [id \in Ids |-> 0]]
  IN /\ \A app \in Apps, id \in Ids : ids_of[app][id] <= MaxCopies
     /\ gvdb_contents' = [main |-> [id \in Ids |-> IF id \in xdg_app_db_list_ids
                                                   THEN xdg_app_db_lookup(id) ELSE NULL],
                          apps |-> ids_of]
     /\ dirty' = FALSE
     /\ UNCHANGED <<tables, overlay, file>>

\* A successful save; a failed one, and one with nothing serialized, leaves
\* everything as it is.  The file is replaced as a whole.
xdg_app_db_save_content ==
  /\ gvdb_contents # NULL
  /\ file' = gvdb_contents
  /\ UNCHANGED <<tables, overlay, dirty, gvdb_contents>>

Next ==
  \/ initable_init
  \/ \E id \in Ids, entry \in Entry \cup {NULL} : xdg_app_db_set_entry(id, entry)
  \/ xdg_app_db_update
  \/ xdg_app_db_save_content

Spec == Init /\ [][Next]_vars

-----------------------------------------------------------------------------
(* Properties.                                                             *)

\* Every table has its type, and no id is among both the additions and the
\* removals of an app: add_app_id and remove_app_id keep the arrays disjoint.
TypeOK ==
  /\ main_table \in [Ids -> Entry \cup {NULL}]
  /\ app_table \in [Apps -> [Ids -> Nat]]
  /\ main_updates \in [Ids -> Entry \cup {NULL, Absent}]
  /\ app_additions \in [Apps -> SUBSET Ids]
  /\ app_removals \in [Apps -> SUBSET Ids]
  /\ \A app \in Apps : app_additions[app] \cap app_removals[app] = {}
  /\ dirty \in BOOLEAN
  /\ gvdb_contents \in Contents \cup {NULL}
  /\ file \in Contents \cup {NULL}

\* The reverse index answers as the entries do, whatever sequence of changes,
\* saves and restarts led here: an id is listed for an app exactly when the
\* entry that lookup finds lists the app.
IndexConsistent ==
  \A app \in Apps, id \in Ids :
    id \in Listed(app) <=> app \in AppsOf(xdg_app_db_lookup(id))

\* "We should never list an app that has empty id lists", and none that has
\* a permission somewhere is left out: what update asserts before it writes.
ListAppsExact ==
  xdg_app_db_list_apps = {app \in Apps : Listed(app) # {}}

\* A file or a serialized copy with an index that matches its entries.
Coherent(contents) ==
  contents # NULL =>
    \A app \in Apps, id \in Ids :
      contents.apps[app][id] > 0 <=> app \in AppsOf(contents.main[id])

\* The index that is written always matches the entries written with it, so
\* the next process starts from a consistent pair of tables.
ContentsCoherent == Coherent(gvdb_contents) /\ Coherent(file)

\* A database that says it is not dirty has been serialized as it is: saving
\* it loses nothing.
CleanIsSerialized ==
  ~dirty => \A id \in Ids :
    xdg_app_db_lookup(id) = IF gvdb_contents = NULL THEN NULL ELSE gvdb_contents.main[id]

\* The overlay implements a plain map with its reverse index, also across
\* updates, saves and restarts.
MainOf(contents) == IF contents = NULL THEN NULL ELSE contents.main

Abstract == INSTANCE AbstractDb WITH
  map <- [id \in Ids |-> xdg_app_db_lookup(id)],
  index <- [app \in Apps |-> Listed(app)],
  serialized <- MainOf(gvdb_contents),
  stored <- MainOf(file)

ImplementsAbstractDb == Abstract!Spec
=============================================================================
