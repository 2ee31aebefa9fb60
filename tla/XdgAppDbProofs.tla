--------------------------- MODULE XdgAppDbProofs ---------------------------
(***************************************************************************)
(* Proofs about XdgAppDb for every set of ids, apps, permissions and data. *)
(* IndexConsistent alone is not inductive: opening the file needs the file *)
(* to be coherent, and that needs update to write a coherent pair, which   *)
(* needs IndexConsistent.  IInv is the conjunction that closes the circle. *)
(***************************************************************************)
EXTENDS XdgAppDb, TLAPS

IInv == TypeOK /\ IndexConsistent /\ ContentsCoherent

-----------------------------------------------------------------------------
(* Facts about the queries.                                                *)

\* An overlaid lookup returns an entry or NULL, never the marker Absent.
LEMMA LookupType ==
  ASSUME TypeOK, NEW id \in Ids
  PROVE  xdg_app_db_lookup(id) \in Entry \cup {NULL}
BY DEF TypeOK, xdg_app_db_lookup

\* Every count in an app's list is a natural number.
LEMMA CountType ==
  ASSUME TypeOK, NEW app \in Apps, NEW id \in Ids
  PROVE  xdg_app_db_list_ids_by_app(app)[id] \in Nat
<1>1. app_table[app][id] \in Nat
  BY DEF TypeOK
<1> QED
  BY <1>1 DEF xdg_app_db_list_ids_by_app

\* An id is listed iff it was added, or is in the file and was not removed.
LEMMA ListedIff ==
  ASSUME TypeOK, NEW app \in Apps, NEW id \in Ids
  PROVE  id \in Listed(app) <=>
           \/ id \in app_additions[app]
           \/ id \notin app_removals[app] /\ app_table[app][id] > 0
<1>1. app_table[app][id] \in Nat
  BY DEF TypeOK
<1> QED
  BY <1>1 DEF Listed, xdg_app_db_list_ids_by_app

\* list_ids returns the ids for which lookup finds an entry.
LEMMA ListIdsIff ==
  ASSUME TypeOK, NEW id \in Ids
  PROVE  id \in xdg_app_db_list_ids <=> xdg_app_db_lookup(id) # NULL
BY MarkersAssumption DEF TypeOK, xdg_app_db_list_ids, xdg_app_db_lookup

\* The apps of an entry are apps.
LEMMA AppsOfSubset ==
  ASSUME NEW entry \in Entry \cup {NULL}
  PROVE  AppsOf(entry) \subseteq Apps
BY DEF AppsOf, xdg_app_db_entry_list_apps

-----------------------------------------------------------------------------
(* Type correctness.                                                       *)

\* What update writes is a pair of well-formed tables.
LEMMA UpdateContentsType ==
  ASSUME TypeOK, xdg_app_db_update
  PROVE  gvdb_contents' \in Contents
<1> DEFINE main == [id \in Ids |-> IF id \in xdg_app_db_list_ids
                                   THEN xdg_app_db_lookup(id) ELSE NULL]
           apps == [app \in Apps |-> IF app \in xdg_app_db_list_apps
                                     THEN xdg_app_db_list_ids_by_app(app)
                                     ELSE [id \in Ids |-> 0]]
<1>1. main \in [Ids -> Entry \cup {NULL}]
  BY LookupType
<1>2. apps \in [Apps -> [Ids -> Nat]]
  <2>1. ASSUME NEW app \in Apps
        PROVE  xdg_app_db_list_ids_by_app(app) \in [Ids -> Nat]
    BY CountType DEF xdg_app_db_list_ids_by_app
  <2> QED
    BY <2>1
<1>3. gvdb_contents' = [main |-> main, apps |-> apps]
  BY DEF xdg_app_db_update
<1> HIDE DEF main, apps
<1> QED
  BY <1>1, <1>2, <1>3 DEF Contents

\* TypeOK is inductive on its own.
LEMMA TypeStep ==
  ASSUME TypeOK, [Next]_vars
  PROVE  TypeOK'
<1>1. CASE initable_init
  <2>1. main_table' \in [Ids -> Entry \cup {NULL}]
    BY <1>1 DEF initable_init, OpenTables, TypeOK, Contents
  <2>2. app_table' \in [Apps -> [Ids -> Nat]]
    BY <1>1 DEF initable_init, OpenTables, TypeOK, Contents
  <2> QED
    BY <1>1, <2>1, <2>2 DEF initable_init, OpenTables, TypeOK
<1>2. ASSUME NEW id \in Ids, NEW entry \in Entry \cup {NULL},
             xdg_app_db_set_entry(id, entry)
      PROVE  TypeOK'
  <2> DEFINE old == AppsOf(xdg_app_db_lookup(id))
             new == AppsOf(entry)
  <2>1. main_updates' \in [Ids -> Entry \cup {NULL, Absent}]
    BY <1>2 DEF xdg_app_db_set_entry, TypeOK
  <2>2. update_app_ids(id, new \ old, old \ new)
    BY <1>2 DEF xdg_app_db_set_entry
  <2> HIDE DEF old, new
  <2>3. /\ app_additions' \in [Apps -> SUBSET Ids]
        /\ app_removals' \in [Apps -> SUBSET Ids]
        /\ \A app \in Apps : app_additions'[app] \cap app_removals'[app] = {}
    BY <2>2 DEF update_app_ids, TypeOK
  <2> QED
    BY <1>2, <2>1, <2>3 DEF xdg_app_db_set_entry, TypeOK, tables
<1>3. CASE xdg_app_db_update
  BY <1>3, UpdateContentsType DEF xdg_app_db_update, TypeOK, tables, overlay
<1>4. CASE xdg_app_db_save_content
  BY <1>4 DEF xdg_app_db_save_content, TypeOK, tables, overlay
<1>5. CASE UNCHANGED vars
  BY <1>5 DEF vars, tables, overlay, TypeOK
<1> QED
  BY <1>1, <1>2, <1>3, <1>4, <1>5 DEF Next

LEMMA TypeInit == Init => TypeOK
<1> SUFFICES ASSUME Init PROVE TypeOK
  OBVIOUS
<1>1. /\ main_table \in [Ids -> Entry \cup {NULL}]
      /\ app_table \in [Apps -> [Ids -> Nat]]
      /\ main_updates \in [Ids -> Entry \cup {NULL, Absent}]
  BY DEF Init
<1>2. /\ app_additions \in [Apps -> SUBSET Ids]
      /\ app_removals \in [Apps -> SUBSET Ids]
      /\ \A app \in Apps : app_additions[app] \cap app_removals[app] = {}
  BY DEF Init
<1> QED
  BY <1>1, <1>2 DEF Init, TypeOK

\* Every reachable state of the database is well typed, and the two arrays
\* of an app are disjoint.
THEOREM TypeCorrect == Spec => []TypeOK
BY TypeInit, TypeStep, PTL DEF Spec

-----------------------------------------------------------------------------
(* The reverse index.                                                      *)

\* The merge walk of set_entry keeps the index right: the changed id is
\* listed for exactly the apps of its new entry, every other id as before.
LEMMA SetEntryKeepsIndex ==
  ASSUME IInv, TypeOK', NEW id \in Ids, NEW entry \in Entry \cup {NULL},
         xdg_app_db_set_entry(id, entry)
  PROVE  IndexConsistent'
<1> DEFINE old == AppsOf(xdg_app_db_lookup(id))
           new == AppsOf(entry)
<1>1. update_app_ids(id, new \ old, old \ new) /\ UNCHANGED app_table
  BY DEF xdg_app_db_set_entry, tables
<1>2. \A app \in Apps : id \in Listed(app) <=> app \in old
  BY DEF IInv, IndexConsistent
<1>3. xdg_app_db_lookup(id)' = entry
  BY MarkersAssumption DEF xdg_app_db_set_entry, xdg_app_db_lookup, IInv, TypeOK
<1>4. ASSUME NEW other \in Ids \ {id}
      PROVE  xdg_app_db_lookup(other)' = xdg_app_db_lookup(other)
  BY DEF xdg_app_db_set_entry, xdg_app_db_lookup, IInv, TypeOK, tables
<1> HIDE DEF old, new
<1>5. ASSUME NEW app \in Apps
      PROVE  (id \in Listed(app))' <=> app \in new
  <2>1. (id \in Listed(app))' <=>
           \/ id \in app_additions'[app]
           \/ id \notin app_removals'[app] /\ app_table[app][id] > 0
    <3>1. app_table'[app][id] \in Nat
      BY DEF TypeOK
    <3> QED
      BY <1>1, <3>1 DEF Listed, xdg_app_db_list_ids_by_app
  <2>2. id \in Listed(app) <=>
           \/ id \in app_additions[app]
           \/ id \notin app_removals[app] /\ app_table[app][id] > 0
    BY ListedIff DEF IInv
  <2> QED
    BY <1>1, <1>2, <2>1, <2>2 DEF update_app_ids, IInv, TypeOK
<1>6. ASSUME NEW app \in Apps, NEW other \in Ids \ {id}
      PROVE  (other \in Listed(app))' <=> other \in Listed(app)
  BY <1>1 DEF update_app_ids, Listed, xdg_app_db_list_ids_by_app, IInv, TypeOK
<1>7. ASSUME NEW app \in Apps, NEW x \in Ids
      PROVE  (x \in Listed(app) <=> app \in AppsOf(xdg_app_db_lookup(x)))'
  <2>1. CASE x = id
    BY <1>3, <1>5, <2>1 DEF new, AppsOf, xdg_app_db_entry_list_apps
  <2>2. CASE x # id
    BY <1>4, <1>6, <2>2 DEF IInv, IndexConsistent, AppsOf, xdg_app_db_entry_list_apps
  <2> QED
    BY <2>1, <2>2
<1> QED
  BY <1>7 DEF IndexConsistent

\* An app is listed exactly when its list of ids is not empty.
LEMMA ListAppsIff ==
  ASSUME TypeOK
  PROVE  ListAppsExact
<1>1. ASSUME NEW app \in Apps
      PROVE  app \in xdg_app_db_list_apps <=> \E id \in Ids : id \in Listed(app)
  BY <1>1, ListedIff DEF xdg_app_db_list_apps, TypeOK
<1>2. \A app \in Apps : Listed(app) \subseteq Ids
  BY DEF Listed
<1>3. xdg_app_db_list_apps \subseteq Apps
  BY DEF xdg_app_db_list_apps
<1> QED
  BY <1>1, <1>2, <1>3 DEF ListAppsExact

\* update writes the index and the entries of one and the same map.
LEMMA UpdateCoherent ==
  ASSUME IInv, xdg_app_db_update
  PROVE  /\ Coherent(gvdb_contents')
         /\ gvdb_contents' # NULL
         /\ \A id \in Ids : gvdb_contents'.main[id] = xdg_app_db_lookup(id)
<1>1. \A id \in Ids : gvdb_contents'.main[id] = xdg_app_db_lookup(id)
  BY ListIdsIff DEF xdg_app_db_update, IInv
<1>2. ASSUME NEW app \in Apps, NEW id \in Ids
      PROVE  gvdb_contents'.apps[app][id] > 0 <=> id \in Listed(app)
  <2>1. CASE app \in xdg_app_db_list_apps
    BY <2>1 DEF xdg_app_db_update, Listed, xdg_app_db_list_ids_by_app
  <2>2. CASE app \notin xdg_app_db_list_apps
    <3>1. id \notin Listed(app)
      BY <2>2, ListAppsIff DEF IInv, ListAppsExact
    <3>2. gvdb_contents'.apps[app][id] = 0
      BY <2>2 DEF xdg_app_db_update
    <3> QED
      BY <3>1, <3>2
  <2> QED
    BY <2>1, <2>2
<1>3. gvdb_contents' # NULL
  BY UpdateContentsType, MarkersAssumption DEF IInv
<1> QED
  BY <1>1, <1>2, <1>3 DEF Coherent, IInv, IndexConsistent

\* Opening a coherent file gives a consistent index.
LEMMA OpenConsistent ==
  ASSUME TypeOK, TypeOK', NEW contents \in Contents \cup {NULL},
         Coherent(contents), OpenTables(contents)
  PROVE  /\ IndexConsistent'
         /\ \A id \in Ids : xdg_app_db_lookup(id)' =
                              IF contents = NULL THEN NULL ELSE contents.main[id]
<1>1. \A id \in Ids : xdg_app_db_lookup(id)' = main_table'[id]
  BY DEF OpenTables, xdg_app_db_lookup
<1>2. \A id \in Ids : main_table'[id] = IF contents = NULL THEN NULL ELSE contents.main[id]
  BY DEF OpenTables
<1>3. ASSUME NEW app \in Apps, NEW id \in Ids
      PROVE  (id \in Listed(app))' <=> app_table'[app][id] > 0
  <2>1. app_table'[app][id] \in Nat
    BY DEF TypeOK
  <2> QED
    BY <2>1 DEF OpenTables, Listed, xdg_app_db_list_ids_by_app
<1>4. ASSUME NEW app \in Apps, NEW id \in Ids
      PROVE  app_table'[app][id] > 0 <=> app \in AppsOf(main_table'[id])
  <2>1. CASE contents = NULL
    BY <2>1 DEF OpenTables, AppsOf
  <2>2. CASE contents # NULL
    BY <2>2 DEF OpenTables, Coherent
  <2> QED
    BY <2>1, <2>2
<1>5. ASSUME NEW app \in Apps, NEW id \in Ids
      PROVE  (id \in Listed(app) <=> app \in AppsOf(xdg_app_db_lookup(id)))'
  BY <1>1, <1>3, <1>4 DEF AppsOf, xdg_app_db_entry_list_apps
<1> QED
  BY <1>1, <1>2, <1>5 DEF IndexConsistent

\* Queries depend on the tables only.
LEMMA QueriesUnchanged ==
  ASSUME UNCHANGED <<tables, overlay>>
  PROVE  /\ \A id \in Ids : xdg_app_db_lookup(id)' = xdg_app_db_lookup(id)
         /\ \A app \in Apps : Listed(app)' = Listed(app)
         /\ IndexConsistent' <=> IndexConsistent
BY DEF tables, overlay, xdg_app_db_lookup, Listed, xdg_app_db_list_ids_by_app,
       IndexConsistent, AppsOf, xdg_app_db_entry_list_apps

LEMMA InvInit == Init => IInv
<1> SUFFICES ASSUME Init PROVE IInv
  OBVIOUS
<1>1. TypeOK
  BY TypeInit
<1>2. ContentsCoherent
  BY DEF Init, ContentsCoherent, Coherent
<1>3. IndexConsistent
  <2>1. \A app \in Apps, id \in Ids : ~(app_table[app][id] > 0)
    <3>1. \A app \in Apps, id \in Ids : app_table[app][id] = 0
      BY DEF Init
    <3> QED
      BY <3>1
  <2>2. \A app \in Apps, id \in Ids : id \notin Listed(app)
    BY <1>1, <2>1, ListedIff DEF Init
  <2>3. \A id \in Ids : xdg_app_db_lookup(id) = NULL
    BY DEF Init, xdg_app_db_lookup
  <2> QED
    BY <2>2, <2>3 DEF IndexConsistent, AppsOf
<1> QED
  BY <1>1, <1>2, <1>3 DEF IInv

LEMMA InvStep ==
  ASSUME IInv, [Next]_vars
  PROVE  IInv'
<1>1. TypeOK'
  BY TypeStep DEF IInv
<1>2. CASE initable_init
  <2>1. file \in Contents \cup {NULL} /\ Coherent(file)
    BY DEF IInv, TypeOK, ContentsCoherent
  <2>2. OpenTables(file) /\ UNCHANGED file
    BY <1>2 DEF initable_init
  <2>3. IndexConsistent'
    BY <1>1, <2>1, <2>2, OpenConsistent DEF IInv
  <2>4. ContentsCoherent'
    BY <2>1, <2>2 DEF OpenTables, ContentsCoherent, Coherent, AppsOf, xdg_app_db_entry_list_apps
  <2> QED
    BY <1>1, <2>3, <2>4 DEF IInv
<1>3. ASSUME NEW id \in Ids, NEW entry \in Entry \cup {NULL},
             xdg_app_db_set_entry(id, entry)
      PROVE  IInv'
  <2>1. IndexConsistent'
    BY <1>1, <1>3, SetEntryKeepsIndex
  <2>2. ContentsCoherent'
    BY <1>3 DEF IInv, xdg_app_db_set_entry, ContentsCoherent, Coherent, AppsOf,
                xdg_app_db_entry_list_apps
  <2> QED
    BY <1>1, <2>1, <2>2 DEF IInv
<1>4. CASE xdg_app_db_update
  <2>1. IndexConsistent'
    BY <1>4, QueriesUnchanged DEF IInv, xdg_app_db_update
  <2>2. ContentsCoherent'
    BY <1>4, UpdateCoherent DEF IInv, xdg_app_db_update, ContentsCoherent, Coherent, AppsOf,
                                xdg_app_db_entry_list_apps
  <2> QED
    BY <1>1, <2>1, <2>2 DEF IInv
<1>5. CASE xdg_app_db_save_content
  <2>1. IndexConsistent'
    BY <1>5, QueriesUnchanged DEF IInv, xdg_app_db_save_content
  <2>2. ContentsCoherent'
    BY <1>5 DEF IInv, xdg_app_db_save_content, ContentsCoherent, Coherent, AppsOf,
                xdg_app_db_entry_list_apps
  <2> QED
    BY <1>1, <2>1, <2>2 DEF IInv
<1>6. CASE UNCHANGED vars
  <2>1. IndexConsistent'
    BY <1>6, QueriesUnchanged DEF IInv, vars
  <2>2. UNCHANGED <<gvdb_contents, file>>
    BY <1>6 DEF vars
  <2>3. ContentsCoherent'
    BY <2>2 DEF IInv, ContentsCoherent, Coherent, AppsOf, xdg_app_db_entry_list_apps
  <2> QED
    BY <1>1, <2>1, <2>3 DEF IInv
<1> QED
  BY <1>2, <1>3, <1>4, <1>5, <1>6 DEF Next

\* The reverse index never disagrees with the entries: not after any sequence
\* of changes, serializations, saves and restarts.
THEOREM IndexAlwaysConsistent == Spec => []IndexConsistent
<1>1. IInv => IndexConsistent
  BY DEF IInv
<1> QED
  BY <1>1, InvInit, InvStep, PTL DEF Spec

\* Every serialized copy and every file pairs a map with its own index.
THEOREM FilesCoherent == Spec => []ContentsCoherent
<1>1. IInv => ContentsCoherent
  BY DEF IInv
<1> QED
  BY <1>1, InvInit, InvStep, PTL DEF Spec

\* The assertion of xdg_app_db_update never fails, and it writes every list.
THEOREM ListedAppsHaveIds == Spec => []ListAppsExact
<1>1. IInv => ListAppsExact
  BY ListAppsIff DEF IInv
<1> QED
  BY <1>1, InvInit, InvStep, PTL DEF Spec

-----------------------------------------------------------------------------
(* Clean means serialized, and the refinement of the abstract database.    *)

Clean == IInv /\ CleanIsSerialized

LEMMA CleanInit == Init => Clean
BY InvInit DEF Clean, CleanIsSerialized, Init, xdg_app_db_lookup

LEMMA CleanStep ==
  ASSUME Clean, [Next]_vars
  PROVE  Clean'
<1>1. IInv' /\ IInv
  BY InvStep DEF Clean
<1>2. CASE initable_init
  <2>1. file \in Contents \cup {NULL} /\ Coherent(file) /\ OpenTables(file)
    BY <1>1, <1>2 DEF IInv, TypeOK, ContentsCoherent, initable_init
  <2>2. gvdb_contents' = file
    BY <2>1 DEF OpenTables
  <2>3. \A id \in Ids : xdg_app_db_lookup(id)' = IF file = NULL THEN NULL ELSE file.main[id]
    BY <1>1, <2>1, OpenConsistent DEF IInv
  <2> QED
    BY <1>1, <2>2, <2>3 DEF Clean, CleanIsSerialized
<1>3. ASSUME NEW id \in Ids, NEW entry \in Entry \cup {NULL},
             xdg_app_db_set_entry(id, entry)
      PROVE  Clean'
  BY <1>1, <1>3 DEF Clean, CleanIsSerialized, xdg_app_db_set_entry
<1>4. CASE xdg_app_db_update
  <2>1. \A id \in Ids : xdg_app_db_lookup(id)' = xdg_app_db_lookup(id)
    BY <1>4, QueriesUnchanged DEF xdg_app_db_update
  <2> QED
    BY <1>1, <1>4, <2>1, UpdateCoherent DEF Clean, CleanIsSerialized
<1>5. CASE xdg_app_db_save_content
  <2>1. \A id \in Ids : xdg_app_db_lookup(id)' = xdg_app_db_lookup(id)
    BY <1>5, QueriesUnchanged DEF xdg_app_db_save_content
  <2> QED
    BY <1>1, <1>5, <2>1 DEF Clean, CleanIsSerialized, xdg_app_db_save_content
<1>6. CASE UNCHANGED vars
  <2>1. \A id \in Ids : xdg_app_db_lookup(id)' = xdg_app_db_lookup(id)
    BY <1>6, QueriesUnchanged DEF vars
  <2>2. UNCHANGED <<dirty, gvdb_contents>>
    BY <1>6 DEF vars
  <2> QED
    BY <1>1, <2>1, <2>2 DEF Clean, CleanIsSerialized
<1> QED
  BY <1>2, <1>3, <1>4, <1>5, <1>6 DEF Next

\* A database that is not dirty has nothing left to serialize.
THEOREM CleanAlwaysSerialized == Spec => []CleanIsSerialized
<1>1. Clean => CleanIsSerialized
  BY DEF Clean
<1> QED
  BY <1>1, CleanInit, CleanStep, PTL DEF Spec

-----------------------------------------------------------------------------
AMap == [id \in Ids |-> xdg_app_db_lookup(id)]
AIndex == [app \in Apps |-> Listed(app)]

\* With a consistent index, the mapped index is the one of the mapped map.
LEMMA MappedIndex == IndexConsistent => AIndex = Abstract!IndexOf(AMap)
<1> SUFFICES ASSUME IndexConsistent PROVE AIndex = Abstract!IndexOf(AMap)
  OBVIOUS
<1>1. ASSUME NEW app \in Apps
      PROVE  Listed(app) = {id \in Ids : app \in Abstract!AppsOf(AMap[id])}
  <2>1. \A id \in Ids : Abstract!AppsOf(AMap[id]) = AppsOf(xdg_app_db_lookup(id))
    BY DEF Abstract!AppsOf, AppsOf, xdg_app_db_entry_list_apps, AMap
  <2>2. Listed(app) \subseteq Ids
    BY DEF Listed
  <2> QED
    BY <2>1, <2>2 DEF IndexConsistent
<1> QED
  BY <1>1 DEF AIndex, Abstract!IndexOf

LEMMA RefineInit == Init => Abstract!Init
<1> SUFFICES ASSUME Init PROVE Abstract!Init
  OBVIOUS
<1>1. AMap = Abstract!EmptyMap
  BY DEF Init, AMap, Abstract!EmptyMap, xdg_app_db_lookup
<1>2. AIndex = Abstract!IndexOf(Abstract!EmptyMap)
  BY <1>1, InvInit, MappedIndex DEF IInv
<1>3. MainOf(gvdb_contents) = NULL /\ MainOf(file) = NULL
  BY DEF Init, MainOf
<1> QED
  BY <1>1, <1>2, <1>3 DEF Abstract!Init, AMap, AIndex

\* Every step of the overlay is a step of the map, or a stutter of it.
LEMMA RefineStep ==
  ASSUME IInv, [Next]_vars
  PROVE  [Abstract!Next]_(Abstract!vars)
<1>1. IndexConsistent'
  BY InvStep DEF IInv
<1>2. AIndex' = Abstract!IndexOf(AMap)'
  <2>1. (IndexConsistent => AIndex = Abstract!IndexOf(AMap))'
    BY MappedIndex, PTL
  <2> QED
    BY <1>1, <2>1
<1>3. CASE initable_init
  <2>1. file \in Contents \cup {NULL} /\ Coherent(file) /\ OpenTables(file)
    BY <1>3 DEF IInv, TypeOK, ContentsCoherent, initable_init
  <2>2. AMap' = Abstract!MapOf(MainOf(file))
    <3>1. \A id \in Ids : xdg_app_db_lookup(id)' = IF file = NULL THEN NULL ELSE file.main[id]
      BY <2>1, TypeStep, OpenConsistent DEF IInv
    <3>2. file # NULL => file.main \in [Ids -> Entry \cup {NULL}]
      BY <2>1 DEF Contents
    <3>3. file # NULL => file.main # NULL
      BY <3>2, MarkersAssumption
    <3>4. CASE file = NULL
      BY <3>1, <3>4 DEF AMap, MainOf, Abstract!MapOf, Abstract!EmptyMap
    <3>5. CASE file # NULL
      <4>1. AMap' = [id \in Ids |-> file.main[id]]
        BY <3>1, <3>5 DEF AMap
      <4>2. AMap' = file.main
        BY <3>2, <3>5, <4>1
      <4> QED
        BY <3>3, <3>5, <4>2 DEF MainOf, Abstract!MapOf
    <3> QED
      BY <3>4, <3>5
  <2>3. MainOf(gvdb_contents)' = MainOf(file) /\ MainOf(file)' = MainOf(file)
    BY <1>3, <2>1 DEF initable_init, OpenTables, MainOf
  <2>4. Abstract!Open
    BY <1>2, <2>2, <2>3 DEF Abstract!Open, AMap, AIndex
  <2> QED
    BY <2>4 DEF Abstract!Next
<1>4. ASSUME NEW id \in Ids, NEW entry \in Entry \cup {NULL},
             xdg_app_db_set_entry(id, entry)
      PROVE  Abstract!Set(id, entry)
  <2>1. AMap' = [AMap EXCEPT ![id] = entry]
    BY <1>4, MarkersAssumption DEF xdg_app_db_set_entry, AMap, xdg_app_db_lookup, IInv, TypeOK, tables
  <2>2. MainOf(gvdb_contents)' = MainOf(gvdb_contents) /\ MainOf(file)' = MainOf(file)
    BY <1>4 DEF xdg_app_db_set_entry, MainOf
  <2> QED
    BY <1>2, <2>1, <2>2 DEF Abstract!Set, AMap, AIndex
<1>5. CASE xdg_app_db_update
  <2>1. AMap' = AMap /\ AIndex' = AIndex
    BY <1>5, QueriesUnchanged DEF xdg_app_db_update, AMap, AIndex
  <2>2. MainOf(gvdb_contents)' = AMap /\ MainOf(file)' = MainOf(file)
    <3>1. gvdb_contents' \in Contents /\ gvdb_contents' # NULL
      BY <1>5, UpdateContentsType, MarkersAssumption DEF IInv
    <3>2. \A id \in Ids : gvdb_contents'.main[id] = xdg_app_db_lookup(id)
      BY <1>5, UpdateCoherent
    <3>3. gvdb_contents'.main = AMap
      BY <3>1, <3>2 DEF Contents, AMap
    <3> QED
      BY <1>5, <3>1, <3>3 DEF MainOf, xdg_app_db_update
  <2>3. Abstract!Serialize
    BY <2>1, <2>2 DEF Abstract!Serialize, AMap, AIndex
  <2> QED
    BY <2>3 DEF Abstract!Next
<1>6. CASE xdg_app_db_save_content
  <2>1. AMap' = AMap /\ AIndex' = AIndex
    BY <1>6, QueriesUnchanged DEF xdg_app_db_save_content, AMap, AIndex
  <2>2. /\ MainOf(gvdb_contents) # NULL
        /\ MainOf(file)' = MainOf(gvdb_contents)
        /\ MainOf(gvdb_contents)' = MainOf(gvdb_contents)
    <3>1. gvdb_contents \in Contents /\ gvdb_contents # NULL
      BY <1>6 DEF xdg_app_db_save_content, IInv, TypeOK
    <3>2. gvdb_contents.main # NULL
      BY <3>1, MarkersAssumption DEF Contents
    <3> QED
      BY <1>6, <3>1, <3>2 DEF xdg_app_db_save_content, MainOf
  <2>3. Abstract!Save
    BY <2>1, <2>2 DEF Abstract!Save, AMap, AIndex
  <2> QED
    BY <2>3 DEF Abstract!Next
<1>7. CASE UNCHANGED vars
  <2>1. AMap' = AMap /\ AIndex' = AIndex
    BY <1>7, QueriesUnchanged DEF vars, AMap, AIndex
  <2>2. MainOf(gvdb_contents)' = MainOf(gvdb_contents) /\ MainOf(file)' = MainOf(file)
    BY <1>7 DEF vars, MainOf
  <2> QED
    BY <2>1, <2>2 DEF Abstract!vars, AMap, AIndex
<1>8. CASE \E id \in Ids, entry \in Entry \cup {NULL} : xdg_app_db_set_entry(id, entry)
  <2>1. PICK id \in Ids, entry \in Entry \cup {NULL} : xdg_app_db_set_entry(id, entry)
    BY <1>8
  <2>2. Abstract!Set(id, entry)
    BY <1>4, <2>1
  <2> QED
    BY <2>1, <2>2 DEF Abstract!Next, Abstract!Entry, Entry
<1> QED
  BY <1>3, <1>5, <1>6, <1>7, <1>8 DEF Next

\* The overlay tables implement a plain map with its reverse index.
THEOREM OverlayImplementsMap == Spec => ImplementsAbstractDb
<1>1. Init /\ [][Next]_vars => []IInv
  BY InvInit, InvStep, PTL
<1> QED
  BY <1>1, RefineInit, RefineStep, PTL DEF Spec, ImplementsAbstractDb, Abstract!Spec
=============================================================================
