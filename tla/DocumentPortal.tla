--------------------------- MODULE DocumentPortal ---------------------------
(***************************************************************************)
(* document-portal/xdp-main.c with the permission store and the file they  *)
(* share.  The portal reads the file once, when it starts, and then keeps  *)
(* its own database: a request changes that database, is answered, and     *)
(* leaves a call to the permission store that nobody waits for.  The store *)
(* applies the calls in the order they were sent and saves its database.   *)
(*                                                                         *)
(* The two databases are the maps of AbstractDb; the store is the service  *)
(* of PermissionStore, without the answers, which the portal ignores.      *)
(* What a request does to the FUSE file system is in the XdpFuse modules.  *)
(***************************************************************************)
EXTENDS Naturals, Sequences, FiniteSets

CONSTANTS Docs,       \* document ids; the program draws from 2^32 of them
          Apps,       \* sandboxed applications
          Host,       \* the caller that is not sandboxed, app id ""
          Paths,      \* files outside the portal
          PermArgs,   \* permission sets callers pass to grant and revoke
          MaxRequests,\* bound on the requests of a behaviour
          NULL

Perms == {"read", "write", "grant-permissions", "delete"}
Callers == Apps \cup {Host}

\* The data of an entry: the path and the two flags.
Data == [path : Paths, unique : BOOLEAN, transient : BOOLEAN]
Entry == [data : Data, permissions : [Apps -> SUBSET Perms]]
Map == [Docs -> Entry \cup {NULL}]

ASSUME HostAssumption == Host \notin Apps
ASSUME PermArgsAssumption == PermArgs \subseteq SUBSET Perms
ASSUME MaxRequestsAssumption == MaxRequests \in Nat
ASSUME NullAssumption == NULL \notin Entry \cup Map

\* The calls the portal makes to the store.
Message ==
  [op : {"set"}, doc : Docs, data : Data]
    \cup [op : {"set_permission"}, doc : Docs, app : Apps, permissions : SUBSET Perms]
    \cup [op : {"delete"}, doc : Docs]

VARIABLES
  running,     \* whether the portal process runs
  db,          \* its database
  calls,       \* calls sent to the store and not handled yet
  store,       \* the database of the store
  saving,      \* what the store is writing, NULL if nothing
  outstanding, \* whether calls came in since
  file,        \* the database file
  \* Auxiliary: the request carried out in the last step, how many were,
  \* which permissions an Add or a successful grant ever gave, and whether no
  \* call, change or save was lost.
  last, requests, granted, clean

service == <<store, saving, outstanding, file>>
vars == <<running, db, calls, service, last, requests, granted, clean>>

EmptyMap == [doc \in Docs |-> NULL]
MapOf(contents) == IF contents = NULL THEN EmptyMap ELSE contents
NoPermissions == [app \in Apps |-> {}]
NoRequest == [op |-> "none", caller |-> Host, doc |-> NULL]

Init ==
  /\ running = FALSE
  /\ db = EmptyMap
  /\ calls = <<>>
  /\ store = EmptyMap
  /\ saving = NULL
  /\ outstanding = FALSE
  /\ file = NULL
  /\ last = NoRequest
  /\ requests = 0
  /\ granted = [doc \in Docs |-> NoPermissions]
  /\ clean = TRUE

-----------------------------------------------------------------------------
(* Entries.                                                                *)

\* The host has every permission.
xdp_entry_get_permissions(entry, caller) ==
  IF caller = Host THEN Perms ELSE entry.permissions[caller]

xdp_entry_has_permissions(entry, caller, perms) ==
  perms \subseteq xdp_entry_get_permissions(entry, caller)

persist_entry(entry) == ~entry.data.transient

SetAppPermissions(entry, app, perms) == [entry EXCEPT !.permissions[app] = perms]

-----------------------------------------------------------------------------
(* Requests.  A handler runs in the main loop with the db lock held.       *)

\* A request that is answered and changes nothing.
Refuse ==
  /\ last' = NoRequest
  /\ UNCHANGED <<db, calls, granted, requests>>

\* A request that is carried out; MaxRequests bounds these.
Accept(op, caller, doc) ==
  /\ last' = [op |-> op, caller |-> caller, doc |-> doc]
  /\ requests' = requests + 1

\* A request touches nothing of the store.
Request ==
  /\ running
  /\ requests < MaxRequests
  /\ UNCHANGED <<running, service, clean>>

\* The call do_set_permissions makes for an entry that persists.
PermissionCall(entry, doc, app, perms) ==
  IF persist_entry(entry)
  THEN <<[op |-> "set_permission", doc |-> doc, app |-> app, permissions |-> perms]>>
  ELSE <<>>

do_set_permissions(entry, doc, app, perms) ==
  /\ db' = [db EXCEPT ![doc] = SetAppPermissions(entry, app, perms)]
  /\ calls' = calls \o PermissionCall(entry, doc, app, perms)

\* MUTANT of portal_grant_permissions: whoever may grant may grant anything.
GrantsAnything(caller, doc, target, perms) ==
  LET entry == db[doc]
      allowed == xdp_entry_has_permissions(entry, caller, {"grant-permissions"})
  IN /\ Request
     /\ IF entry = NULL THEN Refuse
        ELSE IF ~allowed THEN Refuse
        ELSE /\ do_set_permissions(entry, doc, target,
                                   perms \cup xdp_entry_get_permissions(entry, target))
             /\ granted' = [granted EXCEPT ![doc][target] = @ \cup perms]
             /\ Accept("grant", caller, doc)

\* Must have grant-permissions and all the newly granted permissions; the
\* target gets them in addition to those it has.
portal_grant_permissions(caller, doc, target, perms) ==
  LET entry == db[doc]
      allowed == xdp_entry_has_permissions(entry, caller, {"grant-permissions"} \cup perms)
  IN /\ Request
     /\ IF entry = NULL THEN Refuse
        ELSE IF ~allowed THEN Refuse
        ELSE /\ do_set_permissions(entry, doc, target,
                                   perms \cup xdp_entry_get_permissions(entry, target))
             /\ granted' = [granted EXCEPT ![doc][target] = @ \cup perms]
             /\ Accept("grant", caller, doc)

\* MUTANT of portal_revoke_permissions: sets the complement of the argument.
RevokeSetsComplement(caller, doc, target, perms) ==
  LET entry == db[doc]
      allowed == /\ xdp_entry_has_permissions(entry, caller, {"grant-permissions"})
                 /\ caller # target
  IN /\ Request
     /\ IF entry = NULL THEN Refuse
        ELSE IF ~allowed THEN Refuse
        ELSE /\ do_set_permissions(entry, doc, target, Perms \ perms)
             /\ UNCHANGED granted
             /\ Accept("revoke", caller, doc)

\* Needs grant-permissions, and refuses a caller that names itself (the comment
\* in the code says the opposite).
portal_revoke_permissions(caller, doc, target, perms) ==
  LET entry == db[doc]
      allowed == /\ xdp_entry_has_permissions(entry, caller, {"grant-permissions"})
                 /\ caller # target
  IN /\ Request
     /\ IF entry = NULL THEN Refuse
        ELSE IF ~allowed THEN Refuse
        ELSE /\ do_set_permissions(entry, doc, target,
                                   xdp_entry_get_permissions(entry, target) \ perms)
             /\ UNCHANGED granted
             /\ Accept("revoke", caller, doc)

\* MUTANT of portal_delete: the store is not told.
DeleteForgetsStore(caller, doc) ==
  LET entry == db[doc]
  IN /\ Request
     /\ IF entry = NULL THEN Refuse
        ELSE IF ~xdp_entry_has_permissions(entry, caller, {"delete"})
        THEN Refuse
        ELSE /\ db' = [db EXCEPT ![doc] = NULL]
             /\ UNCHANGED <<calls, granted>>
             /\ Accept("delete", caller, doc)

portal_delete(caller, doc) ==
  LET entry == db[doc]
  IN /\ Request
     /\ IF entry = NULL THEN Refuse
        ELSE IF ~xdp_entry_has_permissions(entry, caller, {"delete"})
        THEN Refuse
        ELSE /\ db' = [db EXCEPT ![doc] = NULL]
             /\ calls' = calls \o IF persist_entry(entry) THEN <<[op |-> "delete", doc |-> doc]>>
                                  ELSE <<>>
             /\ UNCHANGED granted
             /\ Accept("delete", caller, doc)

\* xdg_app_db_list_ids_by_value: the flags are part of the data.
xdg_app_db_list_ids_by_value(data) == {doc \in Docs : db[doc] # NULL /\ db[doc].data = data}

FreeIds == {doc \in Docs : db[doc] = NULL}

\* MUTANT of do_create_doc: never looks for an entry to use again.
NeverReuses(data) == FreeIds

\* The ids do_create_doc may return: an entry with the same data unless the
\* document is unique, else any id that is not in use.
do_create_doc(data) ==
  IF ~data.unique /\ xdg_app_db_list_ids_by_value(data) # {}
  THEN xdg_app_db_list_ids_by_value(data)
  ELSE FreeIds

\* The call do_create_doc makes for a new document that persists.
CreateCall(doc, data) ==
  IF data.transient THEN <<>> ELSE <<[op |-> "set", doc |-> doc, data |-> data]>>

\* What the app that adds a document gets on it, in place of what it had.
CreatorPermissions(unique) ==
  {"read", "write", "grant-permissions"} \cup IF unique THEN {"delete"} ELSE {}

portal_add(caller, path, reuse_existing, persistent) ==
  LET data == [path |-> path, unique |-> ~reuse_existing, transient |-> ~persistent]
      perms == CreatorPermissions(data.unique)
  IN /\ Request
     /\ \E doc \in do_create_doc(data) :
          LET created == db[doc] = NULL
              entry == IF created THEN [data |-> data, permissions |-> NoPermissions] ELSE db[doc]
              set == IF created THEN CreateCall(doc, data) ELSE <<>>
          IN /\ IF caller = Host
                THEN /\ db' = [db EXCEPT ![doc] = entry]
                     /\ calls' = calls \o set
                     /\ UNCHANGED granted
                ELSE /\ db' = [db EXCEPT ![doc] = SetAppPermissions(entry, caller, perms)]
                     /\ calls' = calls \o set \o PermissionCall(entry, doc, caller, perms)
                     /\ granted' = [granted EXCEPT ![doc][caller] = @ \cup perms]
             /\ Accept("add", caller, doc)

\* An fd that is a file of the portal itself: the answer is the id it has, or
\* an error, and no document is made.
portal_add_on_fuse == Request /\ Refuse

-----------------------------------------------------------------------------
(* The store.                                                              *)

\* The map after the store has handled a call.
Handled(m, call) ==
  CASE call.op = "set" ->
         [m EXCEPT ![call.doc] = [data |-> call.data, permissions |-> NoPermissions]]
    [] call.op = "set_permission" /\ m[call.doc] # NULL ->
         [m EXCEPT ![call.doc] = SetAppPermissions(@, call.app, call.permissions)]
    [] call.op = "delete" ->
         [m EXCEPT ![call.doc] = NULL]
    [] OTHER -> m

\* One call; a change joins the next save, which starts if none runs.  A
\* call for an entry that is not there is answered with an error.
StoreHandles ==
  LET m == Handled(store, Head(calls))
      found == store[Head(calls).doc] # NULL \/ Head(calls).op = "set"
  IN /\ calls # <<>>
     /\ calls' = Tail(calls)
     /\ store' = m
     /\ saving' = IF found /\ saving = NULL THEN m ELSE saving
     /\ outstanding' = (outstanding \/ (found /\ saving # NULL))
     /\ last' = NoRequest
     /\ UNCHANGED <<running, db, file, requests, granted, clean>>

\* MUTANT of AfterSave: the changes made during the save stay unsaved.
AfterSaveStops ==
  /\ saving' = NULL
  /\ last' = NoRequest
  /\ UNCHANGED <<running, db, calls, store, outstanding, requests, granted>>

\* The end of a save, and the next one if changes were made meanwhile.
AfterSave ==
  /\ saving' = IF outstanding THEN store ELSE NULL
  /\ outstanding' = FALSE
  /\ last' = NoRequest
  /\ UNCHANGED <<running, db, calls, store, requests, granted>>

StoreSaved ==
  /\ saving # NULL
  /\ file' = saving
  /\ AfterSave
  /\ UNCHANGED clean

-----------------------------------------------------------------------------
(* Failures.                                                               *)

StoreSaveFails ==
  /\ saving # NULL
  /\ clean' = FALSE
  /\ AfterSave
  /\ UNCHANGED file

\* The store process ends: unsaved changes and calls it had received are
\* gone.  The bus starts it again for the next call, and it reads the file.
StoreExits ==
  /\ \E n \in 0..Len(calls) : calls' = SubSeq(calls, n + 1, Len(calls))
  /\ store' = MapOf(file)
  /\ saving' = NULL
  /\ outstanding' = FALSE
  /\ clean' = (clean /\ calls = <<>> /\ saving = NULL)
  /\ last' = NoRequest
  /\ UNCHANGED <<running, db, file, requests, granted>>

\* The portal process ends, and may not have sent its last calls.
PortalExits ==
  /\ running
  /\ running' = FALSE
  /\ \E n \in 0..Len(calls) : calls' = SubSeq(calls, 1, n)
  /\ clean' = (clean /\ calls = <<>> /\ saving = NULL)
  /\ last' = NoRequest
  /\ UNCHANGED <<db, service, requests, granted>>

\* main: the portal loads the file, not asking the store.
PortalStarts ==
  /\ ~running
  /\ running' = TRUE
  /\ db' = MapOf(file)
  /\ last' = NoRequest
  /\ UNCHANGED <<calls, service, requests, granted, clean>>

Handle(caller) ==
  \/ \E path \in Paths, reuse_existing, persistent \in BOOLEAN :
       portal_add(caller, path, reuse_existing, persistent)
  \/ \E doc \in Docs :
       \/ portal_add_on_fuse
       \/ portal_delete(caller, doc)
       \/ \E target \in Apps, perms \in PermArgs :
            \/ portal_grant_permissions(caller, doc, target, perms)
            \/ portal_revoke_permissions(caller, doc, target, perms)

Store == StoreHandles \/ StoreSaved \/ StoreSaveFails \/ StoreExits

Next ==
  \/ \E caller \in Callers : Handle(caller)
  \/ Store
  \/ PortalExits \/ PortalStarts

Spec == Init /\ [][Next]_vars

\* The bus delivers the calls and the store handles them; a save that was
\* started ends, and FileCatchesUp gives up on one that fails.
FairSpec == Spec /\ WF_vars(StoreHandles) /\ WF_vars(StoreSaved)

-----------------------------------------------------------------------------
(* Properties.                                                             *)

\* The variables have their types; nothing is left for a save that does not
\* run.
TypeOK ==
  /\ running \in BOOLEAN
  /\ db \in Map
  /\ calls \in Seq(Message)
  /\ store \in Map
  /\ saving \in Map \cup {NULL}
  /\ outstanding \in BOOLEAN
  /\ outstanding => saving # NULL
  /\ file \in Map \cup {NULL}
  /\ requests \in 0..MaxRequests
  /\ granted \in [Docs -> [Apps -> SUBSET Perms]]
  /\ clean \in BOOLEAN

\* The permissions of a map were all given by an Add or an allowed grant.
OnlyGranted(m) ==
  \A doc \in Docs, app \in Apps :
    m[doc] # NULL => m[doc].permissions[app] \subseteq granted[doc][app]

\* No app ever holds a permission that nobody gave it, in the portal or in
\* the store or in the file, whatever is lost when processes end.
NoInventedPermission ==
  /\ OnlyGranted(db) /\ OnlyGranted(store)
  /\ OnlyGranted(MapOf(saving)) /\ OnlyGranted(MapOf(file))
  /\ \A i \in 1..Len(calls) :
       calls[i].op = "set_permission" =>
         calls[i].permissions \subseteq granted[calls[i].doc][calls[i].app]

\* What an app gains in a step, other than from the file at a start, the
\* caller of that step had and was allowed to give; only the app that adds a
\* document gets more than that, and only on its own request.
GainsAreAuthorised ==
  [][\A doc \in Docs, app \in Apps :
       LET before == IF db[doc] = NULL THEN {} ELSE db[doc].permissions[app]
           gained == IF db'[doc] = NULL THEN {} ELSE db'[doc].permissions[app] \ before
       IN (gained # {} /\ running) =>
            \/ last'.caller = Host
            \/ last'.caller = app /\ last'.op = "add" /\ last'.doc = doc
            \/ /\ db[doc] # NULL
               /\ gained \cup {"grant-permissions"} \subseteq db[doc].permissions[last'.caller]]_vars

\* A document that is not persistent never leaves the portal.
TransientStaysInPortal ==
  /\ \A m \in {store, MapOf(saving), MapOf(file)}, doc \in Docs :
       m[doc] # NULL => ~m[doc].data.transient
  /\ \A i \in 1..Len(calls) : calls[i].op = "set" => ~calls[i].data.transient

\* The documents of the portal that should outlive it.
Persistent(m) == [doc \in Docs |-> IF m[doc] # NULL /\ m[doc].data.transient THEN NULL ELSE m[doc]]

\* The map the store has once it has handled the first n calls.
AfterCalls[n \in 0..Len(calls)] ==
  IF n = 0 THEN store ELSE Handled(AfterCalls[n - 1], calls[n])

\* As long as nothing was lost, the store has, or is going to have from the
\* calls on their way, exactly the persistent documents of the portal; when
\* nothing is on its way the file has them, so a restart loses none.
StoreFollowsPortal ==
  clean =>
    /\ running => AfterCalls[Len(calls)] = Persistent(db)
    /\ saving = NULL => MapOf(file) = store

\* As long as nothing was lost, a file that is added again with
\* reuse_existing and the same persistence gets the same document.
OneSharedDocument ==
  clean => \A d1, d2 \in Docs :
    (db[d1] # NULL /\ db[d2] # NULL /\ db[d1].data = db[d2].data /\ ~db[d1].data.unique)
      => d1 = d2

\* Once changes stop, the file catches up with the portal.
FileCatchesUp ==
  clean ~> (~clean \/ ~running \/ MapOf(file) = Persistent(db))
=============================================================================
