-------------------------- MODULE PermissionStore --------------------------
(***************************************************************************)
(* session-helper/xdg-app-permission-store.c: the D-Bus service that keeps *)
(* one XdgAppDb per table and saves it asynchronously.  A call that changes *)
(* a table is answered only when a save that contains the change is over.  *)
(*                                                                         *)
(* One table: tables share nothing but the hash table they sit in.  The    *)
(* database is the map of AbstractDb, which XdgAppDb implements.  Handlers *)
(* and writeout_done run in one main loop, each without interruption; the  *)
(* file is replaced by a worker thread.  A call is issued once.  The       *)
(* specification is StoreSpec, as PendingCallProofs also extends the       *)
(* module of the lookup that answers later.                                *)
(***************************************************************************)
EXTENDS Naturals, Sequences, FiniteSets

CONSTANTS Ids, Apps, Perms,
          Values,   \* the values callers pass as data
          ByteZero, \* the data of an entry created without any
          Calls,    \* D-Bus method invocations
          NULL

ASSUME ByteZeroAssumption == ByteZero \notin Values
ASSUME CallsFinite == IsFiniteSet(Calls)

\* handle_set strips the variant around the data it is given, handle_set_value
\* does not: what it stores has one more layer.
Boxed(value) == [variant |-> value]
StoredData == Values \cup {ByteZero} \cup {Boxed(value) : value \in Values}
Entry == [data : StoredData, permissions : [Apps -> SUBSET Perms]]
Map == [Ids -> Entry \cup {NULL}]

ASSUME NullAssumption == NULL \notin Entry \cup Map

\* The answers a call can get; "new" before it is made, "lost" if the
\* process ends first.
Answers == {"new", "waiting", "done", "write error", "error", "lost"}

VARIABLES
  loaded,             \* whether the table is in the hash table
  map,                \* its db, as queries see it
  gvdb_contents,      \* the map last serialized
  outstanding_writes, \* calls for the next save
  current_writes,     \* calls for the save that runs
  writing,
  save,               \* "none", "running", "ok" or "failed": the save thread
  file,               \* the database file
  answer,             \* call -> answer
  \* Auxiliary: the changes in the order they were made, and how many of them
  \* are in gvdb_contents and in the file.
  applied, n_serialized, n_stored

db    == <<loaded, map, gvdb_contents>>
queue == <<outstanding_writes, current_writes, writing, save>>
disk  == <<file, n_stored>>
store_vars  == <<db, queue, disk, answer, applied, n_serialized>>

EmptyMap == [id \in Ids |-> NULL]
MapOf(contents) == IF contents = NULL THEN EmptyMap ELSE contents

StoreInit ==
  /\ loaded = FALSE
  /\ map = EmptyMap
  /\ gvdb_contents = NULL
  /\ outstanding_writes = {}
  /\ current_writes = {}
  /\ writing = FALSE
  /\ save = "none"
  /\ file = NULL
  /\ answer = [c \in Calls |-> "new"]
  /\ applied = <<>>
  /\ n_serialized = 0
  /\ n_stored = 0

-----------------------------------------------------------------------------
(* The save queue.                                                         *)

\* The serialized form of a map, and a save of it started.
StartSave(m, changes) ==
  /\ gvdb_contents' = m
  /\ n_serialized' = Len(changes)
  /\ writing' = TRUE
  /\ save' = "running"

\* MUTANT of ensure_writeout: joins the save that already runs.
JoinsRunningSave(c, m, changes) ==
  IF writing
  THEN /\ current_writes' = current_writes \cup {c}
       /\ UNCHANGED <<outstanding_writes, writing, save, gvdb_contents, n_serialized>>
  ELSE /\ current_writes' = {c}
       /\ outstanding_writes' = {}
       /\ StartSave(m, changes)

\* ensure_writeout, with the start_writeout it makes when nothing is being
\* written: m and changes are the map and the changes after the handler.
ensure_writeout(c, m, changes) ==
  IF writing
  THEN /\ outstanding_writes' = outstanding_writes \cup {c}
       /\ UNCHANGED <<current_writes, writing, save, gvdb_contents, n_serialized>>
  ELSE /\ current_writes' = outstanding_writes \cup {c}
       /\ outstanding_writes' = {}
       /\ StartSave(m, changes)

\* The thread replaces the file as a whole.
SaveSucceeds ==
  /\ save = "running"
  /\ save' = "ok"
  /\ file' = gvdb_contents
  /\ n_stored' = n_serialized
  /\ UNCHANGED <<db, outstanding_writes, current_writes, writing, answer, applied, n_serialized>>

SaveFails ==
  /\ save = "running"
  /\ save' = "failed"
  /\ UNCHANGED <<db, outstanding_writes, current_writes, writing, disk, answer, applied,
                 n_serialized>>

Finish(calls, outcome) ==
  answer' = [c \in Calls |-> IF c \in calls THEN outcome ELSE answer[c]]

\* MUTANT of writeout_done: does not start the save of the calls that came in
\* while it ran.
ForgetsOutstanding ==
  /\ save \in {"ok", "failed"}
  /\ Finish(current_writes, IF save = "ok" THEN "done" ELSE "write error")
  /\ current_writes' = {}
  /\ writing' = FALSE
  /\ save' = "none"
  /\ UNCHANGED <<loaded, map, gvdb_contents, outstanding_writes, disk, applied, n_serialized>>

\* MUTANT of writeout_done: ignores whether the save succeeded.
IgnoresSaveError ==
  /\ save \in {"ok", "failed"}
  /\ Finish(current_writes, "done")
  /\ current_writes' = outstanding_writes
  /\ outstanding_writes' = {}
  /\ IF outstanding_writes # {}
     THEN StartSave(map, applied)
     ELSE /\ writing' = FALSE
          /\ save' = "none"
          /\ UNCHANGED <<gvdb_contents, n_serialized>>
  /\ UNCHANGED <<loaded, map, disk, applied>>

\* The callback of the save: answers the calls it was for, then starts the
\* next one if calls came in meanwhile.
writeout_done ==
  /\ save \in {"ok", "failed"}
  /\ Finish(current_writes, IF save = "ok" THEN "done" ELSE "write error")
  /\ current_writes' = outstanding_writes
  /\ outstanding_writes' = {}
  /\ IF outstanding_writes # {}
     THEN StartSave(map, applied)
     ELSE /\ writing' = FALSE
          /\ save' = "none"
          /\ UNCHANGED <<gvdb_contents, n_serialized>>
  /\ UNCHANGED <<loaded, map, disk, applied>>

-----------------------------------------------------------------------------
(* The handlers.                                                           *)

\* MUTANT of lookup_table: a new table does not read its file.
IgnoresFile == map

\* What queries see once lookup_table has loaded the table if necessary.
lookup_table == IF loaded THEN map ELSE MapOf(file)

\* The serialized contents of a table that has just been loaded.
LoadedContents == IF loaded THEN gvdb_contents ELSE file

\* A handler that ends without a change; the table stays loaded.
Answer(c, outcome) ==
  /\ loaded' = TRUE
  /\ map' = lookup_table
  /\ gvdb_contents' = LoadedContents
  /\ answer' = [answer EXCEPT ![c] = outcome]
  /\ UNCHANGED <<queue, disk, applied, n_serialized>>

\* A handler that sets one entry and waits for the save.
Change(c, id, entry) ==
  LET m == [lookup_table EXCEPT ![id] = entry]
      changes == Append(applied, [call |-> c, id |-> id, entry |-> entry])
  IN /\ loaded' = TRUE
     /\ map' = m
     /\ applied' = changes
     /\ answer' = [answer EXCEPT ![c] = "waiting"]
     /\ ensure_writeout(c, m, changes)
     /\ UNCHANGED disk

\* lookup_table fails: the file is there but cannot be read.
LoadFails(c) ==
  /\ answer[c] = "new"
  /\ ~loaded /\ file # NULL
  /\ answer' = [answer EXCEPT ![c] = "error"]
  /\ UNCHANGED <<db, queue, disk, applied, n_serialized>>

handle_list(c) ==
  /\ answer[c] = "new"
  /\ Answer(c, "done")

handle_lookup(c, id) ==
  /\ answer[c] = "new"
  /\ Answer(c, IF lookup_table[id] = NULL THEN "error" ELSE "done")

handle_delete(c, id) ==
  /\ answer[c] = "new"
  /\ IF lookup_table[id] = NULL THEN Answer(c, "error") ELSE Change(c, id, NULL)

handle_set(c, create, id, app_permissions, value) ==
  /\ answer[c] = "new"
  /\ IF lookup_table[id] = NULL /\ ~create
     THEN Answer(c, "error")
     ELSE Change(c, id, [data |-> value, permissions |-> app_permissions])

\* xdg_app_db_entry_new (data): no app has any permission.
NewEntry(data) == [data |-> data, permissions |-> [app \in Apps |-> {}]]

handle_set_permission(c, create, id, app, permissions) ==
  LET entry == IF lookup_table[id] = NULL THEN NewEntry(ByteZero) ELSE lookup_table[id]
  IN /\ answer[c] = "new"
     /\ IF lookup_table[id] = NULL /\ ~create
        THEN Answer(c, "error")
        ELSE Change(c, id, [entry EXCEPT !.permissions[app] = permissions])

handle_set_value(c, create, id, value) ==
  LET entry == IF lookup_table[id] = NULL THEN NewEntry(ByteZero) ELSE lookup_table[id]
  IN /\ answer[c] = "new"
     /\ IF lookup_table[id] = NULL /\ ~create
        THEN Answer(c, "error")
        ELSE Change(c, id, [entry EXCEPT !.data = Boxed(value)])

\* The process ends, for instance because it loses its bus name; what was
\* not saved is gone, and callers get no answer.
Exit ==
  /\ loaded' = FALSE
  /\ map' = EmptyMap
  /\ gvdb_contents' = NULL
  /\ outstanding_writes' = {}
  /\ current_writes' = {}
  /\ writing' = FALSE
  /\ save' = "none"
  /\ answer' = [c \in Calls |-> IF answer[c] = "waiting" THEN "lost" ELSE answer[c]]
  /\ applied' = SubSeq(applied, 1, n_stored)
  /\ n_serialized' = 0
  /\ UNCHANGED disk

Handle(c) ==
  \/ LoadFails(c)
  \/ handle_list(c)
  \/ \E id \in Ids :
       \/ handle_lookup(c, id)
       \/ handle_delete(c, id)
       \/ \E create \in BOOLEAN :
            \/ \E permissions \in [Apps -> SUBSET Perms], value \in Values :
                 handle_set(c, create, id, permissions, value)
            \/ \E app \in Apps, permissions \in SUBSET Perms :
                 handle_set_permission(c, create, id, app, permissions)
            \/ \E value \in Values : handle_set_value(c, create, id, value)

StoreNext ==
  \/ \E c \in Calls : Handle(c)
  \/ SaveSucceeds \/ SaveFails
  \/ writeout_done
  \/ Exit

StoreSpec == StoreInit /\ [][StoreNext]_store_vars

\* The save thread ends, and the main loop dispatches its callback.
Fairness ==
  /\ WF_store_vars(SaveSucceeds \/ SaveFails)
  /\ WF_store_vars(writeout_done)

FairStoreSpec == StoreSpec /\ Fairness

-----------------------------------------------------------------------------
(* Properties.                                                             *)

Change_ == [call : Calls, id : Ids, entry : Entry \cup {NULL}]

\* The tables and the counters have their types, and calls wait exactly while
\* they are in one of the two queues; a save runs exactly while writing is
\* set, which is what start_writeout asserts (current_writes == NULL).
StoreTypeOK ==
  /\ loaded \in BOOLEAN
  /\ map \in Map
  /\ gvdb_contents \in Map \cup {NULL}
  /\ file \in Map \cup {NULL}
  /\ answer \in [Calls -> Answers]
  /\ outstanding_writes \cup current_writes = {c \in Calls : answer[c] = "waiting"}
  /\ outstanding_writes \cap current_writes = {}
  /\ save \in {"none", "running", "ok", "failed"}
  /\ writing \in BOOLEAN
  /\ writing <=> save # "none"
  /\ writing <=> current_writes # {}
  /\ outstanding_writes # {} => writing
  /\ writing => loaded
  /\ applied \in Seq(Change_)
  /\ n_serialized \in 0..Len(applied)
  /\ n_stored \in 0..Len(applied)

\* A call that was answered without an error after a change is in the file,
\* and stays there across later saves and crashes.
AnsweredIsDurable ==
  \A i \in 1..Len(applied) : answer[applied[i].call] = "done" => i <= n_stored

\* No change of a call that got an answer is ever lost: it stays in the
\* history of changes when the process ends.
NoAnsweredChangeLost ==
  [][\A i \in 1..Len(applied) :
       answer[applied[i].call] = "done" =>
         i <= Len(applied') /\ applied'[i] = applied[i]]_store_vars

\* The map after the first n changes.
Replay[n \in 0..Len(applied)] ==
  IF n = 0 THEN EmptyMap
  ELSE [Replay[n - 1] EXCEPT ![applied[n].id] = applied[n].entry]

\* The file is the result of a prefix of the changes, in the order in which
\* they were made, and memory the result of all of them: no change is applied
\* twice, skipped or reordered by a save, a failed save or a restart.
FileIsPrefix ==
  /\ MapOf(file) = Replay[n_stored]
  /\ loaded => map = Replay[Len(applied)]

\* Every call that waits is answered in the end, or the process ends.
EveryCallAnswered == \A c \in Calls : answer[c] = "waiting" ~> answer[c] # "waiting"
=============================================================================
