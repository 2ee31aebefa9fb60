----------------------------- MODULE XdpFuseTmp -----------------------------
(***************************************************************************)
(* The temporary files of document-portal/xdp-fuse.c: XdpTmp objects, the  *)
(* handles open on them, and the create, open, rename and unlink handlers  *)
(* that let an app write a new file next to a document and rename it over  *)
(* the document.                                                           *)
(*                                                                         *)
(* fuse_session_loop_mt runs each handler in a thread.  A step of a thread *)
(* here is what it does between two acquisitions of a lock.  The kernel    *)
(* holds the lock of the directory while create, rename and unlink wait    *)
(* for their reply; open, write, setattr and release are not serialised.   *)
(*                                                                         *)
(* One document; a view of it is the directory of one app (or the host).   *)
(* The permission of a view is fixed.  The file a tmp is created with is   *)
(* named by the tmp's id.                                                  *)
(***************************************************************************)
EXTENDS Naturals, Sequences, FiniteSets

CONSTANTS Views,    \* directories of the document, one per app
          Writers,  \* the views of apps that have the write permission
          Names,    \* names of temporary files
          Basename, \* the name of the document
          Threads,  \* FUSE worker threads
          Handles,  \* XdpFh objects
          MaxTmps,  \* bound on the XdpTmp objects created
          Faults,   \* which calls on the backing directory may fail
          NULL

ASSUME WritersAssumption == Writers \subseteq Views
ASSUME BasenameAssumption == Basename \notin Names
ASSUME FaultsAssumption == Faults \subseteq {"open_dir", "mkstemp", "renameat"}
ASSUME MaxTmpsAssumption == MaxTmps \in Nat

Original == 0
TmpIds == 1..MaxTmps
Tmp == [parent : Views, name : Names, backing : BOOLEAN]
Fh == [tmp_id : TmpIds, readonly : BOOLEAN, late : BOOLEAN]
Steps == {"idle", "create", "create_open", "create_fh", "open", "openat", "open_fh",
          "rename", "steal", "collect", "mark", "renameat", "rename_unlink", "notify",
          "unlink", "unlink_tmp"}
Call == [at : Steps, view : Views, name : Names, newname : Names \cup {Basename},
         excl : BOOLEAN, tmp : TmpIds \cup {NULL}, found : SUBSET Handles]

ASSUME NullAssumption ==
  NULL \notin Threads \cup Nat \cup Fh \cup Call /\ "unanswered" \notin Threads \cup {NULL}

VARIABLES
  tmps,      \* every XdpTmp ever created, by id
  tmp_files, \* the ids on the global list
  tmp_lock,  \* the thread that holds G_LOCK (tmp_files), or NULL
  temps,     \* the temporary files in the backing directory, by id
  document,  \* the file that has the name of the document
  open_files,\* the XdpFh of each handle, NULL if closed
  call,      \* what each thread does
  dir_lock,  \* the thread whose request holds the lock of a view, NULL if
             \* none does, "unanswered" once a request gets no reply
  \* Auxiliary: how the document was changed through a handle, and the temporary
  \* files that stay because a call on the backing directory failed.
  inplace, abandoned

backing == <<temps, document, inplace, abandoned>>
vars == <<tmps, tmp_files, tmp_lock, open_files, call, dir_lock, backing>>

Init ==
  /\ tmps = <<>>
  /\ tmp_files = {}
  /\ tmp_lock = NULL
  /\ temps = {}
  /\ document = Original
  /\ open_files = [h \in Handles |-> NULL]
  /\ call = [t \in Threads |-> NULL]
  /\ dir_lock = [v \in Views |-> NULL]
  /\ inplace = {}
  /\ abandoned = {}

-----------------------------------------------------------------------------
(* The kernel: requests arrive, and a reply releases the directory.        *)

StartCall(t, at, view, name, newname, excl, tmp) ==
  /\ call[t] = NULL
  /\ call' = [call EXCEPT ![t] = [at |-> at, view |-> view, name |-> name, newname |-> newname,
                                  excl |-> excl, tmp |-> tmp, found |-> {}]]
  /\ UNCHANGED <<tmps, tmp_files, tmp_lock, backing, open_files>>

StartInDirectory(t) ==
  \E view \in Views, name \in Names :
    /\ dir_lock[view] = NULL
    /\ dir_lock' = [dir_lock EXCEPT ![view] = t]
    /\ \/ \E excl \in BOOLEAN : StartCall(t, "create", view, name, name, excl, NULL)
       \/ \E newname \in (Names \cup {Basename}) \ {name} :
            StartCall(t, "rename", view, name, newname, FALSE, NULL)
       \/ StartCall(t, "unlink", view, name, name, FALSE, NULL)

\* The kernel may still know the inode of a tmp that is gone.
StartOpen(t) ==
  \E i \in DOMAIN tmps :
    /\ StartCall(t, "open", tmps[i].parent, tmps[i].name, tmps[i].name, FALSE, i)
    /\ UNCHANGED dir_lock

At(t, at) == call[t] # NULL /\ call[t].at = at

\* t goes on to its next step, working on tmp.
Continue(t, at, tmp) ==
  /\ call' = [call EXCEPT ![t].at = at, ![t].tmp = tmp]
  /\ UNCHANGED dir_lock

GiveDirectory(t, holder) ==
  dir_lock' = [v \in Views |-> IF dir_lock[v] = t THEN holder ELSE dir_lock[v]]

ReleaseDirectory(t) == GiveDirectory(t, NULL)

\* The handler returns after its reply, an error or not.
Reply(t) ==
  /\ call' = [call EXCEPT ![t] = NULL]
  /\ ReleaseDirectory(t)

-----------------------------------------------------------------------------
(* XdpTmp.                                                                 *)

find_tmp_by_name_nolock(parent, name) ==
  {i \in tmp_files : tmps[i].parent = parent /\ tmps[i].name = name}

\* Whether a step that opens the backing directory gets it.
DirOpens == IF "open_dir" \in Faults THEN BOOLEAN ELSE {TRUE}

\* xdp_stat finds a tmp that is listed and has its backing file.
Stats(i) == i \in tmp_files /\ tmps[i].backing /\ i \in temps

xdp_lookup(parent, name) == {i \in find_tmp_by_name_nolock(parent, name) : Stats(i)}

xdp_tmp_new_nolock(parent, name) ==
  /\ tmps' = Append(tmps, [parent |-> parent, name |-> name, backing |-> TRUE])
  /\ tmp_files' = tmp_files \cup {Len(tmps) + 1}
  /\ temps' = temps \cup {Len(tmps) + 1}

\* The backing file goes if the name was not stolen; the entry goes anyway.
xdp_tmp_unlink_nolock(others) ==
  /\ tmp_files' = tmp_files \ others
  /\ \E opens \in DirOpens : LET named == {i \in others : tmps[i].backing}
     IN  /\ temps' = IF opens THEN temps \ named ELSE temps
         /\ abandoned' = IF opens THEN abandoned ELSE abandoned \cup named

WithoutBacking(others) ==
  [i \in DOMAIN tmps |-> [tmps[i] EXCEPT !.backing = tmps[i].backing /\ i \notin others]]

-----------------------------------------------------------------------------
(* XdpFh.                                                                  *)

\* A handle is free once no thread holds a reference to it either.
Free(h) == open_files[h] = NULL /\ \A t \in Threads : call[t] # NULL => h \notin call[t].found

xdp_fh_new(h, tmp) ==
  /\ Free(h)
  /\ open_files' = [open_files EXCEPT ![h] =
       [tmp_id |-> tmp, readonly |-> FALSE, late |-> ~tmps[tmp].backing]]

\* A write through a handle that is not marked, or any truncation.
xdp_fuse_write(h) ==
  /\ open_files[h] # NULL
  /\ ~open_files[h].readonly
  /\ inplace' = IF open_files[h].tmp_id = document THEN inplace \cup {"write"} ELSE inplace
  /\ UNCHANGED <<tmps, tmp_files, tmp_lock, temps, document, abandoned, open_files, call, dir_lock>>

\* Every handle on a tmp has can_write, which is all that setattr asks for.
xdp_fuse_setattr(h) ==
  /\ open_files[h] # NULL
  /\ inplace' = IF open_files[h].tmp_id = document THEN inplace \cup {"truncate"} ELSE inplace
  /\ UNCHANGED <<tmps, tmp_files, tmp_lock, temps, document, abandoned, open_files, call, dir_lock>>

xdp_fuse_release(h) ==
  /\ open_files[h] # NULL
  /\ open_files' = [open_files EXCEPT ![h] = NULL]
  /\ UNCHANGED <<tmps, tmp_files, tmp_lock, backing, call, dir_lock>>

-----------------------------------------------------------------------------
(* open, on the inode of a tmp.                                            *)

xdp_fuse_open(t) ==
  /\ At(t, "open")
  /\ tmp_lock = NULL
  /\ \E opens \in DirOpens :
       IF opens /\ Stats(call[t].tmp) THEN Continue(t, "openat", call[t].tmp) ELSE Reply(t)
  /\ UNCHANGED <<tmps, tmp_files, tmp_lock, backing, open_files>>

\* The name of the backing file was copied; the file may be gone by now.
OpenBacking(t) ==
  /\ At(t, "openat")
  /\ IF call[t].tmp \in temps THEN Continue(t, "open_fh", call[t].tmp) ELSE Reply(t)
  /\ UNCHANGED <<tmps, tmp_files, tmp_lock, backing, open_files>>

OpenHandle(t) ==
  /\ At(t, "open_fh")
  /\ \E h \in Handles : xdp_fh_new(h, call[t].tmp)
  /\ Reply(t)
  /\ UNCHANGED <<tmps, tmp_files, tmp_lock, backing>>

-----------------------------------------------------------------------------
(* create, of a name that is not the document's.                           *)

\* Replies EEXIST with the lock released.
CreateExclusive(t, found) ==
  /\ found # {} /\ call[t].excl
  /\ Reply(t)
  /\ UNCHANGED <<tmps, tmp_files, tmp_lock, temps>>

\* Replies and returns with the lock held, when the app may not write and
\* when the backing directory cannot be opened.
CreateRefused(t, found) ==
  /\ ~(found # {} /\ call[t].excl)
  /\ call[t].view \notin Writers \/ (FALSE \in DirOpens /\ found = {})
  /\ Reply(t)
  /\ tmp_lock' = t
  /\ UNCHANGED <<tmps, tmp_files, temps>>

\* Returns with the lock held and without a reply.
CreateUnanswered(t, found) ==
  /\ found = {} /\ call[t].view \in Writers
  /\ "mkstemp" \in Faults
  /\ call' = [call EXCEPT ![t] = NULL]
  /\ GiveDirectory(t, "unanswered")
  /\ tmp_lock' = t
  /\ UNCHANGED <<tmps, tmp_files, temps>>

CreateExisting(t, found) ==
  /\ found # {} /\ ~call[t].excl /\ call[t].view \in Writers
  /\ \E i \in found : Continue(t, "create_open", i)
  /\ UNCHANGED <<tmps, tmp_files, tmp_lock, temps>>

CreateNew(t, found) ==
  /\ found = {} /\ call[t].view \in Writers
  /\ Len(tmps) < MaxTmps
  /\ xdp_tmp_new_nolock(call[t].view, call[t].name)
  /\ Continue(t, "create_fh", Len(tmps) + 1)
  /\ UNCHANGED tmp_lock

xdp_fuse_create(t) ==
  /\ At(t, "create")
  /\ tmp_lock = NULL
  /\ LET found == find_tmp_by_name_nolock(call[t].view, call[t].name)
     IN  \/ CreateExclusive(t, found)
         \/ CreateRefused(t, found)
         \/ CreateUnanswered(t, found)
         \/ CreateExisting(t, found)
         \/ CreateNew(t, found)
  /\ UNCHANGED <<document, open_files, inplace, abandoned>>

CreateOpen(t) ==
  /\ At(t, "create_open")
  /\ \E opens \in DirOpens :
       IF opens /\ tmps[call[t].tmp].backing /\ call[t].tmp \in temps
       THEN Continue(t, "create_fh", call[t].tmp)
       ELSE Reply(t)
  /\ UNCHANGED <<tmps, tmp_files, tmp_lock, backing, open_files>>

\* xdp_stat takes the lock again, and then the handle is made.
CreateHandle(t) ==
  /\ At(t, "create_fh")
  /\ tmp_lock = NULL
  /\ \E opens \in DirOpens :
       IF opens /\ Stats(call[t].tmp)
       THEN \E h \in Handles : xdp_fh_new(h, call[t].tmp)
       ELSE UNCHANGED open_files
  /\ Reply(t)
  /\ UNCHANGED <<tmps, tmp_files, tmp_lock, backing>>

-----------------------------------------------------------------------------
(* rename, of a tmp to another name or over the document.                  *)

xdp_fuse_rename(t) ==
  /\ At(t, "rename")
  /\ tmp_lock = NULL
  /\ \E opens \in DirOpens : LET found == xdp_lookup(call[t].view, call[t].name)
     IN  IF opens /\ found # {} /\ call[t].view \in Writers
         THEN \E i \in found : Continue(t, "steal", i)
         ELSE Reply(t)
  /\ UNCHANGED <<tmps, tmp_files, tmp_lock, backing, open_files>>

\* MUTANT of RenameTmp: the tmp that had the name stays.
KeepsOther(t) ==
  /\ At(t, "steal")
  /\ call[t].newname # Basename
  /\ tmp_lock = NULL
  /\ tmps' = [tmps EXCEPT ![call[t].tmp].name = call[t].newname]
  /\ Reply(t)
  /\ UNCHANGED <<tmp_files, tmp_lock, backing, open_files>>

\* To another name: the tmp that had it goes.
RenameTmp(t) ==
  /\ At(t, "steal")
  /\ call[t].newname # Basename
  /\ tmp_lock = NULL
  /\ LET other == find_tmp_by_name_nolock(call[t].view, call[t].newname)
     IN  /\ xdp_tmp_unlink_nolock(other)
         /\ tmps' = [WithoutBacking(other) EXCEPT ![call[t].tmp].name = call[t].newname]
  /\ Reply(t)
  /\ UNCHANGED <<tmp_lock, document, open_files, inplace>>

\* Over the document: the tmp loses its backing file first.
StealBacking(t) ==
  /\ At(t, "steal")
  /\ call[t].newname = Basename
  /\ \/ /\ tmps[call[t].tmp].backing
        /\ tmps' = WithoutBacking({call[t].tmp})
        /\ Continue(t, "collect", call[t].tmp)
     \/ /\ ~tmps[call[t].tmp].backing \/ FALSE \in DirOpens
        /\ Reply(t)
        /\ UNCHANGED tmps
  /\ UNCHANGED <<tmp_files, tmp_lock, backing, open_files>>

\* MUTANT of HandlesOf: handles on another tmp.
HandlesOfOthers(i) == {h \in Handles : open_files[h] # NULL /\ open_files[h].tmp_id # i}

\* The handles on the list under the open_files lock.
HandlesOf(i) == {h \in Handles : open_files[h] # NULL /\ open_files[h].tmp_id = i}

mark_open_tmp_file_readonly(t) ==
  /\ At(t, "collect")
  /\ call' = [call EXCEPT ![t].at = "mark", ![t].found = HandlesOf(call[t].tmp)]
  /\ UNCHANGED <<tmps, tmp_files, tmp_lock, backing, open_files, dir_lock>>

\* Each handle under its own lock; one may have been released meanwhile.
MarkHandle(t) ==
  /\ At(t, "mark")
  /\ \E h \in call[t].found :
       /\ open_files' = IF open_files[h] = NULL THEN open_files
                        ELSE [open_files EXCEPT ![h].readonly = TRUE]
       /\ call' = [call EXCEPT ![t].found = call[t].found \ {h}]
  /\ UNCHANGED <<tmps, tmp_files, tmp_lock, backing, dir_lock>>

\* The file replaces the document; if that fails, nothing is undone.
RenameBacking(t) ==
  /\ At(t, "mark")
  /\ call[t].found = {}
  /\ \/ /\ document' = call[t].tmp
        /\ temps' = temps \ {call[t].tmp}
        /\ Continue(t, "rename_unlink", call[t].tmp)
        /\ UNCHANGED abandoned
     \/ /\ "renameat" \in Faults
        /\ Reply(t)
        /\ abandoned' = abandoned \cup {call[t].tmp}
        /\ UNCHANGED <<document, temps>>
  /\ UNCHANGED <<tmps, tmp_files, tmp_lock, open_files, inplace>>

\* Takes the tmp_files lock, unlinks the tmp and replies, with the lock held.
UnlinkRenamed(t) ==
  /\ At(t, "rename_unlink")
  /\ tmp_lock = NULL
  /\ tmp_lock' = t
  /\ xdp_tmp_unlink_nolock({call[t].tmp})
  /\ tmps' = WithoutBacking({call[t].tmp})
  /\ call' = [call EXCEPT ![t].at = "notify"]
  /\ ReleaseDirectory(t)
  /\ UNCHANGED <<document, open_files, inplace>>

\* The kernel takes the lock of the directory to invalidate the entry; then
\* the handler returns and releases tmp_files.
NotifyInvalEntry(t) ==
  /\ At(t, "notify")
  /\ dir_lock[call[t].view] = NULL
  /\ tmp_lock' = NULL
  /\ Reply(t)
  /\ UNCHANGED <<tmps, tmp_files, backing, open_files>>

-----------------------------------------------------------------------------
(* unlink, of a tmp.                                                       *)

\* MUTANT of xdp_fuse_unlink: the reply is sent before the tmp is unlinked.
RepliesEarly(t) ==
  /\ At(t, "unlink")
  /\ tmp_lock = NULL
  /\ \E i \in xdp_lookup(call[t].view, call[t].name) :
       call' = [call EXCEPT ![t].at = "unlink_tmp", ![t].tmp = i]
  /\ ReleaseDirectory(t)
  /\ UNCHANGED <<tmps, tmp_files, tmp_lock, backing, open_files>>

xdp_fuse_unlink(t) ==
  /\ At(t, "unlink")
  /\ tmp_lock = NULL
  /\ \E opens \in DirOpens : LET found == xdp_lookup(call[t].view, call[t].name)
     IN  IF opens /\ found # {} /\ call[t].view \in Writers
         THEN \E i \in found : Continue(t, "unlink_tmp", i)
         ELSE Reply(t)
  /\ UNCHANGED <<tmps, tmp_files, tmp_lock, backing, open_files>>

UnlinkTmp(t) ==
  /\ At(t, "unlink_tmp")
  /\ tmp_lock = NULL
  /\ xdp_tmp_unlink_nolock({call[t].tmp})
  /\ tmps' = WithoutBacking({call[t].tmp})
  /\ Reply(t)
  /\ UNCHANGED <<tmp_lock, document, open_files, inplace>>

-----------------------------------------------------------------------------
(* The specification.                                                      *)

Handler(t) ==
  \/ xdp_fuse_open(t) \/ OpenBacking(t) \/ OpenHandle(t)
  \/ xdp_fuse_create(t) \/ CreateOpen(t) \/ CreateHandle(t)
  \/ xdp_fuse_rename(t) \/ RenameTmp(t) \/ StealBacking(t)
  \/ mark_open_tmp_file_readonly(t) \/ MarkHandle(t) \/ RenameBacking(t)
  \/ UnlinkRenamed(t) \/ NotifyInvalEntry(t)
  \/ xdp_fuse_unlink(t) \/ UnlinkTmp(t)

OnHandle(h) == xdp_fuse_write(h) \/ xdp_fuse_setattr(h) \/ xdp_fuse_release(h)

Next ==
  \/ \E t \in Threads : StartInDirectory(t) \/ StartOpen(t) \/ Handler(t)
  \/ \E h \in Handles : OnHandle(h)

Spec == Init /\ [][Next]_vars

\* A thread that can go on with its handler does.
FairSpec == Spec /\ \A t \in Threads : WF_vars(Handler(t))

-----------------------------------------------------------------------------
(* Properties.                                                             *)

\* TypeOK: objects are well formed, and only tmps that exist are listed,
\* open or worked on.
TypeOK ==
  /\ tmps \in Seq(Tmp) /\ Len(tmps) <= MaxTmps
  /\ tmp_files \subseteq DOMAIN tmps
  /\ tmp_lock \in Threads \cup {NULL}
  /\ temps \subseteq DOMAIN tmps
  /\ document \in {Original} \cup DOMAIN tmps
  /\ open_files \in [Handles -> Fh \cup {NULL}]
  /\ call \in [Threads -> Call \cup {NULL}]
  /\ dir_lock \in [Views -> Threads \cup {NULL, "unanswered"}]
  /\ inplace \subseteq {"write", "truncate"}
  /\ abandoned \subseteq DOMAIN tmps

\* NamesUnique: a name in a directory is the name of one listed tmp at most,
\* through concurrent creates, renames and unlinks (find_tmp_by_name_nolock
\* takes the first one it meets).
NamesUnique ==
  \A i, j \in tmp_files :
    tmps[i].parent = tmps[j].parent /\ tmps[i].name = tmps[j].name => i = j

\* UnlinkedOnce: a thread about to take a tmp off the list works on a listed
\* one: xdp_tmp_unlink_nolock drops the reference of the list, and dropping
\* it twice frees the tmp under its users.
UnlinkedOnce ==
  \A t \in Threads :
    call[t] # NULL /\ call[t].at \in {"steal", "collect", "mark", "rename_unlink", "unlink_tmp"}
      => call[t].tmp \in tmp_files

\* BackingExists: a listed tmp that has a backing file finds it on disk, so
\* no rename or unlink took a file that another tmp still counts on.
BackingExists == \A i \in tmp_files : tmps[i].backing => i \in temps

\* ListedHandlesStopped: once a tmp has become the document, every handle
\* that was open on it before the rename took its backing file is read-only.
ListedHandlesStopped ==
  \A h \in Handles :
    open_files[h] # NULL /\ open_files[h].tmp_id = document /\ ~open_files[h].late
      => open_files[h].readonly

\* TempsListed: no temporary file is left in the directory of the user's
\* document without a tmp that can still remove it or move it, but those
\* that a failed call on the directory left there.
TempsListed == temps \subseteq tmp_files \cup abandoned

\* TempsSound: the list of tmps and the directory of the document agree, in
\* both directions, and the list never has two tmps of one name, whatever
\* creates, renames and unlinks overlap and whichever of their calls fail.
TempsSound == TypeOK /\ NamesUnique /\ BackingExists /\ TempsListed

\* WritesStopped: no write through a handle changes the file that is the
\* document ("Stop writes to all outstanding fds to the temp file").
WritesStopped == "write" \notin inplace

\* LastReferenceElsewhere: a thread about to mark a handle does not hold the
\* last reference to it.  It drops its reference under the lock of the
\* handle, and dropping the last one takes the open_files lock and frees
\* the handle ("never aquire the open_files lock and a lock on a Fh at the
\* same time").
LastReferenceElsewhere ==
  \A t \in Threads : At(t, "mark") => \A h \in call[t].found : open_files[h] # NULL

\* Whether t cannot go on without the tmp_files lock.
WantsTmpFiles(t) ==
  \E at \in {"create", "create_fh", "rename", "rename_unlink", "unlink", "unlink_tmp"} : At(t, at)

\* NoLockCycle: no thread waits for a directory with tmp_files held while
\* the request that has the directory waits for tmp_files.
NoLockCycle ==
  \A t, u \in Threads :
    ~(At(t, "notify") /\ dir_lock[call[t].view] = u /\ WantsTmpFiles(u))

\* CreateAnswered: a create is eventually answered, as the test that writes
\* to a document through an app that may only read expects.
CreateAnswered == \A t \in Threads : At(t, "create") ~> ~At(t, "create")
=============================================================================
