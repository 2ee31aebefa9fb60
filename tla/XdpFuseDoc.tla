----------------------------- MODULE XdpFuseDoc -----------------------------
(***************************************************************************)
(* The handles that document-portal/xdp-fuse.c keeps on a document: XdpFh  *)
(* objects, reference counted, on a global list that is searched by inode. *)
(* A handle opened for writing has two files: the document, read-only, and *)
(* a temporary file that it uses once it was truncated and that replaces   *)
(* the document when the last reference to the handle goes.                *)
(*                                                                         *)
(* fuse_session_loop_mt runs each request in a thread.  What is done under *)
(* the lock of a handle or of the list is one step; requests interleave    *)
(* between those.  One document, seen through one directory per app.       *)
(***************************************************************************)
EXTENDS Naturals, Sequences, FiniteSets

CONSTANTS Views,    \* directories of the document, one per app
          Writers,  \* the views of apps that have the write permission
          Threads,  \* FUSE worker threads
          Handles,  \* XdpFh objects: no more files can be open
          MaxFiles, \* bound on the files that exist: the disk is full then
          MaxLeaks, \* bound on the references lost per handle
          Faults,   \* what else may fail: "renameat" and the reply
          NULL

ASSUME WritersAssumption == Writers \subseteq Views
ASSUME BoundsAssumption == MaxFiles \in Nat /\ MaxLeaks \in Nat
ASSUME FaultsAssumption == Faults \subseteq {"renameat", "reply"}
ASSUME ThreadsAssumption == IsFiniteSet(Threads)

Original == 0
Files == 0..MaxFiles
Fh == [view : Views, fd : Files, trunc_fd : Files \cup {NULL}, truncated : BOOLEAN,
       can_write : BOOLEAN, ref_count : Nat, leaked : Nat, owned : BOOLEAN]
Steps == {"open_doc", "open_fill", "create_doc", "create_fill",
          "getattr", "truncate", "chmod", "unref", "finalize"}
Call == [at : Steps, view : Views, fh : Handles \cup {NULL}, tmp : Files \cup {NULL}]

ASSUME NullAssumption == NULL \notin Handles \cup Nat \cup Fh \cup Call

VARIABLES
  document,   \* the file that has the name of the document, NULL if unlinked
  temps,      \* the temporary files in its directory
  fhs,        \* the XdpFh of each handle, NULL if freed
  open_files, \* the global list, newest first
  call,       \* what each thread does
  author,     \* auxiliary: the view the document was last replaced through
  inplace,    \* auxiliary: whether the document's file was written to
  abandoned   \* auxiliary: temporary files an open that failed left behind

vars == <<document, temps, fhs, open_files, call, author, inplace, abandoned>>
handles == <<fhs, open_files>>
disk == <<document, temps, author, inplace, abandoned>>

Init ==
  /\ document = Original
  /\ temps = {}
  /\ fhs = [h \in Handles |-> NULL]
  /\ open_files = <<>>
  /\ call = [t \in Threads |-> NULL]
  /\ author = NULL
  /\ inplace = FALSE
  /\ abandoned = {}

-----------------------------------------------------------------------------
(* Threads and files.                                                      *)

At(t, at) == call[t] # NULL /\ call[t].at = at

Begin(t, at, view, fh, tmp) ==
  /\ call[t] = NULL
  /\ call' = [call EXCEPT ![t] = [at |-> at, view |-> view, fh |-> fh, tmp |-> tmp]]

Reply(t) == call' = [call EXCEPT ![t] = NULL]

\* Files that nothing names or has open, and the one created next.
FreeFiles ==
  {f \in Files : /\ f \notin {document} \cup temps
                 /\ \A t \in Threads : call[t] # NULL => call[t].tmp # f
                 /\ \A h \in Handles : fhs[h] # NULL => f \notin {fhs[h].fd, fhs[h].trunc_fd}}

NewFile == CHOOSE f \in FreeFiles : TRUE

-----------------------------------------------------------------------------
(* References.                                                             *)

\* MUTANT of find_open_fh: handles whose last reference is gone count too.
FindsDying(view) ==
  {open_files[i] : i \in {j \in DOMAIN open_files :
     /\ fhs[open_files[j]].view = view
     /\ \A k \in 1..(j - 1) : fhs[open_files[k]].view # view}}

\* The first handle on the list on the file of view that is still referenced.
find_open_fh(view) ==
  LET Matches(h) == fhs[h].view = view /\ fhs[h].ref_count > 0
  IN  {open_files[i] : i \in {j \in DOMAIN open_files :
         Matches(open_files[j]) /\ \A k \in 1..(j - 1) : ~Matches(open_files[k])}}

xdp_fh_ref(h) == fhs' = [fhs EXCEPT ![h].ref_count = @ + 1]

\* Drops a reference of h, with fh its fields by now; whoever drops the last
\* one goes on to finalize.
xdp_fh_unref(t, h, fh) ==
  /\ fhs' = [fhs EXCEPT ![h] = [fh EXCEPT !.ref_count = @ - 1]]
  /\ call' = [call EXCEPT ![t] =
       IF fh.ref_count = 1
       THEN [at |-> "finalize", view |-> fh.view, fh |-> h, tmp |-> NULL]
       ELSE NULL]

\* A handle is on the list once.
Unlist(h) ==
  \E i \in DOMAIN open_files :
    /\ open_files[i] = h
    /\ open_files' = SubSeq(open_files, 1, i - 1) \o SubSeq(open_files, i + 1, Len(open_files))

\* A rename that fails is only logged.
RenameTemp(fh) ==
  \/ /\ document' = fh.trunc_fd
     /\ temps' = temps \ {fh.trunc_fd}
     /\ author' = fh.view
     /\ UNCHANGED abandoned
  \/ /\ "renameat" \in Faults
     /\ abandoned' = abandoned \cup {fh.trunc_fd}
     /\ UNCHANGED <<document, temps, author>>

\* MUTANT of UnlinkTemp: an unused temporary file stays.
LeavesTemp(fh) == UNCHANGED <<temps, document, author, abandoned>>

UnlinkTemp(fh) ==
  /\ temps' = temps \ {fh.trunc_fd}
  /\ UNCHANGED <<document, author, abandoned>>

\* Off the list, and then the temporary file replaces the document, or goes.
xdp_fh_finalize(t) ==
  /\ At(t, "finalize")
  /\ LET h == call[t].fh IN
     /\ Unlist(h)
     /\ fhs' = [fhs EXCEPT ![h] = NULL]
     /\ IF fhs[h].truncated THEN RenameTemp(fhs[h]) ELSE UnlinkTemp(fhs[h])
  /\ Reply(t)
  /\ UNCHANGED inplace

\* The handle is on the list before its fields are set.
xdp_fh_new(h, view, fd) ==
  /\ fhs[h] = NULL
  /\ fhs' = [fhs EXCEPT ![h] =
       [view |-> view, fd |-> fd, trunc_fd |-> NULL, truncated |-> FALSE, can_write |-> FALSE,
        ref_count |-> 1, leaked |-> 0, owned |-> FALSE]]
  /\ open_files' = <<h>> \o open_files

-----------------------------------------------------------------------------
(* open and create, of the document.                                       *)

\* An open for reading of a document that is gone, for example, is answered
\* with an error at once.
OpenFails(t) ==
  /\ call[t] = NULL
  /\ document = NULL
  /\ UNCHANGED vars

\* Checks the permission and creates the temporary file of a writer.
xdp_fuse_open(t, view, writing) ==
  /\ document # NULL
  /\ writing => view \in Writers
  /\ IF writing
     THEN /\ FreeFiles # {}
          /\ temps' = temps \cup {NewFile}
          /\ Begin(t, "open_doc", view, NULL, NewFile)
     ELSE Begin(t, "open_doc", view, NULL, NULL) /\ UNCHANGED temps
  /\ UNCHANGED <<document, handles, author, inplace, abandoned>>

\* An error return leaves the temporary file behind.
Abandon(t) ==
  /\ Reply(t)
  /\ abandoned' = abandoned \cup ({call[t].tmp} \ {NULL})
  /\ UNCHANGED <<document, temps, handles, author, inplace>>

OpenDocument(t) ==
  /\ At(t, "open_doc")
  /\ \/ /\ document = NULL \/ NULL \notin {fhs[h] : h \in Handles}
        /\ Abandon(t)
     \/ /\ document # NULL
        /\ \E h \in Handles :
             /\ xdp_fh_new(h, call[t].view, document)
             /\ call' = [call EXCEPT ![t].at = "open_fill", ![t].fh = h]
        /\ UNCHANGED disk

\* MUTANT of xdp_fuse_create: the permission is not checked.
CreatesForAnyone(t, view) ==
  /\ document = NULL
  /\ FreeFiles # {}
  /\ temps' = temps \cup {NewFile}
  /\ Begin(t, "create_doc", view, NULL, NewFile)
  /\ UNCHANGED <<document, handles, author, inplace, abandoned>>

\* The kernel asks to create the document when it did not find it.
xdp_fuse_create(t, view) ==
  /\ document = NULL
  /\ view \in Writers
  /\ FreeFiles # {}
  /\ temps' = temps \cup {NewFile}
  /\ Begin(t, "create_doc", view, NULL, NewFile)
  /\ UNCHANGED <<document, handles, author, inplace, abandoned>>

\* O_CREAT|O_EXCL: fails if another view created it first.
CreateDocument(t) ==
  /\ At(t, "create_doc")
  /\ \/ /\ document # NULL \/ FreeFiles = {} \/ NULL \notin {fhs[h] : h \in Handles}
        /\ Abandon(t)
     \/ /\ document = NULL
        /\ FreeFiles # {}
        /\ document' = NewFile
        /\ author' = call[t].view
        /\ \E h \in Handles :
             /\ xdp_fh_new(h, call[t].view, NewFile)
             /\ call' = [call EXCEPT ![t].at = "create_fill", ![t].fh = h]
        /\ UNCHANGED <<temps, inplace, abandoned>>

\* Sets the fields and replies.  A reply that fails means there will be no
\* release, so the handler drops the reference.
FillHandle(t) ==
  /\ At(t, "open_fill") \/ At(t, "create_fill")
  /\ LET h  == call[t].fh
         fh == [fhs[h] EXCEPT !.can_write = call[t].view \in Writers \/ At(t, "create_fill"),
                              !.trunc_fd = call[t].tmp,
                              !.truncated = At(t, "create_fill")]
     IN  \/ fhs' = [fhs EXCEPT ![h] = [fh EXCEPT !.owned = TRUE]] /\ Reply(t)
         \/ "reply" \in Faults /\ xdp_fh_unref(t, h, fh)
  /\ UNCHANGED <<disk, open_files>>

-----------------------------------------------------------------------------
(* Operations on an open handle.                                           *)

\* Whether the kernel has h open.
Open(h) == fhs[h] # NULL /\ fhs[h].owned

\* A write, or ftruncate, goes to the temporary file once h was truncated;
\* the document itself is only open for reading and the call fails.
WriteTo(h) ==
  inplace' = (inplace \/ fhs[h].trunc_fd = document)

xdp_fuse_write(h) ==
  /\ Open(h)
  /\ fhs[h].truncated
  /\ WriteTo(h)
  /\ UNCHANGED <<document, temps, handles, call, author, abandoned>>

\* MUTANT of xdp_fh_truncate_locked: the temporary file is the document from
\* the truncation on.
TruncatedShows(h) ==
  IF fhs[h].trunc_fd # NULL /\ ~fhs[h].truncated
  THEN /\ fhs' = [fhs EXCEPT ![h].truncated = TRUE]
       /\ document' = fhs[h].trunc_fd
       /\ UNCHANGED inplace
  ELSE /\ IF fhs[h].truncated THEN WriteTo(h) ELSE UNCHANGED inplace
       /\ UNCHANGED <<fhs, document>>

\* The first truncation must be to size 0 and switches to the temporary file.
xdp_fh_truncate_locked(h) ==
  /\ IF fhs[h].trunc_fd # NULL /\ ~fhs[h].truncated
     THEN fhs' = [fhs EXCEPT ![h].truncated = TRUE] /\ UNCHANGED inplace
     ELSE /\ IF fhs[h].truncated THEN WriteTo(h) ELSE UNCHANGED inplace
          /\ UNCHANGED fhs
  /\ UNCHANGED document

\* ftruncate (2).
xdp_fuse_setattr_handle(h) ==
  /\ Open(h)
  /\ fhs[h].can_write
  /\ xdp_fh_truncate_locked(h)
  /\ UNCHANGED <<temps, open_files, call, author, abandoned>>

\* close (2); the kernel sends one release per handle.
xdp_fuse_release(t, h) ==
  /\ Open(h)
  /\ call[t] = NULL
  /\ xdp_fh_unref(t, h, [fhs[h] EXCEPT !.owned = FALSE])
  /\ UNCHANGED <<disk, open_files>>

-----------------------------------------------------------------------------
(* Operations by path, which look for an open handle.                      *)

Chmods(t, h) == At(t, "chmod") /\ call[t].fh = h

\* MaxLeaks bounds the requests that lose a reference.
ByPath(t, at, view) ==
  /\ \E h \in find_open_fh(view) :
       /\ at = "chmod" => fhs[h].leaked + Cardinality({u \in Threads : Chmods(u, h)}) < MaxLeaks
       /\ xdp_fh_ref(h)
       /\ Begin(t, at, view, h, NULL)
  /\ UNCHANGED <<disk, open_files>>

\* stat (2): fstat under the handle's lock changes nothing.
GetattrHandle(t) ==
  /\ At(t, "getattr")
  /\ xdp_fh_unref(t, call[t].fh, fhs[call[t].fh])
  /\ UNCHANGED <<disk, open_files>>

\* truncate (2), which then drops its reference.
TruncateHandle(t) ==
  /\ At(t, "truncate")
  /\ IF fhs[call[t].fh].can_write
     THEN xdp_fh_truncate_locked(call[t].fh)
     ELSE UNCHANGED <<fhs, document, inplace>>
  /\ call' = [call EXCEPT ![t].at = "unref"]
  /\ UNCHANGED <<temps, open_files, author, abandoned>>

UnrefHandle(t) ==
  /\ At(t, "unref")
  /\ xdp_fh_unref(t, call[t].fh, fhs[call[t].fh])
  /\ UNCHANGED <<disk, open_files>>

\* chmod (2): none of its returns drops the reference.
ChmodHandle(t) ==
  /\ At(t, "chmod")
  /\ fhs' = [fhs EXCEPT ![call[t].fh].leaked = @ + 1]
  /\ Reply(t)
  /\ UNCHANGED <<disk, open_files>>

\* unlink (2), of the document.
xdp_fuse_unlink(view) ==
  /\ view \in Writers
  /\ document # NULL
  /\ document' = NULL
  /\ UNCHANGED <<temps, handles, call, author, inplace, abandoned>>

-----------------------------------------------------------------------------
(* The specification.                                                      *)

Handler(t) ==
  \/ xdp_fh_finalize(t)
  \/ OpenDocument(t) \/ CreateDocument(t) \/ FillHandle(t)
  \/ GetattrHandle(t) \/ TruncateHandle(t) \/ UnrefHandle(t) \/ ChmodHandle(t)

Request(t) ==
  \/ OpenFails(t)
  \/ \E view \in Views :
       \/ \E writing \in BOOLEAN : xdp_fuse_open(t, view, writing)
       \/ xdp_fuse_create(t, view)
       \/ ByPath(t, "getattr", view)
       \/ ByPath(t, "truncate", view)
       \/ ByPath(t, "chmod", view)
  \/ \E h \in Handles : xdp_fuse_release(t, h)

Next ==
  \/ \E t \in Threads : Handler(t) \/ Request(t)
  \/ \E h \in Handles : xdp_fuse_write(h) \/ xdp_fuse_setattr_handle(h)
  \/ \E view \in Views : xdp_fuse_unlink(view)

Spec == Init /\ [][Next]_vars

-----------------------------------------------------------------------------
(* Properties.                                                             *)

\* TypeOK: objects are well formed, and the global list has every handle
\* that is not freed, once.
TypeOK ==
  /\ document \in Files \cup {NULL}
  /\ temps \subseteq Files
  /\ fhs \in [Handles -> Fh \cup {NULL}]
  /\ open_files \in Seq(Handles)
  /\ {open_files[i] : i \in DOMAIN open_files} = {h \in Handles : fhs[h] # NULL}
  /\ \A i, j \in DOMAIN open_files : open_files[i] = open_files[j] => i = j
  /\ call \in [Threads -> Call \cup {NULL}]
  /\ author \in Views \cup {NULL}
  /\ inplace \in BOOLEAN
  /\ abandoned \subseteq Files

\* The threads that hold a reference to h.
Holders(h) == {t \in Threads : call[t] # NULL /\ call[t].fh = h /\ call[t].at # "finalize"}

\* RefsAreHolders: a handle has one reference for the kernel while it is
\* open, one per request that works on it, and those chmod lost.
RefsAreHolders ==
  \A h \in Handles :
    fhs[h] # NULL =>
      fhs[h].ref_count = Cardinality(Holders(h)) + fhs[h].leaked + (IF fhs[h].owned THEN 1 ELSE 0)

\* HeldIsAlive: no request works on a handle that was freed or that another
\* thread is about to free.
HeldIsAlive ==
  \A t \in Threads :
    call[t] # NULL /\ call[t].fh # NULL =>
      /\ fhs[call[t].fh] # NULL
      /\ At(t, "finalize") => \A u \in Threads \ {t} : call[u] # NULL => call[u].fh # call[t].fh

\* HandlesSound: the reference counts of the handles on the global list are
\* those of their holders, and so nobody is left with a freed handle, though
\* requests by path find handles while others release them.
HandlesSound == TypeOK /\ RefsAreHolders /\ HeldIsAlive

\* ReplacedWhole: the file that is the document is never written to, so who
\* has it open reads one version of it to the end.
ReplacedWhole == ~inplace

\* OnlyWritersReplace: whatever file has become the document, it came from an
\* app with the write permission.
OnlyWritersReplace == author # NULL => author \in Writers

\* TempsOwned: a temporary file beside the document belongs to a handle or
\* to an open in progress, unless an open or a rename failed.
TempsOwned ==
  \A f \in temps \ abandoned :
    \/ \E h \in Handles : fhs[h] # NULL /\ fhs[h].trunc_fd = f
    \/ \E t \in Threads : call[t] # NULL /\ call[t].tmp = f

\* ReleasedIsFinal: a truncated handle that was closed and that no request
\* works on is gone: its temporary file "is renamed over the real file on
\* close".
ReleasedIsFinal ==
  \A h \in Handles :
    fhs[h] # NULL /\ fhs[h].truncated /\ ~fhs[h].owned
      => \E t \in Threads : call[t] # NULL /\ call[t].fh = h
=============================================================================
