-------------------------- MODULE XdpFuseTmpProofs --------------------------
(***************************************************************************)
(* Proofs about XdpFuseTmp for any views, names, handles and threads.  The *)
(* lock of the directory is what keeps the list sound: a thread that will  *)
(* take a tmp off the list, or its backing file, holds the lock of the     *)
(* directory of the tmp from the lookup on (Exclusive), so that nobody     *)
(* else takes or renames it.  What the thread knows of its tmp at each     *)
(* step is Knows; what is true of all tmps and handles is Lists.           *)
(***************************************************************************)
EXTENDS XdpFuseTmp, TLAPS

\* The steps of a request that has the lock of its directory.
InDirectory == {"create", "create_open", "create_fh", "rename", "steal", "collect", "mark",
                "rename_unlink", "unlink", "unlink_tmp"}

\* The steps with a tmp that will be renamed or leave the list.
Taking == {"steal", "collect", "mark", "rename_unlink", "unlink_tmp"}

\* The steps between taking the backing file of a tmp and renaming it.
Between == {"collect", "mark"}

Opening == {"open", "openat", "open_fh", "create_open", "create_fh"}

\* A thread has its directory, and the tmp it takes is listed there.
Exclusive(t) ==
  /\ call[t].at \in InDirectory => dir_lock[call[t].view] = t
  /\ call[t].at \in Taking => call[t].tmp \in tmp_files /\ tmps[call[t].tmp].parent = call[t].view
  /\ call[t].at \in Opening => call[t].tmp \in DOMAIN tmps

\* The tmp to rename has the old name; one that replaces the document has no
\* backing file of its own any more, one to unlink still has.
Knows(t) ==
  /\ call[t].at \in {"rename", "steal"} => call[t].newname # call[t].name
  /\ call[t].at = "steal" => tmps[call[t].tmp].name = call[t].name
  /\ call[t].at \in Between \cup {"rename_unlink"} => ~tmps[call[t].tmp].backing
  /\ call[t].at = "rename_unlink" => call[t].tmp \notin temps
  /\ call[t].at = "unlink_tmp" => tmps[call[t].tmp].backing

\* Every handle that was open on the tmp before its backing file was taken is
\* read-only or still to be marked.
Marks(t) ==
  call[t].at = "mark" =>
    \A h \in Handles :
      open_files[h] # NULL /\ open_files[h].tmp_id = call[t].tmp /\ ~open_files[h].late =>
        open_files[h].readonly \/ h \in call[t].found

Busy == \A t \in Threads : call[t] # NULL => Exclusive(t) /\ Knows(t) /\ Marks(t)

\* A listed tmp whose backing file was taken but is still there is about to be
\* renamed, or its rename failed.
TakenMoves ==
  \A i \in tmp_files \cap temps :
    ~tmps[i].backing =>
      i \in abandoned \/ \E t \in Threads : call[t] # NULL /\ call[t].at \in Between /\ call[t].tmp = i

\* No tmp counts on the file that is the document.
DocumentTaken == document # Original => ~tmps[document].backing

Lists == NamesUnique /\ BackingExists /\ TempsListed /\ TakenMoves /\ DocumentTaken

IInv == TypeOK /\ Busy /\ Lists /\ ListedHandlesStopped

-----------------------------------------------------------------------------
(* What the steps are made of.                                             *)

LEMMA Tmps ==
  ASSUME TypeOK
  PROVE  /\ Len(tmps) \in Nat /\ DOMAIN tmps = 1..Len(tmps) /\ DOMAIN tmps \subseteq TmpIds
         /\ \A i \in DOMAIN tmps :
              /\ tmps[i] \in Tmp /\ i \in Nat /\ i # Original
              /\ tmps[i].parent \in Views /\ tmps[i].name \in Names /\ tmps[i].backing \in BOOLEAN
<1>1. tmps \in Seq(Tmp) /\ Len(tmps) <= MaxTmps /\ MaxTmps \in Nat
  BY MaxTmpsAssumption DEF TypeOK
<1>2. Len(tmps) \in Nat /\ DOMAIN tmps = 1..Len(tmps) /\ \A i \in DOMAIN tmps : tmps[i] \in Tmp
  BY <1>1
<1>3. \A i \in 1..Len(tmps) : i \in 1..MaxTmps /\ i \in Nat /\ i # 0
  BY <1>1, <1>2
<1> QED
  BY <1>2, <1>3 DEF Tmp, TmpIds, Original

LEMMA Calls ==
  ASSUME TypeOK, NEW t \in Threads, call[t] # NULL
  PROVE  /\ call[t] \in Call /\ call[t].at \in Steps /\ call[t].view \in Views
         /\ call[t].name \in Names /\ call[t].newname \in Names \cup {Basename}
         /\ call[t].excl \in BOOLEAN /\ call[t].tmp \in TmpIds \cup {NULL}
         /\ call[t].found \subseteq Handles
<1>1. call[t] \in Call
  BY DEF TypeOK
<1> QED
  BY <1>1 DEF Call

\* No request is NULL.
LEMMA CallIs ==
  ASSUME NEW c \in Call
  PROVE  c # NULL
BY NullAssumption

LEMMA StartSays ==
  ASSUME TypeOK, NEW t \in Threads, NEW at \in Steps, NEW view \in Views, NEW name \in Names,
         NEW newname \in Names \cup {Basename}, NEW excl \in BOOLEAN, NEW tmp \in TmpIds \cup {NULL},
         StartCall(t, at, view, name, newname, excl, tmp)
  PROVE  /\ call[t] = NULL /\ call' \in [Threads -> Call \cup {NULL}]
         /\ call'[t] # NULL /\ call'[t].at = at /\ call'[t].view = view /\ call'[t].name = name
         /\ call'[t].newname = newname /\ call'[t].tmp = tmp /\ call'[t].found = {}
         /\ \A u \in Threads \ {t} : call'[u] = call[u]
<1> DEFINE c == [at |-> at, view |-> view, name |-> name, newname |-> newname,
                 excl |-> excl, tmp |-> tmp, found |-> {}]
<1>1. c \in Call
  BY DEF Call
<1>2. call[t] = NULL /\ call' = [call EXCEPT ![t] = c]
  BY DEF StartCall
<1>3. /\ c.at = at /\ c.view = view /\ c.name = name /\ c.newname = newname
      /\ c.tmp = tmp /\ c.found = {}
  OBVIOUS
<1>4. c # NULL
  BY <1>1, CallIs
<1> HIDE DEF c
<1>5. call \in [Threads -> Call \cup {NULL}]
  BY DEF TypeOK
<1> QED
  BY <1>1, <1>2, <1>3, <1>4, <1>5

LEMMA ContinueSays ==
  ASSUME TypeOK, NEW t \in Threads, call[t] # NULL, NEW at \in Steps,
         NEW tmp \in TmpIds \cup {NULL}, Continue(t, at, tmp)
  PROVE  /\ call' \in [Threads -> Call \cup {NULL}] /\ UNCHANGED dir_lock
         /\ call'[t] # NULL
         /\ call'[t].at = at /\ call'[t].tmp = tmp
         /\ call'[t].view = call[t].view /\ call'[t].name = call[t].name
         /\ call'[t].newname = call[t].newname /\ call'[t].found = call[t].found
         /\ \A u \in Threads \ {t} : call'[u] = call[u]
<1> DEFINE c == [call[t] EXCEPT !.at = at, !.tmp = tmp]
<1>1. call[t] \in Call
  BY DEF TypeOK
<1>2. c \in Call
  BY <1>1 DEF Call
<1>3. call' = [call EXCEPT ![t] = c] /\ UNCHANGED dir_lock
  BY DEF Continue
<1>4. c.at = at /\ c.tmp = tmp /\ c.view = call[t].view /\ c.name = call[t].name
      /\ c.newname = call[t].newname /\ c.found = call[t].found
  BY <1>1 DEF Call
<1>5. c # NULL
  BY <1>2, CallIs
<1>6. call'[t] = c /\ call' \in [Threads -> Call \cup {NULL}]
      /\ \A u \in Threads \ {t} : call'[u] = call[u]
  <2> HIDE DEF c
  <2>1. call \in [Threads -> Call \cup {NULL}]
    BY DEF TypeOK
  <2> QED
    BY <1>2, <1>3, <2>1
<1> QED
  BY <1>3, <1>4, <1>5, <1>6

\* A thread whose directory is another one than those t gives up keeps it.
LEMMA GiveSays ==
  ASSUME TypeOK, NEW t \in Threads, NEW holder \in {NULL, "unanswered"}, GiveDirectory(t, holder)
  PROVE  /\ dir_lock' \in [Views -> Threads \cup {NULL, "unanswered"}]
         /\ \A u \in Threads \ {t}, v \in Views : dir_lock[v] = u => dir_lock'[v] = u
BY DEF TypeOK, GiveDirectory

LEMMA ReplySays ==
  ASSUME TypeOK, NEW t \in Threads, Reply(t)
  PROVE  /\ call' \in [Threads -> Call \cup {NULL}] /\ call'[t] = NULL
         /\ \A u \in Threads \ {t} : call'[u] = call[u]
         /\ dir_lock' \in [Views -> Threads \cup {NULL, "unanswered"}]
         /\ \A u \in Threads \ {t}, v \in Views : dir_lock[v] = u => dir_lock'[v] = u
<1>1. GiveDirectory(t, NULL)
  BY DEF Reply, ReleaseDirectory
<1> QED
  BY <1>1, GiveSays DEF Reply, TypeOK

-----------------------------------------------------------------------------
(* What a step leaves to the other threads.                                *)

\* A handle after the step was there before, or it is on a tmp without a
\* backing file only if it is late.
HandlesKept ==
  \A h \in Handles :
    open_files'[h] # NULL =>
      \/ /\ open_files[h] # NULL
         /\ open_files'[h].tmp_id = open_files[h].tmp_id
         /\ open_files'[h].late = open_files[h].late
         /\ open_files[h].readonly => open_files'[h].readonly
      \/ open_files'[h].late
      \/ tmps[open_files'[h].tmp_id].backing

\* What u has the directory of is as it was.
Apart(u) ==
  /\ call'[u] = call[u]
  /\ \A v \in Views : dir_lock[v] = u => dir_lock'[v] = u
  /\ DOMAIN tmps \subseteq DOMAIN tmps'
  /\ \A i \in tmp_files :
       dir_lock[tmps[i].parent] = u =>
         i \in tmp_files' /\ tmps'[i] = tmps[i] /\ (i \in temps' => i \in temps)

LEMMA OthersKeep ==
  ASSUME TypeOK, NEW u \in Threads, Exclusive(u), Knows(u), Marks(u), call[u] # NULL,
         Apart(u), HandlesKept
  PROVE  Exclusive(u)' /\ Knows(u)' /\ Marks(u)'
<1> DEFINE i == call[u].tmp
<1>1. call[u].view \in Views
  BY Calls
<1>2. call'[u] = call[u]
  BY DEF Apart
<1>3. ASSUME call[u].at \in Taking
      PROVE  i \in tmp_files /\ i \in tmp_files' /\ tmps'[i] = tmps[i] /\ (i \in temps' => i \in temps)
             /\ tmps[i].parent = call[u].view
  <2>1. call[u].at \in InDirectory
    BY <1>3 DEF Taking, InDirectory
  <2>2. i \in tmp_files /\ dir_lock[tmps[i].parent] = u /\ tmps[i].parent = call[u].view
    BY <1>3, <2>1 DEF Exclusive
  <2> QED
    BY <2>2 DEF Apart
<1>4. Exclusive(u)'
  BY <1>1, <1>2, <1>3 DEF Exclusive, Apart
<1>5. Knows(u)'
  BY <1>2, <1>3 DEF Knows, Taking, Between
<1>6. Marks(u)'
  <2> SUFFICES ASSUME call[u].at = "mark", NEW h \in Handles,
                      open_files'[h] # NULL, open_files'[h].tmp_id = i, ~open_files'[h].late
               PROVE  open_files'[h].readonly \/ h \in call[u].found
    BY <1>2 DEF Marks
  <2>1. ~tmps[i].backing
    BY DEF Knows, Between
  <2>2. open_files[h] # NULL /\ open_files[h].tmp_id = i /\ ~open_files[h].late
        /\ (open_files[h].readonly => open_files'[h].readonly)
    BY <2>1 DEF HandlesKept
  <2> QED
    BY <2>2 DEF Marks
<1> QED
  BY <1>4, <1>5, <1>6

\* A step of t that only moves t on.
LEMMA OnlyMoves ==
  ASSUME IInv, NEW t \in Threads,
         UNCHANGED <<tmps, tmp_files, temps, document, open_files, inplace, abandoned>>,
         tmp_lock' \in Threads \cup {NULL}, call' \in [Threads -> Call \cup {NULL}],
         dir_lock' \in [Views -> Threads \cup {NULL, "unanswered"}],
         \A u \in Threads \ {t} : call'[u] = call[u],
         \A u \in Threads \ {t}, v \in Views : dir_lock[v] = u => dir_lock'[v] = u,
         call[t] # NULL /\ call[t].at \in Between =>
           call'[t] # NULL /\ call'[t].at \in Between /\ call'[t].tmp = call[t].tmp,
         call'[t] # NULL => Exclusive(t)' /\ Knows(t)' /\ Marks(t)'
  PROVE  IInv'
<1>1. TypeOK'
  BY DEF IInv, TypeOK
<1>2. HandlesKept
  BY DEF HandlesKept
<1>3. Busy'
  <2> SUFFICES ASSUME NEW u \in Threads, call'[u] # NULL
               PROVE  Exclusive(u)' /\ Knows(u)' /\ Marks(u)'
    BY DEF Busy
  <2>1. CASE u = t
    BY <2>1
  <2>2. CASE u # t
    <3>1. Apart(u) /\ call[u] # NULL
      BY <2>2 DEF Apart
    <3>2. TypeOK /\ Exclusive(u) /\ Knows(u) /\ Marks(u)
      BY <3>1 DEF IInv, Busy
    <3> QED
      BY <1>2, <3>1, <3>2, OthersKeep
  <2> QED
    BY <2>1, <2>2
<1>4. TakenMoves'
  <2> SUFFICES ASSUME NEW i \in tmp_files \cap temps, ~tmps[i].backing, i \notin abandoned
               PROVE  \E u \in Threads : call'[u] # NULL /\ call'[u].at \in Between /\ call'[u].tmp = i
    BY DEF TakenMoves
  <2>1. PICK u \in Threads : call[u] # NULL /\ call[u].at \in Between /\ call[u].tmp = i
    BY DEF IInv, Lists, TakenMoves
  <2>2. CASE u = t
    BY <2>1, <2>2
  <2>3. CASE u # t
    BY <2>1, <2>3
  <2> QED
    BY <2>2, <2>3
<1>5. Lists' /\ ListedHandlesStopped'
  BY <1>4 DEF IInv, Lists, NamesUnique, BackingExists, TempsListed, DocumentTaken,
              ListedHandlesStopped
<1> QED
  BY <1>1, <1>3, <1>5 DEF IInv

-----------------------------------------------------------------------------
(* Steps that only move a thread on.                                       *)

LEMMA StartInDirectoryKeeps ==
  ASSUME IInv, NEW t \in Threads, StartInDirectory(t)
  PROVE  IInv'
<1>1. TypeOK
  BY DEF IInv
<1>2. PICK view \in Views, name \in Names :
        /\ dir_lock[view] = NULL /\ dir_lock' = [dir_lock EXCEPT ![view] = t]
        /\ \/ \E excl \in BOOLEAN : StartCall(t, "create", view, name, name, excl, NULL)
           \/ \E newname \in (Names \cup {Basename}) \ {name} :
                StartCall(t, "rename", view, name, newname, FALSE, NULL)
           \/ StartCall(t, "unlink", view, name, name, FALSE, NULL)
  BY DEF StartInDirectory
<1>3. /\ dir_lock' \in [Views -> Threads \cup {NULL, "unanswered"}] /\ dir_lock'[view] = t
      /\ \A u \in Threads \ {t}, v \in Views : dir_lock[v] = u => dir_lock'[v] = u
  BY <1>1, <1>2, NullAssumption DEF TypeOK
<1>4. \E at \in {"create", "rename", "unlink"}, newname \in Names \cup {Basename}, excl \in BOOLEAN :
        /\ StartCall(t, at, view, name, newname, excl, NULL)
        /\ at = "rename" => newname # name
  BY <1>2
<1>5. PICK at \in {"create", "rename", "unlink"}, newname \in Names \cup {Basename}, excl \in BOOLEAN :
        /\ StartCall(t, at, view, name, newname, excl, NULL)
        /\ at = "rename" => newname # name
  BY <1>4
<1>6. at \in Steps
  BY DEF Steps
<1>7. /\ call[t] = NULL /\ call' \in [Threads -> Call \cup {NULL}]
      /\ call'[t] # NULL /\ call'[t].at = at /\ call'[t].view = view /\ call'[t].name = name
      /\ call'[t].newname = newname
      /\ \A u \in Threads \ {t} : call'[u] = call[u]
  BY <1>1, <1>5, <1>6, StartSays
<1>8. Exclusive(t)' /\ Knows(t)' /\ Marks(t)'
  BY <1>3, <1>5, <1>7 DEF Exclusive, Knows, Marks, Taking, Opening, Between
<1>9. /\ UNCHANGED <<tmps, tmp_files, temps, document, open_files, inplace, abandoned>>
      /\ tmp_lock' \in Threads \cup {NULL}
  BY <1>1, <1>5 DEF StartCall, backing, TypeOK
<1> QED
  BY <1>3, <1>7, <1>8, <1>9, OnlyMoves

LEMMA StartOpenKeeps ==
  ASSUME IInv, NEW t \in Threads, StartOpen(t)
  PROVE  IInv'
<1>1. TypeOK
  BY DEF IInv
<1>2. PICK i \in DOMAIN tmps :
        StartCall(t, "open", tmps[i].parent, tmps[i].name, tmps[i].name, FALSE, i) /\ UNCHANGED dir_lock
  BY DEF StartOpen
<1>3. tmps[i].parent \in Views /\ tmps[i].name \in Names /\ i \in TmpIds /\ "open" \in Steps
  BY <1>1, Tmps DEF Steps
<1>4. /\ call[t] = NULL /\ call' \in [Threads -> Call \cup {NULL}]
      /\ call'[t] # NULL /\ call'[t].at = "open" /\ call'[t].tmp = i
      /\ \A u \in Threads \ {t} : call'[u] = call[u]
  BY <1>1, <1>2, <1>3, StartSays
<1>5. /\ UNCHANGED <<tmps, tmp_files, temps, document, open_files, inplace, abandoned>>
      /\ tmp_lock' \in Threads \cup {NULL}
      /\ dir_lock' \in [Views -> Threads \cup {NULL, "unanswered"}] /\ UNCHANGED dir_lock
  BY <1>1, <1>2 DEF StartCall, backing, TypeOK
<1>6. Exclusive(t)' /\ Knows(t)' /\ Marks(t)'
  BY <1>4, <1>5 DEF Exclusive, Knows, Marks, Taking, Opening, Between, InDirectory
<1> QED
  BY <1>4, <1>5, <1>6, OnlyMoves

\* The state but for what t does.
Rest == <<tmps, tmp_files, temps, document, open_files, inplace, abandoned>>

\* A reply of a thread that is not between taking and renaming a file.
LEMMA ReplyKeeps ==
  ASSUME IInv, NEW t \in Threads, call[t] # NULL, call[t].at \notin Between, Reply(t),
         UNCHANGED Rest, tmp_lock' \in Threads \cup {NULL}
  PROVE  IInv'
<1>1. TypeOK
  BY DEF IInv
<1>2. /\ call' \in [Threads -> Call \cup {NULL}] /\ call'[t] = NULL
      /\ \A u \in Threads \ {t} : call'[u] = call[u]
      /\ dir_lock' \in [Views -> Threads \cup {NULL, "unanswered"}]
      /\ \A u \in Threads \ {t}, v \in Views : dir_lock[v] = u => dir_lock'[v] = u
  BY <1>1, ReplySays
<1> QED
  BY <1>2, OnlyMoves DEF Rest

\* Going on to a step that asks only that the tmp exists.
LEMMA ContinueKeeps ==
  ASSUME IInv, NEW t \in Threads, call[t] # NULL, call[t].at \notin Between,
         NEW at \in Steps, NEW i \in DOMAIN tmps, Continue(t, at, i),
         UNCHANGED Rest, UNCHANGED tmp_lock,
         at \in InDirectory => call[t].at \in InDirectory,
         at \in Taking => i \in tmp_files /\ tmps[i].parent = call[t].view,
         at = "steal" => call[t].at = "rename" /\ tmps[i].name = call[t].name,
         at = "unlink_tmp" => tmps[i].backing,
         at \notin Between \cup {"rename", "rename_unlink"}
  PROVE  IInv'
<1>1. TypeOK /\ i \in TmpIds /\ i \in TmpIds \cup {NULL} /\ Exclusive(t) /\ Knows(t)
  BY Tmps DEF IInv, Busy
<1>2. /\ call' \in [Threads -> Call \cup {NULL}] /\ UNCHANGED dir_lock
      /\ call'[t] # NULL
      /\ call'[t].at = at /\ call'[t].tmp = i
      /\ call'[t].view = call[t].view /\ call'[t].name = call[t].name
      /\ call'[t].newname = call[t].newname
      /\ \A u \in Threads \ {t} : call'[u] = call[u]
  BY <1>1, ContinueSays
<1>3. UNCHANGED <<tmps, tmp_files, temps, document, open_files, inplace, abandoned>>
  BY DEF Rest
<1>4. Exclusive(t)'
  BY <1>1, <1>2, <1>3 DEF Exclusive
<1>5. Knows(t)' /\ Marks(t)'
  BY <1>1, <1>2, <1>3 DEF Knows, Marks, Between
<1>6. /\ dir_lock' \in [Views -> Threads \cup {NULL, "unanswered"}]
      /\ tmp_lock' \in Threads \cup {NULL}
  BY <1>1, <1>2 DEF TypeOK
<1> QED
  BY <1>2, <1>3, <1>4, <1>5, <1>6, OnlyMoves

LEMMA Restful == UNCHANGED <<tmps, tmp_files, tmp_lock, backing, open_files>> =>
                   UNCHANGED Rest /\ UNCHANGED tmp_lock
BY DEF Rest, backing

LEMMA OpenKeeps ==
  ASSUME IInv, NEW t \in Threads, xdp_fuse_open(t) \/ OpenBacking(t) \/ CreateOpen(t)
  PROVE  IInv'
<1>1. /\ call[t] # NULL /\ call[t].at \in {"open", "openat", "create_open"}
      /\ UNCHANGED Rest /\ UNCHANGED tmp_lock /\ tmp_lock' \in Threads \cup {NULL}
      /\ \/ Reply(t)
         \/ call[t].at = "open" /\ Continue(t, "openat", call[t].tmp)
         \/ call[t].at = "openat" /\ Continue(t, "open_fh", call[t].tmp)
         \/ call[t].at = "create_open" /\ Continue(t, "create_fh", call[t].tmp)
  BY Restful DEF xdp_fuse_open, OpenBacking, CreateOpen, At, IInv, TypeOK
<1>2. call[t].tmp \in DOMAIN tmps /\ call[t].at \notin Between
  BY <1>1 DEF IInv, Busy, Exclusive, Opening, Between
<1>3. CASE Reply(t)
  BY <1>1, <1>2, <1>3, ReplyKeeps
<1>4. ASSUME NEW at \in {"openat", "open_fh", "create_fh"}, Continue(t, at, call[t].tmp),
             at = "create_fh" => call[t].at = "create_open"
      PROVE  IInv'
  <2>1. /\ at \in Steps /\ (at \in InDirectory => call[t].at \in InDirectory)
        /\ at \notin Taking /\ at \notin Between \cup {"rename", "rename_unlink"}
        /\ at # "steal" /\ at # "unlink_tmp"
    BY <1>4 DEF Steps, InDirectory, Taking, Between
  <2> QED
    BY <1>1, <1>2, <1>4, <2>1, ContinueKeeps
<1> QED
  BY <1>1, <1>3, <1>4

\* What a lookup finds.
LEMMA LookupSays ==
  ASSUME TypeOK, NEW parent, NEW name, NEW i \in xdp_lookup(parent, name)
  PROVE  /\ i \in tmp_files /\ i \in DOMAIN tmps /\ tmps[i].parent = parent /\ tmps[i].name = name
         /\ tmps[i].backing
BY DEF xdp_lookup, find_tmp_by_name_nolock, Stats, TypeOK

LEMMA LookupsKeep ==
  ASSUME IInv, NEW t \in Threads, xdp_fuse_rename(t) \/ xdp_fuse_unlink(t)
  PROVE  IInv'
<1>1. /\ call[t] # NULL /\ call[t].at \in {"rename", "unlink"}
      /\ UNCHANGED Rest /\ UNCHANGED tmp_lock /\ tmp_lock' \in Threads \cup {NULL}
      /\ \/ Reply(t)
         \/ /\ call[t].at = "rename"
            /\ \E i \in xdp_lookup(call[t].view, call[t].name) : Continue(t, "steal", i)
         \/ /\ call[t].at = "unlink"
            /\ \E i \in xdp_lookup(call[t].view, call[t].name) : Continue(t, "unlink_tmp", i)
  BY Restful DEF xdp_fuse_rename, xdp_fuse_unlink, At, IInv, TypeOK
<1>2. call[t].at \notin Between /\ call[t].at \in InDirectory /\ TypeOK
  BY <1>1 DEF Between, InDirectory, IInv
<1>3. CASE Reply(t)
  BY <1>1, <1>2, <1>3, ReplyKeeps
<1>4. ASSUME NEW i \in xdp_lookup(call[t].view, call[t].name),
             NEW at \in {"steal", "unlink_tmp"}, Continue(t, at, i),
             at = "steal" => call[t].at = "rename"
      PROVE  IInv'
  <2>1. /\ at \in Steps /\ at \notin Between \cup {"rename", "rename_unlink"}
    BY DEF Steps, Between
  <2>2. /\ i \in tmp_files /\ i \in DOMAIN tmps /\ tmps[i].parent = call[t].view
        /\ tmps[i].name = call[t].name /\ tmps[i].backing
    BY <1>2, LookupSays
  <2> QED
    BY <1>1, <1>2, <1>4, <2>1, <2>2, ContinueKeeps
<1> QED
  BY <1>1, <1>3, <1>4

LEMMA CollectKeeps ==
  ASSUME IInv, NEW t \in Threads, mark_open_tmp_file_readonly(t)
  PROVE  IInv'
<1> DEFINE c == [call[t] EXCEPT !.at = "mark", !.found = HandlesOf(call[t].tmp)]
<1>1. /\ TypeOK /\ call[t] # NULL /\ call[t].at = "collect" /\ call' = [call EXCEPT ![t] = c]
      /\ UNCHANGED <<tmps, tmp_files, temps, document, open_files, inplace, abandoned>>
      /\ UNCHANGED <<dir_lock, tmp_lock>>
      /\ Exclusive(t) /\ Knows(t)
  BY DEF mark_open_tmp_file_readonly, At, backing, IInv, Busy
<1>2. call[t] \in Call /\ HandlesOf(call[t].tmp) \subseteq Handles
  BY <1>1, Calls DEF HandlesOf
<1>3. c \in Call
  BY <1>2 DEF Call, Steps
<1>4. c # NULL
  BY <1>3, CallIs
<1>5. c.at = "mark" /\ c.tmp = call[t].tmp /\ c.view = call[t].view /\ c.found = HandlesOf(c.tmp)
      /\ c.name = call[t].name
  BY <1>2 DEF Call
<1> HIDE DEF c
<1>6. call \in [Threads -> Call \cup {NULL}]
  BY <1>1 DEF TypeOK
<1>7. call'[t] = c /\ call' \in [Threads -> Call \cup {NULL}]
      /\ \A u \in Threads \ {t} : call'[u] = call[u]
  BY <1>1, <1>3, <1>6
<1>8. Exclusive(t)' /\ Knows(t)'
  BY <1>1, <1>5, <1>7 DEF Exclusive, Knows, InDirectory, Taking, Opening, Between
<1>9. Marks(t)'
  BY <1>1, <1>5, <1>7 DEF Marks, HandlesOf
<1>10. call'[t] # NULL /\ call'[t].at \in Between /\ call'[t].tmp = call[t].tmp
  BY <1>4, <1>5, <1>7 DEF Between
<1>11. dir_lock' \in [Views -> Threads \cup {NULL, "unanswered"}] /\ tmp_lock' \in Threads \cup {NULL}
       /\ \A u \in Threads \ {t}, v \in Views : dir_lock[v] = u => dir_lock'[v] = u
  BY <1>1 DEF TypeOK
<1> QED
  BY <1>1, <1>7, <1>8, <1>9, <1>10, <1>11, OnlyMoves

LEMMA NotifyKeeps ==
  ASSUME IInv, NEW t \in Threads, NotifyInvalEntry(t)
  PROVE  IInv'
<1>1. /\ call[t] # NULL /\ call[t].at \notin Between /\ Reply(t) /\ UNCHANGED Rest
      /\ tmp_lock' \in Threads \cup {NULL}
  BY DEF NotifyInvalEntry, At, Between, Rest, backing
<1> QED
  BY <1>1, ReplyKeeps

\* create, but for a new tmp.
LEMMA CreateMoves ==
  ASSUME IInv, NEW t \in Threads, call[t] # NULL, call[t].at = "create",
         NEW found, found = find_tmp_by_name_nolock(call[t].view, call[t].name),
         \/ CreateExclusive(t, found) \/ CreateRefused(t, found)
         \/ CreateUnanswered(t, found) \/ CreateExisting(t, found),
         UNCHANGED <<document, open_files, inplace, abandoned>>
  PROVE  IInv'
<1>1. UNCHANGED Rest /\ tmp_lock' \in Threads \cup {NULL} /\ TypeOK /\ call[t].at \notin Between
  BY DEF CreateExclusive, CreateRefused, CreateUnanswered, CreateExisting, Rest, IInv, TypeOK, Between
<1>2. CASE CreateExclusive(t, found) \/ CreateRefused(t, found)
  BY <1>1, <1>2, ReplyKeeps DEF CreateExclusive, CreateRefused
<1>3. CASE CreateUnanswered(t, found)
  <2>1. /\ call' = [call EXCEPT ![t] = NULL] /\ GiveDirectory(t, "unanswered")
    BY <1>3 DEF CreateUnanswered
  <2>2. /\ dir_lock' \in [Views -> Threads \cup {NULL, "unanswered"}]
        /\ \A u \in Threads \ {t}, v \in Views : dir_lock[v] = u => dir_lock'[v] = u
    BY <1>1, <2>1, GiveSays
  <2>3. /\ call' \in [Threads -> Call \cup {NULL}] /\ call'[t] = NULL
        /\ \A u \in Threads \ {t} : call'[u] = call[u]
    BY <1>1, <2>1 DEF TypeOK
  <2> QED
    BY <1>1, <2>2, <2>3, OnlyMoves DEF Rest
<1>4. CASE CreateExisting(t, found)
  <2>1. PICK i \in found : Continue(t, "create_open", i)
    BY <1>4 DEF CreateExisting
  <2>2. i \in DOMAIN tmps /\ UNCHANGED tmp_lock
    BY <1>1, <1>4, <2>1 DEF CreateExisting, find_tmp_by_name_nolock, TypeOK
  <2>3. /\ "create_open" \in Steps /\ call[t].at \in InDirectory
        /\ "create_open" \notin Taking /\ "create_open" \notin Between \cup {"rename", "rename_unlink"}
    BY DEF Steps, InDirectory, Taking, Between
  <2> QED
    BY <1>1, <2>1, <2>2, <2>3, ContinueKeeps
<1> QED
  BY <1>2, <1>3, <1>4

-----------------------------------------------------------------------------
(* Steps that change handles.                                              *)

\* A step of t that leaves to the others what is theirs.
LEMMA BusyKeeps ==
  ASSUME IInv, NEW t \in Threads, HandlesKept, \A u \in Threads \ {t} : Apart(u),
         call'[t] # NULL => Exclusive(t)' /\ Knows(t)' /\ Marks(t)'
  PROVE  Busy'
<1> SUFFICES ASSUME NEW u \in Threads, call'[u] # NULL
             PROVE  Exclusive(u)' /\ Knows(u)' /\ Marks(u)'
  BY DEF Busy
<1>1. CASE u = t
  BY <1>1
<1>2. CASE u # t
  <2>1. Apart(u) /\ call[u] # NULL
    BY <1>2 DEF Apart
  <2>2. TypeOK /\ Exclusive(u) /\ Knows(u) /\ Marks(u)
    BY <2>1 DEF IInv, Busy
  <2> QED
    BY <2>1, <2>2, OthersKeep
<1> QED
  BY <1>1, <1>2

LEMMA HandleSays ==
  ASSUME IInv, NEW h \in Handles, NEW i \in DOMAIN tmps, xdp_fh_new(h, i),
         UNCHANGED <<tmps, document>>
  PROVE  /\ open_files' \in [Handles -> Fh \cup {NULL}]
         /\ HandlesKept /\ ListedHandlesStopped'
<1> DEFINE f == [tmp_id |-> i, readonly |-> FALSE, late |-> ~tmps[i].backing]
<1>1. TypeOK /\ i \in TmpIds /\ tmps[i].backing \in BOOLEAN /\ i # Original
  BY Tmps DEF IInv
<1>2. f \in Fh /\ f.tmp_id = i /\ f.late = ~tmps[i].backing
  BY <1>1 DEF Fh
<1>3. open_files' = [open_files EXCEPT ![h] = f]
  BY DEF xdp_fh_new
<1> HIDE DEF f
<1>4. open_files \in [Handles -> Fh \cup {NULL}]
  BY <1>1 DEF TypeOK
<1>5. open_files' \in [Handles -> Fh \cup {NULL}]
  BY <1>2, <1>3, <1>4
<1>6. open_files'[h] = f /\ \A g \in Handles \ {h} : open_files'[g] = open_files[g]
  BY <1>3, <1>4
<1>7. HandlesKept
  BY <1>1, <1>2, <1>6 DEF HandlesKept
<1>8. i = document => ~tmps[i].backing
  BY <1>1 DEF IInv, Lists, DocumentTaken
<1>9. ListedHandlesStopped'
  BY <1>2, <1>6, <1>8 DEF IInv, ListedHandlesStopped
<1> QED
  BY <1>5, <1>7, <1>9

LEMMA HandleKeeps ==
  ASSUME IInv, NEW t \in Threads, call[t] # NULL, call[t].at \notin Between,
         NEW h \in Handles, NEW i \in DOMAIN tmps, xdp_fh_new(h, i), Reply(t),
         UNCHANGED <<tmps, tmp_files, tmp_lock, backing>>
  PROVE  IInv'
<1>1. TypeOK /\ UNCHANGED <<tmps, tmp_files, tmp_lock, temps, document, inplace, abandoned>>
  BY DEF IInv, backing
<1>2. /\ call' \in [Threads -> Call \cup {NULL}] /\ call'[t] = NULL
      /\ \A u \in Threads \ {t} : call'[u] = call[u]
      /\ dir_lock' \in [Views -> Threads \cup {NULL, "unanswered"}]
      /\ \A u \in Threads \ {t}, v \in Views : dir_lock[v] = u => dir_lock'[v] = u
  BY <1>1, ReplySays
<1>3. open_files' \in [Handles -> Fh \cup {NULL}] /\ HandlesKept /\ ListedHandlesStopped'
  BY <1>1, HandleSays
<1>4. TypeOK'
  BY <1>1, <1>2, <1>3 DEF TypeOK
<1>5. \A u \in Threads \ {t} : Apart(u)
  BY <1>1, <1>2 DEF Apart
<1>6. Busy'
  BY <1>2, <1>3, <1>5, BusyKeeps
<1>7. TakenMoves'
  BY <1>1, <1>2 DEF IInv, Lists, TakenMoves
<1>8. Lists'
  BY <1>1, <1>7 DEF IInv, Lists, NamesUnique, BackingExists, TempsListed, DocumentTaken
<1> QED
  BY <1>3, <1>4, <1>6, <1>8 DEF IInv

LEMMA OpenHandleKeeps ==
  ASSUME IInv, NEW t \in Threads, OpenHandle(t)
  PROVE  IInv'
<1>1. call[t] # NULL /\ call[t].at = "open_fh" /\ call[t].at \notin Between
  BY DEF OpenHandle, At, Between
<1>2. call[t].tmp \in DOMAIN tmps
  BY <1>1 DEF IInv, Busy, Exclusive, Opening
<1>3. PICK h \in Handles : xdp_fh_new(h, call[t].tmp)
  BY DEF OpenHandle
<1> QED
  BY <1>1, <1>2, <1>3, HandleKeeps DEF OpenHandle

LEMMA CreateHandleKeeps ==
  ASSUME IInv, NEW t \in Threads, CreateHandle(t)
  PROVE  IInv'
<1>1. call[t] # NULL /\ call[t].at = "create_fh" /\ call[t].at \notin Between
  BY DEF CreateHandle, At, Between
<1>2. call[t].tmp \in DOMAIN tmps
  BY <1>1 DEF IInv, Busy, Exclusive, Opening
<1>3. Reply(t) /\ UNCHANGED <<tmps, tmp_files, tmp_lock, backing>>
  BY DEF CreateHandle
<1>4. CASE UNCHANGED open_files
  <2>1. UNCHANGED Rest /\ tmp_lock' \in Threads \cup {NULL}
    BY <1>3, <1>4, Restful DEF IInv, TypeOK
  <2> QED
    BY <1>1, <1>3, <2>1, ReplyKeeps
<1>5. ASSUME NEW h \in Handles, xdp_fh_new(h, call[t].tmp)
      PROVE  IInv'
  BY <1>1, <1>2, <1>3, <1>5, HandleKeeps
<1> QED
  BY <1>4, <1>5 DEF CreateHandle

LEMMA OnHandleKeeps ==
  ASSUME IInv, NEW h \in Handles, OnHandle(h)
  PROVE  IInv'
<1>1. /\ UNCHANGED <<tmps, tmp_files, tmp_lock, temps, document, abandoned, call, dir_lock>>
      /\ inplace' \subseteq {"write", "truncate"}
      /\ open_files' = open_files \/ open_files' = [open_files EXCEPT ![h] = NULL]
  BY DEF OnHandle, xdp_fuse_write, xdp_fuse_setattr, xdp_fuse_release, backing, IInv, TypeOK
<1>2. open_files \in [Handles -> Fh \cup {NULL}]
  BY DEF IInv, TypeOK
<1>3. /\ open_files' \in [Handles -> Fh \cup {NULL}]
      /\ \A g \in Handles : open_files'[g] # NULL => open_files'[g] = open_files[g]
  BY <1>1, <1>2
<1>4. HandlesKept /\ ListedHandlesStopped'
  BY <1>1, <1>3 DEF HandlesKept, IInv, ListedHandlesStopped
<1>5. TypeOK'
  BY <1>1, <1>3 DEF IInv, TypeOK
<1>6. Busy'
  <2> SUFFICES ASSUME NEW u \in Threads, call'[u] # NULL
               PROVE  Exclusive(u)' /\ Knows(u)' /\ Marks(u)'
    BY DEF Busy
  <2>1. Apart(u) /\ call[u] # NULL
    BY <1>1 DEF Apart
  <2>2. TypeOK /\ Exclusive(u) /\ Knows(u) /\ Marks(u)
    BY <2>1 DEF IInv, Busy
  <2> QED
    BY <1>4, <2>1, <2>2, OthersKeep
<1>7. Lists'
  BY <1>1 DEF IInv, Lists, NamesUnique, BackingExists, TempsListed, TakenMoves, DocumentTaken
<1> QED
  BY <1>4, <1>5, <1>6, <1>7 DEF IInv

LEMMA MarkHandleKeeps ==
  ASSUME IInv, NEW t \in Threads, MarkHandle(t)
  PROVE  IInv'
<1>1. PICK h \in call[t].found :
        /\ open_files' = IF open_files[h] = NULL THEN open_files
                         ELSE [open_files EXCEPT ![h].readonly = TRUE]
        /\ call' = [call EXCEPT ![t].found = call[t].found \ {h}]
  BY DEF MarkHandle
<1>2. /\ TypeOK /\ call[t] # NULL /\ call[t].at = "mark" /\ Exclusive(t) /\ Knows(t) /\ Marks(t)
      /\ UNCHANGED <<tmps, tmp_files, tmp_lock, temps, document, inplace, abandoned, dir_lock>>
  BY DEF MarkHandle, At, backing, IInv, Busy
<1> DEFINE c == [call[t] EXCEPT !.found = call[t].found \ {h}]
<1>3. call[t] \in Call /\ h \in Handles
  BY <1>2, Calls
<1>4. c \in Call /\ c.at = "mark" /\ c.tmp = call[t].tmp /\ c.view = call[t].view
      /\ c.found = call[t].found \ {h}
  BY <1>2, <1>3 DEF Call
<1>5. c # NULL
  BY <1>4, CallIs
<1>6. call' = [call EXCEPT ![t] = c]
  BY <1>1
<1> HIDE DEF c
<1>7. /\ call'[t] = c /\ call' \in [Threads -> Call \cup {NULL}]
      /\ \A u \in Threads \ {t} : call'[u] = call[u]
  BY <1>2, <1>4, <1>6 DEF TypeOK
<1>8. open_files \in [Handles -> Fh \cup {NULL}]
  BY <1>2 DEF TypeOK
<1>9. /\ open_files' \in [Handles -> Fh \cup {NULL}]
      /\ \A g \in Handles \ {h} : open_files'[g] = open_files[g]
      /\ open_files[h] = NULL => open_files'[h] = NULL
      /\ open_files[h] # NULL =>
           /\ open_files'[h] = [open_files[h] EXCEPT !.readonly = TRUE]
           /\ open_files[h] \in Fh
  <2>1. CASE open_files[h] = NULL
    BY <1>1, <1>3, <1>8, <2>1
  <2>2. CASE open_files[h] # NULL
    <3>1. open_files[h] \in Fh
      BY <1>3, <1>8, <2>2
    <3>2. [open_files[h] EXCEPT !.readonly = TRUE] \in Fh
      BY <3>1 DEF Fh
    <3>3. open_files' = [open_files EXCEPT ![h] = [open_files[h] EXCEPT !.readonly = TRUE]]
      BY <1>1, <2>2
    <3> QED
      BY <1>3, <1>8, <2>2, <3>1, <3>2, <3>3
  <2> QED
    BY <2>1, <2>2
<1>10. open_files[h] # NULL =>
         /\ open_files'[h].tmp_id = open_files[h].tmp_id
         /\ open_files'[h].late = open_files[h].late
         /\ open_files'[h].readonly
  BY <1>9 DEF Fh
<1>11. HandlesKept
  BY <1>3, <1>9, <1>10 DEF HandlesKept
<1>12. ListedHandlesStopped'
  <2> SUFFICES ASSUME NEW g \in Handles, open_files'[g] # NULL,
                      open_files'[g].tmp_id = document, ~open_files'[g].late
               PROVE  open_files'[g].readonly
    BY <1>2 DEF ListedHandlesStopped
  <2>1. CASE g = h
    BY <1>9, <1>10, <2>1
  <2>2. CASE g # h
    BY <1>9, <2>2 DEF IInv, ListedHandlesStopped
  <2> QED
    BY <2>1, <2>2
<1>13. Exclusive(t)' /\ Knows(t)'
  BY <1>2, <1>4, <1>7 DEF Exclusive, Knows, InDirectory, Taking, Opening, Between
<1>14. Marks(t)'
  <2> SUFFICES ASSUME NEW g \in Handles, open_files'[g] # NULL,
                      open_files'[g].tmp_id = call[t].tmp, ~open_files'[g].late
               PROVE  open_files'[g].readonly \/ g \in call[t].found \ {h}
    BY <1>4, <1>7 DEF Marks
  <2>1. CASE g = h
    BY <1>9, <1>10, <2>1
  <2>2. CASE g # h
    BY <1>2, <1>9, <2>2 DEF Marks
  <2> QED
    BY <2>1, <2>2
<1>15. \A u \in Threads \ {t} : Apart(u)
  BY <1>2, <1>7 DEF Apart
<1>16. Busy'
  BY <1>11, <1>13, <1>14, <1>15, BusyKeeps
<1>17. TypeOK'
  BY <1>2, <1>7, <1>9 DEF TypeOK
<1>18. TakenMoves'
  <2> SUFFICES ASSUME NEW i \in tmp_files \cap temps, ~tmps[i].backing, i \notin abandoned
               PROVE  \E u \in Threads : call'[u] # NULL /\ call'[u].at \in Between /\ call'[u].tmp = i
    BY <1>2 DEF TakenMoves
  <2>1. PICK u \in Threads : call[u] # NULL /\ call[u].at \in Between /\ call[u].tmp = i
    BY DEF IInv, Lists, TakenMoves
  <2>2. CASE u = t
    BY <1>4, <1>5, <1>7, <2>1, <2>2 DEF Between
  <2>3. CASE u # t
    BY <1>7, <2>1, <2>3
  <2> QED
    BY <2>2, <2>3
<1>19. Lists'
  BY <1>2, <1>18 DEF IInv, Lists, NamesUnique, BackingExists, TempsListed, DocumentTaken
<1> QED
  BY <1>12, <1>16, <1>17, <1>19 DEF IInv

-----------------------------------------------------------------------------
(* A new tmp.                                                              *)

LEMMA CreateNewKeeps ==
  ASSUME IInv, NEW t \in Threads, call[t] # NULL, call[t].at = "create",
         CreateNew(t, find_tmp_by_name_nolock(call[t].view, call[t].name)),
         UNCHANGED <<document, open_files, inplace, abandoned>>
  PROVE  IInv'
<1> DEFINE n == Len(tmps) + 1
           new == [parent |-> call[t].view, name |-> call[t].name, backing |-> TRUE]
<1>1. /\ TypeOK /\ Exclusive(t) /\ Knows(t) /\ Len(tmps) < MaxTmps /\ MaxTmps \in Nat
      /\ tmps' = Append(tmps, new) /\ tmp_files' = tmp_files \cup {n} /\ temps' = temps \cup {n}
      /\ Continue(t, "create_fh", n) /\ UNCHANGED tmp_lock
      /\ find_tmp_by_name_nolock(call[t].view, call[t].name) = {}
  BY MaxTmpsAssumption DEF CreateNew, xdp_tmp_new_nolock, IInv, Busy
<1>2. call[t].view \in Views /\ call[t].name \in Names
  BY <1>1, Calls
<1>3. new \in Tmp /\ new.parent = call[t].view /\ new.name = call[t].name /\ new.backing
  BY <1>2 DEF Tmp
<1>4. tmps \in Seq(Tmp) /\ Len(tmps) \in Nat /\ DOMAIN tmps = 1..Len(tmps)
  BY <1>1, Tmps DEF TypeOK
<1>5. n \in TmpIds /\ n \in TmpIds \cup {NULL} /\ "create_fh" \in Steps /\ n \notin DOMAIN tmps /\ n # Original
  BY <1>1, <1>4 DEF TmpIds, Steps, Original
<1> HIDE DEF new
<1>6. /\ tmps' \in Seq(Tmp) /\ Len(tmps') = n /\ DOMAIN tmps' = DOMAIN tmps \cup {n}
      /\ tmps'[n] = new /\ \A i \in DOMAIN tmps : tmps'[i] = tmps[i]
  BY <1>1, <1>3, <1>4
<1> HIDE DEF n
<1>7. /\ call' \in [Threads -> Call \cup {NULL}] /\ UNCHANGED dir_lock
      /\ call'[t] # NULL /\ call'[t].at = "create_fh" /\ call'[t].tmp = n
      /\ call'[t].view = call[t].view
      /\ \A u \in Threads \ {t} : call'[u] = call[u]
  BY <1>1, <1>5, ContinueSays
<1>8. tmp_files \subseteq DOMAIN tmps /\ temps \subseteq DOMAIN tmps /\ abandoned \subseteq DOMAIN tmps
      /\ document \in {Original} \cup DOMAIN tmps
  BY <1>1 DEF TypeOK
<1>9. TypeOK'
  BY <1>1, <1>4, <1>6, <1>7, <1>8 DEF TypeOK, n
<1>10. HandlesKept
  BY DEF HandlesKept
<1>11. \A u \in Threads \ {t} : Apart(u)
  BY <1>1, <1>5, <1>6, <1>7, <1>8 DEF Apart
<1>12. Exclusive(t)' /\ Knows(t)' /\ Marks(t)'
  BY <1>1, <1>6, <1>7 DEF Exclusive, Knows, Marks, InDirectory, Taking, Opening, Between
<1>13. Busy'
  BY <1>10, <1>11, <1>12, BusyKeeps
<1>14. NamesUnique'
  <2> SUFFICES ASSUME NEW i \in tmp_files', NEW j \in tmp_files',
                      tmps'[i].parent = tmps'[j].parent, tmps'[i].name = tmps'[j].name
               PROVE  i = j
    BY DEF NamesUnique
  <2>1. ASSUME NEW k \in tmp_files, tmps[k].parent = new.parent, tmps[k].name = new.name
        PROVE  FALSE
    BY <1>1, <1>3, <2>1 DEF find_tmp_by_name_nolock
  <2>2. CASE i = n /\ j # n
    BY <1>1, <1>6, <1>8, <2>1, <2>2
  <2>3. CASE i # n /\ j = n
    BY <1>1, <1>6, <1>8, <2>1, <2>3
  <2>4. CASE i # n /\ j # n
    <3>1. i \in tmp_files /\ j \in tmp_files /\ tmps'[i] = tmps[i] /\ tmps'[j] = tmps[j]
      BY <1>1, <1>6, <1>8, <2>4
    <3> QED
      BY <3>1 DEF IInv, Lists, NamesUnique
  <2> QED
    BY <2>2, <2>3, <2>4
<1>15. BackingExists' /\ TempsListed'
  BY <1>1, <1>6, <1>8 DEF IInv, Lists, BackingExists, TempsListed
<1>16. TakenMoves'
  <2> SUFFICES ASSUME NEW i \in tmp_files' \cap temps', ~tmps'[i].backing, i \notin abandoned
               PROVE  \E u \in Threads : call'[u] # NULL /\ call'[u].at \in Between /\ call'[u].tmp = i
    BY DEF TakenMoves
  <2>1. i # n
    BY <1>3, <1>6
  <2>2. i \in tmp_files \cap temps /\ ~tmps[i].backing
    BY <1>1, <1>6, <1>8, <2>1
  <2>3. PICK u \in Threads : call[u] # NULL /\ call[u].at \in Between /\ call[u].tmp = i
    BY <2>2 DEF IInv, Lists, TakenMoves
  <2>4. u # t
    BY <2>3 DEF Between
  <2> QED
    BY <1>7, <2>3, <2>4
<1>17. DocumentTaken' /\ ListedHandlesStopped'
  BY <1>6, <1>8 DEF IInv, Lists, DocumentTaken, ListedHandlesStopped
<1> QED
  BY <1>9, <1>13, <1>14, <1>15, <1>16, <1>17 DEF IInv, Lists

LEMMA CreateKeeps ==
  ASSUME IInv, NEW t \in Threads, xdp_fuse_create(t)
  PROVE  IInv'
BY CreateMoves, CreateNewKeeps DEF xdp_fuse_create, At

-----------------------------------------------------------------------------
(* Replacing the document.                                                 *)

\* The tmps of an action that takes the backing file of some of them.
LEMMA WithoutSays ==
  ASSUME TypeOK, NEW others
  PROVE  /\ WithoutBacking(others) \in Seq(Tmp) /\ Len(WithoutBacking(others)) = Len(tmps)
         /\ DOMAIN WithoutBacking(others) = DOMAIN tmps
         /\ \A i \in DOMAIN tmps :
              /\ WithoutBacking(others)[i].parent = tmps[i].parent
              /\ WithoutBacking(others)[i].name = tmps[i].name
              /\ WithoutBacking(others)[i].backing = (tmps[i].backing /\ i \notin others)
              /\ i \notin others => WithoutBacking(others)[i] = tmps[i]
<1> DEFINE w == WithoutBacking(others)
<1>1. /\ DOMAIN tmps = 1..Len(tmps) /\ Len(tmps) \in Nat
      /\ \A i \in DOMAIN tmps : tmps[i] \in Tmp
  BY Tmps
<1>2. DOMAIN w = DOMAIN tmps
      /\ \A i \in DOMAIN tmps : w[i] = [tmps[i] EXCEPT !.backing = tmps[i].backing /\ i \notin others]
  BY DEF WithoutBacking
<1>3. ASSUME NEW i \in DOMAIN tmps
      PROVE  /\ w[i] \in Tmp /\ w[i].parent = tmps[i].parent /\ w[i].name = tmps[i].name
             /\ w[i].backing = (tmps[i].backing /\ i \notin others)
             /\ i \notin others => w[i] = tmps[i]
  <2> DEFINE b == tmps[i].backing /\ i \notin others
  <2>1. tmps[i] \in [parent : Views, name : Names, backing : BOOLEAN] /\ w[i] = [tmps[i] EXCEPT !.backing = b]
        /\ b \in BOOLEAN
    BY <1>1, <1>2 DEF Tmp
  <2>2. i \notin others => b = tmps[i].backing
    BY <2>1
  <2> HIDE DEF b, w
  <2>3. /\ w[i] \in [parent : Views, name : Names, backing : BOOLEAN]
        /\ w[i].parent = tmps[i].parent /\ w[i].name = tmps[i].name /\ w[i].backing = b
    BY <2>1
  <2>4. i \notin others => w[i] = tmps[i]
    BY <2>1, <2>2
  <2> QED
    BY <2>3, <2>4 DEF b, Tmp
<1> HIDE DEF w
<1>4. w \in [1..Len(tmps) -> Tmp]
  <2>1. w = [i \in 1..Len(tmps) |-> w[i]]
    BY <1>1, <1>2 DEF w, WithoutBacking
  <2> QED
    BY <1>1, <1>3, <2>1
<1>5. w \in Seq(Tmp) /\ Len(w) = Len(tmps)
  BY <1>1, <1>4
<1> QED
  BY <1>2, <1>3, <1>5 DEF w

LEMMA StealKeeps ==
  ASSUME IInv, NEW t \in Threads, StealBacking(t)
  PROVE  IInv'
<1> DEFINE i == call[t].tmp
<1>1. /\ TypeOK /\ call[t] # NULL /\ call[t].at = "steal" /\ Exclusive(t) /\ Knows(t)
      /\ UNCHANGED <<tmp_files, tmp_lock, temps, document, inplace, abandoned, open_files>>
      /\ \/ tmps' = WithoutBacking({i}) /\ Continue(t, "collect", i) /\ tmps[i].backing
         \/ UNCHANGED tmps /\ Reply(t)
  BY DEF StealBacking, At, backing, IInv, Busy
<1>2. i \in tmp_files /\ i \in DOMAIN tmps /\ tmps[i].parent = call[t].view /\ call[t].view \in Views
      /\ dir_lock[call[t].view] = t
  BY <1>1, Calls DEF Exclusive, Taking, InDirectory, TypeOK
<1>3. CASE UNCHANGED tmps /\ Reply(t)
  BY <1>1, <1>3, ReplyKeeps DEF Rest, Between, TypeOK
<1>4. CASE tmps' = WithoutBacking({i}) /\ Continue(t, "collect", i) /\ tmps[i].backing
  <2>1. /\ tmps' \in Seq(Tmp) /\ Len(tmps') = Len(tmps) /\ DOMAIN tmps' = DOMAIN tmps
        /\ \A j \in DOMAIN tmps :
             /\ tmps'[j].parent = tmps[j].parent /\ tmps'[j].name = tmps[j].name
             /\ tmps'[j].backing = (tmps[j].backing /\ j # i)
             /\ j # i => tmps'[j] = tmps[j]
    BY <1>1, <1>4, WithoutSays
  <2>2. i \in TmpIds /\ i \in TmpIds \cup {NULL} /\ "collect" \in Steps
    BY <1>1, <1>2, Tmps DEF Steps
  <2>3. /\ call' \in [Threads -> Call \cup {NULL}] /\ UNCHANGED dir_lock
        /\ call'[t] # NULL /\ call'[t].at = "collect" /\ call'[t].tmp = i
        /\ call'[t].view = call[t].view
        /\ \A u \in Threads \ {t} : call'[u] = call[u]
    BY <1>1, <1>4, <2>2, ContinueSays
  <2> HIDE DEF i
  <2>4. TypeOK'
    BY <1>1, <2>1, <2>3 DEF TypeOK
  <2>5. tmp_files \subseteq DOMAIN tmps
    BY <1>1 DEF TypeOK
  <2>6. \A u \in Threads \ {t} : Apart(u)
    BY <1>1, <1>2, <2>1, <2>3, <2>5 DEF Apart
  <2>7. HandlesKept
    BY <1>1 DEF HandlesKept
  <2>8. Exclusive(t)' /\ Knows(t)' /\ Marks(t)'
    BY <1>1, <1>2, <2>1, <2>3 DEF Exclusive, Knows, Marks, InDirectory, Taking, Opening, Between
  <2>9. Busy'
    BY <2>6, <2>7, <2>8, BusyKeeps
  <2>10. NamesUnique' /\ BackingExists' /\ TempsListed'
    BY <1>1, <2>1, <2>5 DEF IInv, Lists, NamesUnique, BackingExists, TempsListed
  <2>11. TakenMoves'
    <3> SUFFICES ASSUME NEW j \in tmp_files \cap temps, ~tmps'[j].backing, j \notin abandoned
                 PROVE  \E u \in Threads : call'[u] # NULL /\ call'[u].at \in Between /\ call'[u].tmp = j
      BY <1>1 DEF TakenMoves
    <3>1. CASE j = i
      BY <2>3, <3>1 DEF Between
    <3>2. CASE j # i
      <4>1. ~tmps[j].backing
        BY <2>1, <2>5, <3>2
      <4>2. PICK u \in Threads : call[u] # NULL /\ call[u].at \in Between /\ call[u].tmp = j
        BY <4>1 DEF IInv, Lists, TakenMoves
      <4>3. u # t
        BY <1>1, <4>2 DEF Between
      <4> QED
        BY <2>3, <4>2, <4>3
    <3> QED
      BY <3>1, <3>2
  <2>12. DocumentTaken' /\ ListedHandlesStopped'
    BY <1>1, <2>1 DEF IInv, Lists, DocumentTaken, ListedHandlesStopped, TypeOK
  <2> QED
    BY <2>4, <2>9, <2>10, <2>11, <2>12 DEF IInv, Lists
<1> QED
  BY <1>1, <1>3, <1>4

LEMMA RenameBackingKeeps ==
  ASSUME IInv, NEW t \in Threads, RenameBacking(t)
  PROVE  IInv'
<1> DEFINE i == call[t].tmp
<1>1. /\ TypeOK /\ call[t] # NULL /\ call[t].at = "mark" /\ call[t].found = {}
      /\ Exclusive(t) /\ Knows(t) /\ Marks(t)
      /\ UNCHANGED <<tmps, tmp_files, tmp_lock, inplace, open_files>>
      /\ \/ /\ document' = i /\ temps' = temps \ {i} /\ Continue(t, "rename_unlink", i)
            /\ UNCHANGED abandoned
         \/ Reply(t) /\ abandoned' = abandoned \cup {i} /\ UNCHANGED <<document, temps>>
  BY DEF RenameBacking, At, IInv, Busy
<1>2. i \in tmp_files /\ i \in DOMAIN tmps /\ tmps[i].parent = call[t].view /\ call[t].view \in Views
      /\ dir_lock[call[t].view] = t /\ ~tmps[i].backing /\ tmp_files \subseteq DOMAIN tmps
  BY <1>1, Calls DEF Exclusive, Knows, Taking, InDirectory, Between, TypeOK
<1>3. HandlesKept
  BY <1>1 DEF HandlesKept
<1>4. CASE document' = i /\ temps' = temps \ {i} /\ Continue(t, "rename_unlink", i) /\ UNCHANGED abandoned
  <2>1. i \in TmpIds /\ i \in TmpIds \cup {NULL} /\ "rename_unlink" \in Steps
    BY <1>1, <1>2, Tmps DEF Steps
  <2>2. /\ call' \in [Threads -> Call \cup {NULL}] /\ UNCHANGED dir_lock
        /\ call'[t] # NULL /\ call'[t].at = "rename_unlink" /\ call'[t].tmp = i
        /\ call'[t].view = call[t].view
        /\ \A u \in Threads \ {t} : call'[u] = call[u]
    BY <1>1, <1>4, <2>1, ContinueSays
  <2>3. ListedHandlesStopped'
    BY <1>1, <1>4 DEF Marks, ListedHandlesStopped
  <2> HIDE DEF i
  <2>4. TypeOK'
    BY <1>1, <1>2, <1>4, <2>2 DEF TypeOK
  <2>5. \A u \in Threads \ {t} : Apart(u)
    BY <1>1, <1>4, <2>2 DEF Apart
  <2>6. Exclusive(t)' /\ Knows(t)' /\ Marks(t)'
    BY <1>1, <1>2, <1>4, <2>2 DEF Exclusive, Knows, Marks, InDirectory, Taking, Opening, Between
  <2>7. Busy'
    BY <1>3, <2>5, <2>6, BusyKeeps
  <2>8. NamesUnique' /\ BackingExists' /\ TempsListed' /\ DocumentTaken'
    BY <1>1, <1>2, <1>4 DEF IInv, Lists, NamesUnique, BackingExists, TempsListed, DocumentTaken
  <2>9. TakenMoves'
    <3> SUFFICES ASSUME NEW j \in tmp_files \cap temps, j # i, ~tmps[j].backing, j \notin abandoned
                 PROVE  \E u \in Threads : call'[u] # NULL /\ call'[u].at \in Between /\ call'[u].tmp = j
      BY <1>1, <1>4 DEF TakenMoves
    <3>1. PICK u \in Threads : call[u] # NULL /\ call[u].at \in Between /\ call[u].tmp = j
      BY DEF IInv, Lists, TakenMoves
    <3>2. u # t
      BY <3>1 DEF i
    <3> QED
      BY <2>2, <3>1, <3>2
  <2> QED
    BY <2>3, <2>4, <2>7, <2>8, <2>9 DEF IInv, Lists
<1>5. CASE Reply(t) /\ abandoned' = abandoned \cup {i} /\ UNCHANGED <<document, temps>>
  <2>1. /\ call' \in [Threads -> Call \cup {NULL}] /\ call'[t] = NULL
        /\ \A u \in Threads \ {t} : call'[u] = call[u]
        /\ dir_lock' \in [Views -> Threads \cup {NULL, "unanswered"}]
        /\ \A u \in Threads \ {t}, v \in Views : dir_lock[v] = u => dir_lock'[v] = u
    BY <1>1, <1>5, ReplySays
  <2> HIDE DEF i
  <2>2. TypeOK'
    BY <1>1, <1>2, <1>5, <2>1 DEF TypeOK
  <2>3. \A u \in Threads \ {t} : Apart(u)
    BY <1>1, <1>5, <2>1 DEF Apart
  <2>4. Busy'
    BY <1>3, <2>1, <2>3, BusyKeeps
  <2>5. /\ NamesUnique' /\ BackingExists' /\ TempsListed' /\ DocumentTaken' /\ ListedHandlesStopped'
    BY <1>1, <1>5 DEF IInv, Lists, NamesUnique, BackingExists, TempsListed, DocumentTaken,
                      ListedHandlesStopped
  <2>6. TakenMoves'
    <3> SUFFICES ASSUME NEW j \in tmp_files \cap temps, ~tmps[j].backing, j \notin abandoned, j # i
                 PROVE  \E u \in Threads : call'[u] # NULL /\ call'[u].at \in Between /\ call'[u].tmp = j
      BY <1>1, <1>5 DEF TakenMoves
    <3>1. PICK u \in Threads : call[u] # NULL /\ call[u].at \in Between /\ call[u].tmp = j
      BY DEF IInv, Lists, TakenMoves
    <3>2. u # t
      BY <3>1 DEF i
    <3> QED
      BY <2>1, <3>1, <3>2
  <2> QED
    BY <2>2, <2>4, <2>5, <2>6 DEF IInv, Lists
<1> QED
  BY <1>1, <1>4, <1>5

-----------------------------------------------------------------------------
(* Taking tmps off the list.                                               *)

\* Whoever takes tmps of its directory off the list finds none of them with a
\* file that another thread is about to rename.
LEMMA NoneBetween ==
  ASSUME IInv, NEW t \in Threads, call[t] # NULL, call[t].at \in InDirectory,
         call[t].at \notin Between, NEW i \in tmp_files, tmps[i].parent = call[t].view,
         i \in temps, ~tmps[i].backing
  PROVE  i \in abandoned
<1> SUFFICES ASSUME i \notin abandoned PROVE FALSE
  OBVIOUS
<1>1. PICK u \in Threads : call[u] # NULL /\ call[u].at \in Between /\ call[u].tmp = i
  BY DEF IInv, Lists, TakenMoves
<1>2. dir_lock[call[t].view] = t
  BY DEF IInv, Busy, Exclusive
<1>3. call[u].at \in InDirectory /\ call[u].at \in Taking
  BY <1>1 DEF Between, InDirectory, Taking
<1>4. dir_lock[call[u].view] = u /\ tmps[i].parent = call[u].view
  BY <1>1, <1>3 DEF IInv, Busy, Exclusive
<1> QED
  BY <1>1, <1>2, <1>4

\* What is left of the list when others go, with names that may have changed.
LEMMA UnlinkKeeps ==
  ASSUME IInv, NEW t \in Threads, call[t] # NULL,
         call[t].at \in {"steal", "rename_unlink", "unlink_tmp"},
         NEW others, others \subseteq tmp_files, xdp_tmp_unlink_nolock(others),
         \A i \in others : tmps[i].parent = call[t].view
                           /\ (call[t].at = "rename_unlink" => i \notin temps),
         tmps' \in Seq(Tmp), Len(tmps') = Len(tmps), DOMAIN tmps' = DOMAIN tmps,
         \A i \in DOMAIN tmps :
           /\ tmps'[i].parent = tmps[i].parent
           /\ tmps'[i].backing = (tmps[i].backing /\ i \notin others)
           /\ i \notin others /\ tmps[i].parent # call[t].view => tmps'[i] = tmps[i],
         NamesUnique', UNCHANGED <<document, open_files, inplace>>,
         tmp_lock' \in Threads \cup {NULL}, call' \in [Threads -> Call \cup {NULL}],
         call'[t] = NULL \/ call'[t].at = "notify",
         \A u \in Threads \ {t} : call'[u] = call[u],
         dir_lock' \in [Views -> Threads \cup {NULL, "unanswered"}],
         \A u \in Threads \ {t}, v \in Views : dir_lock[v] = u => dir_lock'[v] = u
  PROVE  IInv'
<1>1. /\ TypeOK /\ tmp_files \subseteq DOMAIN tmps /\ temps \subseteq DOMAIN tmps
      /\ abandoned \subseteq DOMAIN tmps
  BY DEF IInv, TypeOK
<1>2. /\ tmp_files' = tmp_files \ others
      /\ \/ temps' = temps \ {i \in others : tmps[i].backing} /\ abandoned' = abandoned
         \/ temps' = temps /\ abandoned' = abandoned \cup {i \in others : tmps[i].backing}
  BY DEF xdp_tmp_unlink_nolock
<1>3. call[t].at \in InDirectory /\ call[t].at \notin Between /\ call[t].view \in Views
      /\ dir_lock[call[t].view] = t
  BY <1>1, Calls DEF InDirectory, Between, IInv, Busy, Exclusive
<1>4. TypeOK'
  BY <1>1, <1>2 DEF TypeOK
<1>5. \A u \in Threads \ {t} : Apart(u)
  <2> SUFFICES ASSUME NEW u \in Threads \ {t}, NEW i \in tmp_files, dir_lock[tmps[i].parent] = u
               PROVE  i \in tmp_files' /\ tmps'[i] = tmps[i] /\ (i \in temps' => i \in temps)
    BY DEF Apart
  <2>1. tmps[i].parent # call[t].view /\ i \notin others /\ i \in DOMAIN tmps
    BY <1>1, <1>3
  <2> QED
    BY <1>2, <2>1
<1>6. HandlesKept
  BY DEF HandlesKept
<1>7. Busy'
  <2>1. call'[t] # NULL => Exclusive(t)' /\ Knows(t)' /\ Marks(t)'
    BY DEF Exclusive, Knows, Marks, InDirectory, Taking, Opening, Between
  <2> QED
    BY <1>5, <1>6, <2>1, BusyKeeps
<1>8. BackingExists'
  BY <1>1, <1>2 DEF IInv, Lists, BackingExists
<1>9. TempsListed'
  <2> SUFFICES ASSUME NEW i \in temps', i \notin abandoned'
               PROVE  i \in tmp_files'
    BY DEF TempsListed
  <2>1. i \in temps /\ i \notin abandoned /\ i \in tmp_files
    BY <1>2 DEF IInv, Lists, TempsListed
  <2>2. CASE i \in others
    <3>1. ~tmps[i].backing
      BY <1>2, <2>2
    <3>2. i \in abandoned
      BY <1>3, <2>1, <2>2, <3>1, NoneBetween
    <3> QED
      BY <2>1, <3>2
  <2> QED
    BY <1>2, <2>1, <2>2
<1>10. TakenMoves'
  <2> SUFFICES ASSUME NEW i \in tmp_files' \cap temps', ~tmps'[i].backing, i \notin abandoned'
               PROVE  \E u \in Threads : call'[u] # NULL /\ call'[u].at \in Between /\ call'[u].tmp = i
    BY DEF TakenMoves
  <2>1. i \in tmp_files \cap temps /\ ~tmps[i].backing /\ i \notin abandoned
    BY <1>1, <1>2
  <2>2. PICK u \in Threads : call[u] # NULL /\ call[u].at \in Between /\ call[u].tmp = i
    BY <2>1 DEF IInv, Lists, TakenMoves
  <2>3. u # t
    BY <1>3, <2>2
  <2> QED
    BY <2>2, <2>3
<1>11. DocumentTaken' /\ ListedHandlesStopped'
  BY <1>1 DEF IInv, Lists, DocumentTaken, ListedHandlesStopped, TypeOK
<1> QED
  BY <1>4, <1>7, <1>8, <1>9, <1>10, <1>11 DEF IInv, Lists

\* One tmp goes: an unlink, or the end of a rename over the document.
LEMMA UnlinkOneKeeps ==
  ASSUME IInv, NEW t \in Threads, UnlinkTmp(t) \/ UnlinkRenamed(t)
  PROVE  IInv'
<1> DEFINE i == call[t].tmp
<1>1. /\ TypeOK /\ call[t] # NULL /\ call[t].at \in {"rename_unlink", "unlink_tmp"}
      /\ Exclusive(t) /\ Knows(t)
      /\ xdp_tmp_unlink_nolock({i}) /\ tmps' = WithoutBacking({i})
      /\ UNCHANGED <<document, open_files, inplace>> /\ tmp_lock' \in Threads \cup {NULL}
      /\ \/ Reply(t)
         \/ call' = [call EXCEPT ![t].at = "notify"] /\ GiveDirectory(t, NULL)
  BY DEF UnlinkTmp, UnlinkRenamed, At, IInv, Busy, TypeOK, ReleaseDirectory
<1>2. i \in tmp_files /\ tmps[i].parent = call[t].view
      /\ (call[t].at = "rename_unlink" => i \notin temps) /\ tmp_files \subseteq DOMAIN tmps
  BY <1>1 DEF Exclusive, Knows, Taking, TypeOK
<1>3. /\ tmps' \in Seq(Tmp) /\ Len(tmps') = Len(tmps) /\ DOMAIN tmps' = DOMAIN tmps
      /\ \A j \in DOMAIN tmps :
           /\ tmps'[j].parent = tmps[j].parent /\ tmps'[j].name = tmps[j].name
           /\ tmps'[j].backing = (tmps[j].backing /\ j \notin {i})
           /\ j \notin {i} => tmps'[j] = tmps[j]
  BY <1>1, WithoutSays
<1>4. /\ dir_lock' \in [Views -> Threads \cup {NULL, "unanswered"}]
      /\ \A u \in Threads \ {t}, v \in Views : dir_lock[v] = u => dir_lock'[v] = u
  BY <1>1, ReplySays, GiveSays
<1>5. /\ call' \in [Threads -> Call \cup {NULL}] /\ (call'[t] = NULL \/ call'[t].at = "notify")
      /\ \A u \in Threads \ {t} : call'[u] = call[u]
  <2>1. CASE Reply(t)
    BY <1>1, <2>1, ReplySays
  <2>2. CASE call' = [call EXCEPT ![t].at = "notify"]
    <3> DEFINE c == [call[t] EXCEPT !.at = "notify"]
    <3>1. c \in Call /\ c.at = "notify"
      BY <1>1, Calls DEF Call, Steps
    <3>2. call' = [call EXCEPT ![t] = c] /\ call \in [Threads -> Call \cup {NULL}]
      BY <1>1, <2>2 DEF TypeOK
    <3> HIDE DEF c
    <3> QED
      BY <3>1, <3>2
  <2> QED
    BY <1>1, <2>1, <2>2
<1> HIDE DEF i
<1>6. tmp_files' = tmp_files \ {i}
  BY <1>1 DEF xdp_tmp_unlink_nolock
<1>7. NamesUnique'
  BY <1>2, <1>3, <1>6 DEF IInv, Lists, NamesUnique
<1>8. /\ call[t].at \in {"steal", "rename_unlink", "unlink_tmp"} /\ {i} \subseteq tmp_files
      /\ \A j \in {i} : tmps[j].parent = call[t].view /\ (call[t].at = "rename_unlink" => j \notin temps)
  BY <1>1, <1>2
<1> QED
  BY <1>1, <1>3, <1>4, <1>5, <1>7, <1>8, UnlinkKeeps

LEMMA RenameTmpKeeps ==
  ASSUME IInv, NEW t \in Threads, RenameTmp(t)
  PROVE  IInv'
<1> DEFINE i == call[t].tmp
           other == find_tmp_by_name_nolock(call[t].view, call[t].newname)
           w == WithoutBacking(other)
<1>1. /\ TypeOK /\ call[t] # NULL /\ call[t].at = "steal" /\ call[t].newname # Basename
      /\ Exclusive(t) /\ Knows(t)
      /\ xdp_tmp_unlink_nolock(other) /\ tmps' = [w EXCEPT ![i].name = call[t].newname]
      /\ Reply(t) /\ UNCHANGED <<tmp_lock, document, open_files, inplace>>
  BY DEF RenameTmp, At, IInv, Busy
<1>2. /\ i \in tmp_files /\ i \in DOMAIN tmps /\ tmps[i].parent = call[t].view
      /\ tmps[i].name # call[t].newname /\ tmp_files \subseteq DOMAIN tmps
      /\ call[t].newname \in Names
  BY <1>1, Calls DEF Exclusive, Knows, Taking, TypeOK
<1>3. /\ other \subseteq tmp_files /\ i \notin other
      /\ \A j \in tmp_files :
           j \in other <=> tmps[j].parent = call[t].view /\ tmps[j].name = call[t].newname
  BY <1>2 DEF find_tmp_by_name_nolock
<1>4. /\ w \in Seq(Tmp) /\ Len(w) = Len(tmps) /\ DOMAIN w = DOMAIN tmps
      /\ \A j \in DOMAIN tmps :
           /\ w[j].parent = tmps[j].parent /\ w[j].name = tmps[j].name
           /\ w[j].backing = (tmps[j].backing /\ j \notin other)
           /\ j \notin other => w[j] = tmps[j]
  BY <1>1, WithoutSays
<1> HIDE DEF other, w
<1>5. tmps[i] \in Tmp /\ w[i] = tmps[i] /\ Len(tmps) \in Nat /\ DOMAIN tmps = 1..Len(tmps)
  BY <1>1, <1>2, <1>3, <1>4, Tmps
<1> DEFINE n == [w[i] EXCEPT !.name = call[t].newname]
<1>6. n \in Tmp /\ n.parent = tmps[i].parent /\ n.backing = tmps[i].backing /\ n.name = call[t].newname
  BY <1>2, <1>5 DEF Tmp
<1>7. tmps' = [w EXCEPT ![i] = n]
  BY <1>1
<1> HIDE DEF n, i
<1>8. /\ tmps' \in Seq(Tmp) /\ Len(tmps') = Len(tmps) /\ DOMAIN tmps' = DOMAIN tmps
      /\ tmps'[i] = n /\ \A j \in DOMAIN tmps \ {i} : tmps'[j] = w[j]
  <2>1. w \in [1..Len(tmps) -> Tmp]
    BY <1>4, <1>5
  <2>2. tmps' \in [1..Len(tmps) -> Tmp]
    BY <1>6, <1>7, <2>1
  <2> QED
    BY <1>2, <1>4, <1>5, <1>7, <2>2
<1>9. \A j \in DOMAIN tmps :
        /\ tmps'[j].parent = tmps[j].parent
        /\ tmps'[j].backing = (tmps[j].backing /\ j \notin other)
        /\ j \notin other /\ tmps[j].parent # call[t].view => tmps'[j] = tmps[j]
  BY <1>2, <1>3, <1>4, <1>6, <1>8
<1>10. tmp_files' = tmp_files \ other
  BY <1>1 DEF xdp_tmp_unlink_nolock
<1>11. NamesUnique'
  <2> SUFFICES ASSUME NEW j \in tmp_files \ other, NEW k \in tmp_files \ other,
                      tmps'[j].parent = tmps'[k].parent, tmps'[j].name = tmps'[k].name
               PROVE  j = k
    BY <1>10 DEF NamesUnique
  <2>1. \A l \in tmp_files \ other : l # i => tmps'[l].parent = tmps[l].parent /\ tmps'[l].name = tmps[l].name
    BY <1>2, <1>4, <1>8
  <2>2. \A l \in tmp_files \ other :
          l # i => ~(tmps'[l].parent = call[t].view /\ tmps'[l].name = call[t].newname)
    BY <1>3, <2>1
  <2>3. tmps'[i].parent = call[t].view /\ tmps'[i].name = call[t].newname
    BY <1>2, <1>6, <1>8
  <2>4. CASE j # i /\ k # i
    BY <2>1, <2>4 DEF IInv, Lists, NamesUnique
  <2>5. CASE j = i /\ k # i
    BY <2>2, <2>3, <2>5
  <2>6. CASE j # i /\ k = i
    BY <2>2, <2>3, <2>6
  <2> QED
    BY <2>4, <2>5, <2>6
<1>12. /\ call' \in [Threads -> Call \cup {NULL}] /\ call'[t] = NULL
       /\ \A u \in Threads \ {t} : call'[u] = call[u]
       /\ dir_lock' \in [Views -> Threads \cup {NULL, "unanswered"}]
       /\ \A u \in Threads \ {t}, v \in Views : dir_lock[v] = u => dir_lock'[v] = u
       /\ tmp_lock' \in Threads \cup {NULL}
  BY <1>1, ReplySays DEF TypeOK
<1>13. \A j \in other : tmps[j].parent = call[t].view /\ (call[t].at = "rename_unlink" => j \notin temps)
  BY <1>1, <1>3
<1> QED
  BY <1>1, <1>3, <1>8, <1>9, <1>11, <1>12, <1>13, UnlinkKeeps

-----------------------------------------------------------------------------
(* The theorems.                                                           *)

LEMMA InvInit == Init => IInv
<1> SUFFICES ASSUME Init PROVE IInv
  OBVIOUS
<1>1. TypeOK
  BY MaxTmpsAssumption DEF Init, TypeOK
<1>2. Busy /\ Lists /\ ListedHandlesStopped
  BY DEF Init, Busy, Lists, NamesUnique, BackingExists, TempsListed, TakenMoves, DocumentTaken,
         ListedHandlesStopped
<1> QED
  BY <1>1, <1>2 DEF IInv

LEMMA InvStep == IInv /\ [Next]_vars => IInv'
<1> SUFFICES ASSUME IInv, [Next]_vars PROVE IInv'
  OBVIOUS
<1>1. ASSUME NEW t \in Threads, Handler(t)
      PROVE  IInv'
  BY <1>1, OpenKeeps, OpenHandleKeeps, CreateKeeps, CreateHandleKeeps, LookupsKeep,
     RenameTmpKeeps, StealKeeps, CollectKeeps, MarkHandleKeeps, RenameBackingKeeps,
     UnlinkOneKeeps, NotifyKeeps DEF Handler
<1>2. CASE UNCHANGED vars
  <2>1. UNCHANGED <<tmps, tmp_files, tmp_lock, open_files, call, dir_lock, temps, document,
                    inplace, abandoned>>
    BY <1>2 DEF vars, backing
  <2>2. TypeOK' /\ HandlesKept
    BY <2>1 DEF IInv, TypeOK, HandlesKept
  <2>3. Busy'
    BY <2>1 DEF IInv, Busy, Exclusive, Knows, Marks
  <2>4. Lists' /\ ListedHandlesStopped'
    BY <2>1 DEF IInv, Lists, NamesUnique, BackingExists, TempsListed, TakenMoves, DocumentTaken,
                ListedHandlesStopped
  <2> QED
    BY <2>2, <2>3, <2>4 DEF IInv
<1> QED
  BY <1>1, <1>2, StartInDirectoryKeeps, StartOpenKeeps, OnHandleKeeps DEF Next

\* At every step of every request the directory lock keeps its tmp, each
\* thread knows its tmp as Knows says, and the lists are as Lists says.
THEOREM Invariant == Spec => []IInv
BY InvInit, InvStep, PTL DEF Spec

\* The list of tmps and the directory of the document agree in both directions
\* and no name is listed twice, whatever creates, renames, opens and unlinks
\* overlap and whichever of their calls fail.
THEOREM TempsAreSound == Spec => []TempsSound
<1>1. IInv => TempsSound
  BY DEF IInv, Lists, TempsSound
<1> QED
  BY <1>1, Invariant, PTL

\* A tmp is taken off the list by a thread that finds it there, so the
\* reference of the list is dropped once (xdp_tmp_unlink_nolock).
THEOREM TmpUnlinkedOnce == Spec => []UnlinkedOnce
<1>1. IInv => UnlinkedOnce
  BY DEF IInv, Busy, Exclusive, Taking, UnlinkedOnce
<1> QED
  BY <1>1, Invariant, PTL

\* A handle that was open on a tmp before its file was taken to replace the
\* document is read-only once it has (mark_open_tmp_file_readonly).
THEOREM ListedHandlesAreStopped == Spec => []ListedHandlesStopped
<1>1. IInv => ListedHandlesStopped
  BY DEF IInv
<1> QED
  BY <1>1, Invariant, PTL
=============================================================================
