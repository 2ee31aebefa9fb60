-------------------------- MODULE XdgAppDirProofs --------------------------
(***************************************************************************)
(* Proofs about XdgAppDir for every set of refs, commits, commands and     *)
(* apps, and any number of overlaps, failures and kills.                   *)
(***************************************************************************)
EXTENDS XdgAppDir, FiniteSetTheorems, TLAPS

-----------------------------------------------------------------------------
(* The parts of TypeOK.                                                    *)

Ops == {"none", "install", "bundle", "update", "uninstall", "current"}
AppPlaces == {"none", "starting", "mounted", "locked", "unlocked"}
Commands == [op : Ops, ref : Refs \cup {NULL}, force : BOOLEAN, want : Commits \cup {NULL},
             prev : Commits \cup Dirs \cup {NULL}, todo : SUBSET (Commits \cup Dirs),
             alone : BOOLEAN, at : Places]
Sandboxes == [at : AppPlaces, ref : Refs \cup {NULL}, dir : Dirs \cup {NULL}, early : BOOLEAN]

BaseOK == base \subseteq Refs /\ origin \subseteq base /\ installed \subseteq Refs
CurrentOK == current \in AppRefs \cup {NULL}
TreesOK == removed \subseteq Dirs /\ whole \subseteq Dirs /\ spoiled \subseteq Dirs
DeployedOK == deployed \in [Refs -> [Commits -> Dirs \cup {NULL}]]
ActiveOK == active \in [Refs -> Commits \cup {NULL}]
ExportsOK == exports \subseteq UNION {Exported[c] : c \in Commits}
SuspectOK == suspect \in BOOLEAN
CountsOK == started \in 0 .. MaxCommands /\ trouble \in 0 .. MaxTrouble
CmdOK == cmd \in [Slots -> Commands]
\* An app that starts has a ref.
AppOK ==
  /\ app \in [Apps -> Sandboxes]
  /\ \A a \in Apps : app[a].at = "starting" => app[a].ref \in Refs

\* What a command has at each of its steps.
CmdShaped == \A s \in Slots :
  /\ cmd[s].at = "idle" => cmd[s].op = "none"
  /\ cmd[s].at # "idle" => cmd[s].ref \in Refs
  /\ cmd[s].op = "update" => cmd[s].at \notin {"deactivate", "drop", "list", "rmbase"}
  /\ cmd[s].op = "uninstall" =>
       cmd[s].at \notin {"pull", "mkdir", "origin", "deploy", "checkout", "fill", "activate",
                         "unlink", "link", "rollback"}
  /\ cmd[s].at \in {"checkout", "fill", "activate"} =>
       cmd[s].want \in Commits /\ cmd[s].prev \in Commits \cup {NULL}
  /\ cmd[s].at \in {"undeploy", "move", "check", "rmtree"} => cmd[s].todo \subseteq Commits
  /\ cmd[s].at = "move" => cmd[s].prev \in Commits
  /\ cmd[s].at \in {"check", "rmtree", "clean"} => cmd[s].prev \in Dirs
  /\ cmd[s].at \in {"look", "clean"} => cmd[s].todo \subseteq Dirs
  /\ cmd[s].at \in {"drop", "link", "export", "dangling"} => cmd[s].ref \in AppRefs

-----------------------------------------------------------------------------
(* The parts of the invariant.                                             *)

\* Nothing but a checkout that is deployed or under .removed has files.
IsDeployed(d) == \E r \in Refs, c \in Commits : deployed[r][c] = d
WholeSomewhere == \A d \in whole : d \in removed \/ IsDeployed(d)

\* What a command has found under .removed is not deployed again meanwhile.
Gone(s, d) ==
  \/ cmd[s].at \in {"check", "rmtree", "clean"} /\ cmd[s].prev = d
  \/ cmd[s].at \in {"look", "clean"} /\ d \in cmd[s].todo
GoneStays == \A s \in Slots, r \in Refs, c \in Commits : ~Gone(s, deployed[r][c])

\* A command that is about to delete a checkout saw no lock on it.
Deletes(s, d) ==
  /\ cmd[s].prev = d
  /\ cmd[s].at = "clean" \/ (cmd[s].at = "rmtree" /\ ~cmd[s].force)
Keeps(a) == app[a].at = "locked" /\ app[a].early /\ app[a].dir \notin spoiled
LockSeen == \A a \in Apps, s \in Slots : Keeps(a) => ~Deletes(s, app[a].dir)

\* A command that has changed what is to be exported goes through the exports
\* later: first it makes what is missing, then it removes what dangles.
Exporting(s) ==
  cmd[s].ref \in AppRefs /\
  cmd[s].at \in {"activate", "unlink", "link", "deactivate", "drop", "list", "undeploy",
                 "move", "check", "rmtree", "rmbase", "export"}
NoneMissing == ~suspect => Exposed \subseteq exports \/ \E s \in Slots : Exporting(s)
NoneDangles ==
  ~suspect => \/ exports \subseteq Exposed
              \/ \E s \in Slots : Exporting(s) \/ At(s, "dangling")

\* A command that is alone is, and what an uninstall that is has done by now.
AloneIsAlone == \A s, u \in Slots : cmd[s].alone /\ u # s => At(u, "idle")
Ended == {"cleanup", "look", "clean", "done"}
AloneUninstall(s) == cmd[s].op = "uninstall" /\ cmd[s].alone
Uninstalling == \A s \in Slots : AloneUninstall(s) =>
  /\ ~At(s, "deactivate") => active[cmd[s].ref] = NULL
  /\ cmd[s].at \notin {"deactivate", "drop"} => current # cmd[s].ref
  /\ cmd[s].at \in {"export", "dangling"} \cup Ended =>
       cmd[s].ref \notin base /\ \A c \in Commits : deployed[cmd[s].ref][c] = NULL
Trimmed == \A s \in Slots :
  AloneUninstall(s) /\ cmd[s].at \in Ended /\ cmd[s].ref \in AppRefs => exports \subseteq Exposed

Types ==
  /\ BaseOK /\ CurrentOK /\ TreesOK /\ DeployedOK /\ ActiveOK /\ ExportsOK /\ SuspectOK
  /\ CountsOK /\ CmdOK /\ AppOK
Trees == DirsUnique /\ DirsApart /\ WholeSomewhere /\ GoneStays
IInv ==
  /\ Types /\ CmdShaped /\ Trees
  /\ LockSeen /\ LockedKeepsFiles
  /\ NoneMissing /\ NoneDangles
  /\ AloneIsAlone /\ Uninstalling /\ Trimmed

-----------------------------------------------------------------------------
(* What the steps do to the commands, field by field.                      *)

LEMMA Fields ==
  ASSUME NEW c \in Commands
  PROVE  /\ c.op \in Ops /\ c.ref \in Refs \cup {NULL} /\ c.force \in BOOLEAN
         /\ c.want \in Commits \cup {NULL} /\ c.prev \in Commits \cup Dirs \cup {NULL}
         /\ c.todo \in SUBSET (Commits \cup Dirs) /\ c.alone \in BOOLEAN /\ c.at \in Places
BY DEF Commands

LEMMA PlaceNames ==
  \A p \in {"pull", "mkdir", "origin", "deploy", "checkout", "fill", "activate", "link",
            "export", "dangling", "deactivate", "drop", "list", "undeploy", "move", "rmbase",
            "idle", "unlink", "check", "rmtree", "rollback", "cleanup", "look", "clean", "done"} :
    p \in Places
BY DEF Places, Fallible

Others(s) == \A u \in Slots : u # s => cmd'[u] = cmd[u]
Keeps4(s) ==
  /\ cmd'[s].op = cmd[s].op /\ cmd'[s].ref = cmd[s].ref
  /\ cmd'[s].force = cmd[s].force /\ cmd'[s].alone = cmd[s].alone

\* s goes on at a place with what it has to do.
Goes(s, at, want, prev, todo) ==
  /\ Others(s) /\ Keeps4(s)
  /\ cmd'[s].at = at /\ cmd'[s].want = want /\ cmd'[s].prev = prev /\ cmd'[s].todo = todo
GoesTo(s, at) == Goes(s, at, cmd[s].want, cmd[s].prev, cmd[s].todo)

Ends(s) ==
  /\ Others(s)
  /\ cmd'[s].op = "none" /\ cmd'[s].ref = NULL /\ ~cmd'[s].alone /\ cmd'[s].at = "idle"

LEMMA Sets ==
  ASSUME CmdOK, NEW s \in Slots, NEW c \in Commands, cmd' = [cmd EXCEPT ![s] = c]
  PROVE  CmdOK' /\ Others(s) /\ cmd'[s] = c
BY DEF CmdOK, Others

LEMMA NoCommandOK ==
  /\ NoCommand \in Commands
  /\ NoCommand.op = "none" /\ NoCommand.ref = NULL /\ ~NoCommand.alone /\ NoCommand.at = "idle"
<1>1. NoCommand \in Commands
  <2>1. "idle" \in Places /\ "none" \in Ops
    BY PlaceNames DEF Ops
  <2>2. QED
    BY <2>1 DEF NoCommand, Commands
<1>2. QED
  BY <1>1 DEF NoCommand

LEMMA EndsStep ==
  ASSUME CmdOK, NEW s \in Slots, cmd' = [cmd EXCEPT ![s] = NoCommand]
  PROVE  CmdOK' /\ Ends(s)
BY Sets, NoCommandOK DEF Ends

\* One lemma for every form of an update.
LEMMA GotoStep ==
  ASSUME CmdOK, NEW s \in Slots, NEW at \in Places, Goto(s, at)
  PROVE  CmdOK' /\ GoesTo(s, at)
<1> DEFINE c == [cmd[s] EXCEPT !.at = at]
<1>1. cmd[s] \in Commands
  BY DEF CmdOK
<1>2. /\ c \in Commands /\ c.at = at /\ c.want = cmd[s].want /\ c.prev = cmd[s].prev
      /\ c.todo = cmd[s].todo /\ c.op = cmd[s].op /\ c.ref = cmd[s].ref
      /\ c.force = cmd[s].force /\ c.alone = cmd[s].alone
  BY <1>1 DEF Commands
<1>3. cmd' = [cmd EXCEPT ![s] = c]
  BY DEF Goto, CmdOK
<1> HIDE DEF c
<1>4. QED
  BY <1>2, <1>3, Sets DEF GoesTo, Goes, Keeps4

LEMMA TodoStep ==
  ASSUME CmdOK, NEW s \in Slots, NEW at \in Places, NEW todo \in SUBSET (Commits \cup Dirs),
         cmd' = [cmd EXCEPT ![s].todo = todo, ![s].at = at]
  PROVE  CmdOK' /\ Goes(s, at, cmd[s].want, cmd[s].prev, todo)
<1> DEFINE c == [cmd[s] EXCEPT !.todo = todo, !.at = at]
<1>1. cmd[s] \in Commands
  BY DEF CmdOK
<1>2. /\ c \in Commands /\ c.at = at /\ c.want = cmd[s].want /\ c.prev = cmd[s].prev
      /\ c.todo = todo /\ c.op = cmd[s].op /\ c.ref = cmd[s].ref
      /\ c.force = cmd[s].force /\ c.alone = cmd[s].alone
  BY <1>1 DEF Commands
<1>3. cmd' = [cmd EXCEPT ![s] = c]
  BY DEF CmdOK
<1> HIDE DEF c
<1>4. QED
  BY <1>2, <1>3, Sets DEF Goes, Keeps4

LEMMA PrevStep ==
  ASSUME CmdOK, NEW s \in Slots, NEW at \in Places, NEW prev \in Commits \cup Dirs \cup {NULL},
         cmd' = [cmd EXCEPT ![s].prev = prev, ![s].at = at]
  PROVE  CmdOK' /\ Goes(s, at, cmd[s].want, prev, cmd[s].todo)
<1> DEFINE c == [cmd[s] EXCEPT !.prev = prev, !.at = at]
<1>1. cmd[s] \in Commands
  BY DEF CmdOK
<1>2. /\ c \in Commands /\ c.at = at /\ c.want = cmd[s].want /\ c.prev = prev
      /\ c.todo = cmd[s].todo /\ c.op = cmd[s].op /\ c.ref = cmd[s].ref
      /\ c.force = cmd[s].force /\ c.alone = cmd[s].alone
  BY <1>1 DEF Commands
<1>3. cmd' = [cmd EXCEPT ![s] = c]
  BY DEF CmdOK
<1> HIDE DEF c
<1>4. QED
  BY <1>2, <1>3, Sets DEF Goes, Keeps4

LEMMA PickStep ==
  ASSUME CmdOK, NEW s \in Slots, NEW at \in Places, NEW d \in Commits \cup Dirs,
         cmd' = [cmd EXCEPT ![s].todo = @ \ {d}, ![s].prev = d, ![s].at = at]
  PROVE  CmdOK' /\ Goes(s, at, cmd[s].want, d, cmd[s].todo \ {d})
<1> DEFINE todo == cmd[s].todo \ {d}
           c == [cmd[s] EXCEPT !.todo = todo, !.prev = d, !.at = at]
<1>1. cmd[s] \in Commands
  BY DEF CmdOK
<1>2. todo \in SUBSET (Commits \cup Dirs)
  BY <1>1, Fields
<1>3. cmd' = [cmd EXCEPT ![s] = c]
  BY DEF CmdOK
<1> HIDE DEF todo
<1>4. /\ c \in Commands /\ c.at = at /\ c.want = cmd[s].want /\ c.prev = d
      /\ c.todo = todo /\ c.op = cmd[s].op /\ c.ref = cmd[s].ref
      /\ c.force = cmd[s].force /\ c.alone = cmd[s].alone
  BY <1>1, <1>2 DEF Commands
<1> HIDE DEF c
<1>5. CmdOK' /\ Goes(s, at, cmd[s].want, d, todo)
  BY <1>3, <1>4, Sets DEF Goes, Keeps4
<1>6. QED
  BY <1>5 DEF todo

LEMMA WantStep ==
  ASSUME CmdOK, NEW s \in Slots, NEW at \in Places, NEW c \in Commits,
         NEW prev \in Commits \cup {NULL}, NEW here,
         here = [cmd[s] EXCEPT !.want = c, !.prev = prev],
         cmd' = [cmd EXCEPT ![s] = [here EXCEPT !.at = at]]
  PROVE  CmdOK' /\ Goes(s, at, c, prev, cmd[s].todo)
<1> DEFINE n == [here EXCEPT !.at = at]
<1>1. cmd[s] \in Commands
  BY DEF CmdOK
<1>2. /\ here \in Commands /\ here.want = c /\ here.prev = prev
      /\ here.todo = cmd[s].todo /\ here.op = cmd[s].op /\ here.ref = cmd[s].ref
      /\ here.force = cmd[s].force /\ here.alone = cmd[s].alone
  BY <1>1 DEF Commands
<1>3. /\ n \in Commands /\ n.at = at /\ n.want = c /\ n.prev = prev
      /\ n.todo = cmd[s].todo /\ n.op = cmd[s].op /\ n.ref = cmd[s].ref
      /\ n.force = cmd[s].force /\ n.alone = cmd[s].alone
  BY <1>2 DEF Commands
<1>4. cmd' = [cmd EXCEPT ![s] = n]
  OBVIOUS
<1> HIDE DEF n
<1>5. QED
  BY <1>3, <1>4, Sets DEF Goes, Keeps4

-----------------------------------------------------------------------------
(* The next-state relation, field by field.                                *)

SameBase == base' = base /\ origin' = origin
SameTrees == deployed' = deployed /\ removed' = removed /\ whole' = whole /\ spoiled' = spoiled
SameLinks == active' = active /\ current' = current
SameExports == exports' = exports
SameApps == app' = app
SameFlags == suspect' = suspect /\ installed' = installed
Quiet == SameBase /\ SameTrees /\ SameLinks /\ SameExports /\ SameApps

ActiveIs(r, c) == active'[r] = c /\ \A q \in Refs : q # r => active'[q] = active[q]
DeployedIs(r, c, d) ==
  /\ deployed'[r][c] = d
  /\ \A q \in Refs, e \in Commits : q # r \/ e # c => deployed'[q][e] = deployed[q][e]

\* A command starts, and who runs is no longer alone.
Begins(s, op, r, at) ==
  /\ Quiet /\ suspect' = suspect
  /\ cmd[s].at = "idle"
  /\ cmd'[s].op = op /\ cmd'[s].ref = r /\ cmd'[s].at = at
  /\ cmd'[s].alone => \A u \in Slots : u # s => cmd[u].at = "idle"
  /\ \A u \in Slots : u # s =>
       /\ cmd'[u].op = cmd[u].op /\ cmd'[u].ref = cmd[u].ref /\ cmd'[u].force = cmd[u].force
       /\ cmd'[u].want = cmd[u].want /\ cmd'[u].prev = cmd[u].prev
       /\ cmd'[u].todo = cmd[u].todo /\ cmd'[u].at = cmd[u].at /\ ~cmd'[u].alone

BeginsInstall(s, r, op) ==
  Begins(s, op, r, "pull") /\ op \in Installs /\ r \notin base /\ installed' = installed
BeginsUpdate(s, r) == Begins(s, "update", r, "pull") /\ r \in origin /\ installed' = installed
BeginsUninstall(s, r) ==
  Begins(s, "uninstall", r, "deactivate") /\ installed' = installed \ {r}
BeginsCurrent(s, r) ==
  Begins(s, "current", r, "unlink") /\ r \in base \cap AppRefs /\ installed' = installed

\* A command ends early, or goes on to remove the deploy directory it made.
Aborts(s) == cmd[s].at # "idle" /\ Ends(s) /\ Quiet /\ suspect' = TRUE /\ installed' = installed
RollsBack(s) ==
  MadeBase(s) /\ GoesTo(s, "rollback") /\ Quiet /\ suspect' = TRUE /\ installed' = installed
Finishes(s) ==
  /\ cmd[s].at = "done" /\ Ends(s) /\ Quiet /\ suspect' = suspect
  /\ installed' = IF cmd[s].op \in Installs /\ cmd[s].alone
                    THEN installed \cup {cmd[s].ref} ELSE installed

\* What has no effect on the directory.
Pulls(s) ==
  /\ cmd[s].at = "pull" /\ Quiet /\ SameFlags
  /\ GoesTo(s, IF cmd[s].op = "update" THEN "deploy" ELSE "mkdir")
Resolves(s, c) ==
  /\ cmd[s].at = "deploy" /\ Quiet /\ SameFlags
  /\ \/ /\ deployed[cmd[s].ref][c] = NULL
        /\ Goes(s, "checkout", c, active[cmd[s].ref], cmd[s].todo)
     \/ /\ deployed[cmd[s].ref][c] # NULL /\ cmd[s].op = "update"
        /\ Goes(s, "done", c, active[cmd[s].ref], cmd[s].todo)
Lists(s) ==
  /\ cmd[s].at = "list" /\ Quiet /\ SameFlags
  /\ \E at \in {"rmbase", "undeploy"} :
       Goes(s, at, cmd[s].want, cmd[s].prev, Deployments(cmd[s].ref))
Checks(s) ==
  /\ cmd[s].at = "check" /\ Quiet /\ SameFlags
  /\ \/ (cmd[s].force \/ ~dir_is_locked(cmd[s].prev)) /\ GoesTo(s, "rmtree")
     \/ GoesTo(s, NextUndeploy(s))
Collects(s) ==
  /\ cmd[s].at = "cleanup" /\ Quiet /\ SameFlags
  /\ Goes(s, "look", cmd[s].want, cmd[s].prev, removed)
Looks(s) ==
  /\ cmd[s].at = "look" /\ Quiet /\ SameFlags
  /\ \/ GoesTo(s, "done")
     \/ \E d \in cmd[s].todo, at \in {"look", "clean"} :
          /\ at = "clean" => ~dir_is_locked(d)
          /\ Goes(s, at, cmd[s].want, d, cmd[s].todo \ {d})

\* Deploying.
MakesBase(s) ==
  /\ cmd[s].at = "mkdir" /\ cmd[s].ref \notin base /\ GoesTo(s, "origin") /\ SameFlags
  /\ base' = base \cup {cmd[s].ref} /\ origin' = origin
  /\ SameTrees /\ SameLinks /\ SameExports /\ SameApps
WritesOrigin(s) ==
  /\ cmd[s].at = "origin" /\ GoesTo(s, "deploy") /\ SameFlags
  /\ base' = base /\ \/ cmd[s].ref \in base /\ origin' = origin \cup {cmd[s].ref}
                     \/ cmd[s].op = "bundle" /\ origin' = origin
  /\ SameTrees /\ SameLinks /\ SameExports /\ SameApps
ChecksOut(s, d) ==
  /\ cmd[s].at = "checkout" /\ GoesTo(s, "fill") /\ SameFlags
  /\ cmd[s].ref \in base /\ deployed[cmd[s].ref][cmd[s].want] = NULL
  /\ d \in Dirs \ InUse /\ d # NULL
  /\ DeployedIs(cmd[s].ref, cmd[s].want, d) /\ spoiled' = spoiled \ {d}
  /\ removed' = removed /\ whole' = whole
  /\ SameBase /\ SameLinks /\ SameExports /\ SameApps
FillsIn(s, d) ==
  /\ cmd[s].at = "fill" /\ GoesTo(s, "activate") /\ SameFlags
  /\ d = deployed[cmd[s].ref][cmd[s].want] /\ d # NULL /\ whole' = whole \cup {d}
  /\ deployed' = deployed /\ removed' = removed /\ spoiled' = spoiled
  /\ SameBase /\ SameLinks /\ SameExports /\ SameApps
Activates(s) ==
  /\ cmd[s].at = "activate" /\ SameFlags /\ cmd[s].ref \in base
  /\ ActiveIs(cmd[s].ref, cmd[s].want) /\ current' = current
  /\ Goes(s, IF cmd[s].op \in Installs THEN AfterDeploy(s)
             ELSE IF cmd[s].prev # NULL THEN "undeploy" ELSE AfterUndeploy(s),
          cmd[s].want, cmd[s].prev, {cmd[s].prev} \ {NULL})
  /\ SameBase /\ SameTrees /\ SameExports /\ SameApps
UnlinksCurrent(s) ==
  /\ cmd[s].at = "unlink" /\ cmd[s].ref \in AppRefs /\ GoesTo(s, "link") /\ SameFlags
  /\ current' = NULL /\ active' = active
  /\ SameBase /\ SameTrees /\ SameExports /\ SameApps
LinksCurrent(s) ==
  /\ cmd[s].at = "link" /\ GoesTo(s, "export") /\ SameFlags
  /\ current = NULL /\ current' = cmd[s].ref /\ active' = active
  /\ SameBase /\ SameTrees /\ SameExports /\ SameApps

\* The exports.
Exports(s) ==
  /\ cmd[s].at = "export" /\ GoesTo(s, "dangling") /\ suspect' = FALSE /\ installed' = installed
  /\ exports' = exports \cup Exposed
  /\ SameBase /\ SameTrees /\ SameLinks /\ SameApps
Trims(s) ==
  /\ cmd[s].at = "dangling" /\ GoesTo(s, AfterExports(s)) /\ SameFlags
  /\ exports' = exports \cap Exposed
  /\ SameBase /\ SameTrees /\ SameLinks /\ SameApps

\* Undeploying.
Deactivates(s) ==
  /\ cmd[s].at = "deactivate" /\ SameFlags
  /\ GoesTo(s, IF cmd[s].ref \in AppRefs THEN "drop" ELSE "list")
  /\ ActiveIs(cmd[s].ref, NULL) /\ current' = current
  /\ SameBase /\ SameTrees /\ SameExports /\ SameApps
DropsCurrent(s) ==
  /\ cmd[s].at = "drop" /\ GoesTo(s, "list") /\ SameFlags
  /\ current' = (IF current = cmd[s].ref THEN NULL ELSE current) /\ active' = active
  /\ SameBase /\ SameTrees /\ SameExports /\ SameApps
Undeploys(s, c) ==
  /\ cmd[s].at = "undeploy" /\ c \in cmd[s].todo /\ SameFlags
  /\ Goes(s, "move", cmd[s].want, c, cmd[s].todo \ {c})
  /\ \E o \in Successors(cmd[s].ref, c) : ActiveIs(cmd[s].ref, o)
  /\ current' = current
  /\ SameBase /\ SameTrees /\ SameExports /\ SameApps
MovesAway(s, d) ==
  /\ cmd[s].at = "move" /\ SameFlags
  /\ Goes(s, "check", cmd[s].want, d, cmd[s].todo)
  /\ d = deployed[cmd[s].ref][cmd[s].prev] /\ d # NULL /\ d \in Dirs
  /\ DeployedIs(cmd[s].ref, cmd[s].prev, NULL) /\ removed' = removed \cup {d}
  /\ whole' = whole /\ spoiled' = spoiled
  /\ SameBase /\ SameLinks /\ SameExports /\ SameApps
RemovesTree(s, place, next) ==
  /\ cmd[s].at = place /\ GoesTo(s, next) /\ SameFlags
  /\ deployed' = deployed /\ whole' = whole \ {cmd[s].prev}
  /\ removed' = removed \ {cmd[s].prev} \/ removed' = removed
  /\ SameBase /\ SameLinks /\ SameExports /\ SameApps
RemovesUndeployed(s) ==
  /\ RemovesTree(s, "rmtree", NextUndeploy(s))
  /\ spoiled' = IF cmd[s].force THEN spoiled \cup {cmd[s].prev} ELSE spoiled
Cleans(s) == RemovesTree(s, "clean", "look") /\ spoiled' = spoiled

\* Removing a deploy directory, entry by entry.
Removing(s) ==
  /\ cmd[s].at \in {"rmbase", "rollback"}
  /\ suspect' = (suspect \/ cmd[s].at = "rollback") /\ installed' = installed
  /\ current' = current /\ removed' = removed /\ SameExports /\ SameApps
RemovesOrigin(s) ==
  /\ Removing(s) /\ cmd' = cmd /\ base' = base /\ origin' = origin \ {cmd[s].ref}
  /\ active' = active /\ deployed' = deployed /\ whole' = whole /\ spoiled' = spoiled
RemovesActive(s) ==
  /\ Removing(s) /\ cmd' = cmd /\ SameBase /\ ActiveIs(cmd[s].ref, NULL)
  /\ deployed' = deployed /\ whole' = whole /\ spoiled' = spoiled
RemovesCheckout(s, c, d) ==
  /\ Removing(s) /\ cmd' = cmd /\ SameBase /\ active' = active
  /\ d = deployed[cmd[s].ref][c] /\ d # NULL /\ d \in Dirs /\ DeployedIs(cmd[s].ref, c, NULL)
  /\ whole' = whole \ {d} /\ spoiled' = spoiled \cup {d}
RemovesBase(s) ==
  /\ Removing(s) /\ base' = base \ {cmd[s].ref} /\ origin' = origin
  /\ cmd[s].ref \notin origin /\ active[cmd[s].ref] = NULL
  /\ \A c \in Commits : deployed[cmd[s].ref][c] = NULL
  /\ active' = active /\ deployed' = deployed /\ whole' = whole /\ spoiled' = spoiled
  /\ \/ cmd[s].at = "rmbase" /\ GoesTo(s, AfterRemoval(s))
     \/ cmd[s].at = "rollback" /\ Ends(s)

\* The apps.
AppChanges(a) ==
  /\ SameBase /\ SameTrees /\ SameLinks /\ SameExports /\ SameFlags /\ cmd' = cmd
  /\ \A b \in Apps : b # a => app'[b] = app[b]
AppGoes(a) == AppChanges(a) /\ app'[a].at # "locked"
Locks(a) ==
  /\ AppChanges(a) /\ app'[a].dir = app[a].dir
  /\ app'[a].at = "locked" => app[a].dir \in whole
  /\ app'[a].early => app[a].dir \notin removed

\* The steps by what they change.
Starting(s) == \E r \in Refs :
  \/ \E op \in Installs : BeginsInstall(s, r, op)
  \/ BeginsUpdate(s, r) \/ BeginsUninstall(s, r) \/ BeginsCurrent(s, r)
Ending(s) == Aborts(s) \/ RollsBack(s) \/ Finishes(s)
Looking(s) ==
  \/ Pulls(s) \/ Lists(s) \/ Checks(s) \/ Collects(s) \/ Looks(s)
  \/ \E c \in Commits : Resolves(s, c)
Deploying(s) ==
  \/ MakesBase(s) \/ WritesOrigin(s)
  \/ \E d \in Dirs : ChecksOut(s, d) \/ FillsIn(s, d)
Linking(s) ==
  \/ Activates(s) \/ UnlinksCurrent(s) \/ LinksCurrent(s) \/ Deactivates(s) \/ DropsCurrent(s)
  \/ \E c \in Commits : Undeploys(s, c)
Publishing(s) == Exports(s) \/ Trims(s)
Discarding(s) == RemovesUndeployed(s) \/ Cleans(s) \/ \E d \in Dirs : MovesAway(s, d)
Wiping(s) ==
  \/ RemovesOrigin(s) \/ RemovesActive(s) \/ RemovesBase(s)
  \/ \E c \in Commits, d \in Dirs : RemovesCheckout(s, c, d)

Effect ==
  \/ UNCHANGED <<disk, cmd, app, history>>
  \/ \E s \in Slots :
       \/ Starting(s) \/ Ending(s) \/ Looking(s) \/ Deploying(s) \/ Linking(s) \/ Publishing(s)
       \/ Discarding(s) \/ Wiping(s)
  \/ \E a \in Apps : AppGoes(a) \/ Locks(a)

OkNow == CmdOK' /\ DeployedOK' /\ ActiveOK' /\ AppOK'
Base == BaseOK /\ DeployedOK /\ ActiveOK /\ CmdOK /\ AppOK /\ CmdShaped

\* What stays, and what EXCEPT does to the tables.
LEMMA StaysOK ==
  /\ DeployedOK /\ deployed' = deployed => DeployedOK'
  /\ ActiveOK /\ active' = active => ActiveOK'
  /\ AppOK /\ app' = app => AppOK'
BY DEF DeployedOK, ActiveOK, AppOK

LEMMA ActiveStep ==
  ASSUME ActiveOK, NEW r \in Refs, NEW c \in Commits \cup {NULL},
         active' = [active EXCEPT ![r] = c]
  PROVE  ActiveOK' /\ ActiveIs(r, c)
BY DEF ActiveOK, ActiveIs

LEMMA DeployedStep ==
  ASSUME DeployedOK, NEW r \in Refs, NEW c \in Commits, NEW d \in Dirs \cup {NULL},
         deployed' = [deployed EXCEPT ![r][c] = d]
  PROVE  DeployedOK' /\ DeployedIs(r, c, d)
<1> DEFINE f == [deployed[r] EXCEPT ![c] = d]
<1>1. deployed[r] \in [Commits -> Dirs \cup {NULL}]
  BY DEF DeployedOK
<1>2. /\ f \in [Commits -> Dirs \cup {NULL}] /\ f[c] = d
      /\ \A e \in Commits : e # c => f[e] = deployed[r][e]
  BY <1>1
<1>3. deployed' = [deployed EXCEPT ![r] = f]
  BY DEF DeployedOK
<1> HIDE DEF f
<1>4. DeployedOK'
  BY <1>2, <1>3 DEF DeployedOK
<1>5. deployed'[r] = f /\ \A q \in Refs : q # r => deployed'[q] = deployed[q]
  BY <1>3 DEF DeployedOK
<1>6. QED
  BY <1>2, <1>4, <1>5 DEF DeployedIs

\* Who runs a command works on a ref.
LEMMA Working ==
  ASSUME CmdOK, CmdShaped, NEW s \in Slots, cmd[s].at # "idle"
  PROVE  /\ cmd[s] \in Commands /\ cmd[s].ref \in Refs
BY DEF CmdOK, CmdShaped

LEMMA AbortStep ==
  ASSUME Base, NEW s \in Slots, Error(s) \/ CallFails(s), cmd[s].at \notin {"idle", "done"}
  PROVE  OkNow /\ (Aborts(s) \/ RollsBack(s))
<1>1. Fails(s)
  BY DEF Error, CallFails
<1>2. Quiet /\ suspect' = TRUE /\ installed' = installed
  BY <1>1 DEF Fails, disk, Quiet, SameBase, SameTrees, SameLinks, SameExports, SameApps
<1>3. CASE MadeBase(s)
  <2>1. Goto(s, "rollback")
    BY <1>1, <1>3 DEF Fails
  <2>2. CmdOK' /\ GoesTo(s, "rollback")
    BY <2>1, PlaceNames, GotoStep DEF Base
  <2>3. QED
    BY <1>2, <1>3, <2>2, StaysOK
       DEF Base, Quiet, SameTrees, SameLinks, SameApps, OkNow, RollsBack
<1>4. CASE ~MadeBase(s)
  <2>1. CmdOK' /\ Ends(s)
    BY <1>1, <1>4, EndsStep DEF Fails, Base
  <2>2. QED
    BY <1>2, <2>1, StaysOK DEF Base, Quiet, SameTrees, SameLinks, SameApps, OkNow, Aborts
<1>5. QED
  BY <1>3, <1>4

LEMMA KilledStep ==
  ASSUME Base, NEW s \in Slots, Killed(s) PROVE OkNow /\ Aborts(s)
<1>1. Quiet /\ suspect' = TRUE /\ installed' = installed /\ cmd[s].at # "idle"
  BY DEF Killed, disk, Quiet, SameBase, SameTrees, SameLinks, SameExports, SameApps
<1>2. CmdOK' /\ Ends(s)
  BY EndsStep DEF Killed, Base
<1>3. QED
  BY <1>1, <1>2, StaysOK DEF Base, Quiet, SameTrees, SameLinks, SameApps, OkNow, Aborts

LEMMA ReturnsStep ==
  ASSUME Base, NEW s \in Slots, Returns(s) PROVE OkNow /\ Finishes(s)
<1>1. Quiet /\ suspect' = suspect
  BY DEF Returns, disk, Quiet, SameBase, SameTrees, SameLinks, SameExports, SameApps
<1>2. CmdOK' /\ Ends(s)
  BY EndsStep DEF Returns, Base
<1>3. QED
  BY <1>1, <1>2, StaysOK
     DEF Returns, At, Base, Quiet, SameTrees, SameLinks, SameApps, OkNow, Finishes

LEMMA StartsStep ==
  ASSUME Base, NEW s \in Slots, NEW op \in Ops, NEW r \in Refs, NEW force \in BOOLEAN,
         NEW at \in Places, Starts(s, op, r, force, at)
  PROVE  OkNow /\ Begins(s, op, r, at)
<1> DEFINE b == \A u \in Slots \ {s} : At(u, "idle")
           n == [NoCommand EXCEPT !.op = op, !.ref = r, !.force = force, !.at = at, !.alone = b]
           Left(u) == [cmd[u] EXCEPT !.alone = FALSE]
<1>1. Quiet /\ suspect' = suspect /\ cmd[s].at = "idle"
  BY DEF Starts, At, disk, Quiet, SameBase, SameTrees, SameLinks, SameExports, SameApps
<1>2. cmd' = [t \in Slots |-> IF t = s THEN n ELSE Left(t)]
  BY DEF Starts
<1>3. n \in Commands /\ n.op = op /\ n.ref = r /\ n.at = at /\ n.alone = b
  <2>1. b \in BOOLEAN
    OBVIOUS
  <2> HIDE DEF b
  <2>2. QED
    BY <2>1, NoCommandOK DEF Commands
<1>4. ASSUME NEW u \in Slots
      PROVE  /\ Left(u) \in Commands
             /\ Left(u).op = cmd[u].op /\ Left(u).ref = cmd[u].ref /\ Left(u).force = cmd[u].force
             /\ Left(u).want = cmd[u].want /\ Left(u).prev = cmd[u].prev
             /\ Left(u).todo = cmd[u].todo /\ Left(u).at = cmd[u].at /\ ~Left(u).alone
  <2>1. cmd[u] \in Commands
    BY DEF Base, CmdOK
  <2>2. QED
    BY <2>1 DEF Commands
<1>5. b => \A u \in Slots : u # s => cmd[u].at = "idle"
  BY DEF At
<1> HIDE DEF b, n, Left
<1>6. CmdOK'
  BY <1>2, <1>3, <1>4 DEF CmdOK
<1>7. cmd'[s] = n /\ \A u \in Slots : u # s => cmd'[u] = Left(u)
  BY <1>2
<1>8. Begins(s, op, r, at)
  BY <1>1, <1>3, <1>4, <1>5, <1>7 DEF Begins
<1>9. QED
  BY <1>1, <1>6, <1>8, StaysOK DEF Base, Quiet, SameTrees, SameLinks, SameApps, OkNow

LEMMA CommandStarts ==
  ASSUME Base, NEW s \in Slots, NEW r \in Refs,
         \/ install(s, r) \/ install_bundle(s, r) \/ make_current_app(s, r)
         \/ \E force \in BOOLEAN : update(s, r, force) \/ uninstall(s, r, force)
  PROVE  /\ OkNow
         /\ \/ \E op \in Installs : BeginsInstall(s, r, op)
            \/ BeginsUpdate(s, r) \/ BeginsUninstall(s, r) \/ BeginsCurrent(s, r)
<1>1. /\ \A op \in {"install", "bundle", "update", "uninstall", "current"} : op \in Ops
      /\ FALSE \in BOOLEAN /\ "install" \in Installs /\ "bundle" \in Installs
      /\ "pull" \in Places /\ "deactivate" \in Places /\ "unlink" \in Places
  BY PlaceNames DEF Ops, Installs
<1>2. CASE install(s, r)
  BY <1>1, <1>2, StartsStep DEF install, BeginsInstall
<1>3. CASE install_bundle(s, r)
  BY <1>1, <1>3, StartsStep DEF install_bundle, BeginsInstall
<1>4. CASE make_current_app(s, r)
  BY <1>1, <1>4, StartsStep DEF make_current_app, BeginsCurrent
<1>5. ASSUME NEW force \in BOOLEAN, update(s, r, force) PROVE OkNow /\ BeginsUpdate(s, r)
  BY <1>1, <1>5, StartsStep DEF update, BeginsUpdate
<1>6. ASSUME NEW force \in BOOLEAN, uninstall(s, r, force) PROVE OkNow /\ BeginsUninstall(s, r)
  BY <1>1, <1>6, StartsStep DEF uninstall, BeginsUninstall
<1>7. QED
  BY <1>2, <1>3, <1>4, <1>5, <1>6

LEMMA PullStep ==
  ASSUME Base, NEW s \in Slots, Pull(s) PROVE OkNow /\ Pulls(s)
<1> DEFINE at == IF cmd[s].op = "update" THEN "deploy" ELSE "mkdir"
<1>1. cmd[s].at = "pull" /\ Quiet /\ SameFlags
  BY DEF Pull, Step, At, disk, Quiet, SameBase, SameTrees, SameLinks, SameExports, SameApps,
     SameFlags
<1>2. at \in Places /\ Goto(s, at)
  BY PlaceNames DEF Pull
<1> HIDE DEF at
<1>3. CmdOK' /\ GoesTo(s, at)
  BY <1>2, GotoStep DEF Base
<1>4. QED
  BY <1>1, <1>3, StaysOK DEF Base, Quiet, SameTrees, SameLinks, SameApps, OkNow, Pulls, at

LEMMA MakeBaseStep ==
  ASSUME Base, NEW s \in Slots, MakeBase(s)
  PROVE  OkNow /\ (Aborts(s) \/ RollsBack(s) \/ MakesBase(s))
<1>1. CASE Error(s) /\ At(s, "mkdir")
  BY <1>1, AbortStep DEF At
<1>2. CASE ~(Error(s) /\ At(s, "mkdir"))
  <2>1. CmdOK' /\ GoesTo(s, "origin")
    BY <1>2, GotoStep, PlaceNames DEF Base, MakeBase
  <2>2. QED
    BY <1>2, <2>1, StaysOK
       DEF MakeBase, Step, At, Base, SameBase, SameTrees, SameLinks, SameExports, SameApps,
           SameFlags, OkNow, MakesBase
<1>3. QED
  BY <1>1, <1>2

LEMMA WriteOriginStep ==
  ASSUME Base, NEW s \in Slots, WriteOrigin(s)
  PROVE  OkNow /\ (Aborts(s) \/ RollsBack(s) \/ WritesOrigin(s))
<1>1. CASE Error(s) /\ At(s, "origin")
  BY <1>1, AbortStep DEF At
<1>2. CASE ~(Error(s) /\ At(s, "origin"))
  <2>1. CmdOK' /\ GoesTo(s, "deploy")
    BY <1>2, GotoStep, PlaceNames DEF Base, WriteOrigin
  <2>2. QED
    BY <1>2, <2>1, StaysOK
       DEF WriteOrigin, Step, At, Base, SameBase, SameTrees, SameLinks, SameExports, SameApps,
           SameFlags, OkNow, WritesOrigin
<1>3. QED
  BY <1>1, <1>2

LEMMA DeployStep ==
  ASSUME Base, NEW s \in Slots, Deploy(s)
  PROVE  OkNow /\ (Aborts(s) \/ RollsBack(s) \/ \E c \in Commits : Resolves(s, c))
<1>1. CASE Error(s) /\ At(s, "deploy")
  BY <1>1, AbortStep DEF At
<1>2. CASE ~(Error(s) /\ At(s, "deploy"))
  <2> DEFINE r == cmd[s].ref
             here(c) == [cmd[s] EXCEPT !.want = c, !.prev = active[r]]
             at(c) == IF deployed[r][c] # NULL THEN "done" ELSE "checkout"
  <2>1. PICK c \in Commits :
          /\ Step(s, "deploy")
          /\ deployed[r][c] # NULL => cmd[s].op = "update"
          /\ cmd' = [cmd EXCEPT ![s] = [here(c) EXCEPT !.at = at(c)]]
          /\ UNCHANGED <<disk, suspect, spoiled>>
    BY <1>2, Zenon DEF Deploy
  <2>2. cmd[s].at = "deploy" /\ Quiet /\ SameFlags
    BY <2>1 DEF Step, At, disk, Quiet, SameBase, SameTrees, SameLinks, SameExports, SameApps,
       SameFlags
  <2>3. r \in Refs
    BY <2>2, Working DEF Base
  <2>4. active[r] \in Commits \cup {NULL} /\ at(c) \in Places
    BY <2>3, PlaceNames DEF Base, ActiveOK
  <2>5. PICK h : h = here(c)
    OBVIOUS
  <2>6. PICK p : p = at(c)
    OBVIOUS
  <2>7. h = [cmd[s] EXCEPT !.want = c, !.prev = active[r]]
    BY <2>5
  <2>8. cmd' = [cmd EXCEPT ![s] = [h EXCEPT !.at = p]]
    BY <2>1, <2>5, <2>6
  <2>9. CmdOK' /\ Goes(s, p, c, active[r], cmd[s].todo)
    BY <2>4, <2>6, <2>7, <2>8, WantStep DEF Base
  <2>10. Resolves(s, c)
    BY <2>1, <2>2, <2>6, <2>9 DEF Resolves
  <2>11. QED
    BY <2>2, <2>9, <2>10, StaysOK DEF Base, Quiet, SameTrees, SameLinks, SameApps, OkNow
<1>3. QED
  BY <1>1, <1>2

LEMMA CheckoutStep ==
  ASSUME Base, NEW s \in Slots, Checkout(s)
  PROVE  OkNow /\ (Aborts(s) \/ RollsBack(s) \/ \E d \in Dirs : ChecksOut(s, d))
<1>1. CASE Error(s) /\ At(s, "checkout")
  BY <1>1, AbortStep DEF At
<1>2. CASE ~(Error(s) /\ At(s, "checkout"))
  <2> DEFINE free == Dirs \ InUse
  <2>1. PICK d : /\ d = CHOOSE x \in free : TRUE
                 /\ deployed' = [deployed EXCEPT ![cmd[s].ref][cmd[s].want] = d]
                 /\ spoiled' = spoiled \ {d}
    BY <1>2 DEF Checkout
  <2>2. d \in Dirs /\ d \notin InUse
    BY <1>2, <2>1 DEF Checkout
  <2>3. d # NULL
    BY <2>2, NullAssumption
  <2>4. cmd[s].at = "checkout" /\ cmd[s].ref \in Refs /\ cmd[s].want \in Commits
    BY <1>2, Working DEF Checkout, Step, At, Base, CmdShaped
  <2>5. CmdOK' /\ GoesTo(s, "fill")
    BY <1>2, GotoStep, PlaceNames DEF Base, Checkout
  <2>6. DeployedOK' /\ DeployedIs(cmd[s].ref, cmd[s].want, d)
    BY <2>1, <2>2, <2>4, DeployedStep DEF Base
  <2>7. ChecksOut(s, d)
    BY <1>2, <2>1, <2>2, <2>3, <2>4, <2>5, <2>6
       DEF Checkout, Step, SameBase, SameLinks, SameExports, SameApps, SameFlags, ChecksOut
  <2>8. QED
    BY <2>2, <2>5, <2>6, <2>7, StaysOK DEF Base, ChecksOut, SameLinks, SameApps, OkNow
<1>3. QED
  BY <1>1, <1>2

LEMMA FinishStep ==
  ASSUME Base, NEW s \in Slots, FinishCheckout(s)
  PROVE  OkNow /\ (Aborts(s) \/ RollsBack(s) \/ \E d \in Dirs : FillsIn(s, d))
<1>1. CASE Error(s) /\ At(s, "fill")
  BY <1>1, AbortStep DEF At
<1>2. CASE ~(Error(s) /\ At(s, "fill"))
  <2> DEFINE d == deployed[cmd[s].ref][cmd[s].want]
  <2>1. d # NULL /\ whole' = whole \cup {d}
    BY <1>2 DEF FinishCheckout
  <2>2. cmd[s].at = "fill" /\ cmd[s].ref \in Refs /\ cmd[s].want \in Commits
    BY <1>2, Working DEF FinishCheckout, Step, At, Base, CmdShaped
  <2>3. d \in Dirs
    BY <2>1, <2>2 DEF Base, DeployedOK
  <2>4. CmdOK' /\ GoesTo(s, "activate")
    BY <1>2, GotoStep, PlaceNames DEF Base, FinishCheckout
  <2>5. FillsIn(s, d)
    BY <1>2, <2>1, <2>2, <2>4
       DEF FinishCheckout, Step, SameBase, SameLinks, SameExports, SameApps, SameFlags, FillsIn
  <2>6. QED
    BY <2>3, <2>4, <2>5, StaysOK DEF Base, FillsIn, SameLinks, SameApps, OkNow
<1>3. QED
  BY <1>1, <1>2

LEMMA ActivateStep ==
  ASSUME Base, NEW s \in Slots, Activate(s)
  PROVE  OkNow /\ (Aborts(s) \/ RollsBack(s) \/ Activates(s))
<1>1. CASE Error(s) /\ At(s, "activate")
  BY <1>1, AbortStep DEF At
<1>2. CASE ~(Error(s) /\ At(s, "activate"))
  <2> DEFINE at == IF cmd[s].op \in Installs THEN AfterDeploy(s)
                   ELSE IF cmd[s].prev # NULL THEN "undeploy" ELSE AfterUndeploy(s)
             todo == {cmd[s].prev} \ {NULL}
  <2>1. /\ cmd[s].at = "activate" /\ cmd[s].ref \in Refs
        /\ cmd[s].want \in Commits /\ cmd[s].prev \in Commits \cup {NULL}
    BY <1>2, Working DEF Activate, Step, At, Base, CmdShaped
  <2>2. at \in Places /\ todo \in SUBSET (Commits \cup Dirs)
    BY <2>1, PlaceNames DEF AfterDeploy, AfterUndeploy
  <2>3. cmd' = [cmd EXCEPT ![s].todo = todo, ![s].at = at]
    BY <1>2 DEF Activate
  <2>4. ActiveOK' /\ ActiveIs(cmd[s].ref, cmd[s].want)
    BY <1>2, <2>1, ActiveStep DEF Activate, Base
  <2> HIDE DEF at, todo
  <2>5. CmdOK' /\ Goes(s, at, cmd[s].want, cmd[s].prev, todo)
    BY <2>2, <2>3, TodoStep DEF Base
  <2>6. Activates(s)
    BY <1>2, <2>1, <2>4, <2>5
       DEF Activate, Step, SameBase, SameTrees, SameExports, SameApps, SameFlags, Activates,
           at, todo
  <2>7. QED
    BY <2>4, <2>5, <2>6, StaysOK DEF Base, Activates, SameTrees, SameApps, OkNow
<1>3. QED
  BY <1>1, <1>2

LEMMA UnlinkCurrentStep ==
  ASSUME Base, NEW s \in Slots, UnlinkCurrent(s)
  PROVE  OkNow /\ (Aborts(s) \/ UnlinksCurrent(s))
<1>1. cmd[s].at = "unlink"
  BY DEF UnlinkCurrent, Step, At
<1>2. CASE cmd[s].ref \notin AppRefs
  <2>1. CmdOK' /\ Ends(s)
    BY <1>2, EndsStep DEF UnlinkCurrent, Base
  <2>2. QED
    BY <1>1, <1>2, <2>1, StaysOK
       DEF UnlinkCurrent, Step, disk, Base, Quiet, SameBase, SameTrees, SameLinks, SameExports,
           SameApps, OkNow, Aborts
<1>3. CASE cmd[s].ref \in AppRefs
  <2>1. CmdOK' /\ GoesTo(s, "link")
    BY <1>3, GotoStep, PlaceNames DEF UnlinkCurrent, Base
  <2>2. QED
    BY <1>1, <1>3, <2>1, StaysOK
       DEF UnlinkCurrent, Step, Base, SameBase, SameTrees, SameExports, SameApps, SameFlags,
           OkNow, UnlinksCurrent
<1>4. QED
  BY <1>2, <1>3

LEMMA LinkCurrentStep ==
  ASSUME Base, NEW s \in Slots, LinkCurrent(s)
  PROVE  OkNow /\ (Aborts(s) \/ RollsBack(s) \/ LinksCurrent(s))
<1>1. CASE Error(s) /\ At(s, "link")
  BY <1>1, AbortStep DEF At
<1>2. CASE ~(Error(s) /\ At(s, "link"))
  <2>1. CmdOK' /\ GoesTo(s, "export")
    BY <1>2, GotoStep, PlaceNames DEF LinkCurrent, Base
  <2>2. QED
    BY <1>2, <2>1, StaysOK
       DEF LinkCurrent, Step, At, Base, SameBase, SameTrees, SameExports, SameApps, SameFlags,
           OkNow, LinksCurrent
<1>3. QED
  BY <1>1, <1>2

LEMMA ExportFilesStep ==
  ASSUME Base, NEW s \in Slots, ExportFiles(s) PROVE OkNow /\ Exports(s)
<1>1. CmdOK' /\ GoesTo(s, "dangling")
  BY GotoStep, PlaceNames DEF ExportFiles, Base
<1>2. QED
  BY <1>1, StaysOK
     DEF ExportFiles, Step, At, Base, SameBase, SameTrees, SameLinks, SameApps, OkNow, Exports

LEMMA RemoveDanglingStep ==
  ASSUME Base, NEW s \in Slots, RemoveDangling(s) PROVE OkNow /\ Trims(s)
<1>1. AfterExports(s) \in Places
  BY PlaceNames DEF AfterExports
<1>2. CmdOK' /\ GoesTo(s, AfterExports(s))
  BY <1>1, GotoStep DEF RemoveDangling, Base
<1>3. QED
  BY <1>2, StaysOK
     DEF RemoveDangling, Step, At, Base, SameBase, SameTrees, SameLinks, SameApps, SameFlags,
         OkNow, Trims

LEMMA DeactivateStep ==
  ASSUME Base, NEW s \in Slots, Deactivate(s) PROVE OkNow /\ Deactivates(s)
<1> DEFINE at == IF cmd[s].ref \in AppRefs THEN "drop" ELSE "list"
<1>1. cmd[s].at = "deactivate" /\ cmd[s].ref \in Refs
  BY Working DEF Deactivate, Step, At, Base
<1>2. at \in Places /\ Goto(s, at)
  BY PlaceNames DEF Deactivate
<1> HIDE DEF at
<1>3. CmdOK' /\ GoesTo(s, at)
  BY <1>2, GotoStep DEF Base
<1>4. ActiveOK' /\ ActiveIs(cmd[s].ref, NULL)
  BY <1>1, ActiveStep DEF Deactivate, Base
<1>5. QED
  BY <1>1, <1>3, <1>4, StaysOK
     DEF Deactivate, Step, Base, SameBase, SameTrees, SameExports, SameApps, SameFlags, OkNow,
         Deactivates, at

LEMMA DropCurrentStep ==
  ASSUME Base, NEW s \in Slots, DropCurrent(s) PROVE OkNow /\ DropsCurrent(s)
<1>1. CmdOK' /\ GoesTo(s, "list")
  BY GotoStep, PlaceNames DEF DropCurrent, Base
<1>2. QED
  BY <1>1, StaysOK
     DEF DropCurrent, Step, At, Base, SameBase, SameTrees, SameExports, SameApps, SameFlags,
         OkNow, DropsCurrent

LEMMA ListStep ==
  ASSUME Base, NEW s \in Slots, ListDeployed(s) PROVE OkNow /\ Lists(s)
<1> DEFINE todo == Deployments(cmd[s].ref)
           at == IF todo = {} THEN "rmbase" ELSE "undeploy"
<1>1. cmd[s].at = "list" /\ Quiet /\ SameFlags
  BY DEF ListDeployed, Step, At, disk, Quiet, SameBase, SameTrees, SameLinks, SameExports,
     SameApps, SameFlags
<1>2. todo \in SUBSET (Commits \cup Dirs) /\ at \in Places /\ at \in {"rmbase", "undeploy"}
  BY PlaceNames DEF Deployments
<1>3. cmd' = [cmd EXCEPT ![s].todo = todo, ![s].at = at]
  BY DEF ListDeployed
<1> HIDE DEF at, todo
<1>4. CmdOK' /\ Goes(s, at, cmd[s].want, cmd[s].prev, todo)
  BY <1>2, <1>3, TodoStep DEF Base
<1>5. QED
  BY <1>1, <1>2, <1>4, StaysOK
     DEF Base, Quiet, SameTrees, SameLinks, SameApps, OkNow, Lists, todo

LEMMA UndeployStep ==
  ASSUME Base, NEW s \in Slots, Undeploy(s)
  PROVE  OkNow /\ (Aborts(s) \/ RollsBack(s) \/ \E c \in Commits : Undeploys(s, c))
<1>1. CASE Error(s) /\ At(s, "undeploy")
  BY <1>1, AbortStep DEF At
<1>2. CASE ~(Error(s) /\ At(s, "undeploy"))
  <2> DEFINE r == cmd[s].ref
  <2>1. PICK c \in cmd[s].todo :
          /\ Step(s, "undeploy") /\ deployed[r][c] # NULL
          /\ \E o \in Successors(r, c) : active' = [active EXCEPT ![r] = o]
          /\ cmd' = [cmd EXCEPT ![s].todo = @ \ {c}, ![s].prev = c, ![s].at = "move"]
          /\ UNCHANGED <<base, origin, deployed, current, exports, removed, whole, suspect, spoiled>>
    BY <1>2, Zenon DEF Undeploy
  <2>2. cmd[s].at = "undeploy" /\ r \in Refs /\ c \in Commits
    BY <2>1, Working DEF Step, At, Base, CmdShaped
  <2>3. PICK o \in Successors(r, c) : active' = [active EXCEPT ![r] = o]
    BY <2>1
  <2>4. o \in Commits \cup {NULL}
    BY <2>2, <2>3 DEF Successors, Deployments, Base, ActiveOK
  <2>5. ActiveOK' /\ ActiveIs(r, o)
    BY <2>2, <2>3, <2>4, ActiveStep DEF Base
  <2>6. CmdOK' /\ Goes(s, "move", cmd[s].want, c, cmd[s].todo \ {c})
    BY <2>1, <2>2, PlaceNames, PickStep DEF Base
  <2>7. Undeploys(s, c)
    BY <2>1, <2>2, <2>3, <2>5, <2>6
       DEF Step, SameBase, SameTrees, SameExports, SameApps, SameFlags, Undeploys
  <2>8. QED
    BY <2>2, <2>5, <2>6, <2>7, StaysOK DEF Base, Undeploys, SameTrees, SameApps, OkNow
<1>3. QED
  BY <1>1, <1>2

LEMMA MoveStep ==
  ASSUME Base, NEW s \in Slots, MoveToRemoved(s)
  PROVE  OkNow /\ (Aborts(s) \/ RollsBack(s) \/ \E d \in Dirs : MovesAway(s, d))
<1>1. CASE Error(s) /\ At(s, "move")
  BY <1>1, AbortStep DEF At
<1>2. CASE ~(Error(s) /\ At(s, "move"))
  <2> DEFINE r == cmd[s].ref
             c == cmd[s].prev
             d == deployed[r][c]
  <2>1. cmd[s].at = "move" /\ r \in Refs /\ c \in Commits /\ d # NULL
    BY <1>2, Working DEF MoveToRemoved, Step, At, Base, CmdShaped
  <2>2. d \in Dirs
    BY <2>1 DEF Base, DeployedOK
  <2>3. /\ deployed' = [deployed EXCEPT ![r][c] = NULL]
        /\ cmd' = [cmd EXCEPT ![s].prev = d, ![s].at = "check"]
    BY <1>2 DEF MoveToRemoved
  <2>4. DeployedOK' /\ DeployedIs(r, c, NULL)
    BY <2>1, <2>3, DeployedStep DEF Base
  <2>5. CmdOK' /\ Goes(s, "check", cmd[s].want, d, cmd[s].todo)
    BY <2>2, <2>3, PlaceNames, PrevStep DEF Base
  <2>6. MovesAway(s, d)
    BY <1>2, <2>1, <2>2, <2>4, <2>5
       DEF MoveToRemoved, Step, SameBase, SameLinks, SameExports, SameApps, SameFlags, MovesAway
  <2>7. QED
    BY <2>2, <2>4, <2>5, <2>6, StaysOK DEF Base, MovesAway, SameLinks, SameApps, OkNow
<1>3. QED
  BY <1>1, <1>2

LEMMA NextPlaces ==
  ASSUME NEW s
  PROVE  /\ NextUndeploy(s) \in {"export", "done", "rmbase", "undeploy"}
         /\ NextUndeploy(s) \in Places
BY PlaceNames DEF NextUndeploy, AfterUndeploy

LEMMA CheckStep ==
  ASSUME Base, NEW s \in Slots, CheckLock(s) PROVE OkNow /\ Checks(s)
<1> DEFINE b == cmd[s].force \/ ~dir_is_locked(cmd[s].prev)
           at == IF b THEN "rmtree" ELSE NextUndeploy(s)
<1>1. cmd[s].at = "check" /\ Quiet /\ SameFlags
  BY DEF CheckLock, Step, At, disk, Quiet, SameBase, SameTrees, SameLinks, SameExports,
     SameApps, SameFlags
<1>2. at \in Places /\ Goto(s, at)
  BY NextPlaces, PlaceNames DEF CheckLock
<1> HIDE DEF at
<1>3. CmdOK' /\ GoesTo(s, at)
  BY <1>2, GotoStep DEF Base
<1>4. (b /\ at = "rmtree") \/ at = NextUndeploy(s)
  BY DEF at
<1> HIDE DEF b
<1>5. (b /\ GoesTo(s, "rmtree")) \/ GoesTo(s, NextUndeploy(s))
  BY <1>3, <1>4
<1>6. Checks(s)
  BY <1>1, <1>5 DEF Checks, b
<1>7. QED
  BY <1>1, <1>3, <1>6, StaysOK DEF Base, Quiet, SameTrees, SameLinks, SameApps, OkNow

LEMMA RemoveUndeployedStep ==
  ASSUME Base, NEW s \in Slots, RemoveUndeployed(s) PROVE OkNow /\ RemovesUndeployed(s)
<1>1. CmdOK' /\ GoesTo(s, NextUndeploy(s))
  BY GotoStep, NextPlaces DEF RemoveUndeployed, Base
<1>2. RemovesTree(s, "rmtree", NextUndeploy(s))
  BY <1>1
     DEF RemoveUndeployed, RemoveTree, At, SameBase, SameLinks, SameExports, SameApps, SameFlags,
         RemovesTree
<1>3. spoiled' = IF cmd[s].force THEN spoiled \cup {cmd[s].prev} ELSE spoiled
  BY DEF RemoveUndeployed
<1>4. QED
  BY <1>1, <1>2, <1>3, StaysOK
     DEF Base, RemovesTree, SameLinks, SameApps, OkNow, RemovesUndeployed

LEMMA CleanStep ==
  ASSUME Base, NEW s \in Slots, CleanRemoved(s) PROVE OkNow /\ Cleans(s)
<1>1. CmdOK' /\ GoesTo(s, "look")
  BY GotoStep, PlaceNames DEF CleanRemoved, Base
<1>2. RemovesTree(s, "clean", "look")
  BY <1>1
     DEF CleanRemoved, RemoveTree, At, SameBase, SameLinks, SameExports, SameApps, SameFlags,
         RemovesTree
<1>3. QED
  BY <1>1, <1>2, StaysOK DEF CleanRemoved, Base, RemovesTree, SameLinks, SameApps, OkNow, Cleans

LEMMA CollectStep ==
  ASSUME Base, TreesOK, NEW s \in Slots, Cleanup(s) PROVE OkNow /\ Collects(s)
<1>1. cmd[s].at = "cleanup" /\ Quiet /\ SameFlags
  BY DEF Cleanup, Step, At, disk, Quiet, SameBase, SameTrees, SameLinks, SameExports, SameApps,
     SameFlags
<1>2. removed \in SUBSET (Commits \cup Dirs)
  BY DEF TreesOK
<1>3. CmdOK' /\ Goes(s, "look", cmd[s].want, cmd[s].prev, removed)
  BY <1>2, PlaceNames, TodoStep DEF Cleanup, Base
<1>4. QED
  BY <1>1, <1>3, StaysOK DEF Base, Quiet, SameTrees, SameLinks, SameApps, OkNow, Collects

LEMMA LookStep ==
  ASSUME Base, NEW s \in Slots, LookAtRemoved(s) PROVE OkNow /\ Looks(s)
<1>1. cmd[s].at = "look" /\ Quiet /\ SameFlags
  BY DEF LookAtRemoved, Step, At, disk, Quiet, SameBase, SameTrees, SameLinks, SameExports,
     SameApps, SameFlags
<1>2. CASE Goto(s, "done")
  <2>1. CmdOK' /\ GoesTo(s, "done")
    BY <1>2, GotoStep, PlaceNames DEF Base
  <2>2. QED
    BY <1>1, <2>1, StaysOK DEF Base, Quiet, SameTrees, SameLinks, SameApps, OkNow, Looks
<1>3. CASE ~Goto(s, "done")
  <2> DEFINE at(d) == IF dir_is_locked(d) THEN "look" ELSE "clean"
  <2>1. PICK d \in cmd[s].todo :
          cmd' = [cmd EXCEPT ![s].todo = @ \ {d}, ![s].prev = d, ![s].at = at(d)]
    BY <1>3 DEF LookAtRemoved
  <2>2. d \in Commits \cup Dirs
    BY <1>1, Fields DEF Base, CmdOK
  <2>3. PICK p : p = at(d)
    OBVIOUS
  <2>4. p \in Places /\ p \in {"look", "clean"} /\ (p = "clean" => ~dir_is_locked(d))
    BY <2>3, PlaceNames
  <2>5. CmdOK' /\ Goes(s, p, cmd[s].want, d, cmd[s].todo \ {d})
    BY <2>1, <2>2, <2>3, <2>4, PickStep DEF Base
  <2>6. QED
    BY <1>1, <2>4, <2>5, StaysOK DEF Base, Quiet, SameTrees, SameLinks, SameApps, OkNow, Looks
<1>4. QED
  BY <1>2, <1>3

LEMMA RemoveBaseStep ==
  ASSUME Base, NEW s \in Slots, RemoveBase(s)
  PROVE  /\ OkNow
         /\ \/ RemovesOrigin(s) \/ RemovesActive(s) \/ RemovesBase(s)
            \/ \E c \in Commits, d \in Dirs : RemovesCheckout(s, c, d)
<1> DEFINE r == cmd[s].ref
<1>1. Removing(s)
  BY DEF RemoveBase, Step, At, SameExports, SameApps, Removing
<1>2. r \in Refs
  BY <1>1, Working DEF Removing, Base
<1>3. AppOK'
  BY <1>1, StaysOK DEF Removing, SameApps, Base
<1>4. CASE /\ r \in origin /\ origin' = origin \ {r}
           /\ UNCHANGED <<base, deployed, active, whole, spoiled, cmd>>
  BY <1>1, <1>3, <1>4, StaysOK DEF Base, CmdOK, OkNow, RemovesOrigin
<1>5. CASE /\ active[r] # NULL /\ active' = [active EXCEPT ![r] = NULL]
           /\ UNCHANGED <<base, origin, deployed, whole, spoiled, cmd>>
  <2>1. ActiveOK' /\ ActiveIs(r, NULL)
    BY <1>2, <1>5, ActiveStep DEF Base
  <2>2. QED
    BY <1>1, <1>3, <1>5, <2>1, StaysOK DEF Base, CmdOK, OkNow, SameBase, RemovesActive
<1>6. ASSUME NEW c \in Deployments(r), deployed' = [deployed EXCEPT ![r][c] = NULL],
             whole' = whole \ {deployed[r][c]}, spoiled' = spoiled \cup {deployed[r][c]},
             UNCHANGED <<base, origin, active, cmd>>
      PROVE  OkNow /\ \E e \in Commits, d \in Dirs : RemovesCheckout(s, e, d)
  <2>1. c \in Commits /\ deployed[r][c] # NULL
    BY DEF Deployments
  <2>2. deployed[r][c] \in Dirs
    BY <1>2, <2>1 DEF Base, DeployedOK
  <2>3. DeployedOK' /\ DeployedIs(r, c, NULL)
    BY <1>2, <1>6, <2>1, DeployedStep DEF Base
  <2>4. RemovesCheckout(s, c, deployed[r][c])
    BY <1>1, <1>6, <2>1, <2>2, <2>3 DEF SameBase, RemovesCheckout
  <2>5. QED
    BY <1>3, <1>6, <2>1, <2>2, <2>3, <2>4, StaysOK DEF Base, CmdOK, OkNow
<1>7. ASSUME r \notin origin, active[r] = NULL, Deployments(r) = {}, base' = base \ {r},
             cmd' = [cmd EXCEPT ![s] =
               IF At(s, "rmbase") THEN [@ EXCEPT !.at = AfterRemoval(s)] ELSE NoCommand],
             UNCHANGED <<origin, deployed, active, whole, spoiled>>
      PROVE  OkNow /\ RemovesBase(s)
  <2>1. \A c \in Commits : deployed[r][c] = NULL
    BY <1>7 DEF Deployments
  <2>2. CASE cmd[s].at = "rmbase"
    <3>1. AfterRemoval(s) \in Places
      BY PlaceNames DEF AfterRemoval
    <3>2. Goto(s, AfterRemoval(s))
      BY <1>7, <2>2 DEF Goto, At
    <3>3. CmdOK' /\ GoesTo(s, AfterRemoval(s))
      BY <3>1, <3>2, GotoStep DEF Base
    <3>4. QED
      BY <1>1, <1>3, <1>7, <2>1, <2>2, <3>3, StaysOK DEF Base, OkNow, RemovesBase
  <2>3. CASE cmd[s].at # "rmbase"
    <3>1. cmd' = [cmd EXCEPT ![s] = NoCommand]
      BY <1>7, <2>3 DEF At
    <3>2. CmdOK' /\ Ends(s)
      BY <3>1, EndsStep DEF Base
    <3>3. QED
      BY <1>1, <1>3, <1>7, <2>1, <2>3, <3>2, StaysOK DEF Base, OkNow, Removing, RemovesBase
  <2>4. QED
    BY <2>2, <2>3
<1>8. QED
  BY <1>4, <1>5, <1>6, <1>7 DEF RemoveBase

LEMMA SandboxStep ==
  ASSUME Base, NEW a \in Apps, Sandbox(a) PROVE OkNow /\ (AppGoes(a) \/ Locks(a))
<1>0. /\ SameBase /\ SameTrees /\ SameLinks /\ SameExports /\ SameFlags /\ cmd' = cmd
  BY DEF Sandbox, RunApp, MountFiles, LockFiles, AppExits, AppStep, disk, history, SameBase,
     SameTrees, SameLinks, SameExports, SameFlags
<1>1. CmdOK' /\ DeployedOK' /\ ActiveOK'
  BY <1>0, StaysOK DEF Base, CmdOK, SameTrees, SameLinks
<1>2. ASSUME NEW n \in Sandboxes, app' = [app EXCEPT ![a] = n],
             n.at = "starting" => n.ref \in Refs
      PROVE  AppOK' /\ app'[a] = n /\ AppChanges(a)
  BY <1>0, <1>2 DEF Base, AppOK, AppChanges
<1>3. app[a] \in Sandboxes
  BY DEF Base, AppOK
<1>4. \A p \in {"none", "starting", "mounted", "locked", "unlocked"} : p \in AppPlaces
  BY DEF AppPlaces
<1>5. NoApp \in Sandboxes /\ NoApp.at = "none"
  BY <1>4 DEF NoApp, Sandboxes
<1>6. ASSUME NEW r \in Refs, RunApp(a, r) PROVE OkNow /\ AppGoes(a)
  <2> DEFINE n == [NoApp EXCEPT !.at = "starting", !.ref = r]
  <2>1. n \in Sandboxes /\ n.at = "starting" /\ n.ref \in Refs
    BY <1>4, <1>5 DEF Sandboxes
  <2>2. app' = [app EXCEPT ![a] = n]
    BY <1>6 DEF RunApp
  <2> HIDE DEF n
  <2>3. QED
    BY <1>1, <1>2, <2>1, <2>2 DEF OkNow, AppGoes
<1>7. CASE MountFiles(a)
  <2> DEFINE d == ActiveDir(app[a].ref)
             n == [app[a] EXCEPT !.at = "mounted", !.dir = d]
  <2>1. CASE d = NULL
    <3>1. app' = [app EXCEPT ![a] = NoApp]
      BY <1>7, <2>1 DEF MountFiles
    <3>2. QED
      BY <1>1, <1>2, <1>5, <3>1 DEF OkNow, AppGoes
  <2>2. CASE d # NULL
    <3>1. ActiveOK /\ DeployedOK /\ app[a].ref \in Refs \cup {NULL}
      BY <1>3 DEF Base, Sandboxes
    <3>2. d \in Dirs
      <4>1. active[app[a].ref] # NULL /\ d = deployed[app[a].ref][active[app[a].ref]]
        BY <2>2 DEF ActiveDir
      <4>2. app[a].at = "starting"
        BY <1>7 DEF MountFiles
      <4>3. app[a].ref \in Refs
        BY <4>2 DEF Base, AppOK
      <4>4. QED
        BY <2>2, <3>1, <4>1, <4>3 DEF ActiveOK, DeployedOK
    <3>3. n \in Sandboxes /\ n.at = "mounted"
      <4> HIDE DEF d
      <4>1. QED
        BY <1>3, <1>4, <3>2 DEF Sandboxes
    <3>4. app' = [app EXCEPT ![a] = n]
      BY <1>7, <2>2 DEF MountFiles
    <3> HIDE DEF n
    <3>5. QED
      BY <1>1, <1>2, <3>3, <3>4 DEF OkNow, AppGoes
  <2>3. QED
    BY <2>1, <2>2
<1>8. CASE LockFiles(a)
  <2> DEFINE at == IF app[a].dir \in whole THEN "locked" ELSE "unlocked"
             e == app[a].dir \notin removed
             n == [app[a] EXCEPT !.at = at, !.early = e]
  <2>1. /\ e \in BOOLEAN /\ at \in AppPlaces /\ at # "starting"
        /\ at = "locked" => app[a].dir \in whole
    BY <1>4
  <2>2. app' = [app EXCEPT ![a] = n]
    BY <1>8 DEF LockFiles, Base, AppOK
  <2>3. e => app[a].dir \notin removed
    OBVIOUS
  <2> HIDE DEF at, e
  <2>4. n \in Sandboxes /\ n.at = at /\ n.early = e /\ n.dir = app[a].dir
    BY <1>3, <2>1 DEF Sandboxes
  <2> HIDE DEF n
  <2>5. QED
    BY <1>1, <1>2, <2>1, <2>2, <2>3, <2>4 DEF OkNow, Locks
<1>9. CASE AppExits(a)
  BY <1>1, <1>2, <1>5, <1>9 DEF AppExits, OkNow, AppGoes
<1>10. QED
  BY <1>6, <1>7, <1>8, <1>9 DEF Sandbox

LEMMA Detailed == ASSUME Base, TreesOK, [Next]_vars PROVE OkNow /\ Effect
<1>1. CASE UNCHANGED vars
  <2>1. deployed' = deployed /\ active' = active /\ app' = app /\ cmd' = cmd
    BY <1>1 DEF vars, disk
  <2>2. OkNow
    BY <2>1, StaysOK DEF Base, CmdOK, OkNow
  <2>3. QED
    BY <1>1, <2>2 DEF vars, Effect
<1>2. ASSUME NEW s \in Slots, Command(s) PROVE OkNow /\ Effect
  <2>1. ASSUME NEW r \in Refs,
               \/ install(s, r) \/ install_bundle(s, r) \/ make_current_app(s, r)
               \/ \E force \in BOOLEAN : update(s, r, force) \/ uninstall(s, r, force)
        PROVE  OkNow /\ Effect
    BY <2>1, CommandStarts DEF Effect, Starting
  <2>2. ASSUME Pull(s) \/ MakeBase(s) \/ WriteOrigin(s) \/ Deploy(s) PROVE OkNow /\ Effect
    BY <2>2, PullStep, MakeBaseStep, WriteOriginStep, DeployStep
       DEF Effect, Ending, Looking, Deploying
  <2>3. ASSUME Checkout(s) \/ FinishCheckout(s) \/ Activate(s) PROVE OkNow /\ Effect
    BY <2>3, CheckoutStep, FinishStep, ActivateStep DEF Effect, Ending, Deploying, Linking
  <2>4. ASSUME UnlinkCurrent(s) \/ LinkCurrent(s) \/ ExportFiles(s) \/ RemoveDangling(s)
        PROVE  OkNow /\ Effect
    BY <2>4, UnlinkCurrentStep, LinkCurrentStep, ExportFilesStep, RemoveDanglingStep
       DEF Effect, Ending, Linking, Publishing
  <2>5. ASSUME Deactivate(s) \/ DropCurrent(s) \/ ListDeployed(s) PROVE OkNow /\ Effect
    BY <2>5, DeactivateStep, DropCurrentStep, ListStep DEF Effect, Looking, Linking
  <2>6. ASSUME Undeploy(s) \/ MoveToRemoved(s) \/ CheckLock(s) \/ RemoveUndeployed(s)
        PROVE  OkNow /\ Effect
    BY <2>6, UndeployStep, MoveStep, CheckStep, RemoveUndeployedStep
       DEF Effect, Ending, Looking, Linking, Discarding
  <2>7. ASSUME RemoveBase(s) PROVE OkNow /\ Effect
    BY <2>7, RemoveBaseStep DEF Effect, Wiping
  <2>8. ASSUME Cleanup(s) \/ LookAtRemoved(s) \/ CleanRemoved(s) PROVE OkNow /\ Effect
    BY <2>8, CollectStep, LookStep, CleanStep DEF Effect, Looking, Discarding
  <2>9. ASSUME CallFails(s) PROVE OkNow /\ Effect
    <3>1. cmd[s].at \notin {"idle", "done"}
      BY <2>9 DEF CallFails, Fallible
    <3>2. QED
      BY <2>9, <3>1, AbortStep DEF Effect, Ending
  <2>10. ASSUME Killed(s) \/ Returns(s) PROVE OkNow /\ Effect
    BY <2>10, KilledStep, ReturnsStep DEF Effect, Ending
  <2>11. QED
    BY <1>2, <2>1, <2>2, <2>3, <2>4, <2>5, <2>6, <2>7, <2>8, <2>9, <2>10 DEF Command
<1>3. ASSUME NEW a \in Apps, Sandbox(a) PROVE OkNow /\ Effect
  BY <1>3, SandboxStep DEF Effect
<1>4. QED
  BY <1>1, <1>2, <1>3 DEF Next

-----------------------------------------------------------------------------
(* Which steps change what.                                                *)

LEMMA Leaves ==
  ASSUME NEW s \in Slots
  PROVE  /\ Starting(s) => Quiet /\ suspect' = suspect
         /\ Ending(s) => Quiet
         /\ Looking(s) => Quiet /\ SameFlags
         /\ Deploying(s) => SameLinks /\ SameExports /\ SameApps /\ SameFlags
         /\ Linking(s) => SameBase /\ SameTrees /\ SameExports /\ SameApps /\ SameFlags
         /\ Publishing(s) =>
              SameBase /\ SameTrees /\ SameLinks /\ SameApps /\ installed' = installed
         /\ Discarding(s) => SameBase /\ SameLinks /\ SameExports /\ SameApps /\ SameFlags
         /\ Wiping(s) => SameExports /\ SameApps /\ installed' = installed
<1>1. Starting(s) => Quiet /\ suspect' = suspect
  BY DEF Starting, BeginsInstall, BeginsUpdate, BeginsUninstall, BeginsCurrent, Begins
<1>2. (Ending(s) => Quiet) /\ (Looking(s) => Quiet /\ SameFlags)
  BY DEF Ending, Aborts, RollsBack, Finishes, Looking, Pulls, Lists, Checks, Collects, Looks,
     Resolves
<1>3. Deploying(s) => SameLinks /\ SameExports /\ SameApps /\ SameFlags
  BY DEF Deploying, MakesBase, WritesOrigin, ChecksOut, FillsIn
<1>4. Linking(s) => SameBase /\ SameTrees /\ SameExports /\ SameApps /\ SameFlags
  BY DEF Linking, Activates, UnlinksCurrent, LinksCurrent, Deactivates, DropsCurrent, Undeploys
<1>5. Publishing(s) => SameBase /\ SameTrees /\ SameLinks /\ SameApps /\ installed' = installed
  BY DEF Publishing, Exports, Trims, SameFlags
<1>6. Discarding(s) => SameBase /\ SameLinks /\ SameExports /\ SameApps /\ SameFlags
  BY DEF Discarding, RemovesUndeployed, Cleans, RemovesTree, MovesAway
<1>7. Wiping(s) => SameExports /\ SameApps /\ installed' = installed
  BY DEF Wiping, RemovesOrigin, RemovesActive, RemovesBase, RemovesCheckout, Removing
<1>8. QED
  BY <1>1, <1>2, <1>3, <1>4, <1>5, <1>6, <1>7

LEMMA Stutters ==
  ASSUME UNCHANGED <<disk, cmd, app, history>> \/ \E a \in Apps : AppGoes(a) \/ Locks(a)
  PROVE  SameBase /\ SameTrees /\ SameLinks /\ SameExports /\ SameFlags /\ cmd' = cmd
BY DEF AppGoes, Locks, AppChanges, SameBase, SameTrees, SameLinks, SameExports, SameFlags, disk,
   history

LEMMA BaseChange ==
  ASSUME Effect
  PROVE  \/ SameBase
         \/ \E s \in Slots : MakesBase(s) \/ WritesOrigin(s) \/ RemovesOrigin(s) \/ RemovesBase(s)
<1>1. ASSUME NEW s \in Slots, Deploying(s) PROVE SameBase \/ MakesBase(s) \/ WritesOrigin(s)
  BY <1>1 DEF Deploying, ChecksOut, FillsIn
<1>2. ASSUME NEW s \in Slots, Wiping(s) PROVE SameBase \/ RemovesOrigin(s) \/ RemovesBase(s)
  BY <1>2 DEF Wiping, RemovesActive, RemovesCheckout
<1>3. QED
  BY <1>1, <1>2, Leaves, Stutters DEF Effect, Quiet

LEMMA TreesChange ==
  ASSUME Effect
  PROVE  \/ SameTrees
         \/ \E s \in Slots :
              \/ \E d \in Dirs : ChecksOut(s, d) \/ FillsIn(s, d) \/ MovesAway(s, d)
              \/ RemovesUndeployed(s) \/ Cleans(s)
              \/ \E c \in Commits, d \in Dirs : RemovesCheckout(s, c, d)
<1>1. ASSUME NEW s \in Slots, Deploying(s)
      PROVE  SameTrees \/ \E d \in Dirs : ChecksOut(s, d) \/ FillsIn(s, d)
  BY <1>1 DEF Deploying, MakesBase, WritesOrigin
<1>2. ASSUME NEW s \in Slots, Wiping(s)
      PROVE  SameTrees \/ \E c \in Commits, d \in Dirs : RemovesCheckout(s, c, d)
  BY <1>2 DEF Wiping, RemovesOrigin, RemovesActive, RemovesBase, Removing, SameTrees
<1>3. QED
  BY <1>1, <1>2, Leaves, Stutters DEF Effect, Quiet, Discarding

LEMMA LinksChange ==
  ASSUME Effect
  PROVE  \/ SameLinks
         \/ \E s \in Slots :
              \/ Activates(s) \/ UnlinksCurrent(s) \/ LinksCurrent(s) \/ Deactivates(s)
              \/ DropsCurrent(s) \/ RemovesActive(s) \/ \E c \in Commits : Undeploys(s, c)
<1>1. ASSUME NEW s \in Slots, Wiping(s) PROVE SameLinks \/ RemovesActive(s)
  BY <1>1 DEF Wiping, RemovesOrigin, RemovesBase, RemovesCheckout, Removing, SameLinks
<1>2. QED
  BY <1>1, Leaves, Stutters DEF Effect, Quiet, Linking

LEMMA ExportsChange ==
  ASSUME Effect PROVE exports' = exports \/ \E s \in Slots : Exports(s) \/ Trims(s)
BY Leaves, Stutters DEF Effect, Quiet, Publishing, SameExports

LEMMA SuspectChange ==
  ASSUME Effect
  PROVE  \/ suspect' = suspect
         \/ \E s \in Slots : Aborts(s) \/ RollsBack(s) \/ Exports(s) \/ Removing(s)
<1>1. ASSUME NEW s \in Slots, Ending(s) PROVE suspect' = suspect \/ Aborts(s) \/ RollsBack(s)
  BY <1>1 DEF Ending, Finishes
<1>2. ASSUME NEW s \in Slots, Publishing(s) PROVE suspect' = suspect \/ Exports(s)
  BY <1>2 DEF Publishing, Trims, SameFlags
<1>3. ASSUME NEW s \in Slots, Wiping(s) PROVE Removing(s)
  BY <1>3 DEF Wiping, RemovesOrigin, RemovesActive, RemovesBase, RemovesCheckout
<1>4. QED
  BY <1>1, <1>2, <1>3, Leaves, Stutters DEF Effect, SameFlags

LEMMA InstalledChange ==
  ASSUME Effect
  PROVE  \/ installed' = installed
         \/ \E s \in Slots : Finishes(s) \/ \E r \in Refs : BeginsUninstall(s, r)
<1>1. ASSUME NEW s \in Slots, Starting(s)
      PROVE  installed' = installed \/ \E r \in Refs : BeginsUninstall(s, r)
  BY <1>1 DEF Starting, BeginsInstall, BeginsUpdate, BeginsCurrent
<1>2. ASSUME NEW s \in Slots, Ending(s) PROVE installed' = installed \/ Finishes(s)
  BY <1>2 DEF Ending, Aborts, RollsBack
<1>3. QED
  BY <1>1, <1>2, Leaves, Stutters DEF Effect, SameFlags

LEMMA AppsChange ==
  ASSUME Effect PROVE app' = app \/ \E a \in Apps : AppGoes(a) \/ Locks(a)
BY Leaves DEF Effect, Quiet, SameApps

\* A command starts, ends, goes on, or stays where it is.
GoesOn(s, at) ==
  /\ \A u \in Slots : u # s => cmd'[u] = cmd[u]
  /\ cmd'[s].at = at
  /\ cmd'[s].op = cmd[s].op /\ cmd'[s].ref = cmd[s].ref /\ cmd'[s].alone = cmd[s].alone

LEMMA GoesGoesOn ==
  \A s \in Slots : \A at, want, prev, todo : Goes(s, at, want, prev, todo) => GoesOn(s, at)
BY DEF Goes, GoesOn, Keeps4, Others

LEMMA CmdChange ==
  ASSUME Effect
  PROVE  \/ cmd' = cmd
         \/ \E s \in Slots :
              \/ Starting(s) /\ \E op \in Ops, r \in Refs, at \in Places : Begins(s, op, r, at)
              \/ cmd[s].at # "idle" /\ (Ends(s) \/ \E at \in Places : GoesOn(s, at))
<1>1. ASSUME NEW s \in Slots, Starting(s)
      PROVE  \E op \in Ops, r \in Refs, at \in Places : Begins(s, op, r, at)
  BY <1>1, PlaceNames
     DEF Starting, BeginsInstall, BeginsUpdate, BeginsUninstall, BeginsCurrent, Installs, Ops
<1> DEFINE Moves(s) == cmd[s].at # "idle" /\ (Ends(s) \/ \E at \in Places : GoesOn(s, at))
<1>2. ASSUME NEW s \in Slots, Ending(s) PROVE Moves(s)
  BY <1>2, PlaceNames, GoesGoesOn DEF Ending, Aborts, RollsBack, MadeBase, Finishes, GoesTo
<1>3. ASSUME NEW s \in Slots, Looking(s) PROVE Moves(s)
  BY <1>3, PlaceNames, GoesGoesOn
     DEF Looking, Pulls, Lists, Checks, NextUndeploy, AfterUndeploy, Collects, Looks, Resolves,
         GoesTo
<1>4. ASSUME NEW s \in Slots, Deploying(s) PROVE Moves(s)
  BY <1>4, PlaceNames, GoesGoesOn
     DEF Deploying, MakesBase, WritesOrigin, ChecksOut, FillsIn, GoesTo
<1>5. ASSUME NEW s \in Slots, Linking(s) PROVE Moves(s)
  BY <1>5, PlaceNames, GoesGoesOn
       DEF Linking, Activates, AfterDeploy, AfterUndeploy, UnlinksCurrent, LinksCurrent,
         Deactivates, DropsCurrent, Undeploys, GoesTo
<1>6. ASSUME NEW s \in Slots, Publishing(s) PROVE Moves(s)
  BY <1>6, PlaceNames, GoesGoesOn DEF Publishing, Exports, Trims, AfterExports, GoesTo
<1>7. ASSUME NEW s \in Slots, Discarding(s) PROVE Moves(s)
  BY <1>7, PlaceNames, GoesGoesOn
     DEF Discarding, RemovesUndeployed, Cleans, RemovesTree, NextUndeploy, AfterUndeploy,
         MovesAway, GoesTo
<1>8. ASSUME NEW s \in Slots, Wiping(s) PROVE cmd' = cmd \/ Moves(s)
  BY <1>8, PlaceNames, GoesGoesOn
     DEF Wiping, RemovesOrigin, RemovesActive, RemovesCheckout, RemovesBase, Removing,
         AfterRemoval, GoesTo
<1>9. QED
  BY <1>1, <1>2, <1>3, <1>4, <1>5, <1>6, <1>7, <1>8, Stutters DEF Effect

-----------------------------------------------------------------------------
(* Every step keeps the parts of the invariant.                            *)

LEMMA CmdTypes ==
  ASSUME CmdOK
  PROVE  \A s \in Slots :
           /\ cmd[s].ref \in Refs \cup {NULL} /\ cmd[s].want \in Commits \cup {NULL}
           /\ cmd[s].prev \in Commits \cup Dirs \cup {NULL}
           /\ cmd[s].todo \subseteq Commits \cup Dirs
BY Fields DEF CmdOK

LEMMA ExposedOK ==
  ASSUME CurrentOK, ActiveOK, TreesOK PROVE Exposed \subseteq UNION {Exported[c] : c \in Commits}
<1>1. CASE current = NULL \/ ActiveDir(current) \notin whole
  BY <1>1 DEF Exposed
<1>2. CASE current # NULL /\ ActiveDir(current) \in whole
  <2>1. active[current] # NULL
    BY <1>2, NullAssumption DEF ActiveDir, TreesOK
  <2>2. active[current] \in Commits
    BY <1>2, <2>1, RefsAssumption DEF CurrentOK, ActiveOK
  <2>3. QED
    BY <1>2, <2>2 DEF Exposed
<1>3. QED
  BY <1>1, <1>2

\* What a step means for the exports: who has changed what is to be exported is
\* not done with it, who trims the exports neither, unless it ends early.
ExportersStay ==
  \/ \E s \in Slots : Aborts(s) \/ RollsBack(s) \/ Exports(s)
  \/ \A s \in Slots : Exporting(s) => Exporting(s)'
TrimmersStay ==
  \/ \E s \in Slots : Aborts(s) \/ RollsBack(s) \/ Trims(s)
  \/ \A s \in Slots : At(s, "dangling") => At(s, "dangling")'
FlagGo ==
  \/ \E s \in Slots : Aborts(s) \/ RollsBack(s) \/ Exports(s) \/ Trims(s) \/ Removing(s)
  \/ exports' = exports /\ suspect' = suspect

\* What is to be exported stays the same, or somebody who changed it has still to
\* go through the exports.
SameView ==
  /\ current' = current
  /\ current # NULL =>
       /\ active'[current] = active[current]
       /\ ActiveDir(current)' \in whole' <=> ActiveDir(current) \in whole
ViewKept ==
  \/ SameView
  \/ \E s \in Slots : Exporting(s)' \/ (Removing(s) /\ cmd[s].at = "rollback")

LEMMA SameExposed == ASSUME SameView PROVE Exposed' = Exposed
BY DEF SameView, Exposed

LEMMA CurrentFacts ==
  ASSUME CurrentOK, ActiveOK, TreesOK
  PROVE  /\ NULL \notin whole
         /\ current # NULL =>
              current \in AppRefs /\ current \in Refs /\ active[current] \in Commits \cup {NULL}
BY NullAssumption, RefsAssumption DEF CurrentOK, ActiveOK, TreesOK

LEMMA CurrentIs ==
  ASSUME CurrentOK PROVE \A r \in Refs : r \notin AppRefs => current # r
BY NullAssumption DEF CurrentOK

LEMMA ViewMeans ==
  ASSUME ViewKept, \A s \in Slots : ~Exporting(s)' /\ ~(Removing(s) /\ cmd[s].at = "rollback")
  PROVE  Exposed' = Exposed
BY SameExposed DEF ViewKept

LEMMA StillExposed == ASSUME SameTrees, SameLinks PROVE Exposed' = Exposed
BY DEF Exposed, ActiveDir, SameTrees, SameLinks

\* Steps that leave the exports alone.
LEMMA CalmMissing ==
  ASSUME NoneMissing, ~suspect' => ~suspect, exports' = exports, ViewKept,
         \A s \in Slots : Removing(s) /\ cmd[s].at = "rollback" => suspect',
         \A s \in Slots : Exporting(s) => Exporting(s)'
  PROVE  NoneMissing'
<1>1. SUFFICES ASSUME ~suspect', \A s \in Slots : ~Exporting(s)'
               PROVE  Exposed' \subseteq exports'
  BY DEF NoneMissing
<1>2. Exposed' = Exposed
  BY <1>1, ViewMeans
<1>3. QED
  BY <1>1, <1>2 DEF NoneMissing

LEMMA CalmDangles ==
  ASSUME NoneDangles, ~suspect' => ~suspect, exports' = exports, ViewKept,
         \A s \in Slots : Removing(s) /\ cmd[s].at = "rollback" => suspect',
         \A s \in Slots : Exporting(s) => Exporting(s)',
         \A s \in Slots : At(s, "dangling") => At(s, "dangling")'
  PROVE  NoneDangles'
<1>1. SUFFICES ASSUME ~suspect', \A s \in Slots : ~Exporting(s)' /\ ~At(s, "dangling")'
               PROVE  exports' \subseteq Exposed'
  BY DEF NoneDangles
<1>2. Exposed' = Exposed
  BY <1>1, ViewMeans
<1>3. QED
  BY <1>1, <1>2 DEF NoneDangles

LEMMA OthersExport ==
  ASSUME NEW s \in Slots, Exports(s) \/ Trims(s)
  PROVE  /\ Exposed' = Exposed
         /\ Exports(s) => exports' = exports \cup Exposed /\ At(s, "dangling")'
         /\ Trims(s) => exports' = exports \cap Exposed /\ suspect' = suspect
<1>1. Exposed' = Exposed
  BY StillExposed DEF Exports, Trims
<1>2. QED
  BY <1>1 DEF Exports, Trims, GoesTo, Goes, SameFlags, At

\* The exports follow what changes them.
LEMMA ExportsFollowStep ==
  ASSUME SuspectOK, ViewKept, FlagGo, ExportersStay, TrimmersStay, NoneMissing, NoneDangles
  PROVE  NoneMissing' /\ NoneDangles'
<1>1. CASE \E s \in Slots : Aborts(s) \/ RollsBack(s)
  BY <1>1 DEF Aborts, RollsBack, NoneMissing, NoneDangles
<1>2. ASSUME NEW s \in Slots, Exports(s) PROVE NoneMissing' /\ NoneDangles'
  BY <1>2, OthersExport DEF NoneMissing, NoneDangles
<1>3. ASSUME NEW s \in Slots, Trims(s), ~\E u \in Slots : Aborts(u) \/ RollsBack(u) \/ Exports(u)
      PROVE  NoneMissing' /\ NoneDangles'
  <2>1. Exposed' = Exposed /\ exports' = exports \cap Exposed /\ suspect' = suspect
    BY <1>3, OthersExport
  <2>2. \A u \in Slots : Exporting(u) => Exporting(u)'
    BY <1>3 DEF ExportersStay
  <2>3. QED
    BY <2>1, <2>2 DEF NoneMissing, NoneDangles
<1>4. CASE ~\E u \in Slots : Aborts(u) \/ RollsBack(u) \/ Exports(u) \/ Trims(u)
  <2>1. /\ \A u \in Slots : Exporting(u) => Exporting(u)'
        /\ \A u \in Slots : At(u, "dangling") => At(u, "dangling")'
    BY <1>4 DEF ExportersStay, TrimmersStay
  <2>2. \A u \in Slots : Removing(u) /\ cmd[u].at = "rollback" => suspect'
    BY Zenon DEF Removing
  <2>3. exports' = exports /\ (~suspect' => ~suspect)
    <3>1. ASSUME NEW u \in Slots, Removing(u) PROVE exports' = exports /\ (~suspect' => ~suspect)
      BY <3>1, Zenon DEF Removing, SameExports
    <3>2. CASE ~\E u \in Slots : Removing(u)
      <4>1. exports' = exports /\ suspect' = suspect
        BY <1>4, <3>2, Zenon DEF FlagGo
      <4>2. QED
        BY <4>1 DEF SuspectOK
    <3>3. QED
      BY <3>1, <3>2
  <2>4. QED
    BY <2>1, <2>2, <2>3, CalmMissing, CalmDangles
<1>5. QED
  BY <1>1, <1>2, <1>3, <1>4

LEMMA BaseStep ==
  ASSUME BaseOK, CmdShaped, Effect PROVE BaseOK'
<1>1. installed' \subseteq Refs
  BY InstalledChange DEF BaseOK, Finishes, BeginsUninstall, CmdShaped
<1>2. base' \subseteq Refs /\ origin' \subseteq base'
  <2>1. CASE SameBase
    BY <2>1 DEF BaseOK, SameBase
  <2>2. ASSUME NEW s \in Slots, MakesBase(s) \/ WritesOrigin(s)
        PROVE  base' \subseteq Refs /\ origin' \subseteq base'
    BY <2>2 DEF BaseOK, MakesBase, WritesOrigin, CmdShaped
  <2>3. ASSUME NEW s \in Slots, RemovesOrigin(s) \/ RemovesBase(s)
        PROVE  base' \subseteq Refs /\ origin' \subseteq base'
    BY <2>3 DEF BaseOK, RemovesOrigin, RemovesBase
  <2>4. QED
    BY <2>1, <2>2, <2>3, BaseChange
<1>3. QED
  BY <1>1, <1>2 DEF BaseOK

LEMMA CurrentStep ==
  ASSUME CurrentOK, CmdShaped, Effect PROVE CurrentOK'
BY LinksChange
   DEF CurrentOK, SameLinks, Activates, UnlinksCurrent, LinksCurrent, Deactivates, DropsCurrent,
       RemovesActive, Removing, Undeploys, CmdShaped

LEMMA TreesStep ==
  ASSUME TreesOK, CmdShaped, Effect PROVE TreesOK'
BY TreesChange
   DEF TreesOK, SameTrees, ChecksOut, FillsIn, MovesAway, RemovesUndeployed, Cleans, RemovesTree,
       RemovesCheckout, Removing, CmdShaped

LEMMA ExportsStep ==
  ASSUME ExportsOK, CurrentOK, ActiveOK, TreesOK, Effect PROVE ExportsOK'
BY ExportsChange, ExposedOK DEF ExportsOK, Exports, Trims

LEMMA SuspectStep ==
  ASSUME SuspectOK, Effect PROVE SuspectOK'
BY SuspectChange DEF SuspectOK, Aborts, RollsBack, Exports, Removing

LEMMA UniqueStep ==
  ASSUME DirsUnique, Effect PROVE DirsUnique'
<1>1. ASSUME NEW s \in Slots, NEW d \in Dirs, ChecksOut(s, d) PROVE DirsUnique'
  BY <1>1 DEF DirsUnique, ChecksOut, DeployedIs, InUse
<1>2. ASSUME NEW s \in Slots, NEW c \in Commits, NEW d \in Dirs,
             MovesAway(s, d) \/ RemovesCheckout(s, c, d)
      PROVE  DirsUnique'
  BY <1>2 DEF DirsUnique, MovesAway, RemovesCheckout, DeployedIs
<1>3. QED
  BY <1>1, <1>2, TreesChange
     DEF DirsUnique, SameTrees, FillsIn, RemovesUndeployed, Cleans, RemovesTree

LEMMA ApartStep ==
  ASSUME DirsApart, DirsUnique, TreesOK, CmdShaped, Effect PROVE DirsApart'
<1>1. ASSUME NEW s \in Slots, NEW d \in Dirs, ChecksOut(s, d) PROVE DirsApart'
  BY <1>1 DEF DirsApart, ChecksOut, DeployedIs, InUse
<1>2. ASSUME NEW s \in Slots, NEW d \in Dirs, MovesAway(s, d) PROVE DirsApart'
  BY <1>2, NullAssumption DEF DirsApart, DirsUnique, MovesAway, DeployedIs, TreesOK, CmdShaped
<1>3. ASSUME NEW s \in Slots, NEW c \in Commits, NEW d \in Dirs, RemovesCheckout(s, c, d)
      PROVE  DirsApart'
  BY <1>3, NullAssumption DEF DirsApart, RemovesCheckout, Removing, DeployedIs, TreesOK
<1>4. QED
  BY <1>1, <1>2, <1>3, TreesChange
     DEF DirsApart, SameTrees, FillsIn, RemovesUndeployed, Cleans, RemovesTree

LEMMA WholeStep ==
  ASSUME TreesOK, WholeSomewhere, DirsUnique, CmdShaped, Effect PROVE WholeSomewhere'
<1>1. ASSUME NEW s \in Slots, NEW d \in Dirs, ChecksOut(s, d) PROVE WholeSomewhere'
  BY <1>1, NullAssumption DEF WholeSomewhere, IsDeployed, ChecksOut, DeployedIs, TreesOK
<1>2. ASSUME NEW s \in Slots, NEW d \in Dirs, FillsIn(s, d) PROVE WholeSomewhere'
  BY <1>2 DEF WholeSomewhere, IsDeployed, FillsIn, CmdShaped
<1>3. ASSUME NEW s \in Slots, NEW d \in Dirs, MovesAway(s, d) PROVE WholeSomewhere'
  BY <1>3 DEF WholeSomewhere, IsDeployed, MovesAway, DeployedIs
<1>4. ASSUME NEW s \in Slots, NEW c \in Commits, NEW d \in Dirs, RemovesCheckout(s, c, d)
      PROVE  WholeSomewhere'
  BY <1>4 DEF WholeSomewhere, IsDeployed, RemovesCheckout, Removing, DeployedIs
<1>5. ASSUME NEW s \in Slots, RemovesUndeployed(s) \/ Cleans(s) PROVE WholeSomewhere'
  BY <1>5 DEF WholeSomewhere, IsDeployed, RemovesUndeployed, Cleans, RemovesTree
<1>6. QED
  BY <1>1, <1>2, <1>3, <1>4, <1>5, TreesChange DEF WholeSomewhere, IsDeployed, SameTrees

\* An app that locked its files in time still has them.
LEMMA KeepsStep ==
  ASSUME WholeSomewhere, LockSeen, LockedKeepsFiles, Effect PROVE LockedKeepsFiles'
<1>1. CASE app' # app
  <2>1. PICK a \in Apps : AppGoes(a) \/ Locks(a)
    BY <1>1, AppsChange
  <2>2. QED
    BY <2>1 DEF AppGoes, Locks, AppChanges, SameTrees, LockedKeepsFiles
<1>2. CASE app' = app
  <2>1. ASSUME NEW s \in Slots, NEW d \in Dirs, ChecksOut(s, d) PROVE LockedKeepsFiles'
    BY <1>2, <2>1 DEF ChecksOut, LockedKeepsFiles, InUse
  <2>2. ASSUME NEW s \in Slots, NEW d \in Dirs, FillsIn(s, d) \/ MovesAway(s, d)
        PROVE  LockedKeepsFiles'
    BY <1>2, <2>2 DEF FillsIn, MovesAway, LockedKeepsFiles
  <2>3. ASSUME NEW s \in Slots, RemovesUndeployed(s) \/ Cleans(s) PROVE LockedKeepsFiles'
    BY <1>2, <2>3
       DEF RemovesUndeployed, Cleans, RemovesTree, LockedKeepsFiles, LockSeen, Keeps, Deletes
  <2>4. ASSUME NEW s \in Slots, NEW c \in Commits, NEW d \in Dirs, RemovesCheckout(s, c, d)
        PROVE  LockedKeepsFiles'
    BY <1>2, <2>4 DEF RemovesCheckout, LockedKeepsFiles
  <2>5. QED
    BY <1>2, <2>1, <2>2, <2>3, <2>4, TreesChange DEF SameTrees, LockedKeepsFiles
<1>3. QED
  BY <1>1, <1>2

LEMMA AloneStep ==
  ASSUME AloneIsAlone, Effect PROVE AloneIsAlone'
BY CmdChange DEF AloneIsAlone, At, Begins, Ends, Others, GoesOn

LEMMA FlagStep ==
  ASSUME Effect PROVE FlagGo
BY ExportsChange, SuspectChange DEF FlagGo, Removing, SameExports

LEMMA ViewStep ==
  ASSUME CurrentOK, ActiveOK, DeployedOK, TreesOK, CmdShaped, GoneStays, DirsUnique,
         WholeSomewhere, Effect
  PROVE  ViewKept
<1> DEFINE seen == current # NULL /\ active[current] # NULL
           dir == deployed[current][active[current]]
<1>1. ASSUME NEW s \in Slots,
             \/ Activates(s) \/ UnlinksCurrent(s) \/ LinksCurrent(s) \/ Deactivates(s)
             \/ DropsCurrent(s) \/ RemovesActive(s) \/ \E c \in Commits : Undeploys(s, c)
      PROVE  ViewKept
  BY <1>1, CurrentFacts
       DEF ViewKept, SameView, ActiveDir, Exporting, CmdShaped, Activates, AfterDeploy,
         AfterUndeploy, UnlinksCurrent, LinksCurrent, Deactivates, DropsCurrent, RemovesActive,
         Removing, Undeploys, ActiveIs, GoesTo, Goes, Keeps4, SameTrees
<1>2. ASSUME NEW s \in Slots, NEW d \in Dirs, ChecksOut(s, d) PROVE SameView
  <2>1. d \notin whole
    BY <1>2 DEF ChecksOut, WholeSomewhere, IsDeployed, InUse
  <2>2. QED
    BY <1>2, <2>1, CurrentFacts DEF SameView, ActiveDir, ChecksOut, DeployedIs, SameLinks
<1>3. ASSUME NEW s \in Slots, NEW d \in Dirs, FillsIn(s, d) PROVE ViewKept
  <2>1. CASE cmd[s].ref \in AppRefs
    BY <1>3, <2>1 DEF ViewKept, Exporting, FillsIn, GoesTo, Goes, Keeps4
  <2>2. CASE cmd[s].ref \notin AppRefs
    <3>1. seen => dir # d
      BY <1>3, <2>2, CurrentFacts DEF DirsUnique, FillsIn, CmdShaped
    <3>2. SameView
      BY <1>3, <3>1, CurrentFacts DEF SameView, ActiveDir, FillsIn, SameLinks
    <3>3. QED
      BY <3>2 DEF ViewKept
  <2>3. QED
    BY <2>1, <2>2
<1>4. ASSUME NEW s \in Slots, NEW d \in Dirs, MovesAway(s, d) PROVE ViewKept
  BY <1>4, CurrentFacts
     DEF ViewKept, SameView, ActiveDir, Exporting, CmdShaped, MovesAway, DeployedIs, SameLinks,
         Goes, Keeps4
<1>5. ASSUME NEW s \in Slots, RemovesUndeployed(s) \/ Cleans(s) PROVE SameView
  <2>1. seen => dir # cmd[s].prev
    BY <1>5, CurrentFacts DEF GoneStays, Gone, RemovesUndeployed, Cleans, RemovesTree
  <2>2. QED
    BY <1>5, <2>1, CurrentFacts
       DEF SameView, ActiveDir, RemovesUndeployed, Cleans, RemovesTree, SameLinks
<1>6. ASSUME NEW s \in Slots, NEW c \in Commits, NEW d \in Dirs, RemovesCheckout(s, c, d)
      PROVE  ViewKept
  <2>1. CASE cmd[s].ref \in AppRefs
    BY <1>6, <2>1 DEF ViewKept, Exporting, RemovesCheckout, Removing
  <2>2. CASE cmd[s].ref \notin AppRefs
    <3>1. cmd[s].ref \in Refs
      BY <1>6 DEF RemovesCheckout, Removing, CmdShaped
    <3>2. seen => dir # d
      BY <1>6, <2>2, <3>1, CurrentFacts DEF DirsUnique, RemovesCheckout
    <3>3. SameView
      BY <1>6, <2>2, <3>1, <3>2, CurrentFacts
         DEF SameView, ActiveDir, RemovesCheckout, Removing, DeployedIs
    <3>4. QED
      BY <3>3 DEF ViewKept
  <2>3. QED
    BY <2>1, <2>2
<1>7. CASE SameTrees /\ SameLinks
  BY <1>7 DEF ViewKept, SameView, ActiveDir, SameTrees, SameLinks
<1>8. QED
  BY <1>1, <1>2, <1>3, <1>4, <1>5, <1>6, <1>7, TreesChange, LinksChange DEF ViewKept

LEMMA ShapedStep ==
  ASSUME CmdOK, CmdShaped, TreesOK, ActiveOK, Effect
  PROVE  CmdShaped'
<1>1. CASE UNCHANGED <<disk, cmd, app, history>> \/ \E a \in Apps : AppGoes(a) \/ Locks(a)
  BY <1>1, Stutters, CmdTypes DEF CmdShaped, TreesOK, ActiveOK, Installs
<1>2. ASSUME NEW s \in Slots, Starting(s) PROVE CmdShaped'
  BY <1>2, CmdTypes
     DEF Starting, BeginsInstall, BeginsUpdate, BeginsUninstall, BeginsCurrent, Begins,
       CmdShaped, TreesOK, ActiveOK, Installs
<1>3. ASSUME NEW s \in Slots, Ending(s) PROVE CmdShaped'
  BY <1>3, CmdTypes
     DEF Ending, Aborts, RollsBack, MadeBase, Finishes, Ends, GoesTo, Goes, Keeps4, Others,
       CmdShaped, TreesOK, ActiveOK, Installs
<1>4. ASSUME NEW s \in Slots, Looking(s) PROVE CmdShaped'
  <2>1. ASSUME Pulls(s) PROVE CmdShaped'
    BY <1>4, <2>1, CmdTypes
       DEF Pulls, GoesTo, Goes, Keeps4, Others, CmdShaped, TreesOK, ActiveOK, Installs
  <2>2. ASSUME Lists(s) PROVE CmdShaped'
    BY <1>4, <2>2, CmdTypes
       DEF Lists, Deployments, GoesTo, Goes, Keeps4, Others, CmdShaped, TreesOK, ActiveOK,
         Installs
  <2>3. ASSUME Checks(s) PROVE CmdShaped'
    BY <1>4, <2>3, CmdTypes
       DEF Checks, NextUndeploy, AfterUndeploy, GoesTo, Goes, Keeps4, Others, CmdShaped,
         TreesOK, ActiveOK, Installs
  <2>4. ASSUME Collects(s) PROVE CmdShaped'
    BY <1>4, <2>4, CmdTypes
       DEF Collects, GoesTo, Goes, Keeps4, Others, CmdShaped, TreesOK, ActiveOK, Installs
  <2>5. ASSUME Looks(s) PROVE CmdShaped'
    BY <1>4, <2>5, CmdTypes
       DEF Looks, GoesTo, Goes, Keeps4, Others, CmdShaped, TreesOK, ActiveOK, Installs
  <2>6. ASSUME NEW c \in Commits, Resolves(s, c) PROVE CmdShaped'
    BY <1>4, <2>6, CmdTypes
       DEF Resolves, GoesTo, Goes, Keeps4, Others, CmdShaped, TreesOK, ActiveOK, Installs
  <2>7. QED
    BY <1>4, <2>1, <2>2, <2>3, <2>4, <2>5, <2>6 DEF Looking
<1>5. ASSUME NEW s \in Slots, Deploying(s) PROVE CmdShaped'
  BY <1>5, CmdTypes
     DEF Deploying, MakesBase, WritesOrigin, ChecksOut, FillsIn, GoesTo, Goes, Keeps4, Others,
       CmdShaped, TreesOK, ActiveOK, Installs
<1>6. ASSUME NEW s \in Slots, Linking(s) PROVE CmdShaped'
  BY <1>6, CmdTypes
     DEF Linking, Activates, AfterDeploy, AfterUndeploy, UnlinksCurrent, LinksCurrent,
       Deactivates, DropsCurrent, Undeploys, GoesTo, Goes, Keeps4, Others, CmdShaped, TreesOK,
       ActiveOK, Installs
<1>7. ASSUME NEW s \in Slots, Publishing(s) PROVE CmdShaped'
  BY <1>7, CmdTypes
     DEF Publishing, Exports, Trims, AfterExports, GoesTo, Goes, Keeps4, Others, CmdShaped,
       TreesOK, ActiveOK, Installs
<1>8. ASSUME NEW s \in Slots, Discarding(s) PROVE CmdShaped'
  BY <1>8, CmdTypes
     DEF Discarding, RemovesUndeployed, Cleans, RemovesTree, NextUndeploy, AfterUndeploy,
       MovesAway, GoesTo, Goes, Keeps4, Others, CmdShaped, TreesOK, ActiveOK, Installs
<1>9. ASSUME NEW s \in Slots, Wiping(s) PROVE CmdShaped'
  BY <1>9, CmdTypes
     DEF Wiping, RemovesOrigin, RemovesActive, RemovesCheckout, RemovesBase, AfterRemoval,
       Removing, GoesTo, Goes, Keeps4, Ends, Others, CmdShaped, TreesOK, ActiveOK, Installs
<1>10. QED
  BY <1>1, <1>2, <1>3, <1>4, <1>5, <1>6, <1>7, <1>8, <1>9 DEF Effect

LEMMA GoneStep ==
  ASSUME DeployedOK, TreesOK, DirsUnique, DirsApart, GoneStays, CmdShaped, Effect
  PROVE  GoneStays'
<1>1. CASE UNCHANGED <<disk, cmd, app, history>> \/ \E a \in Apps : AppGoes(a) \/ Locks(a)
  BY <1>1, Stutters, NullAssumption
     DEF SameTrees, GoneStays, Gone, DirsApart, DirsUnique, InUse, TreesOK, CmdShaped,
       DeployedIs
<1>2. ASSUME NEW s \in Slots, Starting(s) PROVE GoneStays'
  <2>1. ASSUME NEW r \in Refs, NEW op \in Installs, BeginsInstall(s, r, op) PROVE GoneStays'
    BY <1>2, <2>1, Leaves, NullAssumption
       DEF BeginsInstall, Begins, SameTrees, Quiet, GoneStays, Gone, DirsApart, DirsUnique,
         InUse, TreesOK, CmdShaped, DeployedIs
  <2>2. ASSUME NEW r \in Refs, BeginsUpdate(s, r) PROVE GoneStays'
    BY <1>2, <2>2, Leaves, NullAssumption
       DEF BeginsUpdate, Begins, SameTrees, Quiet, GoneStays, Gone, DirsApart, DirsUnique, InUse,
         TreesOK, CmdShaped, DeployedIs
  <2>3. ASSUME NEW r \in Refs, BeginsUninstall(s, r) PROVE GoneStays'
    BY <1>2, <2>3, Leaves, NullAssumption
       DEF BeginsUninstall, Begins, SameTrees, Quiet, GoneStays, Gone, DirsApart, DirsUnique,
         InUse, TreesOK, CmdShaped, DeployedIs
  <2>4. ASSUME NEW r \in Refs, BeginsCurrent(s, r) PROVE GoneStays'
    BY <1>2, <2>4, Leaves, NullAssumption
       DEF BeginsCurrent, Begins, SameTrees, Quiet, GoneStays, Gone, DirsApart, DirsUnique,
         InUse, TreesOK, CmdShaped, DeployedIs
  <2>5. QED
    BY <1>2, <2>1, <2>2, <2>3, <2>4 DEF Starting
<1>3. ASSUME NEW s \in Slots, Ending(s) PROVE GoneStays'
  BY <1>3, Leaves, NullAssumption
     DEF Ending, Aborts, RollsBack, MadeBase, Finishes, Ends, GoesTo, Goes, Keeps4, Others,
       SameTrees, Quiet, GoneStays, Gone, DirsApart, DirsUnique, InUse, TreesOK, CmdShaped,
       DeployedIs
<1>4. ASSUME NEW s \in Slots, Looking(s) PROVE GoneStays'
  <2>1. ASSUME Pulls(s) PROVE GoneStays'
    BY <1>4, <2>1, Leaves, NullAssumption
       DEF Pulls, GoesTo, Goes, Keeps4, Others, SameTrees, Quiet, GoneStays, Gone, DirsApart,
         DirsUnique, InUse, TreesOK, CmdShaped, DeployedIs
  <2>2. ASSUME Lists(s) PROVE GoneStays'
    BY <1>4, <2>2, Leaves, NullAssumption
       DEF Lists, Deployments, GoesTo, Goes, Keeps4, Others, SameTrees, Quiet, GoneStays, Gone,
         DirsApart, DirsUnique, InUse, TreesOK, CmdShaped, DeployedIs
  <2>3. ASSUME Checks(s) PROVE GoneStays'
    BY <1>4, <2>3, Leaves, NullAssumption
       DEF Checks, NextUndeploy, AfterUndeploy, GoesTo, Goes, Keeps4, Others, SameTrees, Quiet,
         GoneStays, Gone, DirsApart, DirsUnique, InUse, TreesOK, CmdShaped, DeployedIs
  <2>4. ASSUME Collects(s) PROVE GoneStays'
    BY <1>4, <2>4, Leaves, NullAssumption
       DEF Collects, GoesTo, Goes, Keeps4, Others, SameTrees, Quiet, GoneStays, Gone, DirsApart,
         DirsUnique, InUse, TreesOK, CmdShaped, DeployedIs
  <2>5. ASSUME Looks(s) PROVE GoneStays'
    BY <1>4, <2>5, Leaves, NullAssumption
       DEF Looks, GoesTo, Goes, Keeps4, Others, SameTrees, Quiet, GoneStays, Gone, DirsApart,
         DirsUnique, InUse, TreesOK, CmdShaped, DeployedIs
  <2>6. ASSUME NEW c \in Commits, Resolves(s, c) PROVE GoneStays'
    BY <1>4, <2>6, Leaves, NullAssumption
       DEF Resolves, GoesTo, Goes, Keeps4, Others, SameTrees, Quiet, GoneStays, Gone, DirsApart,
         DirsUnique, InUse, TreesOK, CmdShaped, DeployedIs
  <2>7. QED
    BY <1>4, <2>1, <2>2, <2>3, <2>4, <2>5, <2>6 DEF Looking
<1>5. ASSUME NEW s \in Slots, Deploying(s) PROVE GoneStays'
  <2>1. ASSUME MakesBase(s) \/ WritesOrigin(s) PROVE GoneStays'
    BY <1>5, <2>1, Leaves, NullAssumption
       DEF MakesBase, WritesOrigin, GoesTo, Goes, Keeps4, Others, SameTrees, GoneStays, Gone,
         DirsApart, DirsUnique, InUse, TreesOK, CmdShaped, DeployedIs
  <2>2. ASSUME NEW d \in Dirs, ChecksOut(s, d) PROVE GoneStays'
    BY <1>5, <2>2, Leaves, NullAssumption
       DEF ChecksOut, DeployedIs, GoesTo, Goes, Keeps4, Others, SameTrees, GoneStays, Gone,
         DirsApart, DirsUnique, InUse, TreesOK, CmdShaped
  <2>3. ASSUME NEW d \in Dirs, FillsIn(s, d) PROVE GoneStays'
    BY <1>5, <2>3, Leaves, NullAssumption
       DEF FillsIn, GoesTo, Goes, Keeps4, Others, SameTrees, GoneStays, Gone, DirsApart,
         DirsUnique, InUse, TreesOK, CmdShaped, DeployedIs
  <2>4. QED
    BY <1>5, <2>1, <2>2, <2>3 DEF Deploying
<1>6. ASSUME NEW s \in Slots, Linking(s) PROVE GoneStays'
  <2>1. ASSUME Activates(s) PROVE GoneStays'
    BY <1>6, <2>1, Leaves, NullAssumption
       DEF Activates, AfterDeploy, AfterUndeploy, GoesTo, Goes, Keeps4, Others, SameTrees,
         GoneStays, Gone, DirsApart, DirsUnique, InUse, TreesOK, CmdShaped, DeployedIs
  <2>2. ASSUME UnlinksCurrent(s) \/ LinksCurrent(s) PROVE GoneStays'
    BY <1>6, <2>2, Leaves, NullAssumption
       DEF UnlinksCurrent, LinksCurrent, GoesTo, Goes, Keeps4, Others, SameTrees, GoneStays,
         Gone, DirsApart, DirsUnique, InUse, TreesOK, CmdShaped, DeployedIs
  <2>3. ASSUME Deactivates(s) \/ DropsCurrent(s) PROVE GoneStays'
    BY <1>6, <2>3, Leaves, NullAssumption
       DEF Deactivates, DropsCurrent, GoesTo, Goes, Keeps4, Others, SameTrees, GoneStays, Gone,
         DirsApart, DirsUnique, InUse, TreesOK, CmdShaped, DeployedIs
  <2>4. ASSUME NEW c \in Commits, Undeploys(s, c) PROVE GoneStays'
    BY <1>6, <2>4, Leaves, NullAssumption
       DEF Undeploys, GoesTo, Goes, Keeps4, Others, SameTrees, GoneStays, Gone, DirsApart,
         DirsUnique, InUse, TreesOK, CmdShaped, DeployedIs
  <2>5. QED
    BY <1>6, <2>1, <2>2, <2>3, <2>4 DEF Linking
<1>7. ASSUME NEW s \in Slots, Publishing(s) PROVE GoneStays'
  BY <1>7, Leaves, NullAssumption
     DEF Publishing, Exports, Trims, AfterExports, GoesTo, Goes, Keeps4, Others, SameTrees,
       GoneStays, Gone, DirsApart, DirsUnique, InUse, TreesOK, CmdShaped, DeployedIs
<1>8. ASSUME NEW s \in Slots, Discarding(s) PROVE GoneStays'
  <2>1. ASSUME RemovesUndeployed(s) PROVE GoneStays'
    BY <1>8, <2>1, Leaves, NullAssumption
       DEF RemovesUndeployed, RemovesTree, NextUndeploy, AfterUndeploy, GoesTo, Goes, Keeps4,
         Others, SameTrees, GoneStays, Gone, DirsApart, DirsUnique, InUse, TreesOK, CmdShaped,
         DeployedIs
  <2>2. ASSUME Cleans(s) PROVE GoneStays'
    BY <1>8, <2>2, Leaves, NullAssumption
       DEF Cleans, RemovesTree, NextUndeploy, AfterUndeploy, GoesTo, Goes, Keeps4, Others,
         SameTrees, GoneStays, Gone, DirsApart, DirsUnique, InUse, TreesOK, CmdShaped, DeployedIs
  <2>3. ASSUME NEW d \in Dirs, MovesAway(s, d) PROVE GoneStays'
    BY <1>8, <2>3, Leaves, NullAssumption
       DEF MovesAway, RemovesTree, NextUndeploy, AfterUndeploy, GoesTo, Goes, Keeps4, Others,
         SameTrees, GoneStays, Gone, DirsApart, DirsUnique, InUse, TreesOK, CmdShaped, DeployedIs
  <2>4. QED
    BY <1>8, <2>1, <2>2, <2>3 DEF Discarding
<1>9. ASSUME NEW s \in Slots, Wiping(s) PROVE GoneStays'
  <2>1. ASSUME RemovesOrigin(s) PROVE GoneStays'
    BY <1>9, <2>1, Leaves, NullAssumption
       DEF RemovesOrigin, AfterRemoval, Removing, GoesTo, Goes, Keeps4, Others, SameTrees,
         GoneStays, Gone, DirsApart, DirsUnique, InUse, TreesOK, CmdShaped, DeployedIs
  <2>2. ASSUME RemovesActive(s) PROVE GoneStays'
    BY <1>9, <2>2, Leaves, NullAssumption
       DEF RemovesActive, AfterRemoval, Removing, GoesTo, Goes, Keeps4, Others, SameTrees,
         GoneStays, Gone, DirsApart, DirsUnique, InUse, TreesOK, CmdShaped, DeployedIs
  <2>3. ASSUME RemovesBase(s) PROVE GoneStays'
    BY <1>9, <2>3, Leaves, NullAssumption
       DEF RemovesBase, AfterRemoval, Removing, GoesTo, Goes, Keeps4, Ends, Others, SameTrees,
         GoneStays, Gone, DirsApart, DirsUnique, InUse, TreesOK, CmdShaped, DeployedIs
  <2>4. ASSUME NEW c \in Commits, NEW d \in Dirs, RemovesCheckout(s, c, d) PROVE GoneStays'
    BY <1>9, <2>4, Leaves, NullAssumption
       DEF RemovesCheckout, AfterRemoval, Removing, GoesTo, Goes, Keeps4, Others, SameTrees,
         GoneStays, Gone, DirsApart, DirsUnique, InUse, TreesOK, CmdShaped, DeployedIs
  <2>5. QED
    BY <1>9, <2>1, <2>2, <2>3, <2>4 DEF Wiping
<1>10. QED
  BY <1>1, <1>2, <1>3, <1>4, <1>5, <1>6, <1>7, <1>8, <1>9 DEF Effect

LEMMA LockStep ==
  ASSUME WholeSomewhere, GoneStays, LockSeen, Effect
  PROVE  LockSeen'
<1>1. CASE UNCHANGED <<disk, cmd, app, history>> \/ \E a \in Apps : AppGoes(a) \/ Locks(a)
  <2>1. CASE UNCHANGED <<disk, cmd, app, history>>
    BY <2>1 DEF LockSeen, Keeps, Deletes, history
  <2>2. ASSUME NEW a \in Apps, AppGoes(a) \/ Locks(a) PROVE LockSeen'
    <3>1. SUFFICES ASSUME NEW b \in Apps, NEW s \in Slots, Keeps(b)', Deletes(s, app[b].dir)'
                   PROVE  FALSE
      BY DEF LockSeen
    <3>2. cmd' = cmd /\ spoiled' = spoiled /\ app'[b].dir = app[b].dir
      BY <2>2, <3>1 DEF AppGoes, Locks, AppChanges, SameTrees, Keeps
    <3>3. CASE b # a
      BY <2>2, <3>1, <3>2, <3>3 DEF AppGoes, Locks, AppChanges, LockSeen, Keeps, Deletes
    <3>4. CASE b = a
      <4>1. app[a].dir \in whole /\ app[a].dir \notin removed /\ Deletes(s, app[a].dir)
        BY <2>2, <3>1, <3>2, <3>4 DEF AppGoes, Locks, Keeps, Deletes
      <4>2. IsDeployed(app[a].dir)
        BY <4>1 DEF WholeSomewhere
      <4>3. QED
        BY <4>1, <4>2 DEF IsDeployed, GoneStays, Gone, Deletes
    <3>5. QED
      BY <3>3, <3>4
  <2>3. QED
    BY <1>1, <2>1, <2>2
<1>2. ASSUME NEW s \in Slots, Starting(s) PROVE LockSeen'
  <2>1. ASSUME NEW r \in Refs, NEW op \in Installs, BeginsInstall(s, r, op) PROVE LockSeen'
    BY <1>2, <2>1, Leaves
       DEF BeginsInstall, Begins, SameTrees, SameApps, Quiet, LockSeen, Keeps, Deletes, InUse,
         dir_is_locked
  <2>2. ASSUME NEW r \in Refs, BeginsUpdate(s, r) PROVE LockSeen'
    BY <1>2, <2>2, Leaves
       DEF BeginsUpdate, Begins, SameTrees, SameApps, Quiet, LockSeen, Keeps, Deletes, InUse,
         dir_is_locked
  <2>3. ASSUME NEW r \in Refs, BeginsUninstall(s, r) PROVE LockSeen'
    BY <1>2, <2>3, Leaves
       DEF BeginsUninstall, Begins, SameTrees, SameApps, Quiet, LockSeen, Keeps, Deletes, InUse,
         dir_is_locked
  <2>4. ASSUME NEW r \in Refs, BeginsCurrent(s, r) PROVE LockSeen'
    BY <1>2, <2>4, Leaves
       DEF BeginsCurrent, Begins, SameTrees, SameApps, Quiet, LockSeen, Keeps, Deletes, InUse,
         dir_is_locked
  <2>5. QED
    BY <1>2, <2>1, <2>2, <2>3, <2>4 DEF Starting
<1>3. ASSUME NEW s \in Slots, Ending(s) PROVE LockSeen'
  BY <1>3, Leaves
     DEF Ending, Aborts, RollsBack, MadeBase, Finishes, Ends, GoesTo, Goes, Keeps4, Others,
       SameTrees, SameApps, Quiet, LockSeen, Keeps, Deletes, InUse, dir_is_locked
<1>4. ASSUME NEW s \in Slots, Looking(s) PROVE LockSeen'
  <2>1. ASSUME Pulls(s) PROVE LockSeen'
    BY <1>4, <2>1, Leaves
       DEF Pulls, GoesTo, Goes, Keeps4, Others, SameTrees, SameApps, Quiet, LockSeen, Keeps,
         Deletes, InUse, dir_is_locked
  <2>2. ASSUME Lists(s) PROVE LockSeen'
    BY <1>4, <2>2, Leaves
       DEF Lists, Deployments, GoesTo, Goes, Keeps4, Others, SameTrees, SameApps, Quiet,
         LockSeen, Keeps, Deletes, InUse, dir_is_locked
  <2>3. ASSUME Checks(s) PROVE LockSeen'
    BY <1>4, <2>3, Leaves
       DEF Checks, NextUndeploy, AfterUndeploy, GoesTo, Goes, Keeps4, Others, SameTrees,
         SameApps, Quiet, LockSeen, Keeps, Deletes, InUse, dir_is_locked
  <2>4. ASSUME Collects(s) PROVE LockSeen'
    BY <1>4, <2>4, Leaves
       DEF Collects, GoesTo, Goes, Keeps4, Others, SameTrees, SameApps, Quiet, LockSeen, Keeps,
         Deletes, InUse, dir_is_locked
  <2>5. ASSUME Looks(s) PROVE LockSeen'
    BY <1>4, <2>5, Leaves
       DEF Looks, GoesTo, Goes, Keeps4, Others, SameTrees, SameApps, Quiet, LockSeen, Keeps,
         Deletes, InUse, dir_is_locked
  <2>6. ASSUME NEW c \in Commits, Resolves(s, c) PROVE LockSeen'
    BY <1>4, <2>6, Leaves
       DEF Resolves, GoesTo, Goes, Keeps4, Others, SameTrees, SameApps, Quiet, LockSeen, Keeps,
         Deletes, InUse, dir_is_locked
  <2>7. QED
    BY <1>4, <2>1, <2>2, <2>3, <2>4, <2>5, <2>6 DEF Looking
<1>5. ASSUME NEW s \in Slots, Deploying(s) PROVE LockSeen'
  <2>1. ASSUME MakesBase(s) \/ WritesOrigin(s) PROVE LockSeen'
    BY <1>5, <2>1, Leaves
       DEF MakesBase, WritesOrigin, GoesTo, Goes, Keeps4, Others, SameTrees, SameApps, LockSeen,
         Keeps, Deletes, InUse, dir_is_locked
  <2>2. ASSUME NEW d \in Dirs, ChecksOut(s, d) PROVE LockSeen'
    BY <1>5, <2>2, Leaves
       DEF ChecksOut, DeployedIs, GoesTo, Goes, Keeps4, Others, SameTrees, SameApps, LockSeen,
         Keeps, Deletes, InUse, dir_is_locked
  <2>3. ASSUME NEW d \in Dirs, FillsIn(s, d) PROVE LockSeen'
    BY <1>5, <2>3, Leaves
       DEF FillsIn, GoesTo, Goes, Keeps4, Others, SameTrees, SameApps, LockSeen, Keeps, Deletes,
         InUse, dir_is_locked
  <2>4. QED
    BY <1>5, <2>1, <2>2, <2>3 DEF Deploying
<1>6. ASSUME NEW s \in Slots, Linking(s) PROVE LockSeen'
  <2>1. ASSUME Activates(s) PROVE LockSeen'
    BY <1>6, <2>1, Leaves
       DEF Activates, AfterDeploy, AfterUndeploy, GoesTo, Goes, Keeps4, Others, SameTrees,
         SameApps, LockSeen, Keeps, Deletes, InUse, dir_is_locked
  <2>2. ASSUME UnlinksCurrent(s) \/ LinksCurrent(s) PROVE LockSeen'
    BY <1>6, <2>2, Leaves
       DEF UnlinksCurrent, LinksCurrent, GoesTo, Goes, Keeps4, Others, SameTrees, SameApps,
         LockSeen, Keeps, Deletes, InUse, dir_is_locked
  <2>3. ASSUME Deactivates(s) \/ DropsCurrent(s) PROVE LockSeen'
    BY <1>6, <2>3, Leaves
       DEF Deactivates, DropsCurrent, GoesTo, Goes, Keeps4, Others, SameTrees, SameApps,
         LockSeen, Keeps, Deletes, InUse, dir_is_locked
  <2>4. ASSUME NEW c \in Commits, Undeploys(s, c) PROVE LockSeen'
    BY <1>6, <2>4, Leaves
       DEF Undeploys, GoesTo, Goes, Keeps4, Others, SameTrees, SameApps, LockSeen, Keeps,
         Deletes, InUse, dir_is_locked
  <2>5. QED
    BY <1>6, <2>1, <2>2, <2>3, <2>4 DEF Linking
<1>7. ASSUME NEW s \in Slots, Publishing(s) PROVE LockSeen'
  BY <1>7, Leaves
     DEF Publishing, Exports, Trims, AfterExports, GoesTo, Goes, Keeps4, Others, SameTrees,
       SameApps, LockSeen, Keeps, Deletes, InUse, dir_is_locked
<1>8. ASSUME NEW s \in Slots, Discarding(s) PROVE LockSeen'
  <2>1. ASSUME RemovesUndeployed(s) PROVE LockSeen'
    BY <1>8, <2>1, Leaves
       DEF RemovesUndeployed, RemovesTree, GoesTo, Goes, Keeps4, Others, SameTrees, SameApps,
         LockSeen, Keeps, Deletes, InUse, dir_is_locked
  <2>2. ASSUME Cleans(s) PROVE LockSeen'
    BY <1>8, <2>2, Leaves
       DEF Cleans, RemovesTree, NextUndeploy, AfterUndeploy, GoesTo, Goes, Keeps4, Others,
         SameTrees, SameApps, LockSeen, Keeps, Deletes, InUse, dir_is_locked
  <2>3. ASSUME NEW d \in Dirs, MovesAway(s, d) PROVE LockSeen'
    BY <1>8, <2>3, Leaves
       DEF MovesAway, RemovesTree, NextUndeploy, AfterUndeploy, GoesTo, Goes, Keeps4, Others,
         SameTrees, SameApps, LockSeen, Keeps, Deletes, InUse, dir_is_locked
  <2>4. QED
    BY <1>8, <2>1, <2>2, <2>3 DEF Discarding
<1>9. ASSUME NEW s \in Slots, Wiping(s) PROVE LockSeen'
  BY <1>9, Leaves
     DEF Wiping, RemovesOrigin, RemovesActive, RemovesCheckout, RemovesBase, AfterRemoval,
       Removing, GoesTo, Goes, Keeps4, Ends, Others, SameTrees, SameApps, LockSeen, Keeps,
       Deletes, InUse, dir_is_locked
<1>10. QED
  BY <1>1, <1>2, <1>3, <1>4, <1>5, <1>6, <1>7, <1>8, <1>9 DEF Effect

LEMMA StillStep ==
  ASSUME CmdShaped, Effect
  PROVE  ExportersStay
<1>1. CASE UNCHANGED <<disk, cmd, app, history>> \/ \E a \in Apps : AppGoes(a) \/ Locks(a)
  BY <1>1, Stutters DEF ExportersStay, Exporting, CmdShaped, Installs
<1>2. ASSUME NEW s \in Slots, Starting(s) PROVE ExportersStay
  BY <1>2
     DEF Starting, BeginsInstall, BeginsUpdate, BeginsUninstall, BeginsCurrent, Begins,
       ExportersStay, Exporting, CmdShaped, Installs
<1>3. ASSUME NEW s \in Slots, Ending(s) PROVE ExportersStay
  BY <1>3
     DEF Ending, Aborts, RollsBack, MadeBase, Finishes, Ends, GoesTo, Goes, Keeps4, Others,
       ExportersStay, Exporting, CmdShaped, Installs
<1>4. ASSUME NEW s \in Slots, Looking(s) PROVE ExportersStay
  BY <1>4
     DEF Looking, Pulls, Lists, Checks, NextUndeploy, AfterUndeploy, Collects, Looks, Resolves,
       GoesTo, Goes, Keeps4, Others, ExportersStay, Exporting, CmdShaped, Installs
<1>5. ASSUME NEW s \in Slots, Deploying(s) PROVE ExportersStay
  BY <1>5
     DEF Deploying, MakesBase, WritesOrigin, ChecksOut, FillsIn, GoesTo, Goes, Keeps4, Others,
       ExportersStay, Exporting, CmdShaped, Installs
<1>6. ASSUME NEW s \in Slots, Linking(s) PROVE ExportersStay
  BY <1>6
     DEF Linking, Activates, AfterDeploy, AfterUndeploy, UnlinksCurrent, LinksCurrent,
       Deactivates, DropsCurrent, Undeploys, GoesTo, Goes, Keeps4, Others, ExportersStay,
       Exporting, CmdShaped, Installs
<1>7. ASSUME NEW s \in Slots, Publishing(s) PROVE ExportersStay
  BY <1>7
     DEF Publishing, Exports, Trims, AfterExports, GoesTo, Goes, Keeps4, Others, ExportersStay,
       Exporting, CmdShaped, Installs
<1>8. ASSUME NEW s \in Slots, Discarding(s) PROVE ExportersStay
  BY <1>8
     DEF Discarding, RemovesUndeployed, Cleans, RemovesTree, NextUndeploy, AfterUndeploy,
       MovesAway, GoesTo, Goes, Keeps4, Others, ExportersStay, Exporting, CmdShaped, Installs
<1>9. ASSUME NEW s \in Slots, Wiping(s) PROVE ExportersStay
  BY <1>9
     DEF Wiping, RemovesOrigin, RemovesActive, RemovesCheckout, RemovesBase, AfterRemoval,
       Removing, GoesTo, Goes, Keeps4, Ends, Others, ExportersStay, Exporting, CmdShaped,
       Installs
<1>10. QED
  BY <1>1, <1>2, <1>3, <1>4, <1>5, <1>6, <1>7, <1>8, <1>9 DEF Effect

LEMMA TrimmersStep ==
  ASSUME CmdShaped, Effect
  PROVE  TrimmersStay
<1>1. CASE UNCHANGED <<disk, cmd, app, history>> \/ \E a \in Apps : AppGoes(a) \/ Locks(a)
  BY <1>1, Stutters DEF TrimmersStay, At, Installs
<1>2. ASSUME NEW s \in Slots, Starting(s) PROVE TrimmersStay
  BY <1>2
     DEF Starting, BeginsInstall, BeginsUpdate, BeginsUninstall, BeginsCurrent, Begins,
       TrimmersStay, At, Installs
<1>3. ASSUME NEW s \in Slots, Ending(s) PROVE TrimmersStay
  BY <1>3
     DEF Ending, Aborts, RollsBack, MadeBase, Finishes, Ends, GoesTo, Goes, Keeps4, Others,
       TrimmersStay, At, Installs
<1>4. ASSUME NEW s \in Slots, Looking(s) PROVE TrimmersStay
  BY <1>4
     DEF Looking, Pulls, Lists, Checks, NextUndeploy, AfterUndeploy, Collects, Looks, Resolves,
       GoesTo, Goes, Keeps4, Others, TrimmersStay, At, Installs
<1>5. ASSUME NEW s \in Slots, Deploying(s) PROVE TrimmersStay
  BY <1>5
     DEF Deploying, MakesBase, WritesOrigin, ChecksOut, FillsIn, GoesTo, Goes, Keeps4, Others,
       TrimmersStay, At, Installs
<1>6. ASSUME NEW s \in Slots, Linking(s) PROVE TrimmersStay
  BY <1>6
     DEF Linking, Activates, AfterDeploy, AfterUndeploy, UnlinksCurrent, LinksCurrent,
       Deactivates, DropsCurrent, Undeploys, GoesTo, Goes, Keeps4, Others, TrimmersStay, At,
       Installs
<1>7. ASSUME NEW s \in Slots, Publishing(s) PROVE TrimmersStay
  BY <1>7
     DEF Publishing, Exports, Trims, AfterExports, GoesTo, Goes, Keeps4, Others, TrimmersStay,
       At, Installs
<1>8. ASSUME NEW s \in Slots, Discarding(s) PROVE TrimmersStay
  BY <1>8
     DEF Discarding, RemovesUndeployed, Cleans, RemovesTree, NextUndeploy, AfterUndeploy,
       MovesAway, GoesTo, Goes, Keeps4, Others, TrimmersStay, At, Installs
<1>9. ASSUME NEW s \in Slots, Wiping(s) PROVE TrimmersStay
  BY <1>9
     DEF Wiping, RemovesOrigin, RemovesActive, RemovesCheckout, RemovesBase, AfterRemoval,
       Removing, GoesTo, Goes, Keeps4, Ends, Others, TrimmersStay, At, Installs
<1>10. QED
  BY <1>1, <1>2, <1>3, <1>4, <1>5, <1>6, <1>7, <1>8, <1>9 DEF Effect

LEMMA UninstallingStep ==
  ASSUME CurrentOK, ActiveOK, CmdOK, CmdShaped, BaseOK, AloneIsAlone, Uninstalling, Effect
  PROVE  Uninstalling'
<1>1. CASE UNCHANGED <<disk, cmd, app, history>> \/ \E a \in Apps : AppGoes(a) \/ Locks(a)
  BY <1>1, Stutters, CurrentIs
     DEF SameBase, SameTrees, SameLinks, Uninstalling, AloneUninstall, AloneIsAlone, Ended, At,
       CmdShaped, ActiveIs, DeployedIs
<1>2. ASSUME NEW s \in Slots, Starting(s) PROVE Uninstalling'
  <2>1. ASSUME NEW r \in Refs, NEW op \in Installs, BeginsInstall(s, r, op) PROVE Uninstalling'
    BY <1>2, <2>1, Leaves, CurrentIs
       DEF BeginsInstall, Begins, Installs, SameBase, SameTrees, SameLinks, Quiet, Uninstalling,
         AloneUninstall, AloneIsAlone, Ended, At, CmdShaped, ActiveIs, DeployedIs
  <2>2. ASSUME NEW r \in Refs, BeginsUpdate(s, r) PROVE Uninstalling'
    BY <1>2, <2>2, Leaves, CurrentIs
       DEF BeginsUpdate, Begins, SameBase, SameTrees, SameLinks, Quiet, Uninstalling,
         AloneUninstall, AloneIsAlone, Ended, At, CmdShaped, ActiveIs, DeployedIs
  <2>3. ASSUME NEW r \in Refs, BeginsUninstall(s, r) PROVE Uninstalling'
    BY <1>2, <2>3, Leaves, CurrentIs
       DEF BeginsUninstall, Begins, SameBase, SameTrees, SameLinks, Quiet, Uninstalling,
         AloneUninstall, AloneIsAlone, Ended, At, CmdShaped, ActiveIs, DeployedIs
  <2>4. ASSUME NEW r \in Refs, BeginsCurrent(s, r) PROVE Uninstalling'
    BY <1>2, <2>4, Leaves, CurrentIs
       DEF BeginsCurrent, Begins, SameBase, SameTrees, SameLinks, Quiet, Uninstalling,
         AloneUninstall, AloneIsAlone, Ended, At, CmdShaped, ActiveIs, DeployedIs
  <2>5. QED
    BY <1>2, <2>1, <2>2, <2>3, <2>4 DEF Starting
<1>3. ASSUME NEW s \in Slots, Ending(s) PROVE Uninstalling'
  BY <1>3, Leaves, CurrentIs
     DEF Ending, Aborts, RollsBack, MadeBase, Finishes, Ends, GoesTo, Goes, Keeps4, Others,
       SameBase, SameTrees, SameLinks, Quiet, Uninstalling, AloneUninstall, AloneIsAlone, Ended,
       At, CmdShaped, ActiveIs, DeployedIs
<1>4. ASSUME NEW s \in Slots, Looking(s) PROVE Uninstalling'
  <2>1. ASSUME Pulls(s) PROVE Uninstalling'
    BY <1>4, <2>1, Leaves, CurrentIs
       DEF Pulls, GoesTo, Goes, Keeps4, Others, SameBase, SameTrees, SameLinks, Quiet,
         Uninstalling, AloneUninstall, AloneIsAlone, Ended, At, CmdShaped, ActiveIs, DeployedIs
  <2>2. ASSUME Lists(s) PROVE Uninstalling'
    BY <1>4, <2>2, Leaves, CurrentIs
       DEF Lists, Deployments, GoesTo, Goes, Keeps4, Others, SameBase, SameTrees, SameLinks,
         Quiet, Uninstalling, AloneUninstall, AloneIsAlone, Ended, At, CmdShaped, ActiveIs,
         DeployedIs
  <2>3. ASSUME Checks(s) PROVE Uninstalling'
    BY <1>4, <2>3, Leaves, CurrentIs
       DEF Checks, NextUndeploy, AfterUndeploy, GoesTo, Goes, Keeps4, Others, SameBase,
         SameTrees, SameLinks, Quiet, Uninstalling, AloneUninstall, AloneIsAlone, Ended, At,
         CmdShaped, ActiveIs, DeployedIs
  <2>4. ASSUME Collects(s) PROVE Uninstalling'
    BY <1>4, <2>4, Leaves, CurrentIs
       DEF Collects, GoesTo, Goes, Keeps4, Others, SameBase, SameTrees, SameLinks, Quiet,
         Uninstalling, AloneUninstall, AloneIsAlone, Ended, At, CmdShaped, ActiveIs, DeployedIs
  <2>5. ASSUME Looks(s) PROVE Uninstalling'
    BY <1>4, <2>5, Leaves, CurrentIs
       DEF Looks, GoesTo, Goes, Keeps4, Others, SameBase, SameTrees, SameLinks, Quiet,
         Uninstalling, AloneUninstall, AloneIsAlone, Ended, At, CmdShaped, ActiveIs, DeployedIs
  <2>6. ASSUME NEW c \in Commits, Resolves(s, c) PROVE Uninstalling'
    BY <1>4, <2>6, Leaves, CurrentIs
       DEF Resolves, GoesTo, Goes, Keeps4, Others, SameBase, SameTrees, SameLinks, Quiet,
         Uninstalling, AloneUninstall, AloneIsAlone, Ended, At, CmdShaped, ActiveIs, DeployedIs
  <2>7. QED
    BY <1>4, <2>1, <2>2, <2>3, <2>4, <2>5, <2>6 DEF Looking
<1>5. ASSUME NEW s \in Slots, Deploying(s) PROVE Uninstalling'
  <2>1. ASSUME MakesBase(s) \/ WritesOrigin(s) PROVE Uninstalling'
    BY <1>5, <2>1, Leaves, CurrentIs
       DEF MakesBase, WritesOrigin, GoesTo, Goes, Keeps4, Others, SameBase, SameTrees,
         SameLinks, Uninstalling, AloneUninstall, AloneIsAlone, Ended, At, CmdShaped, ActiveIs,
         DeployedIs
  <2>2. ASSUME NEW d \in Dirs, ChecksOut(s, d) PROVE Uninstalling'
    BY <1>5, <2>2, Leaves, CurrentIs
       DEF ChecksOut, DeployedIs, GoesTo, Goes, Keeps4, Others, SameBase, SameTrees, SameLinks,
         Uninstalling, AloneUninstall, AloneIsAlone, Ended, At, CmdShaped, ActiveIs
  <2>3. ASSUME NEW d \in Dirs, FillsIn(s, d) PROVE Uninstalling'
    BY <1>5, <2>3, Leaves, CurrentIs
       DEF FillsIn, GoesTo, Goes, Keeps4, Others, SameBase, SameTrees, SameLinks, Uninstalling,
         AloneUninstall, AloneIsAlone, Ended, At, CmdShaped, ActiveIs, DeployedIs
  <2>4. QED
    BY <1>5, <2>1, <2>2, <2>3 DEF Deploying
<1>6. ASSUME NEW s \in Slots, Linking(s) PROVE Uninstalling'
  <2>1. ASSUME \/ Activates(s) \/ UnlinksCurrent(s) \/ LinksCurrent(s) \/ Deactivates(s)
        PROVE  Uninstalling'
    BY <1>6, <2>1, CurrentIs
       DEF Uninstalling, AloneUninstall, AloneIsAlone, Ended, At, CmdShaped, Activates,
         AfterDeploy, AfterUndeploy, UnlinksCurrent, LinksCurrent, Deactivates, ActiveIs, GoesTo,
         Goes, Keeps4, Others, SameBase, SameTrees
  <2>2. ASSUME DropsCurrent(s) PROVE Uninstalling'
    <3>1. /\ cmd[s].at = "drop" /\ GoesOn(s, "list") /\ active' = active /\ base' = base
          /\ deployed' = deployed
      BY <2>2 DEF DropsCurrent, GoesOn, GoesTo, Goes, Keeps4, Others, SameBase, SameTrees
    <3>2. current' \in {current, NULL} /\ current' # cmd[s].ref
      BY <2>2, NullAssumption DEF DropsCurrent, CmdShaped
    <3>3. ASSUME NEW u \in Slots, AloneUninstall(u)' PROVE u = s
      BY <3>1, <3>3 DEF AloneUninstall, GoesOn, AloneIsAlone, At
    <3>4. QED
      BY <3>1, <3>2, <3>3 DEF Uninstalling, AloneUninstall, Ended, At, GoesOn
  <2>3. ASSUME NEW c \in Commits, Undeploys(s, c) PROVE Uninstalling'
    <3>1. active[cmd[s].ref] = NULL => active'[cmd[s].ref] = NULL
      <4>1. PICK o \in Successors(cmd[s].ref, c) : ActiveIs(cmd[s].ref, o)
        BY <2>3 DEF Undeploys
      <4>2. QED
        BY <4>1, NullAssumption DEF Successors, ActiveIs
    <3>2. \A q \in Refs : q # cmd[s].ref => active'[q] = active[q]
      BY <2>3 DEF Undeploys, ActiveIs
    <3>3. /\ cmd[s].at = "undeploy" /\ GoesOn(s, "move") /\ current' = current /\ base' = base
          /\ deployed' = deployed
      BY <2>3 DEF Undeploys, GoesOn, Goes, Keeps4, Others, SameBase, SameTrees
    <3>4. QED
      BY <3>1, <3>2, <3>3
         DEF Uninstalling, AloneUninstall, AloneIsAlone, Ended, At, CmdShaped, GoesOn
  <2>4. QED
    BY <1>6, <2>1, <2>2, <2>3 DEF Linking
<1>7. ASSUME NEW s \in Slots, Publishing(s) PROVE Uninstalling'
  BY <1>7, Leaves, CurrentIs
     DEF Publishing, Exports, Trims, AfterExports, GoesTo, Goes, Keeps4, Others, SameBase,
       SameTrees, SameLinks, Uninstalling, AloneUninstall, AloneIsAlone, Ended, At, CmdShaped,
       ActiveIs, DeployedIs
<1>8. ASSUME NEW s \in Slots, Discarding(s) PROVE Uninstalling'
  <2>1. ASSUME RemovesUndeployed(s) PROVE Uninstalling'
    BY <1>8, <2>1, Leaves, CurrentIs
       DEF RemovesUndeployed, RemovesTree, NextUndeploy, AfterUndeploy, GoesTo, Goes, Keeps4,
         Others, SameBase, SameTrees, SameLinks, Uninstalling, AloneUninstall, AloneIsAlone,
         Ended, At, CmdShaped, ActiveIs, DeployedIs
  <2>2. ASSUME Cleans(s) PROVE Uninstalling'
    BY <1>8, <2>2, Leaves, CurrentIs
       DEF Cleans, RemovesTree, GoesTo, Goes, Keeps4, Others, SameBase, SameTrees, SameLinks,
         Uninstalling, AloneUninstall, AloneIsAlone, Ended, At, CmdShaped, ActiveIs, DeployedIs
  <2>3. ASSUME NEW d \in Dirs, MovesAway(s, d) PROVE Uninstalling'
    BY <1>8, <2>3, Leaves, CurrentIs
       DEF MovesAway, DeployedIs, GoesTo, Goes, Keeps4, Others, SameBase, SameTrees, SameLinks,
         Uninstalling, AloneUninstall, AloneIsAlone, Ended, At, CmdShaped, ActiveIs
  <2>4. QED
    BY <1>8, <2>1, <2>2, <2>3 DEF Discarding
<1>9. ASSUME NEW s \in Slots, Wiping(s) PROVE Uninstalling'
  <2>1. ASSUME RemovesOrigin(s) PROVE Uninstalling'
    BY <1>9, <2>1, Leaves, CurrentIs
       DEF RemovesOrigin, AfterRemoval, Removing, GoesTo, Goes, Keeps4, Others, SameBase,
         SameTrees, SameLinks, Uninstalling, AloneUninstall, AloneIsAlone, Ended, At, CmdShaped,
         ActiveIs, DeployedIs
  <2>2. ASSUME RemovesActive(s) PROVE Uninstalling'
    BY <1>9, <2>2, Leaves, CurrentIs
       DEF RemovesActive, AfterRemoval, Removing, GoesTo, Goes, Keeps4, Others, SameBase,
         SameTrees, SameLinks, Uninstalling, AloneUninstall, AloneIsAlone, Ended, At, CmdShaped,
         ActiveIs, DeployedIs
  <2>3. ASSUME RemovesBase(s) PROVE Uninstalling'
    BY <1>9, <2>3, Leaves, CurrentIs
       DEF RemovesBase, AfterRemoval, Removing, GoesTo, Goes, Keeps4, Ends, Others, SameBase,
         SameTrees, SameLinks, Uninstalling, AloneUninstall, AloneIsAlone, Ended, At, CmdShaped,
         ActiveIs, DeployedIs
  <2>4. ASSUME NEW c \in Commits, NEW d \in Dirs, RemovesCheckout(s, c, d) PROVE Uninstalling'
    BY <1>9, <2>4, Leaves, CurrentIs
       DEF RemovesCheckout, AfterRemoval, Removing, GoesTo, Goes, Keeps4, Others, SameBase,
         SameTrees, SameLinks, Uninstalling, AloneUninstall, AloneIsAlone, Ended, At, CmdShaped,
         ActiveIs, DeployedIs
  <2>5. QED
    BY <1>9, <2>1, <2>2, <2>3, <2>4 DEF Wiping
<1>10. QED
  BY <1>1, <1>2, <1>3, <1>4, <1>5, <1>6, <1>7, <1>8, <1>9 DEF Effect

LEMMA TrimmedStep ==
  ASSUME CmdOK, CmdShaped, AloneIsAlone, ViewKept, Trimmed, Effect
  PROVE  Trimmed'
<1>1. CASE UNCHANGED <<disk, cmd, app, history>> \/ \E a \in Apps : AppGoes(a) \/ Locks(a)
  BY <1>1, Stutters, StillExposed, ViewMeans
     DEF SameExports, SameTrees, SameLinks, Trimmed, AloneUninstall, AloneIsAlone, Ended, At,
       CmdShaped
<1>2. ASSUME NEW s \in Slots, Starting(s) PROVE Trimmed'
  BY <1>2, Leaves, StillExposed, ViewMeans
     DEF Starting, BeginsInstall, BeginsUpdate, BeginsUninstall, BeginsCurrent, Begins,
       SameExports, SameTrees, SameLinks, Quiet, Trimmed, AloneUninstall, AloneIsAlone, Ended,
       At, CmdShaped
<1>3. ASSUME NEW s \in Slots, Ending(s) PROVE Trimmed'
  BY <1>3, Leaves, StillExposed, ViewMeans
     DEF Ending, Aborts, RollsBack, MadeBase, Finishes, Ends, GoesTo, Goes, Keeps4, Others,
       SameExports, SameTrees, SameLinks, Quiet, Trimmed, AloneUninstall, AloneIsAlone, Ended,
       At, CmdShaped
<1>4. ASSUME NEW s \in Slots, Looking(s) PROVE Trimmed'
  <2>1. ASSUME Pulls(s) PROVE Trimmed'
    BY <1>4, <2>1, Leaves, StillExposed, ViewMeans
       DEF Pulls, GoesTo, Goes, Keeps4, Others, SameExports, SameTrees, SameLinks, Quiet,
         Trimmed, AloneUninstall, AloneIsAlone, Ended, At, CmdShaped
  <2>2. ASSUME Lists(s) PROVE Trimmed'
    BY <1>4, <2>2, Leaves, StillExposed, ViewMeans
       DEF Lists, Deployments, GoesTo, Goes, Keeps4, Others, SameExports, SameTrees, SameLinks,
         Quiet, Trimmed, AloneUninstall, AloneIsAlone, Ended, At, CmdShaped
  <2>3. ASSUME Checks(s) PROVE Trimmed'
    BY <1>4, <2>3, Leaves, StillExposed, ViewMeans
       DEF Checks, NextUndeploy, AfterUndeploy, GoesTo, Goes, Keeps4, Others, SameExports,
         SameTrees, SameLinks, Quiet, Trimmed, AloneUninstall, AloneIsAlone, Ended, At,
         CmdShaped
  <2>4. ASSUME Collects(s) PROVE Trimmed'
    BY <1>4, <2>4, Leaves, StillExposed, ViewMeans
       DEF Collects, GoesTo, Goes, Keeps4, Others, SameExports, SameTrees, SameLinks, Quiet,
         Trimmed, AloneUninstall, AloneIsAlone, Ended, At, CmdShaped
  <2>5. ASSUME Looks(s) PROVE Trimmed'
    BY <1>4, <2>5, Leaves, StillExposed, ViewMeans
       DEF Looks, GoesTo, Goes, Keeps4, Others, SameExports, SameTrees, SameLinks, Quiet,
         Trimmed, AloneUninstall, AloneIsAlone, Ended, At, CmdShaped
  <2>6. ASSUME NEW c \in Commits, Resolves(s, c) PROVE Trimmed'
    BY <1>4, <2>6, Leaves, StillExposed, ViewMeans
       DEF Resolves, GoesTo, Goes, Keeps4, Others, SameExports, SameTrees, SameLinks, Quiet,
         Trimmed, AloneUninstall, AloneIsAlone, Ended, At, CmdShaped
  <2>7. QED
    BY <1>4, <2>1, <2>2, <2>3, <2>4, <2>5, <2>6 DEF Looking
<1>5. ASSUME NEW s \in Slots, Deploying(s) PROVE Trimmed'
  BY <1>5, Leaves, StillExposed, ViewMeans
     DEF Deploying, MakesBase, WritesOrigin, ChecksOut, FillsIn, GoesTo, Goes, Keeps4, Others,
       SameExports, SameTrees, SameLinks, Trimmed, AloneUninstall, AloneIsAlone, Ended, At,
       CmdShaped
<1>6. ASSUME NEW s \in Slots, Linking(s) PROVE Trimmed'
  BY <1>6, Leaves, StillExposed, ViewMeans
     DEF Linking, Activates, AfterDeploy, AfterUndeploy, UnlinksCurrent, LinksCurrent,
       Deactivates, DropsCurrent, Undeploys, GoesTo, Goes, Keeps4, Others, SameExports,
       SameTrees, SameLinks, Trimmed, AloneUninstall, AloneIsAlone, Ended, At, CmdShaped
<1>7. ASSUME NEW s \in Slots, Publishing(s) PROVE Trimmed'
  BY <1>7, Leaves, StillExposed, ViewMeans
     DEF Publishing, Exports, Trims, AfterExports, GoesTo, Goes, Keeps4, Others, SameExports,
       SameTrees, SameLinks, Trimmed, AloneUninstall, AloneIsAlone, Ended, At, CmdShaped
<1>8. ASSUME NEW s \in Slots, Discarding(s) PROVE Trimmed'
  <2>1. ASSUME RemovesUndeployed(s) \/ \E d \in Dirs : MovesAway(s, d) PROVE Trimmed'
    <3>1. cmd[s].at \in {"move", "rmtree"} /\ \A u \in Slots : u # s => cmd'[u] = cmd[u]
      BY <2>1 DEF MovesAway, RemovesUndeployed, RemovesTree, GoesTo, Goes, Others
    <3>2. ~(AloneUninstall(s)' /\ cmd'[s].at \in Ended)
      BY <2>1
       DEF AloneUninstall, Ended, MovesAway, RemovesUndeployed, RemovesTree, NextUndeploy,
         GoesTo, Goes, Keeps4
    <3>3. ASSUME NEW u \in Slots, u # s, AloneUninstall(u)' PROVE FALSE
      BY <3>1, <3>3 DEF AloneUninstall, AloneIsAlone, At
    <3>4. \A u \in Slots : ~(AloneUninstall(u)' /\ cmd'[u].at \in Ended)
      BY <3>2, <3>3
    <3>5. QED
      BY <3>4 DEF Trimmed
  <2>2. ASSUME Cleans(s) PROVE Trimmed'
    <3>1. exports' = exports /\ cmd[s].at = "clean" /\ GoesOn(s, "look")
      BY <2>2, GoesGoesOn DEF Cleans, RemovesTree, SameExports, GoesTo
    <3>2. SUFFICES ASSUME NEW u \in Slots, AloneUninstall(u)', cmd'[u].at \in Ended,
                          cmd'[u].ref \in AppRefs
                   PROVE  exports' \subseteq Exposed'
      BY DEF Trimmed
    <3>3. u = s /\ cmd[s].alone /\ \A v \in Slots : v # s => At(v, "idle")
      BY <3>1, <3>2 DEF GoesOn, AloneUninstall, AloneIsAlone, At
    <3>4. \A v \in Slots : ~Exporting(v)' /\ ~(Removing(v) /\ cmd[v].at = "rollback")
      BY <3>1, <3>3 DEF GoesOn, Exporting, At
    <3>5. Exposed' = Exposed
      BY <3>4, ViewMeans
    <3>6. QED
      BY <3>1, <3>2, <3>3, <3>5 DEF Trimmed, AloneUninstall, GoesOn, Ended
  <2>3. QED
    BY <1>8, <2>1, <2>2 DEF Discarding
<1>9. ASSUME NEW s \in Slots, Wiping(s) PROVE Trimmed'
  <2>1. ASSUME RemovesOrigin(s) PROVE Trimmed'
    BY <1>9, <2>1, Leaves, StillExposed, ViewMeans
       DEF RemovesOrigin, AfterRemoval, Removing, GoesTo, Goes, Keeps4, Others, SameExports,
         SameTrees, SameLinks, Trimmed, AloneUninstall, AloneIsAlone, Ended, At, CmdShaped
  <2>2. ASSUME RemovesActive(s) PROVE Trimmed'
    BY <1>9, <2>2, Leaves, StillExposed, ViewMeans
       DEF RemovesActive, AfterRemoval, Removing, GoesTo, Goes, Keeps4, Others, SameExports,
         SameTrees, SameLinks, Trimmed, AloneUninstall, AloneIsAlone, Ended, At, CmdShaped
  <2>3. ASSUME RemovesBase(s) PROVE Trimmed'
    BY <1>9, <2>3, Leaves, StillExposed, ViewMeans
       DEF RemovesBase, AfterRemoval, Removing, GoesTo, Goes, Keeps4, Ends, Others, SameExports,
         SameTrees, SameLinks, Trimmed, AloneUninstall, AloneIsAlone, Ended, At, CmdShaped
  <2>4. ASSUME NEW c \in Commits, NEW d \in Dirs, RemovesCheckout(s, c, d) PROVE Trimmed'
    BY <1>9, <2>4, Leaves, StillExposed, ViewMeans
       DEF RemovesCheckout, AfterRemoval, Removing, GoesTo, Goes, Keeps4, Others, SameExports,
         SameTrees, SameLinks, Trimmed, AloneUninstall, AloneIsAlone, Ended, At, CmdShaped
  <2>5. QED
    BY <1>9, <2>1, <2>2, <2>3, <2>4 DEF Wiping
<1>10. QED
  BY <1>1, <1>2, <1>3, <1>4, <1>5, <1>6, <1>7, <1>8, <1>9 DEF Effect

-----------------------------------------------------------------------------
(* The counters are changed by the actions alone.                          *)

LEMMA Beside ==
  ASSUME NEW s \in Slots
  PROVE  Cardinality({u \in Slots \ {s} : ~At(u, "idle")}) \in Nat
<1>1. IsFiniteSet({u \in Slots \ {s} : ~At(u, "idle")})
  BY SlotsAssumption, FS_Subset
<1>2. QED
  BY <1>1, FS_CardinalityType

LEMMA CountsStarts ==
  ASSUME CountsOK, NEW s \in Slots, NEW op, NEW r, NEW force, NEW place,
         Starts(s, op, r, force, place)
  PROVE  CountsOK'
<1> DEFINE n == Cardinality({u \in Slots \ {s} : ~At(u, "idle")})
<1>1. n \in Nat
  BY Beside
<1>2. /\ started < MaxCommands /\ started' = started + 1
      /\ trouble + n <= MaxTrouble /\ trouble' = trouble + n
  BY DEF Starts
<1> HIDE DEF n
<1>3. QED
  BY <1>1, <1>2, BoundsAssumption DEF CountsOK

LEMMA CountsStep ==
  ASSUME CountsOK, [Next]_vars PROVE CountsOK'
<1> DEFINE Spends == \/ trouble' = trouble
                     \/ trouble < MaxTrouble /\ trouble' = trouble + 1
<1>1. ASSUME Spends, started' = started PROVE CountsOK'
  BY <1>1, BoundsAssumption DEF CountsOK
<1> HIDE DEF Spends
<1>2. CASE UNCHANGED vars
  BY <1>1, <1>2 DEF vars, Spends
<1>3. ASSUME NEW s \in Slots, Command(s) PROVE CountsOK'
  <2>1. ASSUME NEW r \in Refs,
               \/ install(s, r) \/ install_bundle(s, r) \/ make_current_app(s, r)
               \/ \E force \in BOOLEAN : update(s, r, force) \/ uninstall(s, r, force)
        PROVE  CountsOK'
    BY <2>1, CountsStarts DEF install, install_bundle, make_current_app, update, uninstall
  <2>2. ASSUME Pull(s) \/ MakeBase(s) \/ WriteOrigin(s) \/ Deploy(s) PROVE CountsOK'
    BY <1>1, <2>2 DEF Pull, MakeBase, WriteOrigin, Deploy, Step, Error, Fails, Spends
  <2>3. ASSUME Checkout(s) \/ FinishCheckout(s) \/ Activate(s) PROVE CountsOK'
    BY <1>1, <2>3 DEF Checkout, FinishCheckout, Activate, Step, Error, Fails, Spends
  <2>4. ASSUME UnlinkCurrent(s) \/ LinkCurrent(s) \/ ExportFiles(s) \/ RemoveDangling(s)
        PROVE  CountsOK'
    BY <1>1, <2>4
       DEF UnlinkCurrent, LinkCurrent, ExportFiles, RemoveDangling, Step, Error, Fails, Spends
  <2>5. ASSUME Deactivate(s) \/ DropCurrent(s) \/ ListDeployed(s) PROVE CountsOK'
    BY <1>1, <2>5 DEF Deactivate, DropCurrent, ListDeployed, Step, Spends
  <2>6. ASSUME Undeploy(s) \/ MoveToRemoved(s) \/ CheckLock(s) \/ RemoveBase(s) PROVE CountsOK'
    BY <1>1, <2>6
       DEF Undeploy, MoveToRemoved, CheckLock, RemoveBase, Step, Error, Fails, Spends
  <2>7. ASSUME RemoveUndeployed(s) \/ CleanRemoved(s) PROVE CountsOK'
    BY <1>1, <2>7 DEF RemoveUndeployed, CleanRemoved, RemoveTree, Spends
  <2>8. ASSUME Cleanup(s) \/ LookAtRemoved(s) PROVE CountsOK'
    BY <1>1, <2>8 DEF Cleanup, LookAtRemoved, Step, Spends
  <2>9. ASSUME CallFails(s) \/ Killed(s) \/ Returns(s) PROVE CountsOK'
    BY <1>1, <2>9 DEF CallFails, Fails, Killed, Returns, Spends
  <2>10. QED
    BY <1>3, <2>1, <2>2, <2>3, <2>4, <2>5, <2>6, <2>7, <2>8, <2>9 DEF Command
<1>4. ASSUME NEW a \in Apps, Sandbox(a) PROVE CountsOK'
  BY <1>1, <1>4
     DEF Sandbox, RunApp, MountFiles, LockFiles, AppExits, AppStep, Spends
<1>5. QED
  BY <1>2, <1>3, <1>4 DEF Next

-----------------------------------------------------------------------------
(* The invariant.                                                          *)

LEMMA NoAppOK == NoApp \in Sandboxes /\ NoApp.at = "none" /\ NoApp.early = FALSE
BY DEF NoApp, Sandboxes, AppPlaces

LEMMA Initially == ASSUME Init PROVE IInv
<1>1. /\ deployed = [r \in Refs |-> [c \in Commits |-> NULL]] /\ active = [r \in Refs |-> NULL]
      /\ base = {} /\ origin = {} /\ installed = {} /\ current = NULL /\ exports = {}
      /\ removed = {} /\ whole = {} /\ spoiled = {} /\ suspect = FALSE
      /\ started = 0 /\ trouble = 0
  BY DEF Init
<1>2. \A s \in Slots : cmd[s] = NoCommand
  BY DEF Init
<1>3. \A a \in Apps : app[a] = NoApp
  BY DEF Init
<1>4. BaseOK /\ CurrentOK /\ TreesOK /\ ExportsOK /\ SuspectOK
  BY <1>1 DEF BaseOK, CurrentOK, TreesOK, ExportsOK, SuspectOK
<1>5. DeployedOK /\ ActiveOK
  BY <1>1 DEF DeployedOK, ActiveOK
<1>6. CountsOK
  BY <1>1, BoundsAssumption DEF CountsOK
<1>7. CmdOK
  BY NoCommandOK DEF Init, CmdOK
<1>8. AppOK
  <2>1. app \in [Apps -> Sandboxes]
    BY NoAppOK DEF Init
  <2>2. QED
    BY <2>1, <1>3, NoAppOK DEF AppOK
<1>9. \A s \in Slots : /\ cmd[s].at = "idle" /\ cmd[s].op = "none" /\ ~cmd[s].alone
  BY <1>2, NoCommandOK
<1>10. CmdShaped
  BY <1>9 DEF CmdShaped
<1>11. \A r \in Refs, c \in Commits : deployed[r][c] = NULL
  BY <1>1
<1>12. Trees
  BY <1>1, <1>9, <1>11
     DEF Trees, DirsUnique, DirsApart, WholeSomewhere, GoneStays, Gone
<1>13. LockSeen /\ LockedKeepsFiles
  BY <1>3, NoAppOK DEF LockSeen, Keeps, LockedKeepsFiles
<1>14. NoneMissing /\ NoneDangles
  BY <1>1 DEF NoneMissing, NoneDangles, Exposed
<1>15. AloneIsAlone /\ Uninstalling /\ Trimmed
  BY <1>9 DEF AloneIsAlone, Uninstalling, Trimmed, AloneUninstall
<1>16. QED
  BY <1>4, <1>5, <1>6, <1>7, <1>8, <1>10, <1>12, <1>13, <1>14, <1>15 DEF IInv, Types

LEMMA Inductive == ASSUME IInv, [Next]_vars PROVE IInv'
<1>1. OkNow /\ Effect
  BY Detailed DEF IInv, Types, Base
<1>2. BaseOK' /\ CurrentOK' /\ TreesOK' /\ ExportsOK' /\ SuspectOK' /\ CmdShaped'
  BY <1>1, BaseStep, CurrentStep, TreesStep, ExportsStep, SuspectStep, ShapedStep DEF IInv, Types
<1>3. CountsOK'
  BY CountsStep DEF IInv, Types
<1>4. DirsUnique' /\ DirsApart' /\ WholeSomewhere' /\ GoneStays'
  BY <1>1, UniqueStep, ApartStep, WholeStep, GoneStep DEF IInv, Types, Trees
<1>5. LockSeen' /\ LockedKeepsFiles'
  BY <1>1, LockStep, KeepsStep DEF IInv, Trees
<1>6. ViewKept
  BY <1>1, ViewStep DEF IInv, Types, Trees
<1>7. NoneMissing' /\ NoneDangles'
  <2>1. ExportersStay /\ TrimmersStay /\ FlagGo
    BY <1>1, StillStep, TrimmersStep, FlagStep DEF IInv
  <2>2. QED
    BY <2>1, <1>6, ExportsFollowStep DEF IInv, Types
<1>8. AloneIsAlone' /\ Uninstalling' /\ Trimmed'
  BY <1>1, <1>6, AloneStep, UninstallingStep, TrimmedStep DEF IInv, Types
<1>9. QED
  BY <1>1, <1>2, <1>3, <1>4, <1>5, <1>7, <1>8 DEF IInv, Types, Trees, OkNow

\* IInv holds of every reachable state, for all sets of refs, commits, commands,
\* apps and checkouts and all bounds.
THEOREM Invariant == Spec => []IInv
BY Initially, Inductive, PTL DEF Spec

-----------------------------------------------------------------------------
(* What is installed runs, as long as no two commands work on one ref: the *)
(* steps of an update keep "active" on a complete checkout.                *)

\* Commands may overlap, but not on the same ref.
OnePerRef == \A s, u \in Slots :
  s # u /\ ~At(s, "idle") /\ ~At(u, "idle") => cmd[s].ref # cmd[u].ref

HasBase == \A r \in Refs, c \in Commits : deployed[r][c] # NULL => r \in base

\* Where only some commands go.
Parted == \A s \in Slots :
  /\ cmd[s].at \in {"deactivate", "drop", "list", "rmbase"} => cmd[s].op = "uninstall"
  /\ cmd[s].at = "rollback" => cmd[s].op \in Installs
  /\ cmd[s].at \in {"undeploy", "move", "check", "rmtree"} => cmd[s].op \in {"update", "uninstall"}
  /\ cmd[s].at \in {"pull", "mkdir", "origin", "deploy", "checkout", "fill", "activate"} =>
       cmd[s].op \in Installs \cup {"update"}

\* A ref that is being installed or uninstalled does not count as installed.
Unsettled(s) == ~At(s, "idle") /\ cmd[s].op \in Installs \cup {"uninstall"}
UnsettledOut == \A s \in Slots : Unsettled(s) => cmd[s].ref \notin installed

\* What is about to be active is complete, and so is what an install left.
WantWhole == \A s \in Slots : At(s, "activate") => deployed[cmd[s].ref][cmd[s].want] \in whole
Late == {"unlink", "link", "export", "dangling", "cleanup", "look", "clean", "done"}
NewRuns == \A s \in Slots :
  cmd[s].op \in Installs /\ cmd[s].at \in Late => ActiveDir(cmd[s].ref) \in whole

\* An update never undeploys what is active: it deploys another commit, and
\* undeploys what was active before.
Updates(s) == cmd[s].op = "update" /\ cmd[s].ref \in installed
UpdateKnows == \A s \in Slots : Updates(s) =>
  /\ cmd[s].at \in {"checkout", "fill", "activate"} =>
       cmd[s].prev = active[cmd[s].ref] /\ cmd[s].want # active[cmd[s].ref]
  /\ At(s, "undeploy") => active[cmd[s].ref] \notin cmd[s].todo
  /\ At(s, "move") => cmd[s].prev # active[cmd[s].ref]

Runs ==
  /\ HasBase /\ Parted /\ UnsettledOut /\ WantWhole /\ NewRuns /\ UpdateKnows
  /\ InstalledStaysRunnable

LEMMA HasBaseStep ==
  ASSUME HasBase, DeployedOK, CmdShaped, Effect PROVE HasBase'
<1>1. ASSUME NEW r \in Refs, NEW c \in Commits, deployed'[r][c] # NULL
      PROVE  (r \in base /\ deployed[r][c] # NULL) \/ \E s \in Slots, d \in Dirs : ChecksOut(s, d)
  BY <1>1, TreesChange
     DEF HasBase, SameTrees, FillsIn, MovesAway, RemovesUndeployed, Cleans, RemovesTree,
         RemovesCheckout, DeployedIs
<1>2. ASSUME NEW s \in Slots, NEW d \in Dirs, ChecksOut(s, d) PROVE HasBase'
  BY <1>2 DEF HasBase, ChecksOut, DeployedIs, SameBase
<1>3. CASE ~\E s \in Slots, d \in Dirs : ChecksOut(s, d)
  <2>1. \A r \in Refs, c \in Commits : deployed'[r][c] # NULL => r \in base /\ deployed[r][c] # NULL
    BY <1>1, <1>3
  <2>2. ASSUME NEW s \in Slots, RemovesBase(s) PROVE HasBase'
    BY <2>1, <2>2 DEF HasBase, RemovesBase
  <2>3. QED
    BY <2>1, <2>2, BaseChange DEF HasBase, SameBase, MakesBase, WritesOrigin, RemovesOrigin
<1>4. QED
  BY <1>2, <1>3

\* A complete checkout stays, unless a command of its ref takes it away.
LEMMA KeptWhole ==
  ASSUME DirsUnique, GoneStays, TreesOK, CmdShaped, Effect, NEW r \in Refs, NEW c \in Commits,
         deployed[r][c] \in whole,
         \A s \in Slots : cmd[s].ref = r =>
           cmd[s].at \notin {"rmbase", "rollback"} /\ (At(s, "move") => cmd[s].prev # c)
  PROVE  deployed'[r][c] \in whole'
<1>1. deployed[r][c] # NULL
  BY NullAssumption DEF TreesOK
<1>2. ASSUME NEW s \in Slots, NEW d \in Dirs, ChecksOut(s, d) \/ FillsIn(s, d) \/ MovesAway(s, d)
      PROVE  deployed'[r][c] \in whole'
  BY <1>1, <1>2 DEF ChecksOut, FillsIn, MovesAway, DeployedIs, At
<1>3. ASSUME NEW s \in Slots, RemovesUndeployed(s) \/ Cleans(s) PROVE deployed'[r][c] \in whole'
  BY <1>3 DEF RemovesUndeployed, Cleans, RemovesTree, GoneStays, Gone
<1>4. ASSUME NEW s \in Slots, NEW e \in Commits, NEW d \in Dirs, RemovesCheckout(s, e, d)
      PROVE  deployed'[r][c] \in whole'
  <2>1. cmd[s].ref # r /\ cmd[s].ref \in Refs
    BY <1>4 DEF RemovesCheckout, Removing, CmdShaped
  <2>2. QED
    BY <1>1, <1>4, <2>1 DEF RemovesCheckout, DeployedIs, DirsUnique
<1>5. QED
  BY <1>2, <1>3, <1>4, TreesChange DEF SameTrees

\* Only the commands of a ref change what is active in it.
LEMMA KeptActive ==
  ASSUME Effect, NEW r \in Refs,
         \A s \in Slots : cmd[s].ref = r =>
           /\ cmd[s].at \notin {"deactivate", "rmbase", "rollback"}
           /\ At(s, "undeploy") => active[r] \notin cmd[s].todo
  PROVE  active'[r] = active[r] \/ \E s \in Slots : Activates(s) /\ cmd[s].ref = r
<1>1. ASSUME NEW s \in Slots, NEW c \in Commits, Undeploys(s, c) PROVE active'[r] = active[r]
  <2>1. PICK o \in Successors(cmd[s].ref, c) : ActiveIs(cmd[s].ref, o)
    BY <1>1 DEF Undeploys
  <2>2. cmd[s].ref = r => active[r] # c
    BY <1>1 DEF Undeploys, At
  <2>3. QED
    BY <2>1, <2>2 DEF Successors, ActiveIs
<1>2. QED
  BY <1>1, LinksChange
     DEF SameLinks, Activates, UnlinksCurrent, LinksCurrent, Deactivates, DropsCurrent,
         RemovesActive, Removing, ActiveIs

\* What is installed now was, or an install ends.
LEMMA WasInstalled ==
  ASSUME Effect, NEW r \in Refs, r \in installed',
         \A s \in Slots : At(s, "done") => cmd[s].ref # r
  PROVE  r \in installed
BY InstalledChange DEF Finishes, BeginsUninstall, At

LEMMA RunnableStep ==
  ASSUME BaseOK, ActiveOK, DirsUnique, GoneStays, TreesOK, CmdShaped, Runs, Effect
  PROVE  InstalledStaysRunnable'
<1>1. SUFFICES ASSUME NEW r \in Refs, r \in installed' PROVE ActiveDir(r)' \in whole'
  <2>1. BaseOK'
    BY BaseStep
  <2>2. QED
    BY <1>1, <2>1 DEF InstalledStaysRunnable, BaseOK
<1>2. CASE r \notin installed
  <2>1. PICK s \in Slots : Finishes(s)
    BY <1>1, <1>2, InstalledChange DEF BeginsUninstall
  <2>2. cmd[s].op \in Installs /\ cmd[s].ref = r /\ At(s, "done")
    BY <1>1, <1>2, <2>1 DEF Finishes, At
  <2>3. ActiveDir(r) \in whole
    BY <2>2 DEF Runs, NewRuns, Late, At
  <2>4. QED
    BY <2>1, <2>3 DEF Finishes, Quiet, SameTrees, SameLinks, ActiveDir
<1>3. CASE r \in installed
  <2>1. ActiveDir(r) \in whole
    BY <1>3 DEF Runs, InstalledStaysRunnable
  <2>2. /\ active[r] \in Commits /\ active[r] # NULL /\ deployed[r][active[r]] \in whole
    BY <2>1, NullAssumption DEF ActiveDir, TreesOK, ActiveOK
  <2>3. ASSUME NEW s \in Slots, cmd[s].ref = r
        PROVE  /\ cmd[s].at \notin {"deactivate", "rmbase", "rollback"}
               /\ At(s, "undeploy") => active[r] \notin cmd[s].todo
               /\ At(s, "move") => cmd[s].prev # active[r]
    <3>1. ~Unsettled(s)
      BY <1>3, <2>3 DEF Runs, UnsettledOut
    <3>2. cmd[s].at \in {"undeploy", "move"} => cmd[s].op = "update"
      BY <3>1 DEF Runs, Parted, Unsettled, At
    <3>3. cmd[s].at \notin {"deactivate", "rmbase", "rollback"}
      BY <3>1 DEF Runs, Parted, Unsettled, At
    <3>4. QED
      BY <1>3, <2>3, <3>2, <3>3 DEF Runs, UpdateKnows, Updates, At
  <2>4. ASSUME NEW s \in Slots, Activates(s), cmd[s].ref = r PROVE ActiveDir(r)' \in whole'
    <3>1. cmd[s].want \in Commits /\ deployed[r][cmd[s].want] \in whole
      BY <2>4 DEF Runs, WantWhole, CmdShaped, Activates, At
    <3>2. QED
      BY <2>4, <3>1, NullAssumption DEF Activates, ActiveIs, SameTrees, ActiveDir
  <2>5. CASE active'[r] = active[r]
    <3>1. deployed'[r][active[r]] \in whole'
      BY <2>2, <2>3, KeptWhole
    <3>2. QED
      BY <2>2, <2>5, <3>1 DEF ActiveDir
  <2>6. QED
    BY <2>3, <2>4, <2>5, KeptActive
<1>4. QED
  BY <1>2, <1>3

\* How a command comes to where the invariant says something of it.
Entered(u) ==
  \/ \E d \in Dirs : FillsIn(u, d)
  \/ cmd[u].at = "activate" /\ cmd'[u].ref = cmd[u].ref /\ cmd'[u].want = cmd[u].want
Landed(u) ==
  /\ cmd'[u].op = cmd[u].op /\ cmd'[u].ref = cmd[u].ref
  /\ Activates(u) \/ cmd[u].at \in Late
Advanced(u) ==
  /\ cmd'[u].op = cmd[u].op /\ cmd'[u].ref = cmd[u].ref
  /\ \/ \E c \in Commits : Resolves(u, c) /\ cmd'[u].at = "checkout"
     \/ /\ cmd[u].at \in {"checkout", "fill", "activate"}
        /\ cmd'[u].at \in {"checkout", "fill", "activate"}
        /\ cmd'[u].prev = cmd[u].prev /\ cmd'[u].want = cmd[u].want
     \/ Activates(u) /\ cmd'[u].at = "undeploy"
     \/ cmd[u].at = "undeploy" /\ cmd'[u].at = "undeploy" /\ cmd'[u].todo = cmd[u].todo
     \/ \E c \in Commits : Undeploys(u, c) /\ cmd'[u].at = "move"
     \/ cmd[u].at = "move" /\ cmd'[u].at = "move" /\ cmd'[u].prev = cmd[u].prev

LEMMA PartedStep ==
  ASSUME CmdShaped, Parted, Effect
  PROVE  Parted'
<1>1. CASE UNCHANGED <<disk, cmd, app, history>> \/ \E a \in Apps : AppGoes(a) \/ Locks(a)
  BY <1>1, Stutters DEF Parted, CmdShaped, Installs
<1>2. ASSUME NEW s \in Slots, Starting(s) PROVE Parted'
  <2>1. ASSUME NEW r \in Refs, NEW op \in Installs, BeginsInstall(s, r, op) PROVE Parted'
    BY <1>2, <2>1 DEF BeginsInstall, Begins, Installs, Parted, CmdShaped
  <2>2. ASSUME NEW r \in Refs, BeginsUpdate(s, r) PROVE Parted'
    BY <1>2, <2>2 DEF BeginsUpdate, Begins, Parted, CmdShaped, Installs
  <2>3. ASSUME NEW r \in Refs, BeginsUninstall(s, r) PROVE Parted'
    BY <1>2, <2>3 DEF BeginsUninstall, Begins, Parted, CmdShaped, Installs
  <2>4. ASSUME NEW r \in Refs, BeginsCurrent(s, r) PROVE Parted'
    BY <1>2, <2>4 DEF BeginsCurrent, Begins, Parted, CmdShaped, Installs
  <2>5. QED
    BY <1>2, <2>1, <2>2, <2>3, <2>4 DEF Starting
<1>3. ASSUME NEW s \in Slots, Ending(s) PROVE Parted'
  BY <1>3
     DEF Ending, Aborts, RollsBack, MadeBase, Finishes, Ends, GoesTo, Goes, Keeps4, Others,
       Parted, CmdShaped, Installs
<1>4. ASSUME NEW s \in Slots, Looking(s) PROVE Parted'
  <2>1. ASSUME Pulls(s) PROVE Parted'
    BY <1>4, <2>1 DEF Pulls, GoesTo, Goes, Keeps4, Others, Parted, CmdShaped, Installs
  <2>2. ASSUME Lists(s) PROVE Parted'
    BY <1>4, <2>2
       DEF Lists, Deployments, GoesTo, Goes, Keeps4, Others, Parted, CmdShaped, Installs
  <2>3. ASSUME Checks(s) PROVE Parted'
    BY <1>4, <2>3
       DEF Checks, NextUndeploy, AfterUndeploy, GoesTo, Goes, Keeps4, Others, Parted, CmdShaped,
         Installs
  <2>4. ASSUME Collects(s) PROVE Parted'
    BY <1>4, <2>4 DEF Collects, GoesTo, Goes, Keeps4, Others, Parted, CmdShaped, Installs
  <2>5. ASSUME Looks(s) PROVE Parted'
    BY <1>4, <2>5 DEF Looks, GoesTo, Goes, Keeps4, Others, Parted, CmdShaped, Installs
  <2>6. ASSUME NEW c \in Commits, Resolves(s, c) PROVE Parted'
    BY <1>4, <2>6 DEF Resolves, GoesTo, Goes, Keeps4, Others, Parted, CmdShaped, Installs
  <2>7. QED
    BY <1>4, <2>1, <2>2, <2>3, <2>4, <2>5, <2>6 DEF Looking
<1>5. ASSUME NEW s \in Slots, Deploying(s) PROVE Parted'
  BY <1>5
     DEF Deploying, MakesBase, WritesOrigin, ChecksOut, FillsIn, GoesTo, Goes, Keeps4, Others,
       Parted, CmdShaped, Installs
<1>6. ASSUME NEW s \in Slots, Linking(s) PROVE Parted'
  BY <1>6
     DEF Linking, Activates, AfterDeploy, AfterUndeploy, UnlinksCurrent, LinksCurrent,
       Deactivates, DropsCurrent, Undeploys, GoesTo, Goes, Keeps4, Others, Parted, CmdShaped,
       Installs
<1>7. ASSUME NEW s \in Slots, Publishing(s) PROVE Parted'
  BY <1>7
     DEF Publishing, Exports, Trims, AfterExports, GoesTo, Goes, Keeps4, Others, Parted,
       CmdShaped, Installs
<1>8. ASSUME NEW s \in Slots, Discarding(s) PROVE Parted'
  BY <1>8
     DEF Discarding, RemovesUndeployed, Cleans, RemovesTree, NextUndeploy, AfterUndeploy,
       MovesAway, GoesTo, Goes, Keeps4, Others, Parted, CmdShaped, Installs
<1>9. ASSUME NEW s \in Slots, Wiping(s) PROVE Parted'
  BY <1>9
     DEF Wiping, RemovesOrigin, RemovesActive, RemovesCheckout, RemovesBase, AfterRemoval,
       Removing, GoesTo, Goes, Keeps4, Ends, Others, Parted, CmdShaped, Installs
<1>10. QED
  BY <1>1, <1>2, <1>3, <1>4, <1>5, <1>6, <1>7, <1>8, <1>9 DEF Effect

LEMMA EntersActivate ==
  ASSUME NEW u \in Slots, cmd'[u].at = "activate", Effect
  PROVE  Entered(u)
<1>1. CASE UNCHANGED <<disk, cmd, app, history>> \/ \E a \in Apps : AppGoes(a) \/ Locks(a)
  BY <1>1, Stutters DEF Entered, Installs
<1>2. ASSUME NEW s \in Slots, Starting(s) PROVE Entered(u)
  BY <1>2
     DEF Starting, BeginsInstall, BeginsUpdate, BeginsUninstall, BeginsCurrent, Begins, Entered,
       Installs
<1>3. ASSUME NEW s \in Slots, Ending(s) PROVE Entered(u)
  BY <1>3
     DEF Ending, Aborts, RollsBack, MadeBase, Finishes, Ends, GoesTo, Goes, Keeps4, Others,
       Entered, Installs
<1>4. ASSUME NEW s \in Slots, Looking(s) PROVE Entered(u)
  <2>1. ASSUME Pulls(s) PROVE Entered(u)
    BY <1>4, <2>1 DEF Pulls, GoesTo, Goes, Keeps4, Others, Entered, Installs
  <2>2. ASSUME Lists(s) PROVE Entered(u)
    BY <1>4, <2>2 DEF Lists, Deployments, GoesTo, Goes, Keeps4, Others, Entered, Installs
  <2>3. ASSUME Checks(s) PROVE Entered(u)
    BY <1>4, <2>3
       DEF Checks, NextUndeploy, AfterUndeploy, GoesTo, Goes, Keeps4, Others, Entered, Installs
  <2>4. ASSUME Collects(s) PROVE Entered(u)
    BY <1>4, <2>4 DEF Collects, GoesTo, Goes, Keeps4, Others, Entered, Installs
  <2>5. ASSUME Looks(s) PROVE Entered(u)
    BY <1>4, <2>5 DEF Looks, GoesTo, Goes, Keeps4, Others, Entered, Installs
  <2>6. ASSUME NEW c \in Commits, Resolves(s, c) PROVE Entered(u)
    BY <1>4, <2>6 DEF Resolves, GoesTo, Goes, Keeps4, Others, Entered, Installs
  <2>7. QED
    BY <1>4, <2>1, <2>2, <2>3, <2>4, <2>5, <2>6 DEF Looking
<1>5. ASSUME NEW s \in Slots, Deploying(s) PROVE Entered(u)
  BY <1>5
     DEF Deploying, MakesBase, WritesOrigin, ChecksOut, FillsIn, GoesTo, Goes, Keeps4, Others,
       Entered, Installs
<1>6. ASSUME NEW s \in Slots, Linking(s) PROVE Entered(u)
  BY <1>6
     DEF Linking, Activates, AfterDeploy, AfterUndeploy, UnlinksCurrent, LinksCurrent,
       Deactivates, DropsCurrent, Undeploys, GoesTo, Goes, Keeps4, Others, Entered, Installs
<1>7. ASSUME NEW s \in Slots, Publishing(s) PROVE Entered(u)
  BY <1>7
     DEF Publishing, Exports, Trims, AfterExports, GoesTo, Goes, Keeps4, Others, Entered,
       Installs
<1>8. ASSUME NEW s \in Slots, Discarding(s) PROVE Entered(u)
  BY <1>8
     DEF Discarding, RemovesUndeployed, Cleans, RemovesTree, NextUndeploy, AfterUndeploy,
       MovesAway, GoesTo, Goes, Keeps4, Others, Entered, Installs
<1>9. ASSUME NEW s \in Slots, Wiping(s) PROVE Entered(u)
  BY <1>9
     DEF Wiping, RemovesOrigin, RemovesActive, RemovesCheckout, RemovesBase, AfterRemoval,
       Removing, GoesTo, Goes, Keeps4, Ends, Others, Entered, Installs
<1>10. QED
  BY <1>1, <1>2, <1>3, <1>4, <1>5, <1>6, <1>7, <1>8, <1>9 DEF Effect

LEMMA EntersLate ==
  ASSUME NEW u \in Slots, cmd'[u].op \in Installs, cmd'[u].at \in Late, Parted, CmdShaped,
    Effect
  PROVE  Landed(u)
<1>1. CASE UNCHANGED <<disk, cmd, app, history>> \/ \E a \in Apps : AppGoes(a) \/ Locks(a)
  BY <1>1, Stutters DEF Landed, Late, Parted, CmdShaped, Installs
<1>2. ASSUME NEW s \in Slots, Starting(s) PROVE Landed(u)
  <2>1. ASSUME NEW r \in Refs, NEW op \in Installs, BeginsInstall(s, r, op) PROVE Landed(u)
    BY <1>2, <2>1 DEF BeginsInstall, Begins, Installs, Landed, Late, Parted, CmdShaped
  <2>2. ASSUME NEW r \in Refs, BeginsUpdate(s, r) PROVE Landed(u)
    BY <1>2, <2>2 DEF BeginsUpdate, Begins, Landed, Late, Parted, CmdShaped, Installs
  <2>3. ASSUME NEW r \in Refs, BeginsUninstall(s, r) PROVE Landed(u)
    BY <1>2, <2>3 DEF BeginsUninstall, Begins, Landed, Late, Parted, CmdShaped, Installs
  <2>4. ASSUME NEW r \in Refs, BeginsCurrent(s, r) PROVE Landed(u)
    BY <1>2, <2>4 DEF BeginsCurrent, Begins, Landed, Late, Parted, CmdShaped, Installs
  <2>5. QED
    BY <1>2, <2>1, <2>2, <2>3, <2>4 DEF Starting
<1>3. ASSUME NEW s \in Slots, Ending(s) PROVE Landed(u)
  BY <1>3
     DEF Ending, Aborts, RollsBack, MadeBase, Finishes, Ends, GoesTo, Goes, Keeps4, Others,
       Landed, Late, Parted, CmdShaped, Installs
<1>4. ASSUME NEW s \in Slots, Looking(s) PROVE Landed(u)
  <2>1. ASSUME Pulls(s) PROVE Landed(u)
    BY <1>4, <2>1
       DEF Pulls, GoesTo, Goes, Keeps4, Others, Landed, Late, Parted, CmdShaped, Installs
  <2>2. ASSUME Lists(s) PROVE Landed(u)
    BY <1>4, <2>2
       DEF Lists, Deployments, GoesTo, Goes, Keeps4, Others, Landed, Late, Parted, CmdShaped,
         Installs
  <2>3. ASSUME Checks(s) PROVE Landed(u)
    BY <1>4, <2>3
       DEF Checks, NextUndeploy, AfterUndeploy, GoesTo, Goes, Keeps4, Others, Landed, Late,
         Parted, CmdShaped, Installs
  <2>4. ASSUME Collects(s) PROVE Landed(u)
    BY <1>4, <2>4
       DEF Collects, GoesTo, Goes, Keeps4, Others, Landed, Late, Parted, CmdShaped, Installs
  <2>5. ASSUME Looks(s) PROVE Landed(u)
    BY <1>4, <2>5
       DEF Looks, GoesTo, Goes, Keeps4, Others, Landed, Late, Parted, CmdShaped, Installs
  <2>6. ASSUME NEW c \in Commits, Resolves(s, c) PROVE Landed(u)
    BY <1>4, <2>6
       DEF Resolves, GoesTo, Goes, Keeps4, Others, Landed, Late, Parted, CmdShaped, Installs
  <2>7. QED
    BY <1>4, <2>1, <2>2, <2>3, <2>4, <2>5, <2>6 DEF Looking
<1>5. ASSUME NEW s \in Slots, Deploying(s) PROVE Landed(u)
  BY <1>5
     DEF Deploying, MakesBase, WritesOrigin, ChecksOut, FillsIn, GoesTo, Goes, Keeps4, Others,
       Landed, Late, Parted, CmdShaped, Installs
<1>6. ASSUME NEW s \in Slots, Linking(s) PROVE Landed(u)
  BY <1>6
     DEF Linking, Activates, AfterDeploy, AfterUndeploy, UnlinksCurrent, LinksCurrent,
       Deactivates, DropsCurrent, Undeploys, GoesTo, Goes, Keeps4, Others, Landed, Late, Parted,
       CmdShaped, Installs
<1>7. ASSUME NEW s \in Slots, Publishing(s) PROVE Landed(u)
  BY <1>7
     DEF Publishing, Exports, Trims, AfterExports, GoesTo, Goes, Keeps4, Others, Landed, Late,
       Parted, CmdShaped, Installs
<1>8. ASSUME NEW s \in Slots, Discarding(s) PROVE Landed(u)
  BY <1>8
     DEF Discarding, RemovesUndeployed, Cleans, RemovesTree, NextUndeploy, AfterUndeploy,
       MovesAway, GoesTo, Goes, Keeps4, Others, Landed, Late, Parted, CmdShaped, Installs
<1>9. ASSUME NEW s \in Slots, Wiping(s) PROVE Landed(u)
  BY <1>9
     DEF Wiping, RemovesOrigin, RemovesActive, RemovesCheckout, RemovesBase, AfterRemoval,
       Removing, GoesTo, Goes, Keeps4, Ends, Others, Landed, Late, Parted, CmdShaped, Installs
<1>10. QED
  BY <1>1, <1>2, <1>3, <1>4, <1>5, <1>6, <1>7, <1>8, <1>9 DEF Effect

LEMMA EntersUpdate ==
  ASSUME NEW u \in Slots, cmd'[u].op = "update", CmdShaped, cmd'[u].at \in {"checkout", "fill",
    "activate", "undeploy", "move"}, Effect
  PROVE  Advanced(u)
<1>1. CASE UNCHANGED <<disk, cmd, app, history>> \/ \E a \in Apps : AppGoes(a) \/ Locks(a)
  BY <1>1, Stutters DEF Advanced, CmdShaped, Installs
<1>2. ASSUME NEW s \in Slots, Starting(s) PROVE Advanced(u)
  <2>1. ASSUME NEW r \in Refs, NEW op \in Installs, BeginsInstall(s, r, op) PROVE Advanced(u)
    BY <1>2, <2>1 DEF BeginsInstall, Begins, Installs, Advanced, CmdShaped
  <2>2. ASSUME NEW r \in Refs, BeginsUpdate(s, r) PROVE Advanced(u)
    BY <1>2, <2>2 DEF BeginsUpdate, Begins, Advanced, CmdShaped, Installs
  <2>3. ASSUME NEW r \in Refs, BeginsUninstall(s, r) PROVE Advanced(u)
    BY <1>2, <2>3 DEF BeginsUninstall, Begins, Advanced, CmdShaped, Installs
  <2>4. ASSUME NEW r \in Refs, BeginsCurrent(s, r) PROVE Advanced(u)
    BY <1>2, <2>4 DEF BeginsCurrent, Begins, Advanced, CmdShaped, Installs
  <2>5. QED
    BY <1>2, <2>1, <2>2, <2>3, <2>4 DEF Starting
<1>3. ASSUME NEW s \in Slots, Ending(s) PROVE Advanced(u)
  BY <1>3
     DEF Ending, Aborts, RollsBack, MadeBase, Finishes, Ends, GoesTo, Goes, Keeps4, Others,
       Advanced, CmdShaped, Installs
<1>4. ASSUME NEW s \in Slots, Looking(s) PROVE Advanced(u)
  <2>1. ASSUME Pulls(s) PROVE Advanced(u)
    BY <1>4, <2>1 DEF Pulls, GoesTo, Goes, Keeps4, Others, Advanced, CmdShaped, Installs
  <2>2. ASSUME Lists(s) PROVE Advanced(u)
    BY <1>4, <2>2
       DEF Lists, Deployments, GoesTo, Goes, Keeps4, Others, Advanced, CmdShaped, Installs
  <2>3. ASSUME Checks(s) PROVE Advanced(u)
    BY <1>4, <2>3
       DEF Checks, NextUndeploy, AfterUndeploy, GoesTo, Goes, Keeps4, Others, Advanced,
         CmdShaped, Installs
  <2>4. ASSUME Collects(s) PROVE Advanced(u)
    BY <1>4, <2>4 DEF Collects, GoesTo, Goes, Keeps4, Others, Advanced, CmdShaped, Installs
  <2>5. ASSUME Looks(s) PROVE Advanced(u)
    BY <1>4, <2>5 DEF Looks, GoesTo, Goes, Keeps4, Others, Advanced, CmdShaped, Installs
  <2>6. ASSUME NEW c \in Commits, Resolves(s, c) PROVE Advanced(u)
    BY <1>4, <2>6 DEF Resolves, GoesTo, Goes, Keeps4, Others, Advanced, CmdShaped, Installs
  <2>7. QED
    BY <1>4, <2>1, <2>2, <2>3, <2>4, <2>5, <2>6 DEF Looking
<1>5. ASSUME NEW s \in Slots, Deploying(s) PROVE Advanced(u)
  BY <1>5
     DEF Deploying, MakesBase, WritesOrigin, ChecksOut, FillsIn, GoesTo, Goes, Keeps4, Others,
       Advanced, CmdShaped, Installs
<1>6. ASSUME NEW s \in Slots, Linking(s) PROVE Advanced(u)
  <2>1. ASSUME Activates(s) PROVE Advanced(u)
    BY <1>6, <2>1
       DEF Activates, AfterDeploy, AfterUndeploy, GoesTo, Goes, Keeps4, Others, Advanced,
         CmdShaped, Installs
  <2>2. ASSUME UnlinksCurrent(s) \/ LinksCurrent(s) PROVE Advanced(u)
    BY <1>6, <2>2
       DEF UnlinksCurrent, LinksCurrent, GoesTo, Goes, Keeps4, Others, Advanced, CmdShaped,
         Installs
  <2>3. ASSUME Deactivates(s) \/ DropsCurrent(s) PROVE Advanced(u)
    BY <1>6, <2>3
       DEF Deactivates, DropsCurrent, GoesTo, Goes, Keeps4, Others, Advanced, CmdShaped, Installs
  <2>4. ASSUME NEW c \in Commits, Undeploys(s, c) PROVE Advanced(u)
    BY <1>6, <2>4
       DEF Undeploys, GoesTo, Goes, Keeps4, Others, Advanced, CmdShaped, Installs
  <2>5. QED
    BY <1>6, <2>1, <2>2, <2>3, <2>4 DEF Linking
<1>7. ASSUME NEW s \in Slots, Publishing(s) PROVE Advanced(u)
  BY <1>7
     DEF Publishing, Exports, Trims, AfterExports, GoesTo, Goes, Keeps4, Others, Advanced,
       CmdShaped, Installs
<1>8. ASSUME NEW s \in Slots, Discarding(s) PROVE Advanced(u)
  BY <1>8
     DEF Discarding, RemovesUndeployed, Cleans, RemovesTree, NextUndeploy, AfterUndeploy,
       MovesAway, GoesTo, Goes, Keeps4, Others, Advanced, CmdShaped, Installs
<1>9. ASSUME NEW s \in Slots, Wiping(s) PROVE Advanced(u)
  BY <1>9
     DEF Wiping, RemovesOrigin, RemovesActive, RemovesCheckout, RemovesBase, AfterRemoval,
       Removing, GoesTo, Goes, Keeps4, Ends, Others, Advanced, CmdShaped, Installs
<1>10. QED
  BY <1>1, <1>2, <1>3, <1>4, <1>5, <1>6, <1>7, <1>8, <1>9 DEF Effect

\* No other command is at the ref of a command.
Only(u) == \A s \in Slots : cmd[s].ref = cmd[u].ref => s = u \/ At(s, "idle")

LEMMA OnlyOne ==
  ASSUME OnePerRef, NEW u \in Slots, ~At(u, "idle") PROVE Only(u)
BY DEF OnePerRef, Only

LEMMA UnsettledStep ==
  ASSUME OnePerRef, HasBase, TreesOK, ActiveOK, CmdShaped, BaseOK, InstalledStaysRunnable,
         UnsettledOut, Effect
  PROVE  UnsettledOut'
<1>1. ASSUME NEW r \in Refs, r \in installed PROVE r \in base
  <2>1. ActiveDir(r) \in whole
    BY <1>1 DEF InstalledStaysRunnable
  <2>2. active[r] \in Commits /\ deployed[r][active[r]] # NULL
    BY <2>1, NullAssumption DEF ActiveDir, TreesOK, ActiveOK
  <2>3. QED
    BY <2>2 DEF HasBase
<1>2. ASSUME NEW u \in Slots, Unsettled(u)' PROVE cmd'[u].ref \notin installed'
  <2>1. ASSUME NEW s \in Slots, Starting(s) PROVE cmd'[u].ref \notin installed'
    <3>1. ASSUME NEW r \in Refs, NEW op \in Installs, BeginsInstall(s, r, op)
          PROVE  cmd'[u].ref \notin installed'
      BY <1>1, <1>2, <3>1 DEF BeginsInstall, Begins, UnsettledOut, Unsettled, At
    <3>2. ASSUME NEW r \in Refs, BeginsUpdate(s, r) \/ BeginsUninstall(s, r) \/ BeginsCurrent(s, r)
          PROVE  cmd'[u].ref \notin installed'
      BY <1>2, <3>2
         DEF BeginsUpdate, BeginsUninstall, BeginsCurrent, Begins, UnsettledOut, Unsettled, At,
             Installs
    <3>3. QED
      BY <2>1, <3>1, <3>2 DEF Starting
  <2>2. ASSUME NEW s \in Slots, Finishes(s) PROVE cmd'[u].ref \notin installed'
    <3>1. u # s /\ cmd'[u] = cmd[u]
      BY <1>2, <2>2 DEF Finishes, Ends, Others, Unsettled, At
    <3>2. cmd[s].ref # cmd[u].ref
      BY <1>2, <2>2, <3>1 DEF OnePerRef, Finishes, Unsettled, At
    <3>3. QED
      BY <1>2, <2>2, <3>1, <3>2 DEF Finishes, UnsettledOut, Unsettled, At
  <2>3. CASE ~\E s \in Slots : Starting(s) \/ Finishes(s)
    <3>1. Unsettled(u) /\ cmd'[u].ref = cmd[u].ref
      <4>1. \/ cmd' = cmd
            \/ \E s \in Slots : cmd[s].at # "idle" /\ (Ends(s) \/ \E at \in Places : GoesOn(s, at))
        BY <2>3, CmdChange
      <4>2. QED
        BY <1>2, <4>1 DEF Ends, Others, GoesOn, Unsettled, At, Installs
    <3>2. installed' = installed
      BY <2>3, InstalledChange DEF Starting
    <3>3. QED
      BY <3>1, <3>2 DEF UnsettledOut
  <2>4. QED
    BY <2>1, <2>2, <2>3
<1>3. QED
  BY <1>2 DEF UnsettledOut

LEMMA WantKept ==
  ASSUME DirsUnique, GoneStays, TreesOK, CmdShaped, Effect,
         NEW u \in Slots, cmd'[u].at = "activate", ~At(u, "idle") => Only(u),
         At(u, "activate") => deployed[cmd[u].ref][cmd[u].want] \in whole
  PROVE  deployed'[cmd'[u].ref][cmd'[u].want] \in whole'
<1>1. ASSUME NEW d \in Dirs, FillsIn(u, d)
      PROVE  deployed'[cmd'[u].ref][cmd'[u].want] \in whole'
  BY <1>1 DEF FillsIn, GoesTo, Goes, Keeps4
<1>2. CASE cmd[u].at = "activate" /\ cmd'[u].ref = cmd[u].ref /\ cmd'[u].want = cmd[u].want
  <2>1. /\ cmd[u].ref \in Refs /\ cmd[u].want \in Commits
        /\ deployed[cmd[u].ref][cmd[u].want] \in whole
    BY <1>2 DEF CmdShaped, At
  <2>2. \A s \in Slots : cmd[s].ref = cmd[u].ref => cmd[s].at \notin {"move", "rmbase", "rollback"}
    BY <1>2 DEF Only, At
  <2>3. deployed'[cmd[u].ref][cmd[u].want] \in whole'
    BY <2>1, <2>2, KeptWhole DEF At
  <2>4. QED
    BY <1>2, <2>3
<1>3. QED
  BY <1>1, <1>2, EntersActivate DEF Entered

LEMMA LateKept ==
  ASSUME DirsUnique, GoneStays, TreesOK, ActiveOK, CmdShaped, Parted, Effect,
         NEW u \in Slots, cmd'[u].op \in Installs, cmd'[u].at \in Late,
         ~At(u, "idle") => Only(u),
         At(u, "activate") => deployed[cmd[u].ref][cmd[u].want] \in whole,
         cmd[u].at \in Late => ActiveDir(cmd[u].ref) \in whole,
         NEW r, r = cmd'[u].ref
  PROVE  ActiveDir(r)' \in whole'
<1>1. /\ cmd'[u].op = cmd[u].op /\ cmd[u].ref = r
      /\ Activates(u) \/ cmd[u].at \in Late
  BY EntersLate DEF Landed
<1>2. CASE Activates(u)
  <2>1. r \in Refs /\ cmd[u].want \in Commits /\ deployed[r][cmd[u].want] \in whole
    BY <1>1, <1>2 DEF Activates, CmdShaped, At
  <2>2. QED
    BY <1>1, <1>2, <2>1, NullAssumption DEF Activates, ActiveIs, SameTrees, ActiveDir
<1>3. CASE cmd[u].at \in Late
  <2>1. r \in Refs /\ ActiveDir(r) \in whole
    BY <1>1, <1>3 DEF CmdShaped, Late
  <2>2. active[r] \in Commits /\ active[r] # NULL /\ deployed[r][active[r]] \in whole
    BY <2>1, NullAssumption DEF ActiveDir, TreesOK, ActiveOK
  <2>3. \A s \in Slots : cmd[s].ref = r =>
          cmd[s].at \notin {"activate", "deactivate", "undeploy", "move", "rmbase", "rollback"}
    BY <1>1, <1>3 DEF At, Late, Only
  <2>4. active'[r] = active[r]
    <3>1. ~\E s \in Slots : Activates(s) /\ cmd[s].ref = r
      BY <2>3 DEF Activates
    <3>2. QED
      BY <2>1, <2>3, <3>1, KeptActive DEF At
  <2>5. deployed'[r][active[r]] \in whole'
    BY <2>1, <2>2, <2>3, KeptWhole DEF At
  <2>6. QED
    BY <2>2, <2>4, <2>5 DEF ActiveDir
<1>4. QED
  BY <1>1, <1>2, <1>3

LEMMA WantWholeStep ==
  ASSUME OnePerRef, DirsUnique, GoneStays, TreesOK, CmdShaped, WantWhole, Effect
  PROVE  WantWhole'
BY OnlyOne, WantKept DEF WantWhole, At

LEMMA NewRunsStep ==
  ASSUME OnePerRef, DirsUnique, GoneStays, TreesOK, ActiveOK, CmdShaped, Parted, WantWhole, NewRuns,
         Effect
  PROVE  NewRuns'
<1>1. ASSUME NEW u \in Slots, cmd'[u].op \in Installs, cmd'[u].at \in Late, NEW r, r = cmd'[u].ref
      PROVE  ActiveDir(r)' \in whole'
  <2>1. cmd'[u].op = cmd[u].op
    BY <1>1, EntersLate DEF Landed
  <2>2. /\ At(u, "activate") => deployed[cmd[u].ref][cmd[u].want] \in whole
        /\ cmd[u].at \in Late => ActiveDir(cmd[u].ref) \in whole
        /\ ~At(u, "idle") => Only(u)
    BY <1>1, <2>1, OnlyOne DEF WantWhole, NewRuns
  <2>3. QED
    BY <1>1, <2>2, LateKept
<1>2. QED
  BY <1>1 DEF NewRuns, ActiveDir

LEMMA UpdateKnowsStep ==
  ASSUME OnePerRef, ActiveOK, TreesOK, CmdShaped, UpdateKnows, InstalledStaysRunnable, Effect
  PROVE  UpdateKnows'
<1> DEFINE Doing == {"checkout", "fill", "activate"}
<1>1. ASSUME NEW u \in Slots, Updates(u)', cmd'[u].at \in Doing \cup {"undeploy", "move"}
      PROVE  /\ cmd'[u].at \in Doing =>
                  cmd'[u].prev = active'[cmd'[u].ref] /\ cmd'[u].want # active'[cmd'[u].ref]
             /\ cmd'[u].at = "undeploy" => active'[cmd'[u].ref] \notin cmd'[u].todo
             /\ cmd'[u].at = "move" => cmd'[u].prev # active'[cmd'[u].ref]
  <2> DEFINE r == cmd[u].ref
  <2>1. Advanced(u)
    BY <1>1, EntersUpdate DEF Updates
  <2>2. cmd[u].at \in Doing \cup {"deploy", "undeploy", "move"}
    BY <2>1 DEF Advanced, Resolves, Activates, Undeploys
  <2>3. r \in Refs /\ ~At(u, "idle") /\ cmd'[u].ref = r
    BY <2>1, <2>2 DEF Advanced, CmdShaped, At
  <2>4. \A s \in Slots : cmd[s].ref = r => s = u \/ cmd[s].at = "idle"
    BY <2>3, OnlyOne DEF Only, At
  <2>5. Updates(u)
    <3>1. \A s \in Slots : At(s, "done") => cmd[s].ref # r
      BY <2>2, <2>4 DEF At
    <3>2. r \in installed
      BY <1>1, <2>3, <3>1, WasInstalled DEF Updates
    <3>3. QED
      BY <1>1, <2>1, <3>2 DEF Advanced, Updates
  <2>6. active[r] \in Commits /\ deployed[r][active[r]] # NULL
    <3>1. ActiveDir(r) \in whole
      BY <2>5 DEF Updates, InstalledStaysRunnable
    <3>2. QED
      BY <2>3, <3>1, NullAssumption DEF ActiveDir, TreesOK, ActiveOK
  <2>7. /\ cmd[u].at \in Doing => cmd[u].prev = active[r] /\ cmd[u].want # active[r]
        /\ cmd[u].at = "undeploy" => active[r] \notin cmd[u].todo
        /\ cmd[u].at = "move" => cmd[u].prev # active[r]
    BY <2>5 DEF UpdateKnows, At
  <2>8. active'[r] = active[r] \/ Activates(u)
    <3>1. \A s \in Slots : cmd[s].ref = r =>
            /\ cmd[s].at \notin {"deactivate", "rmbase", "rollback"}
            /\ At(s, "undeploy") => active[r] \notin cmd[s].todo
      BY <2>2, <2>4, <2>7 DEF At
    <3>2. CASE \E s \in Slots : Activates(s) /\ cmd[s].ref = r
      BY <2>4, <3>2 DEF Activates
    <3>3. QED
      BY <2>3, <3>1, <3>2, KeptActive
  <2>9. CASE Activates(u)
    <3>1. /\ cmd[u].at = "activate" /\ active'[r] = cmd[u].want
          /\ cmd'[u].at \in {"undeploy", "export", "done", "unlink", "cleanup"}
          /\ cmd'[u].todo = {cmd[u].prev} \ {NULL}
      BY <2>9 DEF Activates, ActiveIs, Goes, AfterDeploy, AfterUndeploy
    <3>2. QED
      BY <2>3, <2>7, <3>1
  <2>10. CASE ~Activates(u)
    <3>1. active'[r] = active[r]
      BY <2>8, <2>10
    <3>2. ASSUME NEW c \in Commits, Resolves(u, c), cmd'[u].at = "checkout"
          PROVE  cmd'[u].prev = active[r] /\ cmd'[u].want # active[r]
      BY <2>6, <3>2 DEF Resolves, Goes
    <3>3. ASSUME NEW c \in Commits, Undeploys(u, c) PROVE cmd'[u].prev # active[r]
      BY <2>7, <3>3 DEF Undeploys, Goes
    <3>4. QED
      BY <2>1, <2>3, <2>7, <2>10, <3>1, <3>2, <3>3 DEF Advanced
  <2>11. QED
    BY <2>9, <2>10
<1>2. QED
  BY <1>1 DEF UpdateKnows, At

LEMMA RunsStep ==
  ASSUME IInv, Runs, OnePerRef, [Next]_vars PROVE Runs'
<1>1. Effect
  BY Detailed DEF IInv, Types, Base
<1>2. HasBase' /\ Parted' /\ InstalledStaysRunnable'
  BY <1>1, HasBaseStep, PartedStep, RunnableStep DEF IInv, Types, Trees, Runs
<1>3. UnsettledOut' /\ WantWhole' /\ NewRuns' /\ UpdateKnows'
  BY <1>1, UnsettledStep, WantWholeStep, NewRunsStep, UpdateKnowsStep DEF IInv, Types, Trees, Runs
<1>4. QED
  BY <1>2, <1>3 DEF Runs

LEMMA RunsFirst == ASSUME Init PROVE Runs
<1>1. \A s \in Slots : cmd[s].at = "idle" /\ cmd[s].op = "none"
  BY NoCommandOK DEF Init
<1>2. /\ \A r \in Refs, c \in Commits : deployed[r][c] = NULL
      /\ installed = {}
  BY DEF Init
<1>3. QED
  BY <1>1, <1>2
     DEF Runs, HasBase, Parted, UnsettledOut, Unsettled, WantWhole, NewRuns, Late, UpdateKnows,
         Updates, InstalledStaysRunnable, At, Installs

-----------------------------------------------------------------------------
(* An install that runs alone: what it has done by now, whatever was there *)
(* before.                                                                 *)

Recorded == {"deploy", "checkout", "fill", "activate"} \cup Late
Linked == {"export", "dangling"} \cup Ended
Shown == {"dangling"} \cup Ended
AloneInstall(s) == cmd[s].op \in Installs /\ cmd[s].alone
Installing == \A s \in Slots : AloneInstall(s) =>
  /\ At(s, "activate") => deployed[cmd[s].ref][cmd[s].want] \in whole
  /\ cmd[s].at \in Late => ActiveDir(cmd[s].ref) \in whole
  /\ cmd[s].op = "install" /\ cmd[s].at \in Recorded => cmd[s].ref \in origin
  /\ cmd[s].ref \in AppRefs /\ cmd[s].at \in Linked => current = cmd[s].ref
  /\ cmd[s].ref \in AppRefs /\ cmd[s].at \in Shown => ~suspect

\* How an install comes to where Installing says something of it.
Came(u) ==
  /\ cmd'[u].op = cmd[u].op /\ cmd'[u].ref = cmd[u].ref
  /\ cmd'[u].alone => cmd[u].alone
  /\ cmd[u].op = "install" => cmd[u].at \in Recorded \/ WritesOrigin(u)
  /\ cmd[u].ref \in AppRefs /\ cmd'[u].at \in Linked => cmd[u].at \in Linked \/ LinksCurrent(u)
  /\ cmd[u].ref \in AppRefs /\ cmd'[u].at \in Shown => cmd[u].at \in Shown \/ Exports(u)

LEMMA Comes ==
  ASSUME NEW u \in Slots, cmd'[u].op \in Installs, cmd'[u].at \in Recorded, Parted, CmdShaped,
         Effect
  PROVE  Came(u)
<1>1. CASE UNCHANGED <<disk, cmd, app, history>> \/ \E a \in Apps : AppGoes(a) \/ Locks(a)
  BY <1>1, Stutters DEF Came, Recorded, Linked, Shown, Late, Ended, Parted, CmdShaped, Installs
<1>2. ASSUME NEW s \in Slots, Starting(s) PROVE Came(u)
  <2>1. ASSUME NEW r \in Refs, NEW op \in Installs, BeginsInstall(s, r, op) PROVE Came(u)
    BY <1>2, <2>1
       DEF BeginsInstall, Begins, Came, Recorded, Linked, Shown, Late, Ended, Parted, CmdShaped,
         Installs
  <2>2. ASSUME NEW r \in Refs, BeginsUpdate(s, r) PROVE Came(u)
    BY <1>2, <2>2
       DEF BeginsUpdate, Begins, Came, Recorded, Linked, Shown, Late, Ended, Parted, CmdShaped,
         Installs
  <2>3. ASSUME NEW r \in Refs, BeginsUninstall(s, r) PROVE Came(u)
    BY <1>2, <2>3
       DEF BeginsUninstall, Begins, Came, Recorded, Linked, Shown, Late, Ended, Parted,
         CmdShaped, Installs
  <2>4. ASSUME NEW r \in Refs, BeginsCurrent(s, r) PROVE Came(u)
    BY <1>2, <2>4
       DEF BeginsCurrent, Begins, Came, Recorded, Linked, Shown, Late, Ended, Parted, CmdShaped,
         Installs
  <2>5. QED
    BY <1>2, <2>1, <2>2, <2>3, <2>4 DEF Starting
<1>3. ASSUME NEW s \in Slots, Ending(s) PROVE Came(u)
  BY <1>3
     DEF Ending, Aborts, RollsBack, MadeBase, Finishes, Ends, GoesTo, Goes, Keeps4, Others,
       Came, Recorded, Linked, Shown, Late, Ended, Parted, CmdShaped, Installs
<1>4. ASSUME NEW s \in Slots, Looking(s) PROVE Came(u)
  <2>1. ASSUME Pulls(s) PROVE Came(u)
    BY <1>4, <2>1
       DEF Pulls, GoesTo, Goes, Keeps4, Others, Came, Recorded, Linked, Shown, Late, Ended,
         Parted, CmdShaped, Installs
  <2>2. ASSUME Lists(s) PROVE Came(u)
    BY <1>4, <2>2
       DEF Lists, Deployments, GoesTo, Goes, Keeps4, Others, Came, Recorded, Linked, Shown,
         Late, Ended, Parted, CmdShaped, Installs
  <2>3. ASSUME Checks(s) PROVE Came(u)
    BY <1>4, <2>3
       DEF Checks, NextUndeploy, AfterUndeploy, GoesTo, Goes, Keeps4, Others, Came, Recorded,
         Linked, Shown, Late, Ended, Parted, CmdShaped, Installs
  <2>4. ASSUME Collects(s) PROVE Came(u)
    BY <1>4, <2>4
       DEF Collects, GoesTo, Goes, Keeps4, Others, Came, Recorded, Linked, Shown, Late, Ended,
         Parted, CmdShaped, Installs
  <2>5. ASSUME Looks(s) PROVE Came(u)
    BY <1>4, <2>5
       DEF Looks, GoesTo, Goes, Keeps4, Others, Came, Recorded, Linked, Shown, Late, Ended,
         Parted, CmdShaped, Installs
  <2>6. ASSUME NEW c \in Commits, Resolves(s, c) PROVE Came(u)
    BY <1>4, <2>6
       DEF Resolves, GoesTo, Goes, Keeps4, Others, Came, Recorded, Linked, Shown, Late, Ended,
         Parted, CmdShaped, Installs
  <2>7. QED
    BY <1>4, <2>1, <2>2, <2>3, <2>4, <2>5, <2>6 DEF Looking
<1>5. ASSUME NEW s \in Slots, Deploying(s) PROVE Came(u)
  <2>1. ASSUME MakesBase(s) \/ WritesOrigin(s) PROVE Came(u)
    BY <1>5, <2>1
       DEF MakesBase, WritesOrigin, GoesTo, Goes, Keeps4, Others, Came, Recorded, Linked, Shown,
         Late, Ended, Parted, CmdShaped, Installs
  <2>2. ASSUME NEW d \in Dirs, ChecksOut(s, d) \/ FillsIn(s, d) PROVE Came(u)
    BY <1>5, <2>2
       DEF ChecksOut, FillsIn, GoesTo, Goes, Keeps4, Others, Came, Recorded, Linked, Shown,
         Late, Ended, Parted, CmdShaped, Installs
  <2>3. QED
    BY <1>5, <2>1, <2>2 DEF Deploying
<1>6. ASSUME NEW s \in Slots, Linking(s) PROVE Came(u)
  <2>1. ASSUME Activates(s) PROVE Came(u)
    BY <1>6, <2>1
       DEF Activates, AfterDeploy, AfterUndeploy, GoesTo, Goes, Keeps4, Others, Came, Recorded,
         Linked, Shown, Late, Ended, Parted, CmdShaped, Installs
  <2>2. ASSUME UnlinksCurrent(s) \/ LinksCurrent(s) PROVE Came(u)
    BY <1>6, <2>2
       DEF UnlinksCurrent, LinksCurrent, GoesTo, Goes, Keeps4, Others, Came, Recorded, Linked,
         Shown, Late, Ended, Parted, CmdShaped, Installs
  <2>3. ASSUME Deactivates(s) \/ DropsCurrent(s) PROVE Came(u)
    BY <1>6, <2>3
       DEF Deactivates, DropsCurrent, GoesTo, Goes, Keeps4, Others, Came, Recorded, Linked,
         Shown, Late, Ended, Parted, CmdShaped, Installs
  <2>4. ASSUME NEW c \in Commits, Undeploys(s, c) PROVE Came(u)
    BY <1>6, <2>4
       DEF Undeploys, GoesTo, Goes, Keeps4, Others, Came, Recorded, Linked, Shown, Late, Ended,
         Parted, CmdShaped, Installs
  <2>5. QED
    BY <1>6, <2>1, <2>2, <2>3, <2>4 DEF Linking
<1>7. ASSUME NEW s \in Slots, Publishing(s) PROVE Came(u)
  BY <1>7
     DEF Publishing, Exports, Trims, AfterExports, GoesTo, Goes, Keeps4, Others, Came, Recorded,
       Linked, Shown, Late, Ended, Parted, CmdShaped, Installs
<1>8. ASSUME NEW s \in Slots, Discarding(s) PROVE Came(u)
  BY <1>8
     DEF Discarding, RemovesUndeployed, Cleans, RemovesTree, NextUndeploy, AfterUndeploy,
       MovesAway, GoesTo, Goes, Keeps4, Others, Came, Recorded, Linked, Shown, Late, Ended,
       Parted, CmdShaped, Installs
<1>9. ASSUME NEW s \in Slots, Wiping(s) PROVE Came(u)
  BY <1>9
     DEF Wiping, RemovesOrigin, RemovesActive, RemovesCheckout, RemovesBase, AfterRemoval,
       Removing, GoesTo, Goes, Keeps4, Others, Ends, Came, Recorded, Linked, Shown, Late, Ended,
       Parted, CmdShaped, Installs
<1>10. QED
  BY <1>1, <1>2, <1>3, <1>4, <1>5, <1>6, <1>7, <1>8, <1>9 DEF Effect

LEMMA InstallingStep ==
  ASSUME DirsUnique, GoneStays, TreesOK, ActiveOK, CmdShaped, AloneIsAlone, Parted, Installing,
         Effect
  PROVE  Installing'
<1>1. ASSUME NEW u \in Slots, cmd'[u].op \in Installs, cmd'[u].alone, cmd'[u].at \in Recorded
      PROVE  /\ cmd'[u].at = "activate" => deployed'[cmd'[u].ref][cmd'[u].want] \in whole'
             /\ \A r : r = cmd'[u].ref /\ cmd'[u].at \in Late => ActiveDir(r)' \in whole'
             /\ cmd'[u].op = "install" => cmd'[u].ref \in origin'
             /\ cmd'[u].ref \in AppRefs /\ cmd'[u].at \in Linked => current' = cmd'[u].ref
             /\ cmd'[u].ref \in AppRefs /\ cmd'[u].at \in Shown => ~suspect'
  <2>1. Came(u)
    BY <1>1, Comes
  <2>2. AloneInstall(u) /\ \A s \in Slots : s # u => cmd[s].at = "idle"
    BY <1>1, <2>1 DEF Came, AloneInstall, AloneIsAlone, At
  <2>3. /\ At(u, "activate") => deployed[cmd[u].ref][cmd[u].want] \in whole
        /\ cmd[u].at \in Late => ActiveDir(cmd[u].ref) \in whole
        /\ cmd[u].op = "install" /\ cmd[u].at \in Recorded => cmd[u].ref \in origin
        /\ cmd[u].ref \in AppRefs /\ cmd[u].at \in Linked => current = cmd[u].ref
        /\ cmd[u].ref \in AppRefs /\ cmd[u].at \in Shown => ~suspect
    BY <2>2 DEF Installing
  <2>4. Only(u)
    BY <2>2 DEF Only, At
  <2>5. cmd'[u].at = "activate" => deployed'[cmd'[u].ref][cmd'[u].want] \in whole'
    BY <2>3, <2>4, WantKept
  <2>6. \A r : r = cmd'[u].ref /\ cmd'[u].at \in Late => ActiveDir(r)' \in whole'
    BY <1>1, <2>3, <2>4, LateKept
  <2>7. ASSUME cmd'[u].op = "install" PROVE cmd'[u].ref \in origin'
    <3>1. CASE WritesOrigin(u)
      BY <2>1, <2>7, <3>1 DEF WritesOrigin, Came
    <3>2. CASE cmd[u].at \in Recorded
      BY <2>1, <2>2, <2>3, <2>7, <3>2, BaseChange
         DEF Came, SameBase, MakesBase, WritesOrigin, RemovesOrigin, RemovesBase, Removing,
           Recorded, Late
    <3>3. QED
      BY <2>1, <2>7, <3>1, <3>2 DEF Came
  <2>8. ASSUME cmd'[u].ref \in AppRefs, cmd'[u].at \in Linked PROVE current' = cmd'[u].ref
    <3>1. CASE LinksCurrent(u)
      BY <2>1, <3>1 DEF LinksCurrent, Came
    <3>2. CASE cmd[u].at \in Linked
      BY <2>1, <2>2, <2>3, <2>8, <3>2, LinksChange
         DEF Came, SameLinks, Activates, UnlinksCurrent, LinksCurrent, Deactivates, DropsCurrent,
           Undeploys, RemovesActive, Removing, Linked, Ended
    <3>3. QED
      BY <2>1, <2>8, <3>1, <3>2 DEF Came
  <2>9. ASSUME cmd'[u].ref \in AppRefs, cmd'[u].at \in Shown PROVE ~suspect'
    <3>1. CASE Exports(u)
      BY <3>1 DEF Exports
    <3>2. CASE cmd[u].at \in Shown
      <4>1. ~suspect
        BY <2>1, <2>3, <2>9, <3>2 DEF Came
      <4>2. ASSUME NEW s \in Slots, Aborts(s) \/ RollsBack(s) PROVE FALSE
        <5>1. s = u
          BY <2>2, <4>2 DEF Aborts, RollsBack, MadeBase
        <5>2. QED
          BY <1>1, <4>2, <5>1
             DEF Aborts, RollsBack, Ends, GoesTo, Goes, Installs, Recorded, Late
      <4>3. ASSUME NEW s \in Slots, Exports(s) \/ Removing(s) PROVE FALSE
        <5>1. s = u
          BY <2>2, <4>3 DEF Exports, Removing
        <5>2. QED
          BY <3>2, <4>3, <5>1 DEF Exports, Removing, Shown, Ended
      <4>4. QED
        BY <4>1, <4>2, <4>3, SuspectChange
    <3>3. QED
      BY <2>1, <2>9, <3>1, <3>2 DEF Came
  <2>10. QED
    BY <2>5, <2>6, <2>7, <2>8, <2>9
<1>2. QED
  BY <1>1 DEF Installing, AloneInstall, At, Recorded, Linked, Shown, Late, Ended

LEMMA DeliversStep ==
  ASSUME IInv, Parted, Installing, [Next]_vars PROVE Parted' /\ Installing'
<1>1. Effect
  BY Detailed DEF IInv, Types, Base
<1>2. QED
  BY <1>1, PartedStep, InstallingStep DEF IInv, Types, Trees

LEMMA DeliversFirst == ASSUME Init PROVE Parted /\ Installing
<1>1. \A s \in Slots : cmd[s].at = "idle" /\ cmd[s].op = "none"
  BY NoCommandOK DEF Init
<1>2. QED
  BY <1>1 DEF Parted, Installing, AloneInstall, Installs

-----------------------------------------------------------------------------
(* What the runs check.                                                    *)

\* The directory, the commands and the sandboxes have their types, an origin
\* is only recorded in a deploy directory that exists, and however commands
\* overlap, a checkout is deployed under one name or removed, never both.
THEOREM TypeCorrect == Spec => []TypeOK
<1>1. ASSUME IInv PROVE TypeOK
  <2>1. cmd \in [Slots ->
          [op : {"none", "install", "bundle", "update", "uninstall", "current"},
           ref : Refs \cup {NULL}, force : BOOLEAN, want : Commits \cup {NULL},
           prev : Commits \cup Dirs \cup {NULL}, todo : SUBSET (Commits \cup Dirs),
           alone : BOOLEAN, at : Places]]
    BY <1>1, Zenon DEF IInv, Types, CmdOK, Commands, Ops
  <2>2. app \in [Apps ->
          [at : {"none", "starting", "mounted", "locked", "unlocked"},
           ref : Refs \cup {NULL}, dir : Dirs \cup {NULL}, early : BOOLEAN]]
    BY <1>1, Zenon DEF IInv, Types, AppOK, Sandboxes, AppPlaces
  <2>3. base \subseteq Refs /\ origin \subseteq base /\ installed \subseteq Refs
    BY <1>1 DEF IInv, Types, BaseOK
  <2>4. /\ deployed \in [Refs -> [Commits -> Dirs \cup {NULL}]]
        /\ active \in [Refs -> Commits \cup {NULL}] /\ current \in AppRefs \cup {NULL}
    BY <1>1 DEF IInv, Types, DeployedOK, ActiveOK, CurrentOK
  <2>5. /\ exports \subseteq UNION {Exported[c] : c \in Commits}
        /\ removed \subseteq Dirs /\ whole \subseteq Dirs /\ spoiled \subseteq Dirs
        /\ suspect \in BOOLEAN
    BY <1>1 DEF IInv, Types, ExportsOK, TreesOK, SuspectOK
  <2>6. started \in 0 .. MaxCommands /\ trouble \in 0 .. MaxTrouble
    BY <1>1 DEF IInv, Types, CountsOK
  <2>7. DirsUnique /\ DirsApart
    BY <1>1 DEF IInv, Trees
  <2>8. QED
    BY <2>1, <2>2, <2>3, <2>4, <2>5, <2>6, <2>7, Zenon DEF TypeOK
<1>2. QED
  BY <1>1, Invariant, PTL

\* However commands overlap, fail and are killed: once all have ended and the
\* last to go through the exports was not cut short after another, what is
\* exported is what the active checkout of the current branch has.
THEOREM ExportsFollow == Spec => []ExportsFollowCurrent
<1>1. ASSUME IInv PROVE ExportsFollowCurrent
  <2>1. SUFFICES ASSUME \A s \in Slots : At(s, "idle"), ~suspect PROVE exports = Exposed
    BY DEF ExportsFollowCurrent
  <2>2. \A s \in Slots : ~Exporting(s) /\ ~At(s, "dangling")
    BY <2>1 DEF Exporting, At
  <2>3. Exposed \subseteq exports /\ exports \subseteq Exposed
    BY <1>1, <2>1, <2>2 DEF IInv, NoneMissing, NoneDangles
  <2>4. QED
    BY <2>3
<1>2. QED
  BY <1>1, Invariant, PTL

\* An app keeps the files it locked in time, whatever commands undeploy and
\* clean up beside it, unless they were deleted by force or with the deploy
\* directory.
THEOREM LockedKeep == Spec => []LockedKeepsFiles
<1>1. IInv => LockedKeepsFiles
  BY DEF IInv
<1>2. QED
  BY <1>1, Invariant, PTL

\* An uninstall that nothing ran beside and that came to its end has removed
\* its ref, whatever was left there before.
THEOREM UninstallLeaves == Spec => []UninstallLeavesNothing
<1>1. ASSUME IInv PROVE UninstallLeavesNothing
  <2>1. SUFFICES ASSUME NEW s \in Slots, AloneUninstall(s), At(s, "done")
                 PROVE  LET r == cmd[s].ref
                        IN  /\ r \notin base \cup origin /\ active[r] = NULL
                            /\ Deployments(r) = {} /\ current # r
                            /\ r \in AppRefs => exports \subseteq Exposed
    BY DEF UninstallLeavesNothing, AloneUninstall
  <2>2. /\ active[cmd[s].ref] = NULL /\ current # cmd[s].ref /\ cmd[s].ref \notin base
        /\ \A c \in Commits : deployed[cmd[s].ref][c] = NULL
    BY <1>1, <2>1 DEF IInv, Uninstalling, At, Ended
  <2>3. cmd[s].ref \notin origin
    BY <1>1, <2>2 DEF IInv, Types, BaseOK
  <2>4. Deployments(cmd[s].ref) = {}
    BY <2>2 DEF Deployments
  <2>5. cmd[s].ref \in AppRefs => exports \subseteq Exposed
    BY <1>1, <2>1 DEF IInv, Trimmed, At, Ended
  <2>6. QED
    BY <2>2, <2>3, <2>4, <2>5
<1>2. QED
  BY <1>1, Invariant, PTL

\* An install that nothing ran beside and that reports success leaves the ref
\* active and complete, its origin recorded, and an app current with exactly
\* its files exported, whatever failed or was killed there before.
THEOREM InstallDeliversAll == Spec => []InstallDelivers
<1>1. Init => IInv /\ Parted /\ Installing
  BY Initially, DeliversFirst
<1>2. IInv /\ Parted /\ Installing /\ [Next]_vars => IInv' /\ Parted' /\ Installing'
  BY Inductive, DeliversStep
<1>3. ASSUME IInv, Installing PROVE InstallDelivers
  <2>1. SUFFICES ASSUME NEW s \in Slots, AloneInstall(s), At(s, "done")
                 PROVE  LET r == cmd[s].ref
                        IN  /\ ActiveDir(r) \in whole
                            /\ cmd[s].op = "install" => r \in origin
                            /\ r \in AppRefs => current = r /\ exports = Exposed
    BY DEF InstallDelivers, AloneInstall
  <2>2. /\ ActiveDir(cmd[s].ref) \in whole
        /\ cmd[s].op = "install" => cmd[s].ref \in origin
        /\ cmd[s].ref \in AppRefs => current = cmd[s].ref /\ ~suspect
    BY <1>3, <2>1 DEF Installing, At, Recorded, Linked, Shown, Late, Ended
  <2>3. ~suspect => exports = Exposed
    <3>1. \A u \in Slots : ~Exporting(u) /\ ~At(u, "dangling")
      BY <1>3, <2>1 DEF IInv, AloneIsAlone, AloneInstall, Exporting, At
    <3>2. ~suspect => Exposed \subseteq exports /\ exports \subseteq Exposed
      BY <1>3, <3>1 DEF IInv, NoneMissing, NoneDangles
    <3>3. QED
      BY <3>2
  <2>4. QED
    BY <2>2, <2>3
<1>4. QED
  BY <1>1, <1>2, <1>3, PTL DEF Spec

\* Once installed, an app or a runtime can be run until an uninstall starts,
\* also while commands run, fail half way and are killed, as long as no two
\* of them work on the same ref at the same time.
THEOREM InstalledRuns == Spec /\ []OnePerRef => []InstalledStaysRunnable
<1>1. Init => IInv /\ Runs
  BY Initially, RunsFirst
<1>2. IInv /\ Runs /\ OnePerRef /\ [Next]_vars => IInv' /\ Runs'
  BY Inductive, RunsStep
<1>3. IInv /\ Runs => InstalledStaysRunnable
  BY DEF Runs
<1>4. QED
  BY <1>1, <1>2, <1>3, PTL DEF Spec

=============================================================================
