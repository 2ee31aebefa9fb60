----------------------------- MODULE XdgAppDir -----------------------------
(***************************************************************************)
(* An installation directory (lib/xdg-app-dir.c) under the commands that   *)
(* change it (app/xdg-app-builtins-install.c, -update.c, -uninstall.c,     *)
(* -make-current.c) and the apps that run from it.  No command takes a     *)
(* lock: commands overlap, fail half way, and are killed between any two   *)
(* changes to the file system.  An app resolves "active" twice (run and    *)
(* the helper's mounts) and locks its files only later, as pid 1 of the    *)
(* sandbox.                                                                *)
(*                                                                         *)
(* One application is modelled, a branch of it being a ref; other refs are *)
(* runtimes.  Refs already include the architecture.  Not here: the ostree *)
(* repository (a pull can bring any commit), the removal of empty          *)
(* directories, and the triggers.  The links exported for one version are  *)
(* made in one step, and the dangling ones are removed in another.         *)
(***************************************************************************)
EXTENDS Integers, FiniteSets

CONSTANTS
  Slots,       \* commands that can run at the same time
  Apps,        \* sandboxes that can run at the same time
  Refs,
  AppRefs,     \* the refs that are branches of the application
  Commits,
  Exported,    \* commit -> the names of the files its export directory has
  Dirs,        \* identities of checkout directories
  NULL,
  MaxCommands, \* bound on the commands started
  MaxTrouble   \* bound on the failures, the kills, and the starts beside others

ASSUME SlotsAssumption == IsFiniteSet(Slots)
ASSUME RefsAssumption == AppRefs \subseteq Refs
ASSUME NullAssumption == NULL \notin Refs \cup Commits \cup Dirs
ASSUME BoundsAssumption == MaxCommands \in Nat /\ MaxTrouble \in Nat

VARIABLES
  base,      \* the refs whose deploy directory exists
  origin,    \* the refs that have a file "origin"
  deployed,  \* ref -> commit -> the checkout of that name, or NULL
  active,    \* ref -> the commit the link "active" names, or NULL
  current,   \* the ref the link "current" names, or NULL
  exports,   \* the names in the exports directory
  removed,   \* the checkouts under .removed
  whole,     \* the checkouts that have all their files
  cmd,       \* slot -> the command that runs there
  app,       \* sandbox -> what it does
  started, trouble,
  \* History, for the properties.
  installed, \* refs that an install completed and no uninstall touched since
  suspect,   \* a command ended early after the last update of the exports
  spoiled    \* checkouts deleted by force or with their deploy directory

disk == <<base, origin, deployed, active, current, exports, removed, whole>>
history == <<installed, suspect, spoiled>>
vars == <<disk, cmd, app, started, trouble, history>>

NoCommand == [op |-> "none", ref |-> NULL, force |-> FALSE, want |-> NULL,
              prev |-> NULL, todo |-> {}, alone |-> FALSE, at |-> "idle"]

Installs == {"install", "bundle"}

NoApp == [at |-> "none", ref |-> NULL, dir |-> NULL, early |-> FALSE]

Init ==
  /\ base = {} /\ origin = {}
  /\ deployed = [r \in Refs |-> [c \in Commits |-> NULL]]
  /\ active = [r \in Refs |-> NULL]
  /\ current = NULL
  /\ exports = {}
  /\ removed = {} /\ whole = {}
  /\ cmd = [s \in Slots |-> NoCommand]
  /\ app = [a \in Apps |-> NoApp]
  /\ started = 0 /\ trouble = 0
  /\ installed = {} /\ suspect = FALSE /\ spoiled = {}

--------------------------------------------------------------------------
(* What the directory holds.                                               *)

\* xdg_app_dir_list_deployed: every checkout, finished or not.
Deployments(r) == {c \in Commits : deployed[r][c] # NULL}

\* The checkout the link "active" leads to, or NULL.
ActiveDir(r) == IF active[r] = NULL THEN NULL ELSE deployed[r][active[r]]

\* What current/active/export leads to: a link in the exports directory that
\* is not one of these names is dangling.
Exposed ==
  IF current = NULL THEN {}
  ELSE IF ActiveDir(current) \in whole THEN Exported[active[current]] ELSE {}

\* MUTANT of dir_is_locked: the .ref file cannot be opened.
NeverLocked(d) == FALSE

\* dir_is_locked: the lock of the .ref file of a checkout.
dir_is_locked(d) == \E a \in Apps : app[a].at = "locked" /\ app[a].dir = d

InUse == removed \cup {app[a].dir : a \in Apps}
         \cup {deployed[r][c] : r \in Refs, c \in Commits}
         \cup UNION {cmd[s].todo \cup {cmd[s].prev} : s \in Slots}

--------------------------------------------------------------------------
(* A command: where it is, and how it goes on or ends.                     *)

At(s, place) == cmd[s].at = place

Goto(s, place) == cmd' = [cmd EXCEPT ![s].at = place]

\* MUTANT of AfterDeploy: an install exports the app without making it current.
ExportsOnly(s) ==
  IF cmd[s].op = "bundle" \/ cmd[s].ref \in AppRefs THEN "export" ELSE "cleanup"

\* Where the handlers of a kind of ref go on: exports are an app's affair.
AfterDeploy(s) ==
  IF cmd[s].op = "bundle" \/ cmd[s].ref \in AppRefs THEN "unlink" ELSE "cleanup"
\* MUTANT of AfterUndeploy: an app is updated the way a runtime is.
UpdatedAsRuntime(s) == "done"
AfterUndeploy(s) == IF cmd[s].ref \in AppRefs THEN "export" ELSE "done"
AfterRemoval(s) == IF cmd[s].ref \in AppRefs THEN "export" ELSE "cleanup"
AfterExports(s) ==
  IF cmd[s].op \in Installs \cup {"uninstall"} THEN "cleanup" ELSE "done"

\* MUTANT of MadeBase: created_deploy_base is not asked.
MadeAnyBase(s) ==
  cmd[s].at \in {"origin", "deploy", "checkout", "fill", "activate",
                 "unlink", "link", "export", "dangling"}

\* The steps of an install at which created_deploy_base is set.
MadeBase(s) ==
  /\ cmd[s].op \in Installs
  /\ cmd[s].at \in {"origin", "deploy", "checkout", "fill", "activate",
                    "unlink", "link", "export", "dangling"}

\* An error: the handler returns FALSE, an install after it removed the deploy
\* directory it made.
Fails(s) ==
  /\ IF MadeBase(s) THEN Goto(s, "rollback")
                    ELSE cmd' = [cmd EXCEPT ![s] = NoCommand]
  /\ suspect' = TRUE
  /\ UNCHANGED <<disk, app, started, installed, spoiled>>

Error(s) == Fails(s) /\ UNCHANGED trouble

Fallible == {"pull", "mkdir", "origin", "deploy", "checkout", "fill", "activate",
             "link", "export", "dangling", "deactivate", "drop", "list",
             "undeploy", "move", "rmbase"}

\* One of the calls of a handler fails: the disk is full, the network is down.
CallFails(s) ==
  /\ cmd[s].at \in Fallible
  /\ trouble < MaxTrouble
  /\ trouble' = trouble + 1
  /\ Fails(s)

\* The command is killed, and leaves the directory as it is.
Killed(s) ==
  /\ cmd[s].at \notin {"idle", "done"}
  /\ trouble < MaxTrouble
  /\ trouble' = trouble + 1
  /\ cmd' = [cmd EXCEPT ![s] = NoCommand]
  /\ suspect' = TRUE
  /\ UNCHANGED <<disk, app, started, installed, spoiled>>

\* A user or an administrator starts a command.
Starts(s, op, r, force, place) ==
  /\ At(s, "idle")
  /\ started < MaxCommands
  /\ started' = started + 1
  /\ LET beside == {u \in Slots \ {s} : ~At(u, "idle")}
     IN trouble + Cardinality(beside) <= MaxTrouble /\ trouble' = trouble + Cardinality(beside)
  /\ cmd' = [t \in Slots |->
               IF t = s
                 THEN [NoCommand EXCEPT !.op = op, !.ref = r, !.force = force, !.at = place,
                         !.alone = \A u \in Slots \ {s} : At(u, "idle")]
                 ELSE [cmd[t] EXCEPT !.alone = FALSE]]
  /\ UNCHANGED <<disk, app, suspect, spoiled>>

install(s, r) ==
  r \notin base /\ Starts(s, "install", r, FALSE, "pull") /\ UNCHANGED installed

install_bundle(s, r) ==
  r \notin base /\ Starts(s, "bundle", r, FALSE, "pull") /\ UNCHANGED installed

update(s, r, force) ==
  r \in origin /\ Starts(s, "update", r, force, "pull") /\ UNCHANGED installed

uninstall(s, r, force) ==
  /\ Starts(s, "uninstall", r, force, "deactivate")
  /\ installed' = installed \ {r}

make_current_app(s, r) ==
  /\ r \in base \cap AppRefs
  /\ Starts(s, "current", r, FALSE, "unlink")
  /\ UNCHANGED installed

Returns(s) ==
  /\ At(s, "done")
  /\ cmd' = [cmd EXCEPT ![s] = NoCommand]
  /\ installed' = IF cmd[s].op \in Installs /\ cmd[s].alone
                    THEN installed \cup {cmd[s].ref} ELSE installed
  /\ UNCHANGED <<disk, app, started, trouble, suspect, spoiled>>

--------------------------------------------------------------------------
(* Deploying.                                                              *)

\* Every step of a command but its start and end.
Step(s, place) == At(s, place) /\ UNCHANGED <<app, started, trouble, installed>>

Pull(s) ==
  /\ Step(s, "pull")
  /\ Goto(s, IF cmd[s].op = "update" THEN "deploy" ELSE "mkdir")
  /\ UNCHANGED <<disk, suspect, spoiled>>

\* g_file_make_directory_with_parents fails if someone made it meanwhile.
MakeBase(s) ==
  \/ /\ At(s, "mkdir") /\ cmd[s].ref \in base
     /\ Error(s)
  \/ /\ Step(s, "mkdir") /\ cmd[s].ref \notin base
     /\ base' = base \cup {cmd[s].ref}
     /\ Goto(s, "origin")
     /\ UNCHANGED <<origin, deployed, active, current, exports, removed, whole, suspect, spoiled>>

\* A bundle need not name an origin.
WriteOrigin(s) ==
  \/ /\ At(s, "origin") /\ cmd[s].ref \notin base
     /\ Error(s)
  \/ /\ Step(s, "origin")
     /\ \/ cmd[s].ref \in base /\ origin' = origin \cup {cmd[s].ref}
        \/ cmd[s].op = "bundle" /\ UNCHANGED origin
     /\ Goto(s, "deploy")
     /\ UNCHANGED <<base, deployed, active, current, exports, removed, whole, suspect, spoiled>>

\* xdg_app_dir_deploy resolves the tip, or takes the commit it was given.  The
\* update has read "active" just before, and takes ALREADY_DEPLOYED, which any
\* directory of that name causes, for success.
Deploy(s) == \E c \in Commits :
  LET r == cmd[s].ref
      here == [cmd[s] EXCEPT !.want = c, !.prev = active[r]]
  IN \/ /\ At(s, "deploy") /\ deployed[r][c] # NULL /\ cmd[s].op \in Installs
        /\ Error(s)
     \/ /\ Step(s, "deploy")
        /\ deployed[r][c] # NULL => cmd[s].op = "update"
        /\ cmd' = [cmd EXCEPT ![s] =
                     [here EXCEPT !.at = IF deployed[r][c] # NULL THEN "done" ELSE "checkout"]]
        /\ UNCHANGED <<disk, suspect, spoiled>>

\* ostree_repo_checkout_tree makes the directory at its final name ...
Checkout(s) ==
  LET r == cmd[s].ref  c == cmd[s].want  free == Dirs \ InUse IN
  \/ /\ At(s, "checkout") /\ (r \notin base \/ deployed[r][c] # NULL)
     /\ Error(s)
  \/ /\ Step(s, "checkout") /\ r \in base /\ deployed[r][c] = NULL
     /\ free # {}
     /\ LET d == CHOOSE d \in free : TRUE
        IN deployed' = [deployed EXCEPT ![r][c] = d] /\ spoiled' = spoiled \ {d}
     /\ Goto(s, "fill")
     /\ UNCHANGED <<base, origin, active, current, exports, removed, whole, suspect>>

\* ... and then fills it; .ref and the rewritten exports come last.
FinishCheckout(s) ==
  LET d == deployed[cmd[s].ref][cmd[s].want] IN
  \/ /\ At(s, "fill") /\ d = NULL
     /\ Error(s)
  \/ /\ Step(s, "fill") /\ d # NULL
     /\ whole' = whole \cup {d}
     /\ Goto(s, "activate")
     /\ UNCHANGED <<base, origin, deployed, active, current, exports, removed, suspect, spoiled>>

\* xdg_app_dir_set_active, with a link made aside and renamed.
Activate(s) ==
  LET r == cmd[s].ref IN
  \/ /\ At(s, "activate") /\ r \notin base
     /\ Error(s)
  \/ /\ Step(s, "activate") /\ r \in base
     /\ active' = [active EXCEPT ![r] = cmd[s].want]
     /\ cmd' = [cmd EXCEPT ![s].todo = {cmd[s].prev} \ {NULL},
                           ![s].at =
                  IF cmd[s].op \in Installs THEN AfterDeploy(s)
                  ELSE IF cmd[s].prev # NULL THEN "undeploy" ELSE AfterUndeploy(s)]
     /\ UNCHANGED <<base, origin, deployed, current, exports, removed, whole, suspect, spoiled>>

\* xdg_app_dir_make_current_ref: the link is deleted, then made again.  It
\* asserts that the ref is an app's, which the bundle of a runtime is not.
UnlinkCurrent(s) ==
  \/ /\ Step(s, "unlink") /\ cmd[s].ref \in AppRefs
     /\ current' = NULL
     /\ Goto(s, "link")
     /\ UNCHANGED <<base, origin, deployed, active, exports, removed, whole, suspect, spoiled>>
  \/ /\ Step(s, "unlink") /\ cmd[s].ref \notin AppRefs
     /\ cmd' = [cmd EXCEPT ![s] = NoCommand]
     /\ suspect' = TRUE
     /\ UNCHANGED <<disk, spoiled>>

LinkCurrent(s) ==
  \/ /\ At(s, "link") /\ current # NULL
     /\ Error(s)
  \/ /\ Step(s, "link") /\ current = NULL
     /\ current' = cmd[s].ref
     /\ Goto(s, "export")
     /\ UNCHANGED <<base, origin, deployed, active, exports, removed, whole, suspect, spoiled>>

--------------------------------------------------------------------------
(* The exports directory: xdg_app_dir_update_exports.                      *)

ExportFiles(s) ==
  /\ Step(s, "export")
  /\ exports' = exports \cup Exposed
  /\ suspect' = FALSE
  /\ Goto(s, "dangling")
  /\ UNCHANGED <<base, origin, deployed, active, current, removed, whole, spoiled>>

RemoveDangling(s) ==
  /\ Step(s, "dangling")
  /\ exports' = exports \cap Exposed
  /\ Goto(s, AfterExports(s))
  /\ UNCHANGED <<base, origin, deployed, active, current, removed, whole, suspect, spoiled>>

--------------------------------------------------------------------------
(* Undeploying.  todo holds the checkouts still to undeploy, or to clean   *)
(* up, and prev the one at hand.                                           *)

Deactivate(s) ==
  /\ Step(s, "deactivate")
  /\ active' = [active EXCEPT ![cmd[s].ref] = NULL]
  /\ Goto(s, IF cmd[s].ref \in AppRefs THEN "drop" ELSE "list")
  /\ UNCHANGED <<base, origin, deployed, current, exports, removed, whole, suspect, spoiled>>

\* MUTANT of DropCurrent: the link stays.
KeepCurrent(s) ==
  /\ Step(s, "drop")
  /\ Goto(s, "list")
  /\ UNCHANGED <<disk, suspect, spoiled>>

DropCurrent(s) ==
  /\ Step(s, "drop")
  /\ current' = IF current = cmd[s].ref THEN NULL ELSE current
  /\ Goto(s, "list")
  /\ UNCHANGED <<base, origin, deployed, active, exports, removed, whole, suspect, spoiled>>

ListDeployed(s) ==
  /\ Step(s, "list")
  /\ LET found == Deployments(cmd[s].ref)
     IN cmd' = [cmd EXCEPT ![s].todo = found,
                           ![s].at = IF found = {} THEN "rmbase" ELSE "undeploy"]
  /\ UNCHANGED <<disk, suspect, spoiled>>

\* What "active" may name once the checkout of c goes: an active one gives way
\* to any other, as the directory lists them in no order.
Successors(r, c) ==
  IF active[r] # c THEN {active[r]}
  ELSE IF Deployments(r) \ {c} = {} THEN {NULL} ELSE Deployments(r) \ {c}

\* The head of xdg_app_dir_undeploy.
Undeploy(s) == \E c \in cmd[s].todo :
  LET r == cmd[s].ref IN
  \/ /\ At(s, "undeploy") /\ deployed[r][c] = NULL
     /\ Error(s)
  \/ /\ Step(s, "undeploy") /\ deployed[r][c] # NULL
     /\ \E o \in Successors(r, c) : active' = [active EXCEPT ![r] = o]
     /\ cmd' = [cmd EXCEPT ![s].todo = @ \ {c}, ![s].prev = c, ![s].at = "move"]
     /\ UNCHANGED <<base, origin, deployed, current, exports, removed, whole, suspect, spoiled>>

\* The checkout is moved out of reach first, its lock is looked at after.
MoveToRemoved(s) ==
  LET r == cmd[s].ref  d == deployed[r][cmd[s].prev] IN
  \/ /\ At(s, "move") /\ d = NULL
     /\ Error(s)
  \/ /\ Step(s, "move") /\ d # NULL
     /\ deployed' = [deployed EXCEPT ![r][cmd[s].prev] = NULL]
     /\ removed' = removed \cup {d}
     /\ cmd' = [cmd EXCEPT ![s].prev = d, ![s].at = "check"]
     /\ UNCHANGED <<base, origin, active, current, exports, whole, suspect, spoiled>>

NextUndeploy(s) ==
  IF cmd[s].op = "update" THEN AfterUndeploy(s)
  ELSE IF cmd[s].todo = {} THEN "rmbase" ELSE "undeploy"

CheckLock(s) ==
  /\ Step(s, "check")
  /\ Goto(s, IF cmd[s].force \/ ~dir_is_locked(cmd[s].prev) THEN "rmtree" ELSE NextUndeploy(s))
  /\ UNCHANGED <<disk, suspect, spoiled>>

\* gs_shutil_rm_rf of a checkout under .removed; it may fail part of the way,
\* which is only worth a warning.
RemoveTree(s, d) ==
  /\ whole' = whole \ {d}
  /\ \/ removed' = removed \ {d} /\ UNCHANGED trouble
     \/ trouble < MaxTrouble /\ trouble' = trouble + 1 /\ UNCHANGED removed
  /\ UNCHANGED <<base, origin, deployed, active, current, exports, app, started, installed, suspect>>

RemoveUndeployed(s) ==
  /\ At(s, "rmtree")
  /\ RemoveTree(s, cmd[s].prev)
  /\ spoiled' = IF cmd[s].force THEN spoiled \cup {cmd[s].prev} ELSE spoiled
  /\ Goto(s, NextUndeploy(s))

\* gs_shutil_rm_rf of a deploy directory, one entry after the other: what is
\* in it is not asked for its lock.
RemoveBase(s) ==
  LET r == cmd[s].ref IN
  /\ Step(s, "rmbase") \/ Step(s, "rollback")
  /\ \/ /\ r \in origin
        /\ origin' = origin \ {r}
        /\ UNCHANGED <<base, deployed, active, whole, spoiled, cmd>>
     \/ /\ active[r] # NULL
        /\ active' = [active EXCEPT ![r] = NULL]
        /\ UNCHANGED <<base, origin, deployed, whole, spoiled, cmd>>
     \/ \E c \in Deployments(r) :
          /\ deployed' = [deployed EXCEPT ![r][c] = NULL]
          /\ whole' = whole \ {deployed[r][c]}
          /\ spoiled' = spoiled \cup {deployed[r][c]}
          /\ UNCHANGED <<base, origin, active, cmd>>
     \/ /\ r \notin origin /\ active[r] = NULL /\ Deployments(r) = {}
        /\ base' = base \ {r}
        /\ cmd' = [cmd EXCEPT ![s] =
                     IF At(s, "rmbase") THEN [@ EXCEPT !.at = AfterRemoval(s)] ELSE NoCommand]
        /\ UNCHANGED <<origin, deployed, active, whole, spoiled>>
  /\ suspect' = (suspect \/ At(s, "rollback"))
  /\ UNCHANGED <<current, exports, removed>>

\* xdg_app_dir_cleanup_removed looks at each checkout it finds, once.
Cleanup(s) ==
  /\ Step(s, "cleanup")
  /\ cmd' = [cmd EXCEPT ![s].todo = removed, ![s].at = "look"]
  /\ UNCHANGED <<disk, suspect, spoiled>>

LookAtRemoved(s) ==
  /\ Step(s, "look")
  /\ \/ /\ cmd[s].todo = {}
        /\ Goto(s, "done")
     \/ \E d \in cmd[s].todo :
          cmd' = [cmd EXCEPT ![s].todo = @ \ {d}, ![s].prev = d,
                             ![s].at = IF dir_is_locked(d) THEN "look" ELSE "clean"]
  /\ UNCHANGED <<disk, suspect, spoiled>>

CleanRemoved(s) ==
  /\ At(s, "clean")
  /\ RemoveTree(s, cmd[s].prev)
  /\ Goto(s, "look")
  /\ UNCHANGED spoiled

--------------------------------------------------------------------------
(* The apps.                                                               *)

AppStep == UNCHANGED <<disk, cmd, started, trouble, history>>

\* xdg_app_dir_get_if_deployed hands out the path of "active" unresolved.
RunApp(a, r) ==
  /\ app[a].at = "none" /\ ActiveDir(r) # NULL
  /\ app' = [app EXCEPT ![a] = [NoApp EXCEPT !.at = "starting", !.ref = r]]
  /\ AppStep

\* The helper mounts what the path leads to by now, or dies.
MountFiles(a) ==
  LET d == ActiveDir(app[a].ref) IN
  /\ app[a].at = "starting"
  /\ app' = [app EXCEPT ![a] =
               IF d = NULL THEN NoApp ELSE [@ EXCEPT !.at = "mounted", !.dir = d]]
  /\ AppStep

\* lock_all_dirs: no .ref, no lock, and the app runs all the same.
LockFiles(a) ==
  /\ app[a].at = "mounted"
  /\ app' = [app EXCEPT ![a].at = IF app[a].dir \in whole THEN "locked" ELSE "unlocked",
                        ![a].early = app[a].dir \notin removed]
  /\ AppStep

AppExits(a) ==
  /\ app[a].at \in {"locked", "unlocked"}
  /\ app' = [app EXCEPT ![a] = NoApp]
  /\ AppStep

Command(s) ==
  \/ \E r \in Refs : install(s, r) \/ install_bundle(s, r) \/ make_current_app(s, r)
  \/ \E r \in Refs, force \in BOOLEAN : update(s, r, force) \/ uninstall(s, r, force)
  \/ Pull(s) \/ MakeBase(s) \/ WriteOrigin(s)
  \/ Deploy(s) \/ Checkout(s) \/ FinishCheckout(s) \/ Activate(s)
  \/ UnlinkCurrent(s) \/ LinkCurrent(s) \/ ExportFiles(s) \/ RemoveDangling(s)
  \/ Deactivate(s) \/ DropCurrent(s) \/ ListDeployed(s)
  \/ Undeploy(s) \/ MoveToRemoved(s) \/ CheckLock(s) \/ RemoveUndeployed(s) \/ RemoveBase(s)
  \/ Cleanup(s) \/ LookAtRemoved(s) \/ CleanRemoved(s)
  \/ CallFails(s) \/ Killed(s) \/ Returns(s)

Sandbox(a) ==
  \/ \E r \in Refs : RunApp(a, r)
  \/ MountFiles(a) \/ LockFiles(a) \/ AppExits(a)

Next == (\E s \in Slots : Command(s)) \/ (\E a \in Apps : Sandbox(a))

Spec == Init /\ [][Next]_vars

--------------------------------------------------------------------------
(* Properties.                                                             *)

Places == Fallible \cup {"idle", "unlink", "check", "rmtree", "rollback", "cleanup",
                         "look", "clean", "done"}

\* A checkout has one name at most ...
DirsUnique ==
  \A r, q \in Refs, c, e \in Commits :
    deployed[r][c] # NULL /\ deployed[r][c] = deployed[q][e] => r = q /\ c = e

\* ... and none once it is under .removed.
DirsApart == \A r \in Refs, c \in Commits : deployed[r][c] \notin removed

\* Every variable has its type, an origin lies in a deploy directory that
\* exists, and every checkout is in one place.
TypeOK ==
  /\ base \subseteq Refs /\ origin \subseteq base
  /\ deployed \in [Refs -> [Commits -> Dirs \cup {NULL}]]
  /\ active \in [Refs -> Commits \cup {NULL}]
  /\ current \in AppRefs \cup {NULL}
  /\ exports \subseteq UNION {Exported[c] : c \in Commits}
  /\ removed \subseteq Dirs /\ whole \subseteq Dirs /\ spoiled \subseteq Dirs
  /\ installed \subseteq Refs /\ suspect \in BOOLEAN
  /\ started \in 0 .. MaxCommands /\ trouble \in 0 .. MaxTrouble
  /\ cmd \in [Slots ->
       [op : {"none", "install", "bundle", "update", "uninstall", "current"},
        ref : Refs \cup {NULL}, force : BOOLEAN, want : Commits \cup {NULL},
        prev : Commits \cup Dirs \cup {NULL}, todo : SUBSET (Commits \cup Dirs),
        alone : BOOLEAN, at : Places]]
  /\ app \in [Apps ->
       [at : {"none", "starting", "mounted", "locked", "unlocked"},
        ref : Refs \cup {NULL}, dir : Dirs \cup {NULL}, early : BOOLEAN]]
  /\ DirsUnique /\ DirsApart

\* Once installed, an app can be run until an uninstall starts: at every
\* instant "active" leads to a complete checkout, also while an update runs,
\* and after it failed or was killed anywhere.
InstalledStaysRunnable == \A r \in installed : ActiveDir(r) \in whole

\* When no command runs, and none ended early since the exports were last
\* gone through, the exports are those of the active checkout of the current
\* branch: none is missing and none dangles.
ExportsFollowCurrent ==
  (\A s \in Slots : At(s, "idle")) /\ ~suspect => exports = Exposed

\* An app that had locked its files before they were moved away keeps them
\* until it exits, unless the removal was forced, or the deploy directory of
\* a failed or uninstalled ref was deleted with what was in it.
LockedKeepsFiles == \A a \in Apps :
  app[a].at = "locked" /\ app[a].early /\ app[a].dir \notin spoiled => app[a].dir \in whole

\* An uninstall that came to its end leaves nothing of its ref, whatever
\* failures and kills went before: no deploy directory, no checkout, no
\* link to it and no export of it.
UninstallLeavesNothing == \A s \in Slots :
  LET r == cmd[s].ref IN
  cmd[s].op = "uninstall" /\ At(s, "done") /\ cmd[s].alone =>
    /\ r \notin base \cup origin /\ active[r] = NULL /\ Deployments(r) = {}
    /\ current # r
    /\ r \in AppRefs => exports \subseteq Exposed

\* An install that reports success, with no other command beside it, delivers
\* whatever failures and kills went before: "active" leads to a complete
\* checkout, updates will find the origin, and an app is the current one with
\* exactly its files exported, nothing of an earlier attempt among them.
InstallDelivers == \A s \in Slots :
  LET r == cmd[s].ref IN
  cmd[s].op \in Installs /\ At(s, "done") /\ cmd[s].alone =>
    /\ ActiveDir(r) \in whole
    /\ cmd[s].op = "install" => r \in origin
    /\ r \in AppRefs => current = r /\ exports = Exposed

\* What an update that reports success asked for is active.  Does not hold: a
\* checkout that a failed update left makes the next ones believe it deployed
\* (doc/xdg-app-update-app.xml: "Normally, this command updates the application
\* to the tip of its branch.").
UpdateDelivers == \A s \in Slots :
  cmd[s].op = "update" /\ At(s, "done") /\ cmd[s].alone => active[cmd[s].ref] = cmd[s].want
=============================================================================
