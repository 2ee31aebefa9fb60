---------------------------- MODULE XdgAppHelper ----------------------------
(***************************************************************************)
(* The processes of one sandbox, from app/xdg-app-builtins-run.c on: the   *)
(* launcher, which starts a D-Bus proxy (dbus-proxy/dbus-proxy.c), waits   *)
(* until it listens, and becomes the helper (lib/xdg-app-helper.c); the    *)
(* helper, which clones pid 1 of the sandbox and stays as its monitor;     *)
(* pid 1, which sets the sandbox up, forks the child that becomes the app, *)
(* locks the directories of the app and reaps; and whatever the app forks. *)
(*                                                                         *)
(* What ties them together are file descriptors: the proxy ends when no    *)
(* process has the read end of its pipe any more, pid 1 tells the monitor  *)
(* the exit status through an eventfd, and the locks last as long as pid 1 *)
(* has the locked files open.  Mounts, namespaces, seccomp and the         *)
(* environment are not here; a failure among them is a failing Setup.  The *)
(* specification is HelperSpec, as XdgAppRunProofs also extends the module *)
(* of the contexts that run starts from.                                   *)
(***************************************************************************)
EXTENDS Integers

CONSTANTS
  Statuses,   \* what an app may exit with
  MaxOthers,  \* bound on the processes besides the app's first that run at once
  MaxTrouble  \* bound on the processes killed or stopped

ASSUME StatusesAssumption == Statuses \subseteq 0 .. 255 /\ 1 \in Statuses
ASSUME BoundsAssumption == MaxOthers \in Nat /\ MaxTrouble \in Nat

VARIABLES
  main,    \* the launcher, later the helper, later the monitor
  proxy, init, child,
  fds,     \* process -> the descriptors it has open
  synced,  \* the bytes in the pipe of the proxy
  event,   \* the value of event_fd
  pending, \* the signals pending for the monitor
  others,  \* the processes the app has left running
  trouble,
  \* History, for the properties.
  seen     \* that the proxy listened, that pid 1 was stopped

inside == <<init, child, others>>
signals == <<event, pending>>
counts == <<trouble, seen>>
helper_vars == <<main, proxy, fds, synced, inside, signals, counts>>

Processes == {"main", "proxy", "init", "child"}
Descriptors == {"sync read", "sync write", "event", "lock"}

Gone == {"exited", "killed", "hung up"}
MainStates == {"run", "spawned", "syncing", "helper", "cloned", "monitor", "reads event",
               "reads signal", "exited", "killed"}
ChildStates == {"none", "setup", "starts", "runs", "ended", "reaped", "gone"}

HelperInit ==
  /\ main = [at |-> "run", status |-> 0]
  /\ proxy = "none" /\ init = "none"
  /\ child = [at |-> "none", status |-> 0]
  /\ fds = [p \in Processes |-> {}]
  /\ synced = 0 /\ event = 0 /\ pending = {}
  /\ others = 0 /\ trouble = 0
  /\ seen = {}

Readers == {p \in Processes : "sync read" \in fds[p]}
Writers == {p \in Processes : "sync write" \in fds[p]}

MainAt(from, to) == main.at = from /\ main' = [main EXCEPT !.at = to]

\* What a step of the launcher or monitor, of pid 1, of the app or of the
\* proxy leaves alone.
MainSteps  == UNCHANGED <<proxy, inside, counts>>
InitSteps  == UNCHANGED <<main, proxy, synced, counts>>
AppSteps   == UNCHANGED <<main, proxy, init, synced, signals, counts>>
ProxySteps == UNCHANGED <<main, inside, signals, trouble>>

\* exit closes every descriptor.
MainExits(status) ==
  /\ main' = [at |-> "exited", status |-> status]
  /\ fds' = [fds EXCEPT !["main"] = {}]

\* The process keeps the descriptors it names (0 to 2 are not counted here).
close_extra_fds(process, kept) == [fds EXCEPT ![process] = @ \cap kept]

--------------------------------------------------------------------------
(* xdg_app_builtin_run.                                                    *)

\* g_spawn_async closes what dbus_spawn_child_setup does not keep.
SpawnProxy ==
  /\ MainAt("run", "spawned")
  /\ proxy' = "starting"
  /\ fds' = [fds EXCEPT !["main"] = {"sync read", "sync write"},
                        !["proxy"] = {"sync write"}]
  /\ UNCHANGED <<synced, inside, signals, counts>>

\* An error before the proxy runs, or in its start.
RunFails ==
  /\ main.at = "run"
  /\ MainExits(1)
  /\ MainSteps /\ UNCHANGED <<synced, signals>>

CloseWriteEnd ==
  /\ MainAt("spawned", "syncing")
  /\ fds' = [fds EXCEPT !["main"] = @ \ {"sync write"}]
  /\ MainSteps /\ UNCHANGED <<synced, signals>>

\* read returns the byte, or nothing once nobody can write it.
SyncWithProxy ==
  /\ main.at = "syncing"
  /\ \/ /\ synced > 0
        /\ main' = [main EXCEPT !.at = "helper"]
        /\ synced' = synced - 1
        /\ UNCHANGED fds
     \/ /\ synced = 0 /\ Writers = {}
        /\ MainExits(1)
        /\ UNCHANGED synced
  /\ MainSteps /\ UNCHANGED signals

\* An unrestricted session bus with a socket in the file system needs no proxy.
RunWithoutProxy ==
  /\ MainAt("run", "helper")
  /\ MainSteps /\ UNCHANGED <<fds, synced, signals>>

--------------------------------------------------------------------------
(* The helper before and after it clones pid 1.                            *)

HelperFails ==
  /\ main.at = "helper"
  /\ MainExits(1)
  /\ MainSteps /\ UNCHANGED <<synced, signals>>

\* SIGCHLD is blocked before, so that none is missed.
Clone ==
  /\ MainAt("helper", "cloned")
  /\ init' = "setup"
  /\ fds' = [fds EXCEPT !["main"] = @ \cup {"event"}, !["init"] = fds["main"] \cup {"event"}]
  /\ UNCHANGED <<proxy, child, synced, others, signals, counts>>

MonitorCloses ==
  /\ MainAt("cloned", "monitor")
  /\ fds' = close_extra_fds("main", {"event"})
  /\ MainSteps /\ UNCHANGED <<synced, signals>>

MonitorPolls ==
  /\ event # 0 \/ pending # {}
  /\ MainAt("monitor", "reads event")
  /\ MainSteps /\ UNCHANGED <<fds, synced, signals>>

ReadEvent ==
  /\ main.at = "reads event"
  /\ IF event # 0
       THEN MainExits(event - 1) /\ event' = 0
       ELSE main' = [main EXCEPT !.at = "reads signal"] /\ UNCHANGED <<event, fds>>
  /\ MainSteps /\ UNCHANGED <<synced, pending>>

ReadSignal ==
  /\ main.at = "reads signal"
  /\ IF "SIGCHLD" \in pending
       THEN MainExits(1) /\ pending' = {}
       ELSE main' = [main EXCEPT !.at = "monitor"] /\ UNCHANGED <<pending, fds>>
  /\ MainSteps /\ UNCHANGED <<synced, event>>

\* MUTANT of monitor_child: the signal is read first.
SignalFirst ==
  \/ MonitorPolls
  \/ /\ main.at = "reads event"
     /\ IF "SIGCHLD" \in pending
          THEN MainExits(1) /\ pending' = {} /\ UNCHANGED event
          ELSE IF event # 0
          THEN MainExits(event - 1) /\ event' = 0 /\ UNCHANGED pending
          ELSE main' = [main EXCEPT !.at = "monitor"] /\ UNCHANGED <<fds, signals>>
     /\ UNCHANGED <<proxy, synced, inside, counts>>

monitor_child == MonitorPolls \/ ReadEvent \/ ReadSignal

--------------------------------------------------------------------------
(* pid 1.  When it ends the kernel ends the sandbox with it.               *)

InitEnds ==
  /\ init' = "exited"
  /\ child' = IF child.at \in {"none", "reaped"} THEN child ELSE [child EXCEPT !.at = "gone"]
  /\ others' = 0
  /\ fds' = [fds EXCEPT !["init"] = {}, !["child"] = {}]
  /\ pending' = {"SIGCHLD"}

SetupFails ==
  /\ init \in {"setup", "forked"}
  /\ InitEnds
  /\ InitSteps /\ UNCHANGED event

Fork ==
  /\ init = "setup" /\ init' = "forked"
  /\ child' = [child EXCEPT !.at = "setup"]
  /\ fds' = [fds EXCEPT !["child"] = fds["init"]]
  /\ InitSteps /\ UNCHANGED <<others, signals>>

\* MUTANT of InitCloses: sync_fd is not kept.
ClosesSync ==
  /\ init = "forked" /\ init' = "closed"
  /\ fds' = close_extra_fds("init", {"event"})
  /\ InitSteps /\ UNCHANGED <<child, others, signals>>

InitCloses ==
  /\ init = "forked" /\ init' = "closed"
  /\ fds' = close_extra_fds("init", {"event", "sync read"})
  /\ InitSteps /\ UNCHANGED <<child, others, signals>>

\* For directories that have a file to lock; without one nothing is locked.
lock_all_dirs ==
  /\ init = "closed" /\ init' = "waits"
  /\ fds' = [fds EXCEPT !["init"] = @ \cup {"lock"}]
  /\ InitSteps /\ UNCHANGED <<child, others, signals>>

\* A status of 256 stands for an end by a signal.
initial_exit_status == IF child.status = 256 THEN 1 ELSE child.status

\* MUTANT of ReapChild: only an exit is reported.
ReportsExits ==
  /\ init = "waits" /\ child.at = "ended"
  /\ child' = [child EXCEPT !.at = "reaped"]
  /\ event' = event + (IF child.status = 256 THEN 0 ELSE initial_exit_status + 1)
  /\ InitSteps /\ UNCHANGED <<init, fds, pending, others>>

ReapChild ==
  /\ init = "waits" /\ child.at = "ended"
  /\ child' = [child EXCEPT !.at = "reaped"]
  /\ event' = event + initial_exit_status + 1
  /\ InitSteps /\ UNCHANGED <<init, fds, pending, others>>

\* wait fails with ECHILD.
NoneLeft ==
  /\ init = "waits" /\ child.at = "reaped" /\ others = 0
  /\ InitEnds
  /\ InitSteps /\ UNCHANGED event

do_init == ReapChild \/ NoneLeft

--------------------------------------------------------------------------
(* The first process of the app, and the ones it leaves.                   *)

ChildEnds(status) ==
  /\ child' = [at |-> "ended", status |-> status]
  /\ fds' = [fds EXCEPT !["child"] = {}]

ExecFails ==
  /\ child.at \in {"setup", "starts"}
  /\ ChildEnds(1)
  /\ AppSteps /\ UNCHANGED others

ChildCloses ==
  /\ child.at = "setup"
  /\ child' = [child EXCEPT !.at = "starts"]
  /\ fds' = [fds EXCEPT !["child"] = @ \ {"sync read"}]
  /\ AppSteps /\ UNCHANGED others

\* event_fd and the locked files are closed by exec.
Exec ==
  /\ child.at = "starts"
  /\ child' = [child EXCEPT !.at = "runs"]
  /\ fds' = [fds EXCEPT !["child"] = @ \ {"event", "lock"}]
  /\ AppSteps /\ UNCHANGED others

AppForks ==
  /\ child.at = "runs" \/ others > 0
  /\ others < MaxOthers
  /\ others' = others + 1
  /\ AppSteps /\ UNCHANGED <<child, fds>>

\* Reaped by its parent, or by pid 1, which only waits again.
OtherEnds ==
  /\ others > 0
  /\ others' = others - 1
  /\ AppSteps /\ UNCHANGED <<child, fds>>

AppEnds ==
  /\ child.at = "runs"
  /\ \E status \in Statuses \cup {256} : ChildEnds(status)
  /\ AppSteps /\ UNCHANGED others

--------------------------------------------------------------------------
(* The proxy.                                                              *)

ProxyEnds(how) ==
  /\ proxy' = how
  /\ fds' = [fds EXCEPT !["proxy"] = {}]

ProxyFails ==
  /\ proxy = "starting"
  /\ ProxyEnds("exited")
  /\ ProxySteps /\ UNCHANGED <<synced, seen>>

ProxyListens ==
  /\ proxy = "starting" /\ proxy' = "listens"
  /\ synced' = synced + 1 /\ seen' = seen \cup {"listened"}
  /\ ProxySteps /\ UNCHANGED fds

sync_closed_cb ==
  /\ proxy = "listens" /\ Readers = {}
  /\ ProxyEnds("hung up")
  /\ ProxySteps /\ UNCHANGED <<synced, seen>>

--------------------------------------------------------------------------
(* Signals from outside.                                                   *)

KillMain ==
  /\ main.at \notin Gone
  /\ main' = [main EXCEPT !.at = "killed"]
  /\ fds' = [fds EXCEPT !["main"] = {}]
  /\ UNCHANGED <<proxy, synced, seen, inside, signals>>

KillInit ==
  /\ init \notin {"none", "exited"}
  /\ InitEnds
  /\ UNCHANGED <<main, proxy, synced, event, seen>>

KillProxy ==
  /\ proxy \in {"starting", "listens"}
  /\ ProxyEnds("killed")
  /\ UNCHANGED <<main, synced, seen, inside, signals>>

\* A parent is sent SIGCHLD when its child stops, too.
StopInit ==
  /\ init \notin {"none", "exited"}
  /\ pending' = {"SIGCHLD"} /\ seen' = seen \cup {"stopped"}
  /\ UNCHANGED <<main, proxy, fds, synced, event, inside>>

Trouble ==
  /\ trouble < MaxTrouble /\ trouble' = trouble + 1
  /\ KillMain \/ KillInit \/ KillProxy \/ StopInit

--------------------------------------------------------------------------
Launch == SpawnProxy \/ CloseWriteEnd \/ SyncWithProxy \/ RunWithoutProxy \/ Clone \/ MonitorCloses
ProxyRuns == ProxyListens \/ sync_closed_cb
InitRuns == Fork \/ InitCloses \/ lock_all_dirs \/ do_init
ChildStarts == ChildCloses \/ Exec
Fails == RunFails \/ HelperFails \/ ProxyFails \/ SetupFails \/ ExecFails
AppRuns == AppForks \/ OtherEnds \/ AppEnds

HelperNext == Launch \/ monitor_child \/ ProxyRuns \/ InitRuns \/ ChildStarts \/ Fails \/ AppRuns \/ Trouble

\* Each of the processes gets to run.  The app may run for ever, and so may
\* what it leaves behind.
Fairness ==
  /\ WF_helper_vars(Launch) /\ WF_helper_vars(monitor_child) /\ WF_helper_vars(ProxyRuns)
  /\ WF_helper_vars(InitRuns) /\ WF_helper_vars(ChildStarts)

HelperSpec == HelperInit /\ [][HelperNext]_helper_vars /\ Fairness

--------------------------------------------------------------------------
(* Properties.                                                             *)

HelperTypeOK ==
  /\ main \in [at : MainStates, status : 0 .. 255]
  /\ proxy \in {"none", "starting", "listens"} \cup Gone
  /\ init \in {"none", "setup", "forked", "closed", "waits", "exited"}
  /\ child \in [at : ChildStates, status : 0 .. 256]
  /\ fds \in [Processes -> SUBSET Descriptors]
  /\ synced \in 0 .. 1 /\ event \in 0 .. 256 /\ pending \subseteq {"SIGCHLD"}
  /\ others \in 0 .. MaxOthers /\ trouble \in 0 .. MaxTrouble
  /\ seen \subseteq {"listened", "stopped"}

\* A helper that exits by itself after it cloned pid 1 exits with the status
\* of the app's first process, 1 for a signal, even when pid 1 ends at the
\* same time.  Only if pid 1 ended before it could tell, or was stopped, it
\* exits with 1 whatever the app does.
StatusReported ==
  main.at = "exited" /\ init # "none" =>
    \/ child.at = "reaped" /\ main.status = initial_exit_status
    \/ main.status = 1 /\ ("stopped" \in seen \/ child.at \in {"none", "gone"})

AppLives == child.at = "runs" \/ others > 0

\* What keeps the sandbox in use lasts as long as it: from the moment pid 1
\* waits, the locks are held while a process of the app lives; the proxy ends
\* for want of a sandbox only when none is there or on its way; an app that
\* has a proxy never starts before the proxy listened; and the app inherits
\* none of the descriptors that say so.
SandboxCovered ==
  /\ HelperTypeOK
  /\ AppLives /\ init = "waits" => "lock" \in fds["init"]
  /\ proxy = "hung up" => /\ init \in {"none", "exited"}
                          /\ main.at \notin {"spawned", "syncing", "helper", "cloned"}
  /\ AppLives /\ proxy # "none" => "listened" \in seen
  /\ child.at = "runs" => fds["child"] = {}

\* When the first process of the app ends, the helper ends, however long the
\* processes it leaves go on; and when the sandbox and its launcher are gone,
\* the proxy ends.
EverythingEnds ==
  /\ child.at = "ended" ~> main.at \in Gone
  /\ main.at \in Gone /\ init \in {"none", "exited"} ~> proxy \in Gone \cup {"none"}
=============================================================================
