# A TLA+ model of xdg-app

xdg-app installs desktop applications and runs them in sandboxes. This directory
holds TLA+ modules for the parts of it that keep state and talk to other
processes, TLC configurations that check them on small instances, and proofs that
TLAPS checks for every value of the constants. `PROJECT.json` lists components,
runs, mutants, the source lines behind each definition, findings, hazards and
theorems. Paths below are relative to the repository.

Run a check with `tlc -config MCXdgAppDb.cfg MCXdgAppDb`, a proof with
`tlapm XdgAppDbProofs.tla`.

## Inventory

| Component | Source | State | Operations | What is hard |
|---|---|---|---|---|
| permission database | `lib/xdg-app-db.c` | the tables `main` and `apps` of a GVDB file, an overlay of changes in memory, the serialized bytes, `dirty` | set/remove an entry, look up, list ids, list ids of an app, list apps, update (serialize), save, open | a reverse index that is maintained incrementally over two layers; remove and add again across saves |
| permission store | `session-helper/xdg-app-permission-store.c` | lazily loaded tables, two queues of method calls, `writing` | List, Lookup, Set, Delete, SetPermission, SetValue; asynchronous save | calls that arrive during a save; failed saves; process exit |
| document portal | `document-portal/xdp-main.c`, `xdp-util.c` | its own copy of the database | Add, GrantPermissions, RevokePermissions, Delete | the store is updated by calls nobody waits for; the portal and the store share a file but not memory |
| document FUSE file system | `document-portal/xdp-fuse.c` | temporary files (`XdpTmp`), handles (`XdpFh`), three kinds of locks | lookup, open, create, read, write, setattr, rename, unlink, release, readdir | many threads, lock order with the kernel, reference counts, replace-on-close |
| app id lookup | `lib/xdg-app-utils.c` 897-1093 | a table of senders with the requests that wait for each | look up, callback, name owner change | timeouts, late replies, senders that leave |
| D-Bus proxy | `dbus-proxy/xdg-app-proxy.c`, `dbus-proxy.c` | per client: policies of names and of unique ids, expected replies of both sides, serial offset, rewritten serials, authentication state | filter, rewrite, fake replies in both directions; end when the sandbox ends | reply matching, ordering, owners that change while the proxy asks for them |
| installation directory | `lib/xdg-app-dir.c`, `app/xdg-app-builtins-{install,update,uninstall,make-current}.c` | OSTree repository, deployed checkouts, `active` and `current` links, origins, exports, removed checkouts and their locks | pull, deploy, undeploy, set active, make current, update exports, clean up, prune | several processes, crashes between renames, apps that run meanwhile |
| run contexts | `lib/xdg-app-run.c`, `app/xdg-app-builtins-{run,override,build-finish}.c` | metadata, override files, command line options | load, merge, save, translate to helper and proxy arguments | precedence of positive and negative options through files that are read, merged and written back |
| sandbox helper | `lib/xdg-app-helper.c` | mount namespace, process tree, locks | set up mounts, pid 1, monitor | process exit, event fds, which process has which descriptor |
| command line tools | the rest of `app/*.c` | none of their own | parse options, call the library | none beyond the library |
| GVDB, gdbus-generated code, other helpers | `lib/gvdb`, `lib/xdg-app-chain-input-stream.c`, ... | file format, streams | | vendored or stateless |

How they interact. A client's D-Bus call to the portal first goes through the
app id lookup (a question to the bus and a read of `/proc`), and then runs with
the portal's `db` lock held. The portal changes its database, tells the kernel to
forget cached directory entries of its FUSE file system, sends calls to the
permission store and answers. FUSE threads read the portal's database to decide
who sees and writes a document. The store saves its database in a thread and
answers its callers when the file is replaced. The portal reads that file once,
when it starts.

`xdg-app run` resolves what is deployed (installation directory), merges the
contexts that count (run contexts), starts a proxy with the policies among them,
waits until it listens, and becomes the helper. The helper's pid 1 mounts the
checkouts, locks them, and reaps. The commands that change an installation look
at these locks before they delete a checkout, and take none themselves. The
proxy sits between one client and the bus, and ends with the sandbox.

What makes each correct, in short: the database answers like a plain map with a
reverse index; a call the store answered is on disk; an app only has what
someone with the right gave it; a document is replaced whole, by a writer, and
leaves nothing behind; a request is answered for the app that sent it; through
the proxy a client gets each reply once, and nothing of names it may not see; an
installed app can be started at every instant and keeps its files while it runs;
the last word of the strongest layer decides what a sandbox may use; and a sandbox
holds its locks and its proxy as long as it lives, and no longer.

## The modules

| Module | Models | Kind |
|---|---|---|
| `AbstractDb` | what a permission database promises: a map, the index it implies, a serialized copy, a file | abstract specification |
| `XdgAppDb` | the overlay tables, every query, update, save and open | detailed, refines `AbstractDb` |
| `XdgAppDbProofs` | proofs about `XdgAppDb` | proofs |
| `PermissionStore` | one table of the store service, every handler, the save and its failures, process exit | detailed |
| `DocumentPortal` | the portal's requests, the calls to the store, the store, the file, exits of both | composition on abstract maps |
| `DocumentPortalProofs` | proofs about `DocumentPortal` | proofs |
| `XdpFuseTmp` | temporary files next to a document: create, open, rename, unlink and the handles on them | detailed, threads and locks |
| `XdpFuseTmpProofs` | proofs about `XdpFuseTmp` | proofs |
| `XdpFuseDoc` | handles on the document itself: reference counts, truncation, replacement on the last release | detailed, threads |
| `XdpFuseDocProofs` | proofs about `XdpFuseDoc` | proofs |
| `AppIdLookup` | the table of senders, the calls to the bus, timeouts | detailed |
| `PendingCallProofs` | proofs about `AppIdLookup` and `PermissionStore`, which answer their calls later | proofs |
| `XdgAppProxy` | one authenticated client behind a filtering proxy, the bus and its other connections | detailed, two directions of messages |
| `XdgAppProxyProofs` | proofs about `XdgAppProxy` | proofs |
| `XdgAppDir` | the commands on an installation directory, and the apps that run from it | detailed, processes that overlap, fail and are killed |
| `XdgAppDirProofs` | proofs about `XdgAppDir` | proofs |
| `XdgAppContext` | contexts with their files and commands, and what `run` makes of them | operators, checked against what was said |
| `XdgAppHelper` | launcher, proxy process, monitor, pid 1 and app of one sandbox | composition of processes over descriptors |
| `XdgAppRunProofs` | proofs about `XdgAppContext` and `XdgAppHelper`, what run gives an app and starts | proofs |

Each `MC*` module extends its module with the symmetry set and the constant
definitions its configurations use. Two modules that one proof module is about have
no names in common: the specifications of `PermissionStore` and `XdgAppHelper`
are `StoreSpec` (`FairStoreSpec`) and `HelperSpec`, and what is `NULL` in the code
is `None` in `AppIdLookup`.

### XdgAppDb and AbstractDb

Variables have the names of the fields of `XdgAppDb`. `main_updates[id]` is
`Absent` if the overlay has no entry for `id` and `NULL` if it says removed.
`app_additions` and `app_removals` are the arrays of ids per app;
`update_app_ids` is `add_app_id`/`remove_app_id`. An app's list in the file is a
function from ids to how often each occurs, for a reason: an id of the file that
is removed from an app and added again is in `app_additions` without leaving the
file's list, so `list_ids_by_app` returns it twice, and an update writes it
twice. `MaxCopies` bounds these repetitions. The model shows it harmless for
membership (`IndexConsistent` is about sets), but lists do grow.

`AbstractDb` says what this amounts to: a map with its index, of which the
overlay is an implementation. `ImplementsAbstractDb` maps `map[id]` to the
overlaid lookup and the index to the ids listed per app.

The permissions of an app in an entry are a set. The code keeps them sorted, and
an empty list is a case of its own: `make_permissions` (line 1090) initialises
`empty` so that it is a null pointer, so an app without permissions
is written with a null list where the comment at 1184 expects an empty one. The
model follows the intended reading: such an app is not listed.

### PermissionStore

`handle_*` are the handlers. A change goes to `outstanding_writes`, and
`ensure_writeout` starts a save (`StartSave`) if none runs. `SaveSucceeds` and
`SaveFails` are the thread; `writeout_done` is its callback, which answers
`current_writes` and starts the next save. `Exit` is the end of the process, at
any point: waiting calls are lost, memory is gone and the file stays.
`applied` is the history of changes, with `n_serialized` and `n_stored` saying
how many the running save and the file contain.

Two behaviours of the code to know of. A failed save is reported to its callers,
but their changes stay in memory and the next save that succeeds writes them.
And `SetValue` on a new entry stores the variant the caller sent without
unwrapping it (lines 354 and 364), where `Set` unwraps it (268): the two are
different data, which `Boxed` keeps apart.

### DocumentPortal

A request is one step, because the portal holds its `db` lock from the permission
check to the answer. `calls` is the sequence of method calls on their way to the
store. `StoreHandles` is any store handler; `saving`, `outstanding`,
`StoreSaved` and `StoreSaveFails` stand for the queue that `PermissionStore`
models in detail. `StoreExits` loses what was not saved and any prefix of the
calls; `PortalExits` loses any suffix. `clean` records that nothing was lost.

What the model shows and no comment says: the portal answers before the store has
the change, and it never looks at the store's answer; a portal that restarts
reads the file and not the store. So a revocation or deletion that was answered
can be undone by a restart that comes before the save. The properties about the
store and the file therefore hold only while `clean`. `portal_revoke_permissions`
refuses a caller that names itself (line 204), although the comment above says
the opposite.

### XdpFuseTmp and XdpFuseDoc

One document, and one view (directory) of it per app; whether an app may write
is fixed. Each thread is idle or inside one handler, and a step of a handler is
what it does between two acquisitions of a lock.

`XdpFuseTmp` has the list `tmp_files` with its lock, the backing files
(`temps`), handles on temporary files, and the kernel's lock of each view's
directory, which the kernel takes for create, rename and unlink and gives back
at the reply. That lock is an assumption about Linux; it is what makes the two
halves of `xdp_fuse_unlink` and of `xdp_fuse_rename` safe against each other
(`UnlinkedOnce`). Three returns of `xdp_fuse_create` keep `tmp_files` locked,
and the model follows them: hence `CHECK_DEADLOCK FALSE` in its runs, as the
modelled system really stops. `Faults` selects the calls on the backing
directory that may fail.

`XdpFuseDoc` has the `XdpFh` objects with their reference counts and the list
`open_files`. `Open`, `create`, `release`, and the requests by path (which search
the list and take a reference) interleave. The fields of a new handle are set
after it is on the list (`open_fill`, `create_fill`). `xdp_fh_finalize` renames
the temporary file over the document or removes it. `MaxLeaks` bounds the
references that chmod loses. `Faults` has the rename and the reply that fails
after a handle was made; the latter also stands for an `fstat` that fails in
create.

Temporary files are left behind in known cases, which the auxiliary
`abandoned` of both modules collects: an `open` or `create` that fails after it
made its file, a failed `renameat`, and a directory that cannot be opened at
unlink. `TempsListed` and `TempsOwned` say there is no other case.

A handle that a rename marked read-only can still be truncated, since
`setattr` looks at `can_write` only; `xdp_fuse_setattr` of `XdpFuseTmp` has that
step, and `WritesStopped` is about writes alone.

### AppIdLookup

`inbox` is what the bus sent, in order. `Dispatch` is the main loop:
`xdg_app_invocation_lookup_app_id`, `got_credentials_cb` or
`name_owner_changed`. `Timeout` is the callback of a call after 30 seconds; the
reply that comes later finds no call. `ReadAppId` gives what the cgroup of the
sender says, or nothing.

The callback asks only whether there is a reply (line 935), and an error is one: the pid
it reads from the body of an error is not set, so that the process looked at may be any or none
(`ReadAppId`, body `"error"`). The bus has an error for a sender that left and for one
whose process it does not know (`UnixProcessIdUnknown`). For the first, the test of `exited` is all
that keeps the error from being read; `ReadsAfterExit` drops it, and `NoneNamedAfterExit`
fails. It suffices because the signal that the sender left comes before the error. Nothing
keeps the second from being read: a sender outside `PidKnown` may be taken for any app, and
`AnswersAgree` is about the others. On a Unix socket the bus knows every process.
Also seen: requests that wait are answered in the reverse of the order in which they came,
since the list is prepended to (line 1040).

### XdgAppProxy

`toBus` and `fromBus` are the two streams behind the proxy. `got_buffer_from_client`
and `got_buffer_from_bus` are one step per message: the proxy has one thread and
no step of it waits. The state is that of `XdgAppProxyClient`: `serial_offset`,
`last_serial`, `hello_serial`, the table of replies expected from the bus
(`expected_client`, with the reply it takes the message for), the
`rewrite_reply` and `get_owner_reply` tables beside it, and `unique_id_policy`. What is
expected of the client is the other table. After Hello the proxy adds messages
of its own (`queue_initial_name_ops`, `queue_wildcard_initial_name_ops`): AddMatch,
and questions for names and owners, each of which shifts the client's serials.
`side_in_cb_returns` is the return to the loop, which reads again. The bus
(`BusHandles`) and the other connections (`Peer*`) are how the code expects them:
in order, with signals for the matches it has. `known`, `senders`, `owned`, `heard`, `reached`
and `refused` are histories.

`OwnersAllowed` depends on an order of the code: the match is added before the
owner is asked for (`AsksFirst` swaps them). `VisibilityJustified` says that a
policy of a unique id can be explained by what that id did. It stays after the id
has lost the name; the comment at the head of the file announces that.

With `Pipelining` the client writes on without waiting for Hello's reply. The proxy
stops reading at Hello for this reason (comment at 1696), but `stop_reading` does
not stop the loop of `side_in_cb` (2146) that already runs, so a message in the
same read is forwarded with the offset of before. `RepliesMatchCalls` and
`OwnersAllowed` then do not hold; the other properties do, and are proved for it. The
usual client libraries wait for the reply, and the runs have `Pipelining` off. Also seen and not
modelled: an error reply to a second Hello reaches the rewriting case without
a rewritten message (1939-1962); `side_closed` drops what the other side has not yet
been sent (555-589).

### XdgAppDir

A command is a program counter per slot (`cmd[s].at`) that goes through the calls of
its builtin; each call of the library is a step, split where the file system changes
(`Checkout`, `FinishCheckout`, `Activate`, `UnlinkCurrent`, `LinkCurrent`, `ExportFiles`,
`RemoveDangling`, `Undeploy`, `MoveToRemoved`, `CheckLock`, `RemoveTree`, ...). `CallFails`
takes the command's own error path, and `Killed` takes none. `MaxTrouble` bounds
these and the starts beside another command. A checkout has an identity (`Dirs`), so that a
directory that is moved under `.removed` and one that is deployed again under
the same name are told apart (a checkout takes any that is free); `whole` is those with all
files. An app resolves
`active` (`RunApp`), mounts (`MountFiles`) and locks (`LockFiles`).

The histories carve out what no code promises: `spoiled` (a checkout deleted by
force, or with its deploy directory), `suspect` (a command ended early since the
exports were last gone through), `alone` (nothing overlapped the command), `early`
(the app had its lock before the checkout was moved). `InstallDelivers` is what an
`install` or `install-bundle` that reports success promises, for one that nothing ran beside
(`alone`), after any failures and kills of earlier commands. What the model shows beyond
the properties:

* `UpdateDelivers` does not hold. OSTree checks out under the final name; a checkout
  that failed or was killed leaves a directory that makes the next update return
  "already deployed" (`xdg-app-dir.c` 1520-1527), which `update` takes for success.
* An app that has mounted its files but not locked them loses them to an update
  that finishes in between; the lock is looked at once, after the rename.
* A failing install removes the deploy directory it made without a look at locks, and leaves
  `current` to dangle. `update` never cleans up `.removed`; `install` and `uninstall` do.
* Installing a runtime from a bundle ends in an assertion
  (`make_current_ref` for a ref that is no app) and leaves its deploy directory.

### XdgAppContext

A *word* is one setting with its value. `SetWord` is what an option or a line of a
file does to a context, `xdg_app_context_merge`, `_load_metadata` and `_save_metadata`
are the functions of those names, and `override`, `build_finish` and `run` the
commands. The first two read the file, and write it in a later step. `said` is the
reference: per file, the last word on each setting. The properties compare what
`Arguments` gives the sandbox with the last words of the layers.

Filesystems are where the code loses words: what is not exposed is not saved
(`OverridesPersist`, below). `ExposedAsSaid` therefore asks of an exposed filesystem
only that some layer said so and the command line did not take it back. For names
on the bus, `save` drops the policy `none`, but a command line cannot say it; a file
written by hand can. Two overrides at the same time lose one (`raced`), and the
properties exempt such files.

A filesystem is mounted only if it exists. `found` is what the tests for existence find in a
run (one of `HostDirs`), and `Disabled` are the xdg directories that are the home directory
itself, which run ignores. A filesystem `~/x` (`TildeDirs`) is tested by its name and
not by its path (`xdg-app-run.c` 1424): it is mounted only if run was started where there is a
directory `~` with an `x` in it, although the path that is mounted is in the home
directory. `ExposedAsSaid` therefore asks that the last word exposes of filesystems that exist, are in use
and are not `~/...`; `HomePathsExposed` asks it of `~/...`, and does not hold.

### XdgAppHelper

`fds` gives each process its descriptors, and everything else follows from who
has which: the proxy ends when no process has the read end of its pipe, the
launcher's `read` returns when nobody has the write end, the locks last while pid 1
has the files open. `main` is the launcher, which `exec`s the helper, which
becomes the monitor. When pid 1 ends the kernel ends the sandbox (`InitEnds`). A
failure among mounts, namespaces and seccomp is `SetupFails`. The monitor's three reads
are separate steps, as pid 1 may write and end between them.

The monitor exits with 1 when pid 1 is *stopped*, since SIGCHLD tells that too
(`StopInit`); `StatusReported` admits it.

## Runs

| Run | Instance | Shows |
|---|---|---|
| `db` | 2 ids, 1 app, lists with up to 2 copies | the reverse index agrees with the entries over all sequences of changes, updates, saves and restarts; refinement of `AbstractDb` |
| `store` | 2 ids, 3 calls, failing saves, exits | answered changes are on disk and stay there; the file is a prefix of the changes; every waiting call is answered |
| `portal` | 2 documents, 2 files, 2 apps and the host, 2 accepted requests, exits of both processes | permissions only come from grants, an app gains only what the caller had and may give; store and file follow the portal while nothing is lost, and catch up |
| `tmp` | 2 views, 1 of them a writer, 2 names, 2 threads, 1 handle, 2 temporary files, all faults | names are unique, files are unlinked once, handles are stopped by a rename, nothing is left behind but after faults |
| `doc` | 2 views, 1 of them a writer, 2 threads, 2 handles, 2 new files, both faults | reference counts, no use after free, whole replacement by writers only |
| `lookup` | 2 senders, the process of one unknown to the bus, 3 requests, 2 app ids | answers reach everybody and, where the bus knows the process, are right, although errors are read as pids; the table forgets who left |
| `proxy` | 3 names (own, wildcard talk, none), 2 other connections, 3 serials, 1 event | serials, replies, owners and visibility through the proxy; every call is answered |
| `proxy_replies` | the same | violated: a reply of the client that was expected is dropped |
| `dir` | 2 branches and a runtime, 2 commits, 3 commands in 2 slots, 1 trouble, 1 app, 5 checkouts | installed apps stay runnable, locked files stay, exports follow, uninstall is complete, install delivers |
| `context` | 2 flags, a filesystem of each kind, 2 sets of directories that exist, 3 names, 1 variable, 2 commands, 2 words | the last word decides, through merge, save and load |
| `ctx_persist` | the same | violated: an override that takes a filesystem away is lost |
| `helper` | 3 statuses, 2 processes left behind, 3 kills or stops | exit status, locks, proxy and end of one sandbox |

Why the bounds are enough. The interesting histories of the database are about
one id and one app over three layers (file, overlay, serialized bytes); a second
id is needed for the list of apps, and the proofs cover every other size. Three
calls to the store are one in the running save, one that arrives during it and
one that arrives after the next started. Two portal requests are an Add and what
meets it (a grant to or by the other app, a revocation, a second Add, a deletion),
each of up to two calls to the store; longer chains of grants are in the proofs
of `NoInventedPermission` and `GainsAreAuthorised`. Two documents are what sharing needs. Two
threads give every pairwise race of handlers; two temporary files give a rename
over another one. Three serials give the proxy a call before, one that meets the
messages it adds, and one after. Three commands are an install, an update that is
cut off, and the command that finds what it left. Two words are one in a file and
one on a command line, or two that meet in one file, beside those of the metadata. Three
requests give two that share a call and one that retries after the timeout.

Fairness. The store's save thread ends and its callback is dispatched
(`WF(SaveSucceeds \/ SaveFails)`, `WF(writeout_done)`): g_task threads and the
main loop do that. The portal's liveness takes the delivery of D-Bus calls and
the store's save (`WF(StoreHandles)`, `WF(StoreSaved)`), and gives up on a save
that fails or a process that exits. The lookup takes the main loop and its timer
(`WF(Dispatch)`, `WF(Timeout)`), not the bus. The proxy takes its own loop, the bus, and
other connections that answer. The helper takes the scheduling of launcher, monitor, pid 1,
proxy and the start of the app, not the app's end. `FairSpec` of `XdpFuseTmp` lets each
thread go on with its handler when it can. `CHECK_DEADLOCK FALSE` is where a
system ends: the sandbox is gone, commands or events are used up, a client was
disconnected, or (`tmp`) `tmp_files` stays locked. No liveness is stated for the
finalising of handles: overlapping `stat` calls can keep a handle alive for as
long as they overlap.

Every property has a mutant: an operator changed the way a bug would, which makes
the run fail. The mutants are next to the definitions they replace.

## Findings

Two runs end in a violation:

* `proxy_replies` (`RepliesAllowed`): the replies expected of the client are kept by serial,
  but every connection has its own serials; two calls with one serial leave one entry, and
  the second reply is dropped, where the head of `xdg-app-proxy.c` promises one each.
* `ctx_persist` (`OverridesPersist`): `xdg_app_context_save_metadata` forgets the filesystems
  that are taken away, so `xdg-app override --nofilesystem=...` has no effect.

Seven definitions state what comments and tests say of the code and TLC finds
violated, too, each in a run of a few seconds with the constants of its module's run
and that property alone (`FairSpec` for the one with `~>`):

* `WritesStopped` (`XdpFuseTmp`): an open of a temporary file by inode that overlaps
  the rename over the document gets a handle the rename did not mark.
* `LastReferenceElsewhere` (`XdpFuseTmp`): `mark_open_tmp_file_readonly` may drop the last
  reference to a handle while it holds that handle's lock.
* `NoLockCycle` (`XdpFuseTmp`): a rename notifies the kernel with `tmp_files` held, which
  waits for the directory that a following create holds while it waits for `tmp_files`.
* `CreateAnswered` (`XdpFuseTmp`): a refused create keeps `tmp_files` locked; the
  next one is never answered.
* `ReleasedIsFinal` (`XdpFuseDoc`): chmod by path loses a reference, so close
  never replaces the document.
* `UpdateDelivers` (`XdgAppDir`): see above.
* `HomePathsExposed` (`XdgAppContext`): a filesystem `~/dir` that the last word exposes is not
  exposed, as its existence is tested by the literal name; `doc/xdg-app-run.xml` 193 has it as
  "an absolute path, or a a homedir-relative path like ~/dir".

## Proofs

`XdgAppDbProofs` proves, for all ids, apps, permissions and data, from the
assumption that the markers `NULL` and `Absent` are no entries and that `MaxCopies` is
positive: `TypeOK`, `IndexConsistent`, `ContentsCoherent`, `ListAppsExact`,
`CleanIsSerialized` and the refinement of `AbstractDb`. The inductive invariant is
`IInv == TypeOK /\ IndexConsistent /\ ContentsCoherent`: the index in memory agrees with the
entries because each `set_entry` moves exactly the apps that differ and because an
open starts from a coherent file; the file is coherent because update serializes
tables for which `IndexConsistent` held. The other properties follow from it; the
refinement uses that under `IndexConsistent` the listed index is the index
of the map.

`DocumentPortalProofs` proves `TypeOK`, `NoInventedPermission`,
`TransientStaysInPortal`, `StoreFollowsPortal`, `OneSharedDocument` and the action property
`GainsAreAuthorised` for all documents, apps and paths and any number of
requests, from the assumptions that the host is no app, that permission
arguments are sets of permissions, that `NULL` is no entry and no map, and
that `MaxRequests` is a number. The first three are inductive only together
(`IInv`): what the store, its save and the file hold comes from calls, so
the invariant is about the calls that are on their way too, and `granted` only grows.
`Good` (a call), `GoodMap` and `StoreMap` (a map) name what is required of each;
losing a prefix or a suffix of the calls keeps them good. `GainsAreAuthorised` needs
`TypeOK` alone and one case per request. `Followed` strengthens the properties about the
store: what the store will have after all calls on their way is the persistent part of
the portal's database, the file is what the store saved last, nothing is on its way while the
portal is down, and no file has two documents to reuse. What a sequence of calls makes
of a map is a recursive function on positions; its facts are proved with a least
counterexample among the positions, a set of numbers.

`XdpFuseTmpProofs` proves `TempsSound` (`TypeOK`, `NamesUnique`, `BackingExists` and
`TempsListed`), `UnlinkedOnce` and `ListedHandlesStopped` for any views, names, handles and threads,
whichever calls fail and whichever threads wait for ever at a lock that is never given back. The lock of
`tmp_files` does not keep the list sound, as rename and unlink give it up between the search and the change; the
kernel's lock of the directory does. `Exclusive` says that a thread that will take a tmp off the list, or take
its file, has the lock of that tmp's directory and the tmp is listed there; so it is the only one, and nobody
renames the tmp meanwhile. `Knows` is what the thread knows of it at each step. `Lists` adds to the
properties who still refers to a file: a listed tmp whose file was taken and is still there is about to be
renamed over the document, or its rename failed (`TakenMoves`), and no tmp counts on the file that is the
document (`DocumentTaken`). `Marks` is the loop of `mark_open_tmp_file_readonly`: a handle that was
there when the file was taken is read-only or still to be marked. The assumptions are that `NULL` is no
thread, number, handle or call (`NullAssumption`), and that `MaxTmps` is a number.

`XdpFuseDocProofs` proves `HandlesSound`, `ReplacedWhole`, `OnlyWritersReplace` and
`TempsOwned` for any views, handles and new files and any finite set of threads. The
invariant counts (`Counted`): the reference count of a listed handle is the number of
threads that hold it, plus the references that chmod lost, plus one for a file the
kernel has open. No two handles or requests own one new
file (`FdsApart`, `TmpsApart`), and a request that finalises a handle is the only one that has it
(`FinalIsLast`). A handle that is on the list before its fields are set is read-only to who
finds it, and one request will fill it (`FillsFresh`). Only a handle of a writer has
a new file (`FhsShaped`).

`XdgAppDirProofs` proves `TypeOK`, `ExportsFollowCurrent`, `LockedKeepsFiles`,
`UninstallLeavesNothing` and `InstallDelivers` for any refs, commits, checkouts, commands that overlap, apps,
failures and kills, and `InstalledStaysRunnable` for behaviours in which no two commands
work on one ref at once (`OnePerRef`). The invariant says where a
checkout is (`Trees`: deployed under one name or removed, which `TypeOK` says too, and what a command found among the
removed is not deployed again meanwhile), that a command about to delete a checkout
saw no lock on it (`LockSeen`), that who changed what is to be exported goes through the exports later
(`NoneMissing`, `NoneDangles`), what an uninstall that is alone has undone at each step
(`Uninstalling`, `Trimmed`), and what an install that is alone has made at each step
(`Installing`). `OnePerRef` is necessary: of
three updates of one ref at once, one can undeploy the checkout that another has just made
active. The run admits one command beside another (`MaxTrouble` is 1) and does not
get there.

`XdgAppProxyProofs` proves `TypeOK`, `RefusedIffReused` and `VisibilityJustified` for all names,
policies, connections, calls and events, and any client, one that does not wait for the reply to Hello
included; and `RepliesMatchCalls` and `OwnersAllowed` for a client that waits. The assumptions are that the markers are no names,
that there are finitely many names with a policy and that a call has the argument its member takes.
The invariant `IInv` has the counters (`Counts`: `last_serial` is the client's serial plus the
offset, which is why only a serial used again is refused), the tables and types of what is under way
(`Tables`, `Types`), and `Sound`: every call, reply and signal under way is what the proxy will take
it for, and an owner it tells of did own the name. For the replies `WInv` adds whose each
serial on the bus is (`SerialOf`): 1 is Hello's, those up to `1 + serial_offset` are the proxy's own and
the later ones are the client's, because a client that waits has written nothing when
the proxy adds messages (`Waits`). So what is expected, rewritten and on its way has
the right label (`Expected`, `Labelled`), and the reply gets the client's serial back (`Answered`).

`OwnersAllowed` rests on one more invariant, `OInv`. Each question the proxy has asked and each
answer under way is expected for what it asks, and the proxy's own calls reach the bus before anything of the
client but Hello (`Asking`). For every name with a policy, the bus has the match or the match is ahead
of the question, and the owner is allowed, or a message under way will tell the proxy, or the
question is still to be answered (`OwnersSeen`). A reply that tells the client of an owner comes after
what tells the proxy (`RepliesSeen`), so who the client knows is allowed (`KnownAllowed`). It
needs the order of the two directions and of the proxy's own calls: a question that went ahead of its
match would miss an owner that appears between them.

`PendingCallProofs` proves of `AppIdLookup` `TypeOK`, `WaitersHaveCall`, `AnswersAgree`,
`ExitedForgotten` and `NoneNamedAfterExit` for all senders, requests and app ids, from the
assumptions that `PidKnown` is a set of senders, that the marks for requests and `None` are no app ids, and
that `None` is no sender and no entry. The
invariant is `IInv == TypeOK /\ Ordered /\ Serials /\ ErrorsLate /\ Core /\ Marked`. `Ordered` says that the bus
sends no request of a sender after the signal that it is gone: without it, an
entry could be made for a name that no signal will remove any more. `Serials` says that a reply
belongs to one call at most, and `ErrorsLate` that an error about a sender in `PidKnown` comes after
the signal that it is gone; with `Marked` its callback does not read it. `Core` relates
entries, waiting requests and answers; `Marked` says that an entry whose sender was seen
to leave has been marked and is kept for its requests only.

Of `PermissionStore` it proves `StoreTypeOK`, `AnsweredIsDurable`,
`NoAnsweredChangeLost` and `FileIsPrefix` for all calls, ids and entries. A call is
answered from the save that contains its change, so the invariant (`WritesInv`) says that
each call in `current_writes` has its change among the first `n_serialized`, and that a save
that succeeded has stored those. For `FileIsPrefix` the invariant (`Prefixes`) has one
clause per copy: the file is what the first `n_stored` changes make, the contents of the
running save what the first `n_serialized` make, and memory what all make. What a
prefix of the changes makes is a recursive function; two sequences that agree on a prefix
agree there, by a least counterexample among the positions. The assumption used is that `NULL` is
no map (`NullAssumption`).

`XdgAppRunProofs` proves of `XdgAppContext` `TypeOK`, `LastWordRuns`, `ExposedAsSaid` and
`NamesAsSaid`, for any flags, filesystems, names, variables and metadata, any number of
commands at once and any bound on their words. The assumptions are that the app's and the portal's
name and the session bus are among the names and flags (`NamesAssumption`), that metadata and
files written by hand are lists of words (`WordsAssumption`) and that the bound is a number. A context is
six sets and tables; its `View` is one table of all its words, and the lemmas say what each operation
does to it: an option puts its word in (`SetWordView`), a merge all words of the other context, a
list of words makes the table of the last ones (`Meaning`), and a save keeps all but the blank ones: a
filesystem not exposed and a name with policy `none`. A list is put in by a fold, followed position by
position with a least counterexample. The invariant is then about views. `FilesKeep`: a
file for which no two commands raced says what was `said` of it, except for blank words.
`SandboxMade`: the last sandbox has what the files as they are and some command line make. From these,
`Obeys`: for each setting, what run ends with is the word of the strongest layer that says one.

Of `XdgAppHelper` it proves `StatusReported` and `SandboxCovered`, which holds `HelperTypeOK`,
for all exit statuses and any number of processes left behind, kills and stops. The
invariant is `Inv`, whose parts are the types, `Started` (in which order the processes
exist), `ProxyFirst` (who goes on from a proxy has heard of it), `Inherited` (which
descriptors went from the launcher to pid 1 and to the child) and `Told`. `Told` is why the
monitor may look at SIGCHLD only after the eventfd: a status in the eventfd is that of the
reaped child, and a monitor that found the eventfd empty and goes on to the signal was
woken by a pid 1 that ended untold, or was stopped.

The type invariants of `XdgAppDb`, `PermissionStore`, `DocumentPortal`,
`AppIdLookup` and `XdgAppDir`, and `ContentsCoherent`, `ListAppsExact`,
`CleanIsSerialized`, `WaitersHaveCall` and `TransientStaysInPortal`, are proved and
in no run.

Every invariant, action property and refinement that a passing run checks is stated by a theorem.
Only model-checked are the liveness properties `EveryCallAnswered` (store and proxy), `FileCatchesUp`,
`EveryRequestAnswered` and `EverythingEnds`: TLAPS, as used here, has neither fairness nor
ENABLED. The two violated properties are shown by their runs alone. In the other direction,
a run shows `InstalledStaysRunnable`, `RepliesMatchCalls` and `OwnersAllowed` with the bounds that
stand for the hypotheses of their theorems.

## Not modelled

* Mounts, namespaces and seccomp of the helper, printing, option parsing: sequences of system
  calls or wording, no state to relate.
* GVDB, and the file system's own atomicity: a file is replaced as a whole.
* Directory listing, attributes and inode numbers of the FUSE file system. An inode packs a
  class, an app id and a document id; the app id reaches the class at 2^24 apps. A document
  id of 0, drawn once in 2^32, ends a listing early.
* The portal's `db` lock against the kernel's directories: the portal invalidates
  entries with `db` held, and a lookup that holds the directory needs `db`. It is the
  cycle of `NoLockCycle` with another lock.
* Of the proxy: parsing of headers and buffers, authentication, a side that closes with
  messages to write, and serials that wrap at 2^32.
* The OSTree repository with its remotes, pulls and pruning, and the triggers.
* The session helper's RequestSession, and the commands that build, export or list.

## Plan

1. The sorted arrays of database entries as operators.
2. `PermissionStore` shown to implement the store that `DocumentPortal` composes with.
