--------------------------- MODULE XdgAppContext ---------------------------
(***************************************************************************)
(* What an app may use (XdgAppContext of lib/xdg-app-run.c): the settings  *)
(* of the metadata of its runtime and of its own, written by build-finish, *)
(* of the override files of the system and of the user, written by         *)
(* override, and of the command line of run, which merges them all and     *)
(* turns the result into arguments for the helper and the D-Bus proxy.     *)
(*                                                                         *)
(* A word is one setting with its value, as an option or a line of a file  *)
(* says it.  Shares, sockets and devices are handled alike, as flags; in a *)
(* file the last of several words on one setting counts.  Not here: words  *)
(* that do not parse, and the arguments that do not come from a context.   *)
(***************************************************************************)
EXTENDS Integers, SequencesExt

CONSTANTS
  Flags,        \* shares, sockets and devices
  Home,         \* "host" and "home", the filesystems that hold the home directory
  XdgDirs,      \* filesystems "xdg-...", below the home directory
  Disabled,     \* those of them that are the home directory itself
  TildeDirs,    \* filesystems "~/..."
  OtherDirs,    \* filesystems "/..."
  HostDirs,     \* sets of directories that the tests for existence may find
  Paths,        \* paths to persist
  BusNames, Vars, Values,
  AppId, Portal, SessionBus, NULL,
  Slots,        \* commands that can run at the same time
  RuntimeWords, AppWords, \* lists of words to start the metadata from
  Handwritten,  \* lists of words an administrator may write in a file
  MaxWords      \* bound on the words on command lines

Dirs == XdgDirs \cup TildeDirs \cup OtherDirs
Filesystems == Home \cup Dirs

NONE == 0
SEE  == 1
TALK == 2
OWN  == 3

Settings ==
  ({"flag"} \X Flags) \cup ({"fs"} \X Filesystems) \cup ({"persist"} \X Paths)
  \cup ({"policy"} \X BusNames) \cup ({"env"} \X Vars)

ValuesOf(kind) ==
  CASE kind \in {"flag", "fs"} -> BOOLEAN
    [] kind = "persist" -> {TRUE}
    [] kind = "policy" -> NONE .. OWN
    [] kind = "env" -> Values

\* context_options: a command line cannot deny a name on the bus.
OptionValues(kind) == IF kind = "policy" THEN {TALK, OWN} ELSE ValuesOf(kind)
Options == UNION {{<<x, v>> : v \in OptionValues(x[1])} : x \in Settings}

Words == UNION {{<<x, v>> : v \in ValuesOf(x[1])} : x \in Settings}

Scopes == {"runtime", "app", "system", "user"}

ASSUME NamesAssumption == {AppId, Portal} \subseteq BusNames /\ SessionBus \in Flags
ASSUME FilesystemsAssumption ==
  /\ Home \cap Dirs = {} /\ OtherDirs \cap (XdgDirs \cup TildeDirs) = {}
  /\ XdgDirs \cap TildeDirs = {} /\ Disabled \subseteq XdgDirs
  /\ HostDirs \subseteq SUBSET Dirs
ASSUME MaxWordsAssumption == MaxWords \in Nat
ASSUME WordsAssumption == RuntimeWords \cup AppWords \cup Handwritten \subseteq Seq(Words)

VARIABLES
  file,    \* scope -> the context as its key file has it
  cmd,     \* slot -> the override or build-finish that runs there
  sandbox, \* the sandbox that runs: how it was asked for, and what it got
  words,   \* the words used up
  built,   \* build-finish made the export directory
  \* History, for the properties.
  said,    \* scope -> setting -> the last word on it
  raced    \* the scopes where a command wrote over what it had not read

vars == <<file, cmd, sandbox, words, built, said, raced>>

--------------------------------------------------------------------------
(* Contexts.                                                               *)

Nothing == [x \in {} |-> x]

\* g_hash_table_insert, of one pair and of all those of another table.
Insert(table, key, value) ==
  [k \in DOMAIN table \cup {key} |-> IF k = key THEN value ELSE table[k]]
InsertAll(table, other) ==
  [k \in DOMAIN table \cup DOMAIN other |-> IF k \in DOMAIN other THEN other[k] ELSE table[k]]

NoCommand == [scope |-> NULL]
NoSandbox == [installed |-> NULL]

xdg_app_context_new ==
  [enabled |-> {}, valid |-> {}, fs |-> Nothing, persistent |-> {},
   policy |-> Nothing, env |-> Nothing]

\* The option callbacks and the loops of load_metadata: add or remove a flag
\* or a filesystem, set a policy, a variable or a path to persist.
SetWord(context, word) ==
  LET kind == word[1][1]  name == word[1][2]  value == word[2] IN
  CASE kind = "flag" ->
         [context EXCEPT !.valid = @ \cup {name},
                         !.enabled = IF value THEN @ \cup {name} ELSE @ \ {name}]
    [] kind = "fs" -> [context EXCEPT !.fs = Insert(@, name, value)]
    [] kind = "persist" -> [context EXCEPT !.persistent = @ \cup {name}]
    [] kind = "policy" -> [context EXCEPT !.policy = Insert(@, name, value)]
    [] kind = "env" -> [context EXCEPT !.env = Insert(@, name, value)]

\* MUTANT of xdg_app_context_merge: what other turns off stays on.
MergeKeepsBits(context, other) ==
  [enabled |-> context.enabled \cup other.enabled,
   valid |-> context.valid \cup other.valid,
   fs |-> InsertAll(context.fs, other.fs),
   persistent |-> context.persistent \cup other.persistent,
   policy |-> InsertAll(context.policy, other.policy),
   env |-> InsertAll(context.env, other.env)]

\* MUTANT of xdg_app_context_merge: only filesystems that are exposed.
MergeExposedOnly(context, other) ==
  [enabled |-> (context.enabled \ other.valid) \cup other.enabled,
   valid |-> context.valid \cup other.valid,
   fs |-> InsertAll(context.fs, [f \in {g \in DOMAIN other.fs : other.fs[g]} |-> TRUE]),
   persistent |-> context.persistent \cup other.persistent,
   policy |-> InsertAll(context.policy, other.policy),
   env |-> InsertAll(context.env, other.env)]

\* MUTANT of xdg_app_context_merge: shares_valid is forgotten.
MergeForgetsValid(context, other) ==
  [enabled |-> (context.enabled \ other.valid) \cup other.enabled,
   valid |-> context.valid,
   fs |-> InsertAll(context.fs, other.fs),
   persistent |-> context.persistent \cup other.persistent,
   policy |-> InsertAll(context.policy, other.policy),
   env |-> InsertAll(context.env, other.env)]

xdg_app_context_merge(context, other) ==
  [enabled |-> (context.enabled \ other.valid) \cup other.enabled,
   valid |-> context.valid \cup other.valid,
   fs |-> InsertAll(context.fs, other.fs),
   persistent |-> context.persistent \cup other.persistent,
   policy |-> InsertAll(context.policy, other.policy),
   env |-> InsertAll(context.env, other.env)]

\* A key file is written down as the context it holds: the flags of its lists,
\* with or without "!", are the valid ones.  "This is a merge, not a replace."
xdg_app_context_load_metadata(context, keyfile) ==
  [context EXCEPT
     !.enabled = (@ \cup keyfile.enabled) \ (keyfile.valid \ keyfile.enabled),
     !.valid = @ \cup keyfile.valid,
     !.fs = InsertAll(@, keyfile.fs),
     !.persistent = @ \cup keyfile.persistent,
     !.policy = InsertAll(@, keyfile.policy),
     !.env = InsertAll(@, keyfile.env)]

\* Filesystems that are not exposed are left out of their list, and names
\* without a policy out of their group.
xdg_app_context_save_metadata(context) ==
  [context EXCEPT
     !.fs = [f \in {g \in DOMAIN @ : @[g]} |-> TRUE],
     !.policy = [n \in {m \in DOMAIN @ : @[m] > NONE} |-> @[n]]]

SetWords(context, list) == FoldLeft(SetWord, context, list)

--------------------------------------------------------------------------
(* What was said, and what it means together: the reference.               *)

\* The last word on each setting.
Meaning(list) ==
  [x \in {list[i][1] : i \in DOMAIN list} |-> list[Max({i \in DOMAIN list : list[i][1] = x})][2]]

Init ==
  \E r \in RuntimeWords, a \in AppWords :
    /\ said = [scope \in Scopes |-> IF scope = "runtime" THEN Meaning(r)
                                   ELSE IF scope = "app" THEN Meaning(a) ELSE Nothing]
    /\ file = [scope \in Scopes |->
                 SetWords(xdg_app_context_new,
                          IF scope = "runtime" THEN r ELSE IF scope = "app" THEN a ELSE <<>>)]
    /\ cmd = [s \in Slots |-> NoCommand]
    /\ sandbox = NoSandbox
    /\ words = 0 /\ built = FALSE /\ raced = {}

CommandLines == BoundedSeq(Options, MaxWords - words)

--------------------------------------------------------------------------
(* override, and update_metadata of build-finish.                          *)

\* Both read the file, and write it whole later.
ReadsFile(s, scope, list) ==
  /\ cmd[s].scope = NULL
  /\ words' = words + Len(list)
  /\ cmd' = [cmd EXCEPT ![s] =
               [scope |-> scope, args |-> list, read |-> file[scope], heard |-> said[scope]]]
  /\ sandbox' = NoSandbox
  /\ UNCHANGED <<file, said, raced>>

override(s) ==
  /\ \E scope \in {"system", "user"}, list \in CommandLines \ {<<>>} : ReadsFile(s, scope, list)
  /\ UNCHANGED built

\* The export directory, which collect_exports makes first, stops a second one.
build_finish(s) ==
  /\ ~built /\ built' = TRUE
  /\ \E list \in CommandLines : ReadsFile(s, "app", list)

WriteFile(s) ==
  LET scope == cmd[s].scope
      loaded == xdg_app_context_load_metadata(xdg_app_context_new, cmd[s].read)
      args == SetWords(xdg_app_context_new, cmd[s].args)
  IN /\ scope # NULL
     /\ file' = [file EXCEPT ![scope] =
                   xdg_app_context_save_metadata(xdg_app_context_merge(loaded, args))]
     /\ said' = [said EXCEPT ![scope] = InsertAll(cmd[s].heard, Meaning(cmd[s].args))]
     /\ raced' = IF file[scope] = cmd[s].read /\ said[scope] = cmd[s].heard
                   THEN raced ELSE raced \cup {scope}
     /\ cmd' = [cmd EXCEPT ![s] = NoCommand]
     /\ sandbox' = NoSandbox
     /\ UNCHANGED <<words, built>>

\* Killed before it writes, or unable to.
Killed(s) ==
  /\ cmd[s].scope # NULL
  /\ cmd' = [cmd EXCEPT ![s] = NoCommand]
  /\ UNCHANGED <<file, sandbox, words, built, said, raced>>

\* An administrator writes an override file with an editor.
EditFile(scope) == \E list \in Handwritten :
  /\ words + Len(list) <= MaxWords
  /\ words' = words + Len(list)
  /\ file' = [file EXCEPT ![scope] = SetWords(xdg_app_context_new, list)]
  /\ said' = [said EXCEPT ![scope] = Meaning(list)]
  /\ raced' = raced \ {scope}
  /\ sandbox' = NoSandbox
  /\ UNCHANGED <<cmd, built>>

--------------------------------------------------------------------------
(* run.                                                                    *)

\* xdg_app_dir_load_deployed, xdg_app_deploy_get_overrides: the override files
\* that count for an app installed for the user, or for the system.
Overrides(installed) ==
  LET Loaded(scope) == xdg_app_context_load_metadata(xdg_app_context_new, file[scope])
      system == IF installed = "system"
                  THEN xdg_app_context_merge(xdg_app_context_new, Loaded("system"))
                  ELSE xdg_app_context_new
  IN xdg_app_context_merge(system, Loaded("user"))

AppContext(installed, args) ==
  LET start == SetWord(xdg_app_context_new, <<<<"policy", Portal>>, TALK>>)
      runtime == xdg_app_context_load_metadata(start, file["runtime"])
      own == xdg_app_context_load_metadata(runtime, file["app"])
  IN xdg_app_context_merge(xdg_app_context_merge(own, Overrides(installed)), args)

home_access(context) == \E f \in Home : f \in DOMAIN context.fs /\ context.fs[f]

\* MUTANT of BusFilters: --own is added after the policies.
OwnLast(context) ==
  Insert([n \in {m \in DOMAIN context.policy : context.policy[m] > NONE} |-> context.policy[n]],
         AppId, OWN)

\* xdg_app_add_bus_filters: of two arguments on one name, which are the app's
\* own and the context's, the proxy takes the last.
BusFilters(context) ==
  InsertAll(
    Insert(Nothing, AppId, OWN),
    [n \in {m \in DOMAIN context.policy : context.policy[m] > NONE} |-> context.policy[n]])

\* Paths are persisted only if the real home directory is not there.
Persisted(context) == IF home_access(context) THEN {} ELSE context.persistent

\* found is what the tests for existence find.  For "~/..." they look for the
\* argument, a directory "~" where run was started, and not for the path that
\* is mounted.
Mounts(context, found) ==
  LET exposed == {f \in DOMAIN context.fs : context.fs[f]}
      inHome == IF home_access(context) THEN {} ELSE (XdgDirs \ Disabled) \cup TildeDirs
  IN exposed \cap found \cap (OtherDirs \cup inHome)

\* For a session bus with a socket in the file system or without.
xdg_app_run_add_session_dbus_args(unrestricted, socket) ==
  IF ~unrestricted THEN "filtered" ELSE IF socket THEN "direct" ELSE "proxied"

\* xdg_app_run_add_environment_args.
Arguments(context, socket, found) ==
  LET unrestricted == SessionBus \in context.enabled
  IN [enabled |-> context.enabled, env |-> context.env,
      home |-> home_access(context), mounts |-> Mounts(context, found),
      persisted |-> Persisted(context),
      bus |-> xdg_app_run_add_session_dbus_args(unrestricted, socket),
      names |-> IF unrestricted THEN Nothing ELSE BusFilters(context)]

\* One sandbox at a time: a run changes nothing that another one reads.
run == \E installed \in {"system", "user"}, socket \in BOOLEAN, found \in HostDirs,
          list \in CommandLines :
  /\ sandbox = NoSandbox
  /\ words' = words + Len(list)
  /\ sandbox' = [installed |-> installed, args |-> Meaning(list), found |-> found,
                 got |-> Arguments(AppContext(installed, SetWords(xdg_app_context_new, list)),
                                   socket, found)]
  /\ UNCHANGED <<file, cmd, built, said, raced>>

SandboxEnds ==
  /\ sandbox # NoSandbox
  /\ sandbox' = NoSandbox
  /\ UNCHANGED <<file, cmd, words, built, said, raced>>

Next ==
  \/ \E s \in Slots : override(s) \/ build_finish(s) \/ WriteFile(s) \/ Killed(s)
  \/ \E scope \in {"system", "user"} : EditFile(scope)
  \/ run \/ SandboxEnds

Spec == Init /\ [][Next]_vars

--------------------------------------------------------------------------
(* Properties.                                                             *)

ContextType(c) ==
  /\ c.enabled \subseteq c.valid /\ c.valid \subseteq Flags
  /\ c.fs \in [DOMAIN c.fs -> BOOLEAN] /\ DOMAIN c.fs \subseteq Filesystems
  /\ c.persistent \subseteq Paths
  /\ c.policy \in [DOMAIN c.policy -> NONE .. OWN] /\ DOMAIN c.policy \subseteq BusNames
  /\ c.env \in [DOMAIN c.env -> Values] /\ DOMAIN c.env \subseteq Vars

MeaningType(m) ==
  DOMAIN m \subseteq Settings /\ \A x \in DOMAIN m : m[x] \in ValuesOf(x[1])

\* Every variable has its type: what a file turns on it also marks as valid,
\* or a later file could not turn it off.
TypeOK ==
  /\ DOMAIN file = Scopes /\ \A scope \in Scopes : ContextType(file[scope])
  /\ DOMAIN said = Scopes /\ \A scope \in Scopes : MeaningType(said[scope])
  /\ \A s \in Slots : cmd[s].scope # NULL =>
       /\ cmd[s].scope \in Scopes \ {"runtime"}
       /\ ContextType(cmd[s].read) /\ MeaningType(cmd[s].heard)
  /\ words \in 0 .. MaxWords /\ built \in BOOLEAN
  /\ raced \subseteq Scopes

\* The layers that count for the sandbox, the strongest first.
Layers ==
  <<sandbox.args, said["user"], IF sandbox.installed = "system" THEN said["system"] ELSE Nothing,
    said["app"], said["runtime"], Insert(Nothing, <<"policy", Portal>>, TALK)>>

Speaking(x) == {i \in DOMAIN Layers : x \in DOMAIN Layers[i]}

Says(x, default) == IF Speaking(x) = {} THEN default ELSE Layers[Min(Speaking(x))][x]

SomeLayerSays(x, value) == \E i \in Speaking(x) : Layers[i][x] = value

Judged == sandbox # NoSandbox /\ raced = {}

\* Of everything said about a flag or a variable, the strongest layer's last
\* word is what the sandbox gets, however many files were read, merged and
\* written back in between; paths are persisted if anyone said so.
LastWordRuns == Judged =>
  /\ \A f \in Flags : f \in sandbox.got.enabled <=> Says(<<"flag", f>>, FALSE)
  /\ \A v \in Vars : v \in DOMAIN sandbox.got.env <=> Speaking(<<"env", v>>) # {}
  /\ \A v \in DOMAIN sandbox.got.env : sandbox.got.env[v] = Says(<<"env", v>>, NULL)
  /\ sandbox.got.persisted =
       IF sandbox.got.home THEN {} ELSE {p \in Paths : SomeLayerSays(<<"persist", p>>, TRUE)}

Exposed(f) ==
  IF f \in Home THEN sandbox.got.home
  ELSE f \in sandbox.got.mounts \/ (f \in XdgDirs \cup TildeDirs /\ sandbox.got.home)

\* A filesystem the last word exposes is exposed, unless it does not exist or
\* is an xdg directory that is not in use; and one that is exposed some layer
\* exposed, and the command line of run did not take away.  Of "~/..." only the
\* second is so.
ExposedAsSaid == Judged =>
  /\ \A f \in Home \cup (sandbox.found \ (TildeDirs \cup Disabled)) :
       Says(<<"fs", f>>, FALSE) => Exposed(f)
  /\ \A f \in sandbox.got.mounts :
       /\ SomeLayerSays(<<"fs", f>>, TRUE)
       /\ <<"fs", f>> \in DOMAIN sandbox.args => sandbox.args[<<"fs", f>>]
  /\ sandbox.got.home => \E f \in Home :
       /\ SomeLayerSays(<<"fs", f>>, TRUE)
       /\ <<"fs", f>> \in DOMAIN sandbox.args => sandbox.args[<<"fs", f>>]

\* doc/xdg-app-run.xml of --filesystem: "an absolute path, or a a
\* homedir-relative path like ~/dir".  A directory "~/..." that the last word
\* exposes is exposed.  Not so, unless there is one of that name where run was
\* started: no run checks it.
HomePathsExposed == Judged =>
  \A f \in TildeDirs : Says(<<"fs", f>>, FALSE) => Exposed(f)

\* The bus is unfiltered only if the last word on its socket says so.  The
\* table of the proxy gives a name the policy of the last word that grants
\* one, the app may own its own name unless someone said otherwise, and no
\* other name is granted.
NamesAsSaid == Judged =>
  /\ sandbox.got.bus # "filtered" <=> Says(<<"flag", SessionBus>>, FALSE)
  /\ sandbox.got.bus = "filtered" =>
       /\ \A n \in BusNames :
            LET level == Says(<<"policy", n>>, NONE)
            IN level > NONE => n \in DOMAIN sandbox.got.names /\ sandbox.got.names[n] = level
       /\ \A n \in DOMAIN sandbox.got.names :
            SomeLayerSays(<<"policy", n>>, sandbox.got.names[n])
            \/ (n = AppId /\ sandbox.got.names[n] = OWN)

\* doc/xdg-app-override.xml: "But the user can override it on a particular
\* instance by specifying extra arguments to xdg-app run, or every time by
\* using xdg-app override."  What the user's overrides last said about a
\* filesystem decides, unless the command line of run says otherwise.
OverridesPersist == Judged => \A f \in OtherDirs :
  f \in sandbox.found /\ <<"fs", f>> \in DOMAIN said["user"] \ DOMAIN sandbox.args =>
    (Exposed(f) <=> said["user"][<<"fs", f>>])
=============================================================================
