---------------------------- MODULE AppIdLookup ----------------------------
(***************************************************************************)
(* Which app sent a method call: lib/xdg-app-utils.c.  The portal asks the *)
(* bus for the process of the sender, reads the cgroup of that process and *)
(* remembers the app id until the sender leaves the bus.  Requests of one  *)
(* sender wait for the same answer.                                      *)
(*                                                                         *)
(* The main loop dispatches what the bus sends in the order it sends it.   *)
(* Unique names are never used twice, so a sender that left does not come  *)
(* back; and no process gets the pid of the sender while it is looked up.  *)
(* The bus answers with an error if it does not know the process.  The     *)
(* callback takes an error for an answer: only a call without any reply    *)
(* and a sender that was seen to leave keep it from reading a pid.         *)
(***************************************************************************)
EXTENDS Naturals, Sequences

CONSTANTS Senders,  \* unique names of connections
          PidKnown, \* those whose process the bus knows: all on a Unix socket
          Requests, \* method calls to the portal
          AppIds,   \* app ids, "" among them
          None      \* NULL: no app id, no entry, no sender

ASSUME PidKnownAssumption == PidKnown \subseteq Senders

ASSUME AppIdsAssumption == AppIds \cap {"new", "waiting", "error", None} = {}

Message ==
  [kind : {"call"}, sender : Senders, request : Requests]
    \cup [kind : {"gone"}, sender : Senders]
    \cup [kind : {"reply"}, serial : Nat, body : {"pid", "error"}]
Call == [serial : Nat, sender : Senders]
AppIdInfo == [app_id : AppIds \cup {None}, exited : BOOLEAN, pending : SUBSET Requests]

ASSUME NoneAssumption == None \notin Senders \cup AppIdInfo

VARIABLES
  scope,    \* what the cgroup of each sender says, None if it names no app
  connected,\* the senders on the bus
  outbox,   \* calls on their way to the bus
  inbox,    \* what the bus sent and the main loop has not dispatched yet
  app_ids,  \* the table: sender -> AppIdInfo, None if there is none
  calls,    \* the calls whose callback has not run
  serial,   \* the serial of the last call
  sender,   \* who sent each request, None before that
  told      \* what each request got

bus == <<scope, connected, outbox>>
vars == <<bus, inbox, app_ids, calls, serial, sender, told>>

Init ==
  /\ scope \in [Senders -> AppIds \cup {None}]
  /\ connected = Senders
  /\ outbox = <<>>
  /\ inbox = <<>>
  /\ app_ids = [s \in Senders |-> None]
  /\ calls = {}
  /\ serial = 0
  /\ sender = [r \in Requests |-> None]
  /\ told = [r \in Requests |-> "new"]

-----------------------------------------------------------------------------
(* The bus and the senders.                                                *)

SendRequest(s, r) ==
  /\ s \in connected
  /\ sender[r] = None
  /\ sender' = [sender EXCEPT ![r] = s]
  /\ inbox' = Append(inbox, [kind |-> "call", sender |-> s, request |-> r])
  /\ UNCHANGED <<bus, app_ids, calls, serial, told>>

\* The bus tells everybody with NameOwnerChanged.
Disconnect(s) ==
  /\ s \in connected
  /\ connected' = connected \ {s}
  /\ inbox' = Append(inbox, [kind |-> "gone", sender |-> s])
  /\ UNCHANGED <<scope, outbox, app_ids, calls, serial, sender, told>>

\* An error (NameHasNoOwner) for a sender that left, and (UnixProcessIdUnknown)
\* for one whose process the bus does not know.
GetConnectionUnixProcessID ==
  /\ outbox # <<>>
  /\ outbox' = Tail(outbox)
  /\ inbox' = Append(inbox, [kind |-> "reply", serial |-> Head(outbox).serial,
                             body |-> IF Head(outbox).sender \in connected \cap PidKnown
                                        THEN "pid" ELSE "error"])
  /\ UNCHANGED <<scope, connected, app_ids, calls, serial, sender, told>>

-----------------------------------------------------------------------------
(* The handlers of the main loop.                                          *)

\* Adds r to the requests that wait for info; only the first asks the bus.
Wait(s, r, info) ==
  /\ app_ids' = [app_ids EXCEPT ![s] = [info EXCEPT !.pending = @ \cup {r}]]
  /\ told' = [told EXCEPT ![r] = "waiting"]
  /\ IF info.pending = {}
     THEN /\ serial' = serial + 1
          /\ calls' = calls \cup {[serial |-> serial + 1, sender |-> s]}
          /\ outbox' = Append(outbox, [serial |-> serial + 1, sender |-> s])
     ELSE UNCHANGED <<serial, calls, outbox>>

xdg_app_invocation_lookup_app_id(s, r) ==
  LET info == IF app_ids[s] = None THEN [app_id |-> None, exited |-> FALSE, pending |-> {}]
              ELSE app_ids[s]
  IN  IF info.app_id = None
      THEN Wait(s, r, info)
      ELSE /\ told' = [told EXCEPT ![r] = info.app_id]
           /\ UNCHANGED <<app_ids, calls, serial, outbox>>

\* What the cgroup file of the pid gives, or nothing if it cannot be read.  The
\* body of an error is a string: the pid read from it is not set, and may be
\* that of any process or of none.
ReadAppId(s, body) == IF body = "pid" THEN {scope[s], None} ELSE AppIds \cup {None}

\* MUTANT of AnswerPending: only one request of the list is answered.
AnswersOne(s, info, app_id) ==
  /\ \E r \in info.pending : told' = [told EXCEPT ![r] = IF app_id = None THEN "error" ELSE app_id]
  /\ app_ids' = [app_ids EXCEPT ![s] =
       IF app_id = None THEN None ELSE [info EXCEPT !.app_id = app_id, !.pending = {}]]

\* MUTANT of AnswerPending: answers whoever waits, for other senders too.
AnswersEveryone(s, info, app_id) ==
  /\ told' = [r \in Requests |-> IF told[r] = "waiting"
                                   THEN IF app_id = None THEN "error" ELSE app_id
                                   ELSE told[r]]
  /\ app_ids' = [app_ids EXCEPT ![s] =
       IF app_id = None THEN None ELSE [info EXCEPT !.app_id = app_id, !.pending = {}]]

\* Every request on the list gets the app id, or an error; an entry without
\* an app id goes.
AnswerPending(s, info, app_id) ==
  /\ told' = [r \in Requests |-> IF r \in info.pending
                                   THEN IF app_id = None THEN "error" ELSE app_id
                                   ELSE told[r]]
  /\ app_ids' = [app_ids EXCEPT ![s] =
       IF app_id = None THEN None ELSE [info EXCEPT !.app_id = app_id, !.pending = {}]]

\* MUTANT of got_credentials_cb: does not look at exited.
ReadsAfterExit(call, body) ==
  LET info == app_ids[call.sender]
  IN  /\ \E app_id \in IF body = "none" THEN {None} ELSE ReadAppId(call.sender, body) :
           AnswerPending(call.sender, info, app_id)
      /\ calls' = calls \ {call}
      /\ UNCHANGED <<serial, outbox>>

\* The callback of a call; body is what the reply holds, "none" if there is none.
got_credentials_cb(call, body) ==
  LET info == app_ids[call.sender]
  IN  /\ \E app_id \in IF body = "none" \/ info.exited THEN {None} ELSE ReadAppId(call.sender, body) :
           AnswerPending(call.sender, info, app_id)
      /\ calls' = calls \ {call}
      /\ UNCHANGED <<serial, outbox>>

\* MUTANT of name_owner_changed: the entry stays.
OnlyMarks(s) ==
  /\ app_ids' = IF app_ids[s] = None THEN app_ids ELSE [app_ids EXCEPT ![s].exited = TRUE]
  /\ UNCHANGED <<calls, serial, outbox, told>>

\* The entry of a sender that left stays while requests wait for it.
name_owner_changed(s) ==
  /\ app_ids' =
       IF app_ids[s] = None THEN app_ids
       ELSE IF app_ids[s].pending = {} THEN [app_ids EXCEPT ![s] = None]
       ELSE [app_ids EXCEPT ![s].exited = TRUE]
  /\ UNCHANGED <<calls, serial, outbox, told>>

\* The next message; a reply that comes after its timeout finds no call.
Dispatch ==
  /\ inbox # <<>>
  /\ inbox' = Tail(inbox)
  /\ LET m == Head(inbox)
     IN  \/ m.kind = "call" /\ xdg_app_invocation_lookup_app_id(m.sender, m.request)
         \/ m.kind = "gone" /\ name_owner_changed(m.sender)
         \/ /\ m.kind = "reply"
            /\ \E call \in calls : call.serial = m.serial /\ got_credentials_cb(call, m.body)
         \/ /\ m.kind = "reply"
            /\ \A call \in calls : call.serial # m.serial
            /\ UNCHANGED <<app_ids, calls, serial, outbox, told>>
  /\ UNCHANGED <<scope, connected, sender>>

\* 30 seconds have passed.
Timeout ==
  /\ \E call \in calls : got_credentials_cb(call, "none")
  /\ UNCHANGED <<scope, connected, inbox, sender>>

Next ==
  \/ \E s \in Senders : Disconnect(s) \/ \E r \in Requests : SendRequest(s, r)
  \/ GetConnectionUnixProcessID
  \/ Dispatch
  \/ Timeout

Spec == Init /\ [][Next]_vars

\* The main loop runs and its timers fire; the bus need not answer.
FairSpec == Spec /\ WF_vars(Dispatch) /\ WF_vars(Timeout)

-----------------------------------------------------------------------------
(* Properties.                                                             *)

\* TypeOK: the variables have their types.
TypeOK ==
  /\ scope \in [Senders -> AppIds \cup {None}]
  /\ connected \subseteq Senders
  /\ outbox \in Seq(Call)
  /\ inbox \in Seq(Message)
  /\ app_ids \in [Senders -> AppIdInfo \cup {None}]
  /\ calls \subseteq Call
  /\ serial \in Nat
  /\ sender \in [Requests -> Senders \cup {None}]
  /\ told \in [Requests -> AppIds \cup {"new", "waiting", "error"}]

\* WaitersHaveCall: an entry has requests on its list exactly while one call
\* is under way for it.  So no request waits for a callback that will not
\* come, and no callback runs on an entry that was freed.
WaitersHaveCall ==
  /\ \A r \in Requests :
       told[r] = "waiting" => app_ids[sender[r]] # None /\ r \in app_ids[sender[r]].pending
  /\ \A s \in Senders :
       (\E call \in calls : call.sender = s) <=> app_ids[s] # None /\ app_ids[s].pending # {}
  /\ \A call1, call2 \in calls : call1.sender = call2.sender => call1 = call2

\* AnswersAgree: a request of a sender whose process the bus knows is never told
\* the app of another one, through timeouts, late replies and retries.  The bus
\* has only errors about a sender that left, and those come when the callback
\* does not read replies for it any more.
AnswersAgree ==
  \A r \in Requests :
    told[r] \in AppIds /\ sender[r] \in PidKnown => told[r] = scope[sender[r]]

\* Whether the portal has seen s leave the bus.
SeenGone(s) ==
  s \notin connected /\ \A i \in DOMAIN inbox : inbox[i] # [kind |-> "gone", sender |-> s]

\* ExitedForgotten: the table has no entry for a sender that was seen to
\* leave, unless requests wait for it: it does not grow with the connections
\* there ever were.
ExitedForgotten ==
  \A s \in Senders : SeenGone(s) /\ app_ids[s] # None => app_ids[s].pending # {}

\* NoneNamedAfterExit: once the portal has seen a sender leave, it takes no
\* process for it any more, and the requests that wait get an error.
NoneNamedAfterExit ==
  [][\A r \in Requests :
       told[r] = "waiting" /\ SeenGone(sender[r]) => told'[r] \notin AppIds]_vars

\* EveryRequestAnswered: a request that waits for an app id is answered,
\* even if the bus never does.
EveryRequestAnswered == \A r \in Requests : told[r] = "waiting" ~> told[r] # "waiting"
=============================================================================
