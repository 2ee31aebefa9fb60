------------------------- MODULE PendingCallProofs -------------------------
(***************************************************************************)
(* Proofs about the two services that answer their calls later.            *)
(*                                                                         *)
(* AppIdLookup, for every set of senders, requests and app ids.  That the  *)
(* table forgets who left depends on the order of the bus: no request of a *)
(* sender comes after the signal that it left (Ordered).  That the answers *)
(* are right depends on it as well: the bus has an error about a sender    *)
(* whose process it knows only after that signal (ErrorsLate), and then    *)
(* the entry is marked before the callback runs (Marked).                  *)
(*                                                                         *)
(* PermissionStore, for every set of ids, apps, values and calls.          *)
(* AnsweredIsDurable is not inductive: a call is answered from the save    *)
(* that contains it, so the invariant follows every waiting call through   *)
(* the queues and says which prefix of the changes each save carries.      *)
(* What a prefix of the changes makes is a recursive function, followed    *)
(* one change at a time with the changes themselves.                       *)
(***************************************************************************)
EXTENDS AppIdLookup, PermissionStore, TLAPS, WellFoundedInduction

-----------------------------------------------------------------------------
(* The sender of a call.                                                   *)

Gone(s) == [kind |-> "gone", sender |-> s]

\* Requests that wait in the inbox come from who sent them, and before the
\* signal that tells of its end.
Ordered ==
  \A i \in 1..Len(inbox) :
    inbox[i].kind = "call" =>
      /\ sender[inbox[i].request] = inbox[i].sender
      /\ inbox[i].sender \in connected
           \/ \E j \in 1..Len(inbox) : i < j /\ inbox[j] = Gone(inbox[i].sender)

\* A call has a serial of its own, on its way to the bus and in the reply.
Serials ==
  /\ \A call1, call2 \in calls : call1.serial = call2.serial => call1 = call2
  /\ \A call \in calls : call.serial <= serial
  /\ \A i \in 1..Len(outbox) :
       /\ outbox[i].serial <= serial
       /\ \A call \in calls : call.serial = outbox[i].serial => call = outbox[i]
  /\ \A i \in 1..Len(inbox) : inbox[i].kind = "reply" => inbox[i].serial <= serial

ErrorReply(call) == [kind |-> "reply", serial |-> call.serial, body |-> "error"]

\* An error about a sender whose process the bus knows comes after the signal
\* that it left.
ErrorsLate ==
  \A call \in calls : call.sender \in PidKnown =>
    \A i \in 1..Len(inbox) : inbox[i] = ErrorReply(call) =>
      /\ call.sender \notin connected
      /\ \A j \in 1..Len(inbox) : i < j => inbox[j] # Gone(call.sender)

\* A request has a sender once it was looked at, and an entry has the app of
\* its sender if the bus knows the process, and requests of its sender.
Entries ==
  /\ \A r \in Requests : told[r] = "new" \/ sender[r] \in Senders
  /\ \A s \in Senders :
       app_ids[s] # None =>
         /\ s \in PidKnown => app_ids[s].app_id \in {None, scope[s]}
         /\ \A r \in app_ids[s].pending : sender[r] = s

Core == Entries /\ WaitersHaveCall /\ AnswersAgree

\* An entry whose sender was seen to leave knows it, and requests wait.
Marked ==
  \A s \in Senders :
    SeenGone(s) /\ app_ids[s] # None => app_ids[s].exited /\ app_ids[s].pending # {}

IInv == TypeOK /\ Ordered /\ Serials /\ ErrorsLate /\ Core /\ Marked

\* The callback of a call about a sender whose process the bus knows gets an
\* answer, nothing, or an error that it does not read.
Fits(call, body) ==
  call.sender \in PidKnown => body \in {"pid", "none"} \/ app_ids[call.sender].exited

-----------------------------------------------------------------------------
(* Types.                                                                  *)

\* The record a lookup starts from is an entry.
LEMMA WaitTypes ==
  ASSUME TypeOK, NEW s \in Senders, NEW r \in Requests, NEW info \in AppIdInfo, Wait(s, r, info)
  PROVE  /\ app_ids' \in [Senders -> AppIdInfo \cup {None}]
         /\ told' \in [Requests -> AppIds \cup {"new", "waiting", "error"}]
         /\ calls' \subseteq Call /\ serial' \in Nat /\ outbox' \in Seq(Call)
<1>1. [info EXCEPT !.pending = @ \cup {r}] \in AppIdInfo
  BY DEF AppIdInfo
<1>2. [serial |-> serial + 1, sender |-> s] \in Call
  BY DEF TypeOK, Call
<1>3. app_ids' \in [Senders -> AppIdInfo \cup {None}]
  BY <1>1 DEF TypeOK, Wait
<1>4. told' \in [Requests -> AppIds \cup {"new", "waiting", "error"}]
  BY DEF TypeOK, Wait
<1>5. calls' \subseteq Call /\ serial' \in Nat
  BY <1>2 DEF TypeOK, Wait
<1>6. outbox' \in Seq(Call)
  <2> DEFINE c == [serial |-> serial + 1, sender |-> s]
  <2>1. c \in Call /\ outbox \in Seq(Call)
    BY <1>2 DEF TypeOK
  <2>2. outbox' = outbox \/ outbox' = Append(outbox, c)
    BY DEF Wait
  <2> HIDE DEF c
  <2> QED
    BY <2>1, <2>2
<1> QED
  BY <1>3, <1>4, <1>5, <1>6

\* The entry a request of s is added to, or answered from.
InfoOf(s) == IF app_ids[s] = None THEN [app_id |-> None, exited |-> FALSE, pending |-> {}]
             ELSE app_ids[s]

LEMMA InfoOfType ==
  ASSUME TypeOK, NEW s \in Senders
  PROVE  InfoOf(s) \in AppIdInfo
BY DEF TypeOK, InfoOf, AppIdInfo

LEMMA LookupTypes ==
  ASSUME TypeOK, NEW s \in Senders, NEW r \in Requests, xdg_app_invocation_lookup_app_id(s, r)
  PROVE  /\ app_ids' \in [Senders -> AppIdInfo \cup {None}]
         /\ told' \in [Requests -> AppIds \cup {"new", "waiting", "error"}]
         /\ calls' \subseteq Call /\ serial' \in Nat /\ outbox' \in Seq(Call)
<1>1. CASE InfoOf(s).app_id = None
  <2>1. Wait(s, r, InfoOf(s))
    BY <1>1 DEF xdg_app_invocation_lookup_app_id, InfoOf
  <2> QED
    BY <2>1, WaitTypes, InfoOfType
<1>2. CASE InfoOf(s).app_id # None
  <2>1. /\ told' = [told EXCEPT ![r] = InfoOf(s).app_id]
        /\ UNCHANGED <<app_ids, calls, serial, outbox>>
    BY <1>2 DEF xdg_app_invocation_lookup_app_id, InfoOf
  <2>2. InfoOf(s).app_id \in AppIds
    BY <1>2, InfoOfType DEF AppIdInfo
  <2> QED
    BY <2>1, <2>2 DEF TypeOK
<1> QED
  BY <1>1, <1>2

\* A callback gives its requests an app id, of the sender if the bus knows the
\* process, or None.
LEMMA CredentialsStep ==
  ASSUME TypeOK, NEW call \in calls, NEW body, got_credentials_cb(call, body), Fits(call, body)
  PROVE  \E app_id \in AppIds \cup {None} :
           /\ AnswerPending(call.sender, app_ids[call.sender], app_id)
           /\ app_ids[call.sender].exited => app_id = None
           /\ call.sender \in PidKnown => app_id \in {scope[call.sender], None}
<1> DEFINE s == call.sender
<1>1. s \in Senders /\ scope[s] \in AppIds \cup {None}
  BY DEF TypeOK, Call
<1> HIDE DEF s
<1>2. CASE body = "none" \/ app_ids[s].exited
  BY <1>2 DEF got_credentials_cb, s
<1>3. CASE body # "none" /\ ~app_ids[s].exited
  <2>1. PICK app_id \in ReadAppId(s, body) : AnswerPending(s, app_ids[s], app_id)
    BY <1>3 DEF got_credentials_cb, s
  <2>2. app_id \in AppIds \cup {None} /\ (body = "pid" => app_id \in {scope[s], None})
    BY <1>1, <2>1 DEF ReadAppId
  <2>3. s \in PidKnown => body = "pid"
    BY <1>3 DEF Fits, s
  <2> QED
    BY <1>3, <2>1, <2>2, <2>3 DEF s
<1> QED
  BY <1>2, <1>3

\* So it is with the first reply in the inbox.
LEMMA HeadFits ==
  ASSUME IInv, inbox # <<>>, Head(inbox).kind = "reply",
         NEW call \in calls, call.serial = Head(inbox).serial
  PROVE  Fits(call, Head(inbox).body)
<1> DEFINE s == call.sender
<1>1. SUFFICES ASSUME s \in PidKnown, Head(inbox).body # "pid"
               PROVE  app_ids[s].exited
  BY DEF Fits
<1>2. /\ 1 \in 1..Len(inbox) /\ Head(inbox) = inbox[1] /\ Head(inbox) \in Message
      /\ DOMAIN inbox = 1..Len(inbox)
  BY DEF IInv, TypeOK
<1>3. Head(inbox) = ErrorReply(call)
  BY <1>1, <1>2 DEF Message, ErrorReply
<1>4. s \notin connected /\ \A j \in 1..Len(inbox) : 1 < j => inbox[j] # Gone(s)
  BY <1>1, <1>2, <1>3 DEF IInv, ErrorsLate
<1>5. inbox[1] # Gone(s)
  BY <1>2, <1>3 DEF ErrorReply, Gone
<1>6. \A j \in 1..Len(inbox) : j = 1 \/ 1 < j
  BY DEF IInv, TypeOK
<1>7. SeenGone(s)
  BY <1>2, <1>4, <1>5, <1>6 DEF SeenGone, Gone
<1>8. s \in Senders /\ app_ids[s] # None
  BY DEF IInv, TypeOK, Core, WaitersHaveCall, Call
<1> QED
  BY <1>7, <1>8 DEF IInv, Marked

LEMMA CredentialsTypes ==
  ASSUME TypeOK, Core, NEW call \in calls, NEW body, got_credentials_cb(call, body),
         Fits(call, body)
  PROVE  /\ app_ids' \in [Senders -> AppIdInfo \cup {None}]
         /\ told' \in [Requests -> AppIds \cup {"new", "waiting", "error"}]
<1> DEFINE s == call.sender
<1>1. s \in Senders /\ app_ids[s] \in AppIdInfo
  BY DEF TypeOK, Core, WaitersHaveCall, Call
<1>2. PICK app_id \in AppIds \cup {None} : AnswerPending(s, app_ids[s], app_id)
  BY CredentialsStep
<1>3. app_id \in AppIds \cup {None}
  BY <1>2
<1> HIDE DEF s
<1>4. [app_ids[s] EXCEPT !.app_id = app_id, !.pending = {}] \in AppIdInfo
  BY <1>1, <1>3 DEF AppIdInfo
<1>5. app_ids' \in [Senders -> AppIdInfo \cup {None}]
  BY <1>1, <1>2, <1>4 DEF TypeOK, AnswerPending
<1>6. told' \in [Requests -> AppIds \cup {"new", "waiting", "error"}]
  BY <1>2, <1>3 DEF TypeOK, AnswerPending
<1> QED
  BY <1>5, <1>6

\* Every step keeps the types.
LEMMA TypeStep ==
  ASSUME IInv, [Next]_vars
  PROVE  TypeOK'
<1> USE DEF IInv
<1>1. ASSUME NEW s \in Senders, Disconnect(s)
      PROVE  TypeOK'
  <2>1. Gone(s) \in Message
    BY DEF Gone, Message
  <2>2. inbox' = Append(inbox, Gone(s)) /\ inbox \in Seq(Message)
    BY <1>1 DEF Disconnect, Gone, TypeOK
  <2>3. inbox' \in Seq(Message)
    BY <2>1, <2>2
  <2> QED
    BY <1>1, <2>3 DEF Disconnect, TypeOK
<1>2. ASSUME NEW s \in Senders, NEW r \in Requests, SendRequest(s, r)
      PROVE  TypeOK'
  <2> DEFINE m == [kind |-> "call", sender |-> s, request |-> r]
  <2>1. m \in Message
    BY DEF Message
  <2>2. inbox' = Append(inbox, m) /\ inbox \in Seq(Message)
    BY <1>2 DEF SendRequest, TypeOK
  <2> HIDE DEF m
  <2>3. inbox' \in Seq(Message)
    BY <2>1, <2>2
  <2> QED
    BY <1>2, <2>3 DEF SendRequest, TypeOK, bus
<1>3. CASE GetConnectionUnixProcessID
  <2> DEFINE body == IF Head(outbox).sender \in connected \cap PidKnown THEN "pid" ELSE "error"
             m == [kind |-> "reply", serial |-> Head(outbox).serial, body |-> body]
  <2>1. Head(outbox) \in Call /\ Tail(outbox) \in Seq(Call)
    BY <1>3 DEF GetConnectionUnixProcessID, TypeOK
  <2>2. body \in {"pid", "error"}
    OBVIOUS
  <2>3. Head(outbox).serial \in Nat
    BY <2>1 DEF Call
  <2> HIDE DEF body
  <2>4. m \in Message
    BY <2>2, <2>3 DEF Message
  <2> USE DEF body
  <2>5. inbox' = Append(inbox, m) /\ inbox \in Seq(Message)
    BY <1>3 DEF GetConnectionUnixProcessID, TypeOK
  <2> HIDE DEF m
  <2>6. inbox' \in Seq(Message)
    BY <2>4, <2>5
  <2> QED
    BY <1>3, <2>1, <2>6 DEF GetConnectionUnixProcessID, TypeOK
<1>4. CASE Dispatch
  <2>1. Head(inbox) \in Message /\ Tail(inbox) \in Seq(Message)
    BY <1>4 DEF Dispatch, TypeOK
  <2>2. /\ app_ids' \in [Senders -> AppIdInfo \cup {None}]
        /\ told' \in [Requests -> AppIds \cup {"new", "waiting", "error"}]
        /\ calls' \subseteq Call /\ serial' \in Nat /\ outbox' \in Seq(Call)
    <3>1. CASE /\ Head(inbox).kind = "call"
               /\ xdg_app_invocation_lookup_app_id(Head(inbox).sender, Head(inbox).request)
      <4>1. Head(inbox).sender \in Senders /\ Head(inbox).request \in Requests
        BY <2>1, <3>1 DEF Message
      <4> QED
        BY <3>1, <4>1, LookupTypes
    <3>2. CASE Head(inbox).kind = "gone" /\ name_owner_changed(Head(inbox).sender)
      <4>1. Head(inbox).sender \in Senders
        BY <2>1, <3>2 DEF Message
      <4> QED
        BY <3>2, <4>1 DEF name_owner_changed, TypeOK, AppIdInfo
    <3>3. ASSUME Head(inbox).kind = "reply", NEW call \in calls,
                 call.serial = Head(inbox).serial, got_credentials_cb(call, Head(inbox).body)
          PROVE  /\ app_ids' \in [Senders -> AppIdInfo \cup {None}]
                 /\ told' \in [Requests -> AppIds \cup {"new", "waiting", "error"}]
                 /\ calls' \subseteq Call /\ serial' \in Nat /\ outbox' \in Seq(Call)
      <4>1. calls' \subseteq Call /\ serial' \in Nat /\ outbox' \in Seq(Call)
        BY <3>3 DEF got_credentials_cb, TypeOK
      <4> QED
        BY <1>4, <3>3, <4>1, HeadFits, CredentialsTypes DEF Dispatch
    <3>4. CASE UNCHANGED <<app_ids, calls, serial, outbox, told>>
      BY <3>4 DEF TypeOK
    <3> QED
      BY <1>4, <3>1, <3>2, <3>3, <3>4 DEF Dispatch
  <2> QED
    BY <1>4, <2>1, <2>2 DEF Dispatch, TypeOK
<1>5. CASE Timeout
  <2>1. PICK call \in calls : got_credentials_cb(call, "none")
    BY <1>5 DEF Timeout
  <2>2. /\ app_ids' \in [Senders -> AppIdInfo \cup {None}]
        /\ told' \in [Requests -> AppIds \cup {"new", "waiting", "error"}]
    BY <2>1, CredentialsTypes DEF Fits
  <2> QED
    BY <1>5, <2>1, <2>2 DEF Timeout, got_credentials_cb, TypeOK
<1>6. CASE UNCHANGED vars
  BY <1>6 DEF vars, bus, TypeOK
<1> QED
  BY <1>1, <1>2, <1>3, <1>4, <1>5, <1>6 DEF Next

-----------------------------------------------------------------------------
(* Waiting requests and their calls.                                       *)

\* Adding a request to an entry keeps one call per entry with requests.
LEMMA LookupKeepsCore ==
  ASSUME TypeOK, Core, NEW s \in Senders, NEW r \in Requests, sender[r] = s,
         xdg_app_invocation_lookup_app_id(s, r), UNCHANGED <<scope, sender>>
  PROVE  Core'
<1> DEFINE info == InfoOf(s)
<1>1. info \in AppIdInfo /\ (s \in PidKnown => info.app_id \in {None, scope[s]})
  BY InfoOfType DEF InfoOf, Core, Entries
<1>2. \A q \in info.pending : sender[q] = s
  BY DEF InfoOf, Core, Entries
<1>3. CASE info.app_id = None
  <2>1. Wait(s, r, info)
    BY <1>3 DEF xdg_app_invocation_lookup_app_id, InfoOf
  <2> DEFINE added == [info EXCEPT !.pending = @ \cup {r}]
  <2>2. /\ app_ids' = [app_ids EXCEPT ![s] = added]
        /\ told' = [told EXCEPT ![r] = "waiting"]
    BY <2>1 DEF Wait
  <2>3. /\ added \in AppIdInfo /\ added.pending = info.pending \cup {r}
        /\ added.app_id = info.app_id
    BY <1>1 DEF AppIdInfo
  <2>4. info.pending = {} <=> ~ \E call \in calls : call.sender = s
    BY DEF InfoOf, Core, WaitersHaveCall
  <2>5. app_ids[s] # None => app_ids[s].pending \subseteq info.pending
    BY DEF InfoOf
  <2> HIDE DEF info, added
  <2>6. added # None
    BY <2>3, NoneAssumption
  <2>7. Entries'
    BY <1>1, <1>2, <2>2, <2>3 DEF TypeOK, Core, Entries
  <2>8. AnswersAgree'
    BY <2>2, AppIdsAssumption DEF TypeOK, Core, AnswersAgree
  <2>9. (\A q \in Requests : told[q] = "waiting" =>
           app_ids[sender[q]] # None /\ q \in app_ids[sender[q]].pending)'
    <3>1. \A q \in Requests : told[q] = "waiting" => sender[q] \in Senders
      BY DEF Core, Entries
    <3> QED
      BY <2>2, <2>3, <2>5, <2>6, <3>1 DEF TypeOK, Core, WaitersHaveCall
  <2>10. \E c : c.sender = s /\ calls' = IF info.pending = {} THEN calls \cup {c} ELSE calls
    <3>1. [serial |-> serial + 1, sender |-> s].sender = s
      OBVIOUS
    <3> QED
      BY <2>1, <3>1 DEF Wait
  <2>11. (/\ \A t \in Senders : (\E call \in calls : call.sender = t)
                                  <=> app_ids[t] # None /\ app_ids[t].pending # {}
          /\ \A call1, call2 \in calls : call1.sender = call2.sender => call1 = call2)'
    <3>1. app_ids'[s] # None /\ app_ids'[s].pending # {}
      BY <2>2, <2>3, <2>6 DEF TypeOK
    <3>2. \A t \in Senders \ {s} : app_ids'[t] = app_ids[t]
      BY <2>2 DEF TypeOK
    <3>3. /\ \E c \in calls' : c.sender = s
          /\ \A t \in Senders \ {s} :
               (\E c \in calls' : c.sender = t) <=> \E c \in calls : c.sender = t
      BY <2>4, <2>10
    <3>4. \A call1, call2 \in calls' : call1.sender = call2.sender => call1 = call2
      BY <2>4, <2>10 DEF Core, WaitersHaveCall
    <3> QED
      BY <3>1, <3>2, <3>3, <3>4 DEF Core, WaitersHaveCall
  <2> QED
    BY <2>7, <2>8, <2>9, <2>11 DEF Core, WaitersHaveCall
<1>4. CASE info.app_id # None
  <2>1. /\ told' = [told EXCEPT ![r] = info.app_id]
        /\ UNCHANGED <<app_ids, calls, serial, outbox>>
    BY <1>4 DEF xdg_app_invocation_lookup_app_id, InfoOf
  <2>2. (s \in PidKnown => info.app_id = scope[s]) /\ info.app_id # "waiting"
    BY <1>1, <1>4, AppIdsAssumption DEF AppIdInfo
  <2> HIDE DEF info
  <2>3. Entries'
    BY <2>1 DEF TypeOK, Core, Entries
  <2>4. WaitersHaveCall'
    BY <2>1, <2>2 DEF TypeOK, Core, WaitersHaveCall
  <2>5. AnswersAgree'
    BY <2>1, <2>2 DEF TypeOK, Core, AnswersAgree
  <2> QED
    BY <2>3, <2>4, <2>5 DEF Core
<1> QED
  BY <1>3, <1>4

\* A callback answers all that wait for it and leaves nobody waiting.
LEMMA CredentialsKeepsCore ==
  ASSUME TypeOK, Core, NEW call \in calls, NEW body, got_credentials_cb(call, body),
         Fits(call, body), UNCHANGED <<scope, sender>>
  PROVE  Core'
<1> DEFINE s == call.sender
<1>1. s \in Senders /\ app_ids[s] # None /\ app_ids[s] \in AppIdInfo /\ calls' = calls \ {call}
  BY DEF TypeOK, Core, WaitersHaveCall, Call, got_credentials_cb
<1>2. PICK app_id \in AppIds \cup {None} :
        /\ AnswerPending(s, app_ids[s], app_id)
        /\ s \in PidKnown => app_id \in {scope[s], None}
  BY CredentialsStep
<1> DEFINE answered == [app_ids[s] EXCEPT !.app_id = app_id, !.pending = {}]
<1>3. /\ told' = [q \in Requests |-> IF q \in app_ids[s].pending
                                      THEN IF app_id = None THEN "error" ELSE app_id
                                      ELSE told[q]]
      /\ app_ids' = [app_ids EXCEPT ![s] = IF app_id = None THEN None ELSE answered]
  BY <1>2 DEF AnswerPending
<1>4. answered.app_id = app_id /\ answered.pending = {}
  BY <1>1 DEF AppIdInfo
<1>5. \A q \in app_ids[s].pending : sender[q] = s
  BY <1>1 DEF Core, Entries
<1>6. call.sender = s
  OBVIOUS
<1>7. app_id \in AppIds \cup {None}
  BY <1>2
<1> HIDE DEF s, answered
<1>8. Entries'
  BY <1>1, <1>2, <1>3, <1>4, <1>5 DEF TypeOK, Core, Entries
<1>9. AnswersAgree'
  BY <1>1, <1>2, <1>3, <1>5, AppIdsAssumption DEF TypeOK, Core, AnswersAgree
<1>10. (\A q \in Requests : told[q] = "waiting" =>
          app_ids[sender[q]] # None /\ q \in app_ids[sender[q]].pending)'
  <2>1. \A q \in Requests : told'[q] = "waiting" => told[q] = "waiting" /\ q \notin app_ids[s].pending
    BY <1>3, <1>7, AppIdsAssumption
  <2>2. \A q \in Requests : told'[q] = "waiting" => sender[q] \in Senders \ {s}
    BY <2>1 DEF Core, Entries, WaitersHaveCall
  <2> QED
    BY <1>3, <2>1, <2>2 DEF TypeOK, Core, WaitersHaveCall
<1>11. (/\ \A t \in Senders : (\E c \in calls : c.sender = t)
                                <=> app_ids[t] # None /\ app_ids[t].pending # {}
        /\ \A call1, call2 \in calls : call1.sender = call2.sender => call1 = call2)'
  <2>1. \A t \in Senders : (\E c \in calls' : c.sender = t) <=> t # s /\ \E c \in calls : c.sender = t
    BY <1>1, <1>6 DEF Core, WaitersHaveCall
  <2> QED
    BY <1>1, <1>3, <1>4, <2>1 DEF TypeOK, Core, WaitersHaveCall
<1> QED
  BY <1>8, <1>9, <1>10, <1>11 DEF Core, WaitersHaveCall

\* An entry that is removed had no requests.
LEMMA OwnerChangedKeepsCore ==
  ASSUME TypeOK, Core, NEW s \in Senders, name_owner_changed(s), UNCHANGED <<scope, sender>>
  PROVE  Core'
<1>1. UNCHANGED <<calls, told>>
  BY DEF name_owner_changed
<1>2. \A t \in Senders \ {s} : app_ids'[t] = app_ids[t]
  BY DEF name_owner_changed, TypeOK
<1>3. \/ app_ids'[s] = app_ids[s]
      \/ app_ids'[s] = None /\ app_ids[s].pending = {}
      \/ /\ app_ids[s] # None /\ app_ids'[s] # None
         /\ app_ids'[s].pending = app_ids[s].pending /\ app_ids'[s].app_id = app_ids[s].app_id
  <2>1. CASE app_ids[s] # None /\ app_ids[s].pending # {}
    <3>1. app_ids[s] \in AppIdInfo /\ app_ids'[s] = [app_ids[s] EXCEPT !.exited = TRUE]
      BY <2>1 DEF name_owner_changed, TypeOK
    <3>2. app_ids'[s] \in AppIdInfo
      BY <3>1 DEF AppIdInfo
    <3> QED
      BY <2>1, <3>1, <3>2, NoneAssumption DEF AppIdInfo
  <2> QED
    BY <2>1 DEF name_owner_changed, TypeOK
<1>4. Entries'
  BY <1>1, <1>2, <1>3 DEF Core, Entries
<1>5. WaitersHaveCall'
  BY <1>1, <1>2, <1>3 DEF Core, Entries, WaitersHaveCall
<1>6. AnswersAgree'
  BY <1>1 DEF Core, AnswersAgree
<1> QED
  BY <1>4, <1>5, <1>6 DEF Core


-----------------------------------------------------------------------------
(* The order of the inbox.                                                 *)

\* What appending a message keeps.
LEMMA AppendKeeps ==
  ASSUME TypeOK, Ordered, NEW m \in Message, inbox' = Append(inbox, m),
         m.kind = "call" => sender'[m.request] = m.sender /\ m.sender \in connected',
         \A i \in 1..Len(inbox) :
           inbox[i].kind = "call" => sender'[inbox[i].request] = sender[inbox[i].request],
         \A s \in Senders : s \in connected /\ s \notin connected' => m = Gone(s),
         connected' \subseteq connected
  PROVE  Ordered' /\ \A s \in Senders : SeenGone(s)' => SeenGone(s)
<1>1. /\ Len(inbox) \in Nat /\ Len(inbox') = Len(inbox) + 1
      /\ \A i \in 1..Len(inbox) : inbox'[i] = inbox[i] /\ inbox[i] \in Message
      /\ inbox'[Len(inbox) + 1] = m
  BY DEF TypeOK
<1>2. ASSUME NEW i \in 1..Len(inbox'), inbox'[i].kind = "call"
      PROVE  /\ sender'[inbox'[i].request] = inbox'[i].sender
             /\ inbox'[i].sender \in connected'
                  \/ \E j \in 1..Len(inbox') : i < j /\ inbox'[j] = Gone(inbox'[i].sender)
  <2>1. CASE i = Len(inbox) + 1
    BY <1>1, <1>2, <2>1
  <2>2. CASE i # Len(inbox) + 1
    <3>1. i \in 1..Len(inbox) /\ inbox'[i] = inbox[i]
      BY <1>1, <2>2
    <3>2. inbox[i].sender \in Senders
      BY <1>1, <1>2, <3>1 DEF Message
    <3>3. CASE inbox[i].sender \in connected
      BY <1>1, <1>2, <3>1, <3>2, <3>3 DEF Ordered
    <3>4. CASE \E j \in 1..Len(inbox) : i < j /\ inbox[j] = Gone(inbox[i].sender)
      <4>1. PICK j \in 1..Len(inbox) : i < j /\ inbox[j] = Gone(inbox[i].sender)
        BY <3>4
      <4>2. j \in 1..Len(inbox') /\ inbox'[j] = inbox[j]
        BY <1>1, <4>1
      <4> QED
        BY <1>2, <3>1, <4>1, <4>2 DEF Ordered
    <3> QED
      BY <1>2, <3>1, <3>3, <3>4 DEF Ordered
  <2> QED
    BY <2>1, <2>2
<1>3. ASSUME NEW s \in Senders, SeenGone(s)'
      PROVE  SeenGone(s)
  <2>1. inbox \in Seq(Message) /\ inbox' \in Seq(Message)
    BY DEF TypeOK
  <2>2. DOMAIN inbox = 1..Len(inbox) /\ DOMAIN inbox' = 1..Len(inbox')
    BY <2>1
  <2>3. m # Gone(s)
    BY <1>1, <1>3, <2>2 DEF SeenGone, Gone
  <2>4. s \notin connected
    BY <1>3, <2>3 DEF SeenGone
  <2>5. \A i \in 1..Len(inbox) : inbox[i] # Gone(s)
    BY <1>1, <1>3, <2>2 DEF SeenGone, Gone
  <2> QED
    BY <2>2, <2>4, <2>5 DEF SeenGone, Gone
<1> QED
  BY <1>2, <1>3 DEF Ordered

\* What dispatching the first message keeps.
LEMMA TailKeeps ==
  ASSUME TypeOK, Ordered, inbox # <<>>, inbox' = Tail(inbox), UNCHANGED <<sender, connected>>
  PROVE  /\ Ordered'
         /\ \A s \in Senders : SeenGone(s)' => SeenGone(s) \/ Head(inbox) = Gone(s)
         /\ Head(inbox) \in Message
         /\ \A s \in Senders :
              Head(inbox).kind = "call" /\ Head(inbox).sender = s =>
                sender[Head(inbox).request] = s /\ ~SeenGone(s) /\ ~SeenGone(s)'
<1>1. /\ Len(inbox) \in Nat \ {0} /\ Len(inbox') = Len(inbox) - 1
      /\ \A i \in 1..Len(inbox') : inbox'[i] = inbox[i + 1]
      /\ Head(inbox) = inbox[1] /\ Head(inbox) \in Message
      /\ DOMAIN inbox = 1..Len(inbox) /\ DOMAIN inbox' = 1..Len(inbox')
  BY DEF TypeOK
<1>2. \A i \in 1..Len(inbox) : i > 1 => i - 1 \in 1..Len(inbox') /\ inbox'[i - 1] = inbox[i]
  BY <1>1
<1>3. \A i \in 1..Len(inbox') : i + 1 \in 1..Len(inbox)
  BY <1>1
<1>4. Ordered'
  <2>1. SUFFICES ASSUME NEW i \in 1..Len(inbox'), inbox'[i].kind = "call"
                 PROVE  /\ sender[inbox'[i].request] = inbox'[i].sender
                        /\ inbox'[i].sender \in connected
                             \/ \E j \in 1..Len(inbox') :
                                  i < j /\ inbox'[j] = Gone(inbox'[i].sender)
    BY DEF Ordered
  <2>2. i + 1 \in 1..Len(inbox) /\ inbox'[i] = inbox[i + 1]
    BY <1>1, <1>3
  <2>3. CASE inbox[i + 1].sender \in connected
    BY <2>1, <2>2, <2>3 DEF Ordered
  <2>4. CASE \E j \in 1..Len(inbox) : i + 1 < j /\ inbox[j] = Gone(inbox[i + 1].sender)
    <3>1. PICK j \in 1..Len(inbox) : i + 1 < j /\ inbox[j] = Gone(inbox[i + 1].sender)
      BY <2>4
    <3>2. j > 1 /\ i < j - 1
      BY <1>1, <3>1
    <3>3. j - 1 \in 1..Len(inbox') /\ inbox'[j - 1] = inbox[j]
      BY <1>2, <3>1, <3>2
    <3> QED
      BY <2>1, <2>2, <3>1, <3>2, <3>3 DEF Ordered
  <2> QED
    BY <2>1, <2>2, <2>3, <2>4 DEF Ordered
<1>5. ASSUME NEW s \in Senders, SeenGone(s)', Head(inbox) # Gone(s)
      PROVE  SeenGone(s)
  <2>1. \A i \in 1..Len(inbox) : inbox[i] # Gone(s)
    <3>1. SUFFICES ASSUME NEW i \in 1..Len(inbox), inbox[i] = Gone(s) PROVE FALSE
      OBVIOUS
    <3>2. i > 1
      BY <1>1, <1>5, <3>1
    <3>3. \A k \in 1..Len(inbox') : inbox'[k] # Gone(s)
      BY <1>1, <1>5 DEF SeenGone, Gone
    <3>4. i - 1 \in 1..Len(inbox') /\ inbox'[i - 1] = Gone(s)
      BY <1>2, <3>1, <3>2
    <3> QED
      BY <3>3, <3>4
  <2> QED
    BY <1>1, <1>5, <2>1 DEF SeenGone, Gone
<1>6. ASSUME NEW s \in Senders, Head(inbox).kind = "call", Head(inbox).sender = s
      PROVE  sender[Head(inbox).request] = s /\ ~SeenGone(s) /\ ~SeenGone(s)'
  <2>1. sender[Head(inbox).request] = s
    BY <1>1, <1>6 DEF Ordered
  <2>2. CASE s \in connected
    BY <2>1, <2>2 DEF SeenGone
  <2>3. CASE s \notin connected
    <3>1. PICK j \in 1..Len(inbox) : 1 < j /\ inbox[j] = Gone(s)
      BY <1>1, <1>6, <2>3 DEF Ordered
    <3>2. j - 1 \in 1..Len(inbox') /\ inbox'[j - 1] = Gone(s)
      BY <1>1, <1>2, <3>1
    <3>3. j - 1 \in DOMAIN inbox' /\ j \in DOMAIN inbox
      BY <1>1, <3>1, <3>2
    <3> QED
      BY <2>1, <3>1, <3>2, <3>3 DEF SeenGone, Gone
  <2> QED
    BY <2>2, <2>3
<1> QED
  BY <1>1, <1>4, <1>5, <1>6

-----------------------------------------------------------------------------
(* The calls to the bus and their replies.                                 *)

\* What a handler does to the calls: it adds one, with the next serial, or
\* leaves at most those there were.
LEMMA HandlerCalls ==
  ASSUME IInv, Dispatch \/ Timeout
  PROVE  \/ calls' \subseteq calls /\ UNCHANGED <<serial, outbox>>
         \/ \E s \in Senders :
              LET call == [serial |-> serial + 1, sender |-> s]
              IN  /\ Head(inbox).kind = "call"
                  /\ calls' = calls \cup {call} /\ serial' = serial + 1
                  /\ outbox' = Append(outbox, call)
<1>1. CASE Dispatch
  <2>1. Head(inbox) \in Message
    BY <1>1 DEF Dispatch, IInv, TypeOK
  <2>2. CASE Head(inbox).kind = "call"
    <3>1. xdg_app_invocation_lookup_app_id(Head(inbox).sender, Head(inbox).request)
      BY <1>1, <2>2 DEF Dispatch
    <3>2. Head(inbox).sender \in Senders
      BY <2>1, <2>2 DEF Message
    <3> QED
      BY <2>2, <3>1, <3>2 DEF xdg_app_invocation_lookup_app_id, Wait
  <2>3. CASE Head(inbox).kind # "call"
    BY <1>1, <2>3 DEF Dispatch, name_owner_changed, got_credentials_cb
  <2> QED
    BY <2>2, <2>3
<1>2. CASE Timeout
  BY <1>2 DEF Timeout, got_credentials_cb
<1> QED
  BY <1>1, <1>2

\* A message that is appended, or the first one taken away.
LEMMA InboxStep ==
  ASSUME IInv, [Next]_vars
  PROVE  \/ inbox' = inbox /\ connected' = connected
         \/ Dispatch /\ inbox # <<>> /\ inbox' = Tail(inbox) /\ connected' = connected
         \/ /\ \E m \in Message :
                 /\ inbox' = Append(inbox, m)
                 /\ \/ m.kind = "call" /\ connected' = connected /\ outbox' = outbox
                    \/ \E s \in connected : /\ m = Gone(s) /\ connected' = connected \ {s}
                                            /\ outbox' = outbox
                    \/ /\ outbox # <<>> /\ outbox' = Tail(outbox) /\ connected' = connected
                       /\ m.kind = "reply" /\ m.serial = Head(outbox).serial
                       /\ Head(outbox).sender \in connected \cap PidKnown => m.body = "pid"
            /\ UNCHANGED <<calls, serial>>
<1>1. ASSUME NEW s \in Senders, Disconnect(s)
      PROVE  /\ Gone(s) \in Message /\ inbox' = Append(inbox, Gone(s))
             /\ s \in connected /\ connected' = connected \ {s}
             /\ UNCHANGED <<calls, serial, outbox>>
  BY <1>1 DEF Disconnect, Gone, Message
<1>2. ASSUME NEW s \in Senders, NEW r \in Requests, SendRequest(s, r)
      PROVE  \E m \in Message : /\ inbox' = Append(inbox, m) /\ m.kind = "call"
                                /\ UNCHANGED <<calls, serial, outbox, connected>>
  <2> DEFINE m == [kind |-> "call", sender |-> s, request |-> r]
  <2>1. m \in Message /\ m.kind = "call"
    BY DEF Message
  <2> QED
    BY <1>2, <2>1 DEF SendRequest, bus
<1>3. CASE GetConnectionUnixProcessID
  <2> DEFINE body == IF Head(outbox).sender \in connected \cap PidKnown THEN "pid" ELSE "error"
             m == [kind |-> "reply", serial |-> Head(outbox).serial, body |-> body]
  <2>1. Head(outbox) \in Call
    BY <1>3 DEF GetConnectionUnixProcessID, IInv, TypeOK
  <2>2. Head(outbox).serial \in Nat
    BY <2>1 DEF Call
  <2>3. body \in {"pid", "error"} /\ (Head(outbox).sender \in connected \cap PidKnown => body = "pid")
    OBVIOUS
  <2>4. /\ outbox # <<>> /\ outbox' = Tail(outbox) /\ inbox' = Append(inbox, m)
        /\ UNCHANGED <<connected, calls, serial>>
    BY <1>3 DEF GetConnectionUnixProcessID
  <2> HIDE DEF body
  <2>5. m \in Message /\ m.kind = "reply" /\ m.serial = Head(outbox).serial /\ m.body = body
    BY <2>2, <2>3 DEF Message
  <2> QED
    BY <2>3, <2>4, <2>5
<1>4. Dispatch => inbox # <<>> /\ inbox' = Tail(inbox) /\ connected' = connected
  BY DEF Dispatch
<1>5. Timeout \/ UNCHANGED vars => inbox' = inbox /\ connected' = connected
  BY DEF Timeout, vars, bus
<1> QED
  BY <1>1, <1>2, <1>3, <1>4, <1>5 DEF Next

\* Where the elements of the shorter and of the longer sequence are.
LEMMA TailAt ==
  ASSUME NEW S, NEW q \in Seq(S), q # <<>>
  PROVE  /\ 1 \in 1..Len(q) /\ Head(q) = q[1]
         /\ \A i \in 1..Len(Tail(q)) : i + 1 \in 1..Len(q) /\ Tail(q)[i] = q[i + 1]
OBVIOUS

LEMMA AppendAt ==
  ASSUME NEW S, NEW q \in Seq(S), NEW e \in S, NEW i \in 1..Len(Append(q, e))
  PROVE  \/ i \in 1..Len(q) /\ Append(q, e)[i] = q[i]
         \/ i = Len(q) + 1 /\ Append(q, e)[i] = e
OBVIOUS

\* The calls, and the calls on their way, are those there were or have the next serial.
LEMMA CallsStep ==
  ASSUME IInv, [Next]_vars
  PROVE  \/ /\ calls' \subseteq calls /\ serial' = serial
            /\ \A i \in 1..Len(outbox') : \E k \in 1..Len(outbox) : outbox'[i] = outbox[k]
         \/ /\ serial' = serial + 1
            /\ \E c \in Call :
                 /\ c.serial = serial + 1 /\ calls' = calls \cup {c}
                 /\ \A i \in 1..Len(outbox') :
                      outbox'[i] = c \/ \E k \in 1..Len(outbox) : outbox'[i] = outbox[k]
<1>1. outbox \in Seq(Call) /\ serial \in Nat
  BY DEF IInv, TypeOK
<1>2. ASSUME Dispatch \/ Timeout,
             NEW s \in Senders, calls' = calls \cup {[serial |-> serial + 1, sender |-> s]},
             serial' = serial + 1, outbox' = Append(outbox, [serial |-> serial + 1, sender |-> s])
      PROVE  /\ serial' = serial + 1
             /\ \E c \in Call :
                  /\ c.serial = serial + 1 /\ calls' = calls \cup {c}
                  /\ \A i \in 1..Len(outbox') :
                       outbox'[i] = c \/ \E k \in 1..Len(outbox) : outbox'[i] = outbox[k]
  <2> DEFINE c == [serial |-> serial + 1, sender |-> s]
  <2>1. c \in Call /\ c.serial = serial + 1
    BY <1>1 DEF Call
  <2> HIDE DEF c
  <2>2. \A i \in 1..Len(outbox') :
          outbox'[i] = c \/ \E k \in 1..Len(outbox) : outbox'[i] = outbox[k]
    BY <1>1, <1>2, <2>1, AppendAt DEF c
  <2> QED
    BY <1>2, <2>1, <2>2 DEF c
<1>3. CASE outbox' = outbox /\ calls' \subseteq calls /\ serial' = serial
  BY <1>3
<1>4. CASE outbox # <<>> /\ outbox' = Tail(outbox) /\ calls' \subseteq calls /\ serial' = serial
  BY <1>1, <1>4, TailAt
<1>5. \/ Dispatch \/ Timeout
      \/ outbox' = outbox /\ calls' \subseteq calls /\ serial' = serial
      \/ outbox # <<>> /\ outbox' = Tail(outbox) /\ calls' \subseteq calls /\ serial' = serial
  BY DEF Next, Disconnect, SendRequest, GetConnectionUnixProcessID, vars, bus
<1> QED
  BY <1>2, <1>3, <1>4, <1>5, HandlerCalls

LEMMA SerialsStep ==
  ASSUME IInv, [Next]_vars
  PROVE  Serials'
<1>1. /\ outbox \in Seq(Call) /\ inbox \in Seq(Message) /\ serial \in Nat
      /\ \A call \in calls : call.serial \in Nat
      /\ \A i \in 1..Len(outbox) : outbox[i].serial \in Nat
      /\ Serials
  <2>1. /\ outbox \in Seq(Call) /\ inbox \in Seq(Message) /\ serial \in Nat
        /\ calls \subseteq Call /\ Serials
    BY DEF IInv, TypeOK
  <2>2. \A call \in Call : call.serial \in Nat
    BY DEF Call
  <2>3. \A i \in 1..Len(outbox) : outbox[i] \in Call
    BY <2>1
  <2> QED
    BY <2>1, <2>2, <2>3
<1>2. \A i \in 1..Len(inbox') :
        inbox'[i].kind = "reply" =>
          \/ \E k \in 1..Len(inbox) : inbox'[i] = inbox[k]
          \/ \E k \in 1..Len(outbox) : inbox'[i].serial = outbox[k].serial
  <2> SUFFICES ASSUME NEW i \in 1..Len(inbox'), inbox'[i].kind = "reply"
               PROVE  \/ \E k \in 1..Len(inbox) : inbox'[i] = inbox[k]
                      \/ \E k \in 1..Len(outbox) : inbox'[i].serial = outbox[k].serial
    OBVIOUS
  <2>1. CASE inbox' = inbox
    BY <2>1
  <2>2. CASE inbox # <<>> /\ inbox' = Tail(inbox)
    BY <1>1, <2>2, TailAt
  <2>3. ASSUME NEW m \in Message, inbox' = Append(inbox, m),
               m.kind = "reply" => outbox # <<>> /\ m.serial = Head(outbox).serial
        PROVE  \/ \E k \in 1..Len(inbox) : inbox'[i] = inbox[k]
               \/ \E k \in 1..Len(outbox) : inbox'[i].serial = outbox[k].serial
    <3>1. (\E k \in 1..Len(inbox) : inbox'[i] = inbox[k]) \/ inbox'[i] = m
      BY <1>1, <2>3, AppendAt
    <3>2. outbox # <<>> => 1 \in 1..Len(outbox) /\ Head(outbox) = outbox[1]
      BY <1>1, TailAt
    <3> QED
      BY <2>3, <3>1, <3>2
  <2>4. \A s : Gone(s).kind # "reply"
    BY DEF Gone
  <2> QED
    BY <2>1, <2>2, <2>3, <2>4, InboxStep
<1>3. CASE /\ calls' \subseteq calls /\ serial' = serial
           /\ \A i \in 1..Len(outbox') : \E k \in 1..Len(outbox) : outbox'[i] = outbox[k]
  <2>1. /\ \A call1, call2 \in calls' : call1.serial = call2.serial => call1 = call2
        /\ \A call \in calls' : call.serial <= serial'
    BY <1>1, <1>3 DEF Serials
  <2>2. \A i \in 1..Len(outbox') :
          /\ outbox'[i].serial <= serial'
          /\ \A call \in calls' : call.serial = outbox'[i].serial => call = outbox'[i]
    BY <1>1, <1>3 DEF Serials
  <2>3. \A i \in 1..Len(inbox') : inbox'[i].kind = "reply" => inbox'[i].serial <= serial'
    <3>1. /\ \A k \in 1..Len(inbox) : inbox[k].kind = "reply" => inbox[k].serial <= serial'
          /\ \A k \in 1..Len(outbox) : outbox[k].serial <= serial'
      BY <1>1, <1>3 DEF Serials
    <3> QED
      BY <1>2, <3>1
  <2> QED
    BY <2>1, <2>2, <2>3 DEF Serials
<1>4. ASSUME serial' = serial + 1, NEW c \in Call,
             c.serial = serial + 1, calls' = calls \cup {c},
             \A i \in 1..Len(outbox') :
               outbox'[i] = c \/ \E k \in 1..Len(outbox) : outbox'[i] = outbox[k]
      PROVE  Serials'
  <2>1. \A call \in calls : call.serial # c.serial /\ call.serial <= serial'
    BY <1>1, <1>4 DEF Serials
  <2>2. \A k \in 1..Len(outbox) : outbox[k].serial # c.serial /\ outbox[k].serial <= serial'
    BY <1>1, <1>4 DEF Serials
  <2>3. \A call1, call2 \in calls' : call1.serial = call2.serial => call1 = call2
    BY <1>1, <1>4, <2>1 DEF Serials
  <2>4. c.serial <= serial'
    BY <1>1, <1>4
  <2>5. \A call \in calls' : call.serial <= serial'
    BY <1>4, <2>1, <2>4
  <2>6. \A i \in 1..Len(outbox') :
          /\ outbox'[i].serial <= serial'
          /\ \A call \in calls' : call.serial = outbox'[i].serial => call = outbox'[i]
    BY <1>1, <1>4, <2>1, <2>2, <2>4 DEF Serials
  <2>7. \A i \in 1..Len(inbox') : inbox'[i].kind = "reply" => inbox'[i].serial <= serial'
    <3>1. \A k \in 1..Len(inbox) : inbox[k].kind = "reply" => inbox[k].serial <= serial'
      <4>1. \A k \in 1..Len(inbox) : inbox[k].kind = "reply" => inbox[k].serial \in Nat
        BY <1>1 DEF Message
      <4> QED
        BY <1>1, <1>4, <4>1 DEF Serials
    <3> QED
      BY <1>2, <2>2, <3>1
  <2> QED
    BY <2>3, <2>5, <2>6, <2>7 DEF Serials
<1> QED
  BY <1>3, <1>4, CallsStep

LEMMA ErrorsStep ==
  ASSUME IInv, [Next]_vars
  PROVE  ErrorsLate'
<1> SUFFICES ASSUME NEW call \in calls', call.sender \in PidKnown,
                    NEW i \in 1..Len(inbox'), inbox'[i] = ErrorReply(call)
             PROVE  /\ call.sender \notin connected'
                    /\ \A j \in 1..Len(inbox') : i < j => inbox'[j] # Gone(call.sender)
  BY DEF ErrorsLate, ErrorReply, Gone
<1> DEFINE s == call.sender
<1>1. /\ outbox \in Seq(Call) /\ inbox \in Seq(Message) /\ serial \in Nat
      /\ \A c \in calls : c.serial \in Nat
      /\ Serials /\ ErrorsLate
  BY DEF IInv, TypeOK, Call
<1>2. inbox'[i].kind = "reply" /\ inbox'[i].serial = call.serial /\ inbox'[i].body = "error"
  BY DEF ErrorReply
<1>3. CASE inbox' = inbox /\ connected' = connected
  <2>1. call \in calls
    BY <1>1, <1>2, <1>3, CallsStep DEF Serials
  <2> QED
    BY <1>1, <1>3, <2>1 DEF ErrorsLate
<1>4. CASE inbox # <<>> /\ inbox' = Tail(inbox) /\ connected' = connected
  <2>1. i + 1 \in 1..Len(inbox) /\ inbox[i + 1] = inbox'[i]
    BY <1>1, <1>4, TailAt
  <2>2. inbox[i + 1].serial <= serial /\ inbox[i + 1].serial = call.serial
    BY <1>1, <1>2, <2>1 DEF Serials
  <2>3. call \in calls
    BY <1>1, <2>2, CallsStep
  <2>4. /\ s \notin connected
        /\ \A j \in 1..Len(inbox) : i + 1 < j => inbox[j] # Gone(s)
    BY <1>1, <2>1, <2>3 DEF ErrorsLate
  <2>5. \A j \in 1..Len(inbox') : i < j => inbox'[j] # Gone(s)
    <3> SUFFICES ASSUME NEW j \in 1..Len(inbox'), i < j PROVE inbox'[j] # Gone(s)
      OBVIOUS
    <3>1. j + 1 \in 1..Len(inbox) /\ inbox'[j] = inbox[j + 1]
      BY <1>1, <1>4, TailAt
    <3>2. i + 1 < j + 1
      OBVIOUS
    <3> QED
      BY <2>4, <3>1, <3>2
  <2> QED
    BY <1>4, <2>4, <2>5
<1>5. ASSUME NEW m \in Message, inbox' = Append(inbox, m), UNCHANGED <<calls, serial>>,
             \/ m.kind = "call" /\ connected' = connected
             \/ \E t \in connected : m = Gone(t) /\ connected' = connected \ {t}
             \/ /\ outbox # <<>> /\ connected' = connected
                /\ m.kind = "reply" /\ m.serial = Head(outbox).serial
                /\ Head(outbox).sender \in connected \cap PidKnown => m.body = "pid"
      PROVE  /\ s \notin connected'
             /\ \A j \in 1..Len(inbox') : i < j => inbox'[j] # Gone(s)
  <2>1. call \in calls /\ connected' \subseteq connected
    BY <1>5
  <2>2. CASE i \in 1..Len(inbox) /\ inbox'[i] = inbox[i]
    <3>1. /\ s \notin connected
          /\ \A j \in 1..Len(inbox) : i < j => inbox[j] # Gone(s)
      BY <1>1, <2>1, <2>2 DEF ErrorsLate
    <3>2. m # Gone(s)
      BY <1>5, <3>1 DEF Gone
    <3>3. \A j \in 1..Len(inbox') : (j \in 1..Len(inbox) /\ inbox'[j] = inbox[j]) \/ inbox'[j] = m
      BY <1>1, <1>5, AppendAt
    <3> QED
      BY <2>1, <3>1, <3>2, <3>3
  <2>3. CASE i = Len(inbox) + 1 /\ inbox'[i] = m
    <3>1. /\ outbox # <<>> /\ connected' = connected /\ call.serial = Head(outbox).serial
          /\ Head(outbox).sender \notin connected \cap PidKnown
      BY <1>2, <1>5, <2>3 DEF Gone
    <3>2. 1 \in 1..Len(outbox) /\ Head(outbox) = outbox[1]
      BY <1>1, <3>1, TailAt
    <3>3. call = Head(outbox)
      BY <1>1, <2>1, <3>1, <3>2 DEF Serials
    <3>4. s \notin connected'
      BY <3>1, <3>3
    <3>5. \A j \in 1..Len(inbox') : ~(i < j)
      BY <1>1, <1>5, <2>3
    <3> QED
      BY <3>4, <3>5
  <2> QED
    BY <1>1, <1>5, <2>2, <2>3, AppendAt
<1> QED
  BY <1>3, <1>4, <1>5, InboxStep

-----------------------------------------------------------------------------
(* The invariant.                                                          *)

LEMMA InvInit == Init => IInv
<1> SUFFICES ASSUME Init PROVE IInv
  OBVIOUS
<1>1. TypeOK
  BY DEF Init, TypeOK
<1>2. Ordered
  BY DEF Init, Ordered
<1>3. Core
  BY AppIdsAssumption DEF Init, Core, Entries, WaitersHaveCall, AnswersAgree
<1>4. Marked
  BY DEF Init, Marked
<1>5. Serials /\ ErrorsLate
  BY DEF Init, Serials, ErrorsLate
<1> QED
  BY <1>1, <1>2, <1>3, <1>4, <1>5 DEF IInv

\* Steps of the bus and of senders touch neither the table nor the answers.
LEMMA BusKeeps ==
  ASSUME IInv, Ordered', \A s \in Senders : SeenGone(s)' => SeenGone(s),
         UNCHANGED <<scope, app_ids, calls, told>>,
         \A r \in Requests : sender[r] # None => sender'[r] = sender[r]
  PROVE  Ordered' /\ Core' /\ Marked'
<1> USE DEF IInv
<1>1. \A r \in Requests : sender[r] \in Senders => sender'[r] = sender[r]
  BY NoneAssumption
<1>2. Entries'
  BY <1>1 DEF TypeOK, AppIdInfo, Core, Entries
<1>3. WaitersHaveCall'
  <2>1. \A r \in Requests : told[r] = "waiting" => sender'[r] = sender[r]
    BY <1>1 DEF Core, Entries
  <2> QED
    BY <2>1 DEF Core, WaitersHaveCall
<1>4. AnswersAgree'
  <2>1. \A r \in Requests : told[r] \in AppIds => sender'[r] = sender[r]
    BY <1>1, AppIdsAssumption DEF Core, Entries
  <2> QED
    BY <2>1 DEF Core, AnswersAgree
<1>5. Marked'
  BY DEF Marked
<1> QED
  BY <1>2, <1>3, <1>4, <1>5 DEF Core

\* After a callback, an entry whose sender was seen to leave is gone.
LEMMA CredentialsKeepsMarked ==
  ASSUME TypeOK, Core, Marked, NEW call \in calls, NEW body, got_credentials_cb(call, body),
         Fits(call, body), \A s \in Senders : SeenGone(s)' => SeenGone(s)
  PROVE  Marked'
<1> DEFINE s == call.sender
<1>1. s \in Senders /\ app_ids[s] # None
  BY DEF TypeOK, Core, WaitersHaveCall, Call
<1>2. PICK app_id \in AppIds \cup {None} :
        AnswerPending(s, app_ids[s], app_id) /\ (app_ids[s].exited => app_id = None)
  BY CredentialsStep
<1> HIDE DEF s
<1>3. \A t \in Senders \ {s} : app_ids'[t] = app_ids[t]
  BY <1>2 DEF AnswerPending, TypeOK
<1>4. SeenGone(s) => app_ids'[s] = None
  BY <1>1, <1>2 DEF AnswerPending, TypeOK, Marked
<1> QED
  BY <1>3, <1>4 DEF Marked

LEMMA DispatchKeeps ==
  ASSUME IInv, Dispatch
  PROVE  Ordered' /\ Core' /\ Marked'
<1> USE DEF IInv
<1>1. /\ inbox # <<>> /\ inbox' = Tail(inbox)
      /\ UNCHANGED <<scope, connected, sender>>
  BY DEF Dispatch
<1> DEFINE m == Head(inbox)
<1>2. /\ Ordered'
      /\ \A s \in Senders : SeenGone(s)' => SeenGone(s) \/ m = Gone(s)
      /\ m \in Message
      /\ \A s \in Senders :
           m.kind = "call" /\ m.sender = s => sender[m.request] = s /\ ~SeenGone(s) /\ ~SeenGone(s)'
  BY <1>1, TailKeeps
<1> HIDE DEF m
<1>3. \A s \in Senders : m.kind # "gone" => m # Gone(s)
  BY DEF Gone
<1>4. CASE m.kind = "call" /\ xdg_app_invocation_lookup_app_id(m.sender, m.request)
  <2>1. m.sender \in Senders /\ m.request \in Requests /\ sender[m.request] = m.sender
    BY <1>2, <1>4 DEF Message
  <2>2. Core'
    BY <1>1, <1>4, <2>1, LookupKeepsCore
  <2>3. \A t \in Senders \ {m.sender} : app_ids'[t] = app_ids[t]
    BY <1>4 DEF xdg_app_invocation_lookup_app_id, Wait, TypeOK
  <2>4. Marked'
    BY <1>2, <1>3, <1>4, <2>1, <2>3 DEF Marked
  <2> QED
    BY <1>2, <2>2, <2>4
<1>5. CASE m.kind = "gone" /\ name_owner_changed(m.sender)
  <2>1. m.sender \in Senders /\ m = Gone(m.sender)
    BY <1>2, <1>5 DEF Message, Gone
  <2>2. Core'
    BY <1>1, <1>5, <2>1, OwnerChangedKeepsCore
  <2>3. \A t \in Senders \ {m.sender} : app_ids'[t] = app_ids[t] /\ (SeenGone(t)' => SeenGone(t))
    BY <1>2, <1>5, <2>1 DEF name_owner_changed, TypeOK, Gone
  <2>4. app_ids'[m.sender] # None => app_ids'[m.sender].exited /\ app_ids'[m.sender].pending # {}
    BY <1>5, <2>1 DEF name_owner_changed, TypeOK, AppIdInfo
  <2>5. Marked'
    BY <2>1, <2>3, <2>4 DEF Marked
  <2> QED
    BY <1>2, <2>2, <2>5
<1>6. ASSUME m.kind = "reply", NEW call \in calls, call.serial = m.serial,
             got_credentials_cb(call, m.body)
      PROVE  Core' /\ Marked'
  <2>1. Fits(call, m.body)
    BY <1>1, <1>6, HeadFits DEF m
  <2> QED
    BY <1>1, <1>2, <1>3, <1>6, <2>1, CredentialsKeepsCore, CredentialsKeepsMarked
<1>7. CASE m.kind = "reply" /\ UNCHANGED <<app_ids, calls, serial, outbox, told>>
  BY <1>1, <1>2, <1>3, <1>7, BusKeeps
<1> QED
  BY <1>2, <1>4, <1>5, <1>6, <1>7 DEF Dispatch, m

LEMMA InvStep ==
  ASSUME IInv, [Next]_vars
  PROVE  IInv'
<1>1. TypeOK' /\ Serials' /\ ErrorsLate'
  BY TypeStep, SerialsStep, ErrorsStep
<1> USE DEF IInv
<1>2. ASSUME NEW s \in Senders, NEW r \in Requests, SendRequest(s, r)
      PROVE  Ordered' /\ Core' /\ Marked'
  <2> DEFINE m == [kind |-> "call", sender |-> s, request |-> r]
  <2>1. m \in Message /\ m.kind = "call" /\ m.request = r /\ m.sender = s
    BY DEF Message
  <2>2. /\ inbox' = Append(inbox, m) /\ s \in connected /\ sender[r] = None
        /\ sender' = [sender EXCEPT ![r] = s]
        /\ UNCHANGED <<scope, connected, app_ids, calls, told>>
    BY <1>2 DEF SendRequest, bus
  <2> HIDE DEF m
  <2>3. sender'[r] = s /\ \A q \in Requests : q # r => sender'[q] = sender[q]
    BY <2>2 DEF TypeOK
  <2>4. \A i \in 1..Len(inbox) :
          inbox[i].kind = "call" => sender'[inbox[i].request] = sender[inbox[i].request]
    <3>1. \A i \in 1..Len(inbox) :
            inbox[i].kind = "call" => inbox[i].request \in Requests /\ inbox[i].sender \in Senders
      BY DEF TypeOK, Message
    <3> QED
      BY <2>2, <2>3, <3>1, NoneAssumption DEF Ordered
  <2>5. Ordered' /\ \A t \in Senders : SeenGone(t)' => SeenGone(t)
    BY <2>1, <2>2, <2>3, <2>4, AppendKeeps
  <2> QED
    BY <2>2, <2>3, <2>5, BusKeeps
<1>3. ASSUME NEW s \in Senders, Disconnect(s)
      PROVE  Ordered' /\ Core' /\ Marked'
  <2>1. Gone(s) \in Message /\ Gone(s).kind # "call"
    BY DEF Gone, Message
  <2>2. /\ inbox' = Append(inbox, Gone(s)) /\ connected' = connected \ {s}
        /\ UNCHANGED <<scope, app_ids, calls, told, sender>>
    BY <1>3 DEF Disconnect, Gone
  <2>3. \A t \in Senders : t \in connected /\ t \notin connected' => Gone(s) = Gone(t)
    BY <2>2
  <2>4. Ordered' /\ \A t \in Senders : SeenGone(t)' => SeenGone(t)
    BY <2>1, <2>2, <2>3, AppendKeeps
  <2> QED
    BY <2>2, <2>4, BusKeeps
<1>4. CASE GetConnectionUnixProcessID
  <2> DEFINE m == [kind |-> "reply", serial |-> Head(outbox).serial,
                   body |-> IF Head(outbox).sender \in connected \cap PidKnown
                              THEN "pid" ELSE "error"]
  <2>1. inbox' = Append(inbox, m) /\ UNCHANGED <<scope, connected, app_ids, calls, told, sender>>
    BY <1>4 DEF GetConnectionUnixProcessID
  <2>2. m.kind # "call"
    OBVIOUS
  <2>3. m \in Message
    <3>1. Len(inbox) \in Nat /\ inbox'[Len(inbox) + 1] = m /\ Len(inbox') = Len(inbox) + 1
      BY <2>1 DEF TypeOK
    <3> QED
      BY <1>1, <3>1 DEF TypeOK
  <2> HIDE DEF m
  <2>4. Ordered' /\ \A t \in Senders : SeenGone(t)' => SeenGone(t)
    BY <2>1, <2>2, <2>3, AppendKeeps
  <2> QED
    BY <1>1, <2>1, <2>4, BusKeeps
<1>5. CASE Dispatch
  BY <1>1, <1>5, DispatchKeeps
<1>6. CASE Timeout
  <2>1. UNCHANGED <<scope, connected, inbox, sender>>
    BY <1>6 DEF Timeout
  <2>2. Ordered' /\ \A s \in Senders : SeenGone(s)' => SeenGone(s)
    BY <2>1 DEF Ordered, SeenGone
  <2>3. PICK call \in calls : got_credentials_cb(call, "none")
    BY <1>6 DEF Timeout
  <2> QED
    BY <1>1, <2>1, <2>2, <2>3, CredentialsKeepsCore, CredentialsKeepsMarked DEF Fits
<1>7. CASE UNCHANGED vars
  <2>1. UNCHANGED <<scope, connected, inbox, sender, app_ids, calls, told>>
    BY <1>7 DEF vars, bus
  <2>2. Ordered' /\ \A s \in Senders : SeenGone(s)' => SeenGone(s)
    BY <2>1 DEF Ordered, SeenGone
  <2> QED
    BY <1>1, <2>1, <2>2, BusKeeps
<1> QED
  BY <1>1, <1>2, <1>3, <1>4, <1>5, <1>6, <1>7 DEF Next

-----------------------------------------------------------------------------
(* The theorems.                                                           *)

\* Types are kept by every step.
THEOREM TypeCorrect == Spec => []TypeOK
<1>1. IInv => TypeOK
  BY DEF IInv
<1> QED
  BY <1>1, InvInit, InvStep, PTL DEF Spec

\* Requests wait exactly while one call is under way for their sender.
THEOREM WaitersAlwaysHaveCall == Spec => []WaitersHaveCall
<1>1. IInv => WaitersHaveCall
  BY DEF IInv, Core
<1> QED
  BY <1>1, InvInit, InvStep, PTL DEF Spec

\* No request of a sender whose process the bus knows is ever told the app of
\* another one.
THEOREM AnswersAlwaysAgree == Spec => []AnswersAgree
<1>1. IInv => AnswersAgree
  BY DEF IInv, Core
<1> QED
  BY <1>1, InvInit, InvStep, PTL DEF Spec

\* The table keeps a sender that left only while requests wait for it.
THEOREM ExitedAlwaysForgotten == Spec => []ExitedForgotten
<1>1. IInv => ExitedForgotten
  BY DEF IInv, Marked, ExitedForgotten
<1> QED
  BY <1>1, InvInit, InvStep, PTL DEF Spec

\* A callback gives an error to requests whose sender was seen to leave.
LEMMA CredentialsNamesNone ==
  ASSUME IInv, NEW call \in calls, NEW body, got_credentials_cb(call, body), Fits(call, body),
         NEW r \in Requests, told[r] = "waiting", SeenGone(sender[r])
  PROVE  told'[r] \notin AppIds
<1> DEFINE s == call.sender
<1>1. s \in Senders /\ app_ids[s] # None
  BY DEF IInv, TypeOK, Core, WaitersHaveCall, Call
<1>2. PICK app_id \in AppIds \cup {None} :
        AnswerPending(s, app_ids[s], app_id) /\ (app_ids[s].exited => app_id = None)
  BY CredentialsStep DEF IInv
<1> HIDE DEF s
<1>3. r \in app_ids[s].pending => app_id = None
  BY <1>1, <1>2 DEF IInv, Core, Entries, Marked
<1> QED
  BY <1>2, <1>3, AppIdsAssumption DEF AnswerPending

LEMMA StepNamesNone ==
  ASSUME IInv, [Next]_vars, NEW r \in Requests, told[r] = "waiting", SeenGone(sender[r])
  PROVE  told'[r] \notin AppIds
<1>1. sender[r] \in Senders
  BY DEF IInv, Core, Entries
<1>2. CASE UNCHANGED told
  BY <1>2, AppIdsAssumption
<1>3. CASE Dispatch
  <2> DEFINE m == Head(inbox)
  <2>1. /\ m \in Message
        /\ \A s \in Senders :
             m.kind = "call" /\ m.sender = s => sender[m.request] = s /\ ~SeenGone(s)
    BY <1>3, TailKeeps DEF Dispatch, IInv
  <2> HIDE DEF m
  <2>2. CASE m.kind = "call" /\ xdg_app_invocation_lookup_app_id(m.sender, m.request)
    <3>1. m.sender \in Senders /\ m.request # r
      BY <1>1, <2>1, <2>2 DEF Message
    <3>2. told'[r] = told[r]
      BY <2>2, <3>1 DEF xdg_app_invocation_lookup_app_id, Wait, IInv, TypeOK
    <3> QED
      BY <3>2, AppIdsAssumption
  <2>3. CASE name_owner_changed(m.sender)
    BY <2>3, <1>2 DEF name_owner_changed
  <2>4. ASSUME m.kind = "reply", NEW call \in calls, call.serial = m.serial,
               got_credentials_cb(call, m.body)
        PROVE  told'[r] \notin AppIds
    BY <1>3, <2>4, HeadFits, CredentialsNamesNone DEF Dispatch, m
  <2> QED
    BY <1>2, <1>3, <2>2, <2>3, <2>4 DEF Dispatch, m
<1>4. CASE Timeout
  <2>1. PICK call \in calls : got_credentials_cb(call, "none")
    BY <1>4 DEF Timeout
  <2> QED
    BY <2>1, CredentialsNamesNone DEF Fits
<1> QED
  BY <1>2, <1>3, <1>4 DEF Next, SendRequest, Disconnect, GetConnectionUnixProcessID, vars

\* No request is given an app id once its sender was seen to leave.
THEOREM NoneEverNamedAfterExit == Spec => NoneNamedAfterExit
<1> DEFINE NamesNone == \A r \in Requests :
                          told[r] = "waiting" /\ SeenGone(sender[r]) => told'[r] \notin AppIds
<1>1. IInv /\ [Next]_vars => [NamesNone]_vars
  BY StepNamesNone
<1> HIDE DEF NamesNone
<1>2. Spec => [][NamesNone]_vars
  BY <1>1, InvInit, InvStep, PTL DEF Spec
<1> USE DEF NamesNone
<1> QED
  BY <1>2 DEF NoneNamedAfterExit

-----------------------------------------------------------------------------
(* The store: where the changes of the calls are.                          *)

\* Where the changes of the calls are while they wait.
WritesInv ==
  /\ \A i \in 1..Len(applied) : answer[applied[i].call] \notin {"new", "error"}
  /\ \A i \in 1..Len(applied) : applied[i].call \in current_writes => i <= n_serialized
  /\ writing => n_stored <= n_serialized
  /\ save = "ok" => n_stored = n_serialized

StoreIInv == StoreTypeOK /\ WritesInv /\ AnsweredIsDurable

-----------------------------------------------------------------------------
(* What the handlers are made of.                                          *)

LEMMA MapOfType ==
  ASSUME NEW contents \in Map \cup {NULL}
  PROVE  MapOf(contents) \in Map
BY DEF MapOf, EmptyMap, Map

LEMMA LookupTableType ==
  ASSUME StoreTypeOK
  PROVE  lookup_table \in Map /\ LoadedContents \in Map \cup {NULL}
BY MapOfType DEF StoreTypeOK, lookup_table, LoadedContents

LEMMA NewEntryType ==
  ASSUME NEW data \in StoredData
  PROVE  NewEntry(data) \in Entry
BY DEF NewEntry, Entry

\* A handler that changes nothing keeps the invariant.
LEMMA AnswerKeeps ==
  ASSUME StoreIInv, NEW c \in Calls, answer[c] = "new",
         NEW outcome \in {"done", "error"}, Answer(c, outcome)
  PROVE  StoreIInv'
<1>1. lookup_table \in Map /\ LoadedContents \in Map \cup {NULL}
  BY LookupTableType DEF StoreIInv
<1>2. StoreTypeOK'
  BY <1>1 DEF StoreIInv, StoreTypeOK, Answer, Answers, queue, disk
<1>3. \A i \in 1..Len(applied) : applied[i].call # c
  BY DEF StoreIInv, WritesInv
<1>4. \A i \in 1..Len(applied) : answer'[applied[i].call] = answer[applied[i].call]
  BY <1>3 DEF Answer, StoreIInv, StoreTypeOK, Change_
<1>5. UNCHANGED <<queue, disk, applied, n_serialized>>
  BY DEF Answer
<1>6. WritesInv'
  BY <1>4, <1>5 DEF StoreIInv, WritesInv, queue, disk
<1>7. AnsweredIsDurable'
  BY <1>4, <1>5 DEF StoreIInv, AnsweredIsDurable, disk
<1> QED
  BY <1>2, <1>6, <1>7 DEF StoreIInv

\* A handler that changes an entry keeps it too: the new change is the last
\* one, and the call waits for a save that carries it.
LEMMA ChangeKeeps ==
  ASSUME StoreIInv, NEW c \in Calls, answer[c] = "new", NEW id \in Ids,
         NEW entry \in Entry \cup {NULL}, Change(c, id, entry)
  PROVE  StoreIInv'
<1> DEFINE m == [lookup_table EXCEPT ![id] = entry]
           change == [call |-> c, id |-> id, entry |-> entry]
           changes == Append(applied, change)
<1>1. m \in Map
  BY LookupTableType DEF StoreIInv, Map
<1>2. change \in Change_
  BY DEF Change_
<1>3. /\ applied' = changes
      /\ answer' = [answer EXCEPT ![c] = "waiting"]
      /\ loaded' = TRUE /\ map' = m
      /\ ensure_writeout(c, m, changes)
      /\ UNCHANGED <<file, n_stored>>
  BY DEF Change, disk
<1> HIDE DEF m, change
<1>4. /\ changes \in Seq(Change_)
      /\ Len(changes) = Len(applied) + 1
      /\ \A i \in 1..Len(applied) : changes[i] = applied[i]
      /\ changes[Len(applied) + 1] = change
  BY <1>2 DEF StoreIInv, StoreTypeOK
<1>5. Len(applied) \in Nat
  BY DEF StoreIInv, StoreTypeOK
<1> HIDE DEF changes
<1>6. c \notin outstanding_writes \cup current_writes
  BY DEF StoreIInv, StoreTypeOK
<1>7. StoreTypeOK'
  <2>1. CASE writing
    <3>1. /\ outstanding_writes' = outstanding_writes \cup {c}
          /\ UNCHANGED <<current_writes, writing, save, gvdb_contents, n_serialized>>
      BY <1>3, <2>1 DEF ensure_writeout
    <3>2. /\ answer' \in [Calls -> Answers]
          /\ (outstanding_writes \cup current_writes)' = {d \in Calls : answer'[d] = "waiting"}
      BY <1>3, <3>1 DEF StoreIInv, StoreTypeOK, Answers
    <3>3. n_serialized \in 0..Len(changes) /\ n_stored \in 0..Len(changes)
      BY <1>4, <1>5 DEF StoreIInv, StoreTypeOK
    <3> QED
      BY <1>1, <1>3, <1>4, <1>6, <2>1, <3>1, <3>2, <3>3 DEF StoreIInv, StoreTypeOK
  <2>2. CASE ~writing
    <3>1. /\ outstanding_writes = {} /\ current_writes = {}
      BY <2>2 DEF StoreIInv, StoreTypeOK
    <3>2. /\ outstanding_writes' = {} /\ current_writes' = {c}
          /\ gvdb_contents' = m /\ n_serialized' = Len(changes)
          /\ writing' = TRUE /\ save' = "running"
      BY <1>3, <2>2, <3>1 DEF ensure_writeout, StartSave
    <3>3. /\ answer' \in [Calls -> Answers]
          /\ (outstanding_writes \cup current_writes)' = {d \in Calls : answer'[d] = "waiting"}
      BY <1>3, <3>1, <3>2 DEF StoreIInv, StoreTypeOK, Answers
    <3>4. n_serialized' \in 0..Len(changes) /\ n_stored \in 0..Len(changes)
      BY <1>4, <1>5, <3>2 DEF StoreIInv, StoreTypeOK
    <3> QED
      BY <1>1, <1>3, <1>4, <3>2, <3>3, <3>4 DEF StoreIInv, StoreTypeOK
  <2> QED
    BY <2>1, <2>2
<1>8. \A i \in 1..Len(applied) : /\ applied'[i] = applied[i]
                                 /\ applied[i].call # c
                                 /\ answer'[applied[i].call] = answer[applied[i].call]
  BY <1>3, <1>4 DEF StoreIInv, WritesInv, StoreTypeOK, Change_
<1>9. applied'[Len(applied) + 1].call = c /\ answer'[c] = "waiting" /\ Len(applied') = Len(applied) + 1
  BY <1>3, <1>4 DEF StoreIInv, StoreTypeOK, change
<1>10. AnsweredIsDurable'
  BY <1>3, <1>5, <1>8, <1>9 DEF StoreIInv, AnsweredIsDurable
<1>11. WritesInv'
  <2>1. CASE writing
    <3>1. UNCHANGED <<current_writes, writing, save, n_serialized>>
      BY <1>3, <2>1 DEF ensure_writeout
    <3> QED
      BY <1>3, <1>5, <1>6, <1>8, <1>9, <3>1 DEF StoreIInv, WritesInv
  <2>2. CASE ~writing
    <3>1. /\ n_serialized' = Len(applied') /\ save' = "running"
      BY <1>3, <2>2 DEF ensure_writeout, StartSave
    <3>2. n_stored' <= n_serialized'
      BY <1>3, <1>5, <1>9, <3>1 DEF StoreIInv, StoreTypeOK
    <3> QED
      BY <1>5, <1>8, <1>9, <3>1, <3>2 DEF StoreIInv, WritesInv
  <2> QED
    BY <2>1, <2>2
<1> QED
  BY <1>7, <1>10, <1>11 DEF StoreIInv

-----------------------------------------------------------------------------
(* Every handler is an Answer, a Change or a failed load.                  *)

LEMMA HandlerCases ==
  ASSUME StoreTypeOK, NEW c \in Calls, Handle(c)
  PROVE  /\ answer[c] = "new"
         /\ \/ LoadFails(c)
            \/ \E outcome \in {"done", "error"} : Answer(c, outcome)
            \/ \E id \in Ids, entry \in Entry \cup {NULL} : Change(c, id, entry)
<1>1. lookup_table \in Map
  BY LookupTableType
<1>2. CASE LoadFails(c)
  BY <1>2 DEF LoadFails
<1>3. CASE handle_list(c)
  BY <1>3 DEF handle_list
<1>4. ASSUME NEW id \in Ids, handle_lookup(c, id) \/ handle_delete(c, id)
      PROVE  /\ answer[c] = "new"
             /\ \/ \E outcome \in {"done", "error"} : Answer(c, outcome)
                \/ \E entry \in Entry \cup {NULL} : Change(c, id, entry)
  BY <1>4 DEF handle_lookup, handle_delete
<1>5. ASSUME NEW id \in Ids, NEW create \in BOOLEAN,
             NEW permissions \in [Apps -> SUBSET Perms], NEW value \in Values,
             handle_set(c, create, id, permissions, value)
      PROVE  /\ answer[c] = "new"
             /\ \/ Answer(c, "error")
                \/ \E entry \in Entry \cup {NULL} : Change(c, id, entry)
  <2>1. [data |-> value, permissions |-> permissions] \in Entry
    BY DEF Entry, StoredData
  <2> QED
    BY <1>5, <2>1 DEF handle_set
<1>6. ASSUME NEW id \in Ids, NEW create \in BOOLEAN,
             NEW app \in Apps, NEW permissions \in SUBSET Perms,
             handle_set_permission(c, create, id, app, permissions)
      PROVE  /\ answer[c] = "new"
             /\ \/ Answer(c, "error")
                \/ \E entry \in Entry \cup {NULL} : Change(c, id, entry)
  <2> DEFINE entry == IF lookup_table[id] = NULL THEN NewEntry(ByteZero) ELSE lookup_table[id]
  <2>1. entry \in Entry
    BY <1>1, NewEntryType DEF Map, StoredData
  <2>2. [entry EXCEPT !.permissions[app] = permissions] \in Entry
    <3> HIDE DEF entry
    <3> QED
      BY <2>1 DEF Entry
  <2> QED
    BY <1>6, <2>2 DEF handle_set_permission
<1>7. ASSUME NEW id \in Ids, NEW create \in BOOLEAN, NEW value \in Values,
             handle_set_value(c, create, id, value)
      PROVE  /\ answer[c] = "new"
             /\ \/ Answer(c, "error")
                \/ \E entry \in Entry \cup {NULL} : Change(c, id, entry)
  <2> DEFINE entry == IF lookup_table[id] = NULL THEN NewEntry(ByteZero) ELSE lookup_table[id]
  <2>1. entry \in Entry
    BY <1>1, NewEntryType DEF Map, StoredData
  <2>2. [entry EXCEPT !.data = Boxed(value)] \in Entry
    <3> HIDE DEF entry
    <3> QED
      BY <2>1 DEF Entry, StoredData
  <2> QED
    BY <1>7, <2>2 DEF handle_set_value
<1> QED
  BY <1>2, <1>3, <1>4, <1>5, <1>6, <1>7 DEF Handle

-----------------------------------------------------------------------------
(* The save queue.                                                         *)

LEMMA StoreInvInit == StoreInit => StoreIInv
<1> SUFFICES ASSUME StoreInit PROVE StoreIInv
  OBVIOUS
<1>1. EmptyMap \in Map
  BY DEF EmptyMap, Map
<1>2. Len(applied) = 0 /\ applied \in Seq(Change_)
  BY DEF StoreInit
<1>3. StoreTypeOK
  <2>1. n_serialized \in 0..Len(applied) /\ n_stored \in 0..Len(applied)
    BY <1>2 DEF StoreInit
  <2>2. answer \in [Calls -> Answers] /\ {c \in Calls : answer[c] = "waiting"} = {}
    BY DEF StoreInit, Answers
  <2> QED
    BY <1>1, <1>2, <2>1, <2>2 DEF StoreInit, StoreTypeOK
<1>4. 1..Len(applied) = {}
  BY <1>2
<1>5. WritesInv /\ AnsweredIsDurable
  BY <1>4 DEF StoreInit, WritesInv, AnsweredIsDurable
<1> QED
  BY <1>3, <1>5 DEF StoreIInv

LEMMA SaveKeeps ==
  ASSUME StoreIInv, SaveSucceeds \/ SaveFails
  PROVE  StoreIInv'
<1>1. StoreTypeOK'
  BY DEF StoreIInv, StoreTypeOK, SaveSucceeds, SaveFails, db, disk
<1>2. n_stored <= n_stored' /\ n_stored \in Nat /\ n_stored' \in Nat
  BY DEF StoreIInv, StoreTypeOK, WritesInv, SaveSucceeds, SaveFails, disk
<1>3. UNCHANGED <<applied, answer, current_writes, writing, n_serialized>>
  BY DEF SaveSucceeds, SaveFails
<1>4. AnsweredIsDurable'
  BY <1>2, <1>3 DEF StoreIInv, AnsweredIsDurable
<1>5. writing' => n_stored' <= n_serialized'
  BY <1>3 DEF StoreIInv, StoreTypeOK, WritesInv, SaveSucceeds, SaveFails, disk
<1>6. save' = "ok" => n_stored' = n_serialized'
  BY DEF SaveSucceeds, SaveFails
<1>7. WritesInv'
  BY <1>3, <1>5, <1>6 DEF StoreIInv, WritesInv
<1> QED
  BY <1>1, <1>4, <1>7 DEF StoreIInv

\* Answering the calls of a save that succeeded: they are in the file.
LEMMA WriteoutDoneKeeps ==
  ASSUME StoreIInv, writeout_done
  PROVE  StoreIInv'
<1> DEFINE outcome == IF save = "ok" THEN "done" ELSE "write error"
<1>1. /\ answer' = [c \in Calls |-> IF c \in current_writes THEN outcome ELSE answer[c]]
      /\ current_writes' = outstanding_writes
      /\ outstanding_writes' = {}
      /\ UNCHANGED <<loaded, map, file, n_stored, applied>>
      /\ save \in {"ok", "failed"}
  BY DEF writeout_done, Finish, disk
<1>2. \/ /\ outstanding_writes # {}
         /\ gvdb_contents' = map /\ n_serialized' = Len(applied)
         /\ writing' = TRUE /\ save' = "running"
      \/ /\ outstanding_writes = {}
         /\ writing' = FALSE /\ save' = "none"
         /\ UNCHANGED <<gvdb_contents, n_serialized>>
  BY DEF writeout_done, StartSave
<1>3. Len(applied) \in Nat /\ n_stored \in 0..Len(applied) /\ applied \in Seq(Change_)
  BY DEF StoreIInv, StoreTypeOK
<1>8. loaded = TRUE
  BY <1>1 DEF StoreIInv, StoreTypeOK
<1>4. StoreTypeOK'
  <2>1. answer' \in [Calls -> Answers]
    BY <1>1 DEF StoreIInv, StoreTypeOK, Answers
  <2>2. (outstanding_writes \cup current_writes)' = {c \in Calls : answer'[c] = "waiting"}
    BY <1>1 DEF StoreIInv, StoreTypeOK
  <2>3. n_serialized' \in 0..Len(applied)
    BY <1>2, <1>3 DEF StoreIInv, StoreTypeOK
  <2>4. gvdb_contents' \in Map \cup {NULL}
    BY <1>2 DEF StoreIInv, StoreTypeOK
  <2> QED
    BY <1>1, <1>2, <1>3, <1>8, <2>1, <2>2, <2>3, <2>4 DEF StoreIInv, StoreTypeOK
<1>5. \A i \in 1..Len(applied) : applied[i].call \in Calls
  <2>1. \A i \in 1..Len(applied) : applied[i] \in Change_
    BY <1>3
  <2> QED
    BY <2>1 DEF Change_
<1>6. WritesInv'
  <2>1. \A i \in 1..Len(applied) : answer'[applied[i].call] \notin {"new", "error"}
    BY <1>1, <1>5 DEF StoreIInv, WritesInv
  <2>2. CASE outstanding_writes # {}
    <3>1. n_serialized' = Len(applied) /\ save' = "running"
      BY <1>2, <2>2
    <3>5. n_stored' = n_stored
      BY <1>1
    <3>2. n_stored' <= n_serialized'
      <4>1. n_stored <= Len(applied)
        BY <1>3
      <4> QED
        BY <3>1, <3>5, <4>1
    <3>3. applied' = applied /\ Len(applied) \in Nat
      BY <1>1, <1>3
    <3>4. \A i \in 1..Len(applied') : i <= n_serialized'
      BY <3>1, <3>3
    <3> QED
      BY <2>1, <3>1, <3>2, <3>3, <3>4 DEF WritesInv
  <2>3. CASE outstanding_writes = {}
    <3>1. current_writes' = {} /\ writing' = FALSE /\ save' = "none"
      BY <1>1, <1>2, <2>3
    <3> QED
      BY <1>1, <2>1, <3>1 DEF WritesInv
  <2> QED
    BY <2>2, <2>3
<1>7. AnsweredIsDurable'
  <2> SUFFICES ASSUME NEW i \in 1..Len(applied), answer'[applied[i].call] = "done"
               PROVE  i <= n_stored
    BY <1>1 DEF AnsweredIsDurable
  <2>1. CASE applied[i].call \in current_writes
    <3>1. save = "ok"
      BY <1>1, <1>5, <2>1
    <3> QED
      BY <2>1, <3>1 DEF StoreIInv, WritesInv
  <2>2. CASE applied[i].call \notin current_writes
    BY <1>1, <1>5, <2>2 DEF StoreIInv, AnsweredIsDurable
  <2> QED
    BY <2>1, <2>2
<1> QED
  BY <1>4, <1>6, <1>7 DEF StoreIInv

\* A crash forgets only changes that are not in the file.
LEMMA ExitKeeps ==
  ASSUME StoreIInv, Exit
  PROVE  StoreIInv'
<1>1. /\ Len(applied) \in Nat /\ n_stored \in 0..Len(applied)
      /\ applied \in Seq(Change_)
  BY DEF StoreIInv, StoreTypeOK
<1>2. applied' = SubSeq(applied, 1, n_stored) /\ n_stored' = n_stored
  BY DEF Exit, disk
<1>3. /\ applied' \in Seq(Change_) /\ Len(applied') = n_stored
      /\ \A i \in 1..n_stored : applied'[i] = applied[i]
  BY <1>1, <1>2
<1>4. /\ current_writes' = {} /\ outstanding_writes' = {}
      /\ writing' = FALSE /\ save' = "none" /\ n_serialized' = 0 /\ loaded' = FALSE
      /\ gvdb_contents' = NULL /\ map' = EmptyMap /\ file' = file
      /\ answer' = [c \in Calls |-> IF answer[c] = "waiting" THEN "lost" ELSE answer[c]]
  BY DEF Exit, disk
<1>5. EmptyMap \in Map
  BY DEF EmptyMap, Map
<1>6. answer' \in [Calls -> Answers] /\ {c \in Calls : answer'[c] = "waiting"} = {}
  BY <1>4 DEF StoreIInv, StoreTypeOK, Answers
<1>7. StoreTypeOK'
  <2>1. n_serialized' \in 0..Len(applied') /\ n_stored' \in 0..Len(applied')
    BY <1>1, <1>2, <1>3, <1>4
  <2>2. file' \in Map \cup {NULL}
    BY <1>4 DEF StoreIInv, StoreTypeOK
  <2> QED
    BY <1>3, <1>4, <1>5, <1>6, <2>1, <2>2 DEF StoreTypeOK
<1>8. \A i \in 1..n_stored : applied[i].call \in Calls /\ answer[applied[i].call] \notin {"new", "error"}
  <2>1. \A i \in 1..n_stored : i \in 1..Len(applied) /\ applied[i] \in Change_
    BY <1>1
  <2> QED
    BY <2>1 DEF StoreIInv, WritesInv, Change_
<1>9. WritesInv'
  BY <1>1, <1>3, <1>4, <1>8 DEF WritesInv
<1>10. AnsweredIsDurable'
  BY <1>1, <1>2, <1>3 DEF AnsweredIsDurable
<1> QED
  BY <1>7, <1>9, <1>10 DEF StoreIInv

LEMMA StoreInvStep ==
  ASSUME StoreIInv, [StoreNext]_store_vars
  PROVE  StoreIInv'
<1>1. ASSUME NEW c \in Calls, Handle(c)
      PROVE  StoreIInv'
  <2>1. CASE LoadFails(c)
    <3>1. StoreTypeOK'
      BY <2>1 DEF LoadFails, StoreIInv, StoreTypeOK, Answers, db, queue, disk
    <3>2. \A i \in 1..Len(applied) : answer'[applied[i].call] = answer[applied[i].call]
      BY <2>1 DEF LoadFails, StoreIInv, WritesInv, StoreTypeOK, Change_
    <3>3. UNCHANGED <<queue, n_stored, applied, n_serialized>>
      BY <2>1 DEF LoadFails, disk
    <3> QED
      BY <3>1, <3>2, <3>3 DEF StoreIInv, WritesInv, AnsweredIsDurable, queue
  <2> QED
    BY <1>1, <2>1, HandlerCases, AnswerKeeps, ChangeKeeps DEF StoreIInv
<1>2. CASE SaveSucceeds \/ SaveFails
  BY <1>2, SaveKeeps
<1>3. CASE writeout_done
  BY <1>3, WriteoutDoneKeeps
<1>4. CASE Exit
  BY <1>4, ExitKeeps
<1>5. CASE UNCHANGED store_vars
  BY <1>5 DEF store_vars, db, queue, disk, StoreIInv, StoreTypeOK, WritesInv, AnsweredIsDurable, Change_
<1> QED
  BY <1>1, <1>2, <1>3, <1>4, <1>5 DEF StoreNext

-----------------------------------------------------------------------------
(* What a sequence of changes leads to.                                    *)

\* The order of the numbers as a set of pairs.
Before == {p \in Nat \X Nat : p[1] < p[2]}

\* A set of numbers has a least one.
LEMMA Least ==
  ASSUME NEW T, T \subseteq Nat, T # {}
  PROVE  \E n \in T : \A k \in T : n <= k
<1>1. OpToRel(<, Nat) = Before
  BY Zenon DEF OpToRel, Before
<1>2. IsWellFoundedOn(Before, Nat)
  BY <1>1, NatLessThanWellFounded, Zenon
<1>3. PICK n \in T : \A k \in T : <<k, n>> \notin Before
  BY <1>2, WFMin
<1>4. \A k \in T : k < n => <<k, n>> \in Before
  BY DEF Before
<1>5. \A k \in T : k \in Nat /\ ~(k < n)
  BY <1>3, <1>4
<1> QED
  BY <1>5

\* A map after one change.
Changed(m, change) == [m EXCEPT ![change.id] = change.entry]

\* The maps that the first changes of a sequence lead to.
Replays(cs) ==
  LET f[n \in 0..Len(cs)] == IF n = 0 THEN EmptyMap ELSE Changed(f[n - 1], cs[n]) IN f

\* f has the maps that the first n changes lead to.
Computes(f, cs, n) == f = [k \in 0..n |-> IF k = 0 THEN EmptyMap ELSE Changed(f[k - 1], cs[k])]

LEMMA ReplaysExist ==
  ASSUME NEW cs \in Seq(Change_), NEW n \in 0..Len(cs)
  PROVE  \E f : Computes(f, cs, n)
<1> USE DEF Computes
<1> DEFINE Upto(j) == \E f : Computes(f, cs, j)
           T == {j \in Nat : ~Upto(j)}
<1>1. Upto(0)
  <2> DEFINE f == [k \in 0..0 |-> EmptyMap]
  <2>1. f = [k \in 0..0 |-> IF k = 0 THEN EmptyMap ELSE Changed(f[k - 1], cs[k])]
    OBVIOUS
  <2> QED
    BY <2>1
<1>2. ASSUME NEW j \in Nat, Upto(j) PROVE Upto(j + 1)
  <2>1. PICK f : f = [k \in 0..j |-> IF k = 0 THEN EmptyMap ELSE Changed(f[k - 1], cs[k])]
    BY <1>2
  <2> DEFINE g == [k \in 0..(j + 1) |-> IF k = j + 1 THEN Changed(f[j], cs[j + 1]) ELSE f[k]]
  <2>2. ASSUME NEW k \in 0..(j + 1)
        PROVE  g[k] = IF k = 0 THEN EmptyMap ELSE Changed(g[k - 1], cs[k])
    <3>1. CASE k = j + 1
      <4>1. k # 0 /\ k - 1 = j /\ j \in 0..(j + 1) /\ j # j + 1
        BY <3>1
      <4>2. g[k - 1] = f[j] /\ g[k] = Changed(f[j], cs[j + 1])
        BY <3>1, <4>1
      <4> QED
        BY <3>1, <4>1, <4>2
    <3>2. CASE k = 0
      <4>1. k # j + 1 /\ k \in 0..j
        BY <3>2
      <4>2. g[k] = f[k] /\ f[k] = EmptyMap
        BY <2>1, <3>2, <4>1
      <4> QED
        BY <3>2, <4>2
    <3>3. CASE k # j + 1 /\ k # 0
      <4>1. k \in 0..j /\ k - 1 \in 0..(j + 1) /\ k - 1 # j + 1
        BY <3>3
      <4>2. f[k] = Changed(f[k - 1], cs[k])
        BY <2>1, <3>3, <4>1
      <4>3. g[k] = f[k] /\ g[k - 1] = f[k - 1]
        BY <3>3, <4>1
      <4> QED
        BY <3>3, <4>2, <4>3
    <3> QED
      BY <3>1, <3>2, <3>3
  <2>3. g = [k \in 0..(j + 1) |-> IF k = 0 THEN EmptyMap ELSE Changed(g[k - 1], cs[k])]
    BY <2>2
  <2> QED
    BY <2>3
<1> HIDE DEF Upto
<1>3. T = {}
  <2>1. SUFFICES ASSUME T # {} PROVE FALSE
    OBVIOUS
  <2>2. PICK j \in T : \A k \in T : j <= k
    BY <2>1, Least
  <2>3. j \in Nat /\ ~Upto(j) /\ j # 0
    BY <1>1, <2>2
  <2>4. j - 1 \in Nat /\ j - 1 \notin T
    BY <2>2, <2>3
  <2>5. Upto((j - 1) + 1)
    BY <1>2, <2>4
  <2> QED
    BY <2>3, <2>5
<1>4. n \in Nat
  OBVIOUS
<1>5. Upto(n)
  BY <1>3, <1>4
<1> QED
  BY <1>5 DEF Upto

LEMMA ReplaysAre ==
  ASSUME NEW cs \in Seq(Change_)
  PROVE  /\ Replays(cs)[0] = EmptyMap
         /\ \A n \in 1..Len(cs) : Replays(cs)[n] = Changed(Replays(cs)[n - 1], cs[n])
<1> DEFINE Is(f) == Computes(f, cs, Len(cs))
<1>1. Len(cs) \in Nat /\ Len(cs) \in 0..Len(cs)
  OBVIOUS
<1>2. \E f : Is(f)
  BY <1>1, ReplaysExist
<1>3. Replays(cs) = CHOOSE f : Is(f)
  BY DEF Replays, Computes
<1>4. ASSUME NEW f, Is(f)
      PROVE  f[0] = EmptyMap /\ \A n \in 1..Len(cs) : f[n] = Changed(f[n - 1], cs[n])
  <2>1. \A n \in 0..Len(cs) : f[n] = IF n = 0 THEN EmptyMap ELSE Changed(f[n - 1], cs[n])
    BY <1>4 DEF Computes
  <2>2. 0 \in 0..Len(cs) /\ \A n \in 1..Len(cs) : n \in 0..Len(cs) /\ n # 0
    BY <1>1
  <2> QED
    BY <2>1, <2>2
<1> HIDE DEF Is
<1>5. Is(Replays(cs))
  BY <1>2, <1>3
<1> QED
  BY <1>4, <1>5

\* The first changes say what they lead to.
LEMMA ReplaysAgree ==
  ASSUME NEW cs \in Seq(Change_), NEW ds \in Seq(Change_),
         NEW n \in Nat, n <= Len(cs), n <= Len(ds), \A i \in 1..n : cs[i] = ds[i]
  PROVE  Replays(cs)[n] = Replays(ds)[n]
<1> DEFINE a == Replays(cs)
           b == Replays(ds)
           T == {j \in 0..n : a[j] # b[j]}
<1>1. /\ a[0] = EmptyMap /\ \A j \in 1..Len(cs) : a[j] = Changed(a[j - 1], cs[j])
      /\ b[0] = EmptyMap /\ \A j \in 1..Len(ds) : b[j] = Changed(b[j - 1], ds[j])
  BY ReplaysAre
<1> HIDE DEF a, b
<1>2. T = {}
  <2>1. SUFFICES ASSUME T # {} PROVE FALSE
    OBVIOUS
  <2>2. T \subseteq Nat
    OBVIOUS
  <2> HIDE DEF T
  <2>3. PICK j \in T : \A k \in T : j <= k
    BY <2>1, <2>2, Least
  <2> USE DEF T
  <2>4. j \in 1..n /\ j - 1 \in 0..n /\ j - 1 \notin T
    BY <1>1, <2>3
  <2>5. a[j - 1] = b[j - 1] /\ cs[j] = ds[j] /\ j \in 1..Len(cs) /\ j \in 1..Len(ds)
    BY <2>4
  <2>6. a[j] = b[j]
    BY <1>1, <2>5
  <2> QED
    BY <2>3, <2>6
<1>3. a[n] = b[n]
  BY <1>2
<1> QED
  BY <1>3 DEF a, b

LEMMA ReplayNone ==
  ASSUME NEW cs \in Seq(Change_)
  PROVE  Replays(cs)[0] = EmptyMap
BY ReplaysAre

LEMMA ReplayMore ==
  ASSUME NEW cs \in Seq(Change_), NEW change \in Change_
  PROVE  /\ \A n \in 0..Len(cs) : Replays(Append(cs, change))[n] = Replays(cs)[n]
         /\ Replays(Append(cs, change))[Len(cs) + 1] = Changed(Replays(cs)[Len(cs)], change)
<1> DEFINE ds == Append(cs, change)
           l == Len(cs)
<1>1. /\ l \in Nat /\ ds \in Seq(Change_) /\ Len(ds) = l + 1 /\ ds[l + 1] = change
      /\ \A i \in 1..l : ds[i] = cs[i]
  OBVIOUS
<1>2. cs \in Seq(Change_) /\ Len(cs) = l
  OBVIOUS
<1> HIDE DEF ds, l
<1>3. ASSUME NEW n \in 0..l
      PROVE  Replays(ds)[n] = Replays(cs)[n]
  <2>1. n \in Nat /\ n <= Len(cs) /\ n <= Len(ds) /\ \A i \in 1..n : ds[i] = cs[i]
    BY <1>1, <1>2
  <2> QED
    BY <1>1, <1>2, <2>1, ReplaysAgree
<1>4. l + 1 \in 1..Len(ds) /\ (l + 1) - 1 = l /\ l \in 0..l
  BY <1>1
<1>5. Replays(ds)[l + 1] = Changed(Replays(ds)[l], change)
  BY <1>1, <1>4, ReplaysAre
<1>6. Replays(ds)[l] = Replays(cs)[l]
  BY <1>3, <1>4
<1> QED
  BY <1>2, <1>3, <1>5, <1>6 DEF ds

LEMMA ReplayFewer ==
  ASSUME NEW cs \in Seq(Change_), NEW n \in 0..Len(cs)
  PROVE  Replays(SubSeq(cs, 1, n))[n] = Replays(cs)[n] /\ Len(SubSeq(cs, 1, n)) = n
<1> DEFINE ds == SubSeq(cs, 1, n)
<1>1. /\ n \in Nat /\ n <= Len(cs) /\ ds \in Seq(Change_) /\ Len(ds) = n
      /\ \A i \in 1..n : ds[i] = cs[i]
  OBVIOUS
<1> HIDE DEF ds
<1>2. n <= Len(ds)
  BY <1>1
<1>3. Replays(ds)[n] = Replays(cs)[n]
  BY <1>1, <1>2, ReplaysAgree
<1> QED
  BY <1>1, <1>3 DEF ds

-----------------------------------------------------------------------------
(* The file and the memory.                                                *)

\* The file has the changes of the last save that succeeded, the save that
\* runs those before it started, the memory all of them; a process that has
\* not loaded the table has made no change that is not in the file.
Prefixes ==
  /\ MapOf(file) = Replays(applied)[n_stored]
  /\ loaded => map = Replays(applied)[Len(applied)]
  /\ ~loaded => n_stored = Len(applied)
  /\ writing => gvdb_contents \in Map /\ gvdb_contents = Replays(applied)[n_serialized]

LEMMA PrefixesInit == StoreInit => Prefixes
<1> SUFFICES ASSUME StoreInit PROVE Prefixes
  OBVIOUS
<1>1. applied \in Seq(Change_) /\ Len(applied) = 0 /\ n_stored = 0 /\ ~loaded /\ ~writing
      /\ MapOf(file) = EmptyMap
  BY DEF StoreInit, MapOf
<1> QED
  BY <1>1, ReplayNone DEF Prefixes

\* What a handler finds is what all changes lead to.
LEMMA TableIsLast ==
  ASSUME StoreIInv, Prefixes
  PROVE  lookup_table = Replays(applied)[Len(applied)]
BY DEF Prefixes, lookup_table

LEMMA AnswerPrefixes ==
  ASSUME StoreIInv, Prefixes, NEW c \in Calls, NEW outcome, Answer(c, outcome)
  PROVE  Prefixes'
<1>1. /\ loaded' = TRUE /\ map' = lookup_table /\ gvdb_contents' = LoadedContents
      /\ UNCHANGED <<writing, file, n_stored, applied, n_serialized>>
  BY DEF Answer, queue, disk
<1>2. writing => gvdb_contents' = gvdb_contents
  BY <1>1 DEF StoreIInv, StoreTypeOK, LoadedContents
<1> QED
  BY <1>1, <1>2, TableIsLast DEF Prefixes

LEMMA ChangePrefixes ==
  ASSUME StoreIInv, Prefixes, NEW c \in Calls, NEW id \in Ids, NEW entry \in Entry \cup {NULL},
         Change(c, id, entry)
  PROVE  Prefixes'
<1> DEFINE m == [lookup_table EXCEPT ![id] = entry]
           change == [call |-> c, id |-> id, entry |-> entry]
           changes == Append(applied, change)
<1>1. /\ loaded' = TRUE /\ map' = m /\ applied' = changes
      /\ ensure_writeout(c, m, changes)
      /\ UNCHANGED <<file, n_stored>>
  BY DEF Change, disk
<1>2. m = Changed(lookup_table, change)
  BY DEF Changed
<1>3. m \in Map
  BY LookupTableType DEF StoreIInv, Map
<1>4. change \in Change_ /\ applied \in Seq(Change_) /\ n_stored \in 0..Len(applied)
      /\ n_serialized \in 0..Len(applied)
  BY DEF Change_, StoreIInv, StoreTypeOK
<1> HIDE DEF m, change
<1>5. Len(changes) = Len(applied) + 1
  BY <1>4
<1>6. /\ \A n \in 0..Len(applied) : Replays(changes)[n] = Replays(applied)[n]
      /\ Replays(changes)[Len(applied) + 1] = Changed(Replays(applied)[Len(applied)], change)
  BY <1>4, ReplayMore
<1> HIDE DEF changes
<1>7. m = Replays(changes)[Len(changes)]
  BY <1>2, <1>5, <1>6, TableIsLast
<1>8. MapOf(file') = Replays(changes)[n_stored]
  BY <1>1, <1>4, <1>6 DEF Prefixes
<1>9. CASE writing
  <2>1. UNCHANGED <<writing, gvdb_contents, n_serialized>>
    BY <1>1, <1>9 DEF ensure_writeout
  <2> QED
    BY <1>1, <1>4, <1>6, <1>7, <1>8, <1>9, <2>1 DEF Prefixes
<1>10. CASE ~writing
  <2>1. gvdb_contents' = m /\ n_serialized' = Len(changes)
    BY <1>1, <1>10 DEF ensure_writeout, StartSave
  <2> QED
    BY <1>1, <1>3, <1>7, <1>8, <2>1 DEF Prefixes
<1> QED
  BY <1>9, <1>10

LEMMA PrefixesStep ==
  ASSUME StoreIInv, Prefixes, [StoreNext]_store_vars
  PROVE  Prefixes'
<1>1. ASSUME NEW c \in Calls, Handle(c)
      PROVE  Prefixes'
  <2>1. CASE LoadFails(c)
    BY <2>1 DEF LoadFails, db, queue, disk, Prefixes
  <2> QED
    BY <1>1, <2>1, HandlerCases, AnswerPrefixes, ChangePrefixes DEF StoreIInv
<1>2. CASE SaveSucceeds
  <2>1. /\ save = "running" /\ file' = gvdb_contents /\ n_stored' = n_serialized
        /\ UNCHANGED <<loaded, map, gvdb_contents, writing, applied, n_serialized>>
    BY <1>2 DEF SaveSucceeds, db
  <2>2. writing /\ loaded
    BY <2>1 DEF StoreIInv, StoreTypeOK
  <2>3. MapOf(gvdb_contents) = gvdb_contents
    BY <2>2, NullAssumption DEF Prefixes, MapOf
  <2> QED
    BY <2>1, <2>2, <2>3 DEF Prefixes
<1>3. CASE SaveFails
  BY <1>3 DEF SaveFails, db, disk, Prefixes
<1>4. CASE writeout_done
  <2>1. UNCHANGED <<loaded, map, file, n_stored, applied>>
    BY <1>4 DEF writeout_done, disk
  <2>2. \/ writing' = FALSE
        \/ gvdb_contents' = map /\ n_serialized' = Len(applied)
    BY <1>4 DEF writeout_done, StartSave
  <2>3. map \in Map /\ loaded
    BY <1>4 DEF StoreIInv, StoreTypeOK, writeout_done
  <2> QED
    BY <2>1, <2>2, <2>3 DEF Prefixes
<1>5. CASE Exit
  <2>1. loaded' = FALSE /\ writing' = FALSE /\ applied' = SubSeq(applied, 1, n_stored)
        /\ UNCHANGED <<file, n_stored>>
    BY <1>5 DEF Exit, disk
  <2>2. applied \in Seq(Change_) /\ n_stored \in 0..Len(applied)
    BY DEF StoreIInv, StoreTypeOK
  <2>3. Replays(applied')[n_stored] = Replays(applied)[n_stored] /\ Len(applied') = n_stored
    BY <2>1, <2>2, ReplayFewer
  <2> QED
    BY <2>1, <2>3 DEF Prefixes
<1>6. CASE UNCHANGED store_vars
  BY <1>6 DEF store_vars, db, queue, disk, Prefixes
<1> QED
  BY <1>1, <1>2, <1>3, <1>4, <1>5, <1>6 DEF StoreNext

-----------------------------------------------------------------------------
\* Types, and the discipline of the two queues: a call waits exactly while it
\* is in one of them, and the assertion of start_writeout never fails.
THEOREM StoreTypeCorrect == StoreSpec => []StoreTypeOK
<1>1. StoreIInv => StoreTypeOK
  BY DEF StoreIInv
<1> QED
  BY <1>1, StoreInvInit, StoreInvStep, PTL DEF StoreSpec

\* A change that was answered without an error is in the file.
THEOREM AnsweredAlwaysDurable == StoreSpec => []AnsweredIsDurable
<1>1. StoreIInv => AnsweredIsDurable
  BY DEF StoreIInv
<1> QED
  BY <1>1, StoreInvInit, StoreInvStep, PTL DEF StoreSpec

\* No step, a crash included, loses a change that was answered.
LEMMA StepKeepsAnswered ==
  ASSUME StoreIInv, [StoreNext]_store_vars,
         NEW i \in 1..Len(applied), answer[applied[i].call] = "done"
  PROVE  i <= Len(applied') /\ applied'[i] = applied[i]
<1>1. Len(applied) \in Nat /\ applied \in Seq(Change_) /\ n_stored \in 0..Len(applied)
  BY DEF StoreIInv, StoreTypeOK
<1>2. ASSUME NEW c \in Calls, Handle(c)
      PROVE  applied' = applied \/ \E change \in Change_ : applied' = Append(applied, change)
  <2>1. ASSUME NEW id \in Ids, NEW entry \in Entry \cup {NULL}, Change(c, id, entry)
        PROVE  \E change \in Change_ : applied' = Append(applied, change)
    <3>1. [call |-> c, id |-> id, entry |-> entry] \in Change_
      BY DEF Change_
    <3> QED
      BY <2>1, <3>1 DEF Change
  <2> QED
    BY <1>2, <2>1, HandlerCases DEF StoreIInv, LoadFails, Answer
<1>3. CASE Exit
  <2>1. i <= n_stored /\ applied' = SubSeq(applied, 1, n_stored)
    BY <1>3 DEF StoreIInv, AnsweredIsDurable, Exit
  <2> QED
    BY <1>1, <2>1
<1>4. CASE ~Exit
  <2>1. applied' = applied \/ \E change \in Change_ : applied' = Append(applied, change)
    BY <1>2, <1>4 DEF StoreNext, SaveSucceeds, SaveFails, writeout_done, store_vars
  <2> QED
    BY <1>1, <2>1
<1> QED
  BY <1>3, <1>4

\* A change that was answered without an error is never undone, whatever
\* fails or exits after the answer (writeout_done, lookup_table).
THEOREM NoAnsweredChangeEverLost == StoreSpec => NoAnsweredChangeLost
<1> DEFINE Kept == \A i \in 1..Len(applied) :
                     answer[applied[i].call] = "done" =>
                       i <= Len(applied') /\ applied'[i] = applied[i]
<1>1. StoreIInv /\ [StoreNext]_store_vars => [Kept]_store_vars
  BY StepKeepsAnswered
<1> HIDE DEF Kept
<1>2. StoreSpec => [][Kept]_store_vars
  BY <1>1, StoreInvInit, StoreInvStep, PTL DEF StoreSpec
<1> USE DEF Kept
<1> QED
  BY <1>2 DEF NoAnsweredChangeLost

\* The file is what a prefix of the changes leads to, and the memory what all
\* of them do: saves, failed saves and restarts skip, repeat or reorder none.
THEOREM FileAlwaysPrefix == StoreSpec => []FileIsPrefix
<1>1. Replay = Replays(applied)
  BY DEF Replay, Replays, Changed
<1>2. Prefixes => FileIsPrefix
  BY <1>1 DEF Prefixes, FileIsPrefix
<1>3. StoreIInv /\ Prefixes /\ [StoreNext]_store_vars => Prefixes'
  <2> SUFFICES ASSUME StoreIInv, Prefixes, [StoreNext]_store_vars PROVE Prefixes'
    OBVIOUS
  <2> QED
    BY PrefixesStep
<1> QED
  BY <1>2, <1>3, StoreInvInit, StoreInvStep, PrefixesInit, PTL DEF StoreSpec
=============================================================================
