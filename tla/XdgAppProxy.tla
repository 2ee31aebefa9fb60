---------------------------- MODULE XdgAppProxy ----------------------------
(***************************************************************************)
(* dbus-proxy/xdg-app-proxy.c, filtering one authenticated client: the     *)
(* policies, the rewriting of serials, the replies that are expected, made *)
(* up or dropped, and the requests the proxy sends of its own to learn who *)
(* owns the names it has a policy for.                                     *)
(*                                                                         *)
(* A message is handled whole when it is read from its socket; both        *)
(* sockets and the buffers before them keep the order.  The bus and the    *)
(* peers are modelled from what the proxy relies on.  The client numbers   *)
(* its messages from 1, says Hello once and first, and answers a call      *)
(* once.  A signal of the client is a call without a reply.  Not here: the *)
(* handshake, file descriptors, calls of the client to itself, and closing *)
(* (the sides close only for a serial the proxy refuses).                  *)
(***************************************************************************)
EXTENDS Integers, Sequences, FiniteSets

CONSTANTS
  Names,      \* well-known names, other than the bus
  Prefixes,   \* names that have a wildcard policy
  ParentOf,   \* name -> the name up to its last dot, if it is in Prefixes, or NULL
  Policy,     \* name or prefix -> level: the tables policy and wildcard_policy
  Peers,      \* unique ids of others on the bus
  Me,         \* the unique id of the client
  InitialOwners, \* assignments of owners to start from
  Bus, NULL,
  Calls,      \* the <<destination, member, argument, no reply>> to call
  Pipelining, \* whether the client writes on without waiting for Hello's reply
  MaxSerial,  \* bound on the client's messages
  MaxEvents   \* bound on what peers do of their own accord

Ids == Peers \cup {Me}

NONE == 0
SEE  == 1
TALK == 2
OWN  == 3
Levels == NONE .. OWN

ASSUME PolicyAssumption ==
  /\ Policy \in [Names \cup Prefixes -> Levels]
  /\ ParentOf \in [Names -> Prefixes \cup {NULL}]
ASSUME OwnersAssumption == InitialOwners \subseteq [Names -> Peers \cup {NULL}]
ASSUME DistinctAssumption ==
  /\ Me \notin Peers
  /\ Bus \notin Ids \cup Names
  /\ NULL \notin Ids \cup Names \cup Prefixes
  /\ Names \cap (Ids \cup Prefixes) = {}

ASSUME FiniteAssumption == IsFiniteSet(Names) /\ IsFiniteSet(Prefixes)

\* What the client calls: methods of others, and those of the bus with an
\* argument of the kind they take.
ASSUME CallsAssumption ==
  Calls \subseteq
    ((Peers \cup Names) \X {"Method"} \X {NULL} \X BOOLEAN)
    \cup ({Bus} \X {"GetId", "BecomeMonitor", "ListNames"} \X {NULL} \X BOOLEAN)
    \cup ({Bus} \X {"AddMatch"} \X (Names \cup Prefixes) \X BOOLEAN)
    \cup ({Bus} \X {"RequestName", "StartServiceByName", "GetConnectionUnixProcessID",
                    "NameHasOwner", "GetNameOwner"} \X Names \X BOOLEAN)
ASSUME PipeliningAssumption == Pipelining \in BOOLEAN

VARIABLES
  \* The proxy's client object.
  serial_offset,    \* messages the proxy added to those of the client
  last_serial,      \* the last serial written to the bus
  hello_serial,
  expected_client,  \* client_side.expected_replies: serial -> type
  expected_bus,     \* bus_side.expected_replies: the serials of calls of peers
  rewrite_reply,    \* serial -> the reply serial of the made-up reply
  get_owner_reply,  \* serial -> the name asked for
  unique_id_policy, \* id -> level
  reading,          \* client_side.in_source is set
  in_loop,          \* side_in_cb of the client side has not returned from Hello
  closed,
  toBus, fromBus,   \* what is under way to and from the bus
  \* The bus and the peers.
  owner, matches,
  todo,             \* calls of the client that peers have to answer
  peer_serial,      \* id -> the calls it has made to the client
  events,           \* how often peers acted of their own accord
  \* The client.
  client_serial,
  asked,            \* the serials of its calls that expect a reply
  reused,           \* whether it used a serial twice
  delivered,        \* the replies it got, in order
  known,            \* the pairs <<name, id>> it was told of
  inbox,            \* calls it has to answer
  \* Auxiliary: who owned which name, who reached the client with a call or a
  \* reply, whose broadcasts it got, whom its calls reached, calls of peers
  \* whose reply was dropped.
  owned, senders, heard, reached, refused

tables == <<expected_client, rewrite_reply, get_owner_reply>>
serials == <<serial_offset, last_serial, hello_serial>>
bus    == <<owner, matches, todo, peer_serial, events, owned, reached>>
client == <<client_serial, asked, reused, delivered, known, inbox, senders, heard>>
flags  == <<reading, in_loop, closed>>
vars   == <<tables, serials, expected_bus, unique_id_policy, flags,
            toBus, fromBus, bus, client, refused>>

Init ==
  /\ serial_offset = 0 /\ last_serial = 0 /\ hello_serial = 0
  /\ expected_client = <<>> /\ expected_bus = {}
  /\ rewrite_reply = <<>> /\ get_owner_reply = <<>>
  /\ unique_id_policy = [u \in Ids |-> NONE]
  /\ reading = TRUE /\ in_loop = FALSE /\ closed = FALSE
  /\ toBus = <<>> /\ fromBus = <<>>
  /\ owner \in InitialOwners
  /\ owned = {<<n, owner[n]>> : n \in {n \in Names : owner[n] # NULL}}
  /\ matches = {} /\ todo = {} /\ reached = {}
  /\ peer_serial = [p \in Peers |-> 0] /\ events = 0
  /\ client_serial = 0 /\ asked = {} /\ reused = FALSE /\ delivered = <<>> /\ known = {} /\ inbox = {}
  /\ senders = {} /\ heard = {} /\ refused = {}

-----------------------------------------------------------------------------
(* Messages.  A call records in "of" the serial the client gave it, 0 for  *)
(* the proxy's own; its reply carries that on.                             *)

Call(serial, dest, member, arg, no_reply, of) ==
  [type |-> "call", serial |-> serial, dest |-> dest, member |-> member,
   arg |-> arg, no_reply |-> no_reply, of |-> of]
ReplyTo(c, serial) ==
  [type |-> "return", serial |-> serial, dest |-> c.sender, reply_serial |-> c.serial]

\* What the bus or a peer sends back; names and id are its body.
Return(c, sender, names, id) ==
  [type |-> "return", sender |-> sender, reply_serial |-> c.serial,
   of |-> c.of, names |-> names, id |-> id]
Error(c) ==
  [type |-> "error", sender |-> Bus, reply_serial |-> c.serial,
   of |-> c.of, names |-> {}, id |-> NULL]

PeerCall(p, serial, no_reply) ==
  [type |-> "call", sender |-> p, serial |-> serial, no_reply |-> no_reply]
NameOwnerChanged(n, old, new) ==
  [type |-> "signal", sender |-> Bus, name |-> n, old |-> old, new |-> new]
Broadcast(p) == [type |-> "broadcast", sender |-> p]

Without(f, k) == [x \in DOMAIN f \ {k} |-> f[x]]

\* The entries of g, and those of f for what g does not have.
Over(g, f) ==
  [x \in DOMAIN g \cup DOMAIN f |-> IF x \in DOMAIN g THEN g[x] ELSE f[x]]

-----------------------------------------------------------------------------
(* Policies.                                                               *)

Maximum(a, b) == IF a >= b THEN a ELSE b

xdg_app_proxy_get_wildcard_policy(name) ==
  IF ParentOf[name] = NULL THEN NONE ELSE Policy[ParentOf[name]]

xdg_app_proxy_get_policy(name) ==
  Maximum(Policy[name], xdg_app_proxy_get_wildcard_policy(name))

xdg_app_proxy_client_get_policy(source) ==
  CASE source = Bus -> TALK
    [] source \in Ids -> unique_id_policy[source]
    [] source \in Names -> xdg_app_proxy_get_policy(source)

\* The table after id was seen with the policy; it never falls.
update_unique_id_policy(table, id, policy) ==
  [table EXCEPT ![id] = Maximum(policy, @)]

update_unique_id_policy_from_name(table, id, name) ==
  IF id = NULL THEN table
  ELSE update_unique_id_policy(table, id, xdg_app_proxy_get_policy(name))

-----------------------------------------------------------------------------
(* The proxy's own requests.                                               *)

Fake(member, arg, type) == [member |-> member, arg |-> arg, type |-> type]

Orders(S) == {o \in [1 .. Cardinality(S) -> S] : {o[i] : i \in DOMAIN o} = S}

ExactNames == {n \in Names : Policy[n] > NONE}

\* MUTANT of OpsForNames: the question first.
AsksFirst(order) ==
  [i \in 1 .. 2 * Len(order) |->
     IF i % 2 = 0 THEN Fake("AddMatch", order[i \div 2], "FILTER")
     ELSE Fake("GetNameOwner", order[(i + 1) \div 2], "FAKE_GET_NAME_OWNER")]

\* For every name a match and then a question, in the order of the hash table.
OpsForNames(order) ==
  [i \in 1 .. 2 * Len(order) |->
     IF i % 2 = 1 THEN Fake("AddMatch", order[(i + 1) \div 2], "FILTER")
     ELSE Fake("GetNameOwner", order[i \div 2], "FAKE_GET_NAME_OWNER")]

OpsForPrefixes(order) ==
  [i \in DOMAIN order |-> Fake("AddMatch", order[i], "FILTER")]

queue_initial_name_ops(names, prefixes) ==
  OpsForNames(names) \o OpsForPrefixes(prefixes)
    \o (IF prefixes = <<>> THEN <<>>
        ELSE <<Fake("ListNames", NULL, "FAKE_LIST_NAMES")>>)

\* The names of a ListNames reply that a wildcard policy matches.
WildcardNames(names) ==
  {n \in names \cap Names : xdg_app_proxy_get_wildcard_policy(n) > NONE}

queue_wildcard_initial_name_ops(order) ==
  [i \in DOMAIN order |->
     Fake("GetNameOwner", order[i], "FAKE_GET_NAME_OWNER")]

\* MUTANT of queue_fake_messages: serial_offset is forgotten.
FakesWithoutOffset(ops, base, queue, expected) ==
  /\ last_serial' = base + Len(ops)
  /\ serial_offset' = serial_offset
  /\ toBus' = queue \o [i \in DOMAIN ops |->
       Call(base + i, Bus, ops[i].member, ops[i].arg, FALSE, 0)]
  /\ expected_client' =
       Over([s \in base + 1 .. base + Len(ops) |-> ops[s - base].type], expected)
  /\ get_owner_reply' =
       Over([s \in {base + i : i \in {i \in DOMAIN ops : ops[i].member = "GetNameOwner"}}
               |-> ops[s - base].arg], get_owner_reply)

\* The messages ops after those in queue, with the serials that follow base.
queue_fake_messages(ops, base, queue, expected) ==
  /\ last_serial' = base + Len(ops)
  /\ serial_offset' = serial_offset + Len(ops)
  /\ toBus' = queue \o [i \in DOMAIN ops |->
       Call(base + i, Bus, ops[i].member, ops[i].arg, FALSE, 0)]
  /\ expected_client' =
       Over([s \in base + 1 .. base + Len(ops) |-> ops[s - base].type], expected)
  /\ get_owner_reply' =
       Over([s \in {base + i : i \in {i \in DOMAIN ops : ops[i].member = "GetNameOwner"}}
               |-> ops[s - base].arg], get_owner_reply)

-----------------------------------------------------------------------------
(* From the client.                                                        *)

\* What becomes of a call, and which reply is then expected.  A call is
\* passed on, replaced by a ping whose reply will be rewritten, or dropped.
Verdict(action, type) == [action |-> action, type |-> type]

\* MUTANT of Refused: no reply is made up.
RefusesSilently(m) == Verdict("drop", "NONE")

Refused(m) == IF m.no_reply THEN Verdict("drop", "NONE")
              ELSE Verdict("ping", "REWRITE")
Passed(m, type) == Verdict("pass", IF type = "NONE" /\ ~m.no_reply
                                   THEN "NORMAL" ELSE type)

Validated(m, level) ==
  IF xdg_app_proxy_client_get_policy(m.arg) >= level
  THEN Passed(m, "NONE") ELSE Refused(m)

BusVerdict(m) ==
  CASE m.member = "Hello" -> Passed(m, "HELLO")
    [] m.member \in {"AddMatch", "GetId"} -> Passed(m, "NONE")
    [] m.member = "BecomeMonitor" -> Refused(m)
    [] m.member = "RequestName" -> Validated(m, OWN)
    [] m.member = "StartServiceByName" -> Validated(m, TALK)
    [] m.member = "GetConnectionUnixProcessID" -> Validated(m, SEE)
    [] m.member = "ListNames" -> Passed(m, "LIST_NAMES")
    [] m.member \in {"NameHasOwner", "GetNameOwner"} ->
         IF xdg_app_proxy_client_get_policy(m.arg) >= SEE
         THEN Passed(m, "NONE") ELSE Verdict("ping", "REWRITE")

get_dbus_method_handler(m) ==
  IF xdg_app_proxy_client_get_policy(m.dest) < TALK THEN Refused(m)
  ELSE IF m.dest # Bus THEN Passed(m, "NONE")
  ELSE BusVerdict(m)

\* side_in_cb goes on reading after stop_reading, until the socket is empty.
CanRead == reading \/ in_loop

\* A serial that does not grow closes both sides.
RefuseSerial ==
  /\ closed' = TRUE
  /\ UNCHANGED <<tables, serials, expected_bus, unique_id_policy, reading,
                 in_loop, toBus, fromBus, bus, inbox, refused>>

\* MUTANT of MadeUpReplySerial: the serial on the bus.
SerialOnBus(serial) == serial

\* The serial the client gave to the call that is on the bus as serial.
MadeUpReplySerial(serial) == serial - serial_offset

ForwardCall(m, serial, ops) ==
  LET v == get_dbus_method_handler(m)
      written == CASE v.action = "pass" -> <<[m EXCEPT !.serial = serial]>>
                   [] v.action = "ping" -> <<Call(serial, Bus, "Ping", NULL,
                                                  m.no_reply, m.of)>>
                   [] OTHER -> <<>>
      expects == IF v.type = "NONE" THEN expected_client
                 ELSE Over([s \in {serial} |-> v.type], expected_client)
  IN /\ queue_fake_messages(ops, serial, toBus \o written, expects)
     /\ rewrite_reply' = IF v.action = "ping"
          THEN Over([s \in {serial} |-> MadeUpReplySerial(serial)], rewrite_reply)
          ELSE rewrite_reply
     /\ UNCHANGED <<expected_bus, inbox, refused>>

\* A reply of the client needs a call with its serial, whoever made that.
ForwardReply(m, serial) ==
  LET call == [sender |-> m.dest, serial |-> m.reply_serial]
      expected == m.reply_serial \in expected_bus
  IN /\ last_serial' = serial
     /\ inbox' = inbox \ {call}
     /\ expected_bus' = expected_bus \ {m.reply_serial}
     /\ toBus' = IF expected THEN Append(toBus, [m EXCEPT !.serial = serial])
                 ELSE toBus
     /\ refused' = IF expected THEN refused ELSE refused \cup {call}
     /\ UNCHANGED <<tables, serial_offset>>

got_buffer_from_client(m) ==
  LET serial == m.serial + serial_offset
  IN \/ /\ serial <= last_serial
        /\ RefuseSerial
     \/ /\ serial > last_serial
        /\ \/ m.type = "return" /\ ForwardReply(m, serial)
           \/ m.type = "call" /\ m.member # "Hello" /\ ForwardCall(m, serial, <<>>)
        /\ UNCHANGED <<hello_serial, unique_id_policy, flags, fromBus, bus>>
     \/ /\ serial > last_serial
        /\ m.type = "call" /\ m.member = "Hello"
        /\ hello_serial' = serial
        /\ \E names \in Orders(ExactNames), prefixes \in Orders(Prefixes) :
             ForwardCall(m, serial, queue_initial_name_ops(names, prefixes))
        /\ reading' = (Prefixes = {})
        /\ in_loop' = TRUE
        /\ UNCHANGED <<unique_id_policy, closed, fromBus, bus>>

-----------------------------------------------------------------------------
(* The client.                                                             *)

Helloed == \E i \in DOMAIN delivered : delivered[i].of = 1

Learned == <<delivered, known, senders, heard>>

ClientHello ==
  /\ client_serial = 0
  /\ got_buffer_from_client(Call(1, Bus, "Hello", NULL, FALSE, 1))
  /\ client_serial' = 1
  /\ asked' = {1}
  /\ UNCHANGED <<reused, Learned>>

ClientCalls ==
  /\ CanRead
  /\ client_serial \in 1 .. MaxSerial - 1
  /\ Helloed \/ Pipelining
  /\ LET serial == client_serial + 1
     IN /\ \E c \in Calls :
             /\ got_buffer_from_client(Call(serial, c[1], c[2], c[3], c[4], serial))
             /\ asked' = IF c[4] THEN asked ELSE asked \cup {serial}
        /\ client_serial' = serial
  /\ UNCHANGED <<reused, Learned>>

\* The client uses its last serial once more.
ClientReusesSerial ==
  /\ CanRead
  /\ client_serial > 0
  /\ Helloed \/ Pipelining
  /\ \E c \in Calls :
       got_buffer_from_client(Call(client_serial, c[1], c[2], c[3], c[4], client_serial))
  /\ reused' = TRUE
  /\ UNCHANGED <<client_serial, asked, Learned>>

ClientReplies ==
  /\ CanRead
  /\ \E c \in inbox : got_buffer_from_client(ReplyTo(c, client_serial + 1))
  /\ client_serial' = client_serial + 1
  /\ UNCHANGED <<asked, reused, Learned>>

side_in_cb_returns ==
  /\ in_loop
  /\ in_loop' = FALSE
  /\ UNCHANGED <<tables, serials, expected_bus, unique_id_policy, reading,
                 closed, toBus, fromBus, bus, client, refused>>

-----------------------------------------------------------------------------
(* From the bus.                                                           *)

\* The serial the client sees, with the offset of this moment.
RewrittenSerial(m) ==
  IF m.reply_serial > hello_serial + serial_offset
  THEN m.reply_serial - serial_offset ELSE m.reply_serial

\* The names of a list that the client may see.
filter_names_list(names) ==
  {x \in names : xdg_app_proxy_client_get_policy(x) >= SEE}

\* A reply that goes on to the client: its serial, and its body names and id.
DeliverReply(m, reply_serial, names) ==
  /\ delivered' = Append(delivered, [reply_serial |-> reply_serial,
                                     of |-> m.of, names |-> names])
  /\ known' = IF m.id # NULL THEN known \cup {<<n, m.id>> : n \in names \cap Names}
              ELSE known
  /\ senders' = senders \cup ({m.sender} \cap Peers)
  /\ UNCHANGED <<client_serial, asked, reused, inbox, heard>>

\* MUTANT of SeeSender: the sender may be talked to.
SenderMayTalk(table, m) ==
  IF m.sender \in Ids THEN update_unique_id_policy(table, m.sender, TALK)
  ELSE table

\* A message from a peer makes its id visible.
SeeSender(table, m) ==
  IF m.sender \in Ids THEN update_unique_id_policy(table, m.sender, SEE)
  ELSE table

ReplyForClient(m, type) ==
  /\ type \in {"NORMAL", "HELLO", "LIST_NAMES", "REWRITE"}
  /\ unique_id_policy' =
       IF type = "HELLO" THEN update_unique_id_policy(unique_id_policy, m.id, TALK)
       ELSE SeeSender(unique_id_policy, m)
  /\ CASE type = "REWRITE" -> DeliverReply(m, rewrite_reply[m.reply_serial], {})
       [] type = "LIST_NAMES" ->
            DeliverReply(m, RewrittenSerial(m), filter_names_list(m.names))
       [] OTHER -> DeliverReply(m, RewrittenSerial(m), m.names)
  /\ rewrite_reply' = IF type = "REWRITE"
                      THEN Without(rewrite_reply, m.reply_serial)
                      ELSE rewrite_reply
  /\ expected_client' = Without(expected_client, m.reply_serial)
  /\ UNCHANGED <<get_owner_reply, serials, reading, toBus>>

\* MUTANT of AfterOwnerReply: the name stays in the table.
KeepsAsked(m) == get_owner_reply

AfterOwnerReply(m) == Without(get_owner_reply, m.reply_serial)

ReplyForProxy(m, type) ==
  \/ /\ type = "FILTER"
     /\ expected_client' = Without(expected_client, m.reply_serial)
     /\ UNCHANGED <<unique_id_policy, get_owner_reply, serials, reading, toBus>>
  \/ /\ type = "FAKE_GET_NAME_OWNER"
     /\ unique_id_policy' = update_unique_id_policy_from_name(
          unique_id_policy, m.id, get_owner_reply[m.reply_serial])
     /\ get_owner_reply' = AfterOwnerReply(m)
     /\ expected_client' = Without(expected_client, m.reply_serial)
     /\ UNCHANGED <<serials, reading, toBus>>
  \/ /\ type = "FAKE_LIST_NAMES"
     /\ \E order \in Orders(WildcardNames(m.names)) :
          queue_fake_messages(queue_wildcard_initial_name_ops(order), last_serial,
                              toBus, Without(expected_client, m.reply_serial))
     /\ reading' = TRUE
     /\ UNCHANGED <<unique_id_policy, hello_serial>>

got_reply_from_bus(m) ==
  /\ \/ /\ m.reply_serial \notin DOMAIN expected_client
        /\ UNCHANGED <<tables, serials, unique_id_policy, reading, toBus, client>>
     \/ /\ m.reply_serial \in DOMAIN expected_client
        /\ ReplyForClient(m, expected_client[m.reply_serial])
     \/ /\ m.reply_serial \in DOMAIN expected_client
        /\ ReplyForProxy(m, expected_client[m.reply_serial])
        /\ UNCHANGED <<rewrite_reply, client>>
  /\ UNCHANGED expected_bus

got_call_from_bus(m) ==
  /\ expected_bus' = IF m.no_reply THEN expected_bus
                     ELSE expected_bus \cup {m.serial}
  /\ unique_id_policy' = SeeSender(unique_id_policy, m)
  /\ inbox' = IF m.no_reply THEN inbox
              ELSE inbox \cup {[sender |-> m.sender, serial |-> m.serial]}
  /\ senders' = senders \cup {m.sender}
  /\ UNCHANGED <<tables, serials, reading, toBus, client_serial, asked,
                 reused, delivered, known, heard>>

\* NameOwnerChanged of a name the client may not see is dropped.
should_filter_name_owner_changed(m) ==
  xdg_app_proxy_client_get_policy(m.name) < SEE

got_name_owner_changed(m) ==
  /\ IF should_filter_name_owner_changed(m)
     THEN UNCHANGED <<unique_id_policy, known>>
     ELSE /\ unique_id_policy' = update_unique_id_policy_from_name(
               update_unique_id_policy_from_name(unique_id_policy, m.old, m.name),
               m.new, m.name)
          /\ known' = IF m.new = NULL THEN known
                      ELSE known \cup {<<m.name, m.new>>}
  /\ UNCHANGED <<tables, serials, expected_bus, reading, toBus, client_serial,
                 asked, reused, delivered, inbox, senders, heard>>

got_broadcast(m) ==
  /\ heard' = IF xdg_app_proxy_client_get_policy(m.sender) < TALK THEN heard
              ELSE heard \cup {m.sender}
  /\ UNCHANGED <<tables, serials, expected_bus, unique_id_policy, reading, toBus,
                 client_serial, asked, reused, delivered, known, inbox,
                 senders>>

got_buffer_from_bus ==
  /\ ~in_loop
  /\ fromBus # <<>>
  /\ LET m == Head(fromBus)
     IN CASE m.type \in {"return", "error"} -> got_reply_from_bus(m)
          [] m.type = "call" -> got_call_from_bus(m)
          [] m.type = "signal" -> got_name_owner_changed(m)
          [] m.type = "broadcast" -> got_broadcast(m)
  /\ fromBus' = Tail(fromBus)
  /\ UNCHANGED <<in_loop, closed, bus, refused>>

-----------------------------------------------------------------------------
(* The bus and the peers.                                                  *)

proxy == <<tables, serials, expected_bus, unique_id_policy, flags, client,
           refused>>

Matched(n) == n \in matches \/ ParentOf[n] \in matches

\* The name changes hands; "after" is what the bus sends after the signal.
SetOwner(n, new, after) ==
  /\ owner' = [owner EXCEPT ![n] = new]
  /\ owned' = IF new = NULL THEN owned ELSE owned \cup {<<n, new>>}
  /\ fromBus' = fromBus \o
       (IF Matched(n) THEN <<NameOwnerChanged(n, owner[n], new)>> ELSE <<>>) \o after

\* The bus answers a call to itself.
BusAnswer(m) ==
  CASE m.member = "Hello" -> Return(m, Bus, {}, Me)
    [] m.member = "ListNames" ->
         Return(m, Bus, {n \in Names : owner[n] # NULL} \cup Ids, NULL)
    [] m.member = "GetNameOwner" ->
         IF owner[m.arg] = NULL THEN Error(m)
         ELSE Return(m, Bus, {m.arg}, owner[m.arg])
    [] OTHER -> Return(m, Bus, {}, NULL)

BusHandlesOwnCall(m) ==
  LET answer == IF m.no_reply THEN <<>> ELSE <<BusAnswer(m)>>
  IN /\ matches' = IF m.member = "AddMatch" THEN matches \cup {m.arg} ELSE matches
     /\ IF m.member = "RequestName" /\ owner[m.arg] = NULL
        THEN SetOwner(m.arg, Me, answer)
        ELSE fromBus' = fromBus \o answer /\ UNCHANGED <<owner, owned>>
     /\ UNCHANGED <<todo, reached>>

BusRoutesCall(m) ==
  LET to == IF m.dest \in Names THEN owner[m.dest] ELSE m.dest
  IN /\ IF to \in Peers
        THEN /\ reached' = reached \cup {to}
             /\ todo' = IF m.no_reply THEN todo
                        ELSE todo \cup {[to |-> to, serial |-> m.serial, of |-> m.of]}
             /\ UNCHANGED fromBus
        ELSE /\ fromBus' = IF m.no_reply THEN fromBus ELSE Append(fromBus, Error(m))
             /\ UNCHANGED <<reached, todo>>
     /\ UNCHANGED <<matches, owner, owned>>

BusHandles ==
  /\ toBus # <<>>
  /\ LET m == Head(toBus)
     IN CASE m.type = "return" -> UNCHANGED <<matches, owner, owned, fromBus,
                                              todo, reached>>
          [] m.type = "call" /\ m.dest = Bus -> BusHandlesOwnCall(m)
          [] m.type = "call" /\ m.dest # Bus -> BusRoutesCall(m)
  /\ toBus' = Tail(toBus)
  /\ UNCHANGED <<proxy, peer_serial, events>>

PeerAnswers ==
  /\ \E c \in todo :
       /\ todo' = todo \ {c}
       /\ fromBus' = Append(fromBus, Return(c, c.to, {}, NULL))
  /\ UNCHANGED <<proxy, toBus, owner, matches, peer_serial, events, owned,
                 reached>>

\* The bus has handled Hello; only then can others send to the client.
OnBus ==
  /\ client_serial > 0
  /\ \A i \in DOMAIN toBus : toBus[i].type = "call" => toBus[i].member # "Hello"

Event == events < MaxEvents /\ events' = events + 1

\* Each peer numbers its calls by itself.
PeerCallsClient ==
  /\ OnBus /\ Event
  /\ \E p \in Peers, no_reply \in BOOLEAN :
       /\ peer_serial' = [peer_serial EXCEPT ![p] = @ + 1]
       /\ fromBus' = Append(fromBus, PeerCall(p, peer_serial[p] + 1, no_reply))
  /\ UNCHANGED <<proxy, toBus, owner, matches, todo, owned, reached>>

\* A peer sends a signal that a match of the client selects.
PeerBroadcasts ==
  /\ OnBus /\ Event
  /\ \E p \in Peers : fromBus' = Append(fromBus, Broadcast(p))
  /\ UNCHANGED <<proxy, toBus, owner, matches, todo, peer_serial, owned, reached>>

\* A name is given up, taken, or taken over.
PeerChangesOwner ==
  /\ Event
  /\ \E n \in Names, u \in Peers \cup {NULL} :
       /\ owner[n] # Me /\ owner[n] # u
       /\ SetOwner(n, u, <<>>)
  /\ UNCHANGED <<proxy, toBus, matches, todo, peer_serial, reached>>

-----------------------------------------------------------------------------
Next ==
  /\ ~closed
  /\ \/ ClientHello \/ ClientCalls \/ ClientReusesSerial \/ ClientReplies
     \/ side_in_cb_returns
     \/ got_buffer_from_bus
     \/ BusHandles
     \/ PeerAnswers \/ PeerCallsClient \/ PeerBroadcasts \/ PeerChangesOwner

Spec == Init /\ [][Next]_vars

\* The proxy's loop and the bus keep running, and peers answer.
FairSpec ==
  /\ Spec
  /\ WF_vars(~closed /\ side_in_cb_returns)
  /\ WF_vars(~closed /\ got_buffer_from_bus) /\ WF_vars(~closed /\ BusHandles)
  /\ WF_vars(~closed /\ PeerAnswers)

-----------------------------------------------------------------------------
(* Properties.                                                             *)

\* Types; the two tables of the proxy hold exactly the replies of their kind.
TypeOK ==
  /\ {serial_offset, last_serial, hello_serial, client_serial} \subseteq Nat
  /\ DOMAIN expected_client \subseteq Nat
  /\ DOMAIN rewrite_reply = {s \in DOMAIN expected_client :
                               expected_client[s] = "REWRITE"}
  /\ DOMAIN get_owner_reply = {s \in DOMAIN expected_client :
                                 expected_client[s] = "FAKE_GET_NAME_OWNER"}
  /\ unique_id_policy \in [Ids -> Levels]
  /\ owner \in [Names -> Ids \cup {NULL}]
  /\ matches \subseteq Names \cup Prefixes

\* A client is refused exactly when it uses a serial again: the serials that
\* the proxy adds for its own messages never make the check fail or pass.
RefusedIffReused == closed = reused

\* Every reply the client sees carries the serial that the client gave to the
\* call it answers, whatever the proxy sent, replaced or dropped in between;
\* no call is answered twice and no reply to the proxy itself comes through.
RepliesMatchCalls ==
  /\ \A i \in DOMAIN delivered : delivered[i].reply_serial = delivered[i].of
  /\ \A i, j \in DOMAIN delivered :
       i # j => delivered[i].reply_serial # delivered[j].reply_serial

\* Once the client was told that an id owns a name, or the proxy and the bus
\* have nothing under way, the id has the policy of the name.
OwnersAllowed ==
  /\ \A k \in known : unique_id_policy[k[2]] >= xdg_app_proxy_get_policy(k[1])
  /\ Helloed /\ reading /\ toBus = <<>> /\ fromBus = <<>> =>
       \A n \in Names : owner[n] # NULL =>
         unique_id_policy[owner[n]] >= xdg_app_proxy_get_policy(n)

\* What an id may be to the client: the policies of the names it ever owned,
\* SEE if it has sent the client something, TALK for the client itself.
MayBe(u, level) ==
  \/ level = NONE
  \/ u = Me /\ level <= TALK
  \/ u \in senders /\ level <= SEE
  \/ \E n \in Names : <<n, u>> \in owned /\ level <= xdg_app_proxy_get_policy(n)

\* No id gets a higher policy than its names, its messages or being the client
\* account for, no broadcast of another id is delivered, and no call of the
\* client reaches another.
VisibilityJustified ==
  /\ \A u \in Ids : MayBe(u, unique_id_policy[u])
  /\ \A u \in heard \cup reached : \E n \in Names :
       <<n, u>> \in owned /\ xdg_app_proxy_get_policy(n) >= TALK

\* Every call that expects a reply gets one: passed on, made up after the
\* round trip of a ping, or an error.
EveryCallAnswered ==
  \A s \in 1 .. MaxSerial :
    s \in asked ~> closed \/ \E i \in DOMAIN delivered : delivered[i].of = s

\* "All replies (errors or method returns) are allowed once for an outstanding
\* method call" (the head comment of the file): a reply of the client to a call
\* it was given is passed on.
RepliesAllowed == refused = {}
=============================================================================
