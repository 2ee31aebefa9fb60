------------------------ MODULE XdgAppProxyProofs ------------------------
(***************************************************************************)
(* Proofs about XdgAppProxy for every set of names, policies, connections  *)
(* and calls, and any number of messages.  What the proxy makes of a       *)
(* message depends on its tables, and the tables on what it once sent, so  *)
(* the invariants speak of all that is under way in both directions.       *)
(***************************************************************************)
EXTENDS XdgAppProxy, TLAPS, FiniteSetTheorems

Elems(s) == {s[i] : i \in 1..Len(s)}

-----------------------------------------------------------------------------
(* The messages under way.                                                 *)

Members == {"Method", "Hello", "GetId", "BecomeMonitor", "ListNames", "AddMatch",
            "RequestName", "StartServiceByName", "GetConnectionUnixProcessID",
            "NameHasOwner", "GetNameOwner", "Ping"}
ClientKinds == {"NORMAL", "HELLO", "LIST_NAMES", "REWRITE"}
OwnKinds == {"FILTER", "FAKE_GET_NAME_OWNER", "FAKE_LIST_NAMES"}

CallMsg ==
  [type : {"call"}, serial : Nat, dest : {Bus} \cup Peers \cup Names,
   member : Members, arg : Names \cup Prefixes \cup {NULL},
   no_reply : BOOLEAN, of : Nat]
ReturnMsg == [type : {"return"}, serial : Nat, dest : Peers, reply_serial : Nat]
ReplyMsg ==
  [type : {"return", "error"}, sender : Peers \cup {Bus}, reply_serial : Nat,
   of : Nat, names : SUBSET (Names \cup Ids), id : Ids \cup {NULL}]
PeerCallMsg == [type : {"call"}, sender : Peers, serial : Nat, no_reply : BOOLEAN]
SignalMsg ==
  [type : {"signal"}, sender : {Bus}, name : Names,
   old : Ids \cup {NULL}, new : Ids \cup {NULL}]
BroadcastMsg == [type : {"broadcast"}, sender : Peers]

ToBusMsg == CallMsg \cup ReturnMsg
FromBusMsg == ReplyMsg \cup PeerCallMsg \cup SignalMsg \cup BroadcastMsg
Todo == [to : Peers, serial : Nat, of : Nat]

FakeOps ==
  {Fake("AddMatch", x, "FILTER") : x \in Names \cup Prefixes}
  \cup {Fake("GetNameOwner", n, "FAKE_GET_NAME_OWNER") : n \in Names}
  \cup {Fake("ListNames", NULL, "FAKE_LIST_NAMES")}

-----------------------------------------------------------------------------
(* The invariant.                                                          *)

\* The client's serial and what the proxy added make the serial on the bus.
Counts ==
  /\ serial_offset \in Nat /\ last_serial \in Nat /\ hello_serial \in Nat
  /\ client_serial \in Nat /\ last_serial = client_serial + serial_offset
  /\ closed \in BOOLEAN /\ reading \in BOOLEAN /\ in_loop \in BOOLEAN
  /\ closed = reused

\* The three tables agree, and have nothing of a serial yet to come.
Tables ==
  /\ DOMAIN expected_client \subseteq 1 .. last_serial
  /\ \A s \in DOMAIN expected_client : expected_client[s] \in ClientKinds \cup OwnKinds
  /\ DOMAIN rewrite_reply = {s \in DOMAIN expected_client :
                               expected_client[s] = "REWRITE"}
  /\ DOMAIN get_owner_reply = {s \in DOMAIN expected_client :
                                 expected_client[s] = "FAKE_GET_NAME_OWNER"}
  /\ \A s \in DOMAIN get_owner_reply : get_owner_reply[s] \in Names

Types ==
  /\ toBus \in Seq(ToBusMsg) /\ fromBus \in Seq(FromBusMsg)
  /\ unique_id_policy \in [Ids -> Levels]
  /\ owner \in [Names -> Ids \cup {NULL}]
  /\ matches \subseteq Names \cup Prefixes
  /\ todo \subseteq Todo
  /\ inbox \subseteq [sender : Peers, serial : Nat]
  /\ peer_serial \in [Peers -> Nat]

\* Ids who may be talked to through one of their names.
MayTalk(u) ==
  \E n \in Names : <<n, u>> \in owned /\ xdg_app_proxy_get_policy(n) >= TALK

\* A call on its way to the bus: the bus finds what it needs, the call was
\* allowed, and it is what the proxy takes its reply for.
SoundCall(m) ==
  m \in CallMsg =>
    /\ m.serial <= last_serial
    /\ m.dest = Bus /\ m.member = "AddMatch" => m.arg \in Names \cup Prefixes
    /\ m.dest = Bus /\ m.member \in {"RequestName", "GetNameOwner"} => m.arg \in Names
    /\ m.dest \in Names => xdg_app_proxy_get_policy(m.dest) >= TALK
    /\ m.dest \in Peers => MayTalk(m.dest)
    /\ m.serial \in DOMAIN expected_client =>
         /\ expected_client[m.serial] = "HELLO" => m.dest = Bus /\ m.member = "Hello"
         /\ expected_client[m.serial] = "FAKE_GET_NAME_OWNER" =>
              m.dest = Bus /\ m.member = "GetNameOwner"
                /\ m.arg = get_owner_reply[m.serial]

SoundTodo(c) ==
  /\ c.serial <= last_serial
  /\ c.serial \in DOMAIN expected_client =>
       expected_client[c.serial] \notin {"HELLO", "FAKE_GET_NAME_OWNER"}

\* A message on its way to the client: replies and signals tell of owners.
SoundReply(m) ==
  m \in ReplyMsg =>
    /\ m.reply_serial <= last_serial
    /\ m.reply_serial \in DOMAIN expected_client =>
         /\ expected_client[m.reply_serial] = "HELLO" => m.id = Me
         /\ expected_client[m.reply_serial] = "FAKE_GET_NAME_OWNER" =>
              m.id = NULL \/ <<get_owner_reply[m.reply_serial], m.id>> \in owned

SoundSignal(m) ==
  m \in SignalMsg =>
    /\ m.old = NULL \/ <<m.name, m.old>> \in owned
    /\ m.new = NULL \/ <<m.name, m.new>> \in owned

Sound ==
  /\ \A m \in Elems(toBus) : SoundCall(m)
  /\ \A c \in todo : SoundTodo(c)
  /\ \A m \in Elems(fromBus) : SoundReply(m) /\ SoundSignal(m)
  /\ \A n \in Names : owner[n] = NULL \/ <<n, owner[n]>> \in owned

IInv == Counts /\ Tables /\ Types /\ Sound /\ VisibilityJustified

-----------------------------------------------------------------------------
(* Sequences and their elements.                                           *)

LEMMA Joined ==
  ASSUME NEW S, NEW s \in Seq(S), NEW t \in Seq(S)
  PROVE  /\ s \o t \in Seq(S) /\ Len(s) \in Nat /\ Len(t) \in Nat
         /\ Len(s \o t) = Len(s) + Len(t)
         /\ \A i \in 1..Len(s) : (s \o t)[i] = s[i] /\ i \in 1..Len(s \o t)
         /\ \A i \in 1..Len(t) : (s \o t)[Len(s) + i] = t[i] /\ Len(s) + i \in 1..Len(s \o t)
         /\ \A i \in 1..Len(s \o t) : i \in 1..Len(s) \/ i - Len(s) \in 1..Len(t)
<1>1. /\ s \o t \in Seq(S) /\ Len(s) \in Nat /\ Len(t) \in Nat
      /\ Len(s \o t) = Len(s) + Len(t)
      /\ \A i \in 1..Len(s) : (s \o t)[i] = s[i]
      /\ \A i \in 1..Len(t) : (s \o t)[Len(s) + i] = t[i]
  OBVIOUS
<1>2. /\ \A i \in 1..Len(s) : i \in 1..(Len(s) + Len(t))
      /\ \A i \in 1..Len(t) : Len(s) + i \in 1..(Len(s) + Len(t))
      /\ \A i \in 1..(Len(s) + Len(t)) : i \in 1..Len(s) \/ i - Len(s) \in 1..Len(t)
  BY <1>1
<1> QED
  BY <1>1, <1>2

LEMMA ElemsJoined ==
  ASSUME NEW S, NEW s \in Seq(S), NEW t \in Seq(S)
  PROVE  s \o t \in Seq(S) /\ Elems(s \o t) = Elems(s) \cup Elems(t)
<1>1. /\ s \o t \in Seq(S) /\ Len(s) \in Nat /\ Len(t) \in Nat /\ Len(s \o t) = Len(s) + Len(t)
      /\ \A i \in 1..Len(s) : (s \o t)[i] = s[i]
      /\ \A i \in 1..Len(t) : (s \o t)[Len(s) + i] = t[i]
  OBVIOUS
<1>2. ASSUME NEW y \in Elems(s \o t)
      PROVE  y \in Elems(s) \cup Elems(t)
  <2>1. PICK i \in 1..Len(s \o t) : y = (s \o t)[i]
    BY DEF Elems
  <2>2. CASE i <= Len(s)
    <3>1. i \in 1..Len(s)
      BY <1>1, <2>2
    <3> QED
      BY <1>1, <2>1, <3>1 DEF Elems
  <2>3. CASE i > Len(s)
    <3>1. i - Len(s) \in 1..Len(t) /\ Len(s) + (i - Len(s)) = i
      BY <1>1, <2>3
    <3>2. y = t[i - Len(s)]
      BY <1>1, <2>1, <3>1
    <3> QED
      BY <3>1, <3>2 DEF Elems
  <2> QED
    BY <1>1, <2>2, <2>3
<1>3. ASSUME NEW y \in Elems(s)
      PROVE  y \in Elems(s \o t)
  <2>1. PICK i \in 1..Len(s) : y = s[i]
    BY DEF Elems
  <2>2. i \in 1..Len(s \o t) /\ y = (s \o t)[i]
    BY <1>1, <2>1
  <2> QED
    BY <2>2 DEF Elems
<1>4. ASSUME NEW y \in Elems(t)
      PROVE  y \in Elems(s \o t)
  <2>1. PICK i \in 1..Len(t) : y = t[i]
    BY DEF Elems
  <2>2. Len(s) + i \in 1..Len(s \o t) /\ y = (s \o t)[Len(s) + i]
    BY <1>1, <2>1
  <2> QED
    BY <2>2 DEF Elems
<1> QED
  BY <1>1, <1>2, <1>3, <1>4

LEMMA ElemsOne ==
  ASSUME NEW S, NEW x \in S
  PROVE  <<x>> \in Seq(S) /\ Elems(<<x>>) = {x}
<1>1. <<x>> \in Seq(S) /\ Len(<<x>>) = 1 /\ <<x>>[1] = x
  OBVIOUS
<1> QED
  BY <1>1 DEF Elems

LEMMA ElemsAppended ==
  ASSUME NEW S, NEW s \in Seq(S), NEW x \in S
  PROVE  Append(s, x) \in Seq(S) /\ Elems(Append(s, x)) = Elems(s) \cup {x}
<1>1. /\ Append(s, x) \in Seq(S) /\ Len(Append(s, x)) = Len(s) + 1 /\ Len(s) \in Nat
      /\ Append(s, x)[Len(s) + 1] = x
      /\ \A i \in 1..Len(s) : Append(s, x)[i] = s[i]
  OBVIOUS
<1>2. \A i \in 1..(Len(s) + 1) : i \in 1..Len(s) \/ i = Len(s) + 1
  BY <1>1
<1>3. \A i \in 1..Len(s) : i \in 1..(Len(s) + 1)
  BY <1>1
<1>4. Len(s) + 1 \in 1..(Len(s) + 1)
  BY <1>1
<1> HIDE DEF Elems
<1>5. \A y : y \in Elems(Append(s, x)) <=> y \in Elems(s) \/ y = x
  BY <1>1, <1>2, <1>3, <1>4 DEF Elems
<1> QED
  BY <1>1, <1>5

LEMMA ElemsPopped ==
  ASSUME NEW S, NEW s \in Seq(S), s # <<>>
  PROVE  /\ Head(s) \in Elems(s) /\ Head(s) \in S
         /\ Tail(s) \in Seq(S) /\ Elems(Tail(s)) \subseteq Elems(s)
<1>1. /\ Len(s) \in Nat \ {0} /\ Head(s) = s[1] /\ Tail(s) \in Seq(S) /\ Len(Tail(s)) = Len(s) - 1
      /\ \A i \in 1..Len(Tail(s)) : Tail(s)[i] = s[i + 1] /\ i + 1 \in 1..Len(s)
  OBVIOUS
<1>2. 1 \in 1..Len(s)
  BY <1>1
<1> QED
  BY <1>1, <1>2 DEF Elems

LEMMA Overridden ==
  ASSUME NEW f, NEW g
  PROVE  /\ DOMAIN Over(g, f) = DOMAIN g \cup DOMAIN f
         /\ \A x \in DOMAIN g : Over(g, f)[x] = g[x]
         /\ \A x \in DOMAIN f : x \notin DOMAIN g => Over(g, f)[x] = f[x]
BY DEF Over

LEMMA Removed ==
  ASSUME NEW f, NEW k
  PROVE  /\ DOMAIN Without(f, k) = DOMAIN f \ {k}
         /\ \A x \in DOMAIN f \ {k} : Without(f, k)[x] = f[x]
BY DEF Without

-----------------------------------------------------------------------------
(* Policies.                                                               *)

LEMMA PolicyRange ==
  ASSUME NEW n \in Names
  PROVE  /\ xdg_app_proxy_get_policy(n) \in Levels
         /\ xdg_app_proxy_get_wildcard_policy(n) \in Levels
         /\ xdg_app_proxy_get_policy(n) >= Policy[n]
         /\ xdg_app_proxy_get_policy(n) >= xdg_app_proxy_get_wildcard_policy(n)
         /\ \/ xdg_app_proxy_get_policy(n) = Policy[n]
            \/ xdg_app_proxy_get_policy(n) = xdg_app_proxy_get_wildcard_policy(n)
         /\ Policy[n] \in Levels
<1>1. Policy[n] \in Levels /\ (ParentOf[n] # NULL => Policy[ParentOf[n]] \in Levels)
  BY PolicyAssumption
<1>2. xdg_app_proxy_get_wildcard_policy(n) \in Levels
  BY <1>1 DEF xdg_app_proxy_get_wildcard_policy, Levels, NONE, OWN
<1> HIDE DEF xdg_app_proxy_get_wildcard_policy
<1> QED
  BY <1>1, <1>2 DEF xdg_app_proxy_get_policy, Maximum, Levels, NONE, OWN

LEMMA SourcePolicy ==
  /\ xdg_app_proxy_client_get_policy(Bus) = TALK
  /\ \A u \in Ids : xdg_app_proxy_client_get_policy(u) = unique_id_policy[u]
  /\ \A n \in Names : xdg_app_proxy_client_get_policy(n) = xdg_app_proxy_get_policy(n)
<1>1. Bus \notin Ids /\ Bus \notin Names /\ Ids \cap Names = {}
  BY DistinctAssumption
<1> QED
  BY <1>1 DEF xdg_app_proxy_client_get_policy

LEMMA Updated ==
  ASSUME NEW table \in [Ids -> Levels], NEW id, NEW level \in Levels
  PROVE  /\ update_unique_id_policy(table, id, level) \in [Ids -> Levels]
         /\ \A u \in Ids : update_unique_id_policy(table, id, level)[u] >= table[u]
         /\ \A u \in Ids : \/ update_unique_id_policy(table, id, level)[u] = table[u]
                           \/ u = id /\ update_unique_id_policy(table, id, level)[u] = level
         /\ id \in Ids => update_unique_id_policy(table, id, level)[id] >= level
<1>1. \A a, b \in Levels : Maximum(a, b) \in {a, b} /\ Maximum(a, b) >= a /\ Maximum(a, b) >= b
  BY DEF Maximum, Levels, NONE, OWN
<1>2. \A u \in Ids : table[u] \in Levels /\ table[u] >= table[u] /\ table[u] \in Int
  BY DEF Levels, NONE, OWN
<1>3. \A u \in Ids : update_unique_id_policy(table, id, level)[u] =
                       IF u = id THEN Maximum(level, table[id]) ELSE table[u]
  BY DEF update_unique_id_policy
<1>4. update_unique_id_policy(table, id, level) \in [Ids -> Levels]
  <2>1. update_unique_id_policy(table, id, level) =
          [u \in Ids |-> IF u = id THEN Maximum(level, table[id]) ELSE table[u]]
    BY DEF update_unique_id_policy
  <2>2. \A u \in Ids : (IF u = id THEN Maximum(level, table[id]) ELSE table[u]) \in Levels
    BY <1>1, <1>2
  <2> QED
    BY <2>1, <2>2
<1> QED
  BY <1>1, <1>2, <1>3, <1>4

\* The table new, after id was seen to own n.
RaisedTo(new, table, id, n) ==
  /\ new \in [Ids -> Levels]
  /\ \A u \in Ids : new[u] >= table[u]
  /\ \A u \in Ids : \/ new[u] = table[u]
                    \/ id # NULL /\ u = id /\ new[u] = xdg_app_proxy_get_policy(n)
  /\ id # NULL => new[id] >= xdg_app_proxy_get_policy(n)

LEMMA UpdatedFromName ==
  ASSUME NEW table \in [Ids -> Levels], NEW id \in Ids \cup {NULL}, NEW n \in Names
  PROVE  RaisedTo(update_unique_id_policy_from_name(table, id, n), table, id, n)
<1> DEFINE new == update_unique_id_policy_from_name(table, id, n)
<1>1. xdg_app_proxy_get_policy(n) \in Levels
  BY PolicyRange
<1>2. CASE id = NULL
  <2>1. new = table
    BY <1>2 DEF update_unique_id_policy_from_name
  <2>2. \A u \in Ids : table[u] >= table[u]
    BY DEF Levels, NONE, OWN
  <2> QED
    BY <1>2, <2>1, <2>2 DEF RaisedTo
<1>3. CASE id # NULL
  <2>1. new = update_unique_id_policy(table, id, xdg_app_proxy_get_policy(n))
    BY <1>3 DEF update_unique_id_policy_from_name
  <2>2. id \in Ids
    BY <1>3
  <2>3. /\ new \in [Ids -> Levels]
        /\ \A u \in Ids : new[u] >= table[u]
        /\ \A u \in Ids : \/ new[u] = table[u]
                          \/ u = id /\ new[u] = xdg_app_proxy_get_policy(n)
        /\ new[id] >= xdg_app_proxy_get_policy(n)
    BY <1>1, <2>1, <2>2, Updated
  <2> QED
    BY <1>3, <2>3 DEF RaisedTo
<1> QED
  BY <1>2, <1>3

LEMMA Seen ==
  ASSUME NEW table \in [Ids -> Levels], NEW m, m.sender \in Peers \cup {Bus}
  PROVE  /\ SeeSender(table, m) \in [Ids -> Levels]
         /\ \A u \in Ids : SeeSender(table, m)[u] >= table[u]
         /\ \A u \in Ids : \/ SeeSender(table, m)[u] = table[u]
                           \/ u = m.sender /\ u \in Peers /\ SeeSender(table, m)[u] = SEE
<1>1. SEE \in Levels /\ \A u \in Ids : table[u] >= table[u]
  BY DEF SEE, Levels, NONE, OWN
<1>2. CASE m.sender \in Ids
  <2>1. SeeSender(table, m) = update_unique_id_policy(table, m.sender, SEE)
    BY <1>2 DEF SeeSender
  <2>2. m.sender \in Peers
    BY <1>2, DistinctAssumption
  <2> QED
    BY <1>1, <2>1, <2>2, Updated
<1>3. CASE m.sender \notin Ids
  BY <1>1, <1>3 DEF SeeSender
<1> QED
  BY <1>2, <1>3

-----------------------------------------------------------------------------
(* The proxy's own calls.                                                  *)

AsksFor(base, ops) ==
  [i \in DOMAIN ops |-> Call(base + i, Bus, ops[i].member, ops[i].arg, FALSE, 0)]

LEMMA OpKinds ==
  ASSUME NEW o \in FakeOps
  PROVE  /\ \/ /\ o.member = "AddMatch" /\ o.type = "FILTER"
               /\ o.arg \in Names \cup Prefixes
            \/ /\ o.member = "GetNameOwner" /\ o.type = "FAKE_GET_NAME_OWNER"
               /\ o.arg \in Names
            \/ o.member = "ListNames" /\ o.type = "FAKE_LIST_NAMES" /\ o.arg = NULL
         /\ o.member \in Members /\ o.type \in OwnKinds
         /\ o.arg \in Names \cup Prefixes \cup {NULL}
BY DEF FakeOps, Fake, Members, OwnKinds

\* What queue_fake_messages does to the serials, the queue and the tables.
Queued(ops, base, queue, expected) ==
  /\ Len(ops) \in Nat
  /\ last_serial' = base + Len(ops) /\ serial_offset' = serial_offset + Len(ops)
  /\ toBus' = queue \o AsksFor(base, ops)
  /\ AsksFor(base, ops) \in Seq(ToBusMsg)
  /\ Len(AsksFor(base, ops)) = Len(ops)
  /\ \A i \in 1 .. Len(ops) : AsksFor(base, ops)[i] =
       Call(base + i, Bus, ops[i].member, ops[i].arg, FALSE, 0)
  /\ DOMAIN expected_client' = DOMAIN expected \cup (base + 1 .. base + Len(ops))
  /\ \A s \in DOMAIN expected : expected_client'[s] = expected[s]
  /\ \A i \in 1 .. Len(ops) : expected_client'[base + i] = ops[i].type
  /\ DOMAIN get_owner_reply' = DOMAIN get_owner_reply \cup
       {base + i : i \in {i \in 1 .. Len(ops) : ops[i].member = "GetNameOwner"}}
  /\ \A s \in DOMAIN get_owner_reply : get_owner_reply'[s] = get_owner_reply[s]
  /\ \A i \in 1 .. Len(ops) : ops[i].member = "GetNameOwner" =>
       get_owner_reply'[base + i] = ops[i].arg

LEMMA QueueFakes ==
  ASSUME NEW ops \in Seq(FakeOps), NEW base \in Nat, NEW queue \in Seq(ToBusMsg),
         NEW expected, DOMAIN expected \subseteq 1 .. base,
         DOMAIN get_owner_reply \subseteq 1 .. base,
         queue_fake_messages(ops, base, queue, expected)
  PROVE  Queued(ops, base, queue, expected)
<1>1. /\ Len(ops) \in Nat /\ DOMAIN ops = 1 .. Len(ops)
      /\ \A i \in 1 .. Len(ops) : ops[i] \in FakeOps
  OBVIOUS
<1>2. /\ last_serial' = base + Len(ops) /\ serial_offset' = serial_offset + Len(ops)
      /\ toBus' = queue \o AsksFor(base, ops)
      /\ expected_client' =
           Over([s \in base + 1 .. base + Len(ops) |-> ops[s - base].type], expected)
      /\ get_owner_reply' =
           Over([s \in {base + i : i \in {i \in 1 .. Len(ops) : ops[i].member = "GetNameOwner"}}
                   |-> ops[s - base].arg], get_owner_reply)
  BY <1>1 DEF queue_fake_messages, AsksFor
<1>3. /\ AsksFor(base, ops) \in Seq(ToBusMsg) /\ Len(AsksFor(base, ops)) = Len(ops)
      /\ \A i \in 1 .. Len(ops) : AsksFor(base, ops)[i] =
           Call(base + i, Bus, ops[i].member, ops[i].arg, FALSE, 0)
  <2>1. ASSUME NEW i \in 1 .. Len(ops)
        PROVE  Call(base + i, Bus, ops[i].member, ops[i].arg, FALSE, 0) \in ToBusMsg
    <3>1. base + i \in Nat /\ 0 \in Nat
      BY <1>1
    <3>2. ops[i].member \in Members /\ ops[i].arg \in Names \cup Prefixes \cup {NULL}
      BY <1>1, OpKinds
    <3> QED
      BY <3>1, <3>2 DEF Call, ToBusMsg, CallMsg
  <2>2. AsksFor(base, ops) = [i \in 1 .. Len(ops) |->
          Call(base + i, Bus, ops[i].member, ops[i].arg, FALSE, 0)]
    BY <1>1 DEF AsksFor
  <2> DEFINE c(i) == Call(base + i, Bus, ops[i].member, ops[i].arg, FALSE, 0)
  <2>3. /\ \A i \in 1 .. Len(ops) : c(i) \in ToBusMsg
        /\ AsksFor(base, ops) = [i \in 1 .. Len(ops) |-> c(i)]
    BY <2>1, <2>2
  <2>4. SUFFICES /\ AsksFor(base, ops) \in Seq(ToBusMsg) /\ Len(AsksFor(base, ops)) = Len(ops)
                 /\ \A i \in 1 .. Len(ops) : AsksFor(base, ops)[i] = c(i)
    OBVIOUS
  <2> HIDE DEF c
  <2> QED
    BY <1>1, <2>3
<1>4. /\ DOMAIN expected_client' = DOMAIN expected \cup (base + 1 .. base + Len(ops))
      /\ \A s \in DOMAIN expected : expected_client'[s] = expected[s]
      /\ \A i \in 1 .. Len(ops) : expected_client'[base + i] = ops[i].type
  <2> DEFINE new == [s \in base + 1 .. base + Len(ops) |-> ops[s - base].type]
  <2>1. /\ DOMAIN new = base + 1 .. base + Len(ops)
        /\ \A i \in 1 .. Len(ops) : base + i \in DOMAIN new /\ new[base + i] = ops[i].type
    BY <1>1
  <2>2. expected_client' = Over(new, expected)
    BY <1>2
  <2>3. \A s \in DOMAIN expected : s \notin DOMAIN new
    BY <1>1, <2>1
  <2> HIDE DEF new
  <2>4. /\ DOMAIN expected_client' = DOMAIN expected \cup DOMAIN new
        /\ \A x \in DOMAIN new : expected_client'[x] = new[x]
        /\ \A x \in DOMAIN expected : x \notin DOMAIN new => expected_client'[x] = expected[x]
    <3>1. /\ DOMAIN Over(new, expected) = DOMAIN new \cup DOMAIN expected
          /\ \A x \in DOMAIN new : Over(new, expected)[x] = new[x]
          /\ \A x \in DOMAIN expected : x \notin DOMAIN new => Over(new, expected)[x] = expected[x]
      BY Overridden
    <3> QED
      BY <2>2, <3>1
  <2> QED
    BY <2>1, <2>3, <2>4
<1>5. /\ DOMAIN get_owner_reply' = DOMAIN get_owner_reply \cup
           {base + i : i \in {i \in 1 .. Len(ops) : ops[i].member = "GetNameOwner"}}
      /\ \A s \in DOMAIN get_owner_reply : get_owner_reply'[s] = get_owner_reply[s]
      /\ \A i \in 1 .. Len(ops) : ops[i].member = "GetNameOwner" =>
           get_owner_reply'[base + i] = ops[i].arg
  <2> DEFINE D == {base + i : i \in {i \in 1 .. Len(ops) : ops[i].member = "GetNameOwner"}}
             new == [s \in D |-> ops[s - base].arg]
  <2>1. /\ DOMAIN new = D /\ D \subseteq base + 1 .. base + Len(ops)
        /\ \A i \in 1 .. Len(ops) : ops[i].member = "GetNameOwner" => base + i \in D
    BY <1>1
  <2>2. \A i \in 1 .. Len(ops) : base + i \in D => new[base + i] = ops[i].arg
    <3>1. \A i \in 1 .. Len(ops) : (base + i) - base = i
      BY <1>1
    <3> HIDE DEF D
    <3> QED
      BY <3>1
  <2>3. get_owner_reply' = Over(new, get_owner_reply)
    BY <1>2
  <2>4. \A s \in DOMAIN get_owner_reply : s \notin D
    BY <1>1, <2>1
  <2> HIDE DEF new
  <2>5. /\ DOMAIN get_owner_reply' = DOMAIN get_owner_reply \cup DOMAIN new
        /\ \A x \in DOMAIN new : get_owner_reply'[x] = new[x]
        /\ \A x \in DOMAIN get_owner_reply :
             x \notin DOMAIN new => get_owner_reply'[x] = get_owner_reply[x]
    <3> DEFINE old == get_owner_reply
    <3>1. /\ DOMAIN Over(new, old) = DOMAIN new \cup DOMAIN old
          /\ \A x \in DOMAIN new : Over(new, old)[x] = new[x]
          /\ \A x \in DOMAIN old : x \notin DOMAIN new => Over(new, old)[x] = old[x]
      BY Overridden
    <3> QED
      BY <2>3, <3>1
  <2>6. DOMAIN get_owner_reply' = DOMAIN get_owner_reply \cup D
    BY <2>1, <2>5
  <2>7. \A i \in 1 .. Len(ops) : ops[i].member = "GetNameOwner" =>
          get_owner_reply'[base + i] = ops[i].arg
    BY <2>1, <2>2, <2>5
  <2> QED
    BY <2>1, <2>4, <2>5, <2>6, <2>7
<1> QED
  BY <1>1, <1>2, <1>3, <1>4, <1>5 DEF Queued

LEMMA OrderOf ==
  ASSUME NEW S, IsFiniteSet(S), NEW o \in Orders(S)
  PROVE  /\ o \in Seq(S) /\ Len(o) = Cardinality(S) /\ Cardinality(S) \in Nat
         /\ \A x \in S : \E i \in 1 .. Len(o) : o[i] = x
         /\ o = <<>> <=> S = {}
<1>1. Cardinality(S) \in Nat
  BY FS_CardinalityType
<1>2. o \in [1 .. Cardinality(S) -> S] /\ {o[i] : i \in DOMAIN o} = S
  BY DEF Orders
<1>3. o \in Seq(S) /\ Len(o) = Cardinality(S)
  BY <1>1, <1>2
<1>4. \A x \in S : \E i \in 1 .. Len(o) : o[i] = x
  BY <1>2, <1>3
<1>5. o = <<>> <=> S = {}
  BY <1>3, <1>4
<1> QED
  BY <1>1, <1>3, <1>4, <1>5

LEMMA NamesOps ==
  ASSUME NEW S \in SUBSET Names, NEW o \in Seq(S)
  PROVE  /\ OpsForNames(o) \in Seq(FakeOps)
         /\ Len(OpsForNames(o)) = 2 * Len(o)
         /\ \A i \in 1 .. Len(o) :
              /\ 2 * i - 1 \in 1 .. 2 * Len(o) /\ 2 * i \in 1 .. 2 * Len(o)
              /\ OpsForNames(o)[2 * i - 1] = Fake("AddMatch", o[i], "FILTER")
              /\ OpsForNames(o)[2 * i] = Fake("GetNameOwner", o[i], "FAKE_GET_NAME_OWNER")
         /\ \A i \in 1 .. Len(OpsForNames(o)) : OpsForNames(o)[i].type # "FAKE_LIST_NAMES"
<1> DEFINE f(i) == IF i % 2 = 1 THEN Fake("AddMatch", o[(i + 1) \div 2], "FILTER")
                   ELSE Fake("GetNameOwner", o[i \div 2], "FAKE_GET_NAME_OWNER")
<1>1. /\ Len(o) \in Nat /\ 2 * Len(o) \in Nat
      /\ \A i \in 1 .. Len(o) : o[i] \in Names
  OBVIOUS
<1>2. \A i \in 1 .. 2 * Len(o) :
        IF i % 2 = 1 THEN (i + 1) \div 2 \in 1 .. Len(o) ELSE i \div 2 \in 1 .. Len(o)
  BY <1>1
<1>3. ASSUME NEW i \in 1 .. 2 * Len(o)
      PROVE  f(i) \in FakeOps /\ f(i).type # "FAKE_LIST_NAMES"
  <2>1. \A x \in Names : /\ Fake("AddMatch", x, "FILTER") \in FakeOps
                         /\ Fake("GetNameOwner", x, "FAKE_GET_NAME_OWNER") \in FakeOps
                         /\ Fake("AddMatch", x, "FILTER").type = "FILTER"
                         /\ Fake("GetNameOwner", x, "FAKE_GET_NAME_OWNER").type
                              = "FAKE_GET_NAME_OWNER"
    BY DEF Fake, FakeOps
  <2>2. CASE i % 2 = 1
    <3>1. o[(i + 1) \div 2] \in Names
      BY <1>1, <1>2, <2>2
    <3> QED
      BY <2>1, <2>2, <3>1
  <2>3. CASE i % 2 # 1
    <3>1. o[i \div 2] \in Names
      BY <1>1, <1>2, <2>3
    <3> QED
      BY <2>1, <2>3, <3>1
  <2> QED
    BY <2>2, <2>3
<1>4. ASSUME NEW i \in 1 .. Len(o)
      PROVE  /\ 2 * i - 1 \in 1 .. 2 * Len(o) /\ 2 * i \in 1 .. 2 * Len(o)
             /\ f(2 * i - 1) = Fake("AddMatch", o[i], "FILTER")
             /\ f(2 * i) = Fake("GetNameOwner", o[i], "FAKE_GET_NAME_OWNER")
  <2>1. /\ (2 * i - 1) % 2 = 1 /\ (2 * i) % 2 # 1
        /\ ((2 * i - 1) + 1) \div 2 = i /\ (2 * i) \div 2 = i
    BY <1>1
  <2>2. 2 * i - 1 \in 1 .. 2 * Len(o) /\ 2 * i \in 1 .. 2 * Len(o)
    BY <1>1
  <2> QED
    BY <2>1, <2>2
<1>5. OpsForNames(o) = [i \in 1 .. 2 * Len(o) |-> f(i)]
  BY DEF OpsForNames
<1> HIDE DEF f
<1>6. OpsForNames(o) \in Seq(FakeOps) /\ Len(OpsForNames(o)) = 2 * Len(o)
  BY <1>1, <1>3, <1>5
<1>7. \A i \in 1 .. 2 * Len(o) : OpsForNames(o)[i] = f(i)
  BY <1>5
<1> QED
  BY <1>3, <1>4, <1>6, <1>7

LEMMA PrefixOps ==
  ASSUME NEW o \in Seq(Prefixes)
  PROVE  /\ OpsForPrefixes(o) \in Seq(FakeOps) /\ Len(OpsForPrefixes(o)) = Len(o)
         /\ \A i \in 1 .. Len(o) :
              /\ OpsForPrefixes(o)[i] = Fake("AddMatch", o[i], "FILTER")
              /\ OpsForPrefixes(o)[i].type # "FAKE_LIST_NAMES"
<1>1. \A x \in Prefixes : /\ Fake("AddMatch", x, "FILTER") \in FakeOps
                          /\ Fake("AddMatch", x, "FILTER").type = "FILTER"
  BY DEF Fake, FakeOps
<1> DEFINE f(i) == Fake("AddMatch", o[i], "FILTER")
<1>2. OpsForPrefixes(o) = [i \in 1 .. Len(o) |-> f(i)] /\ Len(o) \in Nat
  BY DEF OpsForPrefixes
<1>3. \A i \in 1 .. Len(o) : f(i) \in FakeOps /\ f(i).type # "FAKE_LIST_NAMES"
  BY <1>1
<1> HIDE DEF f
<1>4. /\ OpsForPrefixes(o) \in Seq(FakeOps) /\ Len(OpsForPrefixes(o)) = Len(o)
      /\ \A i \in 1 .. Len(o) : OpsForPrefixes(o)[i] = f(i)
  BY <1>2, <1>3
<1> QED
  BY <1>3, <1>4 DEF f

LEMMA QuestionOps ==
  ASSUME NEW o \in Seq(Names)
  PROVE  /\ queue_wildcard_initial_name_ops(o) \in Seq(FakeOps)
         /\ Len(queue_wildcard_initial_name_ops(o)) = Len(o)
         /\ \A i \in 1 .. Len(o) :
              /\ queue_wildcard_initial_name_ops(o)[i]
                   = Fake("GetNameOwner", o[i], "FAKE_GET_NAME_OWNER")
              /\ queue_wildcard_initial_name_ops(o)[i].type # "FAKE_LIST_NAMES"
<1>1. \A x \in Names : /\ Fake("GetNameOwner", x, "FAKE_GET_NAME_OWNER") \in FakeOps
                       /\ Fake("GetNameOwner", x, "FAKE_GET_NAME_OWNER").type
                            = "FAKE_GET_NAME_OWNER"
  BY DEF Fake, FakeOps
<1> DEFINE f(i) == Fake("GetNameOwner", o[i], "FAKE_GET_NAME_OWNER")
           q == queue_wildcard_initial_name_ops(o)
<1>2. q = [i \in 1 .. Len(o) |-> f(i)] /\ Len(o) \in Nat
  BY DEF queue_wildcard_initial_name_ops
<1>3. \A i \in 1 .. Len(o) : f(i) \in FakeOps /\ f(i).type # "FAKE_LIST_NAMES"
  BY <1>1
<1>4. SUFFICES q \in Seq(FakeOps) /\ Len(q) = Len(o)
                /\ \A i \in 1 .. Len(o) : q[i] = f(i) /\ q[i].type # "FAKE_LIST_NAMES"
  OBVIOUS
<1> HIDE DEF f, q
<1> QED
  BY <1>2, <1>3

\* What is asked after Hello: for each name a match before the question; the
\* matches of all prefixes before the only list.
LEMMA InitialOps ==
  ASSUME NEW names \in Orders(ExactNames), NEW prefixes \in Orders(Prefixes),
         NEW ops, ops = queue_initial_name_ops(names, prefixes)
  PROVE  /\ ops \in Seq(FakeOps)
         /\ \A n \in ExactNames : \E i, j \in 1 .. Len(ops) :
              /\ i < j /\ ops[i] = Fake("AddMatch", n, "FILTER")
              /\ ops[j] = Fake("GetNameOwner", n, "FAKE_GET_NAME_OWNER")
         /\ \A p \in Prefixes : \E i, j \in 1 .. Len(ops) :
              /\ i < j /\ ops[i] = Fake("AddMatch", p, "FILTER")
              /\ ops[j] = Fake("ListNames", NULL, "FAKE_LIST_NAMES")
         /\ \A i \in 1 .. Len(ops) : ops[i].type = "FAKE_LIST_NAMES" =>
              i = Len(ops) /\ Prefixes # {}
<1>1. IsFiniteSet(ExactNames) /\ ExactNames \subseteq Names
  BY FiniteAssumption, FS_Subset DEF ExactNames
<1>2. /\ names \in Seq(ExactNames) /\ prefixes \in Seq(Prefixes)
      /\ \A x \in ExactNames : \E i \in 1 .. Len(names) : names[i] = x
      /\ \A x \in Prefixes : \E i \in 1 .. Len(prefixes) : prefixes[i] = x
      /\ prefixes = <<>> <=> Prefixes = {}
      /\ Len(names) \in Nat /\ Len(prefixes) \in Nat
  BY <1>1, OrderOf, FiniteAssumption
<1> DEFINE a == OpsForNames(names)
           b == OpsForPrefixes(prefixes)
           c == IF prefixes = <<>> THEN <<>>
                ELSE <<Fake("ListNames", NULL, "FAKE_LIST_NAMES")>>
<1>3. /\ a \in Seq(FakeOps) /\ Len(a) = 2 * Len(names)
      /\ \A i \in 1 .. Len(names) :
              /\ 2 * i - 1 \in 1 .. 2 * Len(names) /\ 2 * i \in 1 .. 2 * Len(names)
              /\ a[2 * i - 1] = Fake("AddMatch", names[i], "FILTER")
              /\ a[2 * i] = Fake("GetNameOwner", names[i], "FAKE_GET_NAME_OWNER")
      /\ \A i \in 1 .. Len(a) : a[i].type # "FAKE_LIST_NAMES"
  BY <1>1, <1>2, NamesOps
<1>4. /\ b \in Seq(FakeOps) /\ Len(b) = Len(prefixes)
      /\ \A i \in 1 .. Len(prefixes) :
              /\ b[i] = Fake("AddMatch", prefixes[i], "FILTER")
              /\ b[i].type # "FAKE_LIST_NAMES"
  BY <1>2, PrefixOps
<1>5. /\ c \in Seq(FakeOps) /\ Len(c) \in {0, 1} /\ (Len(c) = 1 <=> Prefixes # {})
      /\ Len(c) = 1 => c[1] = Fake("ListNames", NULL, "FAKE_LIST_NAMES")
  <2>1. CASE prefixes = <<>>
    <3>1. c = <<>>
      BY <2>1
    <3>2. Len(c) = 0 /\ c \in Seq(FakeOps)
      BY <3>1
    <3> HIDE DEF c
    <3> QED
      BY <1>2, <2>1, <3>2
  <2>2. CASE prefixes # <<>>
    <3> DEFINE list == Fake("ListNames", NULL, "FAKE_LIST_NAMES")
    <3>1. list \in FakeOps
      BY DEF FakeOps
    <3>2. c = <<list>>
      BY <2>2
    <3> HIDE DEF c, list
    <3>3. Len(c) = 1 /\ c \in Seq(FakeOps) /\ c[1] = list
      BY <3>1, <3>2
    <3> QED
      BY <1>2, <2>2, <3>3 DEF list
  <2> QED
    BY <2>1, <2>2
<1>6. ops = a \o b \o c
  BY DEF queue_initial_name_ops
<1> HIDE DEF a, b, c
<1>7. /\ ops \in Seq(FakeOps) /\ Len(ops) = Len(a) + Len(b) + Len(c)
      /\ Len(a) \in Nat /\ Len(b) \in Nat /\ Len(c) \in Nat
      /\ \A i \in 1 .. Len(a) : ops[i] = a[i]
      /\ \A i \in 1 .. Len(b) : ops[Len(a) + i] = b[i]
      /\ \A i \in 1 .. Len(c) : ops[Len(a) + Len(b) + i] = c[i]
  <2> DEFINE ab == a \o b
  <2>1. /\ ab \in Seq(FakeOps) /\ Len(ab) = Len(a) + Len(b) /\ Len(a) \in Nat /\ Len(b) \in Nat
        /\ \A i \in 1 .. Len(a) : ab[i] = a[i]
        /\ \A i \in 1 .. Len(b) : ab[Len(a) + i] = b[i]
    <3>1. a \in Seq(FakeOps) /\ b \in Seq(FakeOps)
      BY <1>3, <1>4
    <3> QED
      BY <3>1, Joined
  <2>2. ops = ab \o c
    BY <1>6
  <2> HIDE DEF ab
  <2>3. /\ ops \in Seq(FakeOps) /\ Len(ops) = Len(ab) + Len(c) /\ Len(c) \in Nat
        /\ \A i \in 1 .. Len(ab) : ops[i] = ab[i]
        /\ \A i \in 1 .. Len(c) : ops[Len(ab) + i] = c[i]
    <3>1. ab \in Seq(FakeOps) /\ c \in Seq(FakeOps)
      BY <1>5, <2>1
    <3> QED
      BY <2>2, <3>1, Joined
  <2>4. /\ \A i \in 1 .. Len(a) : i \in 1 .. Len(ab)
        /\ \A i \in 1 .. Len(b) : Len(a) + i \in 1 .. Len(ab)
    BY <2>1
  <2> QED
    BY <2>1, <2>3, <2>4
<1>8. ASSUME NEW n \in ExactNames
      PROVE  \E i, j \in 1 .. Len(ops) :
              /\ i < j /\ ops[i] = Fake("AddMatch", n, "FILTER")
              /\ ops[j] = Fake("GetNameOwner", n, "FAKE_GET_NAME_OWNER")
  <2>1. PICK k \in 1 .. Len(names) : names[k] = n
    BY <1>2
  <2>2. /\ 2 * k - 1 \in 1 .. Len(a) /\ 2 * k \in 1 .. Len(a) /\ 2 * k - 1 < 2 * k
        /\ a[2 * k - 1] = Fake("AddMatch", n, "FILTER")
        /\ a[2 * k] = Fake("GetNameOwner", n, "FAKE_GET_NAME_OWNER")
    <3>1. 2 * k - 1 < 2 * k
      OBVIOUS
    <3>2. 2 * k - 1 \in 1 .. Len(a) /\ 2 * k \in 1 .. Len(a)
      BY <1>3
    <3> QED
      BY <1>3, <2>1, <3>1, <3>2
  <2>3. \A i \in 1 .. Len(a) : i \in 1 .. Len(ops)
    BY <1>7
  <2> QED
    BY <1>7, <2>2, <2>3
<1>9. ASSUME NEW p \in Prefixes
      PROVE  \E i, j \in 1 .. Len(ops) :
              /\ i < j /\ ops[i] = Fake("AddMatch", p, "FILTER")
              /\ ops[j] = Fake("ListNames", NULL, "FAKE_LIST_NAMES")
  <2>1. PICK k \in 1 .. Len(prefixes) : prefixes[k] = p
    BY <1>2
  <2>2. k \in 1 .. Len(b) /\ b[k] = Fake("AddMatch", p, "FILTER") /\ Len(c) = 1
    BY <1>4, <1>5, <2>1
  <2>3. /\ Len(a) + k \in 1 .. Len(ops) /\ Len(a) + Len(b) + 1 \in 1 .. Len(ops)
        /\ Len(a) + k < Len(a) + Len(b) + 1 /\ 1 \in 1 .. Len(c)
    BY <1>7, <2>2
  <2> QED
    BY <1>5, <1>7, <2>2, <2>3
<1>10. ASSUME NEW i \in 1 .. Len(ops), ops[i].type = "FAKE_LIST_NAMES"
       PROVE  i = Len(ops) /\ Prefixes # {}
  <2>1. CASE i \in 1 .. Len(a)
    BY <1>3, <1>7, <1>10, <2>1
  <2>2. CASE i - Len(a) \in 1 .. Len(b)
    <3>1. ops[Len(a) + (i - Len(a))] = b[i - Len(a)]
      BY <1>7, <2>2
    <3>2. Len(a) + (i - Len(a)) = i
      BY <1>7
    <3>3. ops[i].type # "FAKE_LIST_NAMES"
      BY <1>4, <2>2, <3>1, <3>2
    <3> QED
      BY <1>10, <3>3
  <2>3. CASE i > Len(a) + Len(b)
    <3>1. Len(c) = 0 \/ Len(c) = 1
      BY <1>5
    <3>2. Len(c) = 1 /\ i = Len(ops)
      BY <3>1, <1>7, <2>3
    <3> QED
      BY <1>5, <3>2
  <2> QED
    BY <1>7, <2>1, <2>2, <2>3
<1> QED
  BY <1>7, <1>8, <1>9, <1>10

-----------------------------------------------------------------------------
(* What the client writes.                                                 *)

ClientCall(m) ==
  /\ m \in CallMsg
  /\ m.dest # Bus => m.member = "Method"
  /\ m.dest = Bus => m.member \in Members \ {"Method", "Ping"}
  /\ m.member = "AddMatch" => m.arg \in Names \cup Prefixes
  /\ m.member \in {"RequestName", "StartServiceByName", "GetConnectionUnixProcessID",
                   "NameHasOwner", "GetNameOwner"} => m.arg \in Names

LEMMA CallFields ==
  ASSUME NEW serial, NEW dest, NEW member, NEW arg, NEW no_reply, NEW of,
         NEW m, m = Call(serial, dest, member, arg, no_reply, of)
  PROVE  /\ m.type = "call" /\ m.serial = serial /\ m.dest = dest /\ m.member = member
         /\ m.arg = arg /\ m.no_reply = no_reply /\ m.of = of
         /\ (/\ serial \in Nat /\ dest \in {Bus} \cup Peers \cup Names /\ member \in Members
             /\ arg \in Names \cup Prefixes \cup {NULL} /\ no_reply \in BOOLEAN /\ of \in Nat)
            => m \in CallMsg
BY DEF Call, CallMsg

LEMMA CallsAreCalls ==
  ASSUME NEW c \in Calls, NEW k \in Nat,
         NEW m, m = Call(k, c[1], c[2], c[3], c[4], k)
  PROVE  ClientCall(m) /\ m.member # "Hello" /\ m.type = "call" /\ m.serial = k /\ m.of = k
<1>1. /\ \/ c[1] \in Peers \cup Names /\ c[2] = "Method" /\ c[3] = NULL
         \/ c[1] = Bus /\ c[2] \in {"GetId", "BecomeMonitor", "ListNames"} /\ c[3] = NULL
         \/ c[1] = Bus /\ c[2] = "AddMatch" /\ c[3] \in Names \cup Prefixes
         \/ /\ c[1] = Bus
            /\ c[2] \in {"RequestName", "StartServiceByName", "GetConnectionUnixProcessID",
                         "NameHasOwner", "GetNameOwner"}
            /\ c[3] \in Names
      /\ c[4] \in BOOLEAN
  BY CallsAssumption
<1>2. Bus \notin Peers \cup Names
  BY DistinctAssumption DEF Ids
<1>3. /\ m.type = "call" /\ m.serial = k /\ m.dest = c[1] /\ m.member = c[2]
      /\ m.arg = c[3] /\ m.no_reply = c[4] /\ m.of = k
  BY CallFields
<1>4. m \in CallMsg
  <2>1. /\ c[1] \in {Bus} \cup Peers \cup Names /\ c[2] \in Members
        /\ c[3] \in Names \cup Prefixes \cup {NULL}
    BY <1>1 DEF Members
  <2> QED
    BY <1>1, <2>1, CallFields
<1> QED
  BY <1>1, <1>2, <1>3, <1>4 DEF ClientCall, Members

LEMMA HelloIsCall ==
  ASSUME NEW m, m = Call(1, Bus, "Hello", NULL, FALSE, 1)
  PROVE  ClientCall(m) /\ m.member = "Hello" /\ m.type = "call" /\ m.serial = 1 /\ m.of = 1
         /\ m.no_reply = FALSE
<1>1. /\ m.type = "call" /\ m.serial = 1 /\ m.dest = Bus /\ m.member = "Hello"
      /\ m.arg = NULL /\ m.no_reply = FALSE /\ m.of = 1
  BY DEF Call
<1>2. m \in CallMsg
  BY DEF Call, CallMsg, Members
<1> QED
  BY <1>1, <1>2 DEF ClientCall, Members

\* What is written of a call, and the reply that is then expected.
WrittenOf(m, serial) ==
  LET v == get_dbus_method_handler(m)
  IN CASE v.action = "pass" -> <<[m EXCEPT !.serial = serial]>>
       [] v.action = "ping" -> <<Call(serial, Bus, "Ping", NULL, m.no_reply, m.of)>>
       [] OTHER -> <<>>
KindOf(m) == get_dbus_method_handler(m).type
Pinged(m) == get_dbus_method_handler(m).action = "ping"

LEMMA Verdicts ==
  ASSUME NEW m, ClientCall(m), unique_id_policy \in [Ids -> Levels],
         NEW v, v = get_dbus_method_handler(m)
  PROVE  \/ /\ v.action = "pass" /\ v.type \in {"NORMAL", "LIST_NAMES", "HELLO", "NONE"}
            /\ v.type = "HELLO" <=> m.member = "Hello"
            /\ xdg_app_proxy_client_get_policy(m.dest) >= TALK
         \/ v.action = "ping" /\ v.type = "REWRITE" /\ m.member # "Hello"
         \/ v.action = "drop" /\ v.type = "NONE" /\ m.member # "Hello"
<1> DEFINE p == xdg_app_proxy_client_get_policy(m.dest)
           q == xdg_app_proxy_client_get_policy(m.arg)
<1>1. /\ p \in Levels /\ (m.dest = Bus => p = TALK) /\ m.member \in Members
      /\ m.dest # Bus => m.member = "Method"
      /\ m.dest = Bus => m.member \in Members \ {"Method", "Ping"}
  <2>1. /\ m.dest \in {Bus} \cup Peers \cup Names /\ m.member \in Members
        /\ m.dest # Bus => m.member = "Method"
        /\ m.dest = Bus => m.member \in Members \ {"Method", "Ping"}
    BY DEF ClientCall, CallMsg
  <2>2. CASE m.dest = Bus
    BY <2>1, <2>2, SourcePolicy DEF Levels, TALK, NONE, OWN
  <2>3. CASE m.dest \in Peers
    <3>1. m.dest \in Ids /\ m.dest # Bus
      BY <2>3, DistinctAssumption DEF Ids
    <3> QED
      BY <2>1, <3>1, SourcePolicy
  <2>4. CASE m.dest \in Names
    <3>1. m.dest # Bus
      BY <2>4, DistinctAssumption
    <3> QED
      BY <2>1, <2>4, <3>1, SourcePolicy, PolicyRange
  <2> QED
    BY <2>1, <2>2, <2>3, <2>4
<1>0. v = IF p < TALK THEN Refused(m)
           ELSE IF m.dest # Bus THEN Passed(m, "NONE") ELSE BusVerdict(m)
  BY DEF get_dbus_method_handler
<1> HIDE DEF p, q
<1>2. /\ Refused(m) = Verdict("drop", "NONE") \/ Refused(m) = Verdict("ping", "REWRITE")
      /\ \A level : Validated(m, level) \in {Passed(m, "NONE"), Refused(m)}
      /\ Passed(m, "NONE") = Verdict("pass", "NORMAL") \/ Passed(m, "NONE") = Verdict("pass", "NONE")
      /\ Passed(m, "HELLO") = Verdict("pass", "HELLO")
      /\ Passed(m, "LIST_NAMES") = Verdict("pass", "LIST_NAMES")
  BY DEF Refused, Validated, Passed
<1>3. \A a, t : Verdict(a, t).action = a /\ Verdict(a, t).type = t
  BY DEF Verdict
<1>4. CASE p < TALK
  <2>1. v = Refused(m) /\ m.dest # Bus
    BY <1>0, <1>1, <1>4 DEF TALK, Levels, NONE, OWN
  <2>2. m.member # "Hello"
    BY <1>1, <2>1
  <2> QED
    BY <1>2, <1>3, <2>1, <2>2
<1>5. CASE p >= TALK /\ m.dest # Bus
  <2>1. v = Passed(m, "NONE")
    BY <1>0, <1>1, <1>5 DEF TALK, Levels, NONE, OWN
  <2>2. m.member # "Hello"
    BY <1>1, <1>5
  <2> QED
    BY <1>2, <1>3, <1>5, <2>1, <2>2 DEF p
<1>6. CASE p >= TALK /\ m.dest = Bus
  <2>1. v = BusVerdict(m)
    BY <1>0, <1>1, <1>6 DEF TALK, Levels, NONE, OWN
  <2>2. CASE m.member = "Hello"
    <3>1. v = Verdict("pass", "HELLO")
      BY <1>2, <2>1, <2>2 DEF BusVerdict
    <3> QED
      BY <1>3, <1>6, <2>2, <3>1 DEF p
  <2>3. CASE m.member # "Hello"
    <3>1. m.member \in {"GetId", "BecomeMonitor", "ListNames", "AddMatch",
            "RequestName", "StartServiceByName", "GetConnectionUnixProcessID",
            "NameHasOwner", "GetNameOwner"}
      BY <1>1, <1>6, <2>3 DEF Members
    <3>2. \/ v \in {Passed(m, "NONE"), Refused(m), Passed(m, "LIST_NAMES")}
          \/ v = Verdict("ping", "REWRITE")
      BY <1>2, <2>1, <3>1 DEF BusVerdict
    <3> QED
      BY <1>2, <1>3, <1>6, <2>3, <3>2 DEF p
  <2> QED
    BY <2>2, <2>3
<1> QED
  BY <1>1, <1>4, <1>5, <1>6 DEF Levels, TALK, NONE, OWN

\* W is what is written of a call, if anything, and it fits the expected reply.
WrittenAs(m, serial, W, kind) ==
  /\ W \in Seq(ToBusMsg)
  /\ \/ /\ kind = "NONE" /\ W = <<>> /\ ~Pinged(m) /\ m.member # "Hello"
     \/ \E w \in CallMsg :
          /\ W = <<w>> /\ w.serial = serial /\ w.of = m.of /\ w.no_reply = m.no_reply
          /\ \/ /\ kind \in {"NORMAL", "LIST_NAMES", "HELLO", "NONE"} /\ ~Pinged(m)
                /\ kind = "HELLO" <=> m.member = "Hello"
                /\ w.dest = m.dest /\ w.member = m.member /\ w.arg = m.arg
                /\ xdg_app_proxy_client_get_policy(m.dest) >= TALK
             \/ /\ kind = "REWRITE" /\ Pinged(m) /\ m.member # "Hello"
                /\ w.dest = Bus /\ w.member = "Ping" /\ w.arg = NULL

LEMMA Written ==
  ASSUME NEW m, ClientCall(m), unique_id_policy \in [Ids -> Levels], NEW serial \in Nat
  PROVE  WrittenAs(m, serial, WrittenOf(m, serial), KindOf(m))
<1> DEFINE v == get_dbus_method_handler(m)
           W == WrittenOf(m, serial)
           kind == KindOf(m)
<1>1. \/ /\ v.action = "pass" /\ v.type \in {"NORMAL", "LIST_NAMES", "HELLO", "NONE"}
         /\ v.type = "HELLO" <=> m.member = "Hello"
         /\ xdg_app_proxy_client_get_policy(m.dest) >= TALK
      \/ v.action = "ping" /\ v.type = "REWRITE" /\ m.member # "Hello"
      \/ v.action = "drop" /\ v.type = "NONE" /\ m.member # "Hello"
  BY Verdicts
<1>2. kind = v.type /\ (Pinged(m) <=> v.action = "ping")
  BY DEF KindOf, Pinged
<1>3. /\ v.action = "pass" => W = <<[m EXCEPT !.serial = serial]>>
      /\ v.action = "ping" => W = <<Call(serial, Bus, "Ping", NULL, m.no_reply, m.of)>>
      /\ v.action = "drop" => W = <<>>
  BY DEF WrittenOf
<1> SUFFICES WrittenAs(m, serial, W, kind)
  OBVIOUS
<1> HIDE DEF v, W, kind
<1>4. m \in CallMsg
  BY DEF ClientCall
<1>5. CASE v.action = "pass"
  <2> DEFINE w == [m EXCEPT !.serial = serial]
  <2>1. /\ w \in CallMsg /\ w.serial = serial /\ w.of = m.of /\ w.no_reply = m.no_reply
        /\ w.dest = m.dest /\ w.member = m.member /\ w.arg = m.arg
    BY <1>4 DEF CallMsg
  <2>2. W = <<w>>
    BY <1>3, <1>5
  <2> HIDE DEF w
  <2>3. W \in Seq(ToBusMsg)
    BY <2>1, <2>2 DEF ToBusMsg
  <2> QED
    BY <1>1, <1>2, <1>5, <2>1, <2>2, <2>3 DEF WrittenAs
<1>6. CASE v.action = "ping"
  <2> DEFINE w == Call(serial, Bus, "Ping", NULL, m.no_reply, m.of)
  <2>1. m.no_reply \in BOOLEAN /\ m.of \in Nat /\ "Ping" \in Members
    BY <1>4 DEF CallMsg, Members
  <2>2. /\ w \in CallMsg /\ w.serial = serial /\ w.of = m.of /\ w.no_reply = m.no_reply
        /\ w.dest = Bus /\ w.member = "Ping" /\ w.arg = NULL
    BY <2>1, CallFields
  <2>3. W = <<w>>
    BY <1>3, <1>6
  <2> HIDE DEF w
  <2>4. W \in Seq(ToBusMsg)
    BY <2>2, <2>3 DEF ToBusMsg
  <2> QED
    BY <1>1, <1>2, <1>6, <2>2, <2>3, <2>4 DEF WrittenAs
<1>7. CASE v.action = "drop"
  <2>1. W = <<>> /\ W \in Seq(ToBusMsg)
    BY <1>3, <1>7
  <2> QED
    BY <1>1, <1>2, <1>7, <2>1 DEF WrittenAs
<1> QED
  BY <1>1, <1>5, <1>6, <1>7

\* What forwarding a call does: it is written, and the proxy's own calls after it.
Sent(m, serial, ops) ==
  /\ Len(ops) \in Nat
  /\ last_serial' = serial + Len(ops) /\ serial_offset' = serial_offset + Len(ops)
  /\ toBus' = (toBus \o WrittenOf(m, serial)) \o AsksFor(serial, ops)
  /\ DOMAIN expected_client' = (DOMAIN expected_client \cup {s \in {serial} : KindOf(m) # "NONE"})
                                 \cup (serial + 1 .. serial + Len(ops))
  /\ \A s \in DOMAIN expected_client : expected_client'[s] = expected_client[s]
  /\ KindOf(m) # "NONE" => expected_client'[serial] = KindOf(m)
  /\ \A i \in 1 .. Len(ops) : expected_client'[serial + i] = ops[i].type
  /\ DOMAIN rewrite_reply' = DOMAIN rewrite_reply \cup {s \in {serial} : Pinged(m)}
  /\ \A s \in DOMAIN rewrite_reply : rewrite_reply'[s] = rewrite_reply[s]
  /\ Pinged(m) => rewrite_reply'[serial] = serial - serial_offset
  /\ DOMAIN get_owner_reply' = DOMAIN get_owner_reply \cup
       {serial + i : i \in {i \in 1 .. Len(ops) : ops[i].member = "GetNameOwner"}}
  /\ \A s \in DOMAIN get_owner_reply : get_owner_reply'[s] = get_owner_reply[s]
  /\ \A i \in 1 .. Len(ops) : ops[i].member = "GetNameOwner" =>
       get_owner_reply'[serial + i] = ops[i].arg
  /\ UNCHANGED <<expected_bus, inbox, refused>>

LEMMA Forwarded ==
  ASSUME Counts, Tables, Types, NEW m, ClientCall(m),
         NEW serial \in Nat, serial > last_serial,
         NEW ops \in Seq(FakeOps), ForwardCall(m, serial, ops)
  PROVE  Sent(m, serial, ops)
<1> DEFINE kind == KindOf(m)
           expects == IF kind = "NONE" THEN expected_client
                      ELSE Over([s \in {serial} |-> kind], expected_client)
           queue == toBus \o WrittenOf(m, serial)
<1>1. /\ queue_fake_messages(ops, serial, queue, expects)
      /\ rewrite_reply' = IF Pinged(m)
           THEN Over([s \in {serial} |-> MadeUpReplySerial(serial)], rewrite_reply)
           ELSE rewrite_reply
      /\ UNCHANGED <<expected_bus, inbox, refused>>
  BY DEF ForwardCall, WrittenOf, KindOf, Pinged
<1>2. /\ DOMAIN expected_client \subseteq 1 .. last_serial /\ last_serial \in Nat
      /\ DOMAIN get_owner_reply \subseteq DOMAIN expected_client
      /\ DOMAIN rewrite_reply \subseteq DOMAIN expected_client
  BY DEF Tables, Counts
<1>3. serial \notin DOMAIN expected_client /\ serial \notin DOMAIN rewrite_reply
  BY <1>2
<1>4. /\ DOMAIN expects = DOMAIN expected_client \cup {s \in {serial} : kind # "NONE"}
      /\ \A s \in DOMAIN expected_client : expects[s] = expected_client[s]
      /\ kind # "NONE" => expects[serial] = kind
  <2> DEFINE one == [s \in {serial} |-> kind]
             old == expected_client
  <2>1. DOMAIN one = {serial} /\ one[serial] = kind
    OBVIOUS
  <2>2. /\ DOMAIN Over(one, old) = DOMAIN one \cup DOMAIN old
        /\ \A x \in DOMAIN one : Over(one, old)[x] = one[x]
        /\ \A x \in DOMAIN old : x \notin DOMAIN one => Over(one, old)[x] = old[x]
    BY Overridden
  <2>3. expects = IF kind = "NONE" THEN old ELSE Over(one, old)
    OBVIOUS
  <2> HIDE DEF one, expects
  <2> QED
    BY <1>3, <2>1, <2>2, <2>3
<1>5. /\ DOMAIN rewrite_reply' = DOMAIN rewrite_reply \cup {s \in {serial} : Pinged(m)}
      /\ \A s \in DOMAIN rewrite_reply : rewrite_reply'[s] = rewrite_reply[s]
      /\ Pinged(m) => rewrite_reply'[serial] = serial - serial_offset
  <2> DEFINE one == [s \in {serial} |-> MadeUpReplySerial(serial)]
             old == rewrite_reply
  <2>1. DOMAIN one = {serial} /\ one[serial] = serial - serial_offset
    BY DEF MadeUpReplySerial
  <2>2. /\ DOMAIN Over(one, old) = DOMAIN one \cup DOMAIN old
        /\ \A x \in DOMAIN one : Over(one, old)[x] = one[x]
        /\ \A x \in DOMAIN old : x \notin DOMAIN one => Over(one, old)[x] = old[x]
    BY Overridden
  <2>3. rewrite_reply' = IF Pinged(m) THEN Over(one, old) ELSE old
    BY <1>1
  <2> HIDE DEF one
  <2> QED
    BY <1>3, <2>1, <2>2, <2>3
<1>6. queue \in Seq(ToBusMsg)
  <2>1. WrittenOf(m, serial) \in Seq(ToBusMsg)
    BY Written DEF Types, WrittenAs
  <2> QED
    BY <2>1 DEF Types
<1>7. DOMAIN expects \subseteq 1 .. serial /\ DOMAIN get_owner_reply \subseteq 1 .. serial
  <2>1. serial \in 1 .. serial /\ \A s \in 1 .. last_serial : s \in 1 .. serial
    BY <1>2
  <2> QED
    BY <1>2, <1>4, <2>1
<1> HIDE DEF expects, queue, kind
<1>8. /\ Len(ops) \in Nat
      /\ last_serial' = serial + Len(ops) /\ serial_offset' = serial_offset + Len(ops)
      /\ toBus' = queue \o AsksFor(serial, ops)
      /\ DOMAIN expected_client' = DOMAIN expects \cup (serial + 1 .. serial + Len(ops))
      /\ \A s \in DOMAIN expects : expected_client'[s] = expects[s]
      /\ \A i \in 1 .. Len(ops) : expected_client'[serial + i] = ops[i].type
      /\ DOMAIN get_owner_reply' = DOMAIN get_owner_reply \cup
           {serial + i : i \in {i \in 1 .. Len(ops) : ops[i].member = "GetNameOwner"}}
      /\ \A s \in DOMAIN get_owner_reply : get_owner_reply'[s] = get_owner_reply[s]
      /\ \A i \in 1 .. Len(ops) : ops[i].member = "GetNameOwner" =>
           get_owner_reply'[serial + i] = ops[i].arg
  <2>1. Queued(ops, serial, queue, expects)
    BY <1>1, <1>6, <1>7, QueueFakes
  <2> QED
    BY <2>1 DEF Queued
<1>9. toBus' = (toBus \o WrittenOf(m, serial)) \o AsksFor(serial, ops)
  BY <1>8 DEF queue
<1>10. /\ DOMAIN expected_client' = (DOMAIN expected_client \cup {s \in {serial} : kind # "NONE"})
                                        \cup (serial + 1 .. serial + Len(ops))
       /\ \A s \in DOMAIN expected_client : expected_client'[s] = expected_client[s]
       /\ kind # "NONE" => expected_client'[serial] = kind
  BY <1>4, <1>8
<1> QED
  BY <1>1, <1>5, <1>8, <1>9, <1>10 DEF kind, Sent

-----------------------------------------------------------------------------
(* What every step keeps.                                                  *)

\* Tables lose entries, and gain them only for serials that are new.
Later ==
  /\ last_serial <= last_serial' /\ owned \subseteq owned'
  /\ \A s \in DOMAIN expected_client' : s <= last_serial =>
       s \in DOMAIN expected_client /\ expected_client'[s] = expected_client[s]
  /\ \A s \in DOMAIN get_owner_reply' : s <= last_serial =>
       get_owner_reply'[s] = get_owner_reply[s]

LEMMA SoundKept ==
  ASSUME Counts, Counts', Tables', Later
  PROVE  /\ \A m : SoundCall(m) => SoundCall(m)'
         /\ \A c \in Todo : SoundTodo(c) => SoundTodo(c)'
         /\ \A m : SoundReply(m) => SoundReply(m)'
         /\ \A m : SoundSignal(m) => SoundSignal(m)'
<1>1. /\ last_serial \in Nat /\ last_serial' \in Nat /\ last_serial <= last_serial'
      /\ owned \subseteq owned'
  BY DEF Counts, Later
<1>2. ASSUME NEW s \in Nat, s <= last_serial
      PROVE  /\ s <= last_serial'
             /\ s \in DOMAIN expected_client' =>
                  /\ s \in DOMAIN expected_client /\ expected_client'[s] = expected_client[s]
                  /\ expected_client'[s] = "FAKE_GET_NAME_OWNER" =>
                       get_owner_reply'[s] = get_owner_reply[s]
  <2>1. s <= last_serial'
    BY <1>1, <1>2
  <2>2. s \in DOMAIN expected_client' /\ expected_client'[s] = "FAKE_GET_NAME_OWNER"
          => s \in DOMAIN get_owner_reply'
    BY DEF Tables
  <2> QED
    BY <1>2, <2>1, <2>2 DEF Later
<1>3. ASSUME NEW u, MayTalk(u)
      PROVE  MayTalk(u)'
  BY <1>1, <1>3 DEF MayTalk
<1>4. ASSUME NEW m, SoundCall(m), m \in CallMsg
      PROVE  SoundCall(m)'
  <2>1. m.serial \in Nat
    BY <1>4 DEF CallMsg
  <2> QED
    BY <1>2, <1>3, <1>4, <2>1 DEF SoundCall
<1>5. ASSUME NEW c \in Todo, SoundTodo(c)
      PROVE  SoundTodo(c)'
  <2>1. c.serial \in Nat
    BY DEF Todo
  <2> QED
    BY <1>2, <1>5, <2>1 DEF SoundTodo
<1>6. ASSUME NEW m, SoundReply(m), m \in ReplyMsg
      PROVE  SoundReply(m)'
  <2>1. m.reply_serial \in Nat
    BY <1>6 DEF ReplyMsg
  <2> QED
    BY <1>1, <1>2, <1>6, <2>1 DEF SoundReply
<1>7. ASSUME NEW m, SoundSignal(m)
      PROVE  SoundSignal(m)'
  BY <1>1, <1>7 DEF SoundSignal
<1>8. \A m : m \notin CallMsg => SoundCall(m)'
  BY DEF SoundCall
<1>9. \A m : m \notin ReplyMsg => SoundReply(m)'
  BY DEF SoundReply
<1> QED
  BY <1>4, <1>5, <1>6, <1>7, <1>8, <1>9

LEMMA VisibilityKept ==
  ASSUME VisibilityJustified, owned \subseteq owned', senders \subseteq senders',
         \A u \in Ids : \A level : unique_id_policy'[u] = level =>
           unique_id_policy[u] = level \/ MayBe(u, level)',
         \A u \in heard' \cup reached' : u \in heard \cup reached \/ MayTalk(u)
  PROVE  VisibilityJustified'
<1>1. ASSUME NEW u \in Ids
      PROVE  MayBe(u, unique_id_policy[u])'
  <2>1. MayBe(u, unique_id_policy[u])
    BY DEF VisibilityJustified
  <2>2. PICK level : unique_id_policy'[u] = level
    OBVIOUS
  <2>3. CASE unique_id_policy[u] = level
    BY <2>1, <2>2, <2>3 DEF MayBe
  <2>4. CASE MayBe(u, level)'
    BY <2>2, <2>4 DEF MayBe
  <2> QED
    BY <2>2, <2>3, <2>4
<1>2. ASSUME NEW u \in heard' \cup reached'
      PROVE  MayTalk(u)'
  <2>1. MayTalk(u)
    BY DEF VisibilityJustified, MayTalk
  <2> QED
    BY <2>1 DEF MayTalk
<1> QED
  BY <1>1, <1>2 DEF VisibilityJustified, MayTalk

\* Another connection that may be talked to owned a name that may.
LEMMA TalkedTo ==
  ASSUME VisibilityJustified, unique_id_policy \in [Ids -> Levels],
         NEW u \in Peers, unique_id_policy[u] >= TALK
  PROVE  MayTalk(u)
<1>1. u \in Ids /\ u # Me /\ unique_id_policy[u] \in Levels
  BY DistinctAssumption DEF Ids
<1>2. MayBe(u, unique_id_policy[u])
  BY <1>1 DEF VisibilityJustified
<1>3. PICK n \in Names :
        <<n, u>> \in owned /\ unique_id_policy[u] <= xdg_app_proxy_get_policy(n)
  BY <1>1, <1>2 DEF MayBe, NONE, SEE, TALK, Levels, OWN
<1>4. xdg_app_proxy_get_policy(n) \in Levels
  BY PolicyRange
<1>5. xdg_app_proxy_get_policy(n) >= TALK
  BY <1>1, <1>3, <1>4 DEF Levels, NONE, OWN, TALK
<1> QED
  BY <1>3, <1>5 DEF MayTalk

LEMMA AsksOf ==
  ASSUME NEW ops \in Seq(FakeOps), NEW base \in Nat
  PROVE  /\ Len(ops) \in Nat /\ \A i \in 1 .. Len(ops) : ops[i] \in FakeOps
         /\ AsksFor(base, ops) \in Seq(ToBusMsg)
         /\ Len(AsksFor(base, ops)) = Len(ops)
         /\ \A i \in 1 .. Len(ops) :
              LET a == AsksFor(base, ops)[i]
              IN /\ a = Call(base + i, Bus, ops[i].member, ops[i].arg, FALSE, 0)
                 /\ a \in CallMsg /\ a.serial = base + i /\ a.dest = Bus
                 /\ a.member = ops[i].member /\ a.arg = ops[i].arg
                 /\ a.no_reply = FALSE /\ a.of = 0
<1>1. /\ Len(ops) \in Nat /\ DOMAIN ops = 1 .. Len(ops)
      /\ \A i \in 1 .. Len(ops) : ops[i] \in FakeOps
  OBVIOUS
<1> DEFINE c(i) == Call(base + i, Bus, ops[i].member, ops[i].arg, FALSE, 0)
<1>2. ASSUME NEW i \in 1 .. Len(ops)
      PROVE  /\ c(i) \in CallMsg /\ c(i) \in ToBusMsg /\ c(i).serial = base + i /\ c(i).dest = Bus
             /\ c(i).member = ops[i].member /\ c(i).arg = ops[i].arg
             /\ c(i).no_reply = FALSE /\ c(i).of = 0
  <2>1. base + i \in Nat /\ 0 \in Nat
    BY <1>1
  <2>2. ops[i].member \in Members /\ ops[i].arg \in Names \cup Prefixes \cup {NULL}
    BY <1>1, OpKinds
  <2> QED
    BY <2>1, <2>2 DEF Call, CallMsg, ToBusMsg
<1>2a. \A i \in 1 .. Len(ops) : c(i) \in ToBusMsg
  BY <1>2
<1>3. AsksFor(base, ops) = [i \in 1 .. Len(ops) |-> c(i)]
  BY <1>1 DEF AsksFor
<1> HIDE DEF c
<1>4. AsksFor(base, ops) \in Seq(ToBusMsg) /\ Len(AsksFor(base, ops)) = Len(ops)
  BY <1>1, <1>2a, <1>3
<1>5. \A i \in 1 .. Len(ops) : AsksFor(base, ops)[i] = c(i)
  BY <1>1, <1>3
<1>6. \A i \in 1 .. Len(ops) : c(i) = Call(base + i, Bus, ops[i].member, ops[i].arg, FALSE, 0)
  BY DEF c
<1> QED
  BY <1>1, <1>2, <1>4, <1>5, <1>6

LEMMA AsksAreSound ==
  ASSUME NEW ops \in Seq(FakeOps), NEW base \in Nat,
         last_serial' = base + Len(ops),
         \A i \in 1 .. Len(ops) : expected_client'[base + i] = ops[i].type,
         \A i \in 1 .. Len(ops) : ops[i].member = "GetNameOwner" =>
              get_owner_reply'[base + i] = ops[i].arg
  PROVE  \A x \in Elems(AsksFor(base, ops)) : SoundCall(x)'
<1> SUFFICES ASSUME NEW i \in 1 .. Len(ops), NEW x, x = AsksFor(base, ops)[i]
             PROVE  SoundCall(x)'
  BY AsksOf DEF Elems
<1>1. /\ x.serial = base + i /\ x.dest = Bus /\ x.member = ops[i].member /\ x.arg = ops[i].arg
      /\ Len(ops) \in Nat /\ ops[i] \in FakeOps
  BY AsksOf
<1>2. x.serial <= last_serial'
  BY <1>1
<1>3. Bus \notin Names /\ Bus \notin Peers
  BY DistinctAssumption DEF Ids
<1>4. /\ x.member = "AddMatch" => x.arg \in Names \cup Prefixes
      /\ x.member \notin {"RequestName", "Hello"}
      /\ x.member = "GetNameOwner" => x.arg \in Names
      /\ expected_client'[x.serial] = "FAKE_GET_NAME_OWNER" =>
           x.member = "GetNameOwner" /\ get_owner_reply'[x.serial] = x.arg
      /\ expected_client'[x.serial] # "HELLO"
  <2>1. /\ \/ /\ ops[i].member = "AddMatch" /\ ops[i].type = "FILTER"
              /\ ops[i].arg \in Names \cup Prefixes
           \/ /\ ops[i].member = "GetNameOwner" /\ ops[i].type = "FAKE_GET_NAME_OWNER"
              /\ ops[i].arg \in Names
           \/ ops[i].member = "ListNames" /\ ops[i].type = "FAKE_LIST_NAMES" /\ ops[i].arg = NULL
    BY <1>1, OpKinds
  <2> QED
    BY <1>1, <2>1
<1> QED
  BY <1>1, <1>2, <1>3, <1>4 DEF SoundCall

-----------------------------------------------------------------------------
(* Steps of the client.                                                    *)

LEMMA ForwardKeeps ==
  ASSUME IInv, NEW m, ClientCall(m), NEW ops \in Seq(FakeOps),
         NEW serial, serial = m.serial + serial_offset,
         m.serial = client_serial + 1, client_serial' = client_serial + 1,
         ForwardCall(m, serial, ops),
         hello_serial' \in Nat, reading' \in BOOLEAN, in_loop' \in BOOLEAN,
         UNCHANGED <<closed, reused, unique_id_policy, fromBus, bus, senders, heard>>
  PROVE  IInv'
<1>0. Counts /\ Tables /\ Types /\ Sound /\ VisibilityJustified
  BY DEF IInv
<1>1. /\ last_serial \in Nat /\ serial = last_serial + 1 /\ serial \in Nat
      /\ serial > last_serial
  BY <1>0 DEF Counts
<1>2. Sent(m, serial, ops)
  BY <1>0, <1>1, Forwarded
<1>3. /\ Len(ops) \in Nat /\ \A i \in 1 .. Len(ops) : ops[i] \in FakeOps
      /\ AsksFor(serial, ops) \in Seq(ToBusMsg) /\ Len(AsksFor(serial, ops)) = Len(ops)
  BY <1>1, AsksOf
<1>3a. Len(ops) \in Nat
  BY <1>3
<1>4. UNCHANGED <<owner, matches, todo, peer_serial, owned, reached>>
  BY DEF bus
<1>5. Counts'
  <2>1. last_serial' = serial + Len(ops) /\ serial_offset' = serial_offset + Len(ops)
    BY <1>2 DEF Sent
  <2>2. /\ {serial_offset', last_serial', client_serial'} \subseteq Nat
        /\ last_serial' = client_serial' + serial_offset'
    BY <1>0, <1>1, <1>3a, <2>1 DEF Counts
  <2> QED
    BY <1>0, <2>2 DEF Counts
<1> DEFINE W == WrittenOf(m, serial)
           kind == KindOf(m)
<1>6. /\ W \in Seq(ToBusMsg)
      /\ \/ /\ kind = "NONE" /\ W = <<>> /\ ~Pinged(m) /\ m.member # "Hello"
         \/ \E w \in CallMsg :
              /\ W = <<w>> /\ w.serial = serial /\ w.of = m.of /\ w.no_reply = m.no_reply
              /\ \/ /\ kind \in {"NORMAL", "LIST_NAMES", "HELLO", "NONE"} /\ ~Pinged(m)
                    /\ kind = "HELLO" <=> m.member = "Hello"
                    /\ w.dest = m.dest /\ w.member = m.member /\ w.arg = m.arg
                    /\ xdg_app_proxy_client_get_policy(m.dest) >= TALK
                 \/ /\ kind = "REWRITE" /\ Pinged(m) /\ m.member # "Hello"
                    /\ w.dest = Bus /\ w.member = "Ping" /\ w.arg = NULL
  <2>1. unique_id_policy \in [Ids -> Levels]
    BY <1>0 DEF Types
  <2>2. WrittenAs(m, serial, W, kind)
    BY <1>1, <2>1, Written
  <2> QED
    BY <2>2 DEF WrittenAs
<1>7. /\ kind \in ClientKinds \cup {"NONE"} /\ (Pinged(m) <=> kind = "REWRITE")
  BY <1>6 DEF ClientKinds
<1>8. /\ toBus' = (toBus \o W) \o AsksFor(serial, ops)
      /\ DOMAIN expected_client' = (DOMAIN expected_client \cup {s \in {serial} : kind # "NONE"})
                                     \cup (serial + 1 .. serial + Len(ops))
      /\ \A s \in DOMAIN expected_client : expected_client'[s] = expected_client[s]
      /\ kind # "NONE" => expected_client'[serial] = kind
      /\ \A i \in 1 .. Len(ops) : expected_client'[serial + i] = ops[i].type
      /\ DOMAIN rewrite_reply' = DOMAIN rewrite_reply \cup {s \in {serial} : Pinged(m)}
      /\ DOMAIN get_owner_reply' = DOMAIN get_owner_reply \cup
           {serial + i : i \in {i \in 1 .. Len(ops) : ops[i].member = "GetNameOwner"}}
      /\ \A s \in DOMAIN get_owner_reply : get_owner_reply'[s] = get_owner_reply[s]
      /\ \A i \in 1 .. Len(ops) : ops[i].member = "GetNameOwner" =>
           get_owner_reply'[serial + i] = ops[i].arg
      /\ last_serial' = serial + Len(ops)
      /\ inbox' = inbox
  BY <1>2 DEF Sent
<1> HIDE DEF W, kind
<1>9. Tables'
  <2>1. /\ DOMAIN expected_client \subseteq 1 .. last_serial
        /\ \A s \in DOMAIN expected_client : expected_client[s] \in ClientKinds \cup OwnKinds
        /\ DOMAIN rewrite_reply = {s \in DOMAIN expected_client : expected_client[s] = "REWRITE"}
        /\ DOMAIN get_owner_reply = {s \in DOMAIN expected_client :
                                       expected_client[s] = "FAKE_GET_NAME_OWNER"}
        /\ \A s \in DOMAIN get_owner_reply : get_owner_reply[s] \in Names
    BY <1>0 DEF Tables
  <2>2. \A i \in 1 .. Len(ops) :
          /\ ops[i].type \in OwnKinds
          /\ ops[i].type = "FAKE_GET_NAME_OWNER" <=> ops[i].member = "GetNameOwner"
          /\ ops[i].member = "GetNameOwner" => ops[i].arg \in Names
    BY <1>3, OpKinds
  <2>3. ASSUME NEW s \in DOMAIN expected_client'
        PROVE  /\ s \in 1 .. last_serial' /\ expected_client'[s] \in ClientKinds \cup OwnKinds
               /\ s \in DOMAIN rewrite_reply' <=> expected_client'[s] = "REWRITE"
               /\ s \in DOMAIN get_owner_reply' <=> expected_client'[s] = "FAKE_GET_NAME_OWNER"
               /\ s \in DOMAIN get_owner_reply' => get_owner_reply'[s] \in Names
    <3>1. CASE s \in DOMAIN expected_client
      <4>1. s \in 1 .. last_serial /\ s # serial /\ \A i \in 1 .. Len(ops) : s # serial + i
        BY <1>1, <1>3a, <2>1, <3>1
      <4>2. s \in 1 .. last_serial'
        BY <1>1, <1>3a, <1>8, <4>1
      <4>3. /\ s \in DOMAIN rewrite_reply' <=> s \in DOMAIN rewrite_reply
            /\ s \in DOMAIN get_owner_reply' <=> s \in DOMAIN get_owner_reply
        BY <1>8, <4>1
      <4> QED
        BY <1>8, <2>1, <3>1, <4>2, <4>3
    <3>2. CASE s = serial /\ kind # "NONE"
      <4>1. s \notin DOMAIN expected_client /\ \A i \in 1 .. Len(ops) : s # serial + i
        BY <1>1, <1>3a, <2>1, <3>2
      <4>2. s \in 1 .. last_serial'
        BY <1>1, <1>3a, <1>8, <3>2
      <4>3. expected_client'[s] = kind /\ kind \in ClientKinds
        BY <1>7, <1>8, <3>2
      <4>4. s \in DOMAIN rewrite_reply' <=> Pinged(m)
        BY <1>8, <2>1, <3>2, <4>1
      <4>5. s \notin DOMAIN get_owner_reply'
        BY <1>8, <2>1, <4>1
      <4> QED
        BY <1>7, <4>2, <4>3, <4>4, <4>5 DEF ClientKinds
    <3>3. CASE s \in serial + 1 .. serial + Len(ops)
      <4>1. PICK i \in 1 .. Len(ops) : s = serial + i
        <5>1. s - serial \in 1 .. Len(ops) /\ s = serial + (s - serial)
          BY <1>1, <1>3a, <3>3
        <5> QED
          BY <5>1
      <4>2. s \notin DOMAIN expected_client /\ s # serial
        BY <1>1, <1>3a, <2>1, <4>1
      <4>3. s \in 1 .. last_serial'
        BY <1>1, <1>3a, <1>8, <4>1
      <4>4. expected_client'[s] = ops[i].type
        BY <1>8, <4>1
      <4>5. s \notin DOMAIN rewrite_reply'
        BY <1>8, <2>1, <4>2
      <4>6. s \in DOMAIN get_owner_reply' <=> ops[i].member = "GetNameOwner"
        <5>1. \A j \in 1 .. Len(ops) : s = serial + j => j = i
          BY <1>1, <1>3a, <4>1
        <5> QED
          BY <1>8, <2>1, <4>1, <4>2, <5>1
      <4> QED
        BY <1>8, <2>2, <4>1, <4>3, <4>4, <4>5, <4>6 DEF OwnKinds
    <3> QED
      BY <1>8, <3>1, <3>2, <3>3
  <2>4. /\ DOMAIN rewrite_reply' \subseteq DOMAIN expected_client'
        /\ DOMAIN get_owner_reply' \subseteq DOMAIN expected_client'
    <3>1. \A i \in 1 .. Len(ops) : serial + i \in serial + 1 .. serial + Len(ops)
      BY <1>1, <1>3a
    <3> QED
      BY <1>7, <1>8, <2>1, <3>1
  <2> QED
    BY <2>3, <2>4 DEF Tables
<1>10. /\ toBus' \in Seq(ToBusMsg)
       /\ Elems(toBus') = (Elems(toBus) \cup Elems(W)) \cup Elems(AsksFor(serial, ops))
  <2>1. toBus \in Seq(ToBusMsg)
    BY <1>0 DEF Types
  <2>2. toBus \o W \in Seq(ToBusMsg) /\ Elems(toBus \o W) = Elems(toBus) \cup Elems(W)
    BY <1>6, <2>1, ElemsJoined
  <2> DEFINE queue == toBus \o W
             asks == AsksFor(serial, ops)
  <2>3. queue \in Seq(ToBusMsg) /\ asks \in Seq(ToBusMsg)
    BY <1>3, <2>2
  <2> HIDE DEF queue, asks
  <2>4. queue \o asks \in Seq(ToBusMsg) /\ Elems(queue \o asks) = Elems(queue) \cup Elems(asks)
    BY <2>3, ElemsJoined
  <2> QED
    BY <1>8, <2>2, <2>4 DEF queue, asks
<1>11. Types'
  BY <1>0, <1>4, <1>8, <1>10 DEF Types
<1>12. Later
  <2>1. last_serial <= last_serial'
    BY <1>1, <1>3a, <1>8
  <2>2. \A s \in DOMAIN expected_client' : s <= last_serial =>
          s \in DOMAIN expected_client /\ expected_client'[s] = expected_client[s]
    BY <1>1, <1>3a, <1>8
  <2>3. \A i \in 1 .. Len(ops) : ~(serial + i <= last_serial)
    BY <1>1, <1>3a
  <2>4. \A s \in DOMAIN get_owner_reply' : s <= last_serial =>
          get_owner_reply'[s] = get_owner_reply[s]
    BY <1>8, <2>3
  <2> QED
    BY <1>4, <2>1, <2>2, <2>4 DEF Later
<1>13. /\ \A x : SoundCall(x) => SoundCall(x)'
       /\ \A c \in Todo : SoundTodo(c) => SoundTodo(c)'
       /\ \A x : SoundReply(x) => SoundReply(x)'
       /\ \A x : SoundSignal(x) => SoundSignal(x)'
  BY <1>0, <1>5, <1>9, <1>12, SoundKept
<1>14. \A x \in Elems(W) : SoundCall(x)'
  <2>1. CASE W = <<>>
    BY <2>1 DEF Elems
  <2>2. ASSUME NEW w \in CallMsg, W = <<w>>, w.serial = serial, w.of = m.of,
               \/ /\ kind \in {"NORMAL", "LIST_NAMES", "HELLO", "NONE"} /\ ~Pinged(m)
                  /\ kind = "HELLO" <=> m.member = "Hello"
                  /\ w.dest = m.dest /\ w.member = m.member /\ w.arg = m.arg
                  /\ xdg_app_proxy_client_get_policy(m.dest) >= TALK
               \/ /\ kind = "REWRITE" /\ Pinged(m) /\ m.member # "Hello"
                  /\ w.dest = Bus /\ w.member = "Ping" /\ w.arg = NULL
        PROVE  \A x \in Elems(W) : SoundCall(x)'
    <3>1. Elems(W) = {w}
      BY <2>2, ElemsOne
    <3>2. w.serial <= last_serial'
      BY <1>1, <1>3a, <1>8, <2>2
    <3>3. w.serial \in DOMAIN expected_client' => expected_client'[w.serial] = kind /\ kind # "NONE"
      <4>1. DOMAIN expected_client \subseteq 1 .. last_serial
        BY <1>0 DEF Tables
      <4>2. serial \notin DOMAIN expected_client /\ serial \notin serial + 1 .. serial + Len(ops)
        BY <1>1, <1>3a, <4>1
      <4> QED
        BY <1>8, <2>2, <4>2
    <3>4. kind # "FAKE_GET_NAME_OWNER"
      BY <2>2
    <3>5. Bus \notin Names /\ Bus \notin Peers /\ Names \cap Peers = {} /\ Peers \subseteq Ids
      BY DistinctAssumption DEF Ids
    <3>6. CASE kind = "REWRITE"
      <4>1. w.dest = Bus /\ w.member = "Ping"
        BY <2>2, <3>6
      <4> QED
        BY <3>1, <3>2, <3>3, <3>4, <3>5, <3>6, <4>1 DEF SoundCall
    <3>7. CASE kind # "REWRITE"
      <4>1. /\ kind = "HELLO" <=> m.member = "Hello"
            /\ w.dest = m.dest /\ w.member = m.member /\ w.arg = m.arg
            /\ xdg_app_proxy_client_get_policy(m.dest) >= TALK
        BY <2>2, <3>7
      <4>2. /\ m.dest # Bus => m.member = "Method"
            /\ m.member = "AddMatch" => m.arg \in Names \cup Prefixes
            /\ m.member \in {"RequestName", "GetNameOwner"} => m.arg \in Names
        BY DEF ClientCall
      <4>3. m.dest \in Names => xdg_app_proxy_get_policy(m.dest) >= TALK
        BY <4>1, SourcePolicy
      <4>4. m.dest \in Peers => MayTalk(m.dest)'
        <5>1. m.dest \in Peers => unique_id_policy[m.dest] >= TALK
          BY <3>5, <4>1, SourcePolicy
        <5>2. m.dest \in Peers => MayTalk(m.dest)
          BY <1>0, <5>1, TalkedTo DEF Types
        <5> QED
          BY <1>4, <5>2 DEF MayTalk
      <4>5. kind = "HELLO" => m.dest = Bus
        BY <4>1, <4>2
      <4>6. SoundCall(w)'
        BY <3>2, <3>3, <3>4, <4>1, <4>2, <4>3, <4>4, <4>5 DEF SoundCall
      <4> QED
        BY <3>1, <4>6
    <3> QED
      BY <3>6, <3>7
  <2> QED
    BY <1>6, <2>1, <2>2
<1>15. \A x \in Elems(AsksFor(serial, ops)) : SoundCall(x)'
  BY <1>1, <1>8, AsksAreSound
<1>16. Sound'
  <2>1. \A x \in Elems(toBus)' : SoundCall(x)'
    <3>1. Elems(toBus)' = Elems(toBus')
      BY DEF Elems
    <3> QED
      BY <1>0, <1>10, <1>13, <1>14, <1>15, <3>1 DEF Sound
  <2>2. \A c \in todo' : SoundTodo(c)'
    BY <1>0, <1>4, <1>13 DEF Sound, Types
  <2>3. \A x \in Elems(fromBus)' : SoundReply(x)' /\ SoundSignal(x)'
    <3>1. Elems(fromBus)' = Elems(fromBus)
      BY DEF Elems
    <3> QED
      BY <1>0, <1>13, <3>1 DEF Sound
  <2> QED
    BY <1>0, <1>4, <2>1, <2>2, <2>3 DEF Sound
<1>17. VisibilityJustified'
  BY <1>0, <1>4, VisibilityKept DEF Types
<1> QED
  BY <1>5, <1>9, <1>11, <1>16, <1>17 DEF IInv

LEMMA SoundAfter ==
  ASSUME IInv, Counts', Tables', Later,
         \A x \in Elems(toBus)' : x \in Elems(toBus) \/ SoundCall(x)',
         \A c \in todo' : c \in todo \/ SoundTodo(c)',
         \A x \in Elems(fromBus)' : x \in Elems(fromBus) \/ (SoundReply(x)' /\ SoundSignal(x)'),
         \A n \in Names : owner'[n] = owner[n] \/ owner'[n] = NULL \/ <<n, owner'[n]>> \in owned'
  PROVE  Sound'
<1>1. /\ \A x : SoundCall(x) => SoundCall(x)'
      /\ \A c \in Todo : SoundTodo(c) => SoundTodo(c)'
      /\ \A x : SoundReply(x) => SoundReply(x)'
      /\ \A x : SoundSignal(x) => SoundSignal(x)'
  BY SoundKept DEF IInv
<1>2. /\ \A x \in Elems(toBus) : SoundCall(x)
      /\ \A c \in todo : SoundTodo(c)
      /\ \A x \in Elems(fromBus) : SoundReply(x) /\ SoundSignal(x)
      /\ \A n \in Names : owner[n] = NULL \/ <<n, owner[n]>> \in owned
      /\ todo \subseteq Todo
  BY DEF IInv, Sound, Types
<1>3. owned \subseteq owned'
  BY DEF Later
<1>4. \A x \in Elems(toBus)' : SoundCall(x)'
  BY <1>1, <1>2
<1>5. \A c \in todo' : SoundTodo(c)'
  BY <1>1, <1>2
<1>6. \A x \in Elems(fromBus)' : SoundReply(x)' /\ SoundSignal(x)'
  BY <1>1, <1>2
<1>7. \A n \in Names : owner'[n] = NULL \/ <<n, owner'[n]>> \in owned'
  BY <1>2, <1>3
<1> QED
  BY <1>4, <1>5, <1>6, <1>7 DEF Sound

LEMMA ReplyKeeps ==
  ASSUME IInv, NEW m \in ReturnMsg, NEW serial, serial = m.serial + serial_offset,
         m.serial = client_serial + 1, client_serial' = client_serial + 1,
         ForwardReply(m, serial),
         UNCHANGED <<hello_serial, unique_id_policy, flags, fromBus, bus>>,
         UNCHANGED <<reused, senders, heard>>
  PROVE  IInv'
<1>0. Counts /\ Tables /\ Types /\ Sound /\ VisibilityJustified
  BY DEF IInv
<1>1. /\ last_serial \in Nat /\ serial = last_serial + 1 /\ serial \in Nat
      /\ client_serial \in Nat /\ serial_offset \in Nat /\ last_serial = client_serial + serial_offset
  BY <1>0 DEF Counts
<1>2. /\ last_serial' = serial /\ serial_offset' = serial_offset /\ inbox' \subseteq inbox
      /\ \/ toBus' = Append(toBus, [m EXCEPT !.serial = serial])
         \/ toBus' = toBus
      /\ UNCHANGED <<expected_client, rewrite_reply, get_owner_reply>>
  BY DEF ForwardReply, tables
<1>3. UNCHANGED <<reading, in_loop, closed, owner, matches, todo, peer_serial, owned, reached>>
  BY DEF flags, bus
<1>4. Counts'
  <2>1. last_serial' \in Nat /\ last_serial' = client_serial' + serial_offset' /\ client_serial' \in Nat
    BY <1>1, <1>2
  <2> QED
    BY <1>0, <1>2, <1>3, <2>1 DEF Counts
<1>5. Tables'
  <2>1. DOMAIN expected_client \subseteq 1 .. last_serial
    BY <1>0 DEF Tables
  <2>2. DOMAIN expected_client' \subseteq 1 .. last_serial'
    <3>1. \A s \in 1 .. last_serial : s \in 1 .. last_serial'
      BY <1>1, <1>2
    <3> QED
      BY <1>2, <2>1, <3>1
  <2> QED
    BY <1>0, <1>2, <2>2 DEF Tables
<1>6. toBus' \in Seq(ToBusMsg) /\ \A x \in Elems(toBus') : x \in Elems(toBus) \/ x \in ReturnMsg
  <2> DEFINE w == [m EXCEPT !.serial = serial]
  <2>1. w \in ReturnMsg
    BY <1>1 DEF ReturnMsg
  <2>2. toBus \in Seq(ToBusMsg)
    BY <1>0 DEF Types
  <2>3. toBus' = Append(toBus, w) \/ toBus' = toBus
    BY <1>2
  <2> HIDE DEF w
  <2>4. w \in ToBusMsg
    BY <2>1 DEF ToBusMsg
  <2>5. Append(toBus, w) \in Seq(ToBusMsg) /\ Elems(Append(toBus, w)) = Elems(toBus) \cup {w}
    BY <2>2, <2>4, ElemsAppended
  <2> QED
    BY <2>1, <2>2, <2>3, <2>5
<1>7. Types'
  BY <1>0, <1>2, <1>3, <1>6 DEF Types
<1>8. Later
  BY <1>1, <1>2, <1>3 DEF Later
<1>9. \A x \in ReturnMsg : SoundCall(x)'
  BY DEF SoundCall, ReturnMsg, CallMsg
<1>10. Elems(toBus)' = Elems(toBus') /\ Elems(fromBus)' = Elems(fromBus)
  BY DEF Elems
<1>11. Sound'
  BY <1>3, <1>4, <1>5, <1>6, <1>8, <1>9, <1>10, SoundAfter
<1>12. VisibilityJustified'
  BY <1>0, <1>3, VisibilityKept DEF Types
<1> QED
  BY <1>4, <1>5, <1>7, <1>11, <1>12 DEF IInv

LEMMA RefuseKeeps ==
  ASSUME IInv, RefuseSerial, reused' = TRUE, UNCHANGED <<client_serial, senders, heard>>
  PROVE  IInv'
<1>0. Counts /\ Tables /\ Types /\ Sound /\ VisibilityJustified
  BY DEF IInv
<1>1. /\ closed' = TRUE
      /\ UNCHANGED <<expected_client, rewrite_reply, get_owner_reply, serial_offset, last_serial,
                     hello_serial, unique_id_policy, reading, in_loop, toBus, fromBus,
                     owner, matches, todo, peer_serial, owned, reached, inbox>>
  BY DEF RefuseSerial, tables, serials, bus
<1>2. Counts'
  BY <1>0, <1>1 DEF Counts
<1>3. Tables'
  BY <1>0, <1>1 DEF Tables
<1>4. Types'
  BY <1>0, <1>1 DEF Types
<1>5. Later
  BY <1>0, <1>1 DEF Later, Counts
<1>6. Elems(toBus)' = Elems(toBus) /\ Elems(fromBus)' = Elems(fromBus)
  BY <1>1 DEF Elems
<1>7. Sound'
  BY <1>1, <1>2, <1>3, <1>5, <1>6, SoundAfter
<1>8. VisibilityJustified'
  BY <1>0, <1>1, VisibilityKept DEF Types
<1> QED
  BY <1>2, <1>3, <1>4, <1>7, <1>8 DEF IInv

LEMMA HelloKeeps ==
  ASSUME IInv, ClientHello
  PROVE  IInv'
<1> DEFINE m == Call(1, Bus, "Hello", NULL, FALSE, 1)
           serial == m.serial + serial_offset
<1>1. /\ client_serial = 0 /\ client_serial' = 1 /\ got_buffer_from_client(m)
      /\ UNCHANGED <<reused, senders, heard>>
  BY DEF ClientHello, Learned
<1>2. ClientCall(m) /\ m.member = "Hello" /\ m.type = "call" /\ m.serial = 1
  BY HelloIsCall
<1> HIDE DEF m
<1>3. serial > last_serial
  BY <1>1, <1>2 DEF IInv, Counts
<1>3a. ~(serial <= last_serial)
  BY <1>1, <1>2 DEF IInv, Counts
<1>4. /\ hello_serial' = serial
      /\ \E names \in Orders(ExactNames), prefixes \in Orders(Prefixes) :
           ForwardCall(m, serial, queue_initial_name_ops(names, prefixes))
      /\ reading' = (Prefixes = {}) /\ in_loop' = TRUE
      /\ UNCHANGED <<unique_id_policy, closed, fromBus, bus>>
  BY <1>1, <1>2, <1>3a DEF got_buffer_from_client
<1>5. PICK names \in Orders(ExactNames), prefixes \in Orders(Prefixes) :
           ForwardCall(m, serial, queue_initial_name_ops(names, prefixes))
  BY <1>4
<1>6. queue_initial_name_ops(names, prefixes) \in Seq(FakeOps)
  BY InitialOps
<1>7. serial \in Nat /\ m.serial = client_serial + 1 /\ client_serial' = client_serial + 1
  BY <1>1, <1>2 DEF IInv, Counts
<1>8. hello_serial' \in Nat /\ reading' \in BOOLEAN /\ in_loop' \in BOOLEAN
  BY <1>4, <1>7
<1> QED
  BY <1>1, <1>2, <1>4, <1>5, <1>6, <1>7, <1>8, ForwardKeeps

LEMMA CallsKeep ==
  ASSUME IInv, ClientCalls
  PROVE  IInv'
<1>1. PICK c \in Calls :
        got_buffer_from_client(Call(client_serial + 1, c[1], c[2], c[3], c[4], client_serial + 1))
  BY DEF ClientCalls
<1> DEFINE m == Call(client_serial + 1, c[1], c[2], c[3], c[4], client_serial + 1)
           serial == m.serial + serial_offset
<1>2. /\ client_serial' = client_serial + 1 /\ got_buffer_from_client(m)
      /\ UNCHANGED <<reused, senders, heard>>
  BY <1>1 DEF ClientCalls, Learned
<1>3. client_serial + 1 \in Nat
  BY DEF IInv, Counts
<1>4. ClientCall(m) /\ m.member # "Hello" /\ m.type = "call" /\ m.serial = client_serial + 1
  BY <1>3, CallsAreCalls
<1> HIDE DEF m
<1>5. ~(serial <= last_serial)
  BY <1>4 DEF IInv, Counts
<1>6. /\ ForwardCall(m, serial, <<>>)
      /\ UNCHANGED <<hello_serial, unique_id_policy, flags, fromBus, bus>>
  BY <1>2, <1>4, <1>5 DEF got_buffer_from_client
<1>7. <<>> \in Seq(FakeOps)
  OBVIOUS
<1>8. /\ hello_serial' \in Nat /\ reading' \in BOOLEAN /\ in_loop' \in BOOLEAN
      /\ closed' = closed
  BY <1>6 DEF IInv, Counts, flags
<1> QED
  BY <1>2, <1>4, <1>6, <1>7, <1>8, ForwardKeeps

LEMMA ReusesKeep ==
  ASSUME IInv, ClientReusesSerial
  PROVE  IInv'
<1>1. PICK c \in Calls :
        got_buffer_from_client(Call(client_serial, c[1], c[2], c[3], c[4], client_serial))
  BY DEF ClientReusesSerial
<1> DEFINE m == Call(client_serial, c[1], c[2], c[3], c[4], client_serial)
           serial == m.serial + serial_offset
<1>2. /\ got_buffer_from_client(m) /\ reused' = TRUE
      /\ UNCHANGED <<client_serial, senders, heard>>
  BY <1>1 DEF ClientReusesSerial, Learned
<1>3. m.serial = client_serial
  BY DEF Call
<1> HIDE DEF m
<1>4. ~(serial > last_serial)
  BY <1>3 DEF IInv, Counts
<1>5. RefuseSerial
  BY <1>2, <1>4 DEF got_buffer_from_client
<1> QED
  BY <1>2, <1>5, RefuseKeeps

LEMMA RepliesKeep ==
  ASSUME IInv, ClientReplies
  PROVE  IInv'
<1>1. PICK c \in inbox : got_buffer_from_client(ReplyTo(c, client_serial + 1))
  BY DEF ClientReplies
<1> DEFINE m == ReplyTo(c, client_serial + 1)
           serial == m.serial + serial_offset
<1>2. /\ client_serial' = client_serial + 1 /\ got_buffer_from_client(m)
      /\ UNCHANGED <<reused, senders, heard>>
  BY <1>1 DEF ClientReplies, Learned
<1>3. client_serial + 1 \in Nat /\ c.sender \in Peers /\ c.serial \in Nat
  BY DEF IInv, Counts, Types
<1>4. m \in ReturnMsg /\ m.type = "return" /\ m.serial = client_serial + 1
  BY <1>3 DEF ReplyTo, ReturnMsg
<1> HIDE DEF m
<1>5. ~(serial <= last_serial)
  BY <1>4 DEF IInv, Counts
<1>6. /\ ForwardReply(m, serial)
      /\ UNCHANGED <<hello_serial, unique_id_policy, flags, fromBus, bus>>
  BY <1>2, <1>4, <1>5 DEF got_buffer_from_client
<1> QED
  BY <1>2, <1>4, <1>6, ReplyKeeps

LEMMA ReturnsKeep ==
  ASSUME IInv, side_in_cb_returns
  PROVE  IInv'
<1>0. Counts /\ Tables /\ Types /\ Sound /\ VisibilityJustified
  BY DEF IInv
<1>1. /\ in_loop' = FALSE
      /\ UNCHANGED <<expected_client, rewrite_reply, get_owner_reply, serial_offset, last_serial,
                     hello_serial, unique_id_policy, reading, closed, toBus, fromBus,
                     owner, matches, todo, peer_serial, owned, reached, inbox,
                     client_serial, reused, senders, heard>>
  BY DEF side_in_cb_returns, tables, serials, bus, client
<1>2. Counts'
  BY <1>0, <1>1 DEF Counts
<1>3. Tables'
  BY <1>0, <1>1 DEF Tables
<1>4. Types'
  BY <1>0, <1>1 DEF Types
<1>5. Later
  BY <1>0, <1>1 DEF Later, Counts
<1>6. Elems(toBus)' = Elems(toBus) /\ Elems(fromBus)' = Elems(fromBus)
  BY <1>1 DEF Elems
<1>7. Sound'
  BY <1>1, <1>2, <1>3, <1>5, <1>6, SoundAfter
<1>8. VisibilityJustified'
  BY <1>0, <1>1, VisibilityKept DEF Types
<1> QED
  BY <1>2, <1>3, <1>4, <1>7, <1>8 DEF IInv

-----------------------------------------------------------------------------
(* Steps of the bus and the peers.                                         *)

\* A step that leaves the proxy and the client alone.
LEMMA OutsideKeeps ==
  ASSUME IInv, UNCHANGED proxy, Types', owned \subseteq owned',
         Elems(toBus)' \subseteq Elems(toBus),
         \A c \in todo' : c \in todo \/ SoundTodo(c),
         \A x \in Elems(fromBus)' : x \in Elems(fromBus) \/ (SoundReply(x)' /\ SoundSignal(x)'),
         \A n \in Names : owner'[n] = owner[n] \/ owner'[n] = NULL \/ <<n, owner'[n]>> \in owned',
         \A u \in reached' : u \in reached \/ MayTalk(u)
  PROVE  IInv'
<1>0. Counts /\ Tables /\ Types /\ Sound /\ VisibilityJustified
  BY DEF IInv
<1>1. UNCHANGED <<expected_client, rewrite_reply, get_owner_reply, serial_offset, last_serial,
                  hello_serial, unique_id_policy, reading, in_loop, closed, inbox,
                  client_serial, reused, senders, heard>>
  BY DEF proxy, tables, serials, client, flags
<1>2. Counts'
  BY <1>0, <1>1 DEF Counts
<1>3. Tables'
  BY <1>0, <1>1 DEF Tables
<1>5. Later
  BY <1>0, <1>1 DEF Later, Counts
<1>6. \A c \in todo' : c \in todo \/ SoundTodo(c)'
  BY <1>1 DEF SoundTodo
<1>7. Sound'
  BY <1>2, <1>3, <1>5, <1>6, SoundAfter
<1>8. VisibilityJustified'
  BY <1>0, <1>1, VisibilityKept DEF Types
<1> QED
  BY <1>2, <1>3, <1>7, <1>8 DEF IInv

LEMMA ReplyFields ==
  ASSUME NEW c, c.serial \in Nat, c.of \in Nat
  PROVE  /\ \A sender \in Peers \cup {Bus}, names \in SUBSET (Names \cup Ids),
               id \in Ids \cup {NULL} :
              LET a == Return(c, sender, names, id)
              IN /\ a \in ReplyMsg /\ a.reply_serial = c.serial /\ a.of = c.of
                 /\ a.names = names /\ a.id = id /\ a.type = "return" /\ a.sender = sender
         /\ Error(c) \in ReplyMsg /\ Error(c).reply_serial = c.serial /\ Error(c).of = c.of
         /\ Error(c).names = {} /\ Error(c).id = NULL /\ Error(c).type = "error"
BY DEF Return, Error, ReplyMsg

\* What the bus answers.
LEMMA BusAnswers ==
  ASSUME NEW m \in CallMsg, SoundCall(m), m.dest = Bus,
         owner \in [Names -> Ids \cup {NULL}]
  PROVE  /\ BusAnswer(m) \in ReplyMsg
         /\ BusAnswer(m).reply_serial = m.serial /\ BusAnswer(m).of = m.of
         /\ m.member = "Hello" => BusAnswer(m).id = Me /\ BusAnswer(m).names = {}
         /\ m.member = "ListNames" =>
              /\ BusAnswer(m).id = NULL
              /\ BusAnswer(m).names = {n \in Names : owner[n] # NULL} \cup Ids
         /\ m.member = "GetNameOwner" =>
              /\ m.arg \in Names
              /\ BusAnswer(m).id = owner[m.arg]
              /\ BusAnswer(m).names = IF owner[m.arg] = NULL THEN {} ELSE {m.arg}
         /\ m.member \notin {"Hello", "ListNames", "GetNameOwner"} =>
              BusAnswer(m).id = NULL /\ BusAnswer(m).names = {}
<1>1. m.serial \in Nat /\ m.of \in Nat
  BY DEF CallMsg
<1>2. /\ m.member = "GetNameOwner" => m.arg \in Names
      /\ {n \in Names : owner[n] # NULL} \cup Ids \in SUBSET (Names \cup Ids)
      /\ {} \in SUBSET (Names \cup Ids) /\ \A n \in Names : {n} \in SUBSET (Names \cup Ids)
      /\ Bus \in Peers \cup {Bus} /\ Me \in Ids \cup {NULL} /\ NULL \in Ids \cup {NULL}
      /\ \A n \in Names : owner[n] \in Ids \cup {NULL}
  BY DEF SoundCall, Ids
<1>3. CASE m.member = "Hello"
  <2>1. BusAnswer(m) = Return(m, Bus, {}, Me)
    BY <1>3 DEF BusAnswer
  <2> QED
    BY <1>1, <1>2, <1>3, <2>1, ReplyFields
<1>4. CASE m.member = "ListNames"
  <2>1. BusAnswer(m) = Return(m, Bus, {n \in Names : owner[n] # NULL} \cup Ids, NULL)
    BY <1>4 DEF BusAnswer
  <2> DEFINE names == {n \in Names : owner[n] # NULL} \cup Ids
  <2>2. BusAnswer(m) = Return(m, Bus, names, NULL) /\ names \in SUBSET (Names \cup Ids)
    BY <1>2, <2>1
  <2> HIDE DEF names
  <2>3. /\ BusAnswer(m) \in ReplyMsg /\ BusAnswer(m).reply_serial = m.serial /\ BusAnswer(m).of = m.of
        /\ BusAnswer(m).names = names /\ BusAnswer(m).id = NULL
    BY <1>1, <1>2, <2>2, ReplyFields
  <2> QED
    BY <1>4, <2>3 DEF names
<1>5. CASE m.member = "GetNameOwner" /\ owner[m.arg] = NULL
  <2>1. BusAnswer(m) = Error(m)
    BY <1>5 DEF BusAnswer
  <2> QED
    BY <1>1, <1>2, <1>5, <2>1, ReplyFields
<1>6. CASE m.member = "GetNameOwner" /\ owner[m.arg] # NULL
  <2>1. BusAnswer(m) = Return(m, Bus, {m.arg}, owner[m.arg])
    BY <1>6 DEF BusAnswer
  <2> QED
    BY <1>1, <1>2, <1>6, <2>1, ReplyFields
<1>7. CASE m.member \notin {"Hello", "ListNames", "GetNameOwner"}
  <2>1. BusAnswer(m) = Return(m, Bus, {}, NULL)
    BY <1>7 DEF BusAnswer
  <2> QED
    BY <1>1, <1>2, <1>7, <2>1, ReplyFields
<1> QED
  BY <1>3, <1>4, <1>5, <1>6, <1>7

LEMMA BusAnswerIsSound ==
  ASSUME NEW m \in CallMsg, SoundCall(m), m.dest = Bus, Sound, Tables,
         owner \in [Names -> Ids \cup {NULL}]
  PROVE  SoundReply(BusAnswer(m)) /\ SoundSignal(BusAnswer(m))
<1> DEFINE a == BusAnswer(m)
<1>1. /\ a \in ReplyMsg /\ a.reply_serial = m.serial
      /\ m.member = "Hello" => a.id = Me
      /\ m.member = "GetNameOwner" => m.arg \in Names /\ a.id = owner[m.arg]
  BY BusAnswers
<1> HIDE DEF a
<1>2. a \notin SignalMsg
  BY <1>1 DEF ReplyMsg, SignalMsg
<1>3. ASSUME m.serial \in DOMAIN expected_client
      PROVE  /\ expected_client[m.serial] = "HELLO" => a.id = Me
             /\ expected_client[m.serial] = "FAKE_GET_NAME_OWNER" =>
                  a.id = NULL \/ <<get_owner_reply[m.serial], a.id>> \in owned
  BY <1>1, <1>3 DEF SoundCall, Sound
<1>4. m.serial <= last_serial
  BY DEF SoundCall
<1>5. SoundReply(a) /\ SoundSignal(a)
  BY <1>1, <1>2, <1>3, <1>4 DEF SoundReply, SoundSignal
<1> QED
  BY <1>5 DEF a

\* A reply or a signal that was sound stays so when owners change.
LEMMA SoundOutside ==
  ASSUME UNCHANGED proxy, owned \subseteq owned', NEW x
  PROVE  /\ SoundReply(x) => SoundReply(x)'
         /\ SoundSignal(x) => SoundSignal(x)'
<1>1. UNCHANGED <<expected_client, get_owner_reply, last_serial>>
  BY DEF proxy, tables, serials
<1> QED
  BY <1>1 DEF SoundReply, SoundSignal

LEMMA OwnerSet ==
  ASSUME IInv, NEW n \in Names, NEW new \in Ids \cup {NULL}, NEW after \in Seq(FromBusMsg),
         SetOwner(n, new, after), UNCHANGED proxy,
         \A x \in Elems(after) : SoundReply(x) /\ SoundSignal(x)
  PROVE  /\ owner' \in [Names -> Ids \cup {NULL}] /\ owned \subseteq owned'
         /\ fromBus' \in Seq(FromBusMsg)
         /\ \A x \in Elems(fromBus)' : x \in Elems(fromBus) \/ (SoundReply(x)' /\ SoundSignal(x)')
         /\ \A k \in Names : owner'[k] = owner[k] \/ owner'[k] = NULL
                               \/ <<k, owner'[k]>> \in owned'
<1>0. Types /\ Sound
  BY DEF IInv
<1>1. /\ owner' = [owner EXCEPT ![n] = new]
      /\ owned' = IF new = NULL THEN owned ELSE owned \cup {<<n, new>>}
  BY DEF SetOwner
<1>2. owner \in [Names -> Ids \cup {NULL}] /\ fromBus \in Seq(FromBusMsg)
  BY <1>0 DEF Types
<1>3. owner' \in [Names -> Ids \cup {NULL}] /\ owned \subseteq owned'
  BY <1>1, <1>2
<1>4. \A k \in Names : owner'[k] = owner[k] \/ owner'[k] = NULL \/ <<k, owner'[k]>> \in owned'
  BY <1>1, <1>2
<1> DEFINE sig == IF Matched(n) THEN <<NameOwnerChanged(n, owner[n], new)>> ELSE <<>>
<1>5. fromBus' = (fromBus \o sig) \o after
  BY DEF SetOwner
<1>6. sig \in Seq(FromBusMsg) /\ \A x \in Elems(sig) : SoundReply(x)' /\ SoundSignal(x)'
  <2>0. PICK s : s = NameOwnerChanged(n, owner[n], new)
    OBVIOUS
  <2>1. s \in SignalMsg /\ s.name = n /\ s.old = owner[n] /\ s.new = new
    BY <1>2, <2>0 DEF NameOwnerChanged, SignalMsg
  <2>2. owner[n] = NULL \/ <<n, owner[n]>> \in owned
    BY <1>0 DEF Sound
  <2>3. new = NULL \/ <<n, new>> \in owned'
    BY <1>1
  <2>4. sig = <<s>> \/ sig = <<>>
    BY <2>0
  <2> HIDE DEF sig
  <2>5. s \notin ReplyMsg /\ s \in FromBusMsg
    BY <2>1 DEF ReplyMsg, SignalMsg, FromBusMsg
  <2>6. SoundReply(s)' /\ SoundSignal(s)'
    BY <1>3, <2>1, <2>2, <2>3, <2>5 DEF SoundReply, SoundSignal
  <2>7. <<s>> \in Seq(FromBusMsg) /\ Elems(<<s>>) = {s}
    BY <2>5, ElemsOne
  <2>8. <<>> \in Seq(FromBusMsg) /\ Elems(<<>>) = {}
    BY DEF Elems
  <2> QED
    BY <2>4, <2>6, <2>7, <2>8
<1> HIDE DEF sig
<1>7. /\ fromBus \o sig \in Seq(FromBusMsg)
      /\ Elems(fromBus \o sig) = Elems(fromBus) \cup Elems(sig)
  BY <1>2, <1>6, ElemsJoined
<1> DEFINE q == fromBus \o sig
<1>8. q \in Seq(FromBusMsg) /\ Elems(q) = Elems(fromBus) \cup Elems(sig) /\ fromBus' = q \o after
  BY <1>5, <1>7
<1> HIDE DEF q
<1>9. q \o after \in Seq(FromBusMsg) /\ Elems(q \o after) = Elems(q) \cup Elems(after)
  BY <1>8, ElemsJoined
<1>10. fromBus' \in Seq(FromBusMsg) /\ Elems(fromBus') = (Elems(fromBus) \cup Elems(sig)) \cup Elems(after)
  BY <1>8, <1>9
<1>11. \A x \in Elems(after) : SoundReply(x)' /\ SoundSignal(x)'
  BY <1>3, SoundOutside
<1>12. Elems(fromBus)' = Elems(fromBus')
  BY DEF Elems
<1> QED
  BY <1>3, <1>4, <1>6, <1>10, <1>11, <1>12

\* What the head of the stream is, and what remains.
LEMMA BusTakes ==
  ASSUME IInv, toBus # <<>>, toBus' = Tail(toBus)
  PROVE  /\ Head(toBus) \in ToBusMsg /\ SoundCall(Head(toBus))
         /\ toBus' \in Seq(ToBusMsg) /\ Elems(toBus)' \subseteq Elems(toBus)
         /\ Head(toBus).type = "call" => Head(toBus) \in CallMsg
<1>1. toBus \in Seq(ToBusMsg)
  BY DEF IInv, Types
<1>2. /\ Head(toBus) \in Elems(toBus) /\ Head(toBus) \in ToBusMsg
      /\ Tail(toBus) \in Seq(ToBusMsg) /\ Elems(Tail(toBus)) \subseteq Elems(toBus)
  BY <1>1, ElemsPopped
<1>3. Elems(toBus)' = Elems(toBus')
  BY DEF Elems
<1>4. SoundCall(Head(toBus))
  BY <1>2 DEF IInv, Sound
<1>5. Head(toBus).type = "call" => Head(toBus) \in CallMsg
  BY <1>2 DEF ToBusMsg, ReturnMsg
<1> QED
  BY <1>2, <1>3, <1>4, <1>5

LEMMA SentOn ==
  ASSUME IInv, NEW after \in Seq(FromBusMsg), fromBus' = fromBus \o after,
         UNCHANGED <<proxy, owned>>,
         \A x \in Elems(after) : SoundReply(x) /\ SoundSignal(x)
  PROVE  /\ fromBus' \in Seq(FromBusMsg)
         /\ \A x \in Elems(fromBus)' : x \in Elems(fromBus) \/ (SoundReply(x)' /\ SoundSignal(x)')
<1>1. fromBus \in Seq(FromBusMsg)
  BY DEF IInv, Types
<1>2. /\ fromBus \o after \in Seq(FromBusMsg)
      /\ Elems(fromBus \o after) = Elems(fromBus) \cup Elems(after)
  BY <1>1, ElemsJoined
<1>3. Elems(fromBus)' = Elems(fromBus')
  BY DEF Elems
<1>4. \A x \in Elems(after) : SoundReply(x)' /\ SoundSignal(x)'
  BY SoundOutside
<1>5. fromBus' \in Seq(FromBusMsg) /\ Elems(fromBus') = Elems(fromBus) \cup Elems(after)
  BY <1>2
<1> QED
  BY <1>3, <1>4, <1>5

LEMMA OwnCallKeeps ==
  ASSUME IInv, toBus # <<>>, toBus' = Tail(toBus), UNCHANGED <<proxy, peer_serial>>,
         NEW m, m = Head(toBus), m.type = "call", m.dest = Bus, BusHandlesOwnCall(m)
  PROVE  IInv'
<1>0. Counts /\ Tables /\ Types /\ Sound
  BY DEF IInv
<1>1. /\ m \in CallMsg /\ SoundCall(m) /\ toBus' \in Seq(ToBusMsg)
      /\ Elems(toBus)' \subseteq Elems(toBus)
  BY BusTakes
<1> DEFINE answer == IF m.no_reply THEN <<>> ELSE <<BusAnswer(m)>>
<1>2. /\ matches' = IF m.member = "AddMatch" THEN matches \cup {m.arg} ELSE matches
      /\ IF m.member = "RequestName" /\ owner[m.arg] = NULL
         THEN SetOwner(m.arg, Me, answer)
         ELSE fromBus' = fromBus \o answer /\ UNCHANGED <<owner, owned>>
      /\ UNCHANGED <<todo, reached>>
  BY DEF BusHandlesOwnCall
<1>3. answer \in Seq(FromBusMsg) /\ \A x \in Elems(answer) : SoundReply(x) /\ SoundSignal(x)
  <2> DEFINE a == BusAnswer(m)
  <2>1. a \in ReplyMsg /\ SoundReply(a) /\ SoundSignal(a)
    BY <1>0, <1>1, BusAnswers, BusAnswerIsSound DEF Types
  <2>2. answer = <<a>> \/ answer = <<>>
    OBVIOUS
  <2> HIDE DEF a, answer
  <2>3. <<a>> \in Seq(FromBusMsg) /\ Elems(<<a>>) = {a}
    BY <2>1, ElemsOne DEF FromBusMsg
  <2>4. <<>> \in Seq(FromBusMsg) /\ Elems(<<>>) = {}
    BY DEF Elems
  <2> QED
    BY <2>1, <2>2, <2>3, <2>4
<1> HIDE DEF answer
<1>4. matches' \subseteq Names \cup Prefixes
  BY <1>0, <1>1, <1>2 DEF SoundCall, Types
<1>5. /\ owner' \in [Names -> Ids \cup {NULL}] /\ owned \subseteq owned'
      /\ fromBus' \in Seq(FromBusMsg)
      /\ \A x \in Elems(fromBus)' : x \in Elems(fromBus) \/ (SoundReply(x)' /\ SoundSignal(x)')
      /\ \A k \in Names : owner'[k] = owner[k] \/ owner'[k] = NULL \/ <<k, owner'[k]>> \in owned'
  <2>1. CASE m.member = "RequestName" /\ owner[m.arg] = NULL
    <3>1. m.arg \in Names /\ Me \in Ids \cup {NULL} /\ SetOwner(m.arg, Me, answer)
      BY <1>1, <1>2, <2>1 DEF SoundCall, Ids
    <3> QED
      BY <1>3, <3>1, OwnerSet
  <2>2. CASE ~(m.member = "RequestName" /\ owner[m.arg] = NULL)
    <3>1. fromBus' = fromBus \o answer /\ UNCHANGED <<owner, owned>>
      BY <1>2, <2>2
    <3>2. /\ fromBus' \in Seq(FromBusMsg)
          /\ \A x \in Elems(fromBus)' : x \in Elems(fromBus) \/ (SoundReply(x)' /\ SoundSignal(x)')
      BY <1>3, <3>1, SentOn
    <3> QED
      BY <1>0, <3>1, <3>2 DEF Types
  <2> QED
    BY <2>1, <2>2
<1>6. UNCHANGED <<unique_id_policy, inbox>>
  BY DEF proxy, client
<1>7. Types'
  BY <1>0, <1>1, <1>2, <1>4, <1>5, <1>6 DEF Types
<1> QED
  BY <1>1, <1>2, <1>5, <1>7, OutsideKeeps

LEMMA RoutedCallKeeps ==
  ASSUME IInv, toBus # <<>>, toBus' = Tail(toBus), UNCHANGED <<proxy, peer_serial>>,
         NEW m, m = Head(toBus), m.type = "call", m.dest # Bus, BusRoutesCall(m)
  PROVE  IInv'
<1>0. Counts /\ Tables /\ Types /\ Sound
  BY DEF IInv
<1>1. /\ m \in CallMsg /\ SoundCall(m) /\ toBus' \in Seq(ToBusMsg)
      /\ Elems(toBus)' \subseteq Elems(toBus)
  BY BusTakes
<1>2. m.dest \in Peers \cup Names /\ m.serial \in Nat /\ m.of \in Nat /\ m.no_reply \in BOOLEAN
  BY <1>1 DEF CallMsg
<1> DEFINE to == IF m.dest \in Names THEN owner[m.dest] ELSE m.dest
<1>3. UNCHANGED <<matches, owner, owned>>
  BY DEF BusRoutesCall
<1>4. UNCHANGED <<unique_id_policy, inbox>>
  BY DEF proxy, client
<1>5. ASSUME m.serial \in DOMAIN expected_client
      PROVE  expected_client[m.serial] \notin {"HELLO", "FAKE_GET_NAME_OWNER"}
  BY <1>1, <1>5 DEF SoundCall
<1>6. m.serial <= last_serial
  BY <1>1 DEF SoundCall
<1>7. CASE to \in Peers
  <2>1. /\ reached' = reached \cup {to} /\ fromBus' = fromBus
        /\ todo' \subseteq todo \cup {[to |-> to, serial |-> m.serial, of |-> m.of]}
    BY <1>2, <1>7 DEF BusRoutesCall
  <2> DEFINE c == [to |-> to, serial |-> m.serial, of |-> m.of]
  <2>2. c \in Todo /\ SoundTodo(c)
    BY <1>2, <1>5, <1>6, <1>7 DEF Todo, SoundTodo
  <2>3. MayTalk(to)
    <3>1. CASE m.dest \in Names
      <4>1. to = owner[m.dest] /\ to # NULL /\ xdg_app_proxy_get_policy(m.dest) >= TALK
        BY <1>1, <1>7, <3>1, DistinctAssumption DEF SoundCall, Ids
      <4>2. <<m.dest, to>> \in owned
        BY <1>0, <3>1, <4>1 DEF Sound
      <4> QED
        BY <3>1, <4>1, <4>2 DEF MayTalk
    <3>2. CASE m.dest \notin Names
      <4>1. to = m.dest /\ m.dest \in Peers
        BY <1>2, <3>2
      <4> QED
        BY <1>1, <4>1 DEF SoundCall
    <3> QED
      BY <3>1, <3>2
  <2> HIDE DEF to, c
  <2>4. todo' \subseteq Todo /\ \A x \in todo' : x \in todo \/ SoundTodo(x)
    BY <1>0, <2>1, <2>2 DEF Types, c
  <2>5. Types'
    BY <1>0, <1>1, <1>3, <1>4, <2>1, <2>4 DEF Types
  <2>6. Elems(fromBus)' = Elems(fromBus)
    BY <2>1 DEF Elems
  <2> QED
    BY <1>1, <1>3, <2>1, <2>3, <2>4, <2>5, <2>6, OutsideKeeps
<1>8. CASE to \notin Peers
  <2>1. /\ UNCHANGED <<reached, todo>>
        /\ fromBus' = fromBus \/ fromBus' = Append(fromBus, Error(m))
    BY <1>8 DEF BusRoutesCall
  <2> DEFINE a == Error(m)
  <2>2. a \in ReplyMsg /\ a.reply_serial = m.serial /\ a.id = NULL
    BY <1>2, ReplyFields
  <2> HIDE DEF a
  <2>3. a \in FromBusMsg /\ a \notin SignalMsg
    BY <2>2 DEF FromBusMsg, ReplyMsg, SignalMsg
  <2>4. SoundReply(a) /\ SoundSignal(a)
    BY <1>5, <1>6, <2>2, <2>3 DEF SoundReply, SoundSignal
  <2>5. fromBus \in Seq(FromBusMsg)
    BY <1>0 DEF Types
  <2>6. /\ Append(fromBus, a) \in Seq(FromBusMsg)
        /\ Elems(Append(fromBus, a)) = Elems(fromBus) \cup {a}
    BY <2>3, <2>5, ElemsAppended
  <2>7. /\ fromBus' \in Seq(FromBusMsg)
        /\ \A x \in Elems(fromBus') : x \in Elems(fromBus) \/ x = a
    BY <2>1, <2>5, <2>6 DEF a
  <2>8. SoundReply(a)' /\ SoundSignal(a)'
    BY <1>3, <2>4, SoundOutside
  <2>9. Elems(fromBus)' = Elems(fromBus')
    BY DEF Elems
  <2>10. Types'
    BY <1>0, <1>1, <1>3, <1>4, <2>1, <2>7 DEF Types
  <2> QED
    BY <1>1, <1>3, <2>1, <2>7, <2>8, <2>9, <2>10, OutsideKeeps
<1> QED
  BY <1>7, <1>8

LEMMA BusKeeps ==
  ASSUME IInv, BusHandles
  PROVE  IInv'
<1> DEFINE m == Head(toBus)
<1>1. /\ toBus # <<>> /\ toBus' = Tail(toBus) /\ UNCHANGED <<proxy, peer_serial>>
  BY DEF BusHandles
<1>2. /\ m \in ToBusMsg /\ toBus' \in Seq(ToBusMsg) /\ Elems(toBus)' \subseteq Elems(toBus)
      /\ m.type = "call" => m \in CallMsg
  BY <1>1, BusTakes
<1>3. m.type \in {"call", "return"}
  BY <1>2 DEF ToBusMsg, CallMsg, ReturnMsg
<1>4. CASE m.type = "return"
  <2>1. UNCHANGED <<matches, owner, owned, fromBus, todo, reached>>
    BY <1>4 DEF BusHandles
  <2>2. UNCHANGED <<unique_id_policy, inbox>>
    BY <1>1 DEF proxy, client
  <2>3. Types'
    BY <1>1, <1>2, <2>1, <2>2 DEF IInv, Types
  <2>4. Elems(fromBus)' = Elems(fromBus)
    BY <2>1 DEF Elems
  <2> QED
    BY <1>1, <1>2, <2>1, <2>3, <2>4, OutsideKeeps
<1>5. CASE m.type = "call" /\ m.dest = Bus
  <2>1. BusHandlesOwnCall(m)
    BY <1>5 DEF BusHandles
  <2> QED
    BY <1>1, <1>5, <2>1, OwnCallKeeps
<1>6. CASE m.type = "call" /\ m.dest # Bus
  <2>1. BusRoutesCall(m)
    BY <1>6 DEF BusHandles
  <2> QED
    BY <1>1, <1>6, <2>1, RoutedCallKeeps
<1> QED
  BY <1>3, <1>4, <1>5, <1>6

\* A message of a peer is put behind the others.
LEMMA PeerSends ==
  ASSUME IInv, UNCHANGED <<proxy, toBus, owner, matches, owned, reached>>,
         NEW x \in FromBusMsg, fromBus' = Append(fromBus, x), SoundReply(x), SoundSignal(x),
         todo' \subseteq todo, peer_serial' \in [Peers -> Nat]
  PROVE  IInv'
<1>1. UNCHANGED <<unique_id_policy, inbox>>
  BY DEF proxy, client
<1>2. fromBus \in Seq(FromBusMsg)
  BY DEF IInv, Types
<1>3. /\ Append(fromBus, x) \in Seq(FromBusMsg)
      /\ Elems(Append(fromBus, x)) = Elems(fromBus) \cup {x}
  BY <1>2, ElemsAppended
<1>4. SoundReply(x)' /\ SoundSignal(x)'
  BY SoundOutside
<1>5. Elems(fromBus)' = Elems(fromBus') /\ Elems(toBus)' = Elems(toBus)
  BY DEF Elems
<1>6. Types'
  BY <1>1, <1>3 DEF IInv, Types
<1> QED
  BY <1>3, <1>4, <1>5, <1>6, OutsideKeeps

LEMMA PeerAnswersKeeps ==
  ASSUME IInv, PeerAnswers
  PROVE  IInv'
<1>1. PICK c \in todo : todo' = todo \ {c} /\ fromBus' = Append(fromBus, Return(c, c.to, {}, NULL))
  BY DEF PeerAnswers
<1> DEFINE x == Return(c, c.to, {}, NULL)
<1>2. c.to \in Peers /\ c.serial \in Nat /\ c.of \in Nat /\ SoundTodo(c)
  BY DEF IInv, Types, Todo, Sound
<1>3. x \in ReplyMsg /\ x.reply_serial = c.serial /\ x.id = NULL
  BY <1>2, ReplyFields
<1>4. fromBus' = Append(fromBus, x)
  BY <1>1
<1> HIDE DEF x
<1>5. x \in FromBusMsg /\ x \notin SignalMsg
  BY <1>3 DEF FromBusMsg, ReplyMsg, SignalMsg
<1>6. SoundReply(x) /\ SoundSignal(x)
  BY <1>2, <1>3, <1>5 DEF SoundReply, SoundSignal, SoundTodo
<1>7. UNCHANGED <<proxy, toBus, owner, matches, owned, reached>> /\ peer_serial' \in [Peers -> Nat]
  BY DEF PeerAnswers, IInv, Types
<1> QED
  BY <1>1, <1>4, <1>5, <1>6, <1>7, PeerSends

LEMMA PeerCallsKeeps ==
  ASSUME IInv, PeerCallsClient
  PROVE  IInv'
<1>1. PICK p \in Peers, no_reply \in BOOLEAN :
        /\ peer_serial' = [peer_serial EXCEPT ![p] = @ + 1]
        /\ fromBus' = Append(fromBus, PeerCall(p, peer_serial[p] + 1, no_reply))
  BY DEF PeerCallsClient
<1> DEFINE x == PeerCall(p, peer_serial[p] + 1, no_reply)
<1>2. peer_serial \in [Peers -> Nat]
  BY DEF IInv, Types
<1>3. x \in PeerCallMsg
  BY <1>2 DEF PeerCall, PeerCallMsg
<1>4. fromBus' = Append(fromBus, x)
  BY <1>1
<1> HIDE DEF x
<1>5. x \in FromBusMsg /\ x \notin SignalMsg /\ x \notin ReplyMsg
  BY <1>3 DEF FromBusMsg, PeerCallMsg, SignalMsg, ReplyMsg
<1>6. SoundReply(x) /\ SoundSignal(x)
  BY <1>5 DEF SoundReply, SoundSignal
<1>7. peer_serial' \in [Peers -> Nat]
  BY <1>1, <1>2
<1>8. UNCHANGED <<proxy, toBus, owner, matches, owned, reached>> /\ todo' \subseteq todo
  BY DEF PeerCallsClient
<1> QED
  BY <1>4, <1>5, <1>6, <1>7, <1>8, PeerSends

LEMMA PeerBroadcastsKeeps ==
  ASSUME IInv, PeerBroadcasts
  PROVE  IInv'
<1>1. PICK p \in Peers : fromBus' = Append(fromBus, Broadcast(p))
  BY DEF PeerBroadcasts
<1> DEFINE x == Broadcast(p)
<1>2. x \in BroadcastMsg
  BY DEF Broadcast, BroadcastMsg
<1>3. fromBus' = Append(fromBus, x)
  BY <1>1
<1> HIDE DEF x
<1>4. x \in FromBusMsg /\ x \notin SignalMsg /\ x \notin ReplyMsg
  BY <1>2 DEF FromBusMsg, BroadcastMsg, SignalMsg, ReplyMsg
<1>5. SoundReply(x) /\ SoundSignal(x)
  BY <1>4 DEF SoundReply, SoundSignal
<1>6. /\ UNCHANGED <<proxy, toBus, owner, matches, owned, reached>> /\ todo' \subseteq todo
      /\ peer_serial' \in [Peers -> Nat]
  BY DEF PeerBroadcasts, IInv, Types
<1> QED
  BY <1>3, <1>4, <1>5, <1>6, PeerSends

LEMMA PeerChangesKeeps ==
  ASSUME IInv, PeerChangesOwner
  PROVE  IInv'
<1>1. PICK n \in Names, u \in Peers \cup {NULL} : SetOwner(n, u, <<>>)
  BY DEF PeerChangesOwner
<1>2. u \in Ids \cup {NULL}
  BY DEF Ids
<1>3. UNCHANGED <<proxy, toBus, matches, todo, peer_serial, reached>>
  BY DEF PeerChangesOwner
<1>4. <<>> \in Seq(FromBusMsg) /\ Elems(<<>>) = {}
  BY DEF Elems
<1>5. /\ owner' \in [Names -> Ids \cup {NULL}] /\ owned \subseteq owned'
      /\ fromBus' \in Seq(FromBusMsg)
      /\ \A x \in Elems(fromBus)' : x \in Elems(fromBus) \/ (SoundReply(x)' /\ SoundSignal(x)')
      /\ \A k \in Names : owner'[k] = owner[k] \/ owner'[k] = NULL \/ <<k, owner'[k]>> \in owned'
  BY <1>1, <1>2, <1>3, <1>4, OwnerSet
<1>6. UNCHANGED <<unique_id_policy, inbox>>
  BY <1>3 DEF proxy, client
<1>7. Types'
  BY <1>3, <1>5, <1>6 DEF IInv, Types
<1>8. Elems(toBus)' = Elems(toBus)
  BY <1>3 DEF Elems
<1> QED
  BY <1>3, <1>5, <1>7, <1>8, OutsideKeeps

-----------------------------------------------------------------------------
(* What the proxy reads from the bus.                                      *)

LEMMA HeadOfBus ==
  ASSUME IInv, fromBus # <<>>
  PROVE  /\ Head(fromBus) \in FromBusMsg
         /\ SoundReply(Head(fromBus)) /\ SoundSignal(Head(fromBus))
         /\ Tail(fromBus) \in Seq(FromBusMsg) /\ Elems(Tail(fromBus)) \subseteq Elems(fromBus)
         /\ Head(fromBus).type \in {"return", "error"} => Head(fromBus) \in ReplyMsg
         /\ Head(fromBus).type = "call" => Head(fromBus) \in PeerCallMsg
         /\ Head(fromBus).type = "signal" => Head(fromBus) \in SignalMsg
         /\ Head(fromBus).type = "broadcast" => Head(fromBus) \in BroadcastMsg
         /\ Head(fromBus).type \in {"return", "error", "call", "signal", "broadcast"}
<1>1. fromBus \in Seq(FromBusMsg)
  BY DEF IInv, Types
<1>2. /\ Head(fromBus) \in Elems(fromBus) /\ Head(fromBus) \in FromBusMsg
      /\ Tail(fromBus) \in Seq(FromBusMsg) /\ Elems(Tail(fromBus)) \subseteq Elems(fromBus)
  BY <1>1, ElemsPopped
<1>3. SoundReply(Head(fromBus)) /\ SoundSignal(Head(fromBus))
  BY <1>2 DEF IInv, Sound
<1>4. ASSUME NEW m \in FromBusMsg
      PROVE  /\ m.type \in {"return", "error"} => m \in ReplyMsg
             /\ m.type = "call" => m \in PeerCallMsg
             /\ m.type = "signal" => m \in SignalMsg
             /\ m.type = "broadcast" => m \in BroadcastMsg
             /\ m.type \in {"return", "error", "call", "signal", "broadcast"}
  BY DEF FromBusMsg, ReplyMsg, PeerCallMsg, SignalMsg, BroadcastMsg
<1> QED
  BY <1>2, <1>3, <1>4

\* A step that takes a message of the bus keeps what it does not touch.
LEMMA ReadKeeps ==
  ASSUME IInv, fromBus # <<>>, fromBus' = Tail(fromBus), UNCHANGED bus,
         Counts', Tables', Later,
         toBus' \in Seq(ToBusMsg),
         \A x \in Elems(toBus)' : x \in Elems(toBus) \/ SoundCall(x)',
         unique_id_policy' \in [Ids -> Levels],
         inbox' \subseteq [sender : Peers, serial : Nat],
         senders \subseteq senders',
         \A u \in Ids : \A level : unique_id_policy'[u] = level =>
           unique_id_policy[u] = level \/ MayBe(u, level)',
         \A u \in heard' : u \in heard \/ MayTalk(u)
  PROVE  IInv'
<1>0. Counts /\ Tables /\ Types /\ Sound /\ VisibilityJustified
  BY DEF IInv
<1>1. UNCHANGED <<owner, matches, todo, peer_serial, owned, reached>>
  BY DEF bus
<1>2. fromBus' \in Seq(FromBusMsg) /\ Elems(fromBus') \subseteq Elems(fromBus)
  BY HeadOfBus
<1>3. Elems(fromBus)' = Elems(fromBus')
  BY DEF Elems
<1>4. Types'
  BY <1>0, <1>1, <1>2 DEF Types
<1>5. Sound'
  BY <1>1, <1>2, <1>3, SoundAfter
<1>6. VisibilityJustified'
  BY <1>0, <1>1, VisibilityKept
<1> QED
  BY <1>4, <1>5, <1>6 DEF IInv

\* A reply that came is expected no more.
LEMMA EntryDropped ==
  ASSUME Counts, Tables, UNCHANGED <<last_serial, owned>>, NEW s, s \in DOMAIN expected_client,
         expected_client' = Without(expected_client, s),
         rewrite_reply' = IF expected_client[s] = "REWRITE" THEN Without(rewrite_reply, s)
                          ELSE rewrite_reply,
         get_owner_reply' = IF expected_client[s] = "FAKE_GET_NAME_OWNER"
                            THEN Without(get_owner_reply, s) ELSE get_owner_reply
  PROVE  Tables' /\ Later
<1>1. /\ DOMAIN expected_client' = DOMAIN expected_client \ {s}
      /\ \A x \in DOMAIN expected_client \ {s} : expected_client'[x] = expected_client[x]
  BY Removed
<1>2. /\ DOMAIN rewrite_reply = {x \in DOMAIN expected_client : expected_client[x] = "REWRITE"}
      /\ DOMAIN get_owner_reply = {x \in DOMAIN expected_client :
                                     expected_client[x] = "FAKE_GET_NAME_OWNER"}
  BY DEF Tables
<1>3. DOMAIN rewrite_reply' = DOMAIN rewrite_reply \ {s}
  BY <1>2, Removed
<1>4. /\ DOMAIN get_owner_reply' = DOMAIN get_owner_reply \ {s}
      /\ \A x \in DOMAIN get_owner_reply' : get_owner_reply'[x] = get_owner_reply[x]
  <2>1. CASE expected_client[s] = "FAKE_GET_NAME_OWNER"
    BY <2>1, Removed
  <2>2. CASE expected_client[s] # "FAKE_GET_NAME_OWNER"
    BY <1>2, <2>2
  <2> QED
    BY <2>1, <2>2
<1>5. last_serial \in Nat
  BY DEF Counts
<1>6. Tables'
  BY <1>1, <1>2, <1>3, <1>4 DEF Tables
<1>7. Later
  BY <1>1, <1>4, <1>5 DEF Later
<1> QED
  BY <1>6, <1>7

LEMMA ReplyForClientKeeps ==
  ASSUME IInv, NEW m \in ReplyMsg, SoundReply(m), fromBus # <<>>, fromBus' = Tail(fromBus),
         m.reply_serial \in DOMAIN expected_client,
         ReplyForClient(m, expected_client[m.reply_serial]),
         UNCHANGED <<in_loop, closed, bus>>
  PROVE  IInv'
<1> DEFINE type == expected_client[m.reply_serial]
<1>0. Counts /\ Tables /\ Types /\ Sound /\ VisibilityJustified
  BY DEF IInv
<1>1. /\ m.sender \in Peers \cup {Bus} /\ m.id \in Ids \cup {NULL} /\ m.reply_serial \in Nat
  BY DEF ReplyMsg
<1>2. /\ type \in {"NORMAL", "HELLO", "LIST_NAMES", "REWRITE"}
      /\ rewrite_reply' = IF type = "REWRITE" THEN Without(rewrite_reply, m.reply_serial)
                          ELSE rewrite_reply
      /\ expected_client' = Without(expected_client, m.reply_serial)
      /\ UNCHANGED <<get_owner_reply, serials, reading, toBus>>
  BY DEF ReplyForClient
<1>3. /\ senders' = senders \cup ({m.sender} \cap Peers)
      /\ UNCHANGED <<client_serial, reused, inbox, heard>>
  BY <1>2 DEF ReplyForClient, DeliverReply
<1>4. UNCHANGED <<serial_offset, last_serial, hello_serial, owned, owner, matches, todo,
                  peer_serial, reached>>
  BY <1>2 DEF serials, bus
<1>5. Counts'
  BY <1>0, <1>2, <1>3, <1>4 DEF Counts
<1>6. Tables' /\ Later
  <2>1. type # "FAKE_GET_NAME_OWNER"
    BY <1>2
  <2> QED
    BY <1>0, <1>2, <1>4, <2>1, EntryDropped
<1>7. Elems(toBus)' = Elems(toBus)
  BY <1>2 DEF Elems
<1>8. /\ unique_id_policy' \in [Ids -> Levels]
      /\ \A u \in Ids : \A level : unique_id_policy'[u] = level =>
           unique_id_policy[u] = level \/ MayBe(u, level)'
  <2>1. unique_id_policy \in [Ids -> Levels]
    BY <1>0 DEF Types
  <2>2. CASE type = "HELLO"
    <3>1. m.id = Me /\ Me \in Ids
      BY <2>2 DEF SoundReply, Ids
    <3>2. unique_id_policy' = update_unique_id_policy(unique_id_policy, Me, TALK)
      BY <2>2, <3>1 DEF ReplyForClient
    <3>3. TALK \in Levels /\ TALK <= TALK
      BY DEF TALK, Levels, NONE, OWN
    <3>4. /\ unique_id_policy' \in [Ids -> Levels]
          /\ \A u \in Ids : \/ unique_id_policy'[u] = unique_id_policy[u]
                            \/ u = Me /\ unique_id_policy'[u] = TALK
      BY <2>1, <3>2, <3>3, Updated
    <3> QED
      BY <3>3, <3>4 DEF MayBe
  <2>3. CASE type # "HELLO"
    <3>1. unique_id_policy' = SeeSender(unique_id_policy, m)
      BY <2>3 DEF ReplyForClient
    <3>2. /\ unique_id_policy' \in [Ids -> Levels]
          /\ \A u \in Ids : \/ unique_id_policy'[u] = unique_id_policy[u]
                            \/ u = m.sender /\ u \in Peers /\ unique_id_policy'[u] = SEE
      BY <1>1, <2>1, <3>1, Seen
    <3>3. SEE <= SEE
      BY DEF SEE
    <3> QED
      BY <1>3, <3>2, <3>3 DEF MayBe
  <2> QED
    BY <2>2, <2>3
<1>9. toBus' \in Seq(ToBusMsg) /\ inbox' \subseteq [sender : Peers, serial : Nat]
  BY <1>0, <1>2, <1>3 DEF Types
<1> QED
  BY <1>3, <1>5, <1>6, <1>7, <1>8, <1>9, ReadKeeps

LEMMA FilterReplyKeeps ==
  ASSUME IInv, NEW m \in ReplyMsg, fromBus # <<>>, fromBus' = Tail(fromBus),
         m.reply_serial \in DOMAIN expected_client, expected_client[m.reply_serial] = "FILTER",
         expected_client' = Without(expected_client, m.reply_serial),
         UNCHANGED <<unique_id_policy, rewrite_reply, get_owner_reply, serials, reading, toBus,
                     client, in_loop, closed, bus>>
  PROVE  IInv'
<1>0. Counts /\ Tables /\ Types /\ Sound /\ VisibilityJustified
  BY DEF IInv
<1>1. UNCHANGED <<serial_offset, last_serial, hello_serial, owned, client_serial, reused, inbox,
                  senders, heard>>
  BY DEF serials, bus, client
<1>2. Counts'
  BY <1>0, <1>1 DEF Counts
<1>3. Tables' /\ Later
  BY <1>0, <1>1, EntryDropped
<1>4. Elems(toBus)' = Elems(toBus)
  BY DEF Elems
<1>5. /\ unique_id_policy' \in [Ids -> Levels]
      /\ toBus' \in Seq(ToBusMsg) /\ inbox' \subseteq [sender : Peers, serial : Nat]
  BY <1>0, <1>1 DEF Types
<1> QED
  BY <1>1, <1>2, <1>3, <1>4, <1>5, ReadKeeps

LEMMA OwnerReplyKeeps ==
  ASSUME IInv, NEW m \in ReplyMsg, SoundReply(m), fromBus # <<>>, fromBus' = Tail(fromBus),
         m.reply_serial \in DOMAIN expected_client,
         expected_client[m.reply_serial] = "FAKE_GET_NAME_OWNER",
         unique_id_policy' = update_unique_id_policy_from_name(
           unique_id_policy, m.id, get_owner_reply[m.reply_serial]),
         get_owner_reply' = AfterOwnerReply(m),
         expected_client' = Without(expected_client, m.reply_serial),
         UNCHANGED <<rewrite_reply, serials, reading, toBus, client, in_loop, closed, bus>>
  PROVE  IInv'
<1>0. Counts /\ Tables /\ Types /\ Sound /\ VisibilityJustified
  BY DEF IInv
<1>1. UNCHANGED <<serial_offset, last_serial, hello_serial, owned, client_serial, reused, inbox,
                  senders, heard>>
  BY DEF serials, bus, client
<1>2. Counts'
  BY <1>0, <1>1 DEF Counts
<1>3. Tables' /\ Later
  BY <1>0, <1>1, EntryDropped DEF AfterOwnerReply
<1>4. Elems(toBus)' = Elems(toBus)
  BY DEF Elems
<1> DEFINE n == get_owner_reply[m.reply_serial]
<1>5. n \in Names /\ m.id \in Ids \cup {NULL} /\ (m.id = NULL \/ <<n, m.id>> \in owned)
  BY <1>0 DEF Tables, SoundReply, ReplyMsg
<1>6. /\ unique_id_policy' \in [Ids -> Levels]
      /\ \A u \in Ids : \A level : unique_id_policy'[u] = level =>
           unique_id_policy[u] = level \/ MayBe(u, level)'
  <2>1. unique_id_policy \in [Ids -> Levels]
    BY <1>0 DEF Types
  <2>2. PICK name \in Names, id \in Ids \cup {NULL} : name = n /\ id = m.id
    BY <1>5
  <2>2a. unique_id_policy' = update_unique_id_policy_from_name(unique_id_policy, id, name)
    BY <2>2
  <2> HIDE DEF n
  <2>3. /\ unique_id_policy' \in [Ids -> Levels]
        /\ \A u \in Ids : \/ unique_id_policy'[u] = unique_id_policy[u]
                          \/ id # NULL /\ u = id
                               /\ unique_id_policy'[u] = xdg_app_proxy_get_policy(name)
    <3>1. RaisedTo(update_unique_id_policy_from_name(unique_id_policy, id, name),
                   unique_id_policy, id, name)
      BY <2>1, UpdatedFromName
    <3>2. RaisedTo(unique_id_policy', unique_id_policy, id, name)
      BY <2>2a, <3>1
    <3> QED
      BY <3>2 DEF RaisedTo
  <2>4. xdg_app_proxy_get_policy(name) <= xdg_app_proxy_get_policy(name)
    BY PolicyRange DEF Levels, NONE, OWN
  <2>5. id = NULL \/ <<name, id>> \in owned'
    BY <1>1, <1>5, <2>2
  <2> QED
    BY <2>3, <2>4, <2>5 DEF MayBe
<1>7. toBus' \in Seq(ToBusMsg) /\ inbox' \subseteq [sender : Peers, serial : Nat]
  BY <1>0, <1>1 DEF Types
<1> QED
  BY <1>1, <1>2, <1>3, <1>4, <1>6, <1>7, ReadKeeps

\* What the questions for listed names do to the tables.
LEMMA QuestionsTables ==
  ASSUME Counts, Tables, NEW s, s \in DOMAIN expected_client,
         expected_client[s] = "FAKE_LIST_NAMES", UNCHANGED <<rewrite_reply, owned>>,
         NEW ops \in Seq(FakeOps),
         Queued(ops, last_serial, toBus, Without(expected_client, s)),
         \A i \in 1 .. Len(ops) : ops[i].member = "GetNameOwner"
  PROVE  Tables' /\ Later
<1>1. /\ last_serial \in Nat /\ Len(ops) \in Nat /\ last_serial' = last_serial + Len(ops)
      /\ last_serial' \in Nat /\ last_serial <= last_serial'
  <2>1. last_serial \in Nat /\ Len(ops) \in Nat /\ last_serial' = last_serial + Len(ops)
    BY DEF Counts, Queued
  <2> QED
    BY <2>1
<1>1a. Len(ops) \in Nat
  BY <1>1
<1>2. /\ DOMAIN expected_client \subseteq 1 .. last_serial
      /\ \A x \in DOMAIN expected_client : expected_client[x] \in ClientKinds \cup OwnKinds
      /\ DOMAIN rewrite_reply = {x \in DOMAIN expected_client : expected_client[x] = "REWRITE"}
      /\ DOMAIN get_owner_reply = {x \in DOMAIN expected_client :
                                     expected_client[x] = "FAKE_GET_NAME_OWNER"}
      /\ \A x \in DOMAIN get_owner_reply : get_owner_reply[x] \in Names
  BY DEF Tables
<1> DEFINE kept == Without(expected_client, s)
<1>3. /\ DOMAIN kept = DOMAIN expected_client \ {s}
      /\ \A x \in DOMAIN expected_client \ {s} : kept[x] = expected_client[x]
  BY Removed
<1>4. /\ DOMAIN expected_client' = DOMAIN kept \cup (last_serial + 1 .. last_serial + Len(ops))
      /\ \A x \in DOMAIN kept : expected_client'[x] = kept[x]
      /\ \A i \in 1 .. Len(ops) : expected_client'[last_serial + i] = ops[i].type
      /\ DOMAIN get_owner_reply' = DOMAIN get_owner_reply \cup
           {last_serial + i : i \in {i \in 1 .. Len(ops) : ops[i].member = "GetNameOwner"}}
      /\ \A x \in DOMAIN get_owner_reply : get_owner_reply'[x] = get_owner_reply[x]
      /\ \A i \in 1 .. Len(ops) : ops[i].member = "GetNameOwner" =>
           get_owner_reply'[last_serial + i] = ops[i].arg
  BY DEF Queued
<1> HIDE DEF kept
<1>5. \A i \in 1 .. Len(ops) :
        /\ ops[i].member = "GetNameOwner" /\ ops[i].type = "FAKE_GET_NAME_OWNER"
        /\ ops[i].arg \in Names
  <2> SUFFICES ASSUME NEW i \in 1 .. Len(ops)
               PROVE  /\ ops[i].type = "FAKE_GET_NAME_OWNER" /\ ops[i].arg \in Names
    OBVIOUS
  <2>1. ops[i] \in FakeOps
    BY <1>1a
  <2>2. ops[i].member = "GetNameOwner"
    OBVIOUS
  <2> QED
    BY <2>1, <2>2, OpKinds
<1>6. ASSUME NEW x \in last_serial + 1 .. last_serial + Len(ops)
      PROVE  \E i \in 1 .. Len(ops) : x = last_serial + i
  <2>1. x - last_serial \in 1 .. Len(ops) /\ x = last_serial + (x - last_serial)
    BY <1>1, <1>1a
  <2> QED
    BY <2>1
<1>7. \A i \in 1 .. Len(ops) :
        /\ last_serial + i \in last_serial + 1 .. last_serial + Len(ops)
        /\ last_serial + i \notin DOMAIN expected_client
        /\ last_serial + i \in 1 .. last_serial' /\ ~(last_serial + i <= last_serial)
  BY <1>1, <1>1a, <1>2
<1>8. \A x \in 1 .. last_serial : x \in 1 .. last_serial'
  BY <1>1
<1>9. DOMAIN get_owner_reply' = DOMAIN get_owner_reply \cup {last_serial + i : i \in 1 .. Len(ops)}
  BY <1>4, <1>5
<1>10. \A x \in DOMAIN expected_client' :
         \/ x \in DOMAIN expected_client \ {s} /\ expected_client'[x] = expected_client[x]
         \/ \E i \in 1 .. Len(ops) : x = last_serial + i /\ expected_client'[x] = ops[i].type
  BY <1>3, <1>4, <1>6
<1>11. \A i \in 1 .. Len(ops) : /\ last_serial + i \in DOMAIN expected_client'
                                /\ expected_client'[last_serial + i] = "FAKE_GET_NAME_OWNER"
                                /\ get_owner_reply'[last_serial + i] \in Names
  BY <1>4, <1>5, <1>7
<1>12. /\ DOMAIN expected_client' \subseteq 1 .. last_serial'
       /\ \A x \in DOMAIN expected_client' : expected_client'[x] \in ClientKinds \cup OwnKinds
  BY <1>2, <1>5, <1>7, <1>8, <1>10 DEF OwnKinds
<1>13. DOMAIN rewrite_reply' = {x \in DOMAIN expected_client' : expected_client'[x] = "REWRITE"}
  <2>1. ASSUME NEW x \in DOMAIN rewrite_reply
        PROVE  x \in DOMAIN expected_client' /\ expected_client'[x] = "REWRITE"
    BY <1>2, <1>3, <1>4
  <2>2. ASSUME NEW x \in DOMAIN expected_client', expected_client'[x] = "REWRITE"
        PROVE  x \in DOMAIN rewrite_reply
    BY <1>2, <1>5, <1>10, <2>2
  <2> QED
    BY <2>1, <2>2
<1>14. DOMAIN get_owner_reply' = {x \in DOMAIN expected_client' :
                                    expected_client'[x] = "FAKE_GET_NAME_OWNER"}
  <2>1. ASSUME NEW x \in DOMAIN get_owner_reply'
        PROVE  x \in DOMAIN expected_client' /\ expected_client'[x] = "FAKE_GET_NAME_OWNER"
    <3>1. CASE x \in DOMAIN get_owner_reply
      BY <1>2, <1>3, <1>4, <3>1
    <3>2. CASE \E i \in 1 .. Len(ops) : x = last_serial + i
      BY <1>11, <3>2
    <3> QED
      BY <1>9, <3>1, <3>2
  <2>2. ASSUME NEW x \in DOMAIN expected_client', expected_client'[x] = "FAKE_GET_NAME_OWNER"
        PROVE  x \in DOMAIN get_owner_reply'
    BY <1>2, <1>9, <1>10, <2>2
  <2> QED
    BY <2>1, <2>2
<1>15. \A x \in DOMAIN get_owner_reply' : get_owner_reply'[x] \in Names
  BY <1>2, <1>4, <1>9, <1>11
<1>16. Later
  <2>1. \A x \in DOMAIN expected_client' : x <= last_serial =>
          x \in DOMAIN expected_client /\ expected_client'[x] = expected_client[x]
    BY <1>7, <1>10
  <2>2. \A x \in DOMAIN get_owner_reply' : x <= last_serial =>
          get_owner_reply'[x] = get_owner_reply[x]
    BY <1>4, <1>7, <1>9
  <2> QED
    BY <1>1, <2>1, <2>2 DEF Later
<1> QED
  BY <1>12, <1>13, <1>14, <1>15, <1>16 DEF Tables

LEMMA ListReplyKeeps ==
  ASSUME IInv, NEW m \in ReplyMsg, fromBus # <<>>, fromBus' = Tail(fromBus),
         m.reply_serial \in DOMAIN expected_client,
         expected_client[m.reply_serial] = "FAKE_LIST_NAMES",
         NEW order \in Orders(WildcardNames(m.names)),
         queue_fake_messages(queue_wildcard_initial_name_ops(order), last_serial,
                             toBus, Without(expected_client, m.reply_serial)),
         reading' = TRUE,
         UNCHANGED <<unique_id_policy, hello_serial, rewrite_reply, client, in_loop, closed, bus>>
  PROVE  IInv'
<1>0. Counts /\ Tables /\ Types /\ Sound /\ VisibilityJustified
  BY DEF IInv
<1>1. UNCHANGED <<owned, client_serial, reused, inbox, senders, heard>>
  BY DEF bus, client
<1>2. order \in Seq(Names)
  <2>1. WildcardNames(m.names) \subseteq Names
    BY DEF WildcardNames
  <2>2. IsFiniteSet(WildcardNames(m.names))
    BY <2>1, FiniteAssumption, FS_Subset
  <2>3. order \in Seq(WildcardNames(m.names))
    BY <2>2, OrderOf
  <2> QED
    BY <2>1, <2>3
<1>3. PICK ops : ops = queue_wildcard_initial_name_ops(order)
  OBVIOUS
<1>4. /\ ops \in Seq(FakeOps) /\ Len(ops) = Len(order) /\ Len(order) \in Nat
      /\ \A i \in 1 .. Len(order) : ops[i] = Fake("GetNameOwner", order[i], "FAKE_GET_NAME_OWNER")
  BY <1>2, <1>3, QuestionOps
<1>5. \A i \in 1 .. Len(ops) : ops[i].member = "GetNameOwner"
  <2>1. \A x : Fake("GetNameOwner", x, "FAKE_GET_NAME_OWNER").member = "GetNameOwner"
    BY DEF Fake
  <2> QED
    BY <1>4, <2>1
<1> DEFINE kept == Without(expected_client, m.reply_serial)
<1>6. queue_fake_messages(ops, last_serial, toBus, kept)
  BY <1>3
<1>7. /\ last_serial \in Nat /\ toBus \in Seq(ToBusMsg)
      /\ DOMAIN kept \subseteq 1 .. last_serial /\ DOMAIN get_owner_reply \subseteq 1 .. last_serial
  <2>1. DOMAIN kept = DOMAIN expected_client \ {m.reply_serial}
    BY Removed
  <2> QED
    BY <1>0, <2>1 DEF Counts, Tables, Types
<1>8. Queued(ops, last_serial, toBus, kept)
  <2> HIDE DEF kept
  <2> QED
    BY <1>4, <1>6, <1>7, QueueFakes
<1>9. Tables' /\ Later
  BY <1>0, <1>1, <1>4, <1>5, <1>8, QuestionsTables
<1> HIDE DEF kept
<1>10. Counts'
  <2>1. Len(ops) \in Nat
    BY <1>4
  <2>2. last_serial' = last_serial + Len(ops) /\ serial_offset' = serial_offset + Len(ops)
    BY <1>8 DEF Queued
  <2>3. /\ serial_offset' \in Nat /\ last_serial' \in Nat
        /\ last_serial' = client_serial + serial_offset'
    BY <1>0, <2>1, <2>2 DEF Counts
  <2> QED
    BY <1>0, <1>1, <2>3 DEF Counts
<1> DEFINE asks == AsksFor(last_serial, ops)
<1>11. /\ last_serial' = last_serial + Len(ops)
       /\ toBus' = toBus \o asks /\ asks \in Seq(ToBusMsg)
       /\ \A i \in 1 .. Len(ops) : expected_client'[last_serial + i] = ops[i].type
       /\ \A i \in 1 .. Len(ops) : ops[i].member = "GetNameOwner" =>
            get_owner_reply'[last_serial + i] = ops[i].arg
  BY <1>8 DEF Queued
<1>12. \A x \in Elems(asks) : SoundCall(x)'
  BY <1>4, <1>7, <1>11, AsksAreSound
<1> HIDE DEF asks
<1>13. toBus \o asks \in Seq(ToBusMsg) /\ Elems(toBus \o asks) = Elems(toBus) \cup Elems(asks)
  BY <1>7, <1>11, ElemsJoined
<1>14. toBus' \in Seq(ToBusMsg) /\ Elems(toBus') = Elems(toBus) \cup Elems(asks)
  BY <1>11, <1>13
<1>15. Elems(toBus)' = Elems(toBus')
  BY DEF Elems
<1>16. unique_id_policy' \in [Ids -> Levels] /\ inbox' \subseteq [sender : Peers, serial : Nat]
  BY <1>0, <1>1 DEF Types
<1> QED
  BY <1>1, <1>9, <1>10, <1>12, <1>14, <1>15, <1>16, ReadKeeps

LEMMA GotReplyKeeps ==
  ASSUME IInv, NEW m \in ReplyMsg, SoundReply(m), fromBus # <<>>, fromBus' = Tail(fromBus),
         got_reply_from_bus(m), UNCHANGED <<in_loop, closed, bus>>
  PROVE  IInv'
<1> DEFINE s == m.reply_serial
<1>1. CASE /\ s \notin DOMAIN expected_client
           /\ UNCHANGED <<tables, serials, unique_id_policy, reading, toBus, client>>
  <2>1. UNCHANGED <<expected_client, rewrite_reply, get_owner_reply, serial_offset, last_serial,
                    hello_serial, owned, client_serial, reused, inbox, senders, heard>>
    BY <1>1 DEF tables, serials, bus, client
  <2>2. Counts' /\ Tables' /\ Later
    BY <1>1, <2>1 DEF IInv, Counts, Tables, Later
  <2>3. Elems(toBus)' = Elems(toBus)
    BY <1>1 DEF Elems
  <2>4. /\ unique_id_policy' \in [Ids -> Levels]
        /\ toBus' \in Seq(ToBusMsg) /\ inbox' \subseteq [sender : Peers, serial : Nat]
    BY <1>1, <2>1 DEF IInv, Types
  <2>5. unique_id_policy' = unique_id_policy
    BY <1>1
  <2> QED
    BY <2>1, <2>2, <2>3, <2>4, <2>5, ReadKeeps
<1>2. CASE s \in DOMAIN expected_client /\ ReplyForClient(m, expected_client[s])
  BY <1>2, ReplyForClientKeeps
<1>3. CASE /\ s \in DOMAIN expected_client /\ ReplyForProxy(m, expected_client[s])
           /\ UNCHANGED <<rewrite_reply, client>>
  <2> DEFINE type == expected_client[s]
  <2>1. CASE /\ type = "FILTER"
             /\ expected_client' = Without(expected_client, s)
             /\ UNCHANGED <<unique_id_policy, get_owner_reply, serials, reading, toBus>>
    BY <1>3, <2>1, FilterReplyKeeps
  <2>2. CASE /\ type = "FAKE_GET_NAME_OWNER"
             /\ unique_id_policy' = update_unique_id_policy_from_name(
                  unique_id_policy, m.id, get_owner_reply[s])
             /\ get_owner_reply' = AfterOwnerReply(m)
             /\ expected_client' = Without(expected_client, s)
             /\ UNCHANGED <<serials, reading, toBus>>
    BY <1>3, <2>2, OwnerReplyKeeps
  <2>3. CASE /\ type = "FAKE_LIST_NAMES"
             /\ \E order \in Orders(WildcardNames(m.names)) :
                  queue_fake_messages(queue_wildcard_initial_name_ops(order), last_serial,
                                      toBus, Without(expected_client, s))
             /\ reading' = TRUE
             /\ UNCHANGED <<unique_id_policy, hello_serial>>
    BY <1>3, <2>3, ListReplyKeeps
  <2> QED
    BY <1>3, <2>1, <2>2, <2>3 DEF ReplyForProxy
<1> QED
  BY <1>1, <1>2, <1>3 DEF got_reply_from_bus

LEMMA GotCallKeeps ==
  ASSUME IInv, NEW m \in PeerCallMsg, fromBus # <<>>, fromBus' = Tail(fromBus),
         got_call_from_bus(m), UNCHANGED <<in_loop, closed, bus>>
  PROVE  IInv'
<1>1. /\ unique_id_policy' = SeeSender(unique_id_policy, m)
      /\ inbox' = IF m.no_reply THEN inbox
                  ELSE inbox \cup {[sender |-> m.sender, serial |-> m.serial]}
      /\ senders' = senders \cup {m.sender}
      /\ UNCHANGED <<tables, serials, reading, toBus, client_serial, reused, heard>>
  BY DEF got_call_from_bus
<1>2. UNCHANGED <<expected_client, rewrite_reply, get_owner_reply, serial_offset, last_serial,
                  hello_serial, owned>>
  BY <1>1 DEF tables, serials, bus
<1>3. Counts' /\ Tables' /\ Later
  BY <1>1, <1>2 DEF IInv, Counts, Tables, Later
<1>4. Elems(toBus)' = Elems(toBus)
  BY <1>1 DEF Elems
<1>5. m.sender \in Peers /\ m.serial \in Nat
  BY DEF PeerCallMsg
<1>6. toBus' \in Seq(ToBusMsg) /\ inbox' \subseteq [sender : Peers, serial : Nat]
  BY <1>1, <1>5 DEF IInv, Types
<1>7. unique_id_policy \in [Ids -> Levels] /\ SEE <= SEE
  BY DEF IInv, Types, SEE
<1>8. /\ unique_id_policy' \in [Ids -> Levels]
      /\ \A u \in Ids : \/ unique_id_policy'[u] = unique_id_policy[u]
                        \/ u = m.sender /\ u \in Peers /\ unique_id_policy'[u] = SEE
  BY <1>1, <1>5, <1>7, Seen
<1>9. \A u \in Ids : \A level : unique_id_policy'[u] = level =>
        unique_id_policy[u] = level \/ MayBe(u, level)'
  BY <1>1, <1>7, <1>8 DEF MayBe
<1> QED
  BY <1>1, <1>3, <1>4, <1>6, <1>8, <1>9, ReadKeeps

LEMMA GotOwnerChangedKeeps ==
  ASSUME IInv, NEW m \in SignalMsg, SoundSignal(m), fromBus # <<>>, fromBus' = Tail(fromBus),
         got_name_owner_changed(m), UNCHANGED <<in_loop, closed, bus>>
  PROVE  IInv'
<1>1. UNCHANGED <<tables, serials, reading, toBus, client_serial, reused, inbox, senders, heard>>
  BY DEF got_name_owner_changed
<1>2. UNCHANGED <<expected_client, rewrite_reply, get_owner_reply, serial_offset, last_serial,
                  hello_serial, owned>>
  BY <1>1 DEF tables, serials, bus
<1>3. Counts' /\ Tables' /\ Later
  BY <1>1, <1>2 DEF IInv, Counts, Tables, Later
<1>4. Elems(toBus)' = Elems(toBus)
  BY <1>1 DEF Elems
<1>5. toBus' \in Seq(ToBusMsg) /\ inbox' \subseteq [sender : Peers, serial : Nat]
  BY <1>1 DEF IInv, Types
<1>6. unique_id_policy \in [Ids -> Levels]
  BY DEF IInv, Types
<1>7. /\ m.name \in Names /\ m.old \in Ids \cup {NULL} /\ m.new \in Ids \cup {NULL}
      /\ m.old = NULL \/ <<m.name, m.old>> \in owned
      /\ m.new = NULL \/ <<m.name, m.new>> \in owned
  BY DEF SignalMsg, SoundSignal
<1> DEFINE level == xdg_app_proxy_get_policy(m.name)
<1>8. level <= level
  BY <1>7, PolicyRange DEF Levels, NONE, OWN
<1>9. /\ unique_id_policy' \in [Ids -> Levels]
      /\ \A u \in Ids : \A l : unique_id_policy'[u] = l =>
           unique_id_policy[u] = l \/ MayBe(u, l)'
  <2>1. CASE should_filter_name_owner_changed(m)
    BY <1>6, <2>1 DEF got_name_owner_changed
  <2>2. CASE ~should_filter_name_owner_changed(m)
    <3>1. PICK mid : mid = update_unique_id_policy_from_name(unique_id_policy, m.old, m.name)
      OBVIOUS
    <3>2. unique_id_policy' = update_unique_id_policy_from_name(mid, m.new, m.name)
      BY <2>2, <3>1 DEF got_name_owner_changed
    <3>3. RaisedTo(mid, unique_id_policy, m.old, m.name)
      BY <1>6, <1>7, <3>1, UpdatedFromName
    <3>4. mid \in [Ids -> Levels]
      BY <3>3 DEF RaisedTo
    <3>5. RaisedTo(unique_id_policy', mid, m.new, m.name)
      BY <1>7, <3>2, <3>4, UpdatedFromName
    <3>6. \A u \in Ids : \/ unique_id_policy'[u] = unique_id_policy[u]
                         \/ m.old # NULL /\ u = m.old /\ unique_id_policy'[u] = level
                         \/ m.new # NULL /\ u = m.new /\ unique_id_policy'[u] = level
      BY <3>3, <3>5 DEF RaisedTo
    <3>7. unique_id_policy' \in [Ids -> Levels]
      BY <3>5 DEF RaisedTo
    <3> HIDE DEF level
    <3>8. \A u \in Ids : \/ unique_id_policy'[u] = unique_id_policy[u]
                         \/ /\ <<m.name, u>> \in owned' /\ unique_id_policy'[u] = level
      BY <1>2, <1>7, <3>6
    <3>9. \A u : <<m.name, u>> \in owned' => MayBe(u, level)'
      BY <1>7, <1>8 DEF MayBe, level
    <3> QED
      BY <3>7, <3>8, <3>9
  <2> QED
    BY <2>1, <2>2
<1> QED
  BY <1>1, <1>3, <1>4, <1>5, <1>9, ReadKeeps

LEMMA GotBroadcastKeeps ==
  ASSUME IInv, NEW m \in BroadcastMsg, fromBus # <<>>, fromBus' = Tail(fromBus),
         got_broadcast(m), UNCHANGED <<in_loop, closed, bus>>
  PROVE  IInv'
<1>1. UNCHANGED <<tables, serials, unique_id_policy, reading, toBus, client_serial, reused,
                  inbox, senders>>
  BY DEF got_broadcast
<1>2. UNCHANGED <<expected_client, rewrite_reply, get_owner_reply, serial_offset, last_serial,
                  hello_serial, owned>>
  BY <1>1 DEF tables, serials, bus
<1>3. Counts' /\ Tables' /\ Later
  BY <1>1, <1>2 DEF IInv, Counts, Tables, Later
<1>4. Elems(toBus)' = Elems(toBus)
  BY <1>1 DEF Elems
<1>5. /\ toBus' \in Seq(ToBusMsg) /\ inbox' \subseteq [sender : Peers, serial : Nat]
      /\ unique_id_policy' \in [Ids -> Levels] /\ unique_id_policy' = unique_id_policy
  BY <1>1 DEF IInv, Types
<1>6. m.sender \in Peers
  BY DEF BroadcastMsg
<1>7. \A u \in heard' : u \in heard \/ MayTalk(u)
  <2>1. CASE xdg_app_proxy_client_get_policy(m.sender) < TALK
    BY <2>1 DEF got_broadcast
  <2>2. CASE ~(xdg_app_proxy_client_get_policy(m.sender) < TALK)
    <3>1. xdg_app_proxy_client_get_policy(m.sender) = unique_id_policy[m.sender]
      BY <1>6, SourcePolicy DEF Ids
    <3>2. unique_id_policy \in [Ids -> Levels] /\ VisibilityJustified
      BY DEF IInv, Types
    <3>3. unique_id_policy[m.sender] >= TALK
      BY <1>6, <2>2, <3>1, <3>2 DEF Ids, Levels, NONE, OWN, TALK
    <3>4. MayTalk(m.sender)
      BY <1>6, <3>2, <3>3, TalkedTo
    <3>5. heard' = heard \cup {m.sender}
      BY <2>2 DEF got_broadcast
    <3> QED
      BY <3>4, <3>5
  <2> QED
    BY <2>1, <2>2
<1> QED
  BY <1>1, <1>3, <1>4, <1>5, <1>7, ReadKeeps

LEMMA BusReadKeeps ==
  ASSUME IInv, got_buffer_from_bus
  PROVE  IInv'
<1> DEFINE m == Head(fromBus)
<1>1. fromBus # <<>> /\ fromBus' = Tail(fromBus) /\ UNCHANGED <<in_loop, closed, bus>>
  BY DEF got_buffer_from_bus
<1>2. /\ SoundReply(m) /\ SoundSignal(m)
      /\ m.type \in {"return", "error"} => m \in ReplyMsg
      /\ m.type = "call" => m \in PeerCallMsg
      /\ m.type = "signal" => m \in SignalMsg
      /\ m.type = "broadcast" => m \in BroadcastMsg
      /\ m.type \in {"return", "error", "call", "signal", "broadcast"}
  BY <1>1, HeadOfBus
<1>3. CASE m.type \in {"return", "error"}
  <2>1. got_reply_from_bus(m)
    BY <1>3 DEF got_buffer_from_bus
  <2> QED
    BY <1>1, <1>2, <1>3, <2>1, GotReplyKeeps
<1>4. CASE m.type = "call"
  <2>1. got_call_from_bus(m)
    BY <1>4 DEF got_buffer_from_bus
  <2> QED
    BY <1>1, <1>2, <1>4, <2>1, GotCallKeeps
<1>5. CASE m.type = "signal"
  <2>1. got_name_owner_changed(m)
    BY <1>5 DEF got_buffer_from_bus
  <2> QED
    BY <1>1, <1>2, <1>5, <2>1, GotOwnerChangedKeeps
<1>6. CASE m.type = "broadcast"
  <2>1. got_broadcast(m)
    BY <1>6 DEF got_buffer_from_bus
  <2> QED
    BY <1>1, <1>2, <1>6, <2>1, GotBroadcastKeeps
<1> QED
  BY <1>2, <1>3, <1>4, <1>5, <1>6

-----------------------------------------------------------------------------
(* The invariant holds.                                                    *)

LEMMA InitIInv ==
  ASSUME Init
  PROVE  IInv
<1>1. Counts
  <2>1. /\ serial_offset = 0 /\ last_serial = 0 /\ hello_serial = 0 /\ client_serial = 0
        /\ 0 \in Nat /\ 0 = 0 + 0
    BY DEF Init
  <2>2. closed = FALSE /\ reading = TRUE /\ in_loop = FALSE /\ reused = FALSE
    BY DEF Init
  <2> QED
    BY <2>1, <2>2 DEF Counts
<1>2. Tables
  BY DEF Init, Tables
<1>3. Types
  <2>1. owner \in [Names -> Ids \cup {NULL}]
    BY OwnersAssumption DEF Init, Ids
  <2>2. unique_id_policy \in [Ids -> Levels]
    BY DEF Init, Levels, NONE, OWN
  <2> QED
    BY <2>1, <2>2 DEF Init, Types
<1>4. Elems(toBus) = {} /\ Elems(fromBus) = {}
  BY DEF Init, Elems
<1>5. Sound
  BY <1>4 DEF Init, Sound
<1>6. VisibilityJustified
  BY DEF Init, VisibilityJustified, MayBe
<1> QED
  BY <1>1, <1>2, <1>3, <1>5, <1>6 DEF IInv

LEMMA NextIInv ==
  ASSUME IInv, [Next]_vars
  PROVE  IInv'
<1>1. CASE ClientHello
  BY <1>1, HelloKeeps
<1>2. CASE ClientCalls
  BY <1>2, CallsKeep
<1>3. CASE ClientReusesSerial
  BY <1>3, ReusesKeep
<1>4. CASE ClientReplies
  BY <1>4, RepliesKeep
<1>5. CASE side_in_cb_returns
  BY <1>5, ReturnsKeep
<1>6. CASE got_buffer_from_bus
  BY <1>6, BusReadKeeps
<1>7. CASE BusHandles
  BY <1>7, BusKeeps
<1>8. CASE PeerAnswers
  BY <1>8, PeerAnswersKeeps
<1>9. CASE PeerCallsClient
  BY <1>9, PeerCallsKeeps
<1>10. CASE PeerBroadcasts
  BY <1>10, PeerBroadcastsKeeps
<1>11. CASE PeerChangesOwner
  BY <1>11, PeerChangesKeeps
<1>12. CASE UNCHANGED vars
  <2>1. UNCHANGED <<proxy, toBus, fromBus, owner, matches, todo, peer_serial, owned, reached>>
    BY <1>12 DEF vars, proxy, bus
  <2>2. UNCHANGED <<unique_id_policy, inbox>>
    BY <2>1 DEF proxy, client
  <2>3. Types'
    BY <2>1, <2>2 DEF IInv, Types
  <2>4. Elems(toBus)' = Elems(toBus) /\ Elems(fromBus)' = Elems(fromBus)
    BY <2>1 DEF Elems
  <2> QED
    BY <2>1, <2>3, <2>4, OutsideKeeps
<1> QED
  BY <1>1, <1>2, <1>3, <1>4, <1>5, <1>6, <1>7, <1>8, <1>9, <1>10, <1>11, <1>12 DEF Next

\* Through any messages in either direction the counters, tables and types of
\* the proxy are as IInv says (got_buffer_from_client, got_buffer_from_bus).
THEOREM Invariance == Spec => []IInv
<1>1. Init => IInv
  BY InitIInv
<1>2. IInv /\ [Next]_vars => IInv'
  BY NextIInv
<1> QED
  BY <1>1, <1>2, PTL DEF Spec

\* The types of the state, and that the tables of the replies to make up and of
\* the owners asked for hold exactly the replies expected as such.
THEOREM TypeCorrect == Spec => []TypeOK
<1>1. IInv => TypeOK
  BY DEF IInv, Counts, Tables, Types, TypeOK
<1> QED
  BY <1>1, Invariance, PTL

\* The proxy refuses a client exactly when that uses a serial twice.
THEOREM ReuseRefused == Spec => []RefusedIffReused
<1>1. IInv => RefusedIffReused
  BY DEF IInv, Counts, RefusedIffReused
<1> QED
  BY <1>1, Invariance, PTL

\* No id is more to the client than its names, its messages or being the client
\* account for; broadcasts and calls cross the proxy only for names that may talk.
THEOREM Justified == Spec => []VisibilityJustified
<1>1. IInv => VisibilityJustified
  BY DEF IInv
<1> QED
  BY <1>1, Invariance, PTL

-----------------------------------------------------------------------------
(* A client that waits for the reply to Hello.  It makes no other call      *)
(* while serials are added, so the serial of a call of the client and the   *)
(* one it has on the bus stay a fixed distance apart.                       *)

\* The serial on the bus of what the client gave the serial k.
OnTheBus(k) == IF k = 1 THEN 1 ELSE k + serial_offset

\* Whose a serial is: Hello has the first, the proxy's own follow, then come
\* those of the client; k is 0 for the proxy.
OfProxy(s) == s \in 2 .. 1 + serial_offset
OfClient(s, k) == k \in 1 .. client_serial /\ s = OnTheBus(k)
SerialOf(s, k) == IF k = 0 THEN OfProxy(s) ELSE OfClient(s, k)

LabelledCall(m) ==
  m \in CallMsg => SerialOf(m.serial, m.of) /\ (m.of = 0 => m.dest = Bus)
LabelledTodo(c) == c.of # 0 /\ SerialOf(c.serial, c.of)
LabelledReply(m) == m \in ReplyMsg => SerialOf(m.reply_serial, m.of)

Delivery == [reply_serial : Nat, of : Nat, names : SUBSET (Names \cup Ids)]

\* Nothing comes before Hello, nothing is read from the bus before the client
\* waits for it, and the client waits while the list of names is asked for.
Waits ==
  /\ client_serial = 0 => /\ serial_offset = 0 /\ DOMAIN expected_client = {}
                          /\ \A m \in Elems(fromBus) : m \notin PeerCallMsg
  /\ client_serial > 0 => hello_serial = 1
  /\ in_loop \/ client_serial = 0 => delivered = <<>> /\ inbox = {}
  /\ \A s \in DOMAIN expected_client :
       expected_client[s] = "FAKE_LIST_NAMES" => ~reading /\ client_serial = 1
  /\ \A s, t \in DOMAIN expected_client :
       expected_client[s] = "FAKE_LIST_NAMES" /\ expected_client[t] = "FAKE_LIST_NAMES" => s = t

\* The serials in the tables are of whom the kind of the reply says.
Expected ==
  /\ \A s \in DOMAIN expected_client :
       /\ expected_client[s] \in OwnKinds => OfProxy(s)
       /\ expected_client[s] \in ClientKinds => \E k \in 1 .. client_serial : s = OnTheBus(k)
  /\ \A s \in DOMAIN rewrite_reply :
       s > 1 + serial_offset /\ rewrite_reply[s] = s - serial_offset

\* Calls and replies under way record whose they are.
Labelled ==
  /\ \A m \in Elems(toBus) : LabelledCall(m)
  /\ \A c \in todo : LabelledTodo(c)
  /\ \A m \in Elems(fromBus) : LabelledReply(m)

\* What was delivered is right, and is expected no more.
Answered ==
  /\ delivered \in Seq(Delivery)
  /\ \A i \in 1 .. Len(delivered) :
       /\ delivered[i].of \in 1 .. client_serial
       /\ delivered[i].reply_serial = delivered[i].of
       /\ OnTheBus(delivered[i].of) \notin DOMAIN expected_client
  /\ \A i, j \in 1 .. Len(delivered) : delivered[i].of = delivered[j].of => i = j

WInv == Waits /\ Expected /\ Labelled /\ Answered

\* Serials are added only while Hello is the only one of the client.
Grows ==
  /\ client_serial \in Nat /\ serial_offset \in Nat
  /\ client_serial' \in Nat /\ serial_offset' \in Nat
  /\ client_serial <= client_serial' /\ serial_offset <= serial_offset'
  /\ serial_offset' = serial_offset \/ client_serial <= 1

LEMMA SerialsKept ==
  ASSUME Grows
  PROVE  /\ \A k \in 1 .. client_serial : OnTheBus(k)' = OnTheBus(k) /\ k \in 1 .. client_serial'
         /\ \A s : OfProxy(s) => OfProxy(s)'
         /\ \A s, k : SerialOf(s, k) => SerialOf(s, k)'
<1>0. /\ client_serial \in Nat /\ serial_offset \in Nat
      /\ client_serial' \in Nat /\ serial_offset' \in Nat
      /\ client_serial <= client_serial' /\ serial_offset <= serial_offset'
  BY DEF Grows
<1>1. ASSUME NEW k \in 1 .. client_serial
      PROVE  OnTheBus(k)' = OnTheBus(k) /\ k \in 1 .. client_serial'
  <2>1. k \in 1 .. client_serial'
    BY <1>0
  <2>2. CASE serial_offset' = serial_offset
    BY <2>1, <2>2 DEF OnTheBus
  <2>3. CASE client_serial <= 1
    <3>1. k = 1
      BY <1>0, <2>3
    <3> QED
      BY <2>1, <3>1 DEF OnTheBus
  <2>4. serial_offset' = serial_offset \/ client_serial <= 1
    BY DEF Grows
  <2> QED
    BY <2>2, <2>3, <2>4
<1>2. ASSUME NEW s, OfProxy(s)
      PROVE  OfProxy(s)'
  <2>1. \A a, b \in Nat : a <= b => \A x \in 2 .. 1 + a : x \in 2 .. 1 + b
    OBVIOUS
  <2> QED
    BY <1>0, <1>2, <2>1 DEF OfProxy
<1>3. ASSUME NEW s, NEW k, SerialOf(s, k)
      PROVE  SerialOf(s, k)'
  <2>1. CASE k = 0
    BY <1>2, <1>3, <2>1 DEF SerialOf
  <2>2. CASE k # 0
    <3>1. k \in 1 .. client_serial /\ s = OnTheBus(k)
      BY <1>3, <2>2 DEF SerialOf, OfClient
    <3>2. OnTheBus(k)' = OnTheBus(k) /\ k \in 1 .. client_serial'
      BY <1>1, <3>1
    <3> QED
      BY <2>2, <3>1, <3>2 DEF SerialOf, OfClient
  <2> QED
    BY <2>1, <2>2
<1> QED
  BY <1>1, <1>2, <1>3

\* No two calls share a serial on the bus.
LEMMA SerialsDiffer ==
  ASSUME client_serial \in Nat, serial_offset \in Nat
  PROVE  /\ \A k, l \in 1 .. client_serial : OnTheBus(k) = OnTheBus(l) => k = l
         /\ \A k \in 1 .. client_serial : ~OfProxy(OnTheBus(k))
BY DEF OnTheBus, OfProxy

LEMMA LabelledKept ==
  ASSUME Labelled, Grows,
         \A x \in Elems(toBus)' : x \in Elems(toBus) \/ LabelledCall(x)',
         \A c \in todo' : c \in todo \/ LabelledTodo(c)',
         \A x \in Elems(fromBus)' : x \in Elems(fromBus) \/ LabelledReply(x)'
  PROVE  Labelled'
<1>1. \A s, k : SerialOf(s, k) => SerialOf(s, k)'
  BY SerialsKept
<1>2. ASSUME NEW x \in Elems(toBus)'
      PROVE  LabelledCall(x)'
  <2>1. CASE x \in Elems(toBus)
    <3>1. LabelledCall(x)
      BY <2>1 DEF Labelled
    <3> QED
      BY <1>1, <3>1 DEF LabelledCall
  <2> QED
    BY <2>1
<1>3. ASSUME NEW c \in todo'
      PROVE  LabelledTodo(c)'
  <2>1. CASE c \in todo
    <3>1. LabelledTodo(c)
      BY <2>1 DEF Labelled
    <3> QED
      BY <1>1, <3>1 DEF LabelledTodo
  <2> QED
    BY <2>1
<1>4. ASSUME NEW x \in Elems(fromBus)'
      PROVE  LabelledReply(x)'
  <2>1. CASE x \in Elems(fromBus)
    <3>1. LabelledReply(x)
      BY <2>1 DEF Labelled
    <3> QED
      BY <1>1, <3>1 DEF LabelledReply
  <2> QED
    BY <2>1
<1> QED
  BY <1>2, <1>3, <1>4 DEF Labelled

\* What is delivered stays right while no entry for it comes back.
LEMMA AnsweredKept ==
  ASSUME Answered, Grows, UNCHANGED delivered,
         \A s \in DOMAIN expected_client' :
           \/ s \in DOMAIN expected_client
           \/ \A k \in 1 .. client_serial : s # OnTheBus(k)
           \/ delivered = <<>>
  PROVE  Answered'
<1>1. \A k \in 1 .. client_serial : OnTheBus(k)' = OnTheBus(k) /\ k \in 1 .. client_serial'
  BY SerialsKept
<1>2. delivered' \in Seq(Delivery)
  BY DEF Answered
<1>3. ASSUME NEW i \in 1 .. Len(delivered)
      PROVE  /\ delivered[i].of \in 1 .. client_serial'
             /\ delivered[i].reply_serial = delivered[i].of
             /\ \A s \in DOMAIN expected_client' : s # OnTheBus(delivered[i].of)'
  <2> DEFINE k == delivered[i].of
  <2>1. /\ k \in 1 .. client_serial /\ delivered[i].reply_serial = k
        /\ OnTheBus(k) \notin DOMAIN expected_client
    BY DEF Answered
  <2>2. delivered # <<>>
    OBVIOUS
  <2>3. OnTheBus(k)' = OnTheBus(k)
    BY <1>1, <2>1 DEF OnTheBus
  <2>4. \A s \in DOMAIN expected_client' : s # OnTheBus(k)
    BY <2>1, <2>2
  <2>5. delivered[i].of \in 1 .. client_serial'
    BY <1>1, <2>1
  <2> QED
    BY <2>1, <2>3, <2>4, <2>5
<1> QED
  BY <1>2, <1>3 DEF Answered

-----------------------------------------------------------------------------
(* Steps of the bus and the peers.                                         *)

LEMMA OutsideWaits ==
  ASSUME IInv, WInv, UNCHANGED proxy,
         Elems(toBus)' \subseteq Elems(toBus),
         \A c \in todo' : c \in todo \/ LabelledTodo(c),
         \A x \in Elems(fromBus)' : x \in Elems(fromBus) \/ LabelledReply(x),
         \A x \in Elems(fromBus)' : x \in Elems(fromBus) \/ x \notin PeerCallMsg \/ client_serial > 0
  PROVE  WInv'
<1>0. Counts /\ Waits /\ Expected /\ Labelled /\ Answered
  BY DEF IInv, WInv
<1>1. UNCHANGED <<expected_client, rewrite_reply, serial_offset, hello_serial, client_serial,
                  reading, in_loop, inbox, delivered>>
  BY DEF proxy, tables, serials, flags, client
<1>2. Grows
  BY <1>0, <1>1 DEF Counts, Grows
<1>3. client_serial \in Nat
  BY <1>0 DEF Counts
<1>4. Waits'
  <2>1. client_serial = 0 => \A x \in Elems(fromBus)' : x \notin PeerCallMsg
    BY <1>0, <1>3 DEF Waits
  <2> QED
    BY <1>0, <1>1, <2>1 DEF Waits
<1>5. Expected'
  BY <1>0, <1>1 DEF Expected, OnTheBus, OfProxy
<1>6. Labelled'
  <2>1. \A x : LabelledTodo(x)' = LabelledTodo(x) /\ LabelledReply(x)' = LabelledReply(x)
    BY <1>1 DEF LabelledTodo, LabelledReply, SerialOf, OfProxy, OfClient, OnTheBus
  <2> QED
    BY <1>0, <1>2, <2>1, LabelledKept
<1>7. Answered'
  BY <1>0, <1>1, <1>2, AnsweredKept
<1> QED
  BY <1>4, <1>5, <1>6, <1>7 DEF WInv

\* What comes of a call on the bus has the label of the call.
LEMMA OwnerSetElems ==
  ASSUME IInv, NEW n \in Names, NEW new \in Ids \cup {NULL}, NEW after \in Seq(FromBusMsg),
         SetOwner(n, new, after)
  PROVE  \A x \in Elems(fromBus)' : x \in Elems(fromBus) \/ x \in SignalMsg \/ x \in Elems(after)
<1> DEFINE sig == IF Matched(n) THEN <<NameOwnerChanged(n, owner[n], new)>> ELSE <<>>
<1>1. fromBus' = (fromBus \o sig) \o after
  BY DEF SetOwner
<1>2. fromBus \in Seq(FromBusMsg) /\ owner[n] \in Ids \cup {NULL}
  BY DEF IInv, Types
<1>3. sig \in Seq(FromBusMsg) /\ Elems(sig) \subseteq SignalMsg
  <2>1. PICK s : s = NameOwnerChanged(n, owner[n], new)
    OBVIOUS
  <2>2. s \in SignalMsg /\ s \in FromBusMsg
    BY <1>2, <2>1 DEF NameOwnerChanged, SignalMsg, FromBusMsg
  <2>3. sig = <<s>> \/ sig = <<>>
    BY <2>1
  <2> HIDE DEF sig
  <2>4. <<s>> \in Seq(FromBusMsg) /\ Elems(<<s>>) = {s}
    BY <2>2, ElemsOne
  <2>5. <<>> \in Seq(FromBusMsg) /\ Elems(<<>>) = {}
    BY DEF Elems
  <2> QED
    BY <2>2, <2>3, <2>4, <2>5
<1> HIDE DEF sig
<1> DEFINE q == fromBus \o sig
<1>4. q \in Seq(FromBusMsg) /\ Elems(q) = Elems(fromBus) \cup Elems(sig) /\ fromBus' = q \o after
  BY <1>1, <1>2, <1>3, ElemsJoined
<1> HIDE DEF q
<1>5. Elems(q \o after) = Elems(q) \cup Elems(after)
  BY <1>4, ElemsJoined
<1>6. Elems(fromBus)' = Elems(q \o after)
  BY <1>4 DEF Elems
<1> QED
  BY <1>3, <1>4, <1>5, <1>6

LEMMA KindsApart ==
  /\ \A x \in ReplyMsg : x \notin PeerCallMsg /\ x \notin SignalMsg /\ x \notin BroadcastMsg
  /\ \A x \in SignalMsg : x \notin PeerCallMsg /\ x \notin ReplyMsg /\ x \notin BroadcastMsg
  /\ \A x \in BroadcastMsg : x \notin PeerCallMsg /\ x \notin ReplyMsg /\ x \notin SignalMsg
  /\ \A x \in PeerCallMsg : x \notin BroadcastMsg /\ x \notin ReplyMsg /\ x \notin SignalMsg
BY DEF ReplyMsg, PeerCallMsg, SignalMsg, BroadcastMsg

LEMMA OwnCallWaits ==
  ASSUME IInv, WInv, toBus # <<>>, toBus' = Tail(toBus), UNCHANGED <<proxy, peer_serial>>,
         NEW m, m = Head(toBus), m.type = "call", m.dest = Bus, BusHandlesOwnCall(m)
  PROVE  WInv'
<1>1. /\ m \in CallMsg /\ SoundCall(m) /\ Elems(toBus)' \subseteq Elems(toBus)
  BY BusTakes
<1> DEFINE answer == IF m.no_reply THEN <<>> ELSE <<BusAnswer(m)>>
<1>2. /\ IF m.member = "RequestName" /\ owner[m.arg] = NULL
         THEN SetOwner(m.arg, Me, answer)
         ELSE fromBus' = fromBus \o answer /\ UNCHANGED <<owner, owned>>
      /\ UNCHANGED <<todo, reached>>
  BY DEF BusHandlesOwnCall
<1>3. SerialOf(m.serial, m.of)
  <2>1. toBus \in Seq(ToBusMsg)
    BY DEF IInv, Types
  <2>2. m \in Elems(toBus)
    BY <2>1, ElemsPopped
  <2> QED
    BY <1>1, <2>2 DEF WInv, Labelled, LabelledCall
<1>4. /\ answer \in Seq(FromBusMsg)
      /\ \A x \in Elems(answer) : x \in ReplyMsg /\ LabelledReply(x)
  <2> DEFINE a == BusAnswer(m)
  <2>1. a \in ReplyMsg /\ a.reply_serial = m.serial /\ a.of = m.of
    BY <1>1, BusAnswers DEF IInv, Types
  <2>2. answer = <<a>> \/ answer = <<>>
    OBVIOUS
  <2> HIDE DEF a, answer
  <2>3. <<a>> \in Seq(FromBusMsg) /\ Elems(<<a>>) = {a}
    BY <2>1, ElemsOne DEF FromBusMsg
  <2>4. <<>> \in Seq(FromBusMsg) /\ Elems(<<>>) = {}
    BY DEF Elems
  <2>5. LabelledReply(a)
    BY <1>3, <2>1 DEF LabelledReply
  <2> QED
    BY <2>1, <2>2, <2>3, <2>4, <2>5
<1> HIDE DEF answer
<1>5. \A x \in Elems(fromBus)' : x \in Elems(fromBus) \/ x \in SignalMsg \/ x \in Elems(answer)
  <2>1. CASE m.member = "RequestName" /\ owner[m.arg] = NULL
    <3>1. m.arg \in Names /\ Me \in Ids \cup {NULL} /\ SetOwner(m.arg, Me, answer)
      BY <1>1, <1>2, <2>1 DEF SoundCall, Ids
    <3> QED
      BY <1>4, <3>1, OwnerSetElems
  <2>2. CASE ~(m.member = "RequestName" /\ owner[m.arg] = NULL)
    <3>1. fromBus' = fromBus \o answer
      BY <1>2, <2>2
    <3>2. Elems(fromBus \o answer) = Elems(fromBus) \cup Elems(answer)
      BY <1>4, ElemsJoined DEF IInv, Types
    <3>3. Elems(fromBus)' = Elems(fromBus')
      BY DEF Elems
    <3> QED
      BY <3>1, <3>2, <3>3
  <2> QED
    BY <2>1, <2>2
<1>6. \A x \in Elems(fromBus)' : x \in Elems(fromBus) \/ (LabelledReply(x) /\ x \notin PeerCallMsg)
  BY <1>4, <1>5, KindsApart DEF LabelledReply
<1>7. \A c \in todo' : c \in todo
  BY <1>2
<1> QED
  BY <1>1, <1>6, <1>7, OutsideWaits

LEMMA RoutedCallWaits ==
  ASSUME IInv, WInv, toBus # <<>>, toBus' = Tail(toBus), UNCHANGED <<proxy, peer_serial>>,
         NEW m, m = Head(toBus), m.type = "call", m.dest # Bus, BusRoutesCall(m)
  PROVE  WInv'
<1>1. /\ m \in CallMsg /\ SoundCall(m) /\ Elems(toBus)' \subseteq Elems(toBus)
  BY BusTakes
<1>2. m.serial \in Nat /\ m.of \in Nat
  BY <1>1 DEF CallMsg
<1>3. SerialOf(m.serial, m.of) /\ m.of # 0
  <2>1. toBus \in Seq(ToBusMsg)
    BY DEF IInv, Types
  <2>2. m \in Elems(toBus)
    BY <2>1, ElemsPopped
  <2> QED
    BY <1>1, <2>2 DEF WInv, Labelled, LabelledCall
<1> DEFINE to == IF m.dest \in Names THEN owner[m.dest] ELSE m.dest
           c == [to |-> to, serial |-> m.serial, of |-> m.of]
           a == Error(m)
<1>4. /\ todo' = todo \/ todo' = todo \cup {c}
      /\ fromBus' = fromBus \/ fromBus' = Append(fromBus, a)
  BY DEF BusRoutesCall
<1>5. LabelledTodo(c)
  BY <1>3 DEF LabelledTodo
<1>6. a \in ReplyMsg /\ a.reply_serial = m.serial /\ a.of = m.of
  BY <1>2, ReplyFields
<1> HIDE DEF to, c, a
<1>7. LabelledReply(a) /\ a \notin PeerCallMsg
  BY <1>3, <1>6, KindsApart DEF LabelledReply
<1>8. \A x \in Elems(fromBus)' : x \in Elems(fromBus) \/ (LabelledReply(x) /\ x \notin PeerCallMsg)
  <2>1. fromBus \in Seq(FromBusMsg) /\ a \in FromBusMsg
    BY <1>6 DEF IInv, Types, FromBusMsg
  <2>2. Elems(Append(fromBus, a)) = Elems(fromBus) \cup {a}
    BY <2>1, ElemsAppended
  <2>3. Elems(fromBus)' = Elems(fromBus')
    BY DEF Elems
  <2>4. \A x \in Elems(fromBus)' : x \in Elems(fromBus) \/ x = a
    BY <1>4, <2>2, <2>3
  <2> QED
    BY <1>7, <2>4
<1>9. \A x \in todo' : x \in todo \/ LabelledTodo(x)
  BY <1>4, <1>5
<1> QED
  BY <1>1, <1>8, <1>9, OutsideWaits

LEMMA BusWaits ==
  ASSUME IInv, WInv, BusHandles
  PROVE  WInv'
<1> DEFINE m == Head(toBus)
<1>1. /\ toBus # <<>> /\ toBus' = Tail(toBus) /\ UNCHANGED <<proxy, peer_serial>>
  BY DEF BusHandles
<1>2. /\ m \in ToBusMsg /\ Elems(toBus)' \subseteq Elems(toBus)
  BY <1>1, BusTakes
<1>3. m.type \in {"call", "return"}
  BY <1>2 DEF ToBusMsg, CallMsg, ReturnMsg
<1>4. CASE m.type = "return"
  <2>1. UNCHANGED <<fromBus, todo>>
    BY <1>4 DEF BusHandles
  <2>2. Elems(fromBus)' = Elems(fromBus)
    BY <2>1 DEF Elems
  <2> QED
    BY <1>1, <1>2, <2>1, <2>2, OutsideWaits
<1>5. CASE m.type = "call" /\ m.dest = Bus
  <2>1. BusHandlesOwnCall(m)
    BY <1>5 DEF BusHandles
  <2> QED
    BY <1>1, <1>5, <2>1, OwnCallWaits
<1>6. CASE m.type = "call" /\ m.dest # Bus
  <2>1. BusRoutesCall(m)
    BY <1>6 DEF BusHandles
  <2> QED
    BY <1>1, <1>6, <2>1, RoutedCallWaits
<1> QED
  BY <1>3, <1>4, <1>5, <1>6

LEMMA PeersWait ==
  ASSUME IInv, WInv, PeerAnswers \/ PeerCallsClient \/ PeerBroadcasts \/ PeerChangesOwner
  PROVE  WInv'
<1>0. fromBus \in Seq(FromBusMsg) /\ todo \subseteq Todo /\ client_serial \in Nat
  BY DEF IInv, Types, Counts
<1>1. ASSUME NEW x \in FromBusMsg, fromBus' = Append(fromBus, x)
      PROVE  \A y \in Elems(fromBus)' : y \in Elems(fromBus) \/ y = x
  <2>1. Elems(Append(fromBus, x)) = Elems(fromBus) \cup {x}
    BY <1>0, ElemsAppended
  <2>2. Elems(fromBus)' = Elems(fromBus')
    BY DEF Elems
  <2> QED
    BY <1>1, <2>1, <2>2
<1>2. CASE PeerAnswers
  <2>1. PICK c \in todo : todo' = todo \ {c} /\ fromBus' = Append(fromBus, Return(c, c.to, {}, NULL))
    BY <1>2 DEF PeerAnswers
  <2>2. PICK x : x = Return(c, c.to, {}, NULL)
    OBVIOUS
  <2>3. c.to \in Peers /\ c.serial \in Nat /\ c.of \in Nat /\ SerialOf(c.serial, c.of)
    BY <1>0 DEF Todo, WInv, Labelled, LabelledTodo
  <2>4. x \in ReplyMsg /\ x.reply_serial = c.serial /\ x.of = c.of
    BY <2>2, <2>3, ReplyFields
  <2>5. LabelledReply(x) /\ x \notin PeerCallMsg /\ x \in FromBusMsg
    BY <2>3, <2>4, KindsApart DEF LabelledReply, FromBusMsg
  <2>6. \A y \in Elems(fromBus)' : y \in Elems(fromBus) \/ y = x
    BY <1>1, <2>1, <2>2, <2>5
  <2>7. Elems(toBus)' \subseteq Elems(toBus) /\ UNCHANGED proxy
    BY <1>2 DEF PeerAnswers, Elems
  <2>8. \A y \in todo' : y \in todo
    BY <2>1
  <2> QED
    BY <2>5, <2>6, <2>7, <2>8, OutsideWaits
<1>3. CASE PeerCallsClient
  <2>1. PICK p \in Peers, no_reply \in BOOLEAN :
          fromBus' = Append(fromBus, PeerCall(p, peer_serial[p] + 1, no_reply))
    BY <1>3 DEF PeerCallsClient
  <2>2. PICK x : x = PeerCall(p, peer_serial[p] + 1, no_reply)
    OBVIOUS
  <2>3. x \in PeerCallMsg
    BY <2>2 DEF PeerCall, PeerCallMsg, IInv, Types
  <2>4. LabelledReply(x) /\ x \in FromBusMsg /\ client_serial > 0
    BY <1>3, <2>3, KindsApart DEF LabelledReply, FromBusMsg, PeerCallsClient, OnBus
  <2>5. \A y \in Elems(fromBus)' : y \in Elems(fromBus) \/ y = x
    BY <1>1, <2>1, <2>2, <2>4
  <2>6. Elems(toBus)' \subseteq Elems(toBus) /\ UNCHANGED <<proxy, todo>>
    BY <1>3 DEF PeerCallsClient, Elems
  <2> QED
    BY <2>4, <2>5, <2>6, OutsideWaits
<1>4. CASE PeerBroadcasts
  <2>1. PICK p \in Peers : fromBus' = Append(fromBus, Broadcast(p))
    BY <1>4 DEF PeerBroadcasts
  <2>2. PICK x : x = Broadcast(p)
    OBVIOUS
  <2>3. x \in BroadcastMsg
    BY <2>2 DEF Broadcast, BroadcastMsg
  <2>4. LabelledReply(x) /\ x \in FromBusMsg /\ x \notin PeerCallMsg
    BY <2>3, KindsApart DEF LabelledReply, FromBusMsg
  <2>5. \A y \in Elems(fromBus)' : y \in Elems(fromBus) \/ y = x
    BY <1>1, <2>1, <2>2, <2>4
  <2>6. Elems(toBus)' \subseteq Elems(toBus) /\ UNCHANGED <<proxy, todo>>
    BY <1>4 DEF PeerBroadcasts, Elems
  <2> QED
    BY <2>4, <2>5, <2>6, OutsideWaits
<1>5. CASE PeerChangesOwner
  <2>1. PICK n \in Names, u \in Peers \cup {NULL} : SetOwner(n, u, <<>>)
    BY <1>5 DEF PeerChangesOwner
  <2>2. u \in Ids \cup {NULL} /\ <<>> \in Seq(FromBusMsg) /\ Elems(<<>>) = {}
    BY DEF Ids, Elems
  <2>3. \A x \in Elems(fromBus)' : x \in Elems(fromBus) \/ x \in SignalMsg
    BY <2>1, <2>2, OwnerSetElems
  <2>4. \A x \in SignalMsg : LabelledReply(x) /\ x \notin PeerCallMsg
    BY KindsApart DEF LabelledReply
  <2>5. Elems(toBus)' \subseteq Elems(toBus) /\ UNCHANGED <<proxy, todo>>
    BY <1>5 DEF PeerChangesOwner, Elems
  <2> QED
    BY <2>3, <2>4, <2>5, OutsideWaits
<1> QED
  BY <1>2, <1>3, <1>4, <1>5

-----------------------------------------------------------------------------
(* Steps of the client.                                                    *)

\* A step that touches nothing of this, but may end the reading loop.
LEMMA UntouchedWaits ==
  ASSUME IInv, WInv, in_loop' \in BOOLEAN, in_loop' => in_loop,
         UNCHANGED <<expected_client, rewrite_reply, serial_offset, hello_serial, client_serial,
                     reading, inbox, delivered, toBus, fromBus, todo>>
  PROVE  WInv'
<1>0. Counts /\ Waits /\ Expected /\ Labelled /\ Answered
  BY DEF IInv, WInv
<1>1. Grows
  BY <1>0 DEF Counts, Grows
<1>2. Elems(toBus)' = Elems(toBus) /\ Elems(fromBus)' = Elems(fromBus)
  BY DEF Elems
<1>3. Waits'
  <2>1. client_serial = 0 => \A m \in Elems(fromBus)' : m \notin PeerCallMsg
    BY <1>0, <1>2 DEF Waits
  <2>2. in_loop' \/ client_serial = 0 => delivered = <<>> /\ inbox = {}
    BY <1>0 DEF Waits
  <2> QED
    BY <1>0, <2>1, <2>2 DEF Waits
<1>4. Expected'
  BY <1>0 DEF Expected, OnTheBus, OfProxy
<1>5. Labelled'
  BY <1>0, <1>1, <1>2, LabelledKept
<1>6. Answered'
  BY <1>0, <1>1, AnsweredKept
<1> QED
  BY <1>3, <1>4, <1>5, <1>6 DEF WInv

\* Where the messages of a call are put.
LEMMA SentSerials ==
  ASSUME Counts, Waits, NEW n \in Nat, NEW serial, serial = client_serial + 1 + serial_offset,
         NEW c, c = client_serial + 1,
         client_serial' = client_serial + 1, serial_offset' = serial_offset + n,
         n = 0 \/ client_serial = 0
  PROVE  /\ Grows
         /\ c \in 1 .. client_serial'
         /\ serial = OnTheBus(c)'
         /\ \A i \in 1 .. n : OfProxy(serial + i)'
         /\ client_serial = 0 => serial = 1
         /\ client_serial # 0 =>
              /\ n = 0 /\ serial > 1 + serial_offset
              /\ serial - serial_offset = client_serial + 1
              /\ \A k \in 1 .. client_serial : serial # OnTheBus(k)
<1>1. /\ client_serial \in Nat /\ serial_offset \in Nat
      /\ client_serial = 0 => serial_offset = 0
  BY DEF Counts, Waits
<1> DEFINE o == serial_offset + n
<1>2. c \in Nat /\ o \in Nat /\ client_serial <= c /\ serial_offset <= o
  BY <1>1
<1>3. Grows
  <2>1. o = serial_offset \/ client_serial <= 1
    BY <1>1
  <2> QED
    BY <1>1, <1>2, <2>1 DEF Grows
<1>4. c \in 1 .. client_serial'
  <2>1. c \in 1 .. c
    BY <1>1
  <2> QED
    BY <2>1
<1>5. serial = OnTheBus(c)'
  <2>1. serial = IF c = 1 THEN 1 ELSE c + o
    BY <1>1
  <2> QED
    BY <2>1 DEF OnTheBus
<1>6. \A i \in 1 .. n : OfProxy(serial + i)'
  <2>1. \A i \in 1 .. n : serial + i \in 2 .. 1 + o
    BY <1>1
  <2> QED
    BY <2>1 DEF OfProxy
<1>7. client_serial = 0 => serial = 1
  BY <1>1
<1>8. client_serial # 0 =>
              /\ n = 0 /\ serial > 1 + serial_offset
              /\ serial - serial_offset = client_serial + 1
              /\ \A k \in 1 .. client_serial : serial # OnTheBus(k)
  BY <1>1 DEF OnTheBus
<1> QED
  BY <1>3, <1>4, <1>5, <1>6, <1>7, <1>8

LEMMA ForwardWaits ==
  ASSUME IInv, WInv, NEW m, ClientCall(m), NEW ops \in Seq(FakeOps),
         NEW serial, serial = m.serial + serial_offset,
         m.serial = client_serial + 1, m.of = m.serial, client_serial' = client_serial + 1,
         ops = <<>> \/ client_serial = 0, client_serial = 0 => m.member = "Hello",
         ForwardCall(m, serial, ops),
         UNCHANGED <<fromBus, todo, delivered>>
  PROVE  Sent(m, serial, ops) /\ Expected' /\ Labelled' /\ Answered'
<1>0. Counts /\ Tables /\ Types /\ Waits /\ Expected /\ Labelled /\ Answered
  BY DEF IInv, WInv
<1>1. /\ client_serial \in Nat /\ serial_offset \in Nat /\ serial \in Nat
      /\ serial = client_serial + 1 + serial_offset /\ serial > last_serial
      /\ \A s \in 1 .. last_serial : s # serial
  BY <1>0 DEF Counts
<1>2. Sent(m, serial, ops)
  BY <1>0, <1>1, Forwarded
<1>3. /\ Len(ops) \in Nat /\ \A i \in 1 .. Len(ops) : ops[i] \in FakeOps
      /\ AsksFor(serial, ops) \in Seq(ToBusMsg)
      /\ \A i \in 1 .. Len(ops) : ops[i].type \in OwnKinds
  BY <1>1, AsksOf, OpKinds
<1>4. Len(ops) \in Nat /\ (Len(ops) = 0 \/ client_serial = 0)
  BY <1>3
<1> DEFINE W == WrittenOf(m, serial)
           kind == KindOf(m)
<1>6. /\ W \in Seq(ToBusMsg)
      /\ \/ kind = "NONE" /\ W = <<>> /\ ~Pinged(m)
         \/ \E w \in CallMsg : W = <<w>> /\ w.serial = serial /\ w.of = m.of
      /\ kind \in ClientKinds \cup {"NONE"}
      /\ Pinged(m) => m.member # "Hello"
  <2>1. unique_id_policy \in [Ids -> Levels]
    BY <1>0 DEF Types
  <2>2. WrittenAs(m, serial, W, kind)
    BY <1>1, <2>1, Written
  <2> QED
    BY <2>2 DEF WrittenAs, ClientKinds
<1>8. /\ toBus' = (toBus \o W) \o AsksFor(serial, ops)
      /\ DOMAIN expected_client' = (DOMAIN expected_client \cup {s \in {serial} : kind # "NONE"})
                                     \cup (serial + 1 .. serial + Len(ops))
      /\ \A s \in DOMAIN expected_client : expected_client'[s] = expected_client[s]
      /\ kind # "NONE" => expected_client'[serial] = kind
      /\ \A i \in 1 .. Len(ops) : expected_client'[serial + i] = ops[i].type
      /\ DOMAIN rewrite_reply' = DOMAIN rewrite_reply \cup {s \in {serial} : Pinged(m)}
      /\ \A s \in DOMAIN rewrite_reply : rewrite_reply'[s] = rewrite_reply[s]
      /\ Pinged(m) => rewrite_reply'[serial] = serial - serial_offset
      /\ serial_offset' = serial_offset + Len(ops)
  BY <1>2 DEF Sent
<1> HIDE DEF W, kind
<1>8a. PICK c : c = client_serial + 1
  OBVIOUS
<1>9. /\ Grows
      /\ c \in 1 .. client_serial'
      /\ serial = OnTheBus(c)'
      /\ \A i \in 1 .. Len(ops) : OfProxy(serial + i)'
      /\ client_serial # 0 =>
              /\ Len(ops) = 0 /\ serial > 1 + serial_offset
              /\ \A k \in 1 .. client_serial : serial # OnTheBus(k)
  BY <1>0, <1>1, <1>4, <1>8, <1>8a, SentSerials
<1>10. /\ \A k \in 1 .. client_serial : OnTheBus(k)' = OnTheBus(k) /\ k \in 1 .. client_serial'
       /\ \A s : OfProxy(s) => OfProxy(s)'
  BY <1>9, SerialsKept
<1>11. ASSUME NEW x \in serial + 1 .. serial + Len(ops)
       PROVE  \E i \in 1 .. Len(ops) : x = serial + i
  <2>1. x - serial \in 1 .. Len(ops) /\ x = serial + (x - serial)
    BY <1>1, <1>4
  <2> QED
    BY <2>1
<1>12. \A s \in DOMAIN expected_client' :
         \/ s \in DOMAIN expected_client /\ expected_client'[s] = expected_client[s]
         \/ s = serial /\ kind # "NONE" /\ expected_client'[s] = kind
         \/ \E i \in 1 .. Len(ops) : s = serial + i /\ expected_client'[s] = ops[i].type
  BY <1>8, <1>11
<1>13. \A x \in OwnKinds : x \notin ClientKinds
  BY DEF OwnKinds, ClientKinds
<1>14. Expected'
  <2>1. ASSUME NEW s \in DOMAIN expected_client'
        PROVE  /\ expected_client'[s] \in OwnKinds => OfProxy(s)'
               /\ expected_client'[s] \in ClientKinds =>
                    \E k \in 1 .. client_serial' : s = OnTheBus(k)'
    <3>1. CASE s \in DOMAIN expected_client /\ expected_client'[s] = expected_client[s]
      <4>1. /\ expected_client[s] \in OwnKinds => OfProxy(s)
            /\ expected_client[s] \in ClientKinds =>
                 \E k \in 1 .. client_serial : s = OnTheBus(k)
        BY <1>0, <3>1 DEF Expected
      <4> QED
        BY <1>10, <3>1, <4>1
    <3>2. CASE s = serial /\ kind # "NONE" /\ expected_client'[s] = kind
      BY <1>6, <1>9, <1>13, <3>2
    <3>3. CASE \E i \in 1 .. Len(ops) : s = serial + i /\ expected_client'[s] = ops[i].type
      BY <1>3, <1>9, <1>13, <3>3
    <3> QED
      BY <1>12, <3>1, <3>2, <3>3
  <2>2. ASSUME NEW s \in DOMAIN rewrite_reply'
        PROVE  s > 1 + serial_offset' /\ rewrite_reply'[s] = s - serial_offset'
    <3>1. CASE client_serial = 0
      <4>1. DOMAIN rewrite_reply = {} /\ ~Pinged(m)
        BY <1>0, <1>6, <3>1 DEF Waits, Tables
      <4> QED
        BY <1>8, <4>1
    <3>2. CASE client_serial # 0
      <4>1. serial_offset' = serial_offset
        BY <1>1, <1>8, <1>9, <3>2
      <4>2. s > 1 + serial_offset /\ rewrite_reply'[s] = s - serial_offset
        <5>1. CASE s \in DOMAIN rewrite_reply
          BY <1>0, <1>8, <5>1 DEF Expected
        <5>2. CASE s = serial /\ Pinged(m)
          BY <1>8, <1>9, <3>2, <5>2
        <5> QED
          BY <1>8, <5>1, <5>2
      <4> QED
        BY <4>1, <4>2
    <3> QED
      BY <3>1, <3>2
  <2>3. \A s \in DOMAIN expected_client' :
               /\ expected_client'[s] \in OwnKinds => OfProxy(s)'
               /\ expected_client'[s] \in ClientKinds =>
                    \E k \in 1 .. client_serial' : s = OnTheBus(k)'
    BY <2>1
  <2> QED
    BY <2>2, <2>3 DEF Expected
<1>15. Labelled'
  <2>1. /\ toBus \in Seq(ToBusMsg) /\ toBus \o W \in Seq(ToBusMsg)
        /\ Elems(toBus \o W) = Elems(toBus) \cup Elems(W)
    BY <1>0, <1>6, ElemsJoined DEF Types
  <2> DEFINE queue == toBus \o W
             asks == AsksFor(serial, ops)
  <2>2. queue \in Seq(ToBusMsg) /\ asks \in Seq(ToBusMsg) /\ toBus' = queue \o asks
        /\ Elems(queue) = Elems(toBus) \cup Elems(W)
    BY <1>3, <1>8, <2>1
  <2>3. \A x \in Elems(W) : x.serial = serial /\ x.of = m.of
    <3>1. CASE W = <<>>
      BY <3>1 DEF Elems
    <3>2. CASE \E w \in CallMsg : W = <<w>> /\ w.serial = serial /\ w.of = m.of
      BY <3>2, ElemsOne
    <3> QED
      BY <1>6, <3>1, <3>2
  <2>4. \A x \in Elems(W) : LabelledCall(x)'
    <3>1. m.of = c /\ m.of # 0
      BY <1>1, <1>8a
    <3>2. SerialOf(serial, m.of)'
      BY <1>9, <3>1 DEF SerialOf, OfClient
    <3> QED
      BY <2>3, <3>1, <3>2 DEF LabelledCall
  <2>5. ASSUME NEW x \in Elems(asks)
        PROVE  LabelledCall(x)'
    <3>1. PICK i \in 1 .. Len(ops) : x = asks[i]
      BY <1>1, AsksOf DEF Elems
    <3>2. x.serial = serial + i /\ x.of = 0 /\ x.dest = Bus
      BY <1>1, <3>1, AsksOf
    <3>3. OfProxy(serial + i)'
      BY <1>9
    <3> QED
      BY <3>2, <3>3 DEF LabelledCall, SerialOf
  <2> HIDE DEF queue, asks
  <2>6. Elems(queue \o asks) = Elems(queue) \cup Elems(asks)
    BY <2>2, ElemsJoined
  <2>7. Elems(toBus)' = Elems(queue \o asks)
    BY <2>2 DEF Elems
  <2>8. \A x \in Elems(toBus)' : x \in Elems(toBus) \/ LabelledCall(x)'
    BY <2>2, <2>4, <2>5, <2>6, <2>7
  <2>9. Elems(fromBus)' = Elems(fromBus) /\ todo' = todo
    BY DEF Elems
  <2> QED
    BY <1>0, <1>9, <2>8, <2>9, LabelledKept
<1>16. Answered'
  <2>1. \A s \in DOMAIN expected_client' :
          \/ s \in DOMAIN expected_client
          \/ \A k \in 1 .. client_serial : s # OnTheBus(k)
          \/ delivered = <<>>
    <3>1. CASE client_serial = 0
      BY <1>0, <3>1 DEF Waits
    <3>2. CASE client_serial # 0
      <4>1. Len(ops) = 0 /\ \A k \in 1 .. client_serial : serial # OnTheBus(k)
        BY <1>9, <3>2
      <4>2. \A i \in 1 .. Len(ops) : FALSE
        BY <4>1
      <4> QED
        BY <1>12, <4>1, <4>2
    <3> QED
      BY <3>1, <3>2
  <2> QED
    BY <1>0, <1>9, <2>1, AnsweredKept
<1> QED
  BY <1>2, <1>14, <1>15, <1>16

\* A client that has its reply to Hello is read until its socket is empty, and
\* no list of names is outstanding.
LEMMA ReadMeansNoList ==
  ASSUME Counts, Waits, CanRead, delivered # <<>> \/ inbox # {}
  PROVE  /\ ~in_loop /\ reading /\ client_serial > 0
         /\ \A s \in DOMAIN expected_client : expected_client[s] # "FAKE_LIST_NAMES"
<1>1. ~in_loop /\ client_serial # 0 /\ client_serial \in Nat
  BY DEF Waits, Counts
<1>2. reading
  BY <1>1 DEF CanRead
<1> QED
  BY <1>1, <1>2 DEF Waits

LEMMA HelloWaits ==
  ASSUME IInv, WInv, ClientHello
  PROVE  WInv'
<1>0. Counts /\ Tables /\ Waits
  BY DEF IInv, WInv
<1>1. PICK m : m = Call(1, Bus, "Hello", NULL, FALSE, 1)
  OBVIOUS
<1> DEFINE serial == m.serial + serial_offset
<1>2. /\ client_serial = 0 /\ client_serial' = 1 /\ got_buffer_from_client(m)
      /\ UNCHANGED delivered
  BY <1>1 DEF ClientHello, Learned
<1>3. ClientCall(m) /\ m.member = "Hello" /\ m.type = "call" /\ m.serial = 1 /\ m.of = 1
  BY <1>1, HelloIsCall
<1>4. ~(serial <= last_serial)
  BY <1>0, <1>2, <1>3 DEF Counts
<1>5. /\ hello_serial' = serial
      /\ \E names \in Orders(ExactNames), prefixes \in Orders(Prefixes) :
           ForwardCall(m, serial, queue_initial_name_ops(names, prefixes))
      /\ reading' = (Prefixes = {}) /\ in_loop' = TRUE
      /\ UNCHANGED <<fromBus, bus>>
  BY <1>2, <1>3, <1>4 DEF got_buffer_from_client
<1>6. PICK names \in Orders(ExactNames), prefixes \in Orders(Prefixes) :
           ForwardCall(m, serial, queue_initial_name_ops(names, prefixes))
  BY <1>5
<1>7. PICK ops : ops = queue_initial_name_ops(names, prefixes)
  OBVIOUS
<1>8. /\ ops \in Seq(FakeOps)
      /\ \A i \in 1 .. Len(ops) : ops[i].type = "FAKE_LIST_NAMES" => i = Len(ops) /\ Prefixes # {}
  BY <1>7, InitialOps
<1>9. ForwardCall(m, serial, ops)
  BY <1>6, <1>7
<1>10. todo' = todo
  BY <1>5 DEF bus
<1>11. PICK base : base = serial
  OBVIOUS
<1>12. /\ base = 1 /\ base = m.serial + serial_offset
       /\ m.serial = client_serial + 1 /\ m.of = m.serial /\ client_serial' = client_serial + 1
  BY <1>0, <1>2, <1>3, <1>11 DEF Waits
<1>13. ForwardCall(m, base, ops)
  BY <1>9, <1>11
<1>14. Sent(m, base, ops) /\ Expected' /\ Labelled' /\ Answered'
  BY <1>2, <1>3, <1>5, <1>8, <1>10, <1>12, <1>13, ForwardWaits
<1>15. /\ DOMAIN expected_client = {} /\ delivered = <<>> /\ inbox = {}
  BY <1>0, <1>2 DEF Waits
<1>16. /\ DOMAIN expected_client' = (DOMAIN expected_client \cup {s \in {base} : KindOf(m) # "NONE"})
                                     \cup (base + 1 .. base + Len(ops))
       /\ KindOf(m) # "NONE" => expected_client'[base] = KindOf(m)
       /\ \A i \in 1 .. Len(ops) : expected_client'[base + i] = ops[i].type
       /\ inbox' = inbox
  BY <1>14 DEF Sent
<1>17. KindOf(m) # "FAKE_LIST_NAMES"
  <2>1. PICK v : v = get_dbus_method_handler(m)
    OBVIOUS
  <2>2. unique_id_policy \in [Ids -> Levels]
    BY DEF IInv, Types
  <2> QED
    BY <1>3, <2>1, <2>2, Verdicts DEF KindOf
<1>18. ASSUME NEW s \in DOMAIN expected_client', expected_client'[s] = "FAKE_LIST_NAMES"
       PROVE  Prefixes # {} /\ s = base + Len(ops)
  <2>1. s # base
    BY <1>15, <1>16, <1>17, <1>18
  <2>2. s \in base + 1 .. base + Len(ops)
    BY <1>15, <1>16, <2>1
  <2>3. Len(ops) \in Nat
    BY <1>8
  <2>4. s - base \in 1 .. Len(ops) /\ s = base + (s - base)
    BY <1>12, <2>2, <2>3
  <2>5. PICK i \in 1 .. Len(ops) : s = base + i
    BY <2>4
  <2>6. ops[i].type = "FAKE_LIST_NAMES"
    BY <1>16, <1>18, <2>5
  <2> QED
    BY <1>8, <2>5, <2>6
<1>19. Waits'
  <2>1. hello_serial' = 1
    BY <1>5, <1>11, <1>12
  <2>2. client_serial' # 0
    BY <1>2
  <2>3. delivered' = <<>> /\ inbox' = {}
    BY <1>2, <1>15, <1>16
  <2>4. \A s \in DOMAIN expected_client' :
          expected_client'[s] = "FAKE_LIST_NAMES" => ~reading' /\ client_serial' = 1
    BY <1>2, <1>5, <1>18
  <2>5. \A s, t \in DOMAIN expected_client' :
          expected_client'[s] = "FAKE_LIST_NAMES" /\ expected_client'[t] = "FAKE_LIST_NAMES"
            => s = t
    BY <1>18
  <2> QED
    BY <2>1, <2>2, <2>3, <2>4, <2>5 DEF Waits
<1> QED
  BY <1>14, <1>19 DEF WInv

LEMMA CallsWait ==
  ASSUME IInv, WInv, ~Pipelining, ClientCalls
  PROVE  WInv'
<1>0. Counts /\ Tables /\ Waits
  BY DEF IInv, WInv
<1>1. PICK c \in Calls :
        got_buffer_from_client(Call(client_serial + 1, c[1], c[2], c[3], c[4], client_serial + 1))
  BY DEF ClientCalls
<1>2. PICK m : m = Call(client_serial + 1, c[1], c[2], c[3], c[4], client_serial + 1)
  OBVIOUS
<1>3. PICK serial : serial = m.serial + serial_offset
  OBVIOUS
<1>4. /\ client_serial' = client_serial + 1 /\ got_buffer_from_client(m)
      /\ UNCHANGED delivered
  BY <1>1, <1>2 DEF ClientCalls, Learned
<1>5. client_serial + 1 \in Nat
  BY <1>0 DEF Counts
<1>6. /\ ClientCall(m) /\ m.member # "Hello" /\ m.type = "call"
      /\ m.serial = client_serial + 1 /\ m.of = client_serial + 1
  BY <1>2, <1>5, CallsAreCalls
<1>7. ~(serial <= last_serial)
  BY <1>0, <1>3, <1>6 DEF Counts
<1>8. /\ ForwardCall(m, serial, <<>>)
      /\ UNCHANGED <<hello_serial, flags, fromBus, bus>>
  BY <1>3, <1>4, <1>6, <1>7 DEF got_buffer_from_client
<1>9. /\ ~in_loop /\ reading /\ client_serial > 0
      /\ \A s \in DOMAIN expected_client : expected_client[s] # "FAKE_LIST_NAMES"
  <2>1. delivered # <<>>
    BY DEF ClientCalls, Helloed
  <2>2. CanRead
    BY DEF ClientCalls
  <2> QED
    BY <1>0, <2>1, <2>2, ReadMeansNoList
<1>10. <<>> \in Seq(FakeOps) /\ Len(<<>>) = 0 /\ todo' = todo /\ client_serial # 0
  BY <1>0, <1>8, <1>9 DEF bus, Counts
<1>11. Sent(m, serial, <<>>) /\ Expected' /\ Labelled' /\ Answered'
  BY <1>3, <1>4, <1>6, <1>8, <1>10, ForwardWaits
<1>12. /\ DOMAIN expected_client' = (DOMAIN expected_client \cup {s \in {serial} : KindOf(m) # "NONE"})
                                      \cup (serial + 1 .. serial + Len(<<>>))
       /\ \A s \in DOMAIN expected_client : expected_client'[s] = expected_client[s]
       /\ KindOf(m) # "NONE" => expected_client'[serial] = KindOf(m)
       /\ inbox' = inbox
  BY <1>11 DEF Sent
<1>13. serial + 1 .. serial + Len(<<>>) = {}
  BY <1>0, <1>3, <1>6, <1>10 DEF Counts
<1>14. KindOf(m) # "FAKE_LIST_NAMES"
  <2>1. PICK v : v = get_dbus_method_handler(m)
    OBVIOUS
  <2>2. unique_id_policy \in [Ids -> Levels]
    BY DEF IInv, Types
  <2> QED
    BY <1>6, <2>1, <2>2, Verdicts DEF KindOf
<1>15. \A s \in DOMAIN expected_client' : expected_client'[s] # "FAKE_LIST_NAMES"
  BY <1>9, <1>12, <1>13, <1>14
<1>16. Waits'
  <2>1. client_serial' # 0
    BY <1>0, <1>4 DEF Counts
  <2>2. hello_serial' = 1 /\ ~in_loop'
    BY <1>0, <1>8, <1>9 DEF Waits, flags
  <2> QED
    BY <1>15, <2>1, <2>2 DEF Waits
<1> QED
  BY <1>11, <1>16 DEF WInv

LEMMA ReusesWait ==
  ASSUME IInv, WInv, ClientReusesSerial
  PROVE  WInv'
<1>0. Counts
  BY DEF IInv
<1>1. PICK c \in Calls :
        got_buffer_from_client(Call(client_serial, c[1], c[2], c[3], c[4], client_serial))
  BY DEF ClientReusesSerial
<1>2. PICK m : m = Call(client_serial, c[1], c[2], c[3], c[4], client_serial)
  OBVIOUS
<1>3. m.serial = client_serial /\ got_buffer_from_client(m)
  BY <1>1, <1>2 DEF Call
<1>4. ~(m.serial + serial_offset > last_serial)
  BY <1>0, <1>3 DEF Counts
<1>5. RefuseSerial
  BY <1>3, <1>4 DEF got_buffer_from_client
<1>6. /\ in_loop' = in_loop
      /\ UNCHANGED <<expected_client, rewrite_reply, serial_offset, hello_serial, client_serial,
                     reading, inbox, delivered, toBus, fromBus, todo>>
  BY <1>5 DEF RefuseSerial, ClientReusesSerial, Learned, tables, serials, bus
<1>7. in_loop' \in BOOLEAN /\ (in_loop' => in_loop)
  BY <1>0, <1>6 DEF Counts
<1> QED
  BY <1>6, <1>7, UntouchedWaits

LEMMA RepliesWait ==
  ASSUME IInv, WInv, ClientReplies
  PROVE  WInv'
<1>0. Counts /\ Types /\ Waits /\ Expected /\ Labelled /\ Answered
  BY DEF IInv, WInv
<1>1. PICK c \in inbox : got_buffer_from_client(ReplyTo(c, client_serial + 1))
  BY DEF ClientReplies
<1>2. PICK m : m = ReplyTo(c, client_serial + 1)
  OBVIOUS
<1>3. PICK serial : serial = m.serial + serial_offset
  OBVIOUS
<1>4. client_serial \in Nat /\ serial_offset \in Nat
  BY <1>0 DEF Counts
<1>5. m.type = "return" /\ m.serial = client_serial + 1 /\ m \in ReturnMsg
  BY <1>0, <1>2, <1>4 DEF ReplyTo, ReturnMsg, Types
<1>6. ~(serial <= last_serial)
  BY <1>0, <1>3, <1>5 DEF Counts
<1>7. /\ ForwardReply(m, serial)
      /\ UNCHANGED <<hello_serial, flags, fromBus, bus>>
  BY <1>1, <1>2, <1>3, <1>5, <1>6 DEF got_buffer_from_client
<1>8. /\ ~in_loop /\ reading /\ client_serial > 0
      /\ \A s \in DOMAIN expected_client : expected_client[s] # "FAKE_LIST_NAMES"
  <2>1. CanRead /\ inbox # {}
    BY DEF ClientReplies
  <2> QED
    BY <1>0, <2>1, ReadMeansNoList
<1>9. /\ serial_offset' = serial_offset
      /\ toBus' = toBus \/ toBus' = Append(toBus, [m EXCEPT !.serial = serial])
      /\ UNCHANGED <<expected_client, rewrite_reply>>
  BY <1>7 DEF ForwardReply, tables
<1>10. client_serial' = client_serial + 1 /\ UNCHANGED <<delivered, todo, reading, in_loop>>
  BY <1>7 DEF ClientReplies, Learned, bus, flags
<1>11. Grows
  <2>1. client_serial + 1 \in Nat /\ client_serial <= client_serial + 1
        /\ serial_offset <= serial_offset
    BY <1>4
  <2> QED
    BY <1>4, <1>9, <1>10, <2>1 DEF Grows
<1>12. Waits'
  <2>1. client_serial' # 0
    BY <1>4, <1>10
  <2> QED
    BY <1>0, <1>7, <1>8, <1>9, <1>10, <2>1 DEF Waits
<1>13. Expected'
  <2>1. /\ \A k \in 1 .. client_serial : OnTheBus(k)' = OnTheBus(k) /\ k \in 1 .. client_serial'
        /\ \A s : OfProxy(s) => OfProxy(s)'
    BY <1>11, SerialsKept
  <2>2. \A s \in DOMAIN expected_client :
         /\ expected_client[s] \in OwnKinds => OfProxy(s)'
         /\ expected_client[s] \in ClientKinds => \E k \in 1 .. client_serial' : s = OnTheBus(k)'
    BY <1>0, <2>1 DEF Expected
  <2>3. \A s \in DOMAIN rewrite_reply :
          s > 1 + serial_offset /\ rewrite_reply[s] = s - serial_offset
    BY <1>0 DEF Expected
  <2> QED
    BY <1>9, <2>2, <2>3 DEF Expected
<1>14. Labelled'
  <2>1. PICK w : w = [m EXCEPT !.serial = serial]
    OBVIOUS
  <2>2. w \in ReturnMsg
    BY <1>3, <1>4, <1>5, <2>1 DEF ReturnMsg
  <2>3. w \in ToBusMsg /\ w \notin CallMsg
    BY <2>2 DEF ToBusMsg, ReturnMsg, CallMsg
  <2>4. Elems(Append(toBus, w)) = Elems(toBus) \cup {w}
    BY <1>0, <2>3, ElemsAppended DEF Types
  <2>5. Elems(toBus)' = Elems(toBus') /\ Elems(fromBus)' = Elems(fromBus)
    BY <1>7 DEF Elems
  <2>6. \A x \in Elems(toBus)' : x \in Elems(toBus) \/ LabelledCall(x)'
    BY <1>9, <2>1, <2>3, <2>4, <2>5 DEF LabelledCall
  <2> QED
    BY <1>0, <1>10, <1>11, <2>5, <2>6, LabelledKept
<1>15. Answered'
  BY <1>0, <1>9, <1>10, <1>11, AnsweredKept
<1> QED
  BY <1>12, <1>13, <1>14, <1>15 DEF WInv

LEMMA ReturnsWait ==
  ASSUME IInv, WInv, side_in_cb_returns
  PROVE  WInv'
BY UntouchedWaits DEF side_in_cb_returns, tables, serials, bus, client

-----------------------------------------------------------------------------
(* What the proxy reads from the bus.                                      *)

\* A step that takes a message of the bus and only drops entries of the tables.
LEMMA ReadWaits ==
  ASSUME IInv, WInv, fromBus # <<>>, fromBus' = Tail(fromBus), ~in_loop,
         UNCHANGED <<serial_offset, hello_serial, client_serial, reading, in_loop, toBus, todo>>,
         client_serial = 0 => inbox' = {} /\ delivered' = <<>>,
         \A s \in DOMAIN expected_client' :
           s \in DOMAIN expected_client /\ expected_client'[s] = expected_client[s],
         \A s \in DOMAIN rewrite_reply' :
           s \in DOMAIN rewrite_reply /\ rewrite_reply'[s] = rewrite_reply[s]
  PROVE  Grows /\ Waits' /\ Expected' /\ Labelled'
<1>0. Counts /\ Waits /\ Expected /\ Labelled
  BY DEF IInv, WInv
<1>1. Grows
  BY <1>0 DEF Counts, Grows
<1>2. Elems(fromBus)' \subseteq Elems(fromBus) /\ Elems(toBus)' = Elems(toBus)
  <2>1. Elems(Tail(fromBus)) \subseteq Elems(fromBus)
    BY HeadOfBus
  <2> QED
    BY <2>1 DEF Elems
<1>3. Waits'
  <2>1. client_serial' = 0 => DOMAIN expected_client' = {}
                                /\ \A m \in Elems(fromBus)' : m \notin PeerCallMsg
    BY <1>0, <1>2 DEF Waits
  <2>2. in_loop' \/ client_serial' = 0 => delivered' = <<>> /\ inbox' = {}
    OBVIOUS
  <2>3. \A s \in DOMAIN expected_client' :
          expected_client'[s] = "FAKE_LIST_NAMES" => ~reading' /\ client_serial' = 1
    BY <1>0 DEF Waits
  <2>4. \A s, t \in DOMAIN expected_client' :
          expected_client'[s] = "FAKE_LIST_NAMES" /\ expected_client'[t] = "FAKE_LIST_NAMES"
            => s = t
    BY <1>0 DEF Waits
  <2> QED
    BY <1>0, <2>1, <2>2, <2>3, <2>4 DEF Waits
<1>4. Expected'
  <2>1. \A s : OfProxy(s)' = OfProxy(s) /\ OnTheBus(s)' = OnTheBus(s)
    BY DEF OfProxy, OnTheBus
  <2>2. \A s \in DOMAIN expected_client' :
       /\ expected_client'[s] \in OwnKinds => OfProxy(s)'
       /\ expected_client'[s] \in ClientKinds => \E k \in 1 .. client_serial' : s = OnTheBus(k)'
    BY <1>0, <2>1 DEF Expected
  <2>3. \A s \in DOMAIN rewrite_reply' :
          s > 1 + serial_offset' /\ rewrite_reply'[s] = s - serial_offset'
    BY <1>0 DEF Expected
  <2> QED
    BY <2>2, <2>3 DEF Expected
<1>5. Labelled'
  BY <1>0, <1>1, <1>2, LabelledKept
<1> QED
  BY <1>1, <1>3, <1>4, <1>5

\* The same, when nothing is delivered either.
LEMMA ReadQuietly ==
  ASSUME IInv, WInv, fromBus # <<>>, fromBus' = Tail(fromBus), ~in_loop,
         UNCHANGED <<serial_offset, hello_serial, client_serial, reading, in_loop, toBus, todo,
                     delivered>>,
         client_serial = 0 => inbox' = {},
         \A s \in DOMAIN expected_client' :
           s \in DOMAIN expected_client /\ expected_client'[s] = expected_client[s],
         \A s \in DOMAIN rewrite_reply' :
           s \in DOMAIN rewrite_reply /\ rewrite_reply'[s] = rewrite_reply[s]
  PROVE  WInv'
<1>0. Waits /\ Answered
  BY DEF WInv
<1>1. client_serial = 0 => delivered' = <<>>
  BY <1>0 DEF Waits
<1>2. Grows /\ Waits' /\ Expected' /\ Labelled'
  BY <1>1, ReadWaits
<1>3. Answered'
  BY <1>0, <1>2, AnsweredKept
<1> QED
  BY <1>2, <1>3 DEF WInv

\* The serial under which a reply is delivered is the one the client gave.
LEMMA ClientSerial ==
  ASSUME Counts, Tables, Waits, Expected, NEW s \in DOMAIN expected_client, NEW k,
         SerialOf(s, k), expected_client[s] \in ClientKinds
  PROVE  /\ k \in 1 .. client_serial /\ s = OnTheBus(k)
         /\ client_serial > 0
         /\ expected_client[s] = "REWRITE" => rewrite_reply[s] = k
         /\ (IF s > hello_serial + serial_offset THEN s - serial_offset ELSE s) = k
<1>1. client_serial \in Nat /\ serial_offset \in Nat
  BY DEF Counts
<1>2. PICK l \in 1 .. client_serial : s = OnTheBus(l)
  BY DEF Expected
<1>3. ~OfProxy(s)
  BY <1>1, <1>2, SerialsDiffer
<1>4. k \in 1 .. client_serial /\ s = OnTheBus(k)
  BY <1>3 DEF SerialOf, OfClient
<1>5. client_serial > 0
  BY <1>1, <1>4
<1>6. hello_serial = 1
  BY <1>5 DEF Waits
<1>7. k = 1 => s = 1
  BY <1>4 DEF OnTheBus
<1>8. k # 1 => s = k + serial_offset /\ k > 1
  BY <1>1, <1>4 DEF OnTheBus
<1>9. (IF s > hello_serial + serial_offset THEN s - serial_offset ELSE s) = k
  <2>1. CASE k = 1
    <3>1. ~(1 > 1 + serial_offset)
      BY <1>1
    <3> QED
      BY <1>6, <1>7, <2>1, <3>1
  <2>2. CASE k # 1
    <3>1. s > 1 + serial_offset /\ s - serial_offset = k
      BY <1>1, <1>4, <1>8, <2>2
    <3> QED
      BY <1>6, <3>1
  <2> QED
    BY <2>1, <2>2
<1>10. ASSUME expected_client[s] = "REWRITE"
       PROVE  rewrite_reply[s] = k
  <2>1. s \in DOMAIN rewrite_reply
    BY <1>10 DEF Tables
  <2>2. s > 1 + serial_offset /\ rewrite_reply[s] = s - serial_offset
    BY <2>1 DEF Expected
  <2>3. k # 1
    BY <1>1, <1>7, <2>2
  <2> QED
    BY <1>1, <1>4, <1>8, <2>2, <2>3
<1> QED
  BY <1>4, <1>5, <1>9, <1>10

LEMMA ReplyForClientWaits ==
  ASSUME IInv, WInv, NEW m \in ReplyMsg, m = Head(fromBus), fromBus # <<>>,
         fromBus' = Tail(fromBus), ~in_loop,
         m.reply_serial \in DOMAIN expected_client,
         ReplyForClient(m, expected_client[m.reply_serial]),
         UNCHANGED <<in_loop, closed, bus>>
  PROVE  WInv'
<1>0. Counts /\ Tables /\ Waits /\ Expected /\ Labelled /\ Answered
  BY DEF IInv, WInv
<1>1. PICK s, type : s = m.reply_serial /\ type = expected_client[s]
  OBVIOUS
<1>2. /\ type \in {"NORMAL", "HELLO", "LIST_NAMES", "REWRITE"}
      /\ rewrite_reply' = IF type = "REWRITE" THEN Without(rewrite_reply, s) ELSE rewrite_reply
      /\ expected_client' = Without(expected_client, s)
      /\ UNCHANGED <<serials, reading, toBus>>
  BY <1>1 DEF ReplyForClient
<1>3. PICK names, rs :
        /\ DeliverReply(m, rs, names)
        /\ rs = IF type = "REWRITE" THEN rewrite_reply[s] ELSE RewrittenSerial(m)
        /\ names \subseteq m.names
  <2>0. ReplyForClient(m, type)
    BY <1>1
  <2>1. CASE type = "REWRITE"
    <3>1. DeliverReply(m, rewrite_reply[s], {})
      BY <1>1, <2>0, <2>1 DEF ReplyForClient
    <3> QED
      BY <2>1, <3>1
  <2>2. CASE type = "LIST_NAMES"
    <3>1. DeliverReply(m, RewrittenSerial(m), filter_names_list(m.names))
      BY <2>0, <2>2 DEF ReplyForClient
    <3>2. filter_names_list(m.names) \subseteq m.names
      BY DEF filter_names_list
    <3> QED
      BY <2>2, <3>1, <3>2
  <2>3. CASE type \notin {"REWRITE", "LIST_NAMES"}
    <3>1. DeliverReply(m, RewrittenSerial(m), m.names)
      BY <2>0, <2>3 DEF ReplyForClient
    <3> QED
      BY <2>3, <3>1
  <2> QED
    BY <2>1, <2>2, <2>3
<1>3a. /\ delivered' = Append(delivered, [reply_serial |-> rs, of |-> m.of, names |-> names])
       /\ UNCHANGED <<client_serial, inbox>>
  BY <1>3 DEF DeliverReply
<1>4. SerialOf(s, m.of)
  <2>1. m \in Elems(fromBus)
    BY ElemsPopped DEF IInv, Types
  <2> QED
    BY <1>0, <1>1, <2>1 DEF Labelled, LabelledReply
<1>5. type \in ClientKinds /\ s \in DOMAIN expected_client
  BY <1>1, <1>2 DEF ClientKinds
<1>6. /\ m.of \in 1 .. client_serial /\ s = OnTheBus(m.of) /\ client_serial > 0
      /\ type = "REWRITE" => rewrite_reply[s] = m.of
      /\ (IF s > hello_serial + serial_offset THEN s - serial_offset ELSE s) = m.of
  BY <1>0, <1>1, <1>4, <1>5, ClientSerial
<1>7. rs = m.of
  BY <1>1, <1>3, <1>3a, <1>6 DEF RewrittenSerial
<1>8. UNCHANGED <<serial_offset, hello_serial, todo>>
  BY <1>2 DEF serials, bus
<1>9. /\ DOMAIN expected_client' = DOMAIN expected_client \ {s}
      /\ \A x \in DOMAIN expected_client' : expected_client'[x] = expected_client[x]
  BY <1>2, Removed
<1>10. \A x \in DOMAIN rewrite_reply' :
         x \in DOMAIN rewrite_reply /\ rewrite_reply'[x] = rewrite_reply[x]
  <2>1. CASE type = "REWRITE"
    <3>1. PICK new : new = Without(rewrite_reply, s) /\ rewrite_reply' = new
      BY <1>2, <2>1
    <3>2. /\ DOMAIN new = DOMAIN rewrite_reply \ {s}
          /\ \A x \in DOMAIN rewrite_reply \ {s} : new[x] = rewrite_reply[x]
      BY <3>1, Removed
    <3> QED
      BY <3>1, <3>2
  <2> QED
    BY <1>2, <2>1
<1>11. Grows /\ Waits' /\ Expected' /\ Labelled'
  <2>1. client_serial # 0
    BY <1>0, <1>6 DEF Counts
  <2> QED
    BY <1>2, <1>3, <1>3a, <1>8, <1>9, <1>10, <2>1, ReadWaits
<1>12. Answered'
  <2>1. PICK d : d = [reply_serial |-> rs, of |-> m.of, names |-> names]
    OBVIOUS
  <2>2. d \in Delivery /\ d.of = m.of /\ d.reply_serial = m.of
    <3>1. m.of \in Nat /\ names \in SUBSET (Names \cup Ids)
      BY <1>3, <1>3a DEF ReplyMsg
    <3> QED
      BY <1>7, <2>1, <3>1 DEF Delivery
  <2>3. /\ delivered \in Seq(Delivery) /\ Len(delivered) \in Nat
        /\ \A i \in 1 .. Len(delivered) :
             /\ delivered[i].of \in 1 .. client_serial
             /\ delivered[i].reply_serial = delivered[i].of
             /\ OnTheBus(delivered[i].of) \notin DOMAIN expected_client
        /\ \A i, j \in 1 .. Len(delivered) : delivered[i].of = delivered[j].of => i = j
    BY <1>0 DEF Answered
  <2> DEFINE new == Append(delivered, d)
  <2>4. /\ new \in Seq(Delivery) /\ Len(new) = Len(delivered) + 1
        /\ \A i \in 1 .. Len(delivered) : new[i] = delivered[i]
        /\ new[Len(delivered) + 1] = d
    BY <2>2, <2>3
  <2>5. \A i \in 1 .. Len(new) : i \in 1 .. Len(delivered) \/ i = Len(delivered) + 1
    BY <2>3, <2>4
  <2> HIDE DEF new
  <2>6. \A i \in 1 .. Len(new) :
          /\ new[i].of \in 1 .. client_serial /\ new[i].reply_serial = new[i].of
          /\ OnTheBus(new[i].of) \notin DOMAIN expected_client'
    BY <1>6, <1>9, <2>2, <2>3, <2>4, <2>5
  <2>7. \A i \in 1 .. Len(delivered) : delivered[i].of # m.of
    BY <1>5, <1>6, <2>3
  <2>8. \A i, j \in 1 .. Len(new) : new[i].of = new[j].of => i = j
    BY <2>2, <2>3, <2>4, <2>5, <2>7
  <2>9. delivered' = new
    BY <1>3, <1>3a, <2>1 DEF new
  <2>10. \A k : OnTheBus(k)' = OnTheBus(k)
    BY <1>8 DEF OnTheBus
  <2>11. \A i \in 1 .. Len(delivered') :
           /\ delivered'[i].of \in 1 .. client_serial'
           /\ delivered'[i].reply_serial = delivered'[i].of
           /\ OnTheBus(delivered[i].of)' \notin DOMAIN expected_client'
    <3>1. \A i \in 1 .. Len(new) : OnTheBus(delivered[i].of)' = OnTheBus(new[i].of)
      BY <1>8, <2>9 DEF OnTheBus
    <3> QED
      BY <1>3, <1>3a, <2>6, <2>9, <3>1
  <2> QED
    BY <2>4, <2>8, <2>9, <2>11 DEF Answered
<1> QED
  BY <1>11, <1>12 DEF WInv

LEMMA ListReplyWaits ==
  ASSUME IInv, WInv, NEW m \in ReplyMsg, fromBus # <<>>, fromBus' = Tail(fromBus), ~in_loop,
         m.reply_serial \in DOMAIN expected_client,
         expected_client[m.reply_serial] = "FAKE_LIST_NAMES",
         NEW order \in Orders(WildcardNames(m.names)),
         queue_fake_messages(queue_wildcard_initial_name_ops(order), last_serial,
                             toBus, Without(expected_client, m.reply_serial)),
         reading' = TRUE,
         UNCHANGED <<hello_serial, rewrite_reply, client, in_loop, bus>>
  PROVE  WInv'
<1>0. Counts /\ Tables /\ Types /\ Waits /\ Expected /\ Labelled /\ Answered
  BY DEF IInv, WInv
<1>1. UNCHANGED <<client_serial, inbox, delivered, todo>>
  BY DEF bus, client
<1>2. client_serial = 1 /\ last_serial = 1 + serial_offset
      /\ serial_offset \in Nat /\ last_serial \in Nat
  BY <1>0 DEF Waits, Counts
<1>3. order \in Seq(Names)
  <2>1. WildcardNames(m.names) \subseteq Names
    BY DEF WildcardNames
  <2>2. IsFiniteSet(WildcardNames(m.names))
    BY <2>1, FiniteAssumption, FS_Subset
  <2>3. order \in Seq(WildcardNames(m.names))
    BY <2>2, OrderOf
  <2> QED
    BY <2>1, <2>3
<1>4. PICK ops : ops = queue_wildcard_initial_name_ops(order)
  OBVIOUS
<1>5. /\ ops \in Seq(FakeOps) /\ Len(ops) = Len(order) /\ Len(order) \in Nat
      /\ \A i \in 1 .. Len(order) : ops[i] = Fake("GetNameOwner", order[i], "FAKE_GET_NAME_OWNER")
  BY <1>3, <1>4, QuestionOps
<1>6. \A i \in 1 .. Len(ops) : ops[i].type = "FAKE_GET_NAME_OWNER"
  <2>1. \A x : Fake("GetNameOwner", x, "FAKE_GET_NAME_OWNER").type = "FAKE_GET_NAME_OWNER"
    BY DEF Fake
  <2> QED
    BY <1>5, <2>1
<1> DEFINE kept == Without(expected_client, m.reply_serial)
<1>7. /\ DOMAIN kept = DOMAIN expected_client \ {m.reply_serial}
      /\ \A x \in DOMAIN expected_client \ {m.reply_serial} : kept[x] = expected_client[x]
  BY Removed
<1>8. /\ toBus \in Seq(ToBusMsg)
      /\ DOMAIN kept \subseteq 1 .. last_serial /\ DOMAIN get_owner_reply \subseteq 1 .. last_serial
  BY <1>0, <1>7 DEF Tables, Types
<1>9. queue_fake_messages(ops, last_serial, toBus, kept)
  BY <1>4
<1> HIDE DEF kept
<1>10. Queued(ops, last_serial, toBus, kept)
  BY <1>2, <1>5, <1>8, <1>9, QueueFakes
<1> DEFINE asks == AsksFor(last_serial, ops)
<1>11. /\ Len(ops) \in Nat /\ serial_offset' = serial_offset + Len(ops)
       /\ toBus' = toBus \o asks /\ asks \in Seq(ToBusMsg)
       /\ DOMAIN expected_client' = DOMAIN kept \cup (last_serial + 1 .. last_serial + Len(ops))
       /\ \A x \in DOMAIN kept : expected_client'[x] = kept[x]
       /\ \A i \in 1 .. Len(ops) : expected_client'[last_serial + i] = ops[i].type
  BY <1>10 DEF Queued
<1>12. Len(ops) \in Nat
  BY <1>11
<1>13. Grows
  <2>1. serial_offset + Len(ops) \in Nat /\ serial_offset <= serial_offset + Len(ops)
    BY <1>2, <1>12
  <2> QED
    BY <1>1, <1>2, <1>11, <2>1 DEF Grows
<1>14. /\ \A k \in 1 .. client_serial : OnTheBus(k)' = OnTheBus(k) /\ k \in 1 .. client_serial'
       /\ \A s : OfProxy(s) => OfProxy(s)'
  BY <1>13, SerialsKept
<1>15. /\ \A i \in 1 .. Len(ops) : \A x : x = last_serial + i => OfProxy(x)'
       /\ \A i \in 1 .. Len(ops) : last_serial + i # 1
  <2>1. \A i \in 1 .. Len(ops) :
          last_serial + i \in 2 .. 1 + (serial_offset + Len(ops)) /\ last_serial + i # 1
    BY <1>2, <1>12
  <2>2. ASSUME NEW i \in 1 .. Len(ops), NEW x, x = last_serial + i
        PROVE  OfProxy(x)'
    BY <1>11, <2>1, <2>2 DEF OfProxy
  <2>3. \A i \in 1 .. Len(ops) : \A x : x = last_serial + i => OfProxy(x)'
    BY <2>2
  <2>4. \A i \in 1 .. Len(ops) : last_serial + i # 1
    BY <2>1
  <2> QED
    BY <2>3, <2>4
<1>16. Waits'
  <2>1. \A s \in DOMAIN expected_client' : expected_client'[s] # "FAKE_LIST_NAMES"
    <3>1. ASSUME NEW s \in DOMAIN kept
          PROVE  expected_client'[s] # "FAKE_LIST_NAMES"
      BY <1>0, <1>7, <1>11 DEF Waits
    <3>2. ASSUME NEW s \in last_serial + 1 .. last_serial + Len(ops)
          PROVE  expected_client'[s] # "FAKE_LIST_NAMES"
      <4>1. s - last_serial \in 1 .. Len(ops) /\ s = last_serial + (s - last_serial)
        BY <1>2, <1>12
      <4>2. PICK i \in 1 .. Len(ops) : s = last_serial + i
        BY <4>1
      <4> QED
        BY <1>6, <1>11, <4>2
    <3> QED
      BY <1>11, <3>1, <3>2
  <2>2. client_serial' # 0 /\ ~in_loop' /\ hello_serial' = 1
    BY <1>0, <1>1, <1>2 DEF Waits
  <2> QED
    BY <2>1, <2>2 DEF Waits
<1>17. ASSUME NEW s \in DOMAIN expected_client'
       PROVE  \/ s \in DOMAIN expected_client /\ expected_client'[s] = expected_client[s]
              \/ \E i \in 1 .. Len(ops) : s = last_serial + i
                                            /\ expected_client'[s] = "FAKE_GET_NAME_OWNER"
  <2>1. CASE s \in DOMAIN kept
    BY <1>7, <1>11, <2>1
  <2>2. CASE s \in last_serial + 1 .. last_serial + Len(ops)
    <3>1. s - last_serial \in 1 .. Len(ops) /\ s = last_serial + (s - last_serial)
      BY <1>2, <1>12, <2>2
    <3>2. PICK i \in 1 .. Len(ops) : s = last_serial + i
      BY <3>1
    <3> QED
      BY <1>6, <1>11, <3>2
  <2> QED
    BY <1>11, <2>1, <2>2
<1>18. Expected'
  <2>1. ASSUME NEW s \in DOMAIN expected_client'
        PROVE  /\ expected_client'[s] \in OwnKinds => OfProxy(s)'
               /\ expected_client'[s] \in ClientKinds =>
                    \E k \in 1 .. client_serial' : s = OnTheBus(k)'
    <3>1. CASE s \in DOMAIN expected_client /\ expected_client'[s] = expected_client[s]
      <4>1. /\ expected_client[s] \in OwnKinds => OfProxy(s)
            /\ expected_client[s] \in ClientKinds =>
                 \E k \in 1 .. client_serial : s = OnTheBus(k)
        BY <1>0, <3>1 DEF Expected
      <4> QED
        BY <1>14, <3>1, <4>1
    <3>2. CASE \E i \in 1 .. Len(ops) : s = last_serial + i
                                          /\ expected_client'[s] = "FAKE_GET_NAME_OWNER"
      <4>1. PICK i \in 1 .. Len(ops) : s = last_serial + i
                                         /\ expected_client'[s] = "FAKE_GET_NAME_OWNER"
        BY <3>2
      <4>2. \A j \in 1 .. Len(ops) : \A x : x = last_serial + j => OfProxy(x)'
        BY <1>15
      <4>3. OfProxy(s)'
        BY <4>1, <4>2
      <4> QED
        BY <4>1, <4>3 DEF ClientKinds
    <3> QED
      BY <1>17, <3>1, <3>2
  <2>2. DOMAIN rewrite_reply = {}
    <3>1. ASSUME NEW s \in DOMAIN rewrite_reply
          PROVE  FALSE
      <4>1. s > 1 + serial_offset
        BY <1>0 DEF Expected
      <4>2. s \in DOMAIN expected_client /\ expected_client[s] \in ClientKinds
        BY <1>0 DEF Tables, ClientKinds
      <4>3. PICK k \in 1 .. client_serial : s = OnTheBus(k)
        BY <1>0, <4>2 DEF Expected
      <4>4. s = 1
        BY <1>2, <4>3 DEF OnTheBus
      <4> QED
        BY <1>2, <4>1, <4>4
    <3> QED
      BY <3>1
  <2> QED
    BY <2>1, <2>2 DEF Expected
<1>19. Labelled'
  <2>1. ASSUME NEW x \in Elems(asks)
        PROVE  LabelledCall(x)'
    <3>1. PICK i \in 1 .. Len(ops) : x = asks[i]
      BY <1>2, <1>5, AsksOf DEF Elems
    <3>2. x.serial = last_serial + i /\ x.of = 0 /\ x.dest = Bus
      BY <1>2, <1>5, <3>1, AsksOf
    <3>3. \A j \in 1 .. Len(ops) : \A y : y = last_serial + j => OfProxy(y)'
      BY <1>15
    <3>4. OfProxy(x.serial)'
      BY <3>2, <3>3
    <3> QED
      BY <3>2, <3>4 DEF LabelledCall, SerialOf
  <2> HIDE DEF asks
  <2>2. Elems(toBus \o asks) = Elems(toBus) \cup Elems(asks)
    BY <1>8, <1>11, ElemsJoined
  <2>3. Elems(toBus)' = Elems(toBus \o asks)
    BY <1>11 DEF Elems
  <2>4. \A x \in Elems(toBus)' : x \in Elems(toBus) \/ LabelledCall(x)'
    BY <2>1, <2>2, <2>3
  <2>5. Elems(fromBus)' \subseteq Elems(fromBus)
    <3>1. Elems(Tail(fromBus)) \subseteq Elems(fromBus)
      BY HeadOfBus
    <3> QED
      BY <3>1 DEF Elems
  <2> QED
    BY <1>0, <1>1, <1>13, <2>4, <2>5, LabelledKept
<1>20. Answered'
  <2>1. \A k \in 1 .. client_serial : OnTheBus(k) = 1
    BY <1>2 DEF OnTheBus
  <2>2. \A s \in DOMAIN expected_client' :
           \/ s \in DOMAIN expected_client
           \/ \A k \in 1 .. client_serial : s # OnTheBus(k)
    <3>1. \A i \in 1 .. Len(ops) : last_serial + i # 1
      BY <1>2, <1>12
    <3> QED
      BY <1>17, <2>1, <3>1
  <2> QED
    BY <1>0, <1>1, <1>13, <2>2, AnsweredKept
<1> QED
  BY <1>16, <1>18, <1>19, <1>20 DEF WInv

LEMMA GotReplyWaits ==
  ASSUME IInv, WInv, NEW m \in ReplyMsg, m = Head(fromBus), fromBus # <<>>,
         fromBus' = Tail(fromBus), ~in_loop,
         got_reply_from_bus(m), UNCHANGED <<in_loop, closed, bus>>
  PROVE  WInv'
<1> DEFINE s == m.reply_serial
<1>0. client_serial = 0 => inbox = {}
  BY DEF WInv, Waits
<1>1. todo' = todo
  BY DEF bus
<1>2. CASE /\ s \notin DOMAIN expected_client
           /\ UNCHANGED <<tables, serials, unique_id_policy, reading, toBus, client>>
  <2>1. UNCHANGED <<expected_client, rewrite_reply, serial_offset, hello_serial, client_serial,
                    reading, toBus, inbox, delivered>>
    BY <1>2 DEF tables, serials, client
  <2> QED
    BY <1>0, <1>1, <2>1, ReadQuietly
<1>3. CASE s \in DOMAIN expected_client /\ ReplyForClient(m, expected_client[s])
  BY <1>3, ReplyForClientWaits
<1>4. CASE /\ s \in DOMAIN expected_client /\ ReplyForProxy(m, expected_client[s])
           /\ UNCHANGED <<rewrite_reply, client>>
  <2>1. CASE /\ expected_client[s] = "FAKE_LIST_NAMES"
             /\ \E order \in Orders(WildcardNames(m.names)) :
                  queue_fake_messages(queue_wildcard_initial_name_ops(order), last_serial,
                                      toBus, Without(expected_client, s))
             /\ reading' = TRUE
             /\ UNCHANGED <<unique_id_policy, hello_serial>>
    <3>1. PICK order \in Orders(WildcardNames(m.names)) :
            queue_fake_messages(queue_wildcard_initial_name_ops(order), last_serial,
                                toBus, Without(expected_client, s))
      BY <2>1
    <3>2. UNCHANGED <<hello_serial, rewrite_reply, client>>
      BY <1>4, <2>1
    <3> QED
      BY <1>4, <2>1, <3>1, <3>2, ListReplyWaits
  <2>2. CASE /\ expected_client' = Without(expected_client, s)
             /\ UNCHANGED <<serials, reading, toBus>>
    <3>1. UNCHANGED <<serial_offset, hello_serial, client_serial, inbox, delivered>>
      BY <1>4, <2>2 DEF serials, client
    <3>2. \A x \in DOMAIN expected_client' :
            x \in DOMAIN expected_client /\ expected_client'[x] = expected_client[x]
      <4>1. PICK k : k = s
        OBVIOUS
      <4>2. expected_client' = Without(expected_client, k)
        BY <2>2, <4>1
      <4> QED
        BY <4>2, Removed
    <3> QED
      BY <1>0, <1>1, <1>4, <2>2, <3>1, <3>2, ReadQuietly
  <2> QED
    BY <1>4, <2>1, <2>2 DEF ReplyForProxy
<1> QED
  BY <1>2, <1>3, <1>4 DEF got_reply_from_bus

LEMMA BusReadWaits ==
  ASSUME IInv, WInv, got_buffer_from_bus
  PROVE  WInv'
<1>1. PICK m : m = Head(fromBus)
  OBVIOUS
<1>2. /\ fromBus # <<>> /\ fromBus' = Tail(fromBus) /\ ~in_loop
      /\ UNCHANGED <<in_loop, closed, bus>> /\ todo' = todo
  BY DEF got_buffer_from_bus, bus
<1>3. /\ m.type \in {"return", "error"} => m \in ReplyMsg
      /\ m.type = "call" => m \in PeerCallMsg
      /\ m.type \in {"return", "error", "call", "signal", "broadcast"}
  BY <1>1, <1>2, HeadOfBus
<1>4. m \in Elems(fromBus)
  BY <1>1, <1>2, ElemsPopped DEF IInv, Types
<1>5. client_serial = 0 => inbox = {}
  BY DEF WInv, Waits
<1>6. CASE m.type \in {"return", "error"}
  <2>1. got_reply_from_bus(m)
    BY <1>1, <1>6 DEF got_buffer_from_bus
  <2> QED
    BY <1>1, <1>2, <1>3, <1>6, <2>1, GotReplyWaits
<1>7. CASE m.type = "call"
  <2>1. got_call_from_bus(m)
    BY <1>1, <1>7 DEF got_buffer_from_bus
  <2>2. client_serial # 0
    BY <1>3, <1>4, <1>7 DEF WInv, Waits
  <2>3. UNCHANGED <<expected_client, rewrite_reply, serial_offset, hello_serial, client_serial,
                    reading, toBus, delivered>>
    BY <2>1 DEF got_call_from_bus, tables, serials
  <2> QED
    BY <1>2, <2>2, <2>3, ReadQuietly
<1>8. CASE m.type \in {"signal", "broadcast"}
  <2>1. got_name_owner_changed(m) \/ got_broadcast(m)
    BY <1>1, <1>8 DEF got_buffer_from_bus
  <2>2. UNCHANGED <<expected_client, rewrite_reply, serial_offset, hello_serial, client_serial,
                    reading, toBus, delivered, inbox>>
    <3>1. UNCHANGED <<tables, serials, client_serial, reading, toBus, delivered, inbox>>
      BY <2>1 DEF got_name_owner_changed, got_broadcast
    <3> QED
      BY <3>1 DEF tables, serials
  <2> QED
    BY <1>2, <1>5, <2>2, ReadQuietly
<1> QED
  BY <1>3, <1>6, <1>7, <1>8

LEMMA InitWaits ==
  ASSUME Init
  PROVE  WInv
<1>1. Elems(toBus) = {} /\ Elems(fromBus) = {}
  BY DEF Init, Elems
<1>2. Waits
  BY <1>1 DEF Init, Waits
<1>3. Expected
  BY DEF Init, Expected
<1>4. Labelled
  BY <1>1 DEF Init, Labelled
<1>5. Answered
  BY DEF Init, Answered
<1> QED
  BY <1>2, <1>3, <1>4, <1>5 DEF WInv

LEMMA NextWaits ==
  ASSUME IInv, WInv, ~Pipelining, [Next]_vars
  PROVE  WInv'
<1>1. CASE ClientHello
  BY <1>1, HelloWaits
<1>2. CASE ClientCalls
  BY <1>2, CallsWait
<1>3. CASE ClientReusesSerial
  BY <1>3, ReusesWait
<1>4. CASE ClientReplies
  BY <1>4, RepliesWait
<1>5. CASE side_in_cb_returns
  BY <1>5, ReturnsWait
<1>6. CASE got_buffer_from_bus
  BY <1>6, BusReadWaits
<1>7. CASE BusHandles
  BY <1>7, BusWaits
<1>8. CASE PeerAnswers \/ PeerCallsClient \/ PeerBroadcasts \/ PeerChangesOwner
  BY <1>8, PeersWait
<1>9. CASE UNCHANGED vars
  <2>1. /\ in_loop' = in_loop
        /\ UNCHANGED <<expected_client, rewrite_reply, serial_offset, hello_serial, client_serial,
                       reading, inbox, delivered, toBus, fromBus, todo>>
    BY <1>9 DEF vars, tables, serials, flags, bus, client
  <2>2. in_loop' \in BOOLEAN /\ (in_loop' => in_loop)
    BY <2>1 DEF IInv, Counts
  <2> QED
    BY <2>1, <2>2, UntouchedWaits
<1> QED
  BY <1>1, <1>2, <1>3, <1>4, <1>5, <1>6, <1>7, <1>8, <1>9 DEF Next

\* For a client that waits for the reply to Hello, every serial on the bus is
\* whose SerialOf says, and each reply expected is labelled for it.
THEOREM Waiting == ~Pipelining /\ Spec => []WInv
<1> SUFFICES ASSUME ~Pipelining
             PROVE  Spec => []WInv
  OBVIOUS
<1>1. Init => WInv
  BY InitWaits
<1>2. IInv /\ WInv /\ [Next]_vars => WInv'
  BY NextWaits
<1> QED
  BY <1>1, <1>2, Invariance, PTL DEF Spec

\* A client that waits for the reply to Hello sees each of its calls answered at
\* most once, under the serial it gave, whatever the proxy sent of its own.
THEOREM RepliesMatch == ~Pipelining /\ Spec => []RepliesMatchCalls
<1>1. WInv => RepliesMatchCalls
  <2> SUFFICES ASSUME Answered
               PROVE  RepliesMatchCalls
    BY DEF WInv
  <2>1. DOMAIN delivered = 1 .. Len(delivered)
    BY DEF Answered
  <2> QED
    BY <2>1 DEF Answered, RepliesMatchCalls
<1> QED
  BY <1>1, Waiting, PTL

-----------------------------------------------------------------------------
(* The calls of the proxy, and who owns what.                              *)

Own(m) == m \in CallMsg /\ m.of = 0
OwnAnswer(m) == m \in ReplyMsg /\ m.of = 0
IsHello(m) == m \in CallMsg /\ m.member = "Hello"

\* The answer to each call of the proxy is expected, for what the call asks.
Awaited(m) ==
  Own(m) =>
    /\ m.dest = Bus /\ ~m.no_reply /\ m.serial \in DOMAIN expected_client
    /\ \/ /\ m.member = "AddMatch" /\ m.arg \in Names \cup Prefixes
          /\ expected_client[m.serial] = "FILTER"
       \/ /\ m.member = "GetNameOwner" /\ m.arg \in Names
          /\ expected_client[m.serial] = "FAKE_GET_NAME_OWNER"
          /\ get_owner_reply[m.serial] = m.arg
       \/ m.member = "ListNames" /\ expected_client[m.serial] = "FAKE_LIST_NAMES"

AwaitedAnswer(m) ==
  OwnAnswer(m) =>
    /\ m.reply_serial \in DOMAIN expected_client
    /\ \/ /\ expected_client[m.reply_serial] = "FILTER"
          /\ m.names = {} /\ m.id = NULL
       \/ /\ expected_client[m.reply_serial] = "FAKE_GET_NAME_OWNER"
          /\ m.names = IF m.id = NULL THEN {} ELSE {get_owner_reply[m.reply_serial]}
       \/ expected_client[m.reply_serial] = "FAKE_LIST_NAMES" /\ m.id = NULL

AllAwaited ==
  /\ \A m \in Elems(toBus) : Awaited(m)
  /\ \A m \in Elems(fromBus) : AwaitedAnswer(m)

\* No two calls or answers of the proxy's own have one serial.
OneEach ==
  /\ \A i, j \in 1 .. Len(toBus) :
       i # j /\ Own(toBus[i]) /\ Own(toBus[j]) => toBus[i].serial # toBus[j].serial
  /\ \A i, j \in 1 .. Len(fromBus) :
       i # j /\ OwnAnswer(fromBus[i]) /\ OwnAnswer(fromBus[j]) =>
         fromBus[i].reply_serial # fromBus[j].reply_serial
  /\ \A x \in Elems(toBus), y \in Elems(fromBus) :
       Own(x) /\ OwnAnswer(y) => x.serial # y.reply_serial

\* Nothing of the client but Hello goes to the bus before the proxy's calls.
OwnFirst ==
  /\ \A i, j \in 1 .. Len(toBus) :
       i < j /\ Own(toBus[j]) => Own(toBus[i]) \/ IsHello(toBus[i])
  /\ client_serial <= 1 => \A m \in Elems(toBus) : Own(m) \/ IsHello(m)

Asking == AllAwaited /\ OneEach /\ OwnFirst

\* That u may be what the policy of n says.
Allowed(u, n) == unique_id_policy[u] >= xdg_app_proxy_get_policy(n)
Wild(n) == xdg_app_proxy_get_wildcard_policy(n) > NONE

\* A message from which the proxy learns that u owns n.
Tells(m, n, u) ==
  \/ m \in SignalMsg /\ m.name = n /\ m.new = u
  \/ OwnAnswer(m) /\ m.id = u /\ n \in m.names

\* A message after which it will ask or be told who owns n.
WillTell(m, n) ==
  Tells(m, n, owner[n]) \/ (Wild(n) /\ OwnAnswer(m) /\ m.id = NULL /\ n \in m.names)
WillAsk(m, n) ==
  Own(m) /\ ((m.member = "GetNameOwner" /\ m.arg = n) \/ (Wild(n) /\ m.member = "ListNames"))
WillMatch(m, n) == Own(m) /\ m.member = "AddMatch" /\ m.arg \in {n, ParentOf[n]}

\* Who owns n is allowed, or the proxy will be told or will ask.
OwnerSeen(n) ==
  \/ Allowed(owner[n], n)
  \/ \E m \in Elems(fromBus) : WillTell(m, n)
  \/ \E m \in Elems(toBus) : WillAsk(m, n)

\* The bus will tell of the next owner, or match it before a question.
ChangeSeen(n) ==
  \/ Matched(n)
  \/ \E i, j \in 1 .. Len(toBus) : i < j /\ WillMatch(toBus[i], n) /\ WillAsk(toBus[j], n)

OwnersSeen ==
  client_serial > 0 => \A n \in Names :
    xdg_app_proxy_get_policy(n) > NONE => ChangeSeen(n) /\ (owner[n] # NULL => OwnerSeen(n))

\* A reply that tells the client of an owner comes after what tells the proxy.
RepliesSeen ==
  \A j \in 1 .. Len(fromBus) : fromBus[j] \in ReplyMsg /\ fromBus[j].id # NULL =>
    \A n \in fromBus[j].names \cap Names :
      \/ Allowed(fromBus[j].id, n)
      \/ \E i \in 1 .. j : Tells(fromBus[i], n, fromBus[j].id)

KnownAllowed == \A k \in known : k \in Names \X Ids /\ Allowed(k[2], k[1])

OInv == Asking /\ OwnersSeen /\ RepliesSeen /\ KnownAllowed

-----------------------------------------------------------------------------
(* Positions in the two streams.                                           *)

\* t goes on where s ends; t is s without its head.
Extends(t, s) ==
  /\ Len(s) \in Nat /\ Len(t) \in Nat /\ Len(s) <= Len(t)
  /\ \A i \in 1 .. Len(s) : i \in 1 .. Len(t) /\ t[i] = s[i]
Shortens(t, s) ==
  /\ Len(t) \in Nat /\ Len(s) = Len(t) + 1 /\ 1 \in 1 .. Len(s) /\ Head(s) = s[1]
  /\ \A i \in 1 .. Len(t) : i + 1 \in 1 .. Len(s) /\ t[i] = s[i + 1]
  /\ \A i \in 1 .. Len(s) : i = 1 \/ (i - 1 \in 1 .. Len(t) /\ t[i - 1] = s[i])

LEMMA ExtendsItself ==
  ASSUME NEW S, NEW s \in Seq(S)
  PROVE  Extends(s, s)
BY DEF Extends

LEMMA JoinedExtends ==
  ASSUME NEW S, NEW s \in Seq(S), NEW t \in Seq(S)
  PROVE  /\ s \o t \in Seq(S) /\ Extends(s \o t, s) /\ Len(s \o t) = Len(s) + Len(t)
         /\ \A j \in 1 .. Len(s \o t) : j > Len(s) =>
              j - Len(s) \in 1 .. Len(t) /\ (s \o t)[j] = t[j - Len(s)]
<1>1. /\ Len(s) \in Nat /\ Len(t) \in Nat /\ Len(s \o t) = Len(s) + Len(t) /\ s \o t \in Seq(S)
      /\ \A i \in 1..Len(s) : (s \o t)[i] = s[i] /\ i \in 1..Len(s \o t)
      /\ \A i \in 1..Len(t) : (s \o t)[Len(s) + i] = t[i]
      /\ \A i \in 1..Len(s \o t) : i \in 1..Len(s) \/ i - Len(s) \in 1..Len(t)
  BY Joined
<1>2. Len(s) <= Len(s \o t)
  BY <1>1
<1>3. ASSUME NEW j \in 1 .. Len(s \o t), j > Len(s)
      PROVE  j - Len(s) \in 1 .. Len(t) /\ (s \o t)[j] = t[j - Len(s)]
  <2>1. j - Len(s) \in 1 .. Len(t)
    BY <1>1, <1>3
  <2>2. j = Len(s) + (j - Len(s))
    BY <1>1, <1>3
  <2> QED
    BY <1>1, <2>1, <2>2
<1> QED
  BY <1>1, <1>2, <1>3 DEF Extends

LEMMA NoneJoined ==
  ASSUME NEW S, NEW s \in Seq(S)
  PROVE  <<>> \in Seq(S) /\ Len(<<>>) = 0 /\ s \o <<>> = s
<1>1. <<>> \in Seq(S) /\ Len(<<>>) = 0
  OBVIOUS
<1>2. s \o <<>> \in Seq(S) /\ Len(s \o <<>>) = Len(s) /\ \A i \in 1 .. Len(s) : (s \o <<>>)[i] = s[i]
  OBVIOUS
<1>3. s \o <<>> = s
  BY <1>2
<1> QED
  BY <1>1, <1>3

LEMMA ExtendsOn ==
  ASSUME NEW s, NEW t, NEW u, Extends(t, s), Extends(u, t)
  PROVE  Extends(u, s)
<1>1. Len(s) <= Len(u)
  BY DEF Extends
<1> QED
  BY <1>1 DEF Extends

LEMMA AppendExtends ==
  ASSUME NEW S, NEW s \in Seq(S), NEW x \in S
  PROVE  /\ Append(s, x) \in Seq(S) /\ Extends(Append(s, x), s)
         /\ Len(Append(s, x)) = Len(s) + 1 /\ Len(s) \in Nat
         /\ \A j \in 1 .. Len(Append(s, x)) : j > Len(s) =>
              j = Len(Append(s, x)) /\ Append(s, x)[j] = x
BY DEF Extends

LEMMA TailShortens ==
  ASSUME NEW S, NEW s \in Seq(S), s # <<>>
  PROVE  Shortens(Tail(s), s)
<1>1. Len(s) \in Nat /\ Len(s) > 0 /\ Len(Tail(s)) = Len(s) - 1 /\ Head(s) = s[1]
  OBVIOUS
<1>2. \A i \in 1 .. Len(s) - 1 : Tail(s)[i] = s[i + 1]
  OBVIOUS
<1>3. ASSUME NEW i \in 1 .. Len(s), i # 1
      PROVE  i - 1 \in 1 .. Len(Tail(s)) /\ Tail(s)[i - 1] = s[i]
  <2>1. i - 1 \in 1 .. Len(s) - 1 /\ (i - 1) + 1 = i
    BY <1>1, <1>3
  <2> QED
    BY <1>1, <1>2, <2>1
<1> QED
  BY <1>1, <1>2, <1>3 DEF Shortens

-----------------------------------------------------------------------------
(* Steps of the bus and the peers.                                         *)

\* The bus takes a message or does not.
Takes(popped) ==
  /\ popped => toBus # <<>> /\ Shortens(toBus', toBus)
  /\ ~popped => toBus' = toBus

LEMMA OutsideAsks ==
  ASSUME IInv, Asking, UNCHANGED proxy, NEW popped \in BOOLEAN, Takes(popped),
         Extends(fromBus', fromBus),
         \A j \in 1 .. Len(fromBus') : j > Len(fromBus) /\ OwnAnswer(fromBus'[j]) =>
           /\ j = Len(fromBus') /\ popped /\ Own(Head(toBus))
           /\ fromBus'[j].reply_serial = Head(toBus).serial /\ AwaitedAnswer(fromBus'[j])
  PROVE  Asking'
<1>0. AllAwaited /\ OneEach /\ OwnFirst
  BY DEF Asking
<1>1. UNCHANGED <<expected_client, get_owner_reply, client_serial>>
  BY DEF proxy, tables, client
<1>2. ASSUME NEW i \in 1 .. Len(toBus')
      PROVE  \E k \in 1 .. Len(toBus) :
               /\ toBus'[i] = toBus[k] /\ (popped => k = i + 1) /\ (~popped => k = i)
  BY <1>2 DEF Takes, Shortens
<1>3. ASSUME NEW i \in 1 .. Len(fromBus')
      PROVE  \/ i \in 1 .. Len(fromBus) /\ fromBus'[i] = fromBus[i]
             \/ i > Len(fromBus)
  BY <1>3 DEF Extends
<1>4. \A m : (Awaited(m)' <=> Awaited(m)) /\ (AwaitedAnswer(m)' <=> AwaitedAnswer(m))
  BY <1>1 DEF Awaited, AwaitedAnswer
<1>5. AllAwaited'
  <2>1. \A m \in Elems(toBus)' : m \in Elems(toBus)
    BY <1>2 DEF Elems
  <2>2. ASSUME NEW m \in Elems(fromBus)'
        PROVE  AwaitedAnswer(m)
    <3>1. PICK i \in 1 .. Len(fromBus') : m = fromBus'[i]
      BY DEF Elems
    <3>2. CASE i \in 1 .. Len(fromBus) /\ fromBus'[i] = fromBus[i]
      BY <1>0, <3>1, <3>2 DEF AllAwaited, Elems
    <3>3. CASE i > Len(fromBus)
      BY <3>1, <3>3 DEF AwaitedAnswer
    <3> QED
      BY <1>3, <3>2, <3>3
  <2> QED
    BY <1>0, <1>4, <2>1, <2>2 DEF AllAwaited
<1>6. OneEach'
  <2>1. ASSUME NEW i \in 1 .. Len(toBus'), NEW j \in 1 .. Len(toBus'),
               i # j, Own(toBus'[i]), Own(toBus'[j])
        PROVE  toBus'[i].serial # toBus'[j].serial
    <3>1. PICK k \in 1 .. Len(toBus) :
             toBus'[i] = toBus[k] /\ (popped => k = i + 1) /\ (~popped => k = i)
      BY <1>2
    <3>2. PICK l \in 1 .. Len(toBus) :
             toBus'[j] = toBus[l] /\ (popped => l = j + 1) /\ (~popped => l = j)
      BY <1>2
    <3>3. k # l
      BY <2>1, <3>1, <3>2
    <3> QED
      BY <1>0, <2>1, <3>1, <3>2, <3>3 DEF OneEach
  <2>2. ASSUME NEW x \in Elems(toBus)', NEW j \in 1 .. Len(fromBus'),
               Own(x), OwnAnswer(fromBus'[j])
        PROVE  x.serial # fromBus'[j].reply_serial
    <3>1. PICK i \in 1 .. Len(toBus') : x = toBus'[i]
      BY DEF Elems
    <3>2. PICK k \in 1 .. Len(toBus) :
             toBus'[i] = toBus[k] /\ (popped => k = i + 1) /\ (~popped => k = i)
      BY <1>2
    <3>3. CASE j \in 1 .. Len(fromBus) /\ fromBus'[j] = fromBus[j]
      <4>1. x \in Elems(toBus) /\ fromBus'[j] \in Elems(fromBus)
        BY <3>1, <3>2, <3>3 DEF Elems
      <4> QED
        BY <1>0, <2>2, <4>1 DEF OneEach
    <3>4. CASE j > Len(fromBus)
      <4>1. /\ popped /\ Own(Head(toBus)) /\ fromBus'[j].reply_serial = Head(toBus).serial
        BY <2>2, <3>4
      <4>2. 1 \in 1 .. Len(toBus) /\ Head(toBus) = toBus[1]
        BY <4>1 DEF Takes, Shortens
      <4>3. k # 1
        BY <3>2, <4>1
      <4>4. toBus[k].serial # toBus[1].serial
        BY <1>0, <2>2, <3>1, <3>2, <4>1, <4>2, <4>3 DEF OneEach
      <4> QED
        BY <3>1, <3>2, <4>1, <4>2, <4>4
    <3> QED
      BY <1>3, <3>3, <3>4
  <2>3. ASSUME NEW i \in 1 .. Len(fromBus'), NEW j \in 1 .. Len(fromBus'),
               i < j, OwnAnswer(fromBus'[i]), OwnAnswer(fromBus'[j])
        PROVE  fromBus'[i].reply_serial # fromBus'[j].reply_serial
    <3>1. CASE j \in 1 .. Len(fromBus)
      <4>1. i \in 1 .. Len(fromBus) /\ fromBus'[i] = fromBus[i] /\ fromBus'[j] = fromBus[j]
        BY <2>3, <3>1 DEF Extends
      <4> QED
        BY <1>0, <2>3, <3>1, <4>1 DEF OneEach
    <3>2. CASE j > Len(fromBus)
      <4>1. /\ popped /\ Own(Head(toBus)) /\ fromBus'[j].reply_serial = Head(toBus).serial
        BY <2>3, <3>2
      <4>2. i # Len(fromBus')
        BY <2>3 DEF Extends
      <4>3. i \in 1 .. Len(fromBus) /\ fromBus'[i] = fromBus[i]
        BY <1>3, <2>3, <4>2
      <4>4. Head(toBus) \in Elems(toBus) /\ fromBus[i] \in Elems(fromBus)
        BY <4>1, <4>3 DEF Takes, Shortens, Elems
      <4>5. Head(toBus).serial # fromBus[i].reply_serial
        BY <1>0, <2>3, <4>1, <4>3, <4>4 DEF OneEach
      <4> QED
        BY <4>1, <4>3, <4>5
    <3> QED
      BY <1>3, <3>1, <3>2
  <2>4. ASSUME NEW i \in 1 .. Len(fromBus'), NEW j \in 1 .. Len(fromBus'),
               i # j, OwnAnswer(fromBus'[i]), OwnAnswer(fromBus'[j])
        PROVE  fromBus'[i].reply_serial # fromBus'[j].reply_serial
    <3>1. i < j \/ j < i
      BY <2>4 DEF Extends
    <3> QED
      BY <2>3, <2>4, <3>1
  <2>5. \A y \in Elems(fromBus)' : \E j \in 1 .. Len(fromBus') : y = fromBus'[j]
    BY DEF Elems
  <2> QED
    BY <2>1, <2>2, <2>4, <2>5 DEF OneEach, Own, OwnAnswer
<1>7. OwnFirst'
  <2>1. ASSUME NEW i \in 1 .. Len(toBus'), NEW j \in 1 .. Len(toBus'), i < j, Own(toBus'[j])
        PROVE  Own(toBus'[i]) \/ IsHello(toBus'[i])
    <3>1. PICK k \in 1 .. Len(toBus) :
             toBus'[i] = toBus[k] /\ (popped => k = i + 1) /\ (~popped => k = i)
      BY <1>2
    <3>2. PICK l \in 1 .. Len(toBus) :
             toBus'[j] = toBus[l] /\ (popped => l = j + 1) /\ (~popped => l = j)
      BY <1>2
    <3>3. k < l
      BY <2>1, <3>1, <3>2
    <3> QED
      BY <1>0, <2>1, <3>1, <3>2, <3>3 DEF OwnFirst
  <2>2. Elems(toBus)' \subseteq Elems(toBus)
    BY <1>2 DEF Elems
  <2> QED
    BY <1>0, <1>1, <2>1, <2>2 DEF OwnFirst, Own, IsHello
<1> QED
  BY <1>5, <1>6, <1>7 DEF Asking

\* What has been seen to be, or will be, of the owners.
LEMMA OutsideSees ==
  ASSUME IInv, OwnersSeen, UNCHANGED proxy, NEW popped \in BOOLEAN, Takes(popped),
         Extends(fromBus', fromBus), matches \subseteq matches',
         \A n \in Names : popped /\ WillMatch(Head(toBus), n) => Matched(n)',
         \A n \in Names : popped /\ WillAsk(Head(toBus), n) /\ owner[n] # NULL =>
           owner'[n] = owner[n] /\ \E m \in Elems(fromBus)' : WillTell(m, n),
         \A n \in Names : owner'[n] # owner[n] /\ owner'[n] # NULL /\ Matched(n) =>
           \E m \in Elems(fromBus)' : Tells(m, n, owner'[n])
  PROVE  OwnersSeen'
<1>1. UNCHANGED <<unique_id_policy, client_serial>>
  BY DEF proxy, client
<1>2. SUFFICES ASSUME client_serial > 0, NEW n \in Names, xdg_app_proxy_get_policy(n) > NONE
               PROVE  ChangeSeen(n)' /\ (owner'[n] # NULL => OwnerSeen(n)')
  BY <1>1 DEF OwnersSeen
<1>3. ChangeSeen(n) /\ (owner[n] # NULL => OwnerSeen(n))
  BY <1>2 DEF OwnersSeen
<1>4. ASSUME NEW i \in 1 .. Len(toBus), i # 1 \/ ~popped
      PROVE  \E k \in 1 .. Len(toBus') :
               /\ toBus'[k] = toBus[i] /\ (popped => k = i - 1) /\ (~popped => k = i)
  BY <1>4 DEF Takes, Shortens
<1>5. Matched(n) => Matched(n)'
  BY DEF Matched
<1>6. ChangeSeen(n)'
  <2>1. CASE Matched(n)
    BY <1>5, <2>1 DEF ChangeSeen
  <2>2. ASSUME NEW i \in 1 .. Len(toBus), NEW j \in 1 .. Len(toBus), i < j,
               WillMatch(toBus[i], n), WillAsk(toBus[j], n)
        PROVE  ChangeSeen(n)'
    <3>1. CASE popped /\ i = 1
      <4>1. Head(toBus) = toBus[i]
        BY <3>1 DEF Takes, Shortens
      <4>2. Matched(n)'
        BY <2>2, <3>1, <4>1
      <4> QED
        BY <4>2 DEF ChangeSeen
    <3>2. CASE ~(popped /\ i = 1)
      <4>1. PICK k \in 1 .. Len(toBus') :
              toBus'[k] = toBus[i] /\ (popped => k = i - 1) /\ (~popped => k = i)
        BY <1>4, <3>2
      <4>2. j # 1
        BY <2>2
      <4>3. PICK l \in 1 .. Len(toBus') :
              toBus'[l] = toBus[j] /\ (popped => l = j - 1) /\ (~popped => l = j)
        BY <1>4, <4>2
      <4>4. k < l
        BY <2>2, <4>1, <4>3
      <4>5. WillMatch(toBus'[k], n) /\ WillAsk(toBus'[l], n)
        BY <2>2, <4>1, <4>3
      <4> QED
        BY <4>4, <4>5 DEF ChangeSeen, WillMatch, WillAsk, Own
    <3> QED
      BY <3>1, <3>2
  <2> QED
    BY <1>3, <2>1, <2>2 DEF ChangeSeen
<1>7. ASSUME owner'[n] # NULL
      PROVE  OwnerSeen(n)'
  <2>1. \A m \in Elems(fromBus) : m \in Elems(fromBus)'
    BY DEF Extends, Elems
  <2>2. CASE owner'[n] = owner[n]
    <3>1. \A m : WillTell(m, n)' <=> WillTell(m, n)
      BY <2>2 DEF WillTell, Tells, OwnAnswer
    <3>2. CASE Allowed(owner[n], n)
      BY <1>1, <2>2, <3>2 DEF OwnerSeen, Allowed
    <3>3. CASE \E m \in Elems(fromBus) : WillTell(m, n)
      BY <2>1, <3>1, <3>3 DEF OwnerSeen
    <3>4. ASSUME NEW m \in Elems(toBus), WillAsk(m, n)
          PROVE  OwnerSeen(n)'
      <4>1. PICK i \in 1 .. Len(toBus) : m = toBus[i]
        BY DEF Elems
      <4>2. CASE popped /\ i = 1
        <5>1. Head(toBus) = m
          BY <4>1, <4>2 DEF Takes, Shortens
        <5> QED
          BY <1>7, <2>2, <3>1, <3>4, <4>2, <5>1 DEF OwnerSeen
      <4>3. CASE ~(popped /\ i = 1)
        <5>1. m \in Elems(toBus)'
          BY <1>4, <4>1, <4>3 DEF Elems
        <5> QED
          BY <3>4, <5>1 DEF OwnerSeen, WillAsk, Own
      <4> QED
        BY <4>2, <4>3
    <3> QED
      BY <1>3, <1>7, <2>2, <3>2, <3>3, <3>4 DEF OwnerSeen
  <2>3. CASE owner'[n] # owner[n]
    <3>1. CASE Matched(n)
      <4>1. PICK m \in Elems(fromBus)' : Tells(m, n, owner'[n])
        BY <1>7, <2>3, <3>1
      <4>2. WillTell(m, n)'
        BY <4>1 DEF WillTell, Tells, OwnAnswer
      <4> QED
        BY <4>2 DEF OwnerSeen
    <3>2. CASE ~Matched(n)
      <4>1. PICK i, j \in 1 .. Len(toBus) :
              i < j /\ WillMatch(toBus[i], n) /\ WillAsk(toBus[j], n)
        BY <1>3, <3>2 DEF ChangeSeen
      <4>2. j # 1
        BY <4>1
      <4>3. toBus[j] \in Elems(toBus)'
        BY <1>4, <4>2 DEF Elems
      <4> QED
        BY <4>1, <4>3 DEF OwnerSeen, WillAsk, Own
    <3> QED
      BY <3>1, <3>2
  <2> QED
    BY <2>2, <2>3
<1> QED
  BY <1>6, <1>7

LEMMA OutsideTells ==
  ASSUME IInv, RepliesSeen, KnownAllowed, UNCHANGED proxy, Extends(fromBus', fromBus),
         \A j \in 1 .. Len(fromBus') :
           j > Len(fromBus) /\ fromBus'[j] \in ReplyMsg /\ fromBus'[j].id # NULL =>
             \A n \in fromBus'[j].names \cap Names :
               \/ Allowed(fromBus'[j].id, n)
               \/ \E m \in Elems(fromBus) : Tells(m, n, fromBus'[j].id)
               \/ Tells(fromBus'[j], n, fromBus'[j].id)
  PROVE  RepliesSeen' /\ KnownAllowed'
<1>1. UNCHANGED <<unique_id_policy, known>>
  BY DEF proxy, client
<1>2. KnownAllowed'
  BY <1>1 DEF KnownAllowed, Allowed
<1>3. ASSUME NEW j \in 1 .. Len(fromBus'), fromBus'[j] \in ReplyMsg, fromBus'[j].id # NULL,
             NEW n \in fromBus'[j].names \cap Names
      PROVE  \/ Allowed(fromBus'[j].id, n)
             \/ \E i \in 1 .. j : Tells(fromBus'[i], n, fromBus'[j].id)
  <2>1. CASE j \in 1 .. Len(fromBus)
    <3>1. fromBus'[j] = fromBus[j]
      BY <2>1 DEF Extends
    <3>2. \/ Allowed(fromBus[j].id, n)
          \/ \E i \in 1 .. j : Tells(fromBus[i], n, fromBus[j].id)
      BY <1>3, <2>1, <3>1 DEF RepliesSeen
    <3>3. \A i \in 1 .. j : fromBus'[i] = fromBus[i]
      BY <2>1 DEF Extends
    <3> QED
      BY <3>1, <3>2, <3>3
  <2>2. CASE j > Len(fromBus)
    <3>1. ASSUME NEW m \in Elems(fromBus), Tells(m, n, fromBus'[j].id)
          PROVE  \E i \in 1 .. j : Tells(fromBus'[i], n, fromBus'[j].id)
      <4>1. PICK i \in 1 .. Len(fromBus) : m = fromBus[i]
        BY DEF Elems
      <4>2. fromBus'[i] = m /\ i \in 1 .. j
        BY <2>2, <4>1 DEF Extends
      <4> QED
        BY <3>1, <4>2
    <3>2. j \in 1 .. j
      BY DEF Extends
    <3> QED
      BY <1>3, <2>2, <3>1, <3>2
  <2> QED
    BY <2>1, <2>2 DEF Extends
<1>4. \A u, n : Allowed(u, n)' <=> Allowed(u, n)
  BY <1>1 DEF Allowed
<1> QED
  BY <1>2, <1>3, <1>4 DEF RepliesSeen, Tells, OwnAnswer

\* When a call of the client reaches the bus, none of the proxy's is behind it.
LEMMA OwnerKnownFirst ==
  ASSUME IInv, WInv, OInv, toBus # <<>>, NEW m \in CallMsg, m = Head(toBus),
         m.of # 0, ~IsHello(m), NEW n \in Names, owner[n] # NULL
  PROVE  Allowed(owner[n], n) \/ \E x \in Elems(fromBus) : Tells(x, n, owner[n])
<1>0. Counts /\ Types /\ Waits /\ Labelled /\ AllAwaited /\ OwnFirst /\ OwnersSeen
  BY DEF IInv, WInv, OInv, Asking
<1>1. /\ Shortens(Tail(toBus), toBus)
      /\ 1 \in 1 .. Len(toBus) /\ toBus[1] = m /\ m \in Elems(toBus)
  <2>1. Shortens(Tail(toBus), toBus)
    BY <1>0, TailShortens DEF Types
  <2> QED
    BY <2>1 DEF Shortens, Elems
<1>2. ~Own(m)
  BY DEF Own
<1>3. m.of \in 1 .. client_serial
  BY <1>0, <1>1 DEF Labelled, LabelledCall, SerialOf, OfClient
<1>4. client_serial > 1
  <2>1. ~(client_serial <= 1)
    BY <1>0, <1>1, <1>2 DEF OwnFirst
  <2> QED
    BY <1>0, <2>1 DEF Counts
<1>5. CASE ~(xdg_app_proxy_get_policy(n) > NONE)
  <2>1. xdg_app_proxy_get_policy(n) \in Levels
    BY PolicyRange
  <2>2. unique_id_policy[owner[n]] \in Levels
    BY <1>0 DEF Types
  <2> QED
    BY <1>5, <2>1, <2>2 DEF Allowed, Levels, NONE, OWN
<1>6. CASE xdg_app_proxy_get_policy(n) > NONE
  <2>1. OwnerSeen(n)
    BY <1>0, <1>4, <1>6 DEF OwnersSeen, Counts
  <2>2. ASSUME NEW x \in Elems(toBus), WillAsk(x, n)
        PROVE  FALSE
    <3>1. Own(x)
      BY <2>2 DEF WillAsk
    <3>2. PICK j \in 1 .. Len(toBus) : x = toBus[j]
      BY DEF Elems
    <3>3. j # 1
      BY <1>1, <1>2, <3>1, <3>2
    <3>4. 1 < j
      BY <1>1, <3>3 DEF Shortens
    <3> QED
      BY <1>0, <1>1, <1>2, <3>1, <3>2, <3>4 DEF OwnFirst
  <2>3. ASSUME NEW x \in Elems(fromBus), WillTell(x, n)
        PROVE  Tells(x, n, owner[n])
    <3>1. SUFFICES ASSUME OwnAnswer(x), x.id = NULL, n \in x.names
                   PROVE  FALSE
      BY <2>3 DEF WillTell
    <3>2. AwaitedAnswer(x)
      BY <1>0 DEF AllAwaited
    <3>3. /\ x.reply_serial \in DOMAIN expected_client
          /\ expected_client[x.reply_serial] = "FAKE_LIST_NAMES"
      BY <3>1, <3>2 DEF AwaitedAnswer
    <3> QED
      BY <1>0, <1>4, <3>3 DEF Waits
  <2> QED
    BY <2>1, <2>2, <2>3 DEF OwnerSeen
<1> QED
  BY <1>5, <1>6

\* The bus handles a call to itself.
LEMMA OwnCallSees ==
  ASSUME IInv, WInv, OInv, toBus # <<>>, toBus' = Tail(toBus), UNCHANGED proxy,
         NEW m, m = Head(toBus), m.type = "call", m.dest = Bus, BusHandlesOwnCall(m)
  PROVE  OInv'
<1>0. /\ Types /\ AllAwaited /\ Asking /\ OwnersSeen /\ RepliesSeen /\ KnownAllowed
      /\ fromBus \in Seq(FromBusMsg) /\ owner \in [Names -> Ids \cup {NULL}]
  BY DEF IInv, OInv, Asking, Types
<1>1. m \in CallMsg /\ SoundCall(m)
  BY BusTakes
<1>2. m \in Elems(toBus) /\ Awaited(m)
  BY <1>0, ElemsPopped DEF Types, AllAwaited
<1>3. Takes(TRUE)
  BY <1>0, TailShortens DEF Types, Takes
<1>4. PICK a : a = BusAnswer(m)
  OBVIOUS
<1>5. /\ a \in ReplyMsg /\ a.reply_serial = m.serial /\ a.of = m.of
      /\ m.member = "Hello" => a.id = Me /\ a.names = {}
      /\ m.member = "ListNames" =>
           a.id = NULL /\ a.names = {n \in Names : owner[n] # NULL} \cup Ids
      /\ m.member = "GetNameOwner" =>
           /\ m.arg \in Names /\ a.id = owner[m.arg]
           /\ a.names = IF owner[m.arg] = NULL THEN {} ELSE {m.arg}
      /\ m.member \notin {"Hello", "ListNames", "GetNameOwner"} => a.id = NULL /\ a.names = {}
  <2> HIDE DEF BusAnswer
  <2> QED
    BY <1>0, <1>1, <1>4, BusAnswers
<1>6. PICK answer \in Seq(FromBusMsg) :
        /\ answer = IF m.no_reply THEN <<>> ELSE <<a>>
        /\ \/ /\ m.member = "RequestName" /\ owner[m.arg] = NULL
              /\ SetOwner(m.arg, Me, answer)
           \/ fromBus' = fromBus \o answer /\ UNCHANGED owner
  <2>1. PICK answer : answer = IF m.no_reply THEN <<>> ELSE <<a>>
    OBVIOUS
  <2>2. answer \in Seq(FromBusMsg)
    <3>1. a \in FromBusMsg
      BY <1>5 DEF FromBusMsg
    <3>2. <<a>> \in Seq(FromBusMsg) /\ <<>> \in Seq(FromBusMsg)
      BY <1>0, <3>1, ElemsOne, NoneJoined
    <3> QED
      BY <2>1, <3>2
  <2> QED
    BY <1>4, <2>1, <2>2 DEF BusHandlesOwnCall
<1>7. PICK sig \in Seq(FromBusMsg) :
        /\ fromBus' = (fromBus \o sig) \o answer
        /\ \A k \in 1 .. Len(sig) : sig[k] \in SignalMsg
        /\ \A n \in Names : owner'[n] # owner[n] /\ Matched(n) =>
             \E k \in 1 .. Len(sig) : sig[k].name = n /\ sig[k].new = owner'[n]
        /\ m.member # "RequestName" => UNCHANGED owner
  <2>1. CASE /\ m.member = "RequestName" /\ owner[m.arg] = NULL
             /\ SetOwner(m.arg, Me, answer)
    <3>1. m.arg \in Names
      BY <1>1, <2>1 DEF SoundCall
    <3>2. PICK x : x = NameOwnerChanged(m.arg, owner[m.arg], Me)
      OBVIOUS
    <3>3. x \in SignalMsg /\ x.name = m.arg /\ x.new = Me
      BY <1>0, <3>1, <3>2 DEF NameOwnerChanged, SignalMsg, Ids
    <3>4. PICK sig : sig = IF Matched(m.arg) THEN <<x>> ELSE <<>>
      OBVIOUS
    <3>5. sig \in Seq(FromBusMsg) /\ \A k \in 1 .. Len(sig) : sig[k] \in SignalMsg
      <4>1. x \in FromBusMsg
        BY <3>3 DEF FromBusMsg
      <4>2. <<x>> \in Seq(FromBusMsg) /\ <<>> \in Seq(FromBusMsg)
        BY <1>0, <4>1, ElemsOne, NoneJoined
      <4>3. CASE sig = <<x>>
        <5>1. Len(sig) = 1 /\ sig[1] = x
          BY <4>3
        <5> QED
          BY <3>3, <4>2, <4>3, <5>1
      <4>4. CASE sig = <<>>
        BY <4>2, <4>4
      <4> QED
        BY <3>4, <4>3, <4>4
    <3>6. fromBus' = (fromBus \o sig) \o answer /\ owner' = [owner EXCEPT ![m.arg] = Me]
      BY <2>1, <3>2, <3>4 DEF SetOwner
    <3>7. ASSUME NEW n \in Names, owner'[n] # owner[n], Matched(n)
          PROVE  \E k \in 1 .. Len(sig) : sig[k].name = n /\ sig[k].new = owner'[n]
      <4>1. n = m.arg /\ owner'[n] = Me
        BY <1>0, <3>1, <3>6, <3>7
      <4>2. sig = <<x>>
        BY <3>4, <3>7, <4>1
      <4>3. 1 \in 1 .. Len(sig) /\ sig[1] = x
        BY <4>2
      <4> QED
        BY <3>3, <4>1, <4>3
    <3> QED
      BY <2>1, <3>5, <3>6, <3>7
  <2>2. CASE fromBus' = fromBus \o answer /\ UNCHANGED owner
    <3>1. PICK sig : sig = <<>>
      OBVIOUS
    <3>2. <<>> \in Seq(FromBusMsg) /\ Len(<<>>) = 0 /\ fromBus \o <<>> = fromBus
      BY <1>0, NoneJoined
    <3>3. sig \in Seq(FromBusMsg) /\ fromBus \o sig = fromBus
      BY <3>1, <3>2
    <3>4. \A k \in 1 .. Len(sig) : FALSE
      BY <3>1
    <3> QED
      BY <2>2, <3>3, <3>4
  <2> QED
    BY <1>6, <2>1, <2>2
<1>8. PICK mid \in Seq(FromBusMsg) : mid = fromBus \o sig /\ fromBus' = mid \o answer
  BY <1>0, <1>7, Joined
<1>9. /\ Extends(mid, fromBus) /\ Len(mid) = Len(fromBus) + Len(sig)
      /\ \A j \in 1 .. Len(mid) : j > Len(fromBus) =>
           j - Len(fromBus) \in 1 .. Len(sig) /\ mid[j] = sig[j - Len(fromBus)]
  BY <1>0, <1>8, JoinedExtends
<1>10. /\ fromBus' \in Seq(FromBusMsg) /\ Extends(fromBus', mid)
       /\ Len(fromBus') = Len(mid) + Len(answer)
       /\ \A j \in 1 .. Len(fromBus') : j > Len(mid) =>
            j - Len(mid) \in 1 .. Len(answer) /\ fromBus'[j] = answer[j - Len(mid)]
  BY <1>8, JoinedExtends
<1>11. Extends(fromBus', fromBus)
  BY <1>9, <1>10, ExtendsOn
<1>12. ASSUME NEW j \in 1 .. Len(fromBus'), j > Len(fromBus)
       PROVE  \/ fromBus'[j] \in SignalMsg
              \/ ~m.no_reply /\ fromBus'[j] = a /\ j = Len(fromBus')
  <2>1. CASE j \in 1 .. Len(mid)
    BY <1>7, <1>9, <1>10, <1>12, <2>1 DEF Extends
  <2>2. CASE j > Len(mid)
    <3>1. j - Len(mid) \in 1 .. Len(answer) /\ fromBus'[j] = answer[j - Len(mid)]
      BY <1>10, <2>2
    <3>2. ~m.no_reply /\ answer = <<a>> /\ Len(answer) = 1
      BY <1>6, <3>1
    <3>3. j - Len(mid) = 1
      BY <3>1, <3>2
    <3>4. Len(mid) \in Nat /\ j \in Nat
      BY <1>9 DEF Extends
    <3>5. j = Len(mid) + 1
      BY <3>3, <3>4
    <3> QED
      BY <1>10, <3>1, <3>2, <3>3, <3>5
  <2>3. Len(mid) \in Nat
    BY <1>9 DEF Extends
  <2> QED
    BY <2>1, <2>2, <2>3
<1>13. ~m.no_reply => a \in Elems(fromBus)'
  <2>1. SUFFICES ASSUME ~m.no_reply
                 PROVE  a \in Elems(fromBus)'
    OBVIOUS
  <2>2. answer = <<a>>
    BY <1>6, <2>1
  <2>3. a \in Elems(answer)
    <3>1. a \in FromBusMsg
      BY <1>5 DEF FromBusMsg
    <3> QED
      BY <2>2, <3>1, ElemsOne
  <2>4. Elems(fromBus') = Elems(mid) \cup Elems(answer)
    BY <1>8, ElemsJoined
  <2>5. Elems(fromBus)' = Elems(fromBus')
    BY DEF Elems
  <2> QED
    BY <2>3, <2>4, <2>5
<1>14. \A k \in 1 .. Len(sig) : sig[k] \in Elems(fromBus)'
  <2>1. \A k \in 1 .. Len(sig) : sig[k] \in Elems(sig)
    BY DEF Elems
  <2>2. Elems(mid) = Elems(fromBus) \cup Elems(sig)
    BY <1>0, <1>8, ElemsJoined
  <2>3. Elems(fromBus') = Elems(mid) \cup Elems(answer)
    BY <1>8, ElemsJoined
  <2>4. Elems(fromBus)' = Elems(fromBus')
    BY DEF Elems
  <2> QED
    BY <2>1, <2>2, <2>3, <2>4
<1>15. ASSUME OwnAnswer(a)
       PROVE  Own(m) /\ AwaitedAnswer(a)
  <2>1. Own(m)
    BY <1>1, <1>5, <1>15 DEF Own, OwnAnswer
  <2> QED
    BY <1>2, <1>5, <2>1 DEF Awaited, AwaitedAnswer
<1>16. Asking'
  <2>1. ASSUME NEW j \in 1 .. Len(fromBus'), j > Len(fromBus), OwnAnswer(fromBus'[j])
        PROVE  /\ j = Len(fromBus') /\ Own(Head(toBus))
               /\ fromBus'[j].reply_serial = Head(toBus).serial /\ AwaitedAnswer(fromBus'[j])
    <3>1. fromBus'[j] \notin SignalMsg
      BY <2>1, KindsApart DEF OwnAnswer
    <3> QED
      BY <1>5, <1>12, <1>15, <2>1, <3>1
  <2> QED
    BY <1>0, <1>3, <1>11, <2>1, OutsideAsks
<1>17. OwnersSeen'
  <2>1. matches \subseteq matches' /\ (m.member = "AddMatch" => m.arg \in matches')
    BY DEF BusHandlesOwnCall
  <2>2. \A n \in Names : WillMatch(m, n) => Matched(n)'
    BY <2>1 DEF WillMatch, Matched
  <2>3. ASSUME NEW n \in Names, WillAsk(m, n), owner[n] # NULL
        PROVE  owner'[n] = owner[n] /\ \E x \in Elems(fromBus)' : WillTell(x, n)
    <3>1. Own(m) /\ m.member \in {"GetNameOwner", "ListNames"}
      BY <2>3 DEF WillAsk
    <3>2. ~m.no_reply /\ OwnAnswer(a)
      BY <1>2, <1>5, <3>1 DEF Awaited, Own, OwnAnswer
    <3>3. WillTell(a, n)
      BY <1>5, <2>3, <3>2 DEF WillTell, Tells, WillAsk
    <3> QED
      BY <1>7, <1>13, <3>1, <3>2, <3>3
  <2>4. ASSUME NEW n \in Names, owner'[n] # owner[n], Matched(n)
        PROVE  \E x \in Elems(fromBus)' : Tells(x, n, owner'[n])
    <3>1. PICK k \in 1 .. Len(sig) : sig[k].name = n /\ sig[k].new = owner'[n]
      BY <1>7, <2>4
    <3>2. Tells(sig[k], n, owner'[n])
      BY <1>7, <3>1 DEF Tells
    <3> QED
      BY <1>14, <3>2
  <2> QED
    BY <1>0, <1>3, <1>11, <2>1, <2>2, <2>3, <2>4, OutsideSees
<1>18. RepliesSeen' /\ KnownAllowed'
  <2>1. ASSUME NEW j \in 1 .. Len(fromBus'), j > Len(fromBus), fromBus'[j] \in ReplyMsg,
               fromBus'[j].id # NULL, NEW n \in fromBus'[j].names \cap Names
        PROVE  \/ Allowed(fromBus'[j].id, n)
               \/ \E x \in Elems(fromBus) : Tells(x, n, fromBus'[j].id)
               \/ Tells(fromBus'[j], n, fromBus'[j].id)
    <3>1. fromBus'[j] = a
      BY <1>12, <2>1, KindsApart
    <3>2. m.member = "GetNameOwner" /\ n = m.arg /\ a.id = owner[n] /\ owner[n] # NULL
      BY <1>5, <2>1, <3>1
    <3>3. CASE m.of = 0
      BY <1>5, <2>1, <3>1, <3>3 DEF Tells, OwnAnswer
    <3>4. CASE m.of # 0
      <4>1. ~IsHello(m)
        BY <3>2 DEF IsHello
      <4> QED
        BY <1>1, <3>1, <3>2, <3>4, <4>1, OwnerKnownFirst
    <3> QED
      BY <3>3, <3>4
  <2> QED
    BY <1>0, <1>11, <2>1, OutsideTells
<1> QED
  BY <1>16, <1>17, <1>18 DEF OInv

\* What comes of a step that has nothing to do with owners.
LEMMA AppendSees ==
  ASSUME IInv, OInv, UNCHANGED <<proxy, owner, matches>>, NEW popped \in BOOLEAN, Takes(popped),
         popped => ~Own(Head(toBus)), Extends(fromBus', fromBus),
         \A j \in 1 .. Len(fromBus') : j > Len(fromBus) =>
           ~OwnAnswer(fromBus'[j]) /\ (fromBus'[j] \in ReplyMsg => fromBus'[j].id = NULL)
  PROVE  OInv'
<1>0. Asking /\ OwnersSeen /\ RepliesSeen /\ KnownAllowed
  BY DEF OInv
<1>1. UNCHANGED proxy /\ UNCHANGED owner /\ UNCHANGED matches
  OBVIOUS
<1>2. Asking'
  BY <1>0, <1>1, OutsideAsks
<1>3. OwnersSeen'
  <2>1. \A n \in Names : ~(popped /\ WillMatch(Head(toBus), n)) /\ ~(popped /\ WillAsk(Head(toBus), n))
    BY DEF WillMatch, WillAsk
  <2> QED
    BY <1>0, <1>1, <2>1, OutsideSees
<1>4. RepliesSeen' /\ KnownAllowed'
  BY <1>0, <1>1, OutsideTells
<1> QED
  BY <1>2, <1>3, <1>4 DEF OInv

LEMMA RoutedCallSees ==
  ASSUME IInv, WInv, OInv, toBus # <<>>, toBus' = Tail(toBus), UNCHANGED proxy,
         NEW m, m = Head(toBus), m.type = "call", m.dest # Bus, BusRoutesCall(m)
  PROVE  OInv'
<1>0. Types /\ Labelled /\ fromBus \in Seq(FromBusMsg)
  BY DEF IInv, WInv, Types
<1>1. m \in CallMsg /\ m \in Elems(toBus)
  BY <1>0, BusTakes, ElemsPopped DEF Types
<1>2. m.of # 0 /\ ~Own(m) /\ m.serial \in Nat /\ m.of \in Nat
  BY <1>0, <1>1 DEF Labelled, LabelledCall, Own, CallMsg
<1>3. Takes(TRUE)
  BY <1>0, TailShortens DEF Types, Takes
<1>4. UNCHANGED owner /\ UNCHANGED matches
  BY DEF BusRoutesCall
<1>5. fromBus' = fromBus \/ fromBus' = Append(fromBus, Error(m))
  BY DEF BusRoutesCall
<1>6. Error(m) \in ReplyMsg /\ Error(m).of = m.of /\ Error(m).id = NULL
  BY <1>2, ReplyFields
<1>7. Error(m) \in FromBusMsg /\ ~OwnAnswer(Error(m))
  BY <1>2, <1>6 DEF FromBusMsg, OwnAnswer
<1>8. /\ Extends(fromBus', fromBus)
      /\ \A j \in 1 .. Len(fromBus') : j > Len(fromBus) => fromBus'[j] = Error(m)
  <2>1. CASE fromBus' = fromBus
    <3>1. Extends(fromBus, fromBus) /\ Len(fromBus) \in Nat
      BY <1>0, ExtendsItself
    <3> QED
      BY <2>1, <3>1
  <2>2. CASE fromBus' = Append(fromBus, Error(m))
    <3> HIDE DEF Error
    <3> QED
      BY <1>0, <1>7, <2>2, AppendExtends
  <2> QED
    BY <1>5, <2>1, <2>2
<1> QED
  BY <1>2, <1>3, <1>4, <1>6, <1>7, <1>8, AppendSees

LEMMA BusSees ==
  ASSUME IInv, WInv, OInv, BusHandles
  PROVE  OInv'
<1>0. Types /\ fromBus \in Seq(FromBusMsg)
  BY DEF IInv, Types
<1>1. PICK m : m = Head(toBus)
  OBVIOUS
<1>2. toBus # <<>> /\ toBus' = Tail(toBus) /\ UNCHANGED proxy
  BY DEF BusHandles
<1>3. \/ m.type = "return" /\ UNCHANGED <<matches, owner, fromBus>>
      \/ m.type = "call" /\ m.dest = Bus /\ BusHandlesOwnCall(m)
      \/ m.type = "call" /\ m.dest # Bus /\ BusRoutesCall(m)
  <2>1. m \in ToBusMsg
    BY <1>1, <1>2, BusTakes
  <2>2. m.type = "return" \/ m.type = "call"
    BY <2>1 DEF ToBusMsg, CallMsg, ReturnMsg
  <2>3. CASE m.type = "return"
    BY <1>1, <2>3 DEF BusHandles
  <2>4. CASE m.type = "call" /\ m.dest = Bus
    BY <1>1, <2>4 DEF BusHandles
  <2>5. CASE m.type = "call" /\ m.dest # Bus
    BY <1>1, <2>5 DEF BusHandles
  <2> QED
    BY <2>2, <2>3, <2>4, <2>5
<1>4. CASE m.type = "return" /\ UNCHANGED <<matches, owner, fromBus>>
  <2>1. ~Own(m)
    BY <1>4 DEF Own, CallMsg
  <2>2. Takes(TRUE)
    BY <1>0, <1>2, TailShortens DEF Types, Takes
  <2>3. Extends(fromBus, fromBus) /\ Len(fromBus) \in Nat
    BY <1>0, ExtendsItself
  <2>4. Extends(fromBus', fromBus) /\ \A j \in 1 .. Len(fromBus') : ~(j > Len(fromBus))
    BY <1>4, <2>3
  <2> QED
    BY <1>1, <1>2, <1>4, <2>1, <2>2, <2>4, AppendSees
<1> QED
  BY <1>1, <1>2, <1>3, <1>4, OwnCallSees, RoutedCallSees

\* A peer puts a message behind the others.
LEMMA PeerSees ==
  ASSUME IInv, OInv, UNCHANGED <<proxy, toBus, owner, matches>>,
         NEW x \in FromBusMsg, fromBus' = Append(fromBus, x),
         ~OwnAnswer(x), x \in ReplyMsg => x.id = NULL
  PROVE  OInv'
<1>1. fromBus \in Seq(FromBusMsg)
  BY DEF IInv, Types
<1>2. /\ Extends(fromBus', fromBus)
      /\ \A j \in 1 .. Len(fromBus') : j > Len(fromBus) => fromBus'[j] = x
  BY <1>1, AppendExtends
<1>3. Takes(FALSE)
  BY DEF Takes
<1> QED
  BY <1>2, <1>3, AppendSees

LEMMA PeerChangesSees ==
  ASSUME IInv, OInv, PeerChangesOwner
  PROVE  OInv'
<1>0. /\ Types /\ Asking /\ OwnersSeen /\ RepliesSeen /\ KnownAllowed
      /\ fromBus \in Seq(FromBusMsg) /\ owner \in [Names -> Ids \cup {NULL}]
  BY DEF IInv, OInv, Types
<1>1. PICK n \in Names, u \in Peers \cup {NULL} : SetOwner(n, u, <<>>)
  BY DEF PeerChangesOwner
<1>2. UNCHANGED proxy /\ UNCHANGED <<toBus, matches>>
  BY DEF PeerChangesOwner
<1>3. Takes(FALSE)
  BY <1>2 DEF Takes
<1>4. PICK x : x = NameOwnerChanged(n, owner[n], u)
  OBVIOUS
<1>5. x \in SignalMsg /\ x.name = n /\ x.new = u /\ x \in FromBusMsg
  BY <1>0, <1>4 DEF NameOwnerChanged, SignalMsg, Ids, FromBusMsg
<1>6. /\ owner' = [owner EXCEPT ![n] = u]
      /\ fromBus' = fromBus \o (IF Matched(n) THEN <<x>> ELSE <<>>) \o <<>>
  BY <1>1, <1>4 DEF SetOwner
<1>7. /\ Extends(fromBus', fromBus)
      /\ \A j \in 1 .. Len(fromBus') : j > Len(fromBus) => fromBus'[j] = x
      /\ Matched(n) => x \in Elems(fromBus)'
  <2>1. fromBus \o <<>> = fromBus
    BY <1>0, NoneJoined
  <2>2. CASE Matched(n)
    <3>1. <<x>> \in Seq(FromBusMsg) /\ Elems(<<x>>) = {x}
      BY <1>5, ElemsOne
    <3>2. PICK one : one = <<x>>
      OBVIOUS
    <3>3. one \in Seq(FromBusMsg) /\ Elems(one) = {x} /\ Len(one) = 1 /\ one[1] = x
      BY <3>1, <3>2
    <3>4. /\ fromBus \o one \in Seq(FromBusMsg) /\ Extends(fromBus \o one, fromBus)
          /\ \A j \in 1 .. Len(fromBus \o one) : j > Len(fromBus) =>
               j - Len(fromBus) \in 1 .. Len(one) /\ (fromBus \o one)[j] = one[j - Len(fromBus)]
      BY <1>0, <3>3, JoinedExtends
    <3>5. (fromBus \o one) \o <<>> = fromBus \o one
      BY <3>4, NoneJoined
    <3>6. fromBus' = fromBus \o one
      BY <1>6, <2>2, <3>2, <3>5
    <3>7. Elems(fromBus \o one) = Elems(fromBus) \cup {x}
      BY <1>0, <3>3, ElemsJoined
    <3>8. x \in Elems(fromBus')
      BY <3>6, <3>7
    <3>9. x \in Elems(fromBus)'
      BY <3>8 DEF Elems
    <3>10. \A j \in 1 .. Len(one) : one[j] = x
      BY <3>3
    <3> QED
      BY <3>4, <3>6, <3>9, <3>10
  <2>3. CASE ~Matched(n)
    <3>1. fromBus' = fromBus
      BY <1>6, <2>1, <2>3
    <3>2. Extends(fromBus, fromBus) /\ Len(fromBus) \in Nat
      BY <1>0, ExtendsItself
    <3> QED
      BY <2>3, <3>1, <3>2
  <2> QED
    BY <2>2, <2>3
<1>8. x \notin ReplyMsg /\ ~OwnAnswer(x)
  BY <1>5, KindsApart DEF OwnAnswer
<1>9. Asking'
  BY <1>0, <1>2, <1>3, <1>7, <1>8, OutsideAsks
<1>10. OwnersSeen'
  <2>1. matches \subseteq matches'
    BY <1>2
  <2>2. ASSUME NEW k \in Names, owner'[k] # owner[k], Matched(k)
        PROVE  \E m \in Elems(fromBus)' : Tells(m, k, owner'[k])
    <3>1. k = n /\ owner'[k] = u
      BY <1>0, <1>6, <2>2
    <3>2. Tells(x, k, owner'[k])
      BY <1>5, <3>1 DEF Tells
    <3> QED
      BY <1>7, <2>2, <3>1, <3>2
  <2> QED
    BY <1>0, <1>2, <1>3, <1>7, <2>1, <2>2, OutsideSees
<1>11. RepliesSeen' /\ KnownAllowed'
  BY <1>0, <1>2, <1>7, <1>8, OutsideTells
<1> QED
  BY <1>9, <1>10, <1>11 DEF OInv

LEMMA PeersSee ==
  ASSUME IInv, WInv, OInv, PeerAnswers \/ PeerCallsClient \/ PeerBroadcasts \/ PeerChangesOwner
  PROVE  OInv'
<1>1. CASE PeerAnswers
  <2>1. PICK c \in todo : fromBus' = Append(fromBus, Return(c, c.to, {}, NULL))
    BY <1>1 DEF PeerAnswers
  <2>2. c \in Todo /\ c.of # 0
    BY <2>1 DEF IInv, Types, WInv, Labelled, LabelledTodo
  <2>3. c.to \in Peers \cup {Bus} /\ c.serial \in Nat /\ c.of \in Nat
    BY <2>2 DEF Todo
  <2>4. PICK x : x = Return(c, c.to, {}, NULL)
    OBVIOUS
  <2>5. x \in ReplyMsg /\ x.of = c.of /\ x.id = NULL
    BY <2>3, <2>4, ReplyFields
  <2>6. x \in FromBusMsg /\ ~OwnAnswer(x)
    BY <2>2, <2>5 DEF FromBusMsg, OwnAnswer
  <2>7. UNCHANGED <<proxy, toBus, owner, matches>>
    BY <1>1 DEF PeerAnswers
  <2> QED
    BY <2>1, <2>4, <2>5, <2>6, <2>7, PeerSees
<1>2. CASE PeerCallsClient
  <2>1. PICK p \in Peers, no_reply \in BOOLEAN :
          fromBus' = Append(fromBus, PeerCall(p, peer_serial[p] + 1, no_reply))
    BY <1>2 DEF PeerCallsClient
  <2>2. PICK x : x = PeerCall(p, peer_serial[p] + 1, no_reply)
    OBVIOUS
  <2>3. x \in PeerCallMsg
    BY <2>2 DEF IInv, Types, PeerCall, PeerCallMsg
  <2>4. x \in FromBusMsg /\ x \notin ReplyMsg
    BY <2>3, KindsApart DEF FromBusMsg
  <2>5. UNCHANGED <<proxy, toBus, owner, matches>>
    BY <1>2 DEF PeerCallsClient
  <2> QED
    BY <2>1, <2>2, <2>4, <2>5, PeerSees DEF OwnAnswer
<1>3. CASE PeerBroadcasts
  <2>1. PICK p \in Peers : fromBus' = Append(fromBus, Broadcast(p))
    BY <1>3 DEF PeerBroadcasts
  <2>2. PICK x : x = Broadcast(p)
    OBVIOUS
  <2>3. x \in BroadcastMsg
    BY <2>2 DEF Broadcast, BroadcastMsg
  <2>4. x \in FromBusMsg /\ x \notin ReplyMsg
    BY <2>3, KindsApart DEF FromBusMsg
  <2>5. UNCHANGED <<proxy, toBus, owner, matches>>
    BY <1>3 DEF PeerBroadcasts
  <2> QED
    BY <2>1, <2>2, <2>4, <2>5, PeerSees DEF OwnAnswer
<1>4. CASE PeerChangesOwner
  BY <1>4, PeerChangesSees
<1> QED
  BY <1>1, <1>2, <1>3, <1>4

-----------------------------------------------------------------------------
(* What the proxy sends.                                                   *)

\* An entry of the tables is kept but for one serial.
LEMMA AwaitedKept ==
  ASSUME Tables, NEW s,
         \A t \in DOMAIN expected_client : t # s =>
           t \in DOMAIN expected_client' /\ expected_client'[t] = expected_client[t],
         \A t \in DOMAIN get_owner_reply : t # s => get_owner_reply'[t] = get_owner_reply[t]
  PROVE  /\ \A m : Awaited(m) /\ m.serial # s => Awaited(m)'
         /\ \A m : AwaitedAnswer(m) /\ m.reply_serial # s => AwaitedAnswer(m)'
<1>1. ASSUME NEW m, Awaited(m), Own(m), m.serial # s
      PROVE  Awaited(m)'
  <2>1. /\ m.dest = Bus /\ ~m.no_reply /\ m.serial \in DOMAIN expected_client
        /\ \/ /\ m.member = "AddMatch" /\ m.arg \in Names \cup Prefixes
              /\ expected_client[m.serial] = "FILTER"
           \/ /\ m.member = "GetNameOwner" /\ m.arg \in Names
              /\ expected_client[m.serial] = "FAKE_GET_NAME_OWNER"
              /\ get_owner_reply[m.serial] = m.arg
           \/ m.member = "ListNames" /\ expected_client[m.serial] = "FAKE_LIST_NAMES"
    BY <1>1 DEF Awaited
  <2>2. m.serial \in DOMAIN expected_client' /\ expected_client'[m.serial] = expected_client[m.serial]
    BY <1>1, <2>1
  <2>3. expected_client[m.serial] = "FAKE_GET_NAME_OWNER" =>
          get_owner_reply'[m.serial] = get_owner_reply[m.serial]
    BY <1>1, <2>1 DEF Tables
  <2> QED
    BY <2>1, <2>2, <2>3 DEF Awaited
<1>2. ASSUME NEW m, AwaitedAnswer(m), OwnAnswer(m), m.reply_serial # s
      PROVE  AwaitedAnswer(m)'
  <2>1. /\ m.reply_serial \in DOMAIN expected_client
        /\ \/ /\ expected_client[m.reply_serial] = "FILTER"
              /\ m.names = {} /\ m.id = NULL
           \/ /\ expected_client[m.reply_serial] = "FAKE_GET_NAME_OWNER"
              /\ m.names = IF m.id = NULL THEN {} ELSE {get_owner_reply[m.reply_serial]}
           \/ expected_client[m.reply_serial] = "FAKE_LIST_NAMES" /\ m.id = NULL
    BY <1>2 DEF AwaitedAnswer
  <2>2. /\ m.reply_serial \in DOMAIN expected_client'
        /\ expected_client'[m.reply_serial] = expected_client[m.reply_serial]
    BY <1>2, <2>1
  <2>3. expected_client[m.reply_serial] = "FAKE_GET_NAME_OWNER" =>
          get_owner_reply'[m.reply_serial] = get_owner_reply[m.reply_serial]
    BY <1>2, <2>1 DEF Tables
  <2> QED
    BY <2>1, <2>2, <2>3 DEF AwaitedAnswer
<1> QED
  BY <1>1, <1>2 DEF Awaited, AwaitedAnswer, Own, OwnAnswer

\* The calls of the proxy behind what was written before.
LEMMA AsksPlaced ==
  ASSUME NEW ops \in Seq(FakeOps), NEW base \in Nat, NEW queue \in Seq(ToBusMsg),
         Extends(queue, toBus), toBus' = queue \o AsksFor(base, ops)
  PROVE  /\ Extends(toBus', toBus) /\ Extends(toBus', queue)
         /\ Len(queue) \in Nat /\ Len(ops) \in Nat
         /\ \A j \in 1 .. Len(toBus') :
              \/ j \in 1 .. Len(queue) /\ toBus'[j] = queue[j]
              \/ \E i \in 1 .. Len(ops) :
                   j = Len(queue) + i /\ toBus'[j] = AsksFor(base, ops)[i]
         /\ \A i \in 1 .. Len(ops) :
              /\ Len(queue) + i \in 1 .. Len(toBus')
              /\ toBus'[Len(queue) + i] = AsksFor(base, ops)[i]
<1>1. PICK asks : asks = AsksFor(base, ops)
  OBVIOUS
<1>2. asks \in Seq(ToBusMsg) /\ Len(asks) = Len(ops) /\ Len(ops) \in Nat
  BY <1>1, AsksOf
<1>3. /\ queue \o asks \in Seq(ToBusMsg) /\ Extends(queue \o asks, queue)
      /\ Len(queue \o asks) = Len(queue) + Len(asks)
      /\ \A j \in 1 .. Len(queue \o asks) : j > Len(queue) =>
           j - Len(queue) \in 1 .. Len(asks) /\ (queue \o asks)[j] = asks[j - Len(queue)]
  BY <1>2, JoinedExtends
<1>4. toBus' = queue \o asks
  BY <1>1
<1>5. Extends(toBus', toBus) /\ Extends(toBus', queue) /\ Len(queue) \in Nat
  <2>1. Extends(toBus', queue)
    BY <1>3, <1>4
  <2>2. Extends(toBus', toBus)
    BY <2>1, ExtendsOn
  <2> QED
    BY <2>1, <2>2 DEF Extends
<1>6. ASSUME NEW j \in 1 .. Len(toBus')
      PROVE  \/ j \in 1 .. Len(queue) /\ toBus'[j] = queue[j]
             \/ \E i \in 1 .. Len(ops) : j = Len(queue) + i /\ toBus'[j] = asks[i]
  <2>1. CASE j > Len(queue)
    <3>1. j - Len(queue) \in 1 .. Len(ops) /\ toBus'[j] = asks[j - Len(queue)]
      BY <1>2, <1>3, <1>4, <2>1
    <3>2. j = Len(queue) + (j - Len(queue))
      BY <1>5
    <3> QED
      BY <3>1, <3>2
  <2>2. CASE ~(j > Len(queue))
    <3>1. j \in 1 .. Len(queue)
      BY <1>5, <2>2
    <3> QED
      BY <1>5, <3>1 DEF Extends
  <2> QED
    BY <2>1, <2>2
<1>7. ASSUME NEW i \in 1 .. Len(ops)
      PROVE  Len(queue) + i \in 1 .. Len(toBus') /\ toBus'[Len(queue) + i] = asks[i]
  <2>1. Len(toBus') = Len(queue) + Len(ops)
    BY <1>2, <1>3, <1>4
  <2>2. Len(queue) + i \in 1 .. Len(toBus') /\ Len(queue) + i > Len(queue)
    BY <1>2, <1>5, <2>1
  <2>3. toBus'[Len(queue) + i] = asks[(Len(queue) + i) - Len(queue)]
    BY <1>3, <1>4, <2>2
  <2>4. (Len(queue) + i) - Len(queue) = i
    BY <1>5
  <2> QED
    BY <2>2, <2>3, <2>4
<1> QED
  BY <1>1, <1>2, <1>5, <1>6, <1>7

LEMMA AsksAwaited ==
  ASSUME NEW ops \in Seq(FakeOps), NEW base \in Nat,
         base + 1 .. base + Len(ops) \subseteq DOMAIN expected_client',
         \A i \in 1 .. Len(ops) : expected_client'[base + i] = ops[i].type,
         \A i \in 1 .. Len(ops) : ops[i].member = "GetNameOwner" =>
           get_owner_reply'[base + i] = ops[i].arg
  PROVE  \A i \in 1 .. Len(ops) : \A x : x = AsksFor(base, ops)[i] =>
           Own(x) /\ Awaited(x)' /\ x.serial = base + i
                  /\ x.member = ops[i].member /\ x.arg = ops[i].arg
<1> SUFFICES ASSUME NEW i \in 1 .. Len(ops), NEW x, x = AsksFor(base, ops)[i]
             PROVE  Own(x) /\ Awaited(x)' /\ x.serial = base + i
                      /\ x.member = ops[i].member /\ x.arg = ops[i].arg
  OBVIOUS
<1>1. /\ Len(ops) \in Nat /\ ops[i] \in FakeOps
      /\ x \in CallMsg /\ x.serial = base + i /\ x.dest = Bus
      /\ x.member = ops[i].member /\ x.arg = ops[i].arg
      /\ x.no_reply = FALSE /\ x.of = 0
  BY AsksOf
<1>2. base + i \in base + 1 .. base + Len(ops)
  BY <1>1
<1>3. x.serial \in DOMAIN expected_client' /\ expected_client'[x.serial] = ops[i].type
  BY <1>1, <1>2
<1>4. x.member = "GetNameOwner" => get_owner_reply'[x.serial] = x.arg
  BY <1>1
<1>5. Own(x)
  BY <1>1 DEF Own
<1>6. \/ ops[i].member = "AddMatch" /\ ops[i].type = "FILTER" /\ ops[i].arg \in Names \cup Prefixes
      \/ ops[i].member = "GetNameOwner" /\ ops[i].type = "FAKE_GET_NAME_OWNER" /\ ops[i].arg \in Names
      \/ ops[i].member = "ListNames" /\ ops[i].type = "FAKE_LIST_NAMES"
  BY <1>1, OpKinds
<1>7. Awaited(x)'
  BY <1>1, <1>3, <1>4, <1>6 DEF Awaited
<1> QED
  BY <1>1, <1>5, <1>7

LEMMA ProxyAsks ==
  ASSUME IInv, Asking, Extends(toBus', toBus),
         client_serial' \in Nat, client_serial <= client_serial',
         fromBus' = fromBus \/ (fromBus # <<>> /\ fromBus' = Tail(fromBus)),
         \A m \in Elems(toBus) : Awaited(m)',
         \A m \in Elems(fromBus') : AwaitedAnswer(m)',
         \A j \in 1 .. Len(toBus') : \A x : x = toBus'[j] /\ j > Len(toBus) =>
           /\ Own(x) => Awaited(x)' /\ x.serial > last_serial /\ client_serial' <= 1
           /\ client_serial' <= 1 => Own(x) \/ IsHello(x),
         \A j, k \in 1 .. Len(toBus') :
           /\ j > Len(toBus) /\ k > Len(toBus) /\ j # k
           /\ Own(toBus'[j]) /\ Own(toBus'[k])
           => toBus'[j].serial # toBus'[k].serial
  PROVE  Asking'
<1>0. /\ AllAwaited /\ OneEach /\ OwnFirst
      /\ Counts /\ Types /\ Sound
  BY DEF Asking, IInv
<1>1. ASSUME NEW j \in 1 .. Len(toBus')
      PROVE  \/ j \in 1 .. Len(toBus) /\ toBus'[j] = toBus[j] /\ toBus'[j] \in Elems(toBus)
             \/ j > Len(toBus)
  BY DEF Extends, Elems
<1>2. ASSUME NEW i \in 1 .. Len(fromBus')
      PROVE  \E k \in 1 .. Len(fromBus) :
               /\ fromBus'[i] = fromBus[k]
               /\ (fromBus' = fromBus => k = i) /\ (fromBus' # fromBus => k = i + 1)
  <2>1. CASE fromBus' = fromBus
    BY <2>1
  <2>2. CASE fromBus' # fromBus
    <3>1. Shortens(fromBus', fromBus)
      BY <1>0, <2>2, TailShortens DEF Types
    <3> QED
      BY <2>2, <3>1 DEF Shortens
  <2> QED
    BY <2>1, <2>2
<1>3. Elems(fromBus') \subseteq Elems(fromBus) /\ Elems(fromBus)' = Elems(fromBus')
  BY <1>2 DEF Elems
<1>4. /\ \A x \in Elems(toBus) : Own(x) => x.serial <= last_serial /\ x.serial \in Nat
      /\ \A y \in Elems(fromBus) : OwnAnswer(y) =>
           y.reply_serial <= last_serial /\ y.reply_serial \in Nat
      /\ last_serial \in Nat
  BY <1>0 DEF Sound, SoundCall, SoundReply, Own, OwnAnswer, CallMsg, ReplyMsg, Counts
<1>5. AllAwaited'
  <2>1. ASSUME NEW x \in Elems(toBus')
        PROVE  Awaited(x)'
    <3>1. PICK j \in 1 .. Len(toBus') : x = toBus'[j]
      BY DEF Elems
    <3>2. CASE x \in Elems(toBus)
      BY <3>2
    <3>3. CASE j > Len(toBus)
      <4>1. Own(x) => Awaited(x)'
        BY <3>1, <3>3
      <4> QED
        BY <4>1 DEF Awaited, Own
    <3> QED
      BY <1>1, <3>1, <3>2, <3>3
  <2>2. Elems(toBus)' = Elems(toBus')
    BY DEF Elems
  <2> QED
    BY <1>3, <2>1, <2>2 DEF AllAwaited
<1>6. ASSUME NEW j \in 1 .. Len(toBus'), j > Len(toBus), Own(toBus'[j])
      PROVE  /\ \A x \in Elems(toBus) : Own(x) => x.serial # toBus'[j].serial
             /\ \A y \in Elems(fromBus) : OwnAnswer(y) => y.reply_serial # toBus'[j].serial
  <2>1. toBus'[j].serial > last_serial
    BY <1>6
  <2>2. toBus'[j].serial \in Nat
    BY <1>6 DEF Own, CallMsg
  <2> QED
    BY <1>4, <2>1, <2>2
<1>7. OneEach'
  <2>1. ASSUME NEW i \in 1 .. Len(toBus'), NEW j \in 1 .. Len(toBus'),
               i # j, Own(toBus'[i]), Own(toBus'[j])
        PROVE  toBus'[i].serial # toBus'[j].serial
    <3>1. CASE /\ i \in 1 .. Len(toBus) /\ toBus'[i] = toBus[i]
               /\ j \in 1 .. Len(toBus) /\ toBus'[j] = toBus[j]
      BY <1>0, <2>1, <3>1 DEF OneEach
    <3>2. CASE j > Len(toBus) /\ toBus'[i] \in Elems(toBus)
      BY <1>6, <2>1, <3>2
    <3>3. CASE i > Len(toBus) /\ toBus'[j] \in Elems(toBus)
      BY <1>6, <2>1, <3>3
    <3>4. CASE i > Len(toBus) /\ j > Len(toBus)
      BY <2>1, <3>4
    <3> QED
      BY <1>1, <3>1, <3>2, <3>3, <3>4
  <2>2. ASSUME NEW j \in 1 .. Len(toBus'), NEW y \in Elems(fromBus'),
               Own(toBus'[j]), OwnAnswer(y)
        PROVE  toBus'[j].serial # y.reply_serial
    <3>1. CASE toBus'[j] \in Elems(toBus)
      BY <1>0, <1>3, <2>2, <3>1 DEF OneEach
    <3>2. CASE j > Len(toBus)
      BY <1>3, <1>6, <2>2, <3>2
    <3> QED
      BY <1>1, <3>1, <3>2
  <2>3. ASSUME NEW i \in 1 .. Len(fromBus'), NEW j \in 1 .. Len(fromBus'),
               i # j, OwnAnswer(fromBus'[i]), OwnAnswer(fromBus'[j])
        PROVE  fromBus'[i].reply_serial # fromBus'[j].reply_serial
    <3>1. PICK k \in 1 .. Len(fromBus) :
            /\ fromBus'[i] = fromBus[k]
            /\ (fromBus' = fromBus => k = i) /\ (fromBus' # fromBus => k = i + 1)
      BY <1>2
    <3>2. PICK l \in 1 .. Len(fromBus) :
            /\ fromBus'[j] = fromBus[l]
            /\ (fromBus' = fromBus => l = j) /\ (fromBus' # fromBus => l = j + 1)
      BY <1>2
    <3>3. k # l
      <4>1. CASE fromBus' = fromBus
        BY <2>3, <3>1, <3>2, <4>1
      <4>2. CASE fromBus' # fromBus
        <5>1. k = i + 1 /\ l = j + 1 /\ i \in Nat /\ j \in Nat
          BY <3>1, <3>2, <4>2
        <5> QED
          BY <2>3, <5>1
      <4> QED
        BY <4>1, <4>2
    <3> QED
      BY <1>0, <2>3, <3>1, <3>2, <3>3 DEF OneEach
  <2>4. \A x \in Elems(toBus)' : \E j \in 1 .. Len(toBus') : x = toBus'[j]
    BY DEF Elems
  <2> QED
    BY <1>3, <2>1, <2>2, <2>3, <2>4 DEF OneEach, Own, OwnAnswer
<1>8. OwnFirst'
  <2>1. ASSUME client_serial' <= 1, NEW j \in 1 .. Len(toBus')
        PROVE  Own(toBus'[j]) \/ IsHello(toBus'[j])
    <3>1. CASE toBus'[j] \in Elems(toBus)
      <4>1. client_serial <= 1
        BY <1>0, <2>1 DEF Counts
      <4> QED
        BY <1>0, <3>1, <4>1 DEF OwnFirst
    <3>2. CASE j > Len(toBus)
      BY <2>1, <3>2
    <3> QED
      BY <1>1, <3>1, <3>2
  <2>2. ASSUME NEW i \in 1 .. Len(toBus'), NEW j \in 1 .. Len(toBus'), i < j, Own(toBus'[j])
        PROVE  Own(toBus'[i]) \/ IsHello(toBus'[i])
    <3>1. CASE j \in 1 .. Len(toBus) /\ toBus'[j] = toBus[j]
      <4>1. i \in 1 .. Len(toBus) /\ toBus'[i] = toBus[i]
        BY <2>2, <3>1 DEF Extends
      <4> QED
        BY <1>0, <2>2, <3>1, <4>1 DEF OwnFirst
    <3>2. CASE j > Len(toBus)
      <4>1. client_serial' <= 1
        BY <2>2, <3>2
      <4> QED
        BY <2>1, <4>1
    <3> QED
      BY <1>1, <3>1, <3>2
  <2>3. \A x \in Elems(toBus)' : \E j \in 1 .. Len(toBus') : x = toBus'[j]
    BY DEF Elems
  <2> QED
    BY <2>1, <2>2, <2>3 DEF OwnFirst, Own, IsHello
<1> QED
  BY <1>5, <1>7, <1>8 DEF Asking

-----------------------------------------------------------------------------
(* What a step of the proxy leaves of what it has seen.                    *)

\* No policy of a unique id is lowered.
Raised ==
  /\ unique_id_policy \in [Ids -> Levels] /\ unique_id_policy' \in [Ids -> Levels]
  /\ \A u \in Ids : unique_id_policy'[u] >= unique_id_policy[u]

\* The proxy reads nothing, or the first message from the bus.
Reads == fromBus' = fromBus \/ (fromBus # <<>> /\ fromBus' = Tail(fromBus))

LEMMA NotRaised ==
  ASSUME IInv, UNCHANGED unique_id_policy
  PROVE  Raised
<1>1. unique_id_policy \in [Ids -> Levels]
  BY DEF IInv, Types
<1>2. \A u \in Ids : unique_id_policy[u] \in Nat
  BY <1>1 DEF Levels, NONE, OWN
<1> QED
  BY <1>1, <1>2 DEF Raised

LEMMA AllowedKept ==
  ASSUME Raised, NEW u \in Ids, NEW n \in Names, Allowed(u, n)
  PROVE  Allowed(u, n)'
<1>1. xdg_app_proxy_get_policy(n) \in Levels
  BY PolicyRange
<1>2. unique_id_policy[u] \in Levels /\ unique_id_policy'[u] \in Levels
  BY DEF Raised
<1>3. unique_id_policy'[u] >= unique_id_policy[u]
  BY DEF Raised
<1> QED
  BY <1>1, <1>2, <1>3 DEF Allowed, Levels, NONE, OWN

LEMMA ReadElems ==
  ASSUME Types, Reads
  PROVE  /\ \A x \in Elems(fromBus) : x \in Elems(fromBus)' \/ (fromBus' # fromBus /\ x = Head(fromBus))
         /\ \A i \in 1 .. Len(fromBus') : \E k \in 1 .. Len(fromBus) :
               /\ fromBus'[i] = fromBus[k] /\ \A h \in 1 .. k :
                    \/ \E g \in 1 .. i : fromBus'[g] = fromBus[h]
                    \/ fromBus' # fromBus /\ fromBus[h] = Head(fromBus)
<1>1. CASE fromBus' = fromBus
  <2>1. Elems(fromBus)' = Elems(fromBus)
    BY <1>1 DEF Elems
  <2> QED
    BY <1>1, <2>1
<1>2. CASE fromBus' # fromBus
  <2>1. Shortens(fromBus', fromBus)
    BY <1>2, TailShortens DEF Types, Reads
  <2>2. \A x \in Elems(fromBus) : x \in Elems(fromBus)' \/ x = Head(fromBus)
    BY <2>1 DEF Shortens, Elems
  <2>3. ASSUME NEW i \in 1 .. Len(fromBus')
        PROVE  \E k \in 1 .. Len(fromBus) :
               /\ fromBus'[i] = fromBus[k] /\ \A h \in 1 .. k :
                    \/ \E g \in 1 .. i : fromBus'[g] = fromBus[h]
                    \/ fromBus' # fromBus /\ fromBus[h] = Head(fromBus)
    <3>1. i + 1 \in 1 .. Len(fromBus) /\ fromBus'[i] = fromBus[i + 1]
      BY <2>1 DEF Shortens
    <3>2. ASSUME NEW h \in 1 .. i + 1
          PROVE  (\E g \in 1 .. i : fromBus'[g] = fromBus[h]) \/ fromBus[h] = Head(fromBus)
      <4>1. h \in 1 .. Len(fromBus)
        BY <2>1, <3>1 DEF Shortens
      <4>2. CASE h = 1
        BY <2>1, <4>2 DEF Shortens
      <4>3. CASE h # 1
        <5>1. h - 1 \in 1 .. i /\ fromBus'[h - 1] = fromBus[h]
          BY <2>1, <4>1, <4>3 DEF Shortens
        <5> QED
          BY <5>1
      <4> QED
        BY <4>2, <4>3
    <3> QED
      BY <1>2, <3>1, <3>2
  <2> QED
    BY <1>2, <2>2, <2>3
<1> QED
  BY <1>1, <1>2

\* A step of the proxy that adds calls and reads a message: who is told of an
\* owner by it has it allowed, or asks.
LEMMA ProxySees ==
  ASSUME IInv, OwnersSeen, client_serial > 0, Reads, Raised,
         UNCHANGED <<owner, matches>>, Extends(toBus', toBus),
         \A n \in Names : fromBus' # fromBus /\ owner[n] # NULL /\ WillTell(Head(fromBus), n) =>
           Allowed(owner[n], n)' \/ \E m \in Elems(toBus') : WillAsk(m, n)
  PROVE  OwnersSeen'
<1>0. Types /\ owner \in [Names -> Ids \cup {NULL}]
  BY DEF IInv, Types
<1>1. SUFFICES ASSUME NEW n \in Names, xdg_app_proxy_get_policy(n) > NONE
               PROVE  ChangeSeen(n)' /\ (owner'[n] # NULL => OwnerSeen(n)')
  BY DEF OwnersSeen
<1>2. ChangeSeen(n) /\ (owner[n] # NULL => OwnerSeen(n))
  BY <1>1 DEF OwnersSeen
<1>3. \A i \in 1 .. Len(toBus) : i \in 1 .. Len(toBus') /\ toBus'[i] = toBus[i]
  BY DEF Extends
<1>4. ChangeSeen(n)'
  <2>1. CASE Matched(n)
    BY <2>1 DEF ChangeSeen, Matched
  <2>2. ASSUME NEW i \in 1 .. Len(toBus), NEW j \in 1 .. Len(toBus), i < j,
               WillMatch(toBus[i], n), WillAsk(toBus[j], n)
        PROVE  ChangeSeen(n)'
    BY <1>3, <2>2 DEF ChangeSeen, WillMatch, WillAsk, Own
  <2> QED
    BY <1>2, <2>1, <2>2 DEF ChangeSeen
<1>5. ASSUME owner[n] # NULL
      PROVE  OwnerSeen(n)'
  <2>0. owner[n] \in Ids /\ owner'[n] = owner[n]
    BY <1>0, <1>5
  <2>1. \A m : WillTell(m, n)' <=> WillTell(m, n)
    BY <2>0 DEF WillTell, Tells, OwnAnswer
  <2>2. CASE Allowed(owner[n], n)
    <3>1. Allowed(owner[n], n)'
      BY <2>0, <2>2, AllowedKept DEF Allowed
    <3> QED
      BY <2>0, <3>1 DEF OwnerSeen
  <2>3. ASSUME NEW m \in Elems(toBus'), WillAsk(m, n)
        PROVE  OwnerSeen(n)'
    <3>1. m \in Elems(toBus)'
      BY DEF Elems
    <3> QED
      BY <2>3, <3>1 DEF OwnerSeen, WillAsk, Own
  <2>4. ASSUME NEW m \in Elems(fromBus), WillTell(m, n)
        PROVE  OwnerSeen(n)'
    <3>1. CASE m \in Elems(fromBus)'
      BY <2>1, <2>4, <3>1 DEF OwnerSeen
    <3>2. CASE fromBus' # fromBus /\ m = Head(fromBus)
      <4>1. Allowed(owner[n], n)' \/ \E x \in Elems(toBus') : WillAsk(x, n)
        BY <1>5, <2>4, <3>2
      <4>2. CASE Allowed(owner[n], n)'
        BY <2>0, <4>2 DEF OwnerSeen
      <4> QED
        BY <2>3, <4>1, <4>2
    <3> QED
      BY <1>0, <3>1, <3>2, ReadElems
  <2>5. ASSUME NEW m \in Elems(toBus), WillAsk(m, n)
        PROVE  OwnerSeen(n)'
    <3>1. m \in Elems(toBus')
      BY <1>3 DEF Elems
    <3> QED
      BY <2>3, <2>5, <3>1
  <2> QED
    BY <1>2, <1>5, <2>2, <2>4, <2>5 DEF OwnerSeen
<1> QED
  BY <1>4, <1>5

\* The same for the replies that tell the client of an owner.
LEMMA ProxyTells ==
  ASSUME IInv, RepliesSeen, KnownAllowed, Reads, Raised,
         \A n \in Names, u \in Ids : fromBus' # fromBus /\ Tells(Head(fromBus), n, u) =>
           Allowed(u, n)',
         \A k \in known' : k \in known \/ (k \in Names \X Ids /\ Allowed(k[2], k[1])')
  PROVE  RepliesSeen' /\ KnownAllowed'
<1>0. Types /\ fromBus \in Seq(FromBusMsg)
  BY DEF IInv, Types
<1>1. KnownAllowed'
  <2>1. ASSUME NEW k \in known'
        PROVE  k \in Names \X Ids /\ Allowed(k[2], k[1])'
    <3>1. CASE k \in known
      <4>1. k[1] \in Names /\ k[2] \in Ids /\ Allowed(k[2], k[1]) /\ k \in Names \X Ids
        BY <3>1 DEF KnownAllowed
      <4> QED
        BY <4>1, AllowedKept
    <3> QED
      BY <3>1
  <2> QED
    BY <2>1 DEF KnownAllowed
<1>2. ASSUME NEW j \in 1 .. Len(fromBus'), NEW x, x = fromBus'[j], x \in ReplyMsg, x.id # NULL,
             NEW n \in x.names \cap Names
      PROVE  Allowed(x.id, n)' \/ \E i \in 1 .. j : Tells(fromBus'[i], n, x.id)
  <2>0. x.id \in Ids
    BY <1>2 DEF ReplyMsg
  <2>1. PICK k \in 1 .. Len(fromBus) :
               /\ fromBus'[j] = fromBus[k] /\ \A h \in 1 .. k :
                    \/ \E g \in 1 .. j : fromBus'[g] = fromBus[h]
                    \/ fromBus' # fromBus /\ fromBus[h] = Head(fromBus)
    BY <1>0, ReadElems
  <2>2. Allowed(x.id, n) \/ \E i \in 1 .. k : Tells(fromBus[i], n, x.id)
    BY <1>2, <2>1 DEF RepliesSeen
  <2>3. CASE Allowed(x.id, n)
    BY <2>0, <2>3, AllowedKept
  <2>4. ASSUME NEW h \in 1 .. k, Tells(fromBus[h], n, x.id)
        PROVE  Allowed(x.id, n)' \/ \E i \in 1 .. j : Tells(fromBus'[i], n, x.id)
    <3>1. CASE fromBus' # fromBus /\ fromBus[h] = Head(fromBus)
      BY <2>0, <2>4, <3>1
    <3> QED
      BY <2>1, <2>4, <3>1
  <2> QED
    BY <2>2, <2>3, <2>4
<1>3. RepliesSeen'
  <2>1. \A j \in 1 .. Len(fromBus') : \A x : x = fromBus'[j] /\ x \in ReplyMsg /\ x.id # NULL =>
          \A n \in x.names \cap Names :
            Allowed(x.id, n)' \/ \E i \in 1 .. j : Tells(fromBus'[i], n, x.id)
    BY <1>2
  <2> QED
    BY <2>1 DEF RepliesSeen, Tells, OwnAnswer, Allowed
<1> QED
  BY <1>1, <1>3

-----------------------------------------------------------------------------
(* What the client sends.                                                  *)

\* The calls and answers of the proxy's own stay expected when only the entry
\* of a serial that none of them has goes.
LEMMA AllAwaitedKept ==
  ASSUME Tables, AllAwaited, NEW s,
         \A t \in DOMAIN expected_client : t # s =>
           t \in DOMAIN expected_client' /\ expected_client'[t] = expected_client[t],
         \A t \in DOMAIN get_owner_reply : t # s => get_owner_reply'[t] = get_owner_reply[t],
         \A m \in Elems(toBus) : Own(m) => m.serial # s,
         Elems(fromBus') \subseteq Elems(fromBus),
         \A m \in Elems(fromBus') : OwnAnswer(m) => m.reply_serial # s
  PROVE  /\ \A m \in Elems(toBus) : Awaited(m)'
         /\ \A m \in Elems(fromBus') : AwaitedAnswer(m)'
<1>1. /\ \A m : Awaited(m) /\ m.serial # s => Awaited(m)'
      /\ \A m : AwaitedAnswer(m) /\ m.reply_serial # s => AwaitedAnswer(m)'
  BY AwaitedKept
<1>2. ASSUME NEW m \in Elems(toBus)
      PROVE  Awaited(m)'
  <2>1. CASE Own(m)
    BY <1>1, <2>1 DEF AllAwaited
  <2>2. CASE ~Own(m)
    BY <2>2 DEF Awaited, Own
  <2> QED
    BY <2>1, <2>2
<1>3. ASSUME NEW m \in Elems(fromBus')
      PROVE  AwaitedAnswer(m)'
  <2>1. CASE OwnAnswer(m)
    BY <1>1, <2>1 DEF AllAwaited
  <2>2. CASE ~OwnAnswer(m)
    BY <2>2 DEF AwaitedAnswer, OwnAnswer
  <2> QED
    BY <2>1, <2>2
<1> QED
  BY <1>2, <1>3

\* Nor when the entries there are all stay.
LEMMA NoneDropped ==
  ASSUME Tables, AllAwaited, Elems(fromBus') \subseteq Elems(fromBus),
         \A t \in DOMAIN expected_client :
           t \in DOMAIN expected_client' /\ expected_client'[t] = expected_client[t],
         \A t \in DOMAIN get_owner_reply : get_owner_reply'[t] = get_owner_reply[t]
  PROVE  /\ \A m \in Elems(toBus) : Awaited(m)'
         /\ \A m \in Elems(fromBus') : AwaitedAnswer(m)'
<1>1. 0 \notin DOMAIN expected_client
  BY DEF Tables
<1>2. \A m \in Elems(toBus) : Own(m) => m.serial # 0
  BY <1>1 DEF AllAwaited, Awaited
<1>3. \A m \in Elems(fromBus') : OwnAnswer(m) => m.reply_serial # 0
  BY <1>1 DEF AllAwaited, AwaitedAnswer
<1> QED
  BY <1>2, <1>3, AllAwaitedKept

\* The proxy's calls ops are in its queue, in that order, after position k.
Asked(k, ops) ==
  /\ k \in Nat
  /\ \A i \in 1 .. Len(ops) :
       /\ k + i \in 1 .. Len(toBus) /\ Own(toBus[k + i])
       /\ toBus[k + i].member = ops[i].member /\ toBus[k + i].arg = ops[i].arg

\* A call of the client is put into the queue, and the proxy's calls after it.
LEMMA ForwardAsks ==
  ASSUME IInv, Waits, Asking, NEW m, ClientCall(m), NEW ops \in Seq(FakeOps),
         NEW serial, serial = m.serial + serial_offset,
         m.serial = client_serial + 1, m.of = m.serial, client_serial' = client_serial + 1,
         ops = <<>> \/ client_serial = 0, client_serial = 0 => m.member = "Hello",
         ForwardCall(m, serial, ops), UNCHANGED fromBus
  PROVE  /\ Asking' /\ Extends(toBus', toBus)
         /\ \E k : Asked(k, ops)'
<1>0. Counts /\ Tables /\ Types /\ toBus \in Seq(ToBusMsg) /\ AllAwaited
  BY DEF IInv, Types, Asking
<1>1. /\ client_serial \in Nat /\ serial_offset \in Nat /\ serial \in Nat
      /\ serial = last_serial + 1 /\ serial > last_serial /\ last_serial \in Nat
      /\ m.of # 0 /\ (client_serial + 1 <= 1 => client_serial = 0)
      /\ client_serial' \in Nat /\ client_serial <= client_serial'
  BY <1>0 DEF Counts
<1>2. Sent(m, serial, ops)
  BY <1>0, <1>1, Forwarded
<1>3. /\ toBus' = (toBus \o WrittenOf(m, serial)) \o AsksFor(serial, ops)
      /\ DOMAIN expected_client' = (DOMAIN expected_client \cup {s \in {serial} : KindOf(m) # "NONE"})
                                 \cup (serial + 1 .. serial + Len(ops))
      /\ \A s \in DOMAIN expected_client : expected_client'[s] = expected_client[s]
      /\ \A i \in 1 .. Len(ops) : expected_client'[serial + i] = ops[i].type
      /\ \A s \in DOMAIN get_owner_reply : get_owner_reply'[s] = get_owner_reply[s]
      /\ \A i \in 1 .. Len(ops) : ops[i].member = "GetNameOwner" =>
           get_owner_reply'[serial + i] = ops[i].arg
  BY <1>2 DEF Sent
<1>4. PICK W : W = WrittenOf(m, serial)
  OBVIOUS
<1>5. /\ W \in Seq(ToBusMsg)
      /\ W = <<>> \/ \E w \in CallMsg : W = <<w>> /\ w.of = m.of
                                         /\ (m.member = "Hello" => w.member = "Hello")
  <2>1. WrittenAs(m, serial, W, KindOf(m))
    <3>1. unique_id_policy \in [Ids -> Levels]
      BY <1>0 DEF Types
    <3> QED
      BY <1>1, <1>4, <3>1, Written
  <2> QED
    BY <2>1 DEF WrittenAs
<1>6. PICK queue \in Seq(ToBusMsg) : queue = toBus \o W /\ toBus' = queue \o AsksFor(serial, ops)
  BY <1>0, <1>3, <1>4, <1>5, Joined
<1>7. /\ Extends(queue, toBus)
      /\ \A j \in 1 .. Len(queue) : j > Len(toBus) =>
           j - Len(toBus) \in 1 .. Len(W) /\ queue[j] = W[j - Len(toBus)]
  BY <1>0, <1>5, <1>6, JoinedExtends
<1>8. /\ Extends(toBus', toBus) /\ Len(queue) \in Nat /\ Len(ops) \in Nat
      /\ \A j \in 1 .. Len(toBus') :
           \/ j \in 1 .. Len(queue) /\ toBus'[j] = queue[j]
           \/ \E i \in 1 .. Len(ops) :
                j = Len(queue) + i /\ toBus'[j] = AsksFor(serial, ops)[i]
      /\ \A i \in 1 .. Len(ops) :
           /\ Len(queue) + i \in 1 .. Len(toBus')
           /\ toBus'[Len(queue) + i] = AsksFor(serial, ops)[i]
  <2>1. serial \in Nat /\ toBus' = queue \o AsksFor(serial, ops) /\ Extends(queue, toBus)
    BY <1>1, <1>6, <1>7
  <2> QED
    BY <2>1, AsksPlaced
<1>9. \A i \in 1 .. Len(ops) : \A x : x = AsksFor(serial, ops)[i] =>
           Own(x) /\ Awaited(x)' /\ x.serial = serial + i
                  /\ x.member = ops[i].member /\ x.arg = ops[i].arg
  <2>1. serial + 1 .. serial + Len(ops) \subseteq DOMAIN expected_client'
    BY <1>3
  <2> QED
    BY <1>1, <1>3, <2>1, AsksAwaited
<1>10. ASSUME NEW j \in 1 .. Len(queue), j > Len(toBus)
       PROVE  ~Own(queue[j]) /\ (client_serial = 0 => IsHello(queue[j]))
  <2>1. j - Len(toBus) \in 1 .. Len(W) /\ queue[j] = W[j - Len(toBus)]
    BY <1>7, <1>10
  <2>2. W # <<>>
    BY <2>1
  <2>3. PICK w \in CallMsg : W = <<w>> /\ w.of = m.of /\ (m.member = "Hello" => w.member = "Hello")
    BY <1>5, <2>2
  <2>4. Len(W) = 1 /\ W[1] = w
    BY <2>3
  <2>5. queue[j] = w
    BY <2>1, <2>4
  <2> QED
    BY <1>1, <2>3, <2>5 DEF Own, IsHello
<1>11. ASSUME NEW j \in 1 .. Len(toBus'), j > Len(toBus), NEW x, x = toBus'[j]
       PROVE  \/ ~Own(x) /\ (client_serial = 0 => IsHello(x))
              \/ /\ client_serial = 0 /\ Own(x) /\ Awaited(x)'
                 /\ \E i \in 1 .. Len(ops) : j = Len(queue) + i /\ x.serial = serial + i
  <2>1. CASE j \in 1 .. Len(queue) /\ toBus'[j] = queue[j]
    BY <1>10, <1>11, <2>1
  <2>2. ASSUME NEW i \in 1 .. Len(ops), j = Len(queue) + i, x = AsksFor(serial, ops)[i]
        PROVE  /\ client_serial = 0 /\ Own(x) /\ Awaited(x)'
               /\ \E h \in 1 .. Len(ops) : j = Len(queue) + h /\ x.serial = serial + h
    <3>1. ops # <<>>
      BY <2>2
    <3> QED
      BY <1>9, <2>2, <3>1
  <2> QED
    BY <1>8, <1>11, <2>1, <2>2
<1>12. Asking'
  <2>1. Elems(fromBus') \subseteq Elems(fromBus)
    OBVIOUS
  <2>2. /\ \A x \in Elems(toBus) : Awaited(x)'
        /\ \A x \in Elems(fromBus') : AwaitedAnswer(x)'
    BY <1>0, <1>3, <2>1, NoneDropped
  <2>3. ASSUME NEW j \in 1 .. Len(toBus'), NEW x, x = toBus'[j], j > Len(toBus)
        PROVE  /\ Own(x) => Awaited(x)' /\ x.serial > last_serial /\ client_serial' <= 1
               /\ client_serial' <= 1 => Own(x) \/ IsHello(x)
    <3>1. CASE ~Own(x) /\ (client_serial = 0 => IsHello(x))
      BY <1>1, <3>1
    <3>2. ASSUME client_serial = 0, Own(x), Awaited(x)',
                 NEW i \in 1 .. Len(ops), x.serial = serial + i
          PROVE  Awaited(x)' /\ x.serial > last_serial /\ client_serial' <= 1
      <4>1. x.serial > last_serial /\ client_serial' <= 1
        BY <1>1, <1>8, <3>2
      <4> QED
        BY <3>2, <4>1
    <3> QED
      BY <1>11, <2>3, <3>1, <3>2
  <2>4. ASSUME NEW j \in 1 .. Len(toBus'), NEW k \in 1 .. Len(toBus'),
               j > Len(toBus), k > Len(toBus), j # k, Own(toBus'[j]), Own(toBus'[k])
        PROVE  toBus'[j].serial # toBus'[k].serial
    <3>1. PICK h \in 1 .. Len(ops) : j = Len(queue) + h /\ toBus'[j].serial = serial + h
      BY <1>11, <2>4
    <3>2. PICK i \in 1 .. Len(ops) : k = Len(queue) + i /\ toBus'[k].serial = serial + i
      BY <1>11, <2>4
    <3> QED
      BY <1>1, <1>8, <2>4, <3>1, <3>2
  <2> QED
    BY <1>1, <1>8, <2>2, <2>3, <2>4, ProxyAsks
<1>13. Asked(Len(queue), ops)'
  <2>1. ASSUME NEW i \in 1 .. Len(ops), NEW x, x = toBus'[Len(queue) + i]
        PROVE  Own(x) /\ x.member = ops[i].member /\ x.arg = ops[i].arg
    BY <1>8, <1>9, <2>1
  <2> QED
    BY <1>8, <2>1 DEF Asked, Own
<1> QED
  BY <1>8, <1>12, <1>13

LEMMA HelloSees ==
  ASSUME IInv, WInv, OInv, ClientHello
  PROVE  OInv'
<1>0. Counts /\ Waits /\ Asking /\ RepliesSeen /\ KnownAllowed
  BY DEF IInv, WInv, OInv
<1>1. PICK m : m = Call(1, Bus, "Hello", NULL, FALSE, 1)
  OBVIOUS
<1>2. PICK serial : serial = m.serial + serial_offset
  OBVIOUS
<1>3. /\ client_serial = 0 /\ client_serial' = 1 /\ got_buffer_from_client(m)
      /\ UNCHANGED known
  BY <1>1 DEF ClientHello, Learned
<1>4. ClientCall(m) /\ m.member = "Hello" /\ m.type = "call" /\ m.serial = 1 /\ m.of = 1
  BY <1>1, HelloIsCall
<1>5. ~(serial <= last_serial) /\ m.serial = client_serial + 1 /\ client_serial' = client_serial + 1
  BY <1>0, <1>2, <1>3, <1>4 DEF Counts
<1>6. /\ \E names \in Orders(ExactNames), prefixes \in Orders(Prefixes) :
           ForwardCall(m, serial, queue_initial_name_ops(names, prefixes))
      /\ UNCHANGED <<unique_id_policy, fromBus>>
  BY <1>2, <1>3, <1>4, <1>5 DEF got_buffer_from_client
<1>7. PICK names \in Orders(ExactNames), prefixes \in Orders(Prefixes) :
           ForwardCall(m, serial, queue_initial_name_ops(names, prefixes))
  BY <1>6
<1>8. PICK ops : ops = queue_initial_name_ops(names, prefixes)
  OBVIOUS
<1>9. /\ ops \in Seq(FakeOps)
      /\ \A n \in ExactNames : \E i, j \in 1 .. Len(ops) :
           /\ i < j /\ ops[i] = Fake("AddMatch", n, "FILTER")
           /\ ops[j] = Fake("GetNameOwner", n, "FAKE_GET_NAME_OWNER")
      /\ \A p \in Prefixes : \E i, j \in 1 .. Len(ops) :
           /\ i < j /\ ops[i] = Fake("AddMatch", p, "FILTER")
           /\ ops[j] = Fake("ListNames", NULL, "FAKE_LIST_NAMES")
  BY <1>8, InitialOps
<1>10. ForwardCall(m, serial, ops)
  BY <1>7, <1>8
<1>11. Asking' /\ \E k : Asked(k, ops)'
  BY <1>0, <1>2, <1>3, <1>4, <1>5, <1>6, <1>9, <1>10, ForwardAsks
<1>12. PICK k : Asked(k, ops)'
  BY <1>11
<1>13. RepliesSeen' /\ KnownAllowed'
  <2>1. Raised /\ Reads
    BY <1>6, NotRaised DEF Reads
  <2> QED
    BY <1>0, <1>3, <1>6, <2>1, ProxyTells
<1>14. ASSUME NEW n \in Names, xdg_app_proxy_get_policy(n) > NONE
       PROVE  \E i, j \in 1 .. Len(ops) :
                /\ i < j /\ ops[i].member = "AddMatch" /\ ops[i].arg \in {n, ParentOf[n]}
                /\ \/ ops[j].member = "GetNameOwner" /\ ops[j].arg = n
                   \/ ops[j].member = "ListNames" /\ Wild(n)
  <2>1. CASE Policy[n] > NONE
    <3>1. n \in ExactNames
      BY <2>1 DEF ExactNames
    <3>2. PICK i, j \in 1 .. Len(ops) :
           /\ i < j /\ ops[i] = Fake("AddMatch", n, "FILTER")
           /\ ops[j] = Fake("GetNameOwner", n, "FAKE_GET_NAME_OWNER")
      BY <1>9, <3>1
    <3> QED
      BY <3>2 DEF Fake
  <2>2. CASE xdg_app_proxy_get_wildcard_policy(n) > NONE
    <3>1. ParentOf[n] \in Prefixes
      <4>1. ParentOf[n] \in Prefixes \cup {NULL}
        BY PolicyAssumption
      <4>2. ParentOf[n] # NULL
        BY <2>2 DEF xdg_app_proxy_get_wildcard_policy, NONE
      <4> QED
        BY <4>1, <4>2
    <3>2. PICK i, j \in 1 .. Len(ops) :
           /\ i < j /\ ops[i] = Fake("AddMatch", ParentOf[n], "FILTER")
           /\ ops[j] = Fake("ListNames", NULL, "FAKE_LIST_NAMES")
      BY <1>9, <3>1
    <3> QED
      BY <2>2, <3>2 DEF Fake, Wild
  <2> QED
    BY <1>14, <2>1, <2>2, PolicyRange
<1>15. OwnersSeen'
  <2>1. SUFFICES ASSUME NEW n \in Names, xdg_app_proxy_get_policy(n) > NONE
                 PROVE  ChangeSeen(n)' /\ OwnerSeen(n)'
    BY DEF OwnersSeen
  <2>2. PICK i, j \in 1 .. Len(ops) :
                /\ i < j /\ ops[i].member = "AddMatch" /\ ops[i].arg \in {n, ParentOf[n]}
                /\ \/ ops[j].member = "GetNameOwner" /\ ops[j].arg = n
                   \/ ops[j].member = "ListNames" /\ Wild(n)
    BY <1>14, <2>1
  <2>3. /\ k + i \in 1 .. Len(toBus') /\ k + j \in 1 .. Len(toBus') /\ k + i < k + j
    BY <1>12, <2>2 DEF Asked
  <2>4. WillMatch(toBus'[k + i], n) /\ WillAsk(toBus'[k + j], n)
    BY <1>12, <2>2 DEF Asked, WillMatch, WillAsk, Own
  <2>5. ChangeSeen(n)'
    BY <2>3, <2>4 DEF ChangeSeen, WillMatch, WillAsk, Own
  <2>6. OwnerSeen(n)'
    <3>1. toBus'[k + j] \in Elems(toBus)'
      BY <2>3 DEF Elems
    <3> QED
      BY <2>4, <3>1 DEF OwnerSeen, WillAsk, Own
  <2> QED
    BY <2>5, <2>6
<1> QED
  BY <1>11, <1>13, <1>15 DEF OInv

LEMMA CallsSee ==
  ASSUME IInv, WInv, OInv, ~Pipelining, ClientCalls
  PROVE  OInv'
<1>0. Counts /\ Waits /\ Asking /\ OwnersSeen /\ RepliesSeen /\ KnownAllowed
  BY DEF IInv, WInv, OInv
<1>1. PICK c \in Calls :
        got_buffer_from_client(Call(client_serial + 1, c[1], c[2], c[3], c[4], client_serial + 1))
  BY DEF ClientCalls
<1>2. PICK m : m = Call(client_serial + 1, c[1], c[2], c[3], c[4], client_serial + 1)
  OBVIOUS
<1>3. PICK serial : serial = m.serial + serial_offset
  OBVIOUS
<1>4. client_serial' = client_serial + 1 /\ got_buffer_from_client(m) /\ UNCHANGED known
  BY <1>1, <1>2 DEF ClientCalls, Learned
<1>5. client_serial + 1 \in Nat
  BY <1>0 DEF Counts
<1>6. /\ ClientCall(m) /\ m.member # "Hello" /\ m.type = "call"
      /\ m.serial = client_serial + 1 /\ m.of = m.serial
  BY <1>2, <1>5, CallsAreCalls
<1>7. ~(serial <= last_serial)
  BY <1>0, <1>3, <1>6 DEF Counts
<1>8. /\ ForwardCall(m, serial, <<>>)
      /\ UNCHANGED <<unique_id_policy, fromBus, owner, matches>>
  BY <1>3, <1>4, <1>6, <1>7 DEF got_buffer_from_client, bus
<1>9. client_serial > 0 /\ client_serial # 0
  <2>1. delivered # <<>>
    BY DEF ClientCalls, Helloed
  <2>2. CanRead
    BY DEF ClientCalls
  <2>3. client_serial > 0
    BY <1>0, <2>1, <2>2, ReadMeansNoList
  <2> QED
    BY <1>0, <2>3 DEF Counts
<1>10. PICK ops : ops = <<>>
  OBVIOUS
<1>11. ops \in Seq(FakeOps) /\ ForwardCall(m, serial, ops)
  BY <1>8, <1>10
<1>12. Asking' /\ Extends(toBus', toBus)
  BY <1>0, <1>3, <1>4, <1>6, <1>8, <1>9, <1>10, <1>11, ForwardAsks
<1>13. Raised /\ Reads
  BY <1>8, NotRaised DEF Reads
<1>14. RepliesSeen' /\ KnownAllowed'
  BY <1>0, <1>4, <1>8, <1>13, ProxyTells
<1>15. OwnersSeen'
  BY <1>0, <1>8, <1>9, <1>12, <1>13, ProxySees
<1> QED
  BY <1>12, <1>14, <1>15 DEF OInv

LEMMA UntouchedSees ==
  ASSUME OInv, UNCHANGED <<expected_client, get_owner_reply, unique_id_policy, toBus, fromBus,
                           owner, matches, client_serial, known>>
  PROVE  OInv'
<1>0. Elems(toBus)' = Elems(toBus) /\ Elems(fromBus)' = Elems(fromBus)
  BY DEF Elems
<1>1. AllAwaited'
  <2>1. /\ \A m : Awaited(m)' <=> Awaited(m)
        /\ \A m : AwaitedAnswer(m)' <=> AwaitedAnswer(m)
    BY DEF Awaited, AwaitedAnswer, Own, OwnAnswer
  <2> QED
    BY <1>0, <2>1 DEF OInv, Asking, AllAwaited
<1>2. OneEach'
  BY <1>0 DEF OInv, Asking, OneEach, Own, OwnAnswer
<1>3. OwnFirst'
  BY <1>0 DEF OInv, Asking, OwnFirst, Own, IsHello
<1>4. OwnersSeen'
  BY <1>0 DEF OInv, OwnersSeen, ChangeSeen, OwnerSeen, Matched, Allowed,
         WillTell, WillAsk, WillMatch, Tells, Own, OwnAnswer
<1>5. RepliesSeen' /\ KnownAllowed'
  BY DEF OInv, RepliesSeen, KnownAllowed, Allowed, Tells, OwnAnswer
<1> QED
  BY <1>1, <1>2, <1>3, <1>4, <1>5 DEF OInv, Asking

LEMMA ReusesSee ==
  ASSUME IInv, OInv, ClientReusesSerial
  PROVE  OInv'
<1>0. Counts
  BY DEF IInv
<1>1. PICK c \in Calls :
        got_buffer_from_client(Call(client_serial, c[1], c[2], c[3], c[4], client_serial))
  BY DEF ClientReusesSerial
<1>2. PICK m : m = Call(client_serial, c[1], c[2], c[3], c[4], client_serial)
  OBVIOUS
<1>3. m.serial = client_serial /\ got_buffer_from_client(m)
  BY <1>1, <1>2 DEF Call
<1>4. ~(m.serial + serial_offset > last_serial)
  BY <1>0, <1>3 DEF Counts
<1>5. RefuseSerial
  BY <1>3, <1>4 DEF got_buffer_from_client
<1>6. UNCHANGED <<expected_client, get_owner_reply, unique_id_policy, toBus, fromBus,
                  owner, matches, client_serial, known>>
  BY <1>5 DEF RefuseSerial, ClientReusesSerial, Learned, tables, bus
<1> QED
  BY <1>6, UntouchedSees

LEMMA ReturnsSee ==
  ASSUME OInv, side_in_cb_returns
  PROVE  OInv'
BY UntouchedSees DEF side_in_cb_returns, tables, serials, bus, client

LEMMA RepliesSee ==
  ASSUME IInv, WInv, OInv, ClientReplies
  PROVE  OInv'
<1>0. /\ Counts /\ Tables /\ Types /\ Waits /\ Asking /\ AllAwaited
      /\ OwnersSeen /\ RepliesSeen /\ KnownAllowed
  BY DEF IInv, WInv, OInv, Asking
<1>1. PICK c \in inbox : got_buffer_from_client(ReplyTo(c, client_serial + 1))
  BY DEF ClientReplies
<1>2. PICK m : m = ReplyTo(c, client_serial + 1)
  OBVIOUS
<1>3. PICK serial : serial = m.serial + serial_offset
  OBVIOUS
<1>4. client_serial \in Nat /\ serial_offset \in Nat
  BY <1>0 DEF Counts
<1>5. m.type = "return" /\ m.serial = client_serial + 1 /\ m \in ReturnMsg
  BY <1>0, <1>2, <1>4 DEF ReplyTo, ReturnMsg, Types
<1>6. ~(serial <= last_serial)
  BY <1>0, <1>3, <1>5 DEF Counts
<1>7. ForwardReply(m, serial) /\ UNCHANGED <<unique_id_policy, fromBus, owner, matches>>
  BY <1>1, <1>2, <1>3, <1>5, <1>6 DEF got_buffer_from_client, bus
<1>8. client_serial > 0 /\ client_serial' = client_serial + 1 /\ UNCHANGED known
  <2>1. CanRead /\ inbox # {}
    BY DEF ClientReplies
  <2> QED
    BY <1>0, <2>1, ReadMeansNoList DEF ClientReplies, Learned
<1>9. PICK w : w = [m EXCEPT !.serial = serial]
  OBVIOUS
<1>10. /\ toBus' = toBus \/ toBus' = Append(toBus, w)
       /\ UNCHANGED <<expected_client, get_owner_reply>>
  BY <1>7, <1>9 DEF ForwardReply, tables
<1>11. w \in ToBusMsg /\ ~Own(w)
  <2>1. w \in ReturnMsg
    BY <1>3, <1>4, <1>5, <1>9 DEF ReturnMsg
  <2> QED
    BY <2>1 DEF ToBusMsg, Own, ReturnMsg, CallMsg
<1>12. /\ Extends(toBus', toBus)
       /\ \A j \in 1 .. Len(toBus') : j > Len(toBus) => toBus'[j] = w
  <2>1. toBus \in Seq(ToBusMsg)
    BY <1>0 DEF Types
  <2>2. CASE toBus' = toBus
    BY <2>1, <2>2, ExtendsItself
  <2>3. CASE toBus' = Append(toBus, w)
    BY <1>11, <2>1, <2>3, AppendExtends
  <2> QED
    BY <1>10, <2>2, <2>3
<1>13. Asking'
  <2>1. /\ \A x \in Elems(toBus) : Awaited(x)'
        /\ \A x \in Elems(fromBus') : AwaitedAnswer(x)'
    <3>1. Elems(fromBus') \subseteq Elems(fromBus)
      BY <1>7
    <3> QED
      BY <1>0, <1>10, <3>1, NoneDropped
  <2>2. client_serial' \in Nat /\ client_serial <= client_serial' /\ ~(client_serial' <= 1)
    BY <1>4, <1>8
  <2>3. \A j \in 1 .. Len(toBus') : \A x : x = toBus'[j] /\ j > Len(toBus) => ~Own(x)
    BY <1>11, <1>12
  <2>4. fromBus' = fromBus
    BY <1>7
  <2> QED
    BY <1>0, <1>12, <2>1, <2>2, <2>3, <2>4, ProxyAsks
<1>14. Raised /\ Reads
  BY <1>7, NotRaised DEF Reads
<1>15. RepliesSeen' /\ KnownAllowed'
  BY <1>0, <1>7, <1>8, <1>14, ProxyTells
<1>16. OwnersSeen'
  BY <1>0, <1>7, <1>8, <1>12, <1>14, ProxySees
<1> QED
  BY <1>13, <1>15, <1>16 DEF OInv

-----------------------------------------------------------------------------
(* What the proxy reads from the bus.                                      *)

\* The serials of the proxy's own calls are those it added.
LEMMA OwnSerials ==
  ASSUME Labelled
  PROVE  /\ \A x \in Elems(toBus) : Own(x) => OfProxy(x.serial)
         /\ \A x \in Elems(fromBus) : OwnAnswer(x) => OfProxy(x.reply_serial)
BY DEF Labelled, LabelledCall, LabelledReply, SerialOf, Own, OwnAnswer

\* No call or answer of the proxy's own that is left has the serial of the one read.
LEMMA OwnRead ==
  ASSUME IInv, OneEach, fromBus # <<>>, fromBus' = Tail(fromBus),
         NEW m, m = Head(fromBus), OwnAnswer(m)
  PROVE  /\ \A x \in Elems(toBus) : Own(x) => x.serial # m.reply_serial
         /\ \A x \in Elems(fromBus') : OwnAnswer(x) => x.reply_serial # m.reply_serial
<1>1. Shortens(fromBus', fromBus)
  BY TailShortens DEF IInv, Types
<1>2. 1 \in 1 .. Len(fromBus) /\ fromBus[1] = m /\ m \in Elems(fromBus)
  BY <1>1 DEF Shortens, Elems
<1>3. \A x \in Elems(toBus) : Own(x) => x.serial # m.reply_serial
  BY <1>2 DEF OneEach
<1>4. ASSUME NEW x \in Elems(fromBus'), OwnAnswer(x)
      PROVE  x.reply_serial # m.reply_serial
  <2>1. PICK i \in 1 .. Len(fromBus') : x = fromBus'[i]
    BY DEF Elems
  <2>2. i + 1 \in 1 .. Len(fromBus) /\ fromBus[i + 1] = x /\ i + 1 # 1
    BY <1>1, <2>1 DEF Shortens
  <2> QED
    BY <1>2, <1>4, <2>2 DEF OneEach
<1> QED
  BY <1>3, <1>4

\* A reply that is expected answers the proxy or the client as its entry says.
LEMMA AnswersWhom ==
  ASSUME IInv, WInv, OInv, NEW m \in ReplyMsg, m \in Elems(fromBus)
  PROVE  /\ m.reply_serial \notin DOMAIN expected_client => ~OwnAnswer(m)
         /\ m.reply_serial \in DOMAIN expected_client =>
              /\ expected_client[m.reply_serial] \in ClientKinds =>
                   ~OwnAnswer(m) /\ ~OfProxy(m.reply_serial)
              /\ expected_client[m.reply_serial] \in OwnKinds =>
                   OwnAnswer(m) /\ AwaitedAnswer(m)
<1>0. Counts /\ Tables /\ Waits /\ Expected /\ Labelled /\ AllAwaited
  BY DEF IInv, WInv, OInv, Asking
<1>1. client_serial \in Nat /\ serial_offset \in Nat
  BY <1>0 DEF Counts
<1>2. AwaitedAnswer(m)
  BY <1>0 DEF AllAwaited
<1>3. OwnAnswer(m) =>
        m.reply_serial \in DOMAIN expected_client /\ expected_client[m.reply_serial] \in OwnKinds
  BY <1>2 DEF AwaitedAnswer, OwnKinds
<1>4. \A x \in OwnKinds : x \notin ClientKinds
  BY DEF OwnKinds, ClientKinds
<1>5. SerialOf(m.reply_serial, m.of)
  BY <1>0 DEF Labelled, LabelledReply
<1>6. PICK s, k : s = m.reply_serial /\ k = m.of
  OBVIOUS
<1>7. ASSUME s \in DOMAIN expected_client, expected_client[s] \in ClientKinds
      PROVE  ~OfProxy(s)
  <2>1. SerialOf(s, k)
    BY <1>5, <1>6
  <2>2. k \in 1 .. client_serial /\ s = OnTheBus(k)
    BY <1>0, <1>7, <2>1, ClientSerial
  <2> QED
    BY <1>1, <2>2, SerialsDiffer
<1>8. ASSUME s \in DOMAIN expected_client, expected_client[s] \in OwnKinds
      PROVE  OwnAnswer(m)
  <2>1. OfProxy(s)
    BY <1>0, <1>8 DEF Expected
  <2>2. k = 0
    <3>1. SUFFICES ASSUME k # 0
                   PROVE  FALSE
      OBVIOUS
    <3>2. k \in 1 .. client_serial /\ s = OnTheBus(k)
      BY <1>5, <1>6, <3>1 DEF SerialOf, OfClient
    <3> QED
      BY <1>1, <2>1, <3>2, SerialsDiffer
  <2> QED
    BY <1>6, <2>2 DEF OwnAnswer
<1> QED
  BY <1>2, <1>3, <1>4, <1>6, <1>7, <1>8

\* A message is read and no call sent; of the tables at most the entry of s goes.
LEMMA ReadAsks ==
  ASSUME IInv, Asking, fromBus # <<>>, fromBus' = Tail(fromBus),
         UNCHANGED <<toBus, client_serial>>, NEW s,
         \A t \in DOMAIN expected_client : t # s =>
           t \in DOMAIN expected_client' /\ expected_client'[t] = expected_client[t],
         \A t \in DOMAIN get_owner_reply : t # s => get_owner_reply'[t] = get_owner_reply[t],
         \A x \in Elems(toBus) : Own(x) => x.serial # s,
         \A x \in Elems(fromBus') : OwnAnswer(x) => x.reply_serial # s
  PROVE  Asking'
<1>0. Counts /\ Tables /\ Types /\ AllAwaited /\ toBus \in Seq(ToBusMsg)
  BY DEF IInv, Asking, Types
<1>1. Elems(fromBus') \subseteq Elems(fromBus)
  <2>1. Elems(Tail(fromBus)) \subseteq Elems(fromBus)
    BY <1>0, ElemsPopped DEF Types
  <2> QED
    BY <2>1
<1>2. /\ \A x \in Elems(toBus) : Awaited(x)'
      /\ \A x \in Elems(fromBus') : AwaitedAnswer(x)'
  BY <1>0, <1>1, AllAwaitedKept
<1>3. client_serial' \in Nat /\ client_serial <= client_serial'
  BY <1>0 DEF Counts
<1>4. Extends(toBus', toBus)
  BY <1>0, ExtendsItself
<1>5. \A j \in 1 .. Len(toBus') : ~(j > Len(toBus))
  BY <1>0
<1> QED
  BY <1>2, <1>3, <1>4, <1>5, ProxyAsks

\* Such a step keeps the invariant when who owns what the message tells is allowed.
LEMMA ReadSees ==
  ASSUME IInv, OInv, fromBus # <<>>, fromBus' = Tail(fromBus), Asking', Raised,
         Extends(toBus', toBus), UNCHANGED <<owner, matches, client_serial>>,
         \A n \in Names, u \in Ids : Tells(Head(fromBus), n, u) => Allowed(u, n)',
         \A n \in Names :
           Wild(n) /\ OwnAnswer(Head(fromBus)) /\ Head(fromBus).id = NULL /\ n \in Head(fromBus).names =>
             \E x \in Elems(toBus') : WillAsk(x, n),
         \A k \in known' : k \in known \/ (k \in Names \X Ids /\ Allowed(k[2], k[1])')
  PROVE  OInv'
<1>0. /\ OwnersSeen /\ RepliesSeen /\ KnownAllowed /\ Reads
      /\ owner \in [Names -> Ids \cup {NULL}]
  BY DEF OInv, Reads, IInv, Types
<1>1. RepliesSeen' /\ KnownAllowed'
  BY <1>0, ProxyTells
<1>2. OwnersSeen'
  <2>1. CASE client_serial > 0
    <3>1. ASSUME NEW n \in Names, owner[n] # NULL, WillTell(Head(fromBus), n)
          PROVE  Allowed(owner[n], n)' \/ \E x \in Elems(toBus') : WillAsk(x, n)
      <4>1. PICK u \in Ids : u = owner[n] /\ u = owner'[n]
        BY <1>0, <3>1
      <4>2. CASE Tells(Head(fromBus), n, u)
        <5>1. Allowed(u, n)'
          BY <4>2
        <5> QED
          BY <4>1, <5>1 DEF Allowed
      <4>3. CASE ~Tells(Head(fromBus), n, u)
        BY <3>1, <4>1, <4>3 DEF WillTell
      <4> QED
        BY <4>2, <4>3
    <3> QED
      BY <1>0, <2>1, <3>1, ProxySees
  <2>2. CASE ~(client_serial > 0)
    BY <2>2 DEF OwnersSeen
  <2> QED
    BY <2>1, <2>2
<1> QED
  BY <1>1, <1>2 DEF OInv

\* A message that is neither a signal nor an answer to the proxy.
LEMMA QuietSees ==
  ASSUME IInv, WInv, OInv, fromBus # <<>>, fromBus' = Tail(fromBus),
         ~OwnAnswer(Head(fromBus)), Head(fromBus) \notin SignalMsg, Raised,
         UNCHANGED <<toBus, owner, matches, client_serial>>, NEW s, ~OfProxy(s),
         \A t \in DOMAIN expected_client : t # s =>
           t \in DOMAIN expected_client' /\ expected_client'[t] = expected_client[t],
         UNCHANGED get_owner_reply,
         \A k \in known' : k \in known \/ (k \in Names \X Ids /\ Allowed(k[2], k[1])')
  PROVE  OInv'
<1>0. Asking /\ Labelled /\ Types /\ toBus \in Seq(ToBusMsg)
  BY DEF OInv, WInv, IInv, Types
<1>1. Elems(fromBus') \subseteq Elems(fromBus)
  <2>1. Elems(Tail(fromBus)) \subseteq Elems(fromBus)
    BY <1>0, ElemsPopped DEF Types
  <2> QED
    BY <2>1
<1>2. /\ \A x \in Elems(toBus) : Own(x) => x.serial # s
      /\ \A x \in Elems(fromBus') : OwnAnswer(x) => x.reply_serial # s
  BY <1>0, <1>1, OwnSerials
<1>3. Asking'
  BY <1>0, <1>2, ReadAsks
<1>4. \A n, u : ~Tells(Head(fromBus), n, u)
  BY DEF Tells
<1>5. Extends(toBus', toBus)
  BY <1>0, ExtendsItself
<1> QED
  BY <1>3, <1>4, <1>5, ReadSees

\* An entry dropped leaves the others.
LEMMA OthersKept ==
  ASSUME NEW f, NEW s, NEW g, g = Without(f, s)
  PROVE  \A t \in DOMAIN f : t # s => t \in DOMAIN g /\ g[t] = f[t]
BY Removed

LEMMA ReplyForClientSees ==
  ASSUME IInv, WInv, OInv, NEW m \in ReplyMsg, m = Head(fromBus), m \in Elems(fromBus),
         fromBus # <<>>, fromBus' = Tail(fromBus),
         m.reply_serial \in DOMAIN expected_client,
         ReplyForClient(m, expected_client[m.reply_serial]), UNCHANGED bus
  PROVE  OInv'
<1>1. PICK s, type : s = m.reply_serial /\ type = expected_client[s]
  OBVIOUS
<1>2. /\ type \in {"NORMAL", "HELLO", "LIST_NAMES", "REWRITE"}
      /\ unique_id_policy' =
           IF type = "HELLO" THEN update_unique_id_policy(unique_id_policy, m.id, TALK)
           ELSE SeeSender(unique_id_policy, m)
      /\ expected_client' = Without(expected_client, s)
      /\ UNCHANGED <<get_owner_reply, toBus>>
  BY <1>1 DEF ReplyForClient
<1>3. PICK names : /\ \E rs : DeliverReply(m, rs, names)
                   /\ names \subseteq m.names
  <2>0. ReplyForClient(m, type)
    BY <1>1
  <2>1. CASE type = "REWRITE"
    BY <2>0, <2>1 DEF ReplyForClient
  <2>2. CASE type = "LIST_NAMES"
    <3>1. filter_names_list(m.names) \subseteq m.names
      BY DEF filter_names_list
    <3> QED
      BY <2>0, <2>2, <3>1 DEF ReplyForClient
  <2>3. CASE type \notin {"REWRITE", "LIST_NAMES"}
    BY <2>0, <2>3 DEF ReplyForClient
  <2> QED
    BY <2>1, <2>2, <2>3
<1>4. /\ known' = IF m.id # NULL THEN known \cup {<<n, m.id>> : n \in names \cap Names}
                  ELSE known
      /\ client_serial' = client_serial
  BY <1>3 DEF DeliverReply
<1>5. type \in ClientKinds /\ s \in DOMAIN expected_client
  BY <1>1, <1>2 DEF ClientKinds
<1>6. ~OwnAnswer(m) /\ ~OfProxy(s)
  BY <1>1, <1>5, AnswersWhom
<1>7. m \notin SignalMsg /\ m.id \in Ids \cup {NULL} /\ m.sender \in Peers \cup {Bus}
  BY KindsApart DEF ReplyMsg
<1>8. Raised
  <2>1. unique_id_policy \in [Ids -> Levels]
    BY DEF IInv, Types
  <2>2. CASE type = "HELLO"
    <3>1. TALK \in Levels
      BY DEF TALK, Levels, NONE, OWN
    <3>2. unique_id_policy' = update_unique_id_policy(unique_id_policy, m.id, TALK)
      BY <1>2, <2>2
    <3> QED
      BY <2>1, <3>1, <3>2, Updated DEF Raised
  <2>3. CASE type # "HELLO"
    BY <1>2, <1>7, <2>1, <2>3, Seen DEF Raised
  <2> QED
    BY <2>2, <2>3
<1>9. ASSUME NEW k \in known'
      PROVE  k \in known \/ (k \in Names \X Ids /\ Allowed(k[2], k[1])')
  <2>1. SUFFICES ASSUME k \notin known
                 PROVE  k \in Names \X Ids /\ Allowed(k[2], k[1])'
    OBVIOUS
  <2>2. m.id # NULL /\ m.id \in Ids
    BY <1>4, <1>7, <1>9, <2>1
  <2>3. PICK n \in names \cap Names : k = <<n, m.id>>
    BY <1>4, <1>9, <2>1, <2>2
  <2>4. Allowed(m.id, n)
    <3>1. Shortens(fromBus', fromBus)
      BY TailShortens DEF IInv, Types
    <3>2. 1 \in 1 .. Len(fromBus) /\ fromBus[1] = m
      BY <3>1 DEF Shortens
    <3>3. Allowed(m.id, n) \/ \E i \in 1 .. 1 : Tells(fromBus[i], n, m.id)
      BY <1>3, <2>2, <2>3, <3>2 DEF OInv, RepliesSeen
    <3>4. \A i \in 1 .. 1 : fromBus[i] = m
      BY <3>2
    <3> QED
      BY <1>6, <1>7, <3>3, <3>4 DEF Tells
  <2>5. PICK u \in Ids : u = m.id
    BY <2>2
  <2>6. Allowed(u, n)' /\ k = <<n, u>>
    BY <1>8, <2>3, <2>4, <2>5, AllowedKept
  <2>7. k[1] = n /\ k[2] = u /\ n \in Names
    BY <2>6
  <2> QED
    BY <2>6, <2>7
<1>10. \A t \in DOMAIN expected_client : t # s =>
           t \in DOMAIN expected_client' /\ expected_client'[t] = expected_client[t]
  BY <1>2, Removed
<1>11. UNCHANGED <<owner, matches>>
  BY DEF bus
<1> QED
  BY <1>2, <1>4, <1>6, <1>7, <1>8, <1>9, <1>10, <1>11, QuietSees

\* The reply to a match of the proxy's.
LEMMA FilterReplySees ==
  ASSUME IInv, WInv, OInv, NEW m \in ReplyMsg, m = Head(fromBus), m \in Elems(fromBus),
         fromBus # <<>>, fromBus' = Tail(fromBus),
         m.reply_serial \in DOMAIN expected_client, expected_client[m.reply_serial] = "FILTER",
         expected_client' = Without(expected_client, m.reply_serial),
         UNCHANGED <<unique_id_policy, get_owner_reply, toBus, client, bus>>
  PROVE  OInv'
<1>0. Asking /\ OneEach /\ toBus \in Seq(ToBusMsg)
  BY DEF OInv, Asking, IInv, Types
<1>1. OwnAnswer(m) /\ AwaitedAnswer(m)
  BY AnswersWhom DEF OwnKinds
<1>2. m.names = {} /\ m.id = NULL
  BY <1>1 DEF AwaitedAnswer
<1>3. /\ \A x \in Elems(toBus) : Own(x) => x.serial # m.reply_serial
      /\ \A x \in Elems(fromBus') : OwnAnswer(x) => x.reply_serial # m.reply_serial
  BY <1>0, <1>1, OwnRead
<1>4. PICK s : s = m.reply_serial
  OBVIOUS
<1>5. \A t \in DOMAIN expected_client : t # s =>
           t \in DOMAIN expected_client' /\ expected_client'[t] = expected_client[t]
  <2>1. PICK new : new = expected_client'
    OBVIOUS
  <2>2. new = Without(expected_client, s)
    BY <1>4, <2>1
  <2>3. \A t \in DOMAIN expected_client : t # s => t \in DOMAIN new /\ new[t] = expected_client[t]
    BY <2>2, OthersKept
  <2> QED
    BY <2>1, <2>3
<1>6. UNCHANGED <<owner, matches, client_serial, known>>
  BY DEF bus, client
<1>7. Asking'
  BY <1>0, <1>3, <1>4, <1>5, <1>6, ReadAsks
<1>8. m \notin SignalMsg /\ NULL \notin Ids
  BY KindsApart, DistinctAssumption
<1>9. \A n \in Names, u \in Ids : ~Tells(m, n, u)
  BY <1>2, <1>8 DEF Tells
<1>10. Raised /\ Extends(toBus', toBus)
  BY <1>0, NotRaised, ExtendsItself
<1> QED
  BY <1>2, <1>6, <1>7, <1>9, <1>10, ReadSees

\* The reply to a question of the proxy's for an owner: the policy of the name
\* asked for is now that of its owner.
LEMMA OwnerReplySees ==
  ASSUME IInv, WInv, OInv, NEW m \in ReplyMsg, m = Head(fromBus), m \in Elems(fromBus),
         fromBus # <<>>, fromBus' = Tail(fromBus),
         m.reply_serial \in DOMAIN expected_client,
         expected_client[m.reply_serial] = "FAKE_GET_NAME_OWNER",
         unique_id_policy' = update_unique_id_policy_from_name(
           unique_id_policy, m.id, get_owner_reply[m.reply_serial]),
         get_owner_reply' = AfterOwnerReply(m),
         expected_client' = Without(expected_client, m.reply_serial),
         UNCHANGED <<toBus, client, bus>>
  PROVE  OInv'
<1>0. /\ Asking /\ OneEach /\ toBus \in Seq(ToBusMsg) /\ Tables
      /\ unique_id_policy \in [Ids -> Levels]
  BY DEF OInv, Asking, IInv, Types
<1>1. OwnAnswer(m) /\ AwaitedAnswer(m)
  BY AnswersWhom DEF OwnKinds
<1>2. PICK s : s = m.reply_serial
  OBVIOUS
<1>3. PICK name \in Names : name = get_owner_reply[s]
  BY <1>0, <1>2 DEF Tables
<1>4. m.names = IF m.id = NULL THEN {} ELSE {name}
  BY <1>1, <1>2, <1>3 DEF AwaitedAnswer
<1>5. /\ \A x \in Elems(toBus) : Own(x) => x.serial # s
      /\ \A x \in Elems(fromBus') : OwnAnswer(x) => x.reply_serial # s
  BY <1>0, <1>1, <1>2, OwnRead
<1>6. /\ \A t \in DOMAIN expected_client : t # s =>
           t \in DOMAIN expected_client' /\ expected_client'[t] = expected_client[t]
      /\ \A t \in DOMAIN get_owner_reply : t # s => get_owner_reply'[t] = get_owner_reply[t]
  <2>1. PICK new, kept : new = expected_client' /\ kept = get_owner_reply'
    OBVIOUS
  <2>2. new = Without(expected_client, s) /\ kept = Without(get_owner_reply, s)
    BY <1>2, <2>1 DEF AfterOwnerReply
  <2>3. /\ \A t \in DOMAIN expected_client : t # s =>
             t \in DOMAIN new /\ new[t] = expected_client[t]
        /\ \A t \in DOMAIN get_owner_reply : t # s => kept[t] = get_owner_reply[t]
    BY <2>2, OthersKept
  <2> QED
    BY <2>1, <2>3
<1>7. UNCHANGED <<owner, matches, client_serial, known>>
  BY DEF bus, client
<1>8. Asking'
  BY <1>0, <1>5, <1>6, <1>7, ReadAsks
<1>9. PICK id \in Ids \cup {NULL} : id = m.id
  BY DEF ReplyMsg
<1>10. RaisedTo(unique_id_policy', unique_id_policy, id, name)
  <2>1. unique_id_policy' = update_unique_id_policy_from_name(unique_id_policy, id, name)
    BY <1>2, <1>3, <1>9
  <2> QED
    BY <1>0, <2>1, UpdatedFromName
<1>11. Raised
  BY <1>0, <1>10 DEF Raised, RaisedTo
<1>12. m \notin SignalMsg /\ NULL \notin Ids
  BY KindsApart, DistinctAssumption
<1>13. ASSUME NEW n \in Names, NEW u \in Ids, Tells(m, n, u)
       PROVE  Allowed(u, n)'
  <2>1. id = u /\ id # NULL /\ n = name
    BY <1>4, <1>9, <1>12, <1>13 DEF Tells
  <2> QED
    BY <1>10, <2>1 DEF RaisedTo, Allowed
<1>14. \A n : m.id = NULL => n \notin m.names
  BY <1>4
<1>15. Extends(toBus', toBus)
  BY <1>0, ExtendsItself
<1> QED
  BY <1>7, <1>8, <1>11, <1>13, <1>14, <1>15, ReadSees

\* The reply that lists the names: the proxy asks for the owner of each it has a
\* wildcard policy for.
LEMMA ListReplySees ==
  ASSUME IInv, WInv, OInv, NEW m \in ReplyMsg, m = Head(fromBus), m \in Elems(fromBus),
         fromBus # <<>>, fromBus' = Tail(fromBus),
         m.reply_serial \in DOMAIN expected_client,
         expected_client[m.reply_serial] = "FAKE_LIST_NAMES",
         NEW order \in Orders(WildcardNames(m.names)),
         queue_fake_messages(queue_wildcard_initial_name_ops(order), last_serial,
                             toBus, Without(expected_client, m.reply_serial)),
         UNCHANGED <<unique_id_policy, client, bus>>
  PROVE  OInv'
<1>0. /\ Asking /\ OneEach /\ AllAwaited /\ toBus \in Seq(ToBusMsg) /\ Counts /\ Tables /\ Types /\ Waits
  BY DEF OInv, Asking, IInv, WInv, Types
<1>1. OwnAnswer(m) /\ AwaitedAnswer(m)
  BY AnswersWhom DEF OwnKinds
<1>2. m.id = NULL
  BY <1>1 DEF AwaitedAnswer
<1>3. client_serial = 1 /\ last_serial \in Nat
  BY <1>0 DEF Waits, Counts
<1>4. order \in Seq(Names) /\ \A n \in WildcardNames(m.names) : \E i \in 1 .. Len(order) : order[i] = n
  <2>1. WildcardNames(m.names) \subseteq Names
    BY DEF WildcardNames
  <2>2. IsFiniteSet(WildcardNames(m.names))
    BY <2>1, FiniteAssumption, FS_Subset
  <2>3. /\ order \in Seq(WildcardNames(m.names))
        /\ \A n \in WildcardNames(m.names) : \E i \in 1 .. Len(order) : order[i] = n
    BY <2>2, OrderOf
  <2> QED
    BY <2>1, <2>3
<1>5. PICK ops : ops = queue_wildcard_initial_name_ops(order)
  OBVIOUS
<1>6. /\ ops \in Seq(FakeOps) /\ Len(ops) = Len(order)
      /\ \A i \in 1 .. Len(order) : ops[i] = Fake("GetNameOwner", order[i], "FAKE_GET_NAME_OWNER")
  BY <1>4, <1>5, QuestionOps
<1>7. \A i \in 1 .. Len(ops) : ops[i].member = "GetNameOwner" /\ ops[i].arg = order[i]
  <2>1. \A x : /\ Fake("GetNameOwner", x, "FAKE_GET_NAME_OWNER").member = "GetNameOwner"
               /\ Fake("GetNameOwner", x, "FAKE_GET_NAME_OWNER").arg = x
    BY DEF Fake
  <2> QED
    BY <1>6, <2>1
<1>8. PICK s : s = m.reply_serial
  OBVIOUS
<1>9. PICK kept : kept = Without(expected_client, s)
  OBVIOUS
<1>10. /\ DOMAIN kept = DOMAIN expected_client \ {s}
       /\ \A x \in DOMAIN expected_client \ {s} : kept[x] = expected_client[x]
  BY <1>9, Removed
<1>11. Queued(ops, last_serial, toBus, kept)
  <2>1. queue_fake_messages(ops, last_serial, toBus, kept)
    BY <1>5, <1>8, <1>9
  <2>2. DOMAIN kept \subseteq 1 .. last_serial /\ DOMAIN get_owner_reply \subseteq 1 .. last_serial
    BY <1>0, <1>10 DEF Tables
  <2> QED
    BY <1>0, <1>3, <1>6, <2>1, <2>2, QueueFakes
<1>12. /\ toBus' = toBus \o AsksFor(last_serial, ops)
       /\ DOMAIN expected_client' = DOMAIN kept \cup (last_serial + 1 .. last_serial + Len(ops))
       /\ \A t \in DOMAIN kept : expected_client'[t] = kept[t]
       /\ \A i \in 1 .. Len(ops) : expected_client'[last_serial + i] = ops[i].type
       /\ \A t \in DOMAIN get_owner_reply : get_owner_reply'[t] = get_owner_reply[t]
       /\ \A i \in 1 .. Len(ops) : ops[i].member = "GetNameOwner" =>
            get_owner_reply'[last_serial + i] = ops[i].arg
  BY <1>11 DEF Queued
<1>13. /\ Extends(toBus', toBus) /\ Len(toBus) \in Nat /\ Len(ops) \in Nat
       /\ \A j \in 1 .. Len(toBus') :
            \/ j \in 1 .. Len(toBus) /\ toBus'[j] = toBus[j]
            \/ \E i \in 1 .. Len(ops) :
                 j = Len(toBus) + i /\ toBus'[j] = AsksFor(last_serial, ops)[i]
       /\ \A i \in 1 .. Len(ops) :
            /\ Len(toBus) + i \in 1 .. Len(toBus')
            /\ toBus'[Len(toBus) + i] = AsksFor(last_serial, ops)[i]
  <2>1. Extends(toBus, toBus)
    BY <1>0, ExtendsItself
  <2>2. last_serial \in Nat /\ toBus' = toBus \o AsksFor(last_serial, ops)
    BY <1>3, <1>12
  <2> QED
    BY <1>0, <1>6, <2>1, <2>2, AsksPlaced
<1>14. \A i \in 1 .. Len(ops) : \A x : x = AsksFor(last_serial, ops)[i] =>
           Own(x) /\ Awaited(x)' /\ x.serial = last_serial + i
                  /\ x.member = ops[i].member /\ x.arg = ops[i].arg
  <2>1. last_serial + 1 .. last_serial + Len(ops) \subseteq DOMAIN expected_client'
    BY <1>12
  <2> QED
    BY <1>3, <1>6, <1>12, <2>1, AsksAwaited
<1>15. ASSUME NEW j \in 1 .. Len(toBus'), j > Len(toBus), NEW x, x = toBus'[j]
       PROVE  /\ Own(x) /\ Awaited(x)'
              /\ \E i \in 1 .. Len(ops) : j = Len(toBus) + i /\ x.serial = last_serial + i
  <2>1. PICK i \in 1 .. Len(ops) : j = Len(toBus) + i /\ x = AsksFor(last_serial, ops)[i]
    BY <1>13, <1>15
  <2> QED
    BY <1>14, <2>1
<1>16. UNCHANGED <<owner, matches, client_serial, known>>
  BY DEF bus, client
<1>17. Asking'
  <2>1. Elems(fromBus') \subseteq Elems(fromBus)
    <3>1. Elems(Tail(fromBus)) \subseteq Elems(fromBus)
      BY <1>0, ElemsPopped DEF Types
    <3> QED
      BY <3>1
  <2>2. /\ \A x \in Elems(toBus) : Own(x) => x.serial # s
        /\ \A x \in Elems(fromBus') : OwnAnswer(x) => x.reply_serial # s
    BY <1>0, <1>1, <1>8, OwnRead
  <2>3. \A t \in DOMAIN expected_client : t # s =>
           t \in DOMAIN expected_client' /\ expected_client'[t] = expected_client[t]
    BY <1>10, <1>12
  <2>4. /\ \A x \in Elems(toBus) : Awaited(x)'
        /\ \A x \in Elems(fromBus') : AwaitedAnswer(x)'
    BY <1>0, <1>12, <2>1, <2>2, <2>3, AllAwaitedKept
  <2>5. ASSUME NEW j \in 1 .. Len(toBus'), NEW x, x = toBus'[j], j > Len(toBus)
        PROVE  Own(x) /\ Awaited(x)' /\ x.serial > last_serial /\ client_serial' <= 1
    <3>1. PICK i \in 1 .. Len(ops) : x.serial = last_serial + i
      BY <1>15, <2>5
    <3>2. x.serial > last_serial /\ client_serial' <= 1
      BY <1>3, <1>13, <1>16, <3>1
    <3> QED
      BY <1>15, <2>5, <3>2
  <2>6. ASSUME NEW j \in 1 .. Len(toBus'), NEW k \in 1 .. Len(toBus'),
               j > Len(toBus), k > Len(toBus), j # k
        PROVE  toBus'[j].serial # toBus'[k].serial
    <3>1. PICK h \in 1 .. Len(ops) : j = Len(toBus) + h /\ toBus'[j].serial = last_serial + h
      BY <1>15, <2>6
    <3>2. PICK i \in 1 .. Len(ops) : k = Len(toBus) + i /\ toBus'[k].serial = last_serial + i
      BY <1>15, <2>6
    <3> QED
      BY <1>3, <1>13, <2>6, <3>1, <3>2
  <2>7. client_serial' \in Nat /\ client_serial <= client_serial'
    BY <1>3, <1>16
  <2> QED
    BY <1>0, <1>13, <2>4, <2>5, <2>6, <2>7, ProxyAsks
<1>18. ASSUME NEW n \in Names, Wild(n), n \in m.names
       PROVE  \E x \in Elems(toBus') : WillAsk(x, n)
  <2>1. n \in WildcardNames(m.names)
    BY <1>18 DEF WildcardNames, Wild
  <2>2. PICK i \in 1 .. Len(ops) : order[i] = n
    BY <1>4, <1>6, <2>1
  <2>3. PICK x : x = toBus'[Len(toBus) + i]
    OBVIOUS
  <2>4. Own(x) /\ x.member = "GetNameOwner" /\ x.arg = n
    BY <1>7, <1>13, <1>14, <2>2, <2>3
  <2>5. x \in Elems(toBus')
    BY <1>13, <2>3 DEF Elems
  <2> QED
    BY <2>4, <2>5 DEF WillAsk
<1>19. m \notin SignalMsg /\ NULL \notin Ids
  BY KindsApart, DistinctAssumption
<1>20. \A n \in Names, u \in Ids : ~Tells(m, n, u)
  BY <1>2, <1>19 DEF Tells
<1>21. Raised
  BY NotRaised
<1> QED
  BY <1>13, <1>16, <1>17, <1>18, <1>20, <1>21, ReadSees

LEMMA GotReplySees ==
  ASSUME IInv, WInv, OInv, NEW m \in ReplyMsg, m = Head(fromBus), m \in Elems(fromBus),
         fromBus # <<>>, fromBus' = Tail(fromBus),
         got_reply_from_bus(m), UNCHANGED bus
  PROVE  OInv'
<1> DEFINE s == m.reply_serial
<1>1. CASE /\ s \notin DOMAIN expected_client
           /\ UNCHANGED <<tables, serials, unique_id_policy, reading, toBus, client>>
  <2>1. UNCHANGED <<expected_client, get_owner_reply, unique_id_policy, toBus, owner, matches,
                    client_serial, known>>
    BY <1>1 DEF tables, client, bus
  <2>2. ~OwnAnswer(m) /\ m \notin SignalMsg
    BY <1>1, AnswersWhom, KindsApart
  <2>3. Raised
    BY <2>1, NotRaised
  <2>4. ~OfProxy(0)
    BY DEF OfProxy
  <2> QED
    BY <2>1, <2>2, <2>3, <2>4, QuietSees
<1>2. CASE s \in DOMAIN expected_client /\ ReplyForClient(m, expected_client[s])
  BY <1>2, ReplyForClientSees
<1>3. CASE /\ s \in DOMAIN expected_client /\ ReplyForProxy(m, expected_client[s])
           /\ UNCHANGED <<rewrite_reply, client>>
  <2>1. CASE /\ expected_client[s] = "FILTER"
             /\ expected_client' = Without(expected_client, s)
             /\ UNCHANGED <<unique_id_policy, get_owner_reply, serials, reading, toBus>>
    <3>1. UNCHANGED <<unique_id_policy, get_owner_reply, toBus, client, bus>>
      BY <1>3, <2>1
    <3> QED
      BY <1>3, <2>1, <3>1, FilterReplySees
  <2>2. CASE /\ expected_client[s] = "FAKE_GET_NAME_OWNER"
             /\ unique_id_policy' = update_unique_id_policy_from_name(
                  unique_id_policy, m.id, get_owner_reply[s])
             /\ get_owner_reply' = AfterOwnerReply(m)
             /\ expected_client' = Without(expected_client, s)
             /\ UNCHANGED <<serials, reading, toBus>>
    <3>1. UNCHANGED <<toBus, client, bus>>
      BY <1>3, <2>2
    <3> QED
      BY <1>3, <2>2, <3>1, OwnerReplySees
  <2>3. CASE /\ expected_client[s] = "FAKE_LIST_NAMES"
             /\ \E order \in Orders(WildcardNames(m.names)) :
                  queue_fake_messages(queue_wildcard_initial_name_ops(order), last_serial,
                                      toBus, Without(expected_client, s))
             /\ reading' = TRUE
             /\ UNCHANGED <<unique_id_policy, hello_serial>>
    <3>1. PICK order \in Orders(WildcardNames(m.names)) :
            queue_fake_messages(queue_wildcard_initial_name_ops(order), last_serial,
                                toBus, Without(expected_client, s))
      BY <2>3
    <3>2. UNCHANGED <<unique_id_policy, client, bus>>
      BY <1>3, <2>3
    <3> QED
      BY <1>3, <2>3, <3>1, <3>2, ListReplySees
  <2> QED
    BY <1>3, <2>1, <2>2, <2>3 DEF ReplyForProxy
<1> QED
  BY <1>1, <1>2, <1>3 DEF got_reply_from_bus

LEMMA GotCallSees ==
  ASSUME IInv, WInv, OInv, NEW m \in PeerCallMsg, m = Head(fromBus),
         fromBus # <<>>, fromBus' = Tail(fromBus),
         got_call_from_bus(m), UNCHANGED bus
  PROVE  OInv'
<1>1. /\ UNCHANGED <<expected_client, get_owner_reply, toBus, owner, matches, client_serial, known>>
      /\ unique_id_policy' = SeeSender(unique_id_policy, m)
  BY DEF got_call_from_bus, tables, bus
<1>2. ~OwnAnswer(m) /\ m \notin SignalMsg
  BY KindsApart DEF OwnAnswer
<1>3. Raised
  <2>1. m.sender \in Peers \cup {Bus} /\ unique_id_policy \in [Ids -> Levels]
    BY DEF PeerCallMsg, IInv, Types
  <2> QED
    BY <1>1, <2>1, Seen DEF Raised
<1>4. ~OfProxy(0)
  BY DEF OfProxy
<1> QED
  BY <1>1, <1>2, <1>3, <1>4, QuietSees

LEMMA GotBroadcastSees ==
  ASSUME IInv, WInv, OInv, NEW m \in BroadcastMsg, m = Head(fromBus),
         fromBus # <<>>, fromBus' = Tail(fromBus),
         got_broadcast(m), UNCHANGED bus
  PROVE  OInv'
<1>1. UNCHANGED <<expected_client, get_owner_reply, toBus, owner, matches, client_serial, known,
                  unique_id_policy>>
  BY DEF got_broadcast, tables, bus
<1>2. ~OwnAnswer(m) /\ m \notin SignalMsg
  BY KindsApart DEF OwnAnswer
<1>3. Raised /\ ~OfProxy(0)
  BY <1>1, NotRaised DEF OfProxy
<1> QED
  BY <1>1, <1>2, <1>3, QuietSees

\* A signal that a name has a new owner: that owner gets the policy of the name,
\* unless the name has none.
LEMMA GotOwnerChangedSees ==
  ASSUME IInv, OInv, NEW m \in SignalMsg, m = Head(fromBus),
         fromBus # <<>>, fromBus' = Tail(fromBus),
         got_name_owner_changed(m), UNCHANGED bus
  PROVE  OInv'
<1>0. /\ Asking /\ AllAwaited /\ Tables /\ Types /\ toBus \in Seq(ToBusMsg)
      /\ unique_id_policy \in [Ids -> Levels]
  BY DEF OInv, Asking, IInv, Types
<1>1. UNCHANGED <<expected_client, get_owner_reply, toBus, owner, matches, client_serial>>
  BY DEF got_name_owner_changed, tables, bus
<1>2. ~OwnAnswer(m)
  BY KindsApart DEF OwnAnswer
<1>3. PICK name \in Names, old \in Ids \cup {NULL}, new \in Ids \cup {NULL} :
        name = m.name /\ old = m.old /\ new = m.new
  BY DEF SignalMsg
<1>4. xdg_app_proxy_get_policy(name) \in Nat
      /\ xdg_app_proxy_client_get_policy(name) = xdg_app_proxy_get_policy(name)
  BY PolicyRange, SourcePolicy DEF Levels, NONE, OWN
<1>5. /\ Raised /\ (new # NULL => Allowed(new, name)')
      /\ known' = known \/ (new # NULL /\ known' = known \cup {<<name, new>>})
  <2>1. CASE should_filter_name_owner_changed(m)
    <3>1. UNCHANGED <<unique_id_policy, known>>
      BY <2>1 DEF got_name_owner_changed
    <3>2. xdg_app_proxy_get_policy(name) = 0
      BY <1>3, <1>4, <2>1 DEF should_filter_name_owner_changed, SEE
    <3>3. \A u \in Ids : unique_id_policy'[u] \in Nat
      BY <1>0, <3>1 DEF Levels, NONE, OWN
    <3>4. new # NULL => Allowed(new, name)'
      BY <3>2, <3>3 DEF Allowed
    <3> QED
      BY <3>1, <3>4, NotRaised
  <2>2. CASE ~should_filter_name_owner_changed(m)
    <3>1. PICK mid : mid = update_unique_id_policy_from_name(unique_id_policy, old, name)
      OBVIOUS
    <3>2. /\ unique_id_policy' = update_unique_id_policy_from_name(mid, new, name)
          /\ known' = IF new = NULL THEN known ELSE known \cup {<<name, new>>}
      BY <1>3, <2>2, <3>1 DEF got_name_owner_changed
    <3>3. RaisedTo(mid, unique_id_policy, old, name)
      BY <1>0, <3>1, UpdatedFromName
    <3>4. mid \in [Ids -> Levels]
      BY <3>3 DEF RaisedTo
    <3>5. RaisedTo(unique_id_policy', mid, new, name)
      BY <3>2, <3>4, UpdatedFromName
    <3>6. Raised
      <4>1. /\ unique_id_policy' \in [Ids -> Levels]
            /\ \A u \in Ids : unique_id_policy'[u] >= mid[u] /\ mid[u] >= unique_id_policy[u]
        BY <3>3, <3>5 DEF RaisedTo
      <4>2. ASSUME NEW u \in Ids
            PROVE  unique_id_policy'[u] >= unique_id_policy[u]
        <5>1. unique_id_policy'[u] \in Nat /\ mid[u] \in Nat /\ unique_id_policy[u] \in Nat
          BY <1>0, <3>4, <4>1 DEF Levels, NONE, OWN
        <5> QED
          BY <4>1, <5>1
      <4> QED
        BY <1>0, <4>1, <4>2 DEF Raised
    <3>7. new # NULL => Allowed(new, name)'
      BY <3>5 DEF RaisedTo, Allowed
    <3> QED
      BY <3>2, <3>6, <3>7
  <2> QED
    BY <2>1, <2>2
<1>6. Asking'
  <2>0. 0 \notin DOMAIN expected_client
    BY <1>0 DEF Tables
  <2>1. \A x \in Elems(toBus) : Own(x) => x.serial # 0
    BY <1>0, <2>0 DEF AllAwaited, Awaited
  <2>2. \A x \in Elems(fromBus) : OwnAnswer(x) => x.reply_serial # 0
    BY <1>0, <2>0 DEF AllAwaited, AwaitedAnswer
  <2>3. Elems(fromBus') \subseteq Elems(fromBus)
    <3>1. Elems(Tail(fromBus)) \subseteq Elems(fromBus)
      BY <1>0, ElemsPopped DEF Types
    <3> QED
      BY <3>1
  <2> QED
    BY <1>0, <1>1, <2>1, <2>2, <2>3, ReadAsks
<1>7. ASSUME NEW n \in Names, NEW u \in Ids, Tells(m, n, u)
      PROVE  Allowed(u, n)'
  <2>1. n = name /\ u = new
    BY <1>2, <1>3, <1>7 DEF Tells
  <2>2. u # NULL
    BY DistinctAssumption
  <2> QED
    BY <1>5, <2>1, <2>2
<1>8. ASSUME NEW k \in known'
      PROVE  k \in known \/ (k \in Names \X Ids /\ Allowed(k[2], k[1])')
  <2>1. CASE new # NULL /\ k = <<name, new>>
    <3>1. k[1] = name /\ k[2] = new /\ k \in Names \X Ids
      BY <2>1
    <3> QED
      BY <1>5, <2>1, <3>1
  <2> QED
    BY <1>5, <1>8, <2>1
<1>9. Extends(toBus', toBus)
  BY <1>0, <1>1, ExtendsItself
<1> QED
  BY <1>1, <1>2, <1>5, <1>6, <1>7, <1>8, <1>9, ReadSees

LEMMA BusReadSees ==
  ASSUME IInv, WInv, OInv, got_buffer_from_bus
  PROVE  OInv'
<1>1. PICK m : m = Head(fromBus)
  OBVIOUS
<1>2. fromBus # <<>> /\ fromBus' = Tail(fromBus) /\ UNCHANGED bus
  BY DEF got_buffer_from_bus
<1>3. /\ m.type \in {"return", "error"} => m \in ReplyMsg
      /\ m.type = "call" => m \in PeerCallMsg
      /\ m.type = "signal" => m \in SignalMsg
      /\ m.type = "broadcast" => m \in BroadcastMsg
      /\ m.type \in {"return", "error", "call", "signal", "broadcast"}
  BY <1>1, <1>2, HeadOfBus
<1>4. m \in Elems(fromBus)
  BY <1>1, <1>2, ElemsPopped DEF IInv, Types
<1>5. CASE m.type \in {"return", "error"}
  <2>1. got_reply_from_bus(m)
    BY <1>1, <1>5 DEF got_buffer_from_bus
  <2> QED
    BY <1>1, <1>2, <1>3, <1>4, <1>5, <2>1, GotReplySees
<1>6. CASE m.type = "call"
  <2>1. got_call_from_bus(m)
    BY <1>1, <1>6 DEF got_buffer_from_bus
  <2> QED
    BY <1>1, <1>2, <1>3, <1>6, <2>1, GotCallSees
<1>7. CASE m.type = "signal"
  <2>1. got_name_owner_changed(m)
    BY <1>1, <1>7 DEF got_buffer_from_bus
  <2> QED
    BY <1>1, <1>2, <1>3, <1>7, <2>1, GotOwnerChangedSees
<1>8. CASE m.type = "broadcast"
  <2>1. got_broadcast(m)
    BY <1>1, <1>8 DEF got_buffer_from_bus
  <2> QED
    BY <1>1, <1>2, <1>3, <1>8, <2>1, GotBroadcastSees
<1> QED
  BY <1>3, <1>5, <1>6, <1>7, <1>8

-----------------------------------------------------------------------------
(* Together.                                                               *)

LEMMA InitSees ==
  ASSUME Init
  PROVE  OInv
<1>1. /\ toBus = <<>> /\ fromBus = <<>> /\ client_serial = 0 /\ known = {}
      /\ Len(toBus) = 0 /\ Len(fromBus) = 0
  BY DEF Init
<1>2. \A i \in 1 .. 0 : FALSE
  OBVIOUS
<1>3. Elems(toBus) = {} /\ Elems(fromBus) = {}
  BY <1>1, <1>2 DEF Elems
<1>4. Asking
  BY <1>1, <1>2, <1>3 DEF Asking, AllAwaited, OneEach, OwnFirst
<1>5. OwnersSeen /\ RepliesSeen /\ KnownAllowed
  BY <1>1, <1>2 DEF OwnersSeen, RepliesSeen, KnownAllowed
<1> QED
  BY <1>4, <1>5 DEF OInv

LEMMA NextSees ==
  ASSUME IInv, WInv, OInv, ~Pipelining, [Next]_vars
  PROVE  OInv'
<1>1. CASE ClientHello
  BY <1>1, HelloSees
<1>2. CASE ClientCalls
  BY <1>2, CallsSee
<1>3. CASE ClientReusesSerial
  BY <1>3, ReusesSee
<1>4. CASE ClientReplies
  BY <1>4, RepliesSee
<1>5. CASE side_in_cb_returns
  BY <1>5, ReturnsSee
<1>6. CASE got_buffer_from_bus
  BY <1>6, BusReadSees
<1>7. CASE BusHandles
  BY <1>7, BusSees
<1>8. CASE PeerAnswers \/ PeerCallsClient \/ PeerBroadcasts \/ PeerChangesOwner
  BY <1>8, PeersSee
<1>9. CASE UNCHANGED vars
  BY <1>9, UntouchedSees DEF vars, tables, bus, client
<1> QED
  BY <1>1, <1>2, <1>3, <1>4, <1>5, <1>6, <1>7, <1>8, <1>9 DEF Next

\* Who owns a name the client may see is either allowed what the name is, or the
\* proxy has still to read or to ask who it is: the invariant behind the next
\* theorem.
THEOREM OwnersFollowed == ~Pipelining /\ Spec => []OInv
<1> SUFFICES ASSUME ~Pipelining
             PROVE  Spec => []OInv
  OBVIOUS
<1>1. Init => OInv
  BY InitSees
<1>2. IInv /\ WInv /\ OInv /\ [Next]_vars => OInv'
  BY NextSees
<1>3. Spec => []WInv
  BY Waiting
<1> QED
  BY <1>1, <1>2, <1>3, Invariance, PTL DEF Spec

\* A unique id of which the client was told that it owns a name is allowed what
\* the name is, and once nothing is under way so is every owner: the policies of
\* unique ids follow NameOwnerChanged and the replies to the proxy's own
\* questions (update_unique_id_policy_from_name).
THEOREM OwnersAreAllowed == ~Pipelining /\ Spec => []OwnersAllowed
<1>1. IInv /\ WInv /\ OInv => OwnersAllowed
  <2> SUFFICES ASSUME IInv, WInv, OInv
               PROVE  OwnersAllowed
    OBVIOUS
  <2>1. \A k \in known : unique_id_policy[k[2]] >= xdg_app_proxy_get_policy(k[1])
    BY DEF OInv, KnownAllowed, Allowed
  <2>2. ASSUME Helloed, toBus = <<>>, fromBus = <<>>, NEW n \in Names, owner[n] # NULL
        PROVE  unique_id_policy[owner[n]] >= xdg_app_proxy_get_policy(n)
    <3>1. client_serial > 0
      <4>1. PICK i \in DOMAIN delivered : delivered[i].of = 1
        BY <2>2 DEF Helloed
      <4>2. i \in 1 .. Len(delivered)
        BY DEF WInv, Answered
      <4>3. 1 \in 1 .. client_serial /\ client_serial \in Nat
        BY <4>1, <4>2 DEF WInv, Answered, IInv, Counts
      <4> QED
        BY <4>3
    <3>2. CASE xdg_app_proxy_get_policy(n) > NONE
      <4>1. OwnerSeen(n)
        BY <2>2, <3>1, <3>2 DEF OInv, OwnersSeen
      <4>2. Len(toBus) = 0 /\ Len(fromBus) = 0
        BY <2>2
      <4>3. Elems(toBus) = {} /\ Elems(fromBus) = {}
        BY <4>2 DEF Elems
      <4> QED
        BY <4>1, <4>3 DEF OwnerSeen, Allowed
    <3>3. CASE ~(xdg_app_proxy_get_policy(n) > NONE)
      <4>1. xdg_app_proxy_get_policy(n) \in Levels
        BY PolicyRange
      <4>2. unique_id_policy[owner[n]] \in Levels
        BY <2>2 DEF IInv, Types
      <4> QED
        BY <3>3, <4>1, <4>2 DEF Levels, NONE, OWN
    <3> QED
      BY <3>2, <3>3
  <2> QED
    BY <2>1, <2>2 DEF OwnersAllowed
<1> SUFFICES ASSUME ~Pipelining
             PROVE  Spec => []OwnersAllowed
  OBVIOUS
<1>2. Spec => []WInv
  BY Waiting
<1>3. Spec => []OInv
  BY OwnersFollowed
<1> QED
  BY <1>1, <1>2, <1>3, Invariance, PTL

=============================================================================
