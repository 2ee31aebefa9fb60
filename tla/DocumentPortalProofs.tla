------------------------ MODULE DocumentPortalProofs ------------------------
(***************************************************************************)
(* Proofs about DocumentPortal for every set of documents, apps, files and *)
(* permission arguments, and any number of requests.  What the portal, the *)
(* store, the save and the file hold all comes from calls, so the calls on *)
(* their way are part of what each invariant says.  Which map a sequence   *)
(* of calls leads to is a recursive function; what it computes is proved   *)
(* by looking at the least number of calls for which it would be wrong.    *)
(***************************************************************************)
EXTENDS DocumentPortal, TLAPS, WellFoundedInduction

Granted == [Docs -> [Apps -> SUBSET Perms]]

\* A call that sends nothing transient and nothing that was not granted.
Good(m, g) ==
  /\ m \in Message
  /\ m.op = "set" => ~m.data.transient
  /\ m.op = "set_permission" => m.permissions \subseteq g[m.doc][m.app]

GoodCalls(cs, g) == cs \in Seq(Message) /\ \A i \in 1..Len(cs) : Good(cs[i], g)

\* A map with nothing that was not granted, and one the store may have.
GoodMap(m, g) ==
  /\ m \in Map
  /\ \A doc \in Docs, app \in Apps : m[doc] # NULL => m[doc].permissions[app] \subseteq g[doc][app]

StoreMap(m, g) == GoodMap(m, g) /\ \A doc \in Docs : m[doc] # NULL => ~m[doc].data.transient

Grows(g, h) == \A doc \in Docs, app \in Apps : g[doc][app] \subseteq h[doc][app]

IInv == TypeOK /\ NoInventedPermission /\ TransientStaysInPortal

\* What IInv says of each variable.
Parts ==
  /\ running \in BOOLEAN /\ outstanding \in BOOLEAN /\ clean \in BOOLEAN
  /\ outstanding => saving # NULL
  /\ requests \in 0..MaxRequests
  /\ granted \in Granted
  /\ GoodMap(db, granted) /\ StoreMap(store, granted)
  /\ saving = NULL \/ StoreMap(saving, granted)
  /\ file = NULL \/ StoreMap(file, granted)
  /\ GoodCalls(calls, granted)

-----------------------------------------------------------------------------
(* Maps and calls.                                                         *)

LEMMA EmptyGood ==
  ASSUME NEW g
  PROVE  StoreMap(EmptyMap, g) /\ MapOf(NULL) = EmptyMap
BY DEF StoreMap, GoodMap, EmptyMap, Map, MapOf

LEMMA MapOfMap ==
  ASSUME NEW m \in Map
  PROVE  MapOf(m) = m
BY NullAssumption DEF MapOf

LEMMA GoodGrows ==
  ASSUME NEW g, NEW h, Grows(g, h)
  PROVE  /\ \A m : GoodMap(m, g) => GoodMap(m, h)
         /\ \A m : StoreMap(m, g) => StoreMap(m, h)
         /\ \A cs : GoodCalls(cs, g) => GoodCalls(cs, h)
<1>1. \A m : GoodMap(m, g) => GoodMap(m, h)
  BY DEF GoodMap, Grows
<1>2. \A m : Good(m, g) => Good(m, h)
  BY DEF Good, Grows, Message
<1> QED
  BY <1>1, <1>2 DEF StoreMap, GoodCalls

LEMMA ConcatGood ==
  ASSUME NEW g, NEW cs, NEW new, GoodCalls(cs, g), GoodCalls(new, g)
  PROVE  GoodCalls(cs \o new, g)
<1>1. /\ cs \in Seq(Message) /\ new \in Seq(Message) /\ cs \o new \in Seq(Message)
      /\ Len(cs) \in Nat /\ Len(new) \in Nat /\ Len(cs \o new) = Len(cs) + Len(new)
  BY DEF GoodCalls
<1>2. ASSUME NEW i \in 1..Len(cs \o new)
      PROVE  Good((cs \o new)[i], g)
  <2>1. CASE i <= Len(cs)
    <3>1. i \in 1..Len(cs) /\ (cs \o new)[i] = cs[i]
      BY <1>1, <2>1
    <3> QED
      BY <3>1 DEF GoodCalls
  <2>2. CASE i > Len(cs)
    <3>1. i - Len(cs) \in 1..Len(new) /\ (cs \o new)[i] = new[i - Len(cs)]
      BY <1>1, <2>2
    <3> QED
      BY <3>1 DEF GoodCalls
  <2> QED
    BY <1>1, <2>1, <2>2
<1> QED
  BY <1>1, <1>2 DEF GoodCalls

LEMMA ShortGood ==
  ASSUME NEW g
  PROVE  GoodCalls(<<>>, g) /\ \A m : Good(m, g) => GoodCalls(<<m>>, g)
<1>1. GoodCalls(<<>>, g)
  BY DEF GoodCalls
<1>2. ASSUME NEW m, Good(m, g)
      PROVE  GoodCalls(<<m>>, g)
  <2>1. m \in Message
    BY <1>2 DEF Good
  <2>2. <<m>> \in Seq(Message) /\ Len(<<m>>) = 1 /\ <<m>>[1] = m
    BY <2>1
  <2> QED
    BY <1>2, <2>2 DEF GoodCalls
<1> QED
  BY <1>1, <1>2

\* The calls that are left when some were handled or lost.
LEMMA PartGood ==
  ASSUME NEW g, NEW cs, GoodCalls(cs, g), NEW a \in 1..(Len(cs) + 1), NEW b \in 0..Len(cs)
  PROVE  GoodCalls(SubSeq(cs, a, b), g)
<1>1. cs \in Seq(Message) /\ Len(cs) \in Nat
  BY DEF GoodCalls
<1>2. SubSeq(cs, a, b) \in Seq(Message)
  BY <1>1
<1>3. ASSUME NEW i \in 1..Len(SubSeq(cs, a, b))
      PROVE  Good(SubSeq(cs, a, b)[i], g)
  <2>1. a + i - 1 \in 1..Len(cs) /\ SubSeq(cs, a, b)[i] = cs[a + i - 1]
    BY <1>1
  <2> QED
    BY <2>1 DEF GoodCalls
<1> QED
  BY <1>2, <1>3 DEF GoodCalls

LEMMA TailGood ==
  ASSUME NEW g, NEW cs, GoodCalls(cs, g), cs # <<>>
  PROVE  GoodCalls(Tail(cs), g) /\ Good(Head(cs), g)
<1>1. /\ cs \in Seq(Message) /\ Len(cs) \in Nat \ {0} /\ Tail(cs) \in Seq(Message)
      /\ Len(Tail(cs)) = Len(cs) - 1 /\ Head(cs) = cs[1]
      /\ \A i \in 1..Len(Tail(cs)) : i + 1 \in 1..Len(cs) /\ Tail(cs)[i] = cs[i + 1]
  BY DEF GoodCalls
<1> QED
  BY <1>1 DEF GoodCalls

\* The parts of the invariant, as what maps and calls are good.
LEMMA InvParts ==
  IInv <=> Parts
<1>1. MapOf(NULL) = EmptyMap /\ StoreMap(EmptyMap, granted)
  BY EmptyGood
<1>2. \A m \in Map : MapOf(m) = m
  BY MapOfMap
<1>3. NULL \notin Map
  BY NullAssumption
<1>4. ASSUME IInv
      PROVE  /\ GoodMap(db, granted) /\ StoreMap(store, granted)
             /\ saving = NULL \/ StoreMap(saving, granted)
             /\ file = NULL \/ StoreMap(file, granted)
  BY <1>2, <1>4 DEF IInv, TypeOK, NoInventedPermission, OnlyGranted, TransientStaysInPortal,
                    StoreMap, GoodMap
<1>5. ASSUME IInv
      PROVE  GoodCalls(calls, granted)
  <2>1. \A i \in 1..Len(calls) : calls[i] \in Message
    BY <1>5 DEF IInv, TypeOK
  <2> QED
    BY <1>5, <2>1 DEF IInv, TypeOK, NoInventedPermission, TransientStaysInPortal, GoodCalls, Good
<1>6. ASSUME /\ GoodMap(db, granted) /\ StoreMap(store, granted)
             /\ saving = NULL \/ StoreMap(saving, granted)
             /\ file = NULL \/ StoreMap(file, granted)
             /\ GoodCalls(calls, granted)
      PROVE  /\ NoInventedPermission /\ TransientStaysInPortal
             /\ db \in Map /\ store \in Map /\ saving \in Map \cup {NULL} /\ file \in Map \cup {NULL}
             /\ calls \in Seq(Message)
  <2>1. StoreMap(MapOf(saving), granted) /\ StoreMap(MapOf(file), granted)
    BY <1>1, <1>2, <1>6 DEF StoreMap, GoodMap
  <2>2. OnlyGranted(db) /\ OnlyGranted(store) /\ OnlyGranted(MapOf(saving)) /\ OnlyGranted(MapOf(file))
    BY <1>6, <2>1 DEF OnlyGranted, StoreMap, GoodMap
  <2> QED
    BY <1>6, <2>1, <2>2 DEF NoInventedPermission, TransientStaysInPortal, StoreMap, GoodMap, GoodCalls, Good
<1> QED
  BY <1>4, <1>5, <1>6 DEF Parts, IInv, TypeOK, Granted

-----------------------------------------------------------------------------
(* Requests.                                                               *)

\* What a request may do: nothing to the store, and only good things to the
\* map and the calls.
RequestGood ==
  /\ UNCHANGED <<running, service, clean>>
  /\ requests' \in 0..MaxRequests
  /\ granted' \in Granted /\ Grows(granted, granted')
  /\ GoodMap(db', granted') /\ GoodCalls(calls', granted')

LEMMA AcceptBound ==
  ASSUME IInv, Request, requests' = requests + 1
  PROVE  requests' \in 0..MaxRequests
<1>1. requests \in 0..MaxRequests /\ requests < MaxRequests
  BY DEF IInv, TypeOK, Request
<1> QED
  BY <1>1, MaxRequestsAssumption

\* A request that is refused changes nothing.
LEMMA RefuseGood ==
  ASSUME IInv, Request, UNCHANGED <<db, calls, granted, requests>>
  PROVE  RequestGood
<1>1. granted \in Granted /\ GoodMap(db, granted) /\ GoodCalls(calls, granted)
  BY InvParts DEF Parts
<1>2. Grows(granted, granted)
  BY DEF Grows
<1> QED
  BY <1>1, <1>2 DEF RequestGood, Request, IInv, TypeOK

\* Setting an entry whose permissions were granted keeps a map good.
LEMMA SetEntryGood ==
  ASSUME NEW m, NEW g, GoodMap(m, g), NEW doc \in Docs, NEW entry \in Entry \cup {NULL},
         entry # NULL => \A app \in Apps : entry.permissions[app] \subseteq g[doc][app]
  PROVE  GoodMap([m EXCEPT ![doc] = entry], g)
BY DEF GoodMap, Map

LEMMA EntryPermissions ==
  ASSUME NEW entry \in Entry, NEW app \in Apps, NEW perms \in SUBSET Perms
  PROVE  /\ SetAppPermissions(entry, app, perms) \in Entry
         /\ SetAppPermissions(entry, app, perms).data = entry.data
         /\ SetAppPermissions(entry, app, perms).permissions = [entry.permissions EXCEPT ![app] = perms]
         /\ entry.permissions \in [Apps -> SUBSET Perms] /\ entry.data \in Data
         /\ xdp_entry_get_permissions(entry, app) = entry.permissions[app]
BY HostAssumption DEF SetAppPermissions, Entry, xdp_entry_get_permissions

LEMMA SetPermissionsGood ==
  ASSUME NEW g \in Granted, NEW m, GoodMap(m, g), NEW doc \in Docs, NEW entry \in Entry,
         \A a \in Apps : entry.permissions[a] \subseteq g[doc][a],
         NEW app \in Apps, NEW perms \in SUBSET Perms, perms \subseteq g[doc][app]
  PROVE  /\ GoodMap([m EXCEPT ![doc] = SetAppPermissions(entry, app, perms)], g)
         /\ GoodCalls(PermissionCall(entry, doc, app, perms), g)
<1> DEFINE set == SetAppPermissions(entry, app, perms)
<1>1. set \in Entry /\ \A a \in Apps : set.permissions[a] \subseteq g[doc][a]
  <2>1. /\ set \in Entry /\ set.permissions = [entry.permissions EXCEPT ![app] = perms]
        /\ entry.permissions \in [Apps -> SUBSET Perms]
    BY EntryPermissions
  <2> HIDE DEF set
  <2>2. \A a \in Apps : set.permissions[a] = IF a = app THEN perms ELSE entry.permissions[a]
    BY <2>1
  <2> QED
    BY <2>1, <2>2
<1>2. GoodMap([m EXCEPT ![doc] = set], g)
  BY <1>1, SetEntryGood, NullAssumption
<1> DEFINE call == [op |-> "set_permission", doc |-> doc, app |-> app, permissions |-> perms]
<1>3. call \in Message
  BY DEF Message
<1>4. Good(call, g)
  BY <1>3 DEF Good
<1>5. GoodCalls(PermissionCall(entry, doc, app, perms), g)
  BY <1>4, ShortGood DEF PermissionCall
<1> QED
  BY <1>2, <1>5

LEMMA GrantGood ==
  ASSUME IInv, NEW caller \in Callers, NEW doc \in Docs, NEW target \in Apps, NEW perms \in PermArgs,
         portal_grant_permissions(caller, doc, target, perms)
  PROVE  RequestGood
<1> DEFINE entry == db[doc]
           all == perms \cup xdp_entry_get_permissions(entry, target)
           g == [granted EXCEPT ![doc][target] = @ \cup perms]
<1>1. Request
  BY DEF portal_grant_permissions
<1>2. CASE UNCHANGED <<db, calls, granted, requests>>
  BY <1>1, <1>2, RefuseGood
<1>3. CASE /\ entry # NULL
           /\ do_set_permissions(entry, doc, target, all)
           /\ granted' = g /\ requests' = requests + 1
  <2>1. granted \in Granted /\ GoodMap(db, granted) /\ GoodCalls(calls, granted)
    BY InvParts DEF Parts
  <2>2. entry \in Entry /\ perms \in SUBSET Perms
    BY <1>3, <2>1, PermArgsAssumption DEF GoodMap, Map
  <2>3. /\ g \in Granted /\ Grows(granted, g)
        /\ g[doc][target] = granted[doc][target] \cup perms
    BY <2>1, <2>2 DEF Granted, Grows
  <2>4. GoodMap(db, g) /\ GoodCalls(calls, g)
    BY <2>1, <2>3, GoodGrows
  <2>5. \A a \in Apps : entry.permissions[a] \subseteq g[doc][a]
    BY <1>3, <2>4 DEF GoodMap
  <2>6. all = perms \cup entry.permissions[target] /\ entry.permissions[target] \subseteq Perms
    BY <2>2, EntryPermissions
  <2>7. all \subseteq Perms /\ all \subseteq g[doc][target]
    BY <2>1, <2>2, <2>3, <2>5, <2>6
  <2> HIDE DEF g, all, entry
  <2>8. GoodMap(db', g) /\ GoodCalls(PermissionCall(entry, doc, target, all), g)
    BY <1>3, <2>2, <2>3, <2>4, <2>5, <2>7, SetPermissionsGood DEF do_set_permissions
  <2>9. GoodCalls(calls', g)
    BY <1>3, <2>4, <2>8, ConcatGood DEF do_set_permissions
  <2> QED
    BY <1>1, <1>3, <2>3, <2>8, <2>9, AcceptBound DEF RequestGood, Request
<1> QED
  BY <1>2, <1>3 DEF portal_grant_permissions, Refuse, Accept

LEMMA RevokeGood ==
  ASSUME IInv, NEW caller \in Callers, NEW doc \in Docs, NEW target \in Apps, NEW perms \in PermArgs,
         portal_revoke_permissions(caller, doc, target, perms)
  PROVE  RequestGood
<1> DEFINE entry == db[doc]
           left == xdp_entry_get_permissions(entry, target) \ perms
<1>1. Request
  BY DEF portal_revoke_permissions
<1>2. CASE UNCHANGED <<db, calls, granted, requests>>
  BY <1>1, <1>2, RefuseGood
<1>3. CASE /\ entry # NULL
           /\ do_set_permissions(entry, doc, target, left)
           /\ granted' = granted /\ requests' = requests + 1
  <2>1. granted \in Granted /\ GoodMap(db, granted) /\ GoodCalls(calls, granted)
    BY InvParts DEF Parts
  <2>2. entry \in Entry
    BY <1>3, <2>1 DEF GoodMap, Map
  <2>3. \A a \in Apps : entry.permissions[a] \subseteq granted[doc][a]
    BY <1>3, <2>1 DEF GoodMap
  <2>4. left \subseteq entry.permissions[target] /\ entry.permissions[target] \subseteq Perms
    BY <2>2, EntryPermissions
  <2>5. left \subseteq Perms /\ left \subseteq granted[doc][target]
    BY <2>3, <2>4
  <2> HIDE DEF left, entry
  <2>6. GoodMap(db', granted) /\ GoodCalls(PermissionCall(entry, doc, target, left), granted)
    BY <1>3, <2>1, <2>2, <2>3, <2>5, SetPermissionsGood DEF do_set_permissions
  <2>7. GoodCalls(calls', granted)
    BY <1>3, <2>1, <2>6, ConcatGood DEF do_set_permissions
  <2>8. Grows(granted, granted)
    BY DEF Grows
  <2> QED
    BY <1>1, <1>3, <2>1, <2>6, <2>7, <2>8, AcceptBound DEF RequestGood, Request
<1> QED
  BY <1>2, <1>3 DEF portal_revoke_permissions, Refuse, Accept

LEMMA DeleteGood ==
  ASSUME IInv, NEW caller \in Callers, NEW doc \in Docs, portal_delete(caller, doc)
  PROVE  RequestGood
<1> DEFINE entry == db[doc]
           call == [op |-> "delete", doc |-> doc]
           new == IF persist_entry(entry) THEN <<call>> ELSE <<>>
<1>1. Request
  BY DEF portal_delete
<1>2. CASE UNCHANGED <<db, calls, granted, requests>>
  BY <1>1, <1>2, RefuseGood
<1>3. CASE /\ db' = [db EXCEPT ![doc] = NULL]
           /\ calls' = calls \o new
           /\ granted' = granted /\ requests' = requests + 1
  <2>1. granted \in Granted /\ GoodMap(db, granted) /\ GoodCalls(calls, granted)
    BY InvParts DEF Parts
  <2>2. GoodMap(db', granted)
    BY <1>3, <2>1, SetEntryGood
  <2>3. call \in Message /\ call.op = "delete"
    BY DEF Message
  <2>4. Good(call, granted)
    BY <2>3 DEF Good
  <2>5. GoodCalls(new, granted)
    BY <2>4, ShortGood
  <2> HIDE DEF new
  <2>6. GoodCalls(calls', granted)
    BY <1>3, <2>1, <2>5, ConcatGood
  <2>7. Grows(granted, granted)
    BY DEF Grows
  <2> QED
    BY <1>1, <1>3, <2>1, <2>2, <2>6, <2>7, AcceptBound DEF RequestGood, Request
<1> QED
  BY <1>2, <1>3 DEF portal_delete, Refuse, Accept

\* The call for a new document sends nothing transient.
LEMMA CreateCallGood ==
  ASSUME NEW g, NEW doc \in Docs, NEW data \in Data
  PROVE  GoodCalls(CreateCall(doc, data), g)
<1> DEFINE call == [op |-> "set", doc |-> doc, data |-> data]
<1>1. call \in Message
  BY DEF Message
<1>2. ~data.transient => Good(call, g)
  BY <1>1 DEF Good
<1> QED
  BY <1>2, ShortGood DEF CreateCall

LEMMA AddGood ==
  ASSUME IInv, NEW caller \in Callers, NEW path \in Paths,
         NEW reuse_existing \in BOOLEAN, NEW persistent \in BOOLEAN,
         portal_add(caller, path, reuse_existing, persistent)
  PROVE  RequestGood
<1> DEFINE data == [path |-> path, unique |-> ~reuse_existing, transient |-> ~persistent]
           perms == CreatorPermissions(data.unique)
<1>1. data \in Data /\ perms \in SUBSET Perms
  BY DEF Data, CreatorPermissions, Perms
<1>2. Request
  BY DEF portal_add
<1>3. granted \in Granted /\ GoodMap(db, granted) /\ GoodCalls(calls, granted)
  BY InvParts DEF Parts
<1>4. PICK doc \in do_create_doc(data) :
        LET created == db[doc] = NULL
            entry == IF created THEN [data |-> data, permissions |-> NoPermissions] ELSE db[doc]
            set == IF created THEN CreateCall(doc, data) ELSE <<>>
        IN /\ IF caller = Host
              THEN /\ db' = [db EXCEPT ![doc] = entry]
                   /\ calls' = calls \o set
                   /\ UNCHANGED granted
              ELSE /\ db' = [db EXCEPT ![doc] = SetAppPermissions(entry, caller, perms)]
                   /\ calls' = calls \o set \o PermissionCall(entry, doc, caller, perms)
                   /\ granted' = [granted EXCEPT ![doc][caller] = @ \cup perms]
           /\ Accept("add", caller, doc)
  BY DEF portal_add
<1> HIDE DEF data, perms
<1> DEFINE entry == IF db[doc] = NULL THEN [data |-> data, permissions |-> NoPermissions] ELSE db[doc]
           set == IF db[doc] = NULL THEN CreateCall(doc, data) ELSE <<>>
<1>5. doc \in Docs
  BY <1>4 DEF do_create_doc, xdg_app_db_list_ids_by_value, FreeIds
<1>6. entry \in Entry /\ \A a \in Apps : entry.permissions[a] \subseteq granted[doc][a]
  <2>1. CASE db[doc] = NULL
    BY <1>1, <2>1 DEF Entry, NoPermissions
  <2>2. CASE db[doc] # NULL
    BY <1>3, <1>5, <2>2 DEF GoodMap, Map
  <2> QED
    BY <2>1, <2>2
<1>7. GoodCalls(set, granted)
  BY <1>1, <1>5, CreateCallGood, ShortGood
<1>8. requests' \in 0..MaxRequests /\ UNCHANGED <<running, service, clean>>
  BY <1>2, <1>4, AcceptBound DEF Request, Accept
<1>9. CASE caller = Host
  <2>1. /\ db' = [db EXCEPT ![doc] = entry] /\ calls' = calls \o set
        /\ granted' = granted
    BY <1>4, <1>9
  <2> HIDE DEF entry, set
  <2>2. GoodMap(db', granted) /\ GoodCalls(calls', granted)
    BY <1>3, <1>5, <1>6, <1>7, <2>1, SetEntryGood, ConcatGood
  <2>3. Grows(granted, granted)
    BY DEF Grows
  <2> QED
    BY <1>3, <1>8, <2>1, <2>2, <2>3 DEF RequestGood
<1>10. CASE caller # Host
  <2> DEFINE g == [granted EXCEPT ![doc][caller] = @ \cup perms]
  <2>1. /\ db' = [db EXCEPT ![doc] = SetAppPermissions(entry, caller, perms)]
        /\ calls' = calls \o set \o PermissionCall(entry, doc, caller, perms)
        /\ granted' = g /\ caller \in Apps
    BY <1>4, <1>10 DEF Callers
  <2>2. g \in Granted /\ Grows(granted, g) /\ perms \subseteq g[doc][caller]
    BY <1>1, <1>3, <1>5, <2>1 DEF Granted, Grows
  <2> HIDE DEF g, entry, set
  <2>3. GoodMap(db, g) /\ GoodCalls(calls, g) /\ GoodCalls(set, g)
    BY <1>3, <1>7, <2>2, GoodGrows
  <2>4. \A a \in Apps : entry.permissions[a] \subseteq g[doc][a]
    BY <1>5, <1>6, <2>2 DEF Grows
  <2>5. GoodMap(db', g) /\ GoodCalls(PermissionCall(entry, doc, caller, perms), g)
    BY <1>1, <1>5, <1>6, <2>1, <2>2, <2>3, <2>4, SetPermissionsGood
  <2>6. GoodCalls(calls \o set, g)
    BY <2>3, ConcatGood
  <2>7. GoodCalls(calls', g)
    BY <2>1, <2>5, <2>6, ConcatGood
  <2> QED
    BY <1>8, <2>1, <2>2, <2>5, <2>7 DEF RequestGood
<1> QED
  BY <1>9, <1>10

LEMMA HandleGood ==
  ASSUME IInv, NEW caller \in Callers, Handle(caller)
  PROVE  RequestGood
<1>1. CASE portal_add_on_fuse
  BY <1>1, RefuseGood DEF portal_add_on_fuse, Refuse
<1> QED
  BY <1>1, AddGood, DeleteGood, GrantGood, RevokeGood DEF Handle

-----------------------------------------------------------------------------
(* The store, and the ends of processes.                                   *)

LEMMA HandledGood ==
  ASSUME NEW g, NEW m, StoreMap(m, g), NEW c, Good(c, g)
  PROVE  StoreMap(Handled(m, c), g)
<1>1. c \in Message /\ m \in Map
  BY DEF Good, StoreMap, GoodMap
<1>2. CASE c.op = "set"
  <2> DEFINE e == [data |-> c.data, permissions |-> NoPermissions]
  <2>1. c.doc \in Docs /\ c.data \in Data /\ ~c.data.transient
    BY <1>1, <1>2 DEF Message, Good
  <2>2. e \in Entry /\ e.data = c.data /\ \A a \in Apps : e.permissions[a] = {}
    BY <2>1 DEF Entry, NoPermissions
  <2>3. Handled(m, c) = [m EXCEPT ![c.doc] = e]
    BY <1>2 DEF Handled
  <2> HIDE DEF e
  <2> QED
    BY <2>1, <2>2, <2>3 DEF StoreMap, GoodMap, Map
<1>3. CASE c.op = "set_permission" /\ m[c.doc] # NULL
  <2> DEFINE e == SetAppPermissions(m[c.doc], c.app, c.permissions)
  <2>1. /\ c.doc \in Docs /\ c.app \in Apps /\ c.permissions \in SUBSET Perms
        /\ c.permissions \subseteq g[c.doc][c.app]
    BY <1>1, <1>3 DEF Message, Good
  <2>2. m[c.doc] \in Entry
    BY <1>1, <1>3, <2>1 DEF Map
  <2>3. /\ e \in Entry /\ e.data = m[c.doc].data
        /\ e.permissions = [m[c.doc].permissions EXCEPT ![c.app] = c.permissions]
        /\ m[c.doc].permissions \in [Apps -> SUBSET Perms]
    BY <2>1, <2>2 DEF SetAppPermissions, Entry
  <2>4. Handled(m, c) = [m EXCEPT ![c.doc] = e]
    BY <1>3 DEF Handled
  <2> HIDE DEF e
  <2>5. \A a \in Apps : e.permissions[a] \subseteq g[c.doc][a]
    BY <1>3, <2>1, <2>3 DEF StoreMap, GoodMap
  <2> QED
    BY <1>3, <2>1, <2>3, <2>4, <2>5 DEF StoreMap, GoodMap, Map
<1>4. CASE c.op = "delete"
  <2>1. Handled(m, c) = [m EXCEPT ![c.doc] = NULL] /\ c.doc \in Docs
    BY <1>1, <1>4 DEF Handled, Message
  <2> QED
    BY <2>1 DEF StoreMap, GoodMap, Map
<1>5. CASE ~(c.op = "set" \/ (c.op = "set_permission" /\ m[c.doc] # NULL) \/ c.op = "delete")
  BY <1>5 DEF Handled
<1> QED
  BY <1>2, <1>3, <1>4, <1>5

\* The file, or an empty map, is what a process starts from.
LEMMA FileGood ==
  ASSUME IInv
  PROVE  StoreMap(MapOf(file), granted)
<1>1. file = NULL \/ (StoreMap(file, granted) /\ file \in Map)
  BY InvParts DEF Parts, StoreMap, GoodMap
<1> QED
  BY <1>1, MapOfMap, EmptyGood

LEMMA InvInit == Init => IInv
<1> SUFFICES ASSUME Init PROVE IInv
  OBVIOUS
<1>1. granted \in Granted /\ requests \in 0..MaxRequests
  BY MaxRequestsAssumption DEF Init, Granted, NoPermissions
<1>2. StoreMap(EmptyMap, granted) /\ GoodCalls(<<>>, granted)
  BY EmptyGood, ShortGood
<1>3. GoodMap(db, granted) /\ StoreMap(store, granted) /\ GoodCalls(calls, granted)
  BY <1>2 DEF Init, StoreMap
<1> QED
  BY <1>1, <1>3, InvParts DEF Parts, Init

LEMMA InvStep ==
  ASSUME IInv, [Next]_vars
  PROVE  IInv'
<1>1. /\ running \in BOOLEAN /\ outstanding \in BOOLEAN /\ clean \in BOOLEAN
      /\ outstanding => saving # NULL
      /\ requests \in 0..MaxRequests
      /\ granted \in Granted
      /\ GoodMap(db, granted) /\ StoreMap(store, granted)
      /\ saving = NULL \/ StoreMap(saving, granted)
      /\ file = NULL \/ StoreMap(file, granted)
      /\ GoodCalls(calls, granted)
  BY InvParts DEF Parts
<1>2. Parts' => IInv'
  BY InvParts, PTL
<1>3. SUFFICES Parts'
  BY <1>2
<1>4. \A m : StoreMap(m, granted) => m # NULL
  BY NullAssumption DEF StoreMap, GoodMap
<1>5. ASSUME NEW caller \in Callers, Handle(caller)
      PROVE  Parts'
  <2>1. RequestGood
    BY <1>5, HandleGood
  <2>2. StoreMap(store, granted') /\ (saving = NULL \/ StoreMap(saving, granted'))
        /\ (file = NULL \/ StoreMap(file, granted'))
    BY <1>1, <2>1, GoodGrows DEF RequestGood
  <2> QED
    BY <1>1, <2>1, <2>2 DEF RequestGood, service, Parts
<1>6. CASE StoreHandles
  <2>1. /\ calls # <<>> /\ calls' = Tail(calls) /\ store' = Handled(store, Head(calls))
        /\ saving' = saving \/ saving' = store'
        /\ saving # NULL => saving' = saving
        /\ outstanding' \in BOOLEAN
        /\ outstanding' => outstanding \/ saving # NULL
        /\ UNCHANGED <<running, db, file, requests, granted, clean>>
    BY <1>1, <1>6 DEF StoreHandles
  <2>2. GoodCalls(calls', granted) /\ Good(Head(calls), granted)
    BY <1>1, <2>1, TailGood
  <2>3. StoreMap(store', granted)
    BY <1>1, <2>1, <2>2, HandledGood
  <2> QED
    BY <1>1, <2>1, <2>2, <2>3 DEF Parts
<1>7. CASE StoreSaved \/ StoreSaveFails
  BY <1>1, <1>4, <1>7 DEF StoreSaved, StoreSaveFails, AfterSave, Parts
<1>8. CASE StoreExits
  <2>1. PICK n \in 0..Len(calls) : calls' = SubSeq(calls, n + 1, Len(calls))
    BY <1>8 DEF StoreExits
  <2>2. Len(calls) \in Nat
    BY <1>1 DEF GoodCalls
  <2>3. GoodCalls(calls', granted)
    BY <1>1, <2>1, <2>2, PartGood
  <2> QED
    BY <1>1, <1>8, <2>3, FileGood DEF StoreExits, Parts
<1>9. CASE PortalExits
  <2>1. PICK n \in 0..Len(calls) : calls' = SubSeq(calls, 1, n)
    BY <1>9 DEF PortalExits
  <2>2. Len(calls) \in Nat
    BY <1>1 DEF GoodCalls
  <2>3. GoodCalls(calls', granted)
    BY <1>1, <2>1, <2>2, PartGood
  <2> QED
    BY <1>1, <1>9, <2>3 DEF PortalExits, service, Parts
<1>10. CASE PortalStarts
  <2>1. GoodMap(MapOf(file), granted)
    BY FileGood DEF StoreMap
  <2> QED
    BY <1>1, <1>10, <2>1 DEF PortalStarts, service, Parts
<1>11. CASE UNCHANGED vars
  BY <1>1, <1>11 DEF vars, service, Parts
<1> QED
  BY <1>5, <1>6, <1>7, <1>8, <1>9, <1>10, <1>11 DEF Next, Store

-----------------------------------------------------------------------------
(* Who gains what in a step.                                               *)

\* What an app may do with a document according to a map.
Held(m, doc, app) == IF m[doc] = NULL THEN {} ELSE m[doc].permissions[app]

Gained(doc, app) == Held(db', doc, app) \ Held(db, doc, app)

\* The caller of the step may give what app gained on doc.
MayGive(doc, app) ==
  \/ last'.caller = Host
  \/ last'.caller = app /\ last'.op = "add" /\ last'.doc = doc
  \/ /\ db[doc] # NULL
     /\ Gained(doc, app) \cup {"grant-permissions"} \subseteq db[doc].permissions[last'.caller]

Authorised ==
  \A doc \in Docs, app \in Apps : Gained(doc, app) # {} /\ running => MayGive(doc, app)

\* Setting the permissions of one app on one document gives nobody else any.
LEMMA OthersGainNothing ==
  ASSUME NEW doc \in Docs, NEW entry \in Entry, NEW app \in Apps, NEW perms \in SUBSET Perms,
         db \in Map, db' = [db EXCEPT ![doc] = SetAppPermissions(entry, app, perms)],
         \A a \in Apps : entry.permissions[a] \subseteq Held(db, doc, a)
  PROVE  /\ \A d \in Docs, a \in Apps : d # doc \/ a # app => Gained(d, a) = {}
         /\ Held(db', doc, app) = perms
<1> DEFINE set == SetAppPermissions(entry, app, perms)
<1>1. /\ set \in Entry /\ set.permissions = [entry.permissions EXCEPT ![app] = perms]
      /\ entry.permissions \in [Apps -> SUBSET Perms]
  BY EntryPermissions
<1> HIDE DEF set
<1>2. set # NULL
  BY <1>1, NullAssumption
<1>3. db'[doc] = set /\ \A d \in Docs : d # doc => db'[d] = db[d]
  BY DEF Map, set
<1>4. \A a \in Apps : set.permissions[a] = IF a = app THEN perms ELSE entry.permissions[a]
  BY <1>1
<1>5. \A a \in Apps : Held(db', doc, a) = set.permissions[a]
  BY <1>2, <1>3 DEF Held
<1>6. \A d \in Docs, a \in Apps : d # doc => Gained(d, a) = {}
  BY <1>3 DEF Gained, Held
<1>7. \A a \in Apps : a # app => Gained(doc, a) = {}
  BY <1>4, <1>5 DEF Gained
<1> QED
  BY <1>4, <1>5, <1>6, <1>7

LEMMA GrantAuthorised ==
  ASSUME TypeOK, NEW caller \in Callers, NEW doc \in Docs, NEW target \in Apps, NEW perms \in PermArgs,
         portal_grant_permissions(caller, doc, target, perms)
  PROVE  Authorised
<1> DEFINE entry == db[doc]
           all == perms \cup xdp_entry_get_permissions(entry, target)
<1>1. CASE UNCHANGED db
  BY <1>1 DEF Authorised, Gained
<1>2. CASE /\ entry # NULL
           /\ xdp_entry_has_permissions(entry, caller, {"grant-permissions"} \cup perms)
           /\ do_set_permissions(entry, doc, target, all)
           /\ Accept("grant", caller, doc)
  <2>1. entry \in Entry /\ perms \in SUBSET Perms /\ db \in Map
    BY <1>2, PermArgsAssumption DEF TypeOK, Map
  <2>2. all = perms \cup entry.permissions[target] /\ all \in SUBSET Perms
    <3>1. all = perms \cup entry.permissions[target] /\ entry.permissions[target] \subseteq Perms
      BY <2>1, EntryPermissions
    <3> QED
      BY <2>1, <3>1
  <2>3. \A a \in Apps : entry.permissions[a] = Held(db, doc, a)
    BY <1>2 DEF Held
  <2>4. db' = [db EXCEPT ![doc] = SetAppPermissions(entry, target, all)]
    BY <1>2 DEF do_set_permissions
  <2>5. last'.caller = caller
    BY <1>2 DEF Accept
  <2> HIDE DEF all, entry
  <2>6. /\ \A d \in Docs, a \in Apps : d # doc \/ a # target => Gained(d, a) = {}
        /\ Held(db', doc, target) = all
    <3>1. \A a \in Apps : entry.permissions[a] \subseteq Held(db, doc, a)
      BY <2>3
    <3> QED
      BY <2>1, <2>2, <2>4, <3>1, OthersGainNothing
  <2>7. Gained(doc, target) \subseteq perms
    BY <2>2, <2>3, <2>6 DEF Gained
  <2> USE DEF entry
  <2>8. caller = Host \/ {"grant-permissions"} \cup perms \subseteq entry.permissions[caller]
    BY <1>2 DEF xdp_entry_has_permissions, xdp_entry_get_permissions
  <2>9. MayGive(doc, target)
    BY <1>2, <2>5, <2>7, <2>8 DEF MayGive
  <2> QED
    BY <2>6, <2>9 DEF Authorised
<1> QED
  BY <1>1, <1>2 DEF portal_grant_permissions, Refuse

LEMMA RevokeAuthorised ==
  ASSUME TypeOK, NEW caller \in Callers, NEW doc \in Docs, NEW target \in Apps, NEW perms \in PermArgs,
         portal_revoke_permissions(caller, doc, target, perms)
  PROVE  Authorised
<1> DEFINE entry == db[doc]
           rest == xdp_entry_get_permissions(entry, target) \ perms
<1>1. CASE UNCHANGED db
  BY <1>1 DEF Authorised, Gained
<1>2. CASE entry # NULL /\ do_set_permissions(entry, doc, target, rest)
  <2>1. entry \in Entry /\ db \in Map
    BY <1>2 DEF TypeOK, Map
  <2>2. rest = entry.permissions[target] \ perms /\ rest \in SUBSET Perms
    <3>1. rest = entry.permissions[target] \ perms /\ entry.permissions[target] \subseteq Perms
      BY <2>1, EntryPermissions
    <3> QED
      BY <2>1, <3>1
  <2>3. \A a \in Apps : entry.permissions[a] = Held(db, doc, a)
    BY <1>2 DEF Held
  <2>4. db' = [db EXCEPT ![doc] = SetAppPermissions(entry, target, rest)]
    BY <1>2 DEF do_set_permissions
  <2> HIDE DEF rest, entry
  <2>5. /\ \A d \in Docs, a \in Apps : d # doc \/ a # target => Gained(d, a) = {}
        /\ Held(db', doc, target) = rest
    <3>1. \A a \in Apps : entry.permissions[a] \subseteq Held(db, doc, a)
      BY <2>3
    <3> QED
      BY <2>1, <2>2, <2>4, <3>1, OthersGainNothing
  <2>6. Gained(doc, target) = {}
    BY <2>2, <2>3, <2>5 DEF Gained
  <2> QED
    BY <2>5, <2>6 DEF Authorised
<1> QED
  BY <1>1, <1>2 DEF portal_revoke_permissions, Refuse

LEMMA DeleteAuthorised ==
  ASSUME TypeOK, NEW caller \in Callers, NEW doc \in Docs, portal_delete(caller, doc)
  PROVE  Authorised
<1>1. db' = db \/ db' = [db EXCEPT ![doc] = NULL]
  BY DEF portal_delete, Refuse
<1>2. \A d \in Docs : db'[d] = db[d] \/ db'[d] = NULL
  BY <1>1 DEF TypeOK, Map
<1> QED
  BY <1>2 DEF Authorised, Gained, Held

LEMMA AddAuthorised ==
  ASSUME TypeOK, NEW caller \in Callers, NEW path \in Paths,
         NEW reuse_existing \in BOOLEAN, NEW persistent \in BOOLEAN,
         portal_add(caller, path, reuse_existing, persistent)
  PROVE  Authorised
<1> DEFINE data == [path |-> path, unique |-> ~reuse_existing, transient |-> ~persistent]
           perms == CreatorPermissions(data.unique)
           Entered(doc) ==
             IF db[doc] = NULL THEN [data |-> data, permissions |-> NoPermissions] ELSE db[doc]
<1>1. data \in Data /\ perms \in SUBSET Perms
  BY DEF Data, CreatorPermissions, Perms
<1>2. PICK doc \in do_create_doc(data) :
        /\ caller # Host =>
             db' = [db EXCEPT ![doc] = SetAppPermissions(Entered(doc), caller, perms)]
        /\ Accept("add", caller, doc)
  BY DEF portal_add
<1>3. doc \in Docs
  BY <1>2 DEF do_create_doc, FreeIds, xdg_app_db_list_ids_by_value
<1>4. last'.caller = caller /\ last'.op = "add" /\ last'.doc = doc
  BY <1>2 DEF Accept
<1>5. CASE caller = Host
  BY <1>4, <1>5 DEF Authorised, MayGive
<1>6. CASE caller # Host
  <2>1. caller \in Apps /\ db \in Map
    BY <1>6 DEF Callers, TypeOK
  <2> DEFINE entry == Entered(doc)
  <2>2. db' = [db EXCEPT ![doc] = SetAppPermissions(entry, caller, perms)]
    BY <1>2, <1>6
  <2>3. entry \in Entry
    <3>1. CASE db[doc] = NULL
      BY <1>1, <3>1 DEF Entry, NoPermissions
    <3>2. CASE db[doc] # NULL
      BY <1>3, <2>1, <3>2 DEF Map
    <3> QED
      BY <3>1, <3>2
  <2>4. \A a \in Apps : entry.permissions[a] \subseteq Held(db, doc, a)
    BY DEF Held, NoPermissions
  <2> HIDE DEF entry, perms
  <2>5. \A d \in Docs, a \in Apps : d # doc \/ a # caller => Gained(d, a) = {}
    BY <1>1, <1>3, <2>1, <2>2, <2>3, <2>4, OthersGainNothing
  <2>6. MayGive(doc, caller)
    BY <1>4 DEF MayGive
  <2> QED
    BY <2>5, <2>6 DEF Authorised
<1> QED
  BY <1>5, <1>6

LEMMA StepAuthorised ==
  ASSUME TypeOK, [Next]_vars
  PROVE  Authorised
<1>1. CASE UNCHANGED db
  BY <1>1 DEF Authorised, Gained
<1>2. ASSUME NEW caller \in Callers, Handle(caller)
      PROVE  Authorised
  BY <1>1, <1>2, GrantAuthorised, RevokeAuthorised, DeleteAuthorised, AddAuthorised
     DEF Handle, portal_add_on_fuse, Refuse
<1>3. CASE Store \/ PortalExits
  BY <1>1, <1>3 DEF Store, StoreHandles, StoreSaved, StoreSaveFails, AfterSave, StoreExits, PortalExits
<1>4. CASE PortalStarts
  BY <1>4 DEF PortalStarts, Authorised
<1>5. CASE UNCHANGED vars
  BY <1>1, <1>5 DEF vars
<1> QED
  BY <1>2, <1>3, <1>4, <1>5 DEF Next

-----------------------------------------------------------------------------
(* What the store makes of a sequence of calls.                            *)

\* The order of the numbers as a set of pairs.
Before == {p \in Nat \X Nat : p[1] < p[2]}

\* A set of numbers has a least one.
LEMMA Least ==
  ASSUME NEW T, T \subseteq Nat, T # {}
  PROVE  \E n \in T : \A k \in T : n <= k
<1>1. OpToRel(<, Nat) = Before
  BY Zenon DEF OpToRel, Before
<1>2. IsWellFoundedOn(Before, Nat)
  BY <1>1, NatLessThanWellFounded, Zenon
<1>3. PICK n \in T : \A k \in T : <<k, n>> \notin Before
  BY <1>2, WFMin
<1>4. \A k \in T : k < n => <<k, n>> \in Before
  BY DEF Before
<1>5. \A k \in T : k \in Nat /\ ~(k < n)
  BY <1>3, <1>4
<1> QED
  BY <1>5

\* What is left of a map when some calls were handled.
After(m, cs) ==
  LET f[n \in 0..Len(cs)] == IF n = 0 THEN m ELSE Handled(f[n - 1], cs[n]) IN f

\* f says what is left of m after each of the first n calls.
Computes(f, m, cs, n) == f = [k \in 0..n |-> IF k = 0 THEN m ELSE Handled(f[k - 1], cs[k])]

LEMMA AfterExists ==
  ASSUME NEW m, NEW cs \in Seq(Message), NEW n \in 0..Len(cs)
  PROVE  \E f : Computes(f, m, cs, n)
<1> USE DEF Computes
<1> DEFINE Upto(j) == \E f : Computes(f, m, cs, j)
           T == {j \in Nat : ~Upto(j)}
<1>1. Upto(0)
  <2> DEFINE f == [k \in 0..0 |-> m]
  <2>1. f = [k \in 0..0 |-> IF k = 0 THEN m ELSE Handled(f[k - 1], cs[k])]
    OBVIOUS
  <2> QED
    BY <2>1
<1>2. ASSUME NEW j \in Nat, Upto(j) PROVE Upto(j + 1)
  <2>1. PICK f : f = [k \in 0..j |-> IF k = 0 THEN m ELSE Handled(f[k - 1], cs[k])]
    BY <1>2
  <2> DEFINE g == [k \in 0..(j + 1) |-> IF k = j + 1 THEN Handled(f[j], cs[j + 1]) ELSE f[k]]
  <2>2. ASSUME NEW k \in 0..(j + 1)
        PROVE  g[k] = IF k = 0 THEN m ELSE Handled(g[k - 1], cs[k])
    <3>1. CASE k = j + 1
      <4>1. k # 0 /\ k - 1 = j /\ j \in 0..(j + 1) /\ j # j + 1
        BY <3>1
      <4>2. g[k - 1] = f[j] /\ g[k] = Handled(f[j], cs[j + 1])
        BY <3>1, <4>1
      <4> QED
        BY <3>1, <4>1, <4>2
    <3>2. CASE k = 0
      <4>1. k # j + 1 /\ k \in 0..j
        BY <3>2
      <4>2. g[k] = f[k] /\ f[k] = m
        BY <2>1, <3>2, <4>1
      <4> QED
        BY <3>2, <4>2
    <3>3. CASE k # j + 1 /\ k # 0
      <4>1. k \in 0..j /\ k - 1 \in 0..(j + 1) /\ k - 1 # j + 1
        BY <3>3
      <4>2. f[k] = Handled(f[k - 1], cs[k])
        BY <2>1, <3>3, <4>1
      <4>3. g[k] = f[k] /\ g[k - 1] = f[k - 1]
        BY <3>3, <4>1
      <4> QED
        BY <3>3, <4>2, <4>3
    <3> QED
      BY <3>1, <3>2, <3>3
  <2>3. g = [k \in 0..(j + 1) |-> IF k = 0 THEN m ELSE Handled(g[k - 1], cs[k])]
    BY <2>2
  <2> QED
    BY <2>3
<1> HIDE DEF Upto
<1>3. T = {}
  <2>1. SUFFICES ASSUME T # {} PROVE FALSE
    OBVIOUS
  <2>2. PICK j \in T : \A k \in T : j <= k
    BY <2>1, Least
  <2>3. j \in Nat /\ ~Upto(j) /\ j # 0
    BY <1>1, <2>2
  <2>4. j - 1 \in Nat /\ j - 1 \notin T
    BY <2>2, <2>3
  <2>5. Upto((j - 1) + 1)
    BY <1>2, <2>4
  <2> QED
    BY <2>3, <2>5
<1>4. n \in Nat
  OBVIOUS
<1>5. Upto(n)
  BY <1>3, <1>4
<1> QED
  BY <1>5 DEF Upto

LEMMA AfterIs ==
  ASSUME NEW m, NEW cs \in Seq(Message)
  PROVE  /\ After(m, cs)[0] = m
         /\ \A n \in 1..Len(cs) : After(m, cs)[n] = Handled(After(m, cs)[n - 1], cs[n])
<1> DEFINE Is(f) == Computes(f, m, cs, Len(cs))
<1>1. Len(cs) \in Nat /\ Len(cs) \in 0..Len(cs)
  OBVIOUS
<1>2. \E f : Is(f)
  BY <1>1, AfterExists
<1>3. After(m, cs) = CHOOSE f : Is(f)
  BY DEF After, Computes
<1>4. ASSUME NEW f, Is(f)
      PROVE  f[0] = m /\ \A n \in 1..Len(cs) : f[n] = Handled(f[n - 1], cs[n])
  <2>1. \A n \in 0..Len(cs) : f[n] = IF n = 0 THEN m ELSE Handled(f[n - 1], cs[n])
    BY <1>4 DEF Computes
  <2>2. 0 \in 0..Len(cs) /\ \A n \in 1..Len(cs) : n \in 0..Len(cs) /\ n # 0
    BY <1>1
  <2> QED
    BY <2>1, <2>2
<1> HIDE DEF Is
<1>5. Is(After(m, cs))
  BY <1>2, <1>3
<1> QED
  BY <1>4, <1>5

\* What the store has once it has handled all of them.
Final(m, cs) == After(m, cs)[Len(cs)]

\* The first calls say what is left after them.
LEMMA AfterAgrees ==
  ASSUME NEW m, NEW cs \in Seq(Message), NEW ds \in Seq(Message),
         NEW n \in Nat, n <= Len(cs), n <= Len(ds), \A i \in 1..n : cs[i] = ds[i]
  PROVE  After(m, cs)[n] = After(m, ds)[n]
<1> DEFINE a == After(m, cs)
           b == After(m, ds)
           T == {j \in 0..n : a[j] # b[j]}
<1>1. /\ a[0] = m /\ \A j \in 1..Len(cs) : a[j] = Handled(a[j - 1], cs[j])
      /\ b[0] = m /\ \A j \in 1..Len(ds) : b[j] = Handled(b[j - 1], ds[j])
  BY AfterIs
<1> HIDE DEF a, b
<1>2. T = {}
  <2>1. SUFFICES ASSUME T # {} PROVE FALSE
    OBVIOUS
  <2>2. T \subseteq Nat
    OBVIOUS
  <2> HIDE DEF T
  <2>3. PICK j \in T : \A k \in T : j <= k
    BY <2>1, <2>2, Least
  <2> USE DEF T
  <2>4. j \in 1..n /\ j - 1 \in 0..n /\ j - 1 \notin T
    BY <1>1, <2>3
  <2>5. a[j - 1] = b[j - 1] /\ cs[j] = ds[j] /\ j \in 1..Len(cs) /\ j \in 1..Len(ds)
    BY <2>4
  <2>6. a[j] = b[j]
    BY <1>1, <2>5
  <2> QED
    BY <2>3, <2>6
<1>3. a[n] = b[n]
  BY <1>2
<1> QED
  BY <1>3 DEF a, b

LEMMA FinalNone ==
  ASSUME NEW m
  PROVE  Final(m, <<>>) = m
<1>1. <<>> \in Seq(Message) /\ Len(<<>>) = 0
  OBVIOUS
<1>2. After(m, <<>>)[0] = m
  BY <1>1, AfterIs
<1> QED
  BY <1>1, <1>2 DEF Final

LEMMA FinalOne ==
  ASSUME NEW m, NEW cs \in Seq(Message), NEW c \in Message
  PROVE  Final(m, cs \o <<c>>) = Handled(Final(m, cs), c)
<1> DEFINE ds == cs \o <<c>>
           n == Len(cs)
<1>1. /\ n \in Nat /\ ds \in Seq(Message) /\ Len(ds) = n + 1 /\ ds[n + 1] = c
      /\ \A i \in 1..n : ds[i] = cs[i]
  OBVIOUS
<1> HIDE DEF ds, n
<1>2. n + 1 \in 1..Len(ds) /\ (n + 1) - 1 = n /\ n <= Len(ds)
  BY <1>1
<1>3. After(m, ds)[n + 1] = Handled(After(m, ds)[n], c)
  BY <1>1, <1>2, AfterIs
<1>4. n <= Len(cs) /\ cs \in Seq(Message)
  BY <1>1 DEF n
<1>5. After(m, ds)[n] = After(m, cs)[n]
  BY <1>1, <1>2, <1>4, AfterAgrees
<1> QED
  BY <1>1, <1>3, <1>5 DEF Final, n, ds

\* Handling the first call, and then the others.
LEMMA FinalTail ==
  ASSUME NEW m, NEW cs \in Seq(Message), cs # <<>>
  PROVE  Final(Handled(m, Head(cs)), Tail(cs)) = Final(m, cs)
<1> DEFINE h == Handled(m, Head(cs))
           ds == Tail(cs)
           n == Len(ds)
           a == After(m, cs)
           b == After(h, ds)
           T == {j \in 0..n : b[j] # a[j + 1]}
<1>1. /\ n \in Nat /\ ds \in Seq(Message) /\ Len(cs) = n + 1 /\ Head(cs) = cs[1]
      /\ \A i \in 1..n : ds[i] = cs[i + 1]
  OBVIOUS
<1>2. /\ a[0] = m /\ \A j \in 1..Len(cs) : a[j] = Handled(a[j - 1], cs[j])
      /\ b[0] = h /\ \A j \in 1..n : b[j] = Handled(b[j - 1], ds[j])
  <2>1. /\ a[0] = m /\ \A j \in 1..Len(cs) : a[j] = Handled(a[j - 1], cs[j])
    BY AfterIs
  <2> HIDE DEF a, h, ds
  <2>2. /\ b[0] = h /\ \A j \in 1..n : b[j] = Handled(b[j - 1], ds[j])
    BY <1>1, AfterIs
  <2> QED
    BY <2>1, <2>2
<1>3. a[1] = h
  <2>1. 1 \in 1..Len(cs) /\ 1 - 1 = 0
    BY <1>1
  <2> HIDE DEF a
  <2> QED
    BY <1>1, <1>2, <2>1
<1> HIDE DEF a, b, n, ds, h
<1>4. T = {}
  <2>1. SUFFICES ASSUME T # {} PROVE FALSE
    OBVIOUS
  <2>2. T \subseteq Nat
    BY <1>1
  <2> HIDE DEF T
  <2>3. PICK j \in T : \A k \in T : j <= k
    BY <2>1, <2>2, Least
  <2> USE DEF T
  <2>4. j \in 1..n /\ j - 1 \in 0..n /\ j - 1 \notin T
    BY <1>1, <1>2, <1>3, <2>3
  <2>5. b[j - 1] = a[(j - 1) + 1] /\ (j - 1) + 1 = j /\ (j + 1) - 1 = j /\ j + 1 \in 1..Len(cs)
    BY <1>1, <2>4
  <2>6. b[j] = Handled(b[j - 1], ds[j]) /\ a[j + 1] = Handled(a[j], cs[j + 1]) /\ ds[j] = cs[j + 1]
    BY <1>1, <1>2, <2>4, <2>5
  <2> QED
    BY <2>3, <2>5, <2>6
<1>5. b[n] = a[n + 1]
  BY <1>1, <1>4
<1> QED
  BY <1>1, <1>5 DEF Final, a, b, n, ds, h

-----------------------------------------------------------------------------
(* A request and its calls bring the portal and the store to the same map. *)

\* What of an entry should outlive the portal.
Kept(entry) == IF entry # NULL /\ entry.data.transient THEN NULL ELSE entry

\* A map with the entry of one document replaced.
With(m, doc, entry) == [d \in Docs |-> IF d = doc THEN entry ELSE m[d]]

LEMMA WithIs ==
  ASSUME NEW m, m = [d \in Docs |-> m[d]], NEW doc \in Docs, NEW entry
  PROVE  /\ [m EXCEPT ![doc] = entry] = With(m, doc, entry)
         /\ With(m, doc, entry)[doc] = entry
         /\ \A e : With(With(m, doc, entry), doc, e) = With(m, doc, e)
         /\ m[doc] = entry => With(m, doc, entry) = m
         /\ With(m, doc, entry) = [d \in Docs |-> With(m, doc, entry)[d]]
BY DEF With

LEMMA ConcatNone ==
  ASSUME NEW cs \in Seq(Message)
  PROVE  cs \o <<>> = cs
OBVIOUS

LEMMA PersistentIs ==
  ASSUME NEW m
  PROVE  Persistent(m) = [doc \in Docs |-> Kept(m[doc])]
BY DEF Persistent, Kept

LEMMA SetPersistent ==
  ASSUME NEW m \in Map, NEW doc \in Docs, NEW entry
  PROVE  Persistent(With(m, doc, entry)) = With(Persistent(m), doc, Kept(entry))
<1> DEFINE n == With(m, doc, entry)
           p == Persistent(m)
<1>1. \A d \in Docs : n[d] = IF d = doc THEN entry ELSE m[d]
  BY DEF With
<1>2. p = [d \in Docs |-> Kept(m[d])]
  BY PersistentIs
<1> HIDE DEF n, p
<1>3. Persistent(n) = [d \in Docs |-> Kept(n[d])]
  BY PersistentIs
<1>4. Persistent(n) = With(p, doc, Kept(entry))
  BY <1>1, <1>2, <1>3 DEF With
<1> QED
  BY <1>4 DEF n, p

LEMMA Functions ==
  ASSUME NEW m \in Map
  PROVE  m = [d \in Docs |-> m[d]] /\ Persistent(m) = [d \in Docs |-> Persistent(m)[d]]
BY DEF Map, Persistent

\* What the store makes of the calls, as maps with an entry replaced.
LEMMA HandledIs ==
  ASSUME NEW m, m = [d \in Docs |-> m[d]], NEW c \in Message
  PROVE  /\ c.op = "set" =>
              Handled(m, c) = With(m, c.doc, [data |-> c.data, permissions |-> NoPermissions])
         /\ c.op = "set_permission" /\ m[c.doc] # NULL =>
              Handled(m, c) = With(m, c.doc, SetAppPermissions(m[c.doc], c.app, c.permissions))
         /\ c.op = "delete" => Handled(m, c) = With(m, c.doc, NULL)
         /\ c.op \in {"set", "delete"} \/ (c.op = "set_permission" /\ m[c.doc] # NULL)
              \/ Handled(m, c) = m
<1>1. c.doc \in Docs
  BY DEF Message
<1>2. \A e : [m EXCEPT ![c.doc] = e] = With(m, c.doc, e)
  BY <1>1, WithIs
<1>3. CASE c.op = "set"
  BY <1>2, <1>3 DEF Handled
<1>4. CASE c.op = "delete"
  BY <1>2, <1>4 DEF Handled
<1>5. CASE c.op = "set_permission" /\ m[c.doc] # NULL
  <2> DEFINE e == SetAppPermissions(m[c.doc], c.app, c.permissions)
  <2>1. Handled(m, c) = [m EXCEPT ![c.doc] = e] /\ c.op # "set"
    BY <1>5 DEF Handled
  <2> HIDE DEF e
  <2>2. Handled(m, c) = With(m, c.doc, e)
    BY <1>2, <2>1
  <2>3. c.op # "delete"
    BY <1>5
  <2> QED
    BY <1>5, <2>1, <2>2, <2>3, Zenon DEF e
<1>6. CASE ~(c.op \in {"set", "delete"} \/ (c.op = "set_permission" /\ m[c.doc] # NULL))
  BY <1>6 DEF Handled
<1> QED
  BY <1>3, <1>4, <1>5, <1>6

LEMMA EntrySet ==
  ASSUME NEW entry \in Entry, NEW app \in Apps, NEW perms \in SUBSET Perms
  PROVE  /\ SetAppPermissions(entry, app, perms) \in Entry
         /\ SetAppPermissions(entry, app, perms).data = entry.data
BY DEF SetAppPermissions, Entry

\* The calls of a request bring the store to the same documents.
LEMMA PermissionTracks ==
  ASSUME NEW cs \in Seq(Message), NEW m \in Map, NEW doc \in Docs, NEW entry \in Entry,
         NEW app \in Apps, NEW perms \in SUBSET Perms,
         Final(store, cs) = With(Persistent(m), doc, Kept(entry))
  PROVE  Final(store, cs \o PermissionCall(entry, doc, app, perms))
           = Persistent(With(m, doc, SetAppPermissions(entry, app, perms)))
<1> DEFINE set == SetAppPermissions(entry, app, perms)
           p == Persistent(m)
           call == [op |-> "set_permission", doc |-> doc, app |-> app, permissions |-> perms]
<1>1. set \in Entry /\ set.data = entry.data
  BY EntrySet, Zenon
<1>2. entry # NULL /\ set # NULL
  <2> HIDE DEF set
  <2> QED
    BY <1>1, NullAssumption
<1>3. Persistent(With(m, doc, set)) = With(p, doc, Kept(set))
  BY SetPersistent
<1>4. p = [d \in Docs |-> p[d]]
  BY Functions
<1>5. CASE entry.data.transient
  <2>1. Kept(set) = NULL /\ Kept(entry) = NULL
    BY <1>1, <1>2, <1>5 DEF Kept
  <2>2. PermissionCall(entry, doc, app, perms) = <<>> /\ cs \o <<>> = cs
    BY <1>5, ConcatNone DEF PermissionCall, persist_entry
  <2> QED
    BY <1>3, <2>1, <2>2
<1>6. CASE ~entry.data.transient
  <2>1. Kept(set) = set /\ Kept(entry) = entry
    BY <1>1, <1>6 DEF Kept
  <2>2. PermissionCall(entry, doc, app, perms) = <<call>>
    BY <1>6 DEF PermissionCall, persist_entry
  <2>3. /\ call \in Message /\ call.op = "set_permission" /\ call.doc = doc /\ call.app = app
        /\ call.permissions = perms
    BY DEF Message
  <2> DEFINE q == With(p, doc, entry)
  <2>4. q[doc] = entry /\ q = [d \in Docs |-> q[d]] /\ With(q, doc, set) = With(p, doc, set)
    BY <1>4, WithIs
  <2> HIDE DEF call, q, set, p
  <2>5. Final(store, cs \o <<call>>) = Handled(Final(store, cs), call)
    BY <2>3, FinalOne
  <2>6. Final(store, cs) = q
    BY <2>1 DEF q, p
  <2>7. Handled(q, call) = With(q, doc, SetAppPermissions(q[doc], app, perms))
    BY <1>2, <2>3, <2>4, HandledIs
  <2>8. SetAppPermissions(q[doc], app, perms) = set
    BY <2>4, Zenon DEF set
  <2>9. Final(store, cs \o <<call>>) = With(p, doc, set)
    BY <2>4, <2>5, <2>6, <2>7, <2>8
  <2>10. Persistent(With(m, doc, set)) = With(p, doc, set)
    BY <1>3, <2>1
  <2> QED
    BY <2>2, <2>9, <2>10, Zenon DEF set, call
<1> QED
  BY <1>5, <1>6

LEMMA DeleteTracks ==
  ASSUME NEW cs \in Seq(Message), NEW m \in Map, NEW doc \in Docs, m[doc] # NULL,
         Final(store, cs) = Persistent(m)
  PROVE  Final(store, cs \o IF persist_entry(m[doc]) THEN <<[op |-> "delete", doc |-> doc]>> ELSE <<>>)
           = Persistent(With(m, doc, NULL))
<1> DEFINE p == Persistent(m)
           call == [op |-> "delete", doc |-> doc]
<1>1. Persistent(With(m, doc, NULL)) = With(p, doc, NULL)
  BY SetPersistent DEF Kept
<1>2. p = [d \in Docs |-> p[d]] /\ p[doc] = Kept(m[doc])
  BY Functions DEF Persistent, Kept
<1>3. CASE persist_entry(m[doc])
  <2>1. call \in Message /\ call.op = "delete" /\ call.doc = doc
    BY DEF Message
  <2> HIDE DEF call, p
  <2>2. Handled(p, call) = With(p, doc, NULL)
    BY <1>2, <2>1, HandledIs
  <2>3. Final(store, cs \o <<call>>) = Handled(p, call)
    BY <2>1, FinalOne DEF p
  <2> QED
    BY <1>1, <1>3, <2>2, <2>3 DEF call
<1>4. CASE ~persist_entry(m[doc])
  <2>1. p[doc] = NULL
    BY <1>2, <1>4 DEF Kept, persist_entry
  <2>2. With(p, doc, NULL) = p
    BY <1>2, <2>1, WithIs
  <2> QED
    BY <1>1, <1>4, <2>2, ConcatNone
<1> QED
  BY <1>3, <1>4

LEMMA CreateTracks ==
  ASSUME NEW cs \in Seq(Message), NEW m \in Map, NEW doc \in Docs, m[doc] = NULL, NEW data \in Data,
         Final(store, cs) = Persistent(m)
  PROVE  /\ cs \o CreateCall(doc, data) \in Seq(Message)
         /\ Final(store, cs \o CreateCall(doc, data))
              = With(Persistent(m), doc, Kept([data |-> data, permissions |-> NoPermissions]))
<1> DEFINE p == Persistent(m)
           entry == [data |-> data, permissions |-> NoPermissions]
           call == [op |-> "set", doc |-> doc, data |-> data]
<1>1. p = [d \in Docs |-> p[d]] /\ p[doc] = NULL
  BY Functions DEF Persistent
<1>2. entry \in Entry /\ entry # NULL /\ entry.data = data
  BY NullAssumption DEF Entry, NoPermissions
<1>3. CASE data.transient
  <2>1. Kept(entry) = NULL
    BY <1>2, <1>3 DEF Kept
  <2>2. CreateCall(doc, data) = <<>> /\ cs \o <<>> = cs
    BY <1>3, ConcatNone DEF CreateCall
  <2>3. With(p, doc, NULL) = p
    BY <1>1, WithIs
  <2> HIDE DEF entry
  <2> QED
    BY <2>1, <2>2, <2>3 DEF entry
<1>4. CASE ~data.transient
  <2>1. Kept(entry) = entry
    BY <1>2, <1>4 DEF Kept
  <2>2. CreateCall(doc, data) = <<call>> /\ call \in Message /\ call.op = "set" /\ call.doc = doc
        /\ call.data = data
    BY <1>4 DEF CreateCall, Message
  <2> HIDE DEF call, p
  <2>3. Handled(p, call) = With(p, doc, entry)
    BY <1>1, <2>2, HandledIs
  <2>4. Final(store, cs \o <<call>>) = Handled(p, call) /\ cs \o <<call>> \in Seq(Message)
    BY <2>2, FinalOne DEF p
  <2> QED
    BY <2>1, <2>2, <2>3, <2>4 DEF p
<1> QED
  BY <1>3, <1>4

-----------------------------------------------------------------------------
(* The store follows the portal.                                           *)

\* A file has one document at most among those that are not unique.
Once(m) ==
  \A d1, d2 \in Docs :
    (m[d1] # NULL /\ m[d2] # NULL /\ m[d1].data = m[d2].data /\ ~m[d1].data.unique) => d1 = d2

\* The store, with the calls on their way, has what the portal has.
Tracked == Final(store, calls) = Persistent(db) /\ Once(db)

Followed ==
  /\ saving # NULL /\ ~outstanding => saving = store
  /\ clean => /\ Once(db)
              /\ running => Final(store, calls) = Persistent(db)
              /\ ~running => calls = <<>> /\ saving = NULL /\ store = Persistent(db)
              /\ saving = NULL => MapOf(file) = store

LEMMA OnceWith ==
  ASSUME NEW m, Once(m), NEW doc \in Docs, NEW entry,
         \A d \in Docs : (entry # NULL /\ d # doc /\ m[d] # NULL /\ m[d].data = entry.data)
                           => entry.data.unique
  PROVE  Once(With(m, doc, entry))
<1> DEFINE n == With(m, doc, entry)
<1>1. \A d \in Docs : n[d] = IF d = doc THEN entry ELSE m[d]
  BY DEF With
<1> HIDE DEF n
<1>2. ASSUME NEW d1 \in Docs, NEW d2 \in Docs, n[d1] # NULL, n[d2] # NULL,
             n[d1].data = n[d2].data, ~n[d1].data.unique
      PROVE  d1 = d2
  <2>1. CASE d1 = doc
    BY <1>1, <1>2, <2>1
  <2>2. CASE d2 = doc
    BY <1>1, <1>2, <2>2
  <2>3. CASE d1 # doc /\ d2 # doc
    BY <1>1, <1>2, <2>3 DEF Once
  <2> QED
    BY <2>1, <2>2, <2>3
<1>3. Once(n)
  BY <1>2 DEF Once
<1> QED
  BY <1>3 DEF n

\* What is not transient is kept.
LEMMA StoreKeeps ==
  ASSUME NEW g, NEW m, StoreMap(m, g)
  PROVE  Persistent(m) = m
<1>1. m = [d \in Docs |-> m[d]] /\ \A d \in Docs : m[d] # NULL => ~m[d].data.transient
  BY DEF StoreMap, GoodMap, Map
<1> QED
  BY <1>1 DEF Persistent

LEMMA PersistentOnce ==
  ASSUME NEW m, Once(m)
  PROVE  Once(Persistent(m))
<1>1. \A d \in Docs : Persistent(m)[d] # NULL => m[d] # NULL /\ Persistent(m)[d] = m[d]
  BY DEF Persistent
<1> QED
  BY <1>1 DEF Once

\* Changing the permissions of an entry, in the portal and by a call.
LEMMA PermissionsTracked ==
  ASSUME NEW cs \in Seq(Message), NEW m \in Map, Final(store, cs) = Persistent(m), Once(m),
         NEW doc \in Docs, m[doc] # NULL, NEW app \in Apps, NEW perms \in SUBSET Perms
  PROVE  LET n == [m EXCEPT ![doc] = SetAppPermissions(m[doc], app, perms)]
         IN /\ Final(store, cs \o PermissionCall(m[doc], doc, app, perms)) = Persistent(n)
            /\ Once(n)
<1> DEFINE entry == m[doc]
           set == SetAppPermissions(entry, app, perms)
           p == Persistent(m)
<1>1. entry \in Entry /\ m = [d \in Docs |-> m[d]]
  BY DEF Map
<1>2. p = [d \in Docs |-> p[d]] /\ p[doc] = Kept(entry)
  BY Functions, PersistentIs
<1>3. [m EXCEPT ![doc] = set] = With(m, doc, set)
  BY <1>1, WithIs
<1>4. set.data = entry.data
  BY <1>1, EntrySet
<1>5. Once(With(m, doc, set))
  <2>1. \A d \in Docs : (d # doc /\ m[d] # NULL /\ m[d].data = entry.data) => entry.data.unique
    BY DEF Once
  <2> HIDE DEF set, entry
  <2> QED
    BY <1>4, <2>1, OnceWith
<1>6. Final(store, cs) = With(p, doc, Kept(entry))
  <2> HIDE DEF p, entry
  <2>1. With(p, doc, Kept(entry)) = p
    BY <1>2, WithIs
  <2> QED
    BY <2>1 DEF p
<1>7. Final(store, cs \o PermissionCall(entry, doc, app, perms)) = Persistent(With(m, doc, set))
  <2> HIDE DEF entry
  <2> QED
    BY <1>1, <1>6, PermissionTracks, Zenon DEF p, set
<1> QED
  BY <1>3, <1>5, <1>7, Zenon

TrackedNext == Final(store, calls') = Persistent(db') /\ Once(db')

LEMMA SetTracked ==
  ASSUME IInv, Tracked, NEW doc \in Docs, db[doc] # NULL,
         NEW app \in Apps, NEW perms \in SUBSET Perms, do_set_permissions(db[doc], doc, app, perms)
  PROVE  TrackedNext
<1>1. db \in Map /\ calls \in Seq(Message)
  BY DEF IInv, TypeOK
<1>2. Final(store, calls) = Persistent(db) /\ Once(db)
  BY DEF Tracked
<1> DEFINE n == [db EXCEPT ![doc] = SetAppPermissions(db[doc], app, perms)]
<1>3. Final(store, calls \o PermissionCall(db[doc], doc, app, perms)) = Persistent(n) /\ Once(n)
  BY <1>1, <1>2, PermissionsTracked, Zenon
<1>4. db' = n /\ calls' = calls \o PermissionCall(db[doc], doc, app, perms)
  BY Zenon DEF do_set_permissions
<1> QED
  BY <1>3, <1>4, Zenon DEF TrackedNext

LEMMA RefuseTracked ==
  ASSUME Tracked, UNCHANGED <<db, calls>>
  PROVE  TrackedNext
BY DEF Tracked, TrackedNext

LEMMA GrantTracked ==
  ASSUME IInv, Tracked, NEW caller \in Callers, NEW doc \in Docs, NEW target \in Apps,
         NEW perms \in PermArgs, portal_grant_permissions(caller, doc, target, perms)
  PROVE  TrackedNext
<1> DEFINE all == perms \cup xdp_entry_get_permissions(db[doc], target)
<1>1. CASE UNCHANGED <<db, calls>>
  BY <1>1, RefuseTracked
<1>2. CASE db[doc] # NULL /\ do_set_permissions(db[doc], doc, target, all)
  <2>1. db[doc] \in Entry /\ perms \in SUBSET Perms
    BY <1>2, PermArgsAssumption DEF IInv, TypeOK, Map
  <2>2. xdp_entry_get_permissions(db[doc], target) \subseteq Perms
    BY <2>1, HostAssumption DEF Entry, xdp_entry_get_permissions
  <2>3. all \in SUBSET Perms
    BY <2>1, <2>2
  <2> HIDE DEF all
  <2> QED
    BY <1>2, <2>3, SetTracked
<1> QED
  BY <1>1, <1>2 DEF portal_grant_permissions, Refuse

LEMMA RevokeTracked ==
  ASSUME IInv, Tracked, NEW caller \in Callers, NEW doc \in Docs, NEW target \in Apps,
         NEW perms \in PermArgs, portal_revoke_permissions(caller, doc, target, perms)
  PROVE  TrackedNext
<1> DEFINE left == xdp_entry_get_permissions(db[doc], target) \ perms
<1>1. CASE UNCHANGED <<db, calls>>
  BY <1>1, RefuseTracked
<1>2. CASE db[doc] # NULL /\ do_set_permissions(db[doc], doc, target, left)
  <2>1. db[doc] \in Entry
    BY <1>2 DEF IInv, TypeOK, Map
  <2>2. xdp_entry_get_permissions(db[doc], target) \subseteq Perms
    BY <2>1, HostAssumption DEF Entry, xdp_entry_get_permissions
  <2>3. left \in SUBSET Perms
    BY <2>2
  <2> HIDE DEF left
  <2> QED
    BY <1>2, <2>3, SetTracked
<1> QED
  BY <1>1, <1>2 DEF portal_revoke_permissions, Refuse

LEMMA DeleteTracked ==
  ASSUME IInv, Tracked, NEW caller \in Callers, NEW doc \in Docs, portal_delete(caller, doc)
  PROVE  TrackedNext
<1> DEFINE new == IF persist_entry(db[doc]) THEN <<[op |-> "delete", doc |-> doc]>> ELSE <<>>
<1>1. CASE UNCHANGED <<db, calls>>
  BY <1>1, RefuseTracked
<1>2. CASE db[doc] # NULL /\ db' = [db EXCEPT ![doc] = NULL] /\ calls' = calls \o new
  <2>1. db \in Map /\ calls \in Seq(Message) /\ db = [d \in Docs |-> db[d]]
    BY DEF IInv, TypeOK, Map
  <2>2. db' = With(db, doc, NULL)
    <3>1. [db EXCEPT ![doc] = NULL] = With(db, doc, NULL)
      BY <2>1, WithIs
    <3> QED
      BY <1>2, <3>1, Zenon
  <2>3. Final(store, calls \o new) = Persistent(With(db, doc, NULL))
    BY <1>2, <2>1, DeleteTracks, Zenon DEF Tracked
  <2> HIDE DEF new
  <2>4. Once(With(db, doc, NULL))
    BY OnceWith DEF Tracked
  <2> QED
    BY <1>2, <2>2, <2>3, <2>4 DEF TrackedNext
<1> QED
  BY <1>1, <1>2 DEF portal_delete, Refuse

LEMMA AddTracked ==
  ASSUME IInv, Tracked, NEW caller \in Callers, NEW path \in Paths,
         NEW reuse_existing \in BOOLEAN, NEW persistent \in BOOLEAN,
         portal_add(caller, path, reuse_existing, persistent)
  PROVE  TrackedNext
<1> DEFINE data == [path |-> path, unique |-> ~reuse_existing, transient |-> ~persistent]
           perms == CreatorPermissions(data.unique)
           new == [data |-> data, permissions |-> NoPermissions]
<1>1. data \in Data /\ perms \in SUBSET Perms
  BY DEF Data, CreatorPermissions, Perms
<1>2. PICK doc \in do_create_doc(data) :
        LET created == db[doc] = NULL
            entry == IF created THEN new ELSE db[doc]
            set == IF created THEN CreateCall(doc, data) ELSE <<>>
        IN IF caller = Host
           THEN /\ db' = [db EXCEPT ![doc] = entry]
                /\ calls' = calls \o set
           ELSE /\ db' = [db EXCEPT ![doc] = SetAppPermissions(entry, caller, perms)]
                /\ calls' = calls \o set \o PermissionCall(entry, doc, caller, perms)
  BY DEF portal_add
<1>3. /\ doc \in Docs
      /\ db[doc] = NULL => data.unique \/ \A d \in Docs : db[d] = NULL \/ db[d].data # data
  BY <1>2 DEF do_create_doc, xdg_app_db_list_ids_by_value, FreeIds
<1>4. db \in Map /\ calls \in Seq(Message) /\ db = [d \in Docs |-> db[d]]
  BY DEF IInv, TypeOK, Map
<1>5. caller # Host => caller \in Apps
  BY DEF Callers
<1>6. calls \o <<>> = calls
  BY <1>4, ConcatNone
<1> HIDE DEF data, perms
<1>7. CASE db[doc] # NULL /\ caller = Host
  <2>1. With(db, doc, db[doc]) = db /\ [db EXCEPT ![doc] = db[doc]] = With(db, doc, db[doc])
    BY <1>3, <1>4, WithIs
  <2>2. db' = [db EXCEPT ![doc] = db[doc]] /\ calls' = calls \o <<>>
    BY <1>2, <1>7
  <2> QED
    BY <1>6, <2>1, <2>2, RefuseTracked
<1>8. CASE db[doc] # NULL /\ caller # Host
  <2>1. /\ db' = [db EXCEPT ![doc] = SetAppPermissions(db[doc], caller, perms)]
        /\ calls' = (calls \o <<>>) \o PermissionCall(db[doc], doc, caller, perms)
    BY <1>2, <1>8
  <2>2. do_set_permissions(db[doc], doc, caller, perms)
    BY <1>6, <2>1 DEF do_set_permissions
  <2> QED
    BY <1>1, <1>3, <1>5, <1>8, <2>2, SetTracked
<1>9. CASE db[doc] = NULL
  <2>1. new \in Entry /\ new.data = data
    BY <1>1 DEF Entry, NoPermissions
  <2>2. \A d \in Docs : (db[d] # NULL /\ db[d].data = data) => data.unique
    BY <1>3, <1>9
  <2> DEFINE cs == calls \o CreateCall(doc, data)
  <2>3. cs \in Seq(Message) /\ Final(store, cs) = With(Persistent(db), doc, Kept(new))
    BY <1>1, <1>3, <1>4, <1>9, CreateTracks, Zenon DEF Tracked
  <2>4. CASE caller = Host
    <3>1. db' = [db EXCEPT ![doc] = new] /\ calls' = cs
      BY <1>2, <1>9, <2>4
    <3> HIDE DEF new, cs
    <3>2. db' = With(db, doc, new)
      BY <1>3, <1>4, <3>1, WithIs
    <3>3. Persistent(With(db, doc, new)) = With(Persistent(db), doc, Kept(new))
      BY <1>3, <1>4, SetPersistent
    <3>4. Once(With(db, doc, new))
      BY <1>3, <2>1, <2>2, OnceWith DEF Tracked
    <3> QED
      BY <2>3, <3>1, <3>2, <3>3, <3>4 DEF TrackedNext
  <2>5. CASE caller # Host
    <3> DEFINE set == SetAppPermissions(new, caller, perms)
    <3>1. db' = [db EXCEPT ![doc] = set] /\ calls' = cs \o PermissionCall(new, doc, caller, perms)
      BY <1>2, <1>9, <2>5
    <3> HIDE DEF new, cs
    <3>2. set.data = data
      BY <1>1, <1>5, <2>1, <2>5, EntrySet
    <3>3. Final(store, cs \o PermissionCall(new, doc, caller, perms)) = Persistent(With(db, doc, set))
      BY <1>1, <1>3, <1>4, <1>5, <2>1, <2>3, <2>5, PermissionTracks, Zenon
    <3> HIDE DEF set
    <3>4. db' = With(db, doc, set)
      <4>1. [db EXCEPT ![doc] = set] = With(db, doc, set)
        BY <1>3, <1>4, WithIs
      <4> QED
        BY <3>1, <4>1, Zenon
    <3>5. Once(With(db, doc, set))
      BY <1>3, <2>2, <3>2, OnceWith DEF Tracked
    <3> QED
      BY <3>1, <3>3, <3>4, <3>5 DEF TrackedNext
  <2> QED
    BY <2>4, <2>5
<1> QED
  BY <1>7, <1>8, <1>9

LEMMA HandleTracked ==
  ASSUME IInv, Tracked, NEW caller \in Callers, Handle(caller)
  PROVE  TrackedNext
<1>1. CASE portal_add_on_fuse
  BY <1>1, RefuseTracked DEF portal_add_on_fuse, Refuse
<1> QED
  BY <1>1, AddTracked, DeleteTracked, GrantTracked, RevokeTracked DEF Handle

\* A call for an entry that is not there changes nothing.
LEMMA NotFound ==
  ASSUME NEW m \in Map, NEW c \in Message, m[c.doc] = NULL, c.op # "set"
  PROVE  Handled(m, c) = m
<1>1. c.doc \in Docs /\ m = [d \in Docs |-> m[d]]
  BY DEF Message, Map
<1>2. With(m, c.doc, NULL) = m
  BY <1>1, WithIs
<1>3. c.op = "delete" => Handled(m, c) = With(m, c.doc, NULL)
  BY <1>1, HandledIs
<1>4. c.op # "delete" => Handled(m, c) = m
  BY DEF Handled
<1> QED
  BY <1>2, <1>3, <1>4

LEMMA FollowedInit == Init => Followed
<1> SUFFICES ASSUME Init PROVE Followed
  OBVIOUS
<1>1. Once(EmptyMap) /\ Persistent(EmptyMap) = EmptyMap /\ MapOf(NULL) = EmptyMap
  <2>1. \A d \in Docs : EmptyMap[d] = NULL
    BY DEF EmptyMap
  <2> QED
    BY <2>1 DEF Once, Persistent, EmptyMap, MapOf
<1> QED
  BY <1>1 DEF Init, Followed

\* What is left of no calls.
LEMMA NoneLeft ==
  ASSUME NEW n \in 0..0
  PROVE  SubSeq(<<>>, n + 1, 0) = <<>> /\ SubSeq(<<>>, 1, n) = <<>>
OBVIOUS

LEMMA FollowedStep ==
  ASSUME IInv, Followed, [Next]_vars
  PROVE  Followed'
<1>1. /\ StoreMap(store, granted) /\ store \in Map /\ store # NULL /\ db \in Map
      /\ calls \in Seq(Message) /\ running \in BOOLEAN /\ clean \in BOOLEAN
      /\ outstanding \in BOOLEAN
      /\ saving # NULL => saving \in Map
  BY InvParts, NullAssumption DEF Parts, StoreMap, GoodMap, GoodCalls
<1>2. /\ saving # NULL /\ ~outstanding => saving = store
      /\ clean => /\ Once(db)
                  /\ running => Final(store, calls) = Persistent(db)
                  /\ ~running => calls = <<>> /\ saving = NULL /\ store = Persistent(db)
                  /\ saving = NULL => MapOf(file) = store
  BY DEF Followed
<1>3. ASSUME NEW caller \in Callers, Handle(caller)
      PROVE  Followed'
  <2>1. UNCHANGED <<running, store, saving, outstanding, file, clean>>
    BY <1>3, HandleGood DEF RequestGood, service
  <2>2. running
    BY <1>3 DEF Handle, portal_add, portal_add_on_fuse, portal_delete, portal_grant_permissions,
                portal_revoke_permissions, Request
  <2>3. clean => TrackedNext
    BY <1>2, <1>3, <2>2, HandleTracked DEF Tracked
  <2> QED
    BY <1>2, <2>1, <2>2, <2>3 DEF Followed, TrackedNext
<1>4. CASE StoreHandles
  <2> DEFINE m == Handled(store, Head(calls))
             found == store[Head(calls).doc] # NULL \/ Head(calls).op = "set"
  <2>1. /\ calls # <<>> /\ calls' = Tail(calls) /\ store' = m
        /\ saving' = IF found /\ saving = NULL THEN m ELSE saving
        /\ outstanding' = (outstanding \/ (found /\ saving # NULL))
        /\ UNCHANGED <<running, db, file, clean>>
    BY <1>4 DEF StoreHandles
  <2>2. Head(calls) \in Message
    BY <1>1, <2>1
  <2>3. ~found => m = store
    BY <1>1, <2>2, NotFound
  <2>4. m # NULL
    <3>1. GoodCalls(calls, granted)
      BY InvParts DEF Parts
    <3>2. StoreMap(m, granted)
      BY <1>1, <2>1, <3>1, TailGood, HandledGood
    <3> QED
      BY <3>2, NullAssumption DEF StoreMap, GoodMap
  <2>5. Final(m, Tail(calls)) = Final(store, calls)
    BY <1>1, <2>1, FinalTail
  <2> HIDE DEF m, found
  <2>6. saving' # NULL /\ ~outstanding' => saving' = store'
    BY <1>2, <2>1, <2>3
  <2>7. saving' = NULL => ~found /\ saving = NULL
    BY <2>1, <2>4
  <2>8. clean' => /\ running' /\ Once(db') /\ Final(store', calls') = Persistent(db')
                  /\ saving' = NULL => MapOf(file') = store'
    BY <1>2, <2>1, <2>3, <2>5, <2>7
  <2> QED
    BY <2>6, <2>8 DEF Followed
<1>5. CASE StoreSaved
  <2>1. /\ saving # NULL /\ file' = saving /\ saving' = IF outstanding THEN store ELSE NULL
        /\ outstanding' = FALSE /\ UNCHANGED <<running, db, calls, store, clean>>
    BY <1>5 DEF StoreSaved, AfterSave
  <2>2. MapOf(saving) = saving
    BY <1>1, <2>1, MapOfMap
  <2> QED
    BY <1>1, <1>2, <2>1, <2>2 DEF Followed
<1>6. CASE StoreSaveFails
  BY <1>6 DEF StoreSaveFails, AfterSave, Followed
<1>7. CASE StoreExits
  <2>1. PICK n \in 0..Len(calls) : calls' = SubSeq(calls, n + 1, Len(calls))
    BY <1>7 DEF StoreExits
  <2>2. /\ store' = MapOf(file) /\ saving' = NULL /\ clean' = (clean /\ calls = <<>> /\ saving = NULL)
        /\ UNCHANGED <<running, db, file>>
    BY <1>7 DEF StoreExits
  <2>3. calls = <<>> => calls' = <<>>
    BY <2>1, NoneLeft
  <2> QED
    BY <1>1, <1>2, <2>2, <2>3 DEF Followed
<1>8. CASE PortalExits
  <2>1. PICK n \in 0..Len(calls) : calls' = SubSeq(calls, 1, n)
    BY <1>8 DEF PortalExits
  <2>2. /\ running /\ ~running' /\ clean' = (clean /\ calls = <<>> /\ saving = NULL)
        /\ UNCHANGED <<store, saving, outstanding, file, db>>
    BY <1>8 DEF PortalExits, service
  <2>3. calls = <<>> => calls' = <<>>
    BY <2>1, NoneLeft
  <2>4. Final(store, <<>>) = store
    BY FinalNone
  <2> QED
    BY <1>1, <1>2, <2>2, <2>3, <2>4 DEF Followed
<1>9. CASE PortalStarts
  <2>1. /\ ~running /\ running' /\ db' = MapOf(file)
        /\ UNCHANGED <<calls, store, saving, outstanding, file, clean>>
    BY <1>9 DEF PortalStarts, service
  <2>2. Persistent(store) = store /\ Final(store, <<>>) = store
    BY <1>1, StoreKeeps, FinalNone
  <2>3. clean => /\ calls = <<>> /\ saving = NULL /\ db' = store /\ store = Persistent(db)
                 /\ MapOf(file) = store
    BY <1>2, <2>1
  <2>4. clean => Once(db')
    BY <1>2, <2>3, PersistentOnce
  <2> QED
    BY <1>2, <2>1, <2>2, <2>3, <2>4 DEF Followed
<1>10. CASE UNCHANGED vars
  BY <1>2, <1>10 DEF vars, service, Followed
<1> QED
  BY <1>3, <1>4, <1>5, <1>6, <1>7, <1>8, <1>9, <1>10 DEF Next, Store

\* AfterCalls is After for the store and its calls.
LEMMA FollowedPromises ==
  ASSUME IInv, Followed
  PROVE  StoreFollowsPortal /\ OneSharedDocument
<1>1. AfterCalls = After(store, calls)
  BY DEF AfterCalls, After
<1>2. OneSharedDocument
  BY DEF Followed, OneSharedDocument, Once
<1>3. StoreFollowsPortal
  BY <1>1 DEF Followed, StoreFollowsPortal, Final
<1> QED
  BY <1>2, <1>3

-----------------------------------------------------------------------------
(* The theorems.                                                           *)

\* Types are kept by every step, lost calls and ends of processes included.
THEOREM TypeCorrect == Spec => []TypeOK
<1>1. IInv => TypeOK
  BY DEF IInv
<1> QED
  BY <1>1, InvInit, InvStep, PTL DEF Spec

\* No app ever holds, anywhere, a permission that nobody gave it.
THEOREM NeverInventsPermission == Spec => []NoInventedPermission
<1>1. IInv => NoInventedPermission
  BY DEF IInv
<1> QED
  BY <1>1, InvInit, InvStep, PTL DEF Spec

\* No transient document reaches the store or the file.
THEOREM TransientAlwaysStays == Spec => []TransientStaysInPortal
<1>1. IInv => TransientStaysInPortal
  BY DEF IInv
<1> QED
  BY <1>1, InvInit, InvStep, PTL DEF Spec

\* Whatever an app gains in a step, the caller of that step could give.
THEOREM GainsAlwaysAuthorised == Spec => GainsAreAuthorised
<1>1. IInv => TypeOK
  BY DEF IInv
<1>2. TypeOK /\ [Next]_vars => [Authorised]_vars
  BY StepAuthorised
<1>3. [Authorised]_vars <=>
        [\A doc \in Docs, app \in Apps :
           LET before == IF db[doc] = NULL THEN {} ELSE db[doc].permissions[app]
               gained == IF db'[doc] = NULL THEN {} ELSE db'[doc].permissions[app] \ before
           IN (gained # {} /\ running) =>
                \/ last'.caller = Host
                \/ last'.caller = app /\ last'.op = "add" /\ last'.doc = doc
                \/ /\ db[doc] # NULL
                   /\ gained \cup {"grant-permissions"} \subseteq db[doc].permissions[last'.caller]]_vars
  BY DEF Authorised, Gained, Held, MayGive
<1> QED
  BY <1>1, <1>2, <1>3, InvInit, InvStep, PTL DEF Spec, GainsAreAuthorised

\* While no call and no save was lost, the store will have what the portal has
\* once it has handled the calls on their way, and the file has what the store
\* has when nothing is being saved.
THEOREM StoreFollows == Spec => []StoreFollowsPortal
<1>1. IInv /\ Followed => StoreFollowsPortal
  BY FollowedPromises
<1>2. IInv /\ Followed /\ [Next]_vars => Followed'
  BY FollowedStep
<1> QED
  BY <1>1, <1>2, InvInit, InvStep, FollowedInit, PTL DEF Spec

\* While no call and no save was lost, a file has one document at most among
\* those that are not unique, restarts of the portal included.
THEOREM SharedOnce == Spec => []OneSharedDocument
<1>1. IInv /\ Followed => OneSharedDocument
  BY FollowedPromises
<1>2. IInv /\ Followed /\ [Next]_vars => Followed'
  BY FollowedStep
<1> QED
  BY <1>1, <1>2, InvInit, InvStep, FollowedInit, PTL DEF Spec
=============================================================================
