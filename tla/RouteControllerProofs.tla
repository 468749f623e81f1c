----------------------- MODULE RouteControllerProofs -----------------------
(***************************************************************************)
(* Theorems about RouteController, for every value of its constants.       *)
(***************************************************************************)
EXTENDS RouteController, TLAPS

USE DEF None, Nobody

-----------------------------------------------------------------------------
(* Types of the data *)

\* What the CRD's validation leaves of a spec.
LEMMA SpecType == ASSUME NEW s \in Specs PROVE s \in RouteSpec
<1>1. PICK n \in Names : s \in SpecsOf[n]
  BY Zenon DEF Specs
<1>2. ValidSpec(s)
  BY <1>1, RouteConstantsAssumption, Zenon
<1> QED
  BY <1>2, Zenon DEF ValidSpec

LEMMA AnyNameType == AnyName \in Names
BY RouteConstantsAssumption DEF AnyName

LEMMA NoRouteType == NoRoute \in TunnelRoute
<1>1. Specs # {}
  BY RouteConstantsAssumption DEF Specs
<1>2. (CHOOSE s \in Specs : TRUE) \in Specs
  BY <1>1
<1> QED
  BY <1>2 DEF NoRoute, TunnelRoute

LEMMA NoLocalsType == NoLocals \in Locals
BY DEF NoLocals, Locals

LEMMA AbsentType == Absent \in TunnelObject
BY DEF Absent, TunnelObject

LEMMA ServicePortType ==
    ASSUME NEW ports \in PortSets, NEW want
    PROVE  ServicePort(ports, want) \subseteq PortNumbers
<1>1. ServicePort(ports, want) \subseteq {p.number : p \in ports}
  BY Zenon DEF ServicePort
<1>2. ASSUME NEW p \in ports PROVE p.number \in PortNumbers
  <2>1. p \in PortDecl
    BY RouteConstantsAssumption, Zenon
  <2> QED
    BY <2>1 DEF PortDecl
<1> QED
  BY <1>1, <1>2, Zenon

\* An upstream is an address of the spec or a port of a Service under its name.
LEMMA ResolveUpstreamType ==
    ASSUME NEW services \in [Services -> PortSets], NEW s \in Specs
    PROVE  ResolveUpstream(services, s) \subseteq Address
<1>1. s.upstream \subseteq Address /\ s.service \subseteq [name : Services, port : PortWanted]
  BY SpecType DEF RouteSpec
<1>2. ASSUME NEW x \in s.service, NEW n, n \in ServicePort(services[x.name], x.port)
      PROVE  [host |-> ClusterName(x.name), port |-> n] \in Address
  <2>1. x.name \in Services
    BY <1>1
  <2>2. services[x.name] \in PortSets
    BY <2>1
  <2>3. n \in PortNumbers
    BY <1>2, <2>2, ServicePortType, Zenon
  <2>4. Services \subseteq STRING
    BY RouteConstantsAssumption, Zenon
  <2>5. ClusterName(x.name) \in STRING \X {"svc"}
    BY <2>1, <2>4, Zenon DEF ClusterName
  <2> QED
    BY <2>3, <2>5 DEF Address
<1>3. ASSUME NEW a \in ResolveUpstream(services, s), a \notin s.upstream
      PROVE  a \in Address
  <2>1. PICK x \in s.service : \E n \in ServicePort(services[x.name], x.port) :
               a = [host |-> ClusterName(x.name), port |-> n]
    BY <1>3, Zenon DEF ResolveUpstream
  <2>2. PICK n \in ServicePort(services[x.name], x.port) :
               a = [host |-> ClusterName(x.name), port |-> n]
    BY <2>1, Zenon
  <2>3. [host |-> ClusterName(x.name), port |-> n] \in Address
    BY <1>2, Zenon
  <2> QED
    BY <2>2, <2>3, Zenon
<1>4. s.upstream \subseteq Address
  BY <1>1, Zenon
<1> QED
  BY <1>3, <1>4, Zenon

LEMMA PriorityType == ASSUME NEW s \in Specs PROVE Priority(s) \in Nat
<1>1. s.priority \subseteq Nat
  BY SpecType DEF RouteSpec
<1> QED
  BY <1>1 DEF Priority, DefaultPriority

LEMMA SettingsOfType ==
    ASSUME NEW s \in Specs, NEW a \in Address
    PROVE  SettingsOf(s, a) \in Settings
<1>1. UpstreamScheme(s) \in Schemes /\ s.strip \in BOOLEAN /\ Enabled(s) \in BOOLEAN
  BY SpecType DEF RouteSpec, UpstreamScheme, Enabled, Schemes
<1> QED
  BY <1>1, PriorityType DEF SettingsOf, Settings

LEMMA IdentityOfType == ASSUME NEW s \in Specs PROVE IdentityOf(s) \in Identity
<1>1. /\ RouteType(s) \in Types /\ s.hostname \in STRING
      /\ PathPrefix(s) \in STRING \cup {"/"}
  BY SpecType DEF RouteSpec, RouteType, PathPrefix, Types
<1> QED
  BY <1>1 DEF IdentityOf, Identity

LEMMA NewRouteType ==
    ASSUME NEW id \in Nat, NEW tid \in Nat, NEW ident \in Identity, NEW in \in Settings,
           NEW owner \in Nat
    PROVE  NewRoute(id, tid, ident, in, owner) \in RouteRow
<1>1. [ident EXCEPT !.pathPrefix = IF @ = "" THEN "/" ELSE @] \in Identity
  BY DEF Identity
<1>2. [in EXCEPT !.enabled = TRUE,
                 !.priority = IF in.priority = 0 THEN DefaultPriority ELSE @] \in Settings
  BY DEF Settings, DefaultPriority
<1> QED
  BY <1>1, <1>2 DEF NewRoute, RouteRow

\* An update mixes the values of two settings.
LEMMA UpdatedType ==
    ASSUME NEW row \in RouteRow, NEW fields, NEW in \in Settings
    PROVE  Updated(row, fields, in) \in RouteRow
<1> DEFINE mixed == [f \in DOMAIN row.set |-> IF f \in fields THEN in[f] ELSE row.set[f]]
<1>1. DOMAIN row.set = {"upstream", "scheme", "strip", "priority", "enabled"}
  BY DEF RouteRow, Settings
<1>2. mixed = [upstream |-> mixed.upstream, scheme |-> mixed.scheme, strip |-> mixed.strip,
               priority |-> mixed.priority, enabled |-> mixed.enabled]
  BY <1>1
<1>3. /\ mixed.upstream \in Address /\ mixed.scheme \in Schemes /\ mixed.strip \in BOOLEAN
      /\ mixed.priority \in Nat /\ mixed.enabled \in BOOLEAN
  BY <1>1 DEF RouteRow, Settings
<1> HIDE DEF mixed
<1>4. mixed \in Settings
  BY <1>2, <1>3 DEF Settings
<1>5. [row EXCEPT !.set = mixed] \in RouteRow
  BY <1>4 DEF RouteRow
<1> QED
  BY <1>5 DEF Updated, mixed

\* The writes of the metadata and of the spec keep the type of a TunnelRoute.
LEMMA MetadataType ==
    ASSUME NEW o \in TunnelRoute, NEW n \in Nat, NEW m \in Nat, NEW s \in Specs
    PROVE  /\ [o EXCEPT !.fin = TRUE] \in TunnelRoute
           /\ [o EXCEPT !.rv = n] \in TunnelRoute
           /\ [o EXCEPT !.deleting = TRUE, !.rv = n] \in TunnelRoute
           /\ [o EXCEPT !.spec = s, !.gen = m, !.rv = n] \in TunnelRoute
           /\ [NoRoute EXCEPT !.uid = m, !.rv = 1, !.gen = 1, !.spec = s] \in TunnelRoute
BY NoRouteType DEF TunnelRoute

LEMMA StatusType ==
    ASSUME NEW o \in TunnelRoute, NEW b \in BOOLEAN, NEW n \in Nat, NEW m \in Nat
    PROVE  /\ SetResolved(o, b) \in TunnelRoute
           /\ SetSynced(o, b) \in TunnelRoute
           /\ SetReady(o) \in TunnelRoute
           /\ [o EXCEPT !.rid = n, !.tid = m] \in TunnelRoute
           /\ [o EXCEPT !.obs = n] \in TunnelRoute
           /\ [o EXCEPT !.obs = o.gen] \in TunnelRoute
BY DEF TunnelRoute, SetResolved, SetSynced, SetReady

LEMMA WrittenType ==
    ASSUME NEW o \in TunnelRoute, NEW new \in TunnelRoute
    PROVE  Written(o, new) \in TunnelRoute
<1>1. o.rv + 1 \in Nat
  BY DEF TunnelRoute
<1> QED
  BY <1>1, MetadataType, NoRouteType DEF Written, TunnelRoute

LEMMA WithStatusType ==
    ASSUME NEW o \in TunnelRoute, NEW new \in TunnelRoute
    PROVE  WithStatus(o, new) \in TunnelRoute
BY DEF WithStatus, TunnelRoute

LEMMA UpdateStatusType ==
    ASSUME TypeOK, NEW new \in TunnelRoute, UpdateStatus(new)
    PROVE  route' \in [Names -> TunnelRoute]
<1>1. route[cur] \in TunnelRoute
  BY DEF TypeOK
<1>2. Written(route[cur], WithStatus(route[cur], new)) \in TunnelRoute
  BY <1>1, WithStatusType, WrittenType
<1> QED
  BY <1>2 DEF UpdateStatus, TypeOK

-----------------------------------------------------------------------------
(* Types of the steps *)

\* The calls of ensureRoute, which need an upstream to ask for.
Ensuring == {"listRoutes", "replaceRoute", "createRoute", "updateRoute"}

\* TypeOK, and a resolved upstream wherever one is chosen.
TypeInv == TypeOK /\ (pc \in Ensuring => loc.addr # {})

LEMMA UpstreamType == ASSUME TypeInv, pc \in Ensuring PROVE Upstream \in Address
<1>1. loc.addr \subseteq Address /\ loc.addr # {}
  BY DEF TypeInv, TypeOK, Locals
<1> QED
  BY <1>1, Zenon DEF Upstream

LEMMA VerdictsType == Verdicts \subseteq BOOLEAN
BY DEF Verdicts, Classify

LEMMA NotSyncedType ==
    ASSUME TypeOK, NEW o \in TunnelRoute, NEW err \in BOOLEAN, NotSynced(o, err)
    PROVE  rt' \in TunnelRoute /\ loc' \in Locals /\ pc' = "finish"
<1>1. SetSynced(o, FALSE) \in TunnelRoute
  BY StatusType
<1>2. SetReady(SetSynced(o, FALSE)) \in TunnelRoute
  BY <1>1, StatusType
<1> QED
  BY <1>2 DEF NotSynced, TypeOK, Locals

LEMMA ReturnType ==
    ASSUME NEW q, Return(q)
    PROVE  /\ rt' \in TunnelRoute /\ loc' \in Locals /\ cur' \in Names /\ pc' = "idle"
           /\ queue' = q
BY NoRouteType, NoLocalsType, AnyNameType DEF Return

LEMMA DisturbType == ASSUME TypeOK, Disturb PROVE budget' \in Nat
BY DEF Disturb, TypeOK

\* The ways a call of ensureRoute fails all end in the write of the status.
Failed == Refused \/ AnswerLost \/ Missing

LEMMA FailedType ==
    ASSUME TypeOK, Failed
    PROVE  /\ rt' \in TunnelRoute /\ loc' \in Locals /\ pc' = "finish"
           /\ cur' = cur /\ queue' = queue /\ budget' \in Nat
<1>1. PICK permanent \in BOOLEAN : Fail(permanent)
  BY VerdictsType DEF Failed, Refused, AnswerLost, Missing, Classify
<1>2. rt' \in TunnelRoute /\ loc' \in Locals /\ pc' = "finish"
  BY <1>1, NotSyncedType DEF Fail, TypeOK
<1> QED
  BY <1>2, DisturbType DEF Failed, Refused, AnswerLost, Missing, TypeOK

LEMMA QueueType ==
    ASSUME TypeOK
    PROVE  /\ Later \in SUBSET (Names \X {"now", "later"})
           /\ \A ns \in SUBSET Names : queue \cup Now(ns) \in SUBSET (Names \X {"now", "later"})
           /\ \A ns \in SUBSET Names : Now(ns) \in SUBSET (Names \X {"now", "later"})
BY DEF TypeOK, Later, Now

LEMMA PublishedType ==
    ASSUME TypeOK, NEW id \in Nat, Published(id)
    PROVE  rt' \in TunnelRoute /\ loc' \in Locals /\ pc' = "finish"
<1>1. loc.tid \in Nat
  BY DEF TypeOK, Locals
<1>2. [rt EXCEPT !.rid = id, !.tid = loc.tid] \in TunnelRoute
  BY <1>1, StatusType DEF TypeOK
<1>3. SetReady(SetSynced([rt EXCEPT !.rid = id, !.tid = loc.tid], TRUE)) \in TunnelRoute
  BY <1>2, StatusType
<1> QED
  BY <1>3 DEF Published, TypeOK

\* A comparison ends the reconcile or goes on to the update.
LEMMA CompareType ==
    ASSUME TypeInv, pc \in Ensuring, NEW row \in RouteRow, Compare(row)
    PROVE  /\ rt' \in TunnelRoute /\ loc' \in Locals
           /\ pc' \in {"finish", "updateRoute"} /\ loc'.addr = loc.addr
<1>1. row.id \in Nat /\ DOMAIN row.set = Fields
  BY DEF RouteRow, Settings, Fields
<1>2. RouteDrift(row, rt.spec, Upstream) \subseteq Fields
  BY <1>1 DEF RouteDrift
<1>3. CASE RouteDrift(row, rt.spec, Upstream) = {}
  BY <1>1, <1>3, PublishedType DEF Compare, TypeInv, Published
<1>4. CASE RouteDrift(row, rt.spec, Upstream) # {}
  BY <1>1, <1>2, <1>4 DEF Compare, TypeInv, TypeOK, Locals
<1> QED
  BY <1>3, <1>4

LEMMA TypeInit == Init => TypeInv
BY NoRouteType, NoLocalsType, AnyNameType, AbsentType, RouteConstantsAssumption
   DEF Init, TypeInv, TypeOK, LifecycleInit, LifecycleTypeOK, Labels, Ensuring

LEMMA TypeReconcile == TypeInv /\ Reconcile => TypeInv'
<1> SUFFICES ASSUME TypeInv, Reconcile PROVE TypeInv' OBVIOUS
<1>1. PICK n \in Names, q \in {"now", "later"} :
        /\ <<n, q>> \in queue
        /\ LET o      == rcache[n]
               tunnel == tseen[o.spec.tunnelRef]
               to     == Dispatch(o, tunnel)
           IN  IF to = "idle"
               THEN Return(queue \ {<<n, q>>})
               ELSE /\ queue' = queue \ {<<n, q>>}
                    /\ cur' = n /\ pc' = to
                    /\ rt' = IF to = "finish" THEN SetReady(SetSynced(o, FALSE)) ELSE o
                    /\ loc' = [NoLocals EXCEPT !.tid = tunnel.id]
  BY DEF Reconcile
<1> DEFINE o      == rcache[n]
           tunnel == tseen[o.spec.tunnelRef]
           to     == Dispatch(o, tunnel)
<1>2. o \in TunnelRoute /\ o.spec \in Specs
  BY DEF TypeInv, TypeOK, TunnelRoute
<1>3. o.spec.tunnelRef \in Refs
  BY <1>2, SpecType DEF RouteSpec
<1>4. tunnel.id \in Nat
  BY <1>3 DEF TypeInv, TypeOK, TunnelObject
<1>5. SetReady(SetSynced(o, FALSE)) \in TunnelRoute
  BY <1>2, StatusType
<1>6. [NoLocals EXCEPT !.tid = tunnel.id] \in Locals
  BY <1>4, NoLocalsType DEF Locals
<1>7. to \in Labels \ Ensuring
  BY DEF Dispatch, DispatchDelete, Labels, Ensuring
<1> HIDE DEF to, tunnel, o
<1>8. /\ rt' \in TunnelRoute /\ loc' \in Locals /\ cur' \in Names /\ pc' \in Labels \ Ensuring
      /\ queue' \in SUBSET (Names \X {"now", "later"})
  <2>1. queue \ {<<n, q>>} \in SUBSET (Names \X {"now", "later"})
    BY DEF TypeInv, TypeOK
  <2>2. CASE to = "idle"
    BY <1>1, <2>1, <2>2, ReturnType DEF to, tunnel, o, Labels, Ensuring
  <2>3. CASE to # "idle"
    BY <1>1, <1>2, <1>5, <1>6, <1>7, <2>1, <2>3 DEF to, tunnel, o
  <2> QED
    BY <2>2, <2>3
<1> QED
  BY <1>8 DEF Reconcile, TypeInv, TypeOK, LifecycleTypeOK, platform, fixed

LEMMA TypeAddFinalizer == TypeInv /\ AddFinalizer => TypeInv'
<1> SUFFICES ASSUME TypeInv, AddFinalizer PROVE TypeInv' OBVIOUS
<1>1. route[cur] \in TunnelRoute
  BY DEF TypeInv, TypeOK
<1>2. Written(route[cur], [route[cur] EXCEPT !.fin = TRUE]) \in TunnelRoute
  <2>1. [route[cur] EXCEPT !.fin = TRUE] \in TunnelRoute
    BY <1>1 DEF TunnelRoute
  <2> QED
    BY <1>1, <2>1, WrittenType
<1>3. route' \in [Names -> TunnelRoute]
  BY <1>2 DEF AddFinalizer, TypeInv, TypeOK
<1>4. /\ rt' \in TunnelRoute /\ loc' \in Locals /\ cur' \in Names /\ pc' \in {"idle", "resolve"}
      /\ queue' \in SUBSET (Names \X {"now", "later"}) /\ budget' \in Nat
  BY <1>3, ReturnType, QueueType, DisturbType DEF AddFinalizer, TypeInv, TypeOK
<1> QED
  BY <1>3, <1>4 DEF AddFinalizer, TypeInv, TypeOK, LifecycleTypeOK, platform, fixed, Labels, Ensuring

LEMMA TypeResolve == TypeInv /\ Resolve => TypeInv'
<1> SUFFICES ASSUME TypeInv, Resolve PROVE TypeInv' OBVIOUS
<1> DEFINE addr == ResolveUpstream(svc, rt.spec)
<1>1. addr \subseteq Address
  BY ResolveUpstreamType DEF TypeInv, TypeOK, TunnelRoute
<1>2. SetResolved(rt, TRUE) \in TunnelRoute /\ SetResolved(rt, FALSE) \in TunnelRoute
  BY StatusType DEF TypeInv, TypeOK
<1> HIDE DEF addr
<1>3. [loc EXCEPT !.addr = addr] \in Locals /\ [loc EXCEPT !.addr = addr].addr = addr
  BY <1>1 DEF TypeInv, TypeOK, Locals
<1>4. \/ \E o \in TunnelRoute : NotSynced(o, FALSE)
      \/ /\ rt' = SetResolved(rt, TRUE) /\ loc' = [loc EXCEPT !.addr = addr] /\ pc' = "listRoutes"
         /\ addr # {}
  BY <1>2 DEF Resolve, addr, TypeInv, TypeOK
<1>5. /\ rt' \in TunnelRoute /\ loc' \in Locals /\ pc' \in {"finish", "listRoutes"}
      /\ pc' = "listRoutes" => loc'.addr # {}
  BY <1>2, <1>3, <1>4, NotSyncedType DEF TypeInv
<1> QED
  BY <1>5 DEF Resolve, TypeInv, TypeOK, LifecycleTypeOK, platform, fixed, Labels, Ensuring

LEMMA FindRouteRows ==
    ASSUME NEW tid, NEW rid, NEW s
    PROVE  FindRoute(routes, tid, rid, s) \subseteq ListRoutes(routes, tid)
BY DEF FindRoute, ListRoutes

LEMMA TypeCallListRoutes == TypeInv /\ CallListRoutes => TypeInv'
<1> SUFFICES ASSUME TypeInv, CallListRoutes PROVE TypeInv' OBVIOUS
<1> DEFINE found == FindRoute(routes, loc.tid, rt.rid, rt.spec)
<1>0. found \subseteq RouteRow
  BY FindRouteRows DEF ListRoutes, TypeInv, TypeOK
<1> HIDE DEF found
<1>1. pc \in Ensuring
  BY DEF CallListRoutes, Ensuring
<1>2. /\ rt' \in TunnelRoute /\ loc' \in Locals /\ budget' \in Nat
      /\ cur' = cur /\ queue' = queue
      /\ pc' \in {"finish"} \cup Ensuring /\ (pc' # "finish" => loc'.addr = loc.addr)
  <2>1. CASE Failed
    BY <2>1, FailedType DEF TypeInv
  <2>2. CASE ~Failed /\ found = {}
    BY <2>2 DEF CallListRoutes, Failed, found, TypeInv, TypeOK, Ensuring
  <2>3. CASE ~Failed /\ found # {}
    <3>1. PICK row \in found :
            /\ IF IdentityChanged(row, rt.spec)
               THEN /\ pc' = "replaceRoute"
                    /\ loc' = [loc EXCEPT !.id = row.id]
                    /\ UNCHANGED rt
               ELSE Compare(row)
            /\ UNCHANGED <<cur, queue, budget>>
      BY <2>3 DEF CallListRoutes, Failed, found
    <3>2. row \in RouteRow /\ row.id \in Nat
      BY <1>0 DEF RouteRow
    <3>3. CASE IdentityChanged(row, rt.spec)
      BY <3>1, <3>2, <3>3 DEF TypeInv, TypeOK, Locals, Ensuring
    <3>4. CASE ~IdentityChanged(row, rt.spec)
      BY <1>1, <3>1, <3>2, <3>4, CompareType DEF TypeInv, TypeOK, Ensuring
    <3> QED
      BY <3>3, <3>4
  <2> QED
    BY <2>1, <2>2, <2>3
<1> QED
  BY <1>1, <1>2 DEF CallListRoutes, TypeInv, TypeOK, LifecycleTypeOK, platform, fixed, Labels, Ensuring

LEMMA TypeCallReplaceRoute == TypeInv /\ CallReplaceRoute => TypeInv'
<1> SUFFICES ASSUME TypeInv, CallReplaceRoute PROVE TypeInv' OBVIOUS
<1>1. routes' \in SUBSET RouteRow
  BY DEF CallReplaceRoute, DeleteRoute, TypeInv, TypeOK
<1>2. \/ Failed
      \/ pc' = "createRoute" /\ UNCHANGED <<cur, rt, loc, queue>> /\ (Disturb \/ UNCHANGED budget)
  BY DEF CallReplaceRoute, Failed, BareNotFound
<1>3. /\ rt' \in TunnelRoute /\ loc' \in Locals /\ budget' \in Nat
      /\ cur' = cur /\ queue' = queue
      /\ pc' \in {"finish", "createRoute"} /\ (pc' # "finish" => loc'.addr = loc.addr)
  BY <1>2, FailedType, DisturbType DEF TypeInv, TypeOK
<1>4. pc = "replaceRoute" /\ UNCHANGED <<route, inflight, issued, fixed>>
  BY DEF CallReplaceRoute
<1> QED
  BY <1>1, <1>3, <1>4 DEF TypeInv, TypeOK, LifecycleTypeOK, fixed, Labels, Ensuring

\* The route a create asks for.
Asked == NewRoute(issued + 1, loc.tid, IdentityOf(rt.spec), SettingsOf(rt.spec, Upstream), rt.uid)

LEMMA AskedType == ASSUME TypeInv, pc \in Ensuring PROVE Asked \in RouteRow
<1>1. issued + 1 \in Nat /\ loc.tid \in Nat /\ rt.uid \in Nat /\ rt.spec \in Specs
  BY DEF TypeInv, TypeOK, LifecycleTypeOK, Locals, TunnelRoute
<1> QED
  BY <1>1, UpstreamType, SettingsOfType, IdentityOfType, NewRouteType DEF Asked

LEMMA TypeCallCreateRoute == TypeInv /\ CallCreateRoute => TypeInv'
<1> SUFFICES ASSUME TypeInv, CallCreateRoute PROVE TypeInv' OBVIOUS
<1>1. pc = "createRoute" /\ pc \in Ensuring /\ UNCHANGED <<route, fixed>>
  BY DEF CallCreateRoute, Ensuring
<1>2. Asked \in RouteRow
  BY <1>1, AskedType
<1>3. /\ \/ UNCHANGED platform
         \/ routes' = routes \cup {Asked} /\ issued' = issued + 1 /\ UNCHANGED inflight
         \/ inflight' = inflight \cup {Asked} /\ issued' = issued + 1 /\ UNCHANGED routes
      /\ Failed \/ (AfterCreate(Asked) /\ UNCHANGED <<cur, queue, budget>>)
  BY DEF CallCreateRoute, Asked, Failed
<1>4. routes' \in SUBSET RouteRow /\ inflight' \in SUBSET RouteRow /\ issued' \in Nat
  BY <1>2, <1>3 DEF platform, TypeInv, TypeOK, LifecycleTypeOK
<1>5. /\ rt' \in TunnelRoute /\ loc' \in Locals /\ budget' \in Nat
      /\ cur' = cur /\ queue' = queue
      /\ pc' \in {"finish", "updateRoute"} /\ (pc' # "finish" => loc'.addr = loc.addr)
  BY <1>1, <1>2, <1>3, FailedType, CompareType DEF AfterCreate, TypeInv, TypeOK
<1> QED
  BY <1>1, <1>4, <1>5 DEF TypeInv, TypeOK, LifecycleTypeOK, fixed, Labels, Ensuring

LEMMA TypeCallUpdateRoute == TypeInv /\ CallUpdateRoute => TypeInv'
<1> SUFFICES ASSUME TypeInv, CallUpdateRoute PROVE TypeInv' OBVIOUS
<1> DEFINE target == {r \in routes : r.tunnel = loc.tid /\ r.id = loc.id}
           wanted == SettingsOf(rt.spec, Upstream)
           after  == {Updated(r, loc.drift, wanted) : r \in target}
<1>1. /\ pc = "updateRoute" /\ pc \in Ensuring /\ UNCHANGED <<route, inflight, issued, fixed>>
      /\ loc.id \in Nat
  BY DEF CallUpdateRoute, Ensuring, TypeInv, TypeOK, Locals
<1>2. wanted \in Settings
  BY <1>1, UpstreamType, SettingsOfType DEF TypeInv, TypeOK, TunnelRoute
<1>3. after \subseteq RouteRow
  BY <1>2, UpdatedType DEF TypeInv, TypeOK
<1>4. routes' \in {routes, (routes \ target) \cup after}
  BY DEF CallUpdateRoute
<1>5. Failed \/ (Published(loc.id) /\ UNCHANGED <<cur, queue, budget>>)
  BY DEF CallUpdateRoute, Failed
<1> HIDE DEF target, wanted, after
<1>6. routes' \in SUBSET RouteRow
  BY <1>3, <1>4 DEF TypeInv, TypeOK
<1>7. /\ rt' \in TunnelRoute /\ loc' \in Locals /\ budget' \in Nat
      /\ cur' = cur /\ queue' = queue /\ pc' = "finish"
  BY <1>1, <1>5, FailedType, PublishedType DEF TypeInv, TypeOK
<1> QED
  BY <1>1, <1>6, <1>7 DEF TypeInv, TypeOK, LifecycleTypeOK, fixed, Labels, Ensuring

LEMMA TypeFinish == TypeInv /\ Finish => TypeInv'
<1> SUFFICES ASSUME TypeInv, Finish PROVE TypeInv' OBVIOUS
<1>1. [rt EXCEPT !.obs = rt.gen] \in TunnelRoute
  BY StatusType DEF TypeInv, TypeOK
<1>2. route' \in [Names -> TunnelRoute]
  BY <1>1, UpdateStatusType DEF Finish, TypeInv, TypeOK
<1>3. /\ rt' \in TunnelRoute /\ loc' \in Locals /\ cur' \in Names /\ pc' = "idle"
      /\ queue' \in SUBSET (Names \X {"now", "later"}) /\ budget' \in Nat
  BY ReturnType, QueueType, DisturbType DEF Finish, TypeInv, TypeOK
<1> QED
  BY <1>2, <1>3 DEF Finish, TypeInv, TypeOK, LifecycleTypeOK, platform, fixed, Labels, Ensuring

LEMMA TypeDeletePath ==
    TypeInv /\ (DeleteClientFor \/ CallFindRoute \/ CallDeleteRoute \/ RemoveFinalizer) => TypeInv'
<1> SUFFICES ASSUME TypeInv,
                    DeleteClientFor \/ CallFindRoute \/ CallDeleteRoute \/ RemoveFinalizer
             PROVE  TypeInv'
  OBVIOUS
<1>1. CASE DeleteClientFor
  BY <1>1, ReturnType, QueueType
     DEF DeleteClientFor, AfterDeleteClient, TypeInv, TypeOK, LifecycleTypeOK, Locals, Labels,
         TunnelRoute, platform, fixed, Ensuring
<1>2. CASE CallFindRoute
  <2>1. \A row \in FindRoute(routes, loc.tid, rt.rid, rt.spec) : row.id \in Nat
    BY FindRouteRows DEF ListRoutes, TypeInv, TypeOK, RouteRow
  <2>2. /\ rt' \in TunnelRoute /\ loc' \in Locals /\ cur' \in Names /\ budget' \in Nat
        /\ pc' \in {"idle", "removeFinalizer", "deleteRoute"}
        /\ queue' \in SUBSET (Names \X {"now", "later"})
    BY <1>2, <2>1, ReturnType, QueueType, DisturbType DEF CallFindRoute, TypeInv, TypeOK, Locals
  <2> QED
    BY <1>2, <2>2 DEF CallFindRoute, TypeInv, TypeOK, LifecycleTypeOK, platform, fixed, Labels, Ensuring
<1>3. CASE CallDeleteRoute
  <2>1. /\ rt' \in TunnelRoute /\ loc' \in Locals /\ cur' \in Names /\ budget' \in Nat
        /\ pc' \in {"idle", "removeFinalizer"}
        /\ queue' \in SUBSET (Names \X {"now", "later"})
    BY <1>3, ReturnType, QueueType, DisturbType DEF CallDeleteRoute, BareNotFound, TypeInv, TypeOK
  <2>2. routes' \in SUBSET RouteRow
    BY <1>3 DEF CallDeleteRoute, DeleteRoute, TypeInv, TypeOK
  <2> QED
    BY <1>3, <2>1, <2>2 DEF CallDeleteRoute, TypeInv, TypeOK, LifecycleTypeOK, fixed, Labels, Ensuring
<1>4. CASE RemoveFinalizer
  <2>1. /\ rt' \in TunnelRoute /\ loc' \in Locals /\ cur' \in Names /\ budget' \in Nat
        /\ pc' = "idle" /\ queue' \in SUBSET (Names \X {"now", "later"})
    BY <1>4, ReturnType, QueueType, DisturbType DEF RemoveFinalizer, TypeInv, TypeOK
  <2>2. route' \in [Names -> TunnelRoute]
    BY <1>4, NoRouteType DEF RemoveFinalizer, TypeInv, TypeOK
  <2> QED
    BY <1>4, <2>1, <2>2 DEF RemoveFinalizer, TypeInv, TypeOK, LifecycleTypeOK, platform, fixed, Labels, Ensuring
<1> QED
  BY <1>1, <1>2, <1>3, <1>4

LEMMA TypeUsers ==
    ASSUME TypeInv, NEW n \in Names, UserCreate(n) \/ UserDelete(n) \/ UserEdit(n) \/ Deliver(n)
    PROVE  TypeInv'
<1>1. route[n] \in TunnelRoute /\ route[n].rv + 1 \in Nat /\ route[n].gen + 1 \in Nat
  BY DEF TypeInv, TypeOK, TunnelRoute
<1>2. SpecsOf[n] \subseteq Specs
  BY Zenon DEF Specs
<1>3. CASE UserCreate(n)
  <2>1. made + 1 \in Nat
    BY DEF TypeInv, TypeOK
  <2>2. PICK s \in SpecsOf[n] :
          route' = [route EXCEPT ![n] = [NoRoute EXCEPT !.uid = made + 1, !.rv = 1,
                                                        !.gen = 1, !.spec = s]]
    BY <1>3 DEF UserCreate
  <2>3. [NoRoute EXCEPT !.uid = made + 1, !.rv = 1, !.gen = 1, !.spec = s] \in TunnelRoute
    BY <1>1, <1>2, <2>1, MetadataType
  <2>4. route' \in [Names -> TunnelRoute]
    BY <2>2, <2>3 DEF TypeInv, TypeOK
  <2> QED
    BY <1>3, <2>1, <2>4 DEF UserCreate, TypeInv, TypeOK, LifecycleTypeOK, lifecycle, views, worker
<1>4. CASE UserDelete(n)
  <2>1. route'[n] \in TunnelRoute
    BY <1>1, <1>4, NoRouteType DEF UserDelete, TypeInv, TypeOK, TunnelRoute
  <2>2. route' \in [Names -> TunnelRoute]
    BY <1>4, <2>1 DEF UserDelete, TypeInv, TypeOK
  <2> QED
    BY <1>4, <2>2 DEF UserDelete, TypeInv, TypeOK, LifecycleTypeOK, lifecycle, views, worker
<1>5. CASE UserEdit(n)
  <2>1. PICK s \in SpecsOf[n] :
          route' = [route EXCEPT ![n] = [route[n] EXCEPT !.spec = s, !.gen = @ + 1, !.rv = @ + 1]]
    BY <1>5 DEF UserEdit
  <2>2. route'[n] \in TunnelRoute
    BY <1>1, <1>2, <2>1 DEF TypeInv, TypeOK, TunnelRoute
  <2>3. route' \in [Names -> TunnelRoute]
    BY <2>1, <2>2 DEF TypeInv, TypeOK
  <2> QED
    BY <1>5, <2>3, DisturbType DEF UserEdit, TypeInv, TypeOK, LifecycleTypeOK, lifecycle, views, worker
<1>6. CASE Deliver(n)
  <2>1. {n} \in SUBSET Names
    OBVIOUS
  <2>2. queue' \in SUBSET (Names \X {"now", "later"})
    BY <1>6, <2>1, QueueType DEF Deliver, TypeInv
  <2> QED
    BY <1>1, <1>6, <2>2 DEF Deliver, TypeInv, TypeOK, LifecycleTypeOK, lifecycle, api, worker
<1> QED
  BY <1>3, <1>4, <1>5, <1>6

LEMMA TypeTunnels ==
    ASSUME TypeInv, NEW r \in Refs, TunnelUser(r) \/ TunnelReconciler(r) \/ DeliverTunnel(r)
    PROVE  TypeInv'
<1>1. tun[r] \in TunnelObject /\ born + 1 \in Nat /\ issued + 1 \in Nat
  BY DEF TypeInv, TypeOK, LifecycleTypeOK
<1>2. CASE TunnelUser(r) \/ TunnelReconciler(r)
  <2>1. LifecycleTypeOK'
    <3>1. CASE Appear(r) \/ MarkDeleted(r) \/ Vanish(r)
      BY <1>1, <3>1, AbsentType
         DEF Appear, MarkDeleted, Vanish, TypeInv, TypeOK, LifecycleTypeOK, TunnelObject
    <3>2. CASE Publish(r)
      <4>1. [id |-> issued + 1, ext |-> tun[r].uid] \in [id : Nat, ext : Nat]
        BY <1>1 DEF TunnelObject
      <4> QED
        BY <1>1, <3>2, <4>1 DEF Publish, TypeInv, TypeOK, LifecycleTypeOK
    <3>3. CASE Record(r)
      BY <1>1, <3>3 DEF Record, TunnelsOf, TypeInv, TypeOK, LifecycleTypeOK, TunnelObject
    <3>4. CASE Withdraw(r)
      BY <3>4 DEF Withdraw, TypeInv, TypeOK, LifecycleTypeOK
    <3> QED
      BY <1>2, <3>1, <3>2, <3>3, <3>4 DEF TunnelUser, TunnelReconciler
  <2>2. routes' \in SUBSET RouteRow
    BY <1>2 DEF TunnelUser, TunnelReconciler, TypeInv, TypeOK
  <2> QED
    BY <1>2, <2>1, <2>2 DEF TunnelUser, TunnelReconciler, TypeInv, TypeOK, api, views, worker
<1>3. CASE DeliverTunnel(r)
  <2>1. RoutesOfTunnel(r) \in SUBSET Names
    BY DEF RoutesOfTunnel
  <2>2. queue' \in SUBSET (Names \X {"now", "later"})
    BY <1>3, <2>1, QueueType DEF DeliverTunnel, TypeInv
  <2>3. tseen' \in [Refs -> TunnelObject]
    BY <1>1, <1>3 DEF DeliverTunnel, TypeInv, TypeOK
  <2> QED
    BY <1>3, <2>2, <2>3 DEF DeliverTunnel, TypeInv, TypeOK, LifecycleTypeOK, lifecycle, api, worker
<1> QED
  BY <1>2, <1>3

LEMMA TypeEnvironment ==
    ASSUME TypeInv,
           \/ \E s \in Services : ServiceChanges(s)
           \/ UserTogglesCredential \/ PanelDeletesTunnel \/ PanelDeletesRoute
           \/ LateCreate \/ Restart
    PROVE  TypeInv'
<1>1. ASSUME NEW s \in Services, ServiceChanges(s) PROVE TypeInv'
  <2>1. RoutesOfService(s) \in SUBSET Names
    BY DEF RoutesOfService
  <2>2. queue' \in SUBSET (Names \X {"now", "later"})
    BY <1>1, <2>1, QueueType DEF ServiceChanges, TypeInv
  <2>3. svc' \in [Services -> PortSets]
    BY <1>1 DEF ServiceChanges, TypeInv, TypeOK
  <2> QED
    BY <1>1, <2>2, <2>3, DisturbType
       DEF ServiceChanges, TypeInv, TypeOK, LifecycleTypeOK, lifecycle, api, worker
<1>2. CASE UserTogglesCredential
  BY <1>2, DisturbType
     DEF UserTogglesCredential, TypeInv, TypeOK, LifecycleTypeOK, lifecycle, api, worker
<1>3. CASE PanelDeletesTunnel
  BY <1>3, DisturbType DEF PanelDeletesTunnel, TypeInv, TypeOK, LifecycleTypeOK, api, views, worker
<1>4. CASE PanelDeletesRoute
  BY <1>4, DisturbType DEF PanelDeletesRoute, TypeInv, TypeOK, LifecycleTypeOK, lifecycle, api, views, worker
<1>5. CASE LateCreate
  BY <1>5 DEF LateCreate, TypeInv, TypeOK, LifecycleTypeOK, lifecycle, api, views, worker
<1>6. CASE Restart
  <2>1. {n \in Names : Exists(n)} \in SUBSET Names
    OBVIOUS
  <2>2. queue' \in SUBSET (Names \X {"now", "later"})
    BY <1>6, <2>1, QueueType DEF Restart, TypeInv
  <2> QED
    BY <1>6, <2>2, DisturbType, NoRouteType, NoLocalsType, AnyNameType
       DEF Restart, TypeInv, TypeOK, LifecycleTypeOK, lifecycle, api, Labels, Ensuring
<1> QED
  BY <1>1, <1>2, <1>3, <1>4, <1>5, <1>6

LEMMA TypeStep == TypeInv /\ [Next]_vars => TypeInv'
<1> SUFFICES ASSUME TypeInv, [Next]_vars PROVE TypeInv' OBVIOUS
<1>1. CASE Worker
  BY <1>1, TypeReconcile, TypeAddFinalizer, TypeResolve, TypeCallListRoutes, TypeCallReplaceRoute,
     TypeCallCreateRoute, TypeCallUpdateRoute, TypeFinish, TypeDeletePath DEF Worker
<1>2. CASE UNCHANGED vars
  BY <1>2 DEF vars, TypeInv, TypeOK, LifecycleTypeOK
<1> QED
  BY <1>1, <1>2, TypeUsers, TypeTunnels, TypeEnvironment DEF Next

\* Every variable keeps its type: whatever users, the platform and the network
\* do, a reconcile works on well-formed objects, asks only for addresses it has
\* resolved (ClusterName and servicePort give a port a Service publishes), and
\* stores routes the platform can hold.
THEOREM TypeCorrect == Spec => []TypeOK
<1>1. TypeInv => TypeOK
  BY DEF TypeInv
<1> QED
  BY <1>1, TypeInit, TypeStep, PTL DEF Spec

-----------------------------------------------------------------------------
(* What the caches and the reconcile know of an object *)

\* The parts of a TunnelRoute that only the API server's other clients and the
\* finalizer writes change.
SameMetadata(o, p) == o.uid = p.uid /\ o.rv = p.rv /\ o.fin = p.fin /\ o.deleting = p.deleting

\* o is an earlier version of the object of n, or of one that has gone: nothing
\* it shows of the finalizer and the deletion has been taken back since.
Knows(o, n) ==
    /\ o.uid <= made
    /\ \A m \in Names : o.uid # None /\ route[m].uid = o.uid => m = n
    /\ o.uid # None /\ o.uid = route[n].uid =>
          /\ o.rv <= route[n].rv
          /\ o.fin => route[n].fin
          /\ o.deleting => route[n].deleting

\* The object itself: what has gone is NoRoute, and only the finalizer keeps
\* what is being deleted.
Sound(o) == (o.uid = None => o = NoRoute) /\ (o.deleting => o.fin)

Versions ==
    \A n \in Names :
        /\ Sound(route[n]) /\ Sound(rcache[n])
        /\ Knows(route[n], n) /\ Knows(rcache[n], n)
        /\ rcache[n].uid = route[n].uid /\ rcache[n].rv = route[n].rv => rcache[n] = route[n]

Working ==
    /\ Knows(rt, cur)
    /\ pc # "idle" => rt.uid # None
    /\ pc \in {"resolve"} \cup Ensuring => (route[cur].uid = rt.uid => route[cur].fin)

Guarded ==
    \A x \in routes \cup inflight :
        /\ x.owner \in 1 .. made
        /\ \A n \in Names : route[n].uid = x.owner => route[n].fin

\* The invariant of FinalizerGuardsRoute.
GuardInv == TypeInv /\ Versions /\ Working /\ Guarded

\* p is a later version of o.
Advances(o, p) ==
    /\ p.uid = o.uid /\ o.rv <= p.rv /\ (p.rv = o.rv => p = o)
    /\ (o.fin => p.fin) /\ (o.deleting => p.deleting) /\ Sound(p)

\* What can happen to the objects in one step: one of them gets a later version,
\* goes, or is created.
RouteStep ==
    \E n \in Names : \E p \in TunnelRoute :
        /\ route' = [route EXCEPT ![n] = p]
        /\ \/ Advances(route[n], p) /\ made' = made
           \/ p = NoRoute /\ made' = made
           \/ route[n].uid = None /\ p.uid = made + 1 /\ made' = made + 1 /\ Sound(p)

LEMMA NoRouteFields ==
    /\ NoRoute.uid = None /\ NoRoute.rv = 0 /\ NoRoute.fin = FALSE /\ NoRoute.deleting = FALSE
    /\ NoRoute.rid = None /\ NoRoute.tid = None /\ NoRoute.synced = FALSE
BY DEF NoRoute

LEMMA KnowsNoRoute == ASSUME TypeOK, NEW n \in Names PROVE Knows(NoRoute, n)
BY NoRouteFields DEF Knows, TypeOK, TunnelRoute

\* What is known of an object stays true of it.
LEMMA KnowsStep ==
    ASSUME TypeOK, NEW o \in TunnelRoute, NEW n \in Names, Knows(o, n), RouteStep
    PROVE  Knows(o, n)'
<1>1. PICK k \in Names, p \in TunnelRoute :
        /\ route' = [route EXCEPT ![k] = p]
        /\ \/ Advances(route[k], p) /\ made' = made
           \/ p = NoRoute /\ made' = made
           \/ route[k].uid = None /\ p.uid = made + 1 /\ made' = made + 1 /\ Sound(p)
  BY DEF RouteStep
<1>2. made \in Nat /\ o.uid \in Nat /\ o.rv \in Nat
  BY DEF TypeOK, TunnelRoute
<1>3. route'[k] = p /\ \A m \in Names \ {k} : route'[m] = route[m]
  BY <1>1 DEF TypeOK
<1>4. \A m \in Names : route[m].rv \in Nat /\ route[m].uid \in Nat /\ p.rv \in Nat
  BY DEF TypeOK, TunnelRoute
<1>5. CASE Advances(route[k], p) /\ made' = made
  BY <1>2, <1>3, <1>4, <1>5 DEF Knows, Advances
<1>6. CASE p = NoRoute /\ made' = made
  BY <1>2, <1>3, <1>4, <1>6, NoRouteFields DEF Knows
<1>7. CASE route[k].uid = None /\ p.uid = made + 1 /\ made' = made + 1
  BY <1>2, <1>3, <1>4, <1>7 DEF Knows
<1> QED
  BY <1>1, <1>5, <1>6, <1>7

\* A step of the objects: the caches lag behind.
LEMMA GuardRouteStep ==
    ASSUME GuardInv, TypeInv', RouteStep, UNCHANGED <<rcache, routes, inflight>>
    PROVE  /\ Versions' /\ Guarded'
           /\ UNCHANGED <<pc, cur, rt>> => Working'
<1> USE DEF GuardInv, TypeInv
<1>1. PICK k \in Names, p \in TunnelRoute :
        /\ route' = [route EXCEPT ![k] = p]
        /\ \/ Advances(route[k], p) /\ made' = made
           \/ p = NoRoute /\ made' = made
           \/ route[k].uid = None /\ p.uid = made + 1 /\ made' = made + 1 /\ Sound(p)
  BY DEF RouteStep
<1>2. /\ made \in Nat
      /\ \A m \in Names : /\ route[m] \in TunnelRoute /\ rcache[m] \in TunnelRoute
                          /\ route[m].uid \in Nat /\ route[m].rv \in Nat
                          /\ rcache[m].uid \in Nat /\ rcache[m].rv \in Nat
      /\ p.uid \in Nat /\ p.rv \in Nat /\ rt \in TunnelRoute /\ cur \in Names
  BY DEF TypeOK, TunnelRoute
<1>3. route'[k] = p /\ \A m \in Names \ {k} : route'[m] = route[m]
  BY <1>1 DEF TypeOK
<1>4. ASSUME NEW n \in Names
      PROVE  /\ Sound(route'[n]) /\ Sound(rcache[n])
             /\ Knows(route[n], n)'
             /\ Knows(rcache[n], n)'
             /\ rcache[n].uid = route'[n].uid /\ rcache[n].rv = route'[n].rv
                   => rcache[n] = route'[n]
  <2>1. Sound(NoRoute)
    BY NoRouteFields DEF Sound
  <2>2. Sound(route'[n]) /\ Sound(rcache[n])
    BY <1>1, <1>3, <2>1 DEF Versions, Advances
  <2>3. Knows(rcache[n], n)'
    BY <1>2, KnowsStep DEF Versions
  <2>4. Knows(route[n], n)'
    BY <1>1, <1>2, <1>3, NoRouteFields DEF Versions, Knows, Advances
  <2>5. rcache[n].uid = route'[n].uid /\ rcache[n].rv = route'[n].rv => rcache[n] = route'[n]
    <3>1. CASE n # k
      BY <1>3, <3>1 DEF Versions
    <3>2. CASE n = k /\ Advances(route[k], p)
      <4>1. ASSUME rcache[k].uid = p.uid, rcache[k].rv = p.rv, p.uid # None
            PROVE  rcache[k] = p
        BY <1>2, <3>2, <4>1 DEF Versions, Knows, Advances
      <4> QED
        BY <1>3, <3>2, <4>1 DEF Versions, Sound, Advances
    <3>3. CASE n = k /\ p = NoRoute
      BY <1>3, <3>3, NoRouteFields DEF Versions, Sound
    <3>4. CASE n = k /\ p.uid = made + 1
      BY <1>2, <1>3, <3>4 DEF Versions, Knows
    <3> QED
      BY <1>1, <3>1, <3>2, <3>3, <3>4
  <2> QED
    BY <2>2, <2>3, <2>4, <2>5
<1>5. Versions'
  BY <1>4 DEF Versions
<1>6. ASSUME UNCHANGED <<pc, cur, rt>> PROVE Working'
  <2>1. Knows(rt, cur)'
    BY <1>2, <1>6, KnowsStep DEF Working
  <2>2. ASSUME pc \in {"resolve"} \cup Ensuring, route'[cur].uid = rt.uid PROVE route'[cur].fin
    <3>1. rt.uid # None /\ rt.uid <= made /\ (route[cur].uid = rt.uid => route[cur].fin)
      BY <2>2 DEF Working, Knows, Ensuring
    <3> QED
      BY <1>1, <1>2, <1>3, <2>2, <3>1, NoRouteFields DEF Advances, TunnelRoute
  <2> QED
    BY <1>6, <2>1, <2>2 DEF Working
<1>7. Guarded'
  <2>1. ASSUME NEW x \in routes \cup inflight, NEW n \in Names, route'[n].uid = x.owner
        PROVE  route'[n].fin
    BY <1>1, <1>2, <1>3, <2>1, NoRouteFields DEF Guarded, Advances
  <2>2. made' \in Nat /\ made <= made'
    BY <1>1, <1>2
  <2> QED
    BY <1>2, <2>1, <2>2 DEF Guarded
<1> QED
  BY <1>5, <1>6, <1>7

\* The reconcile has returned, or a new process has started.
Idle == pc' = "idle" /\ rt' = NoRoute /\ cur' = AnyName

LEMMA WorkingIdle == ASSUME TypeOK', Idle PROVE Working'
<1>1. rt'.uid = None /\ rt'.uid <= made'
  BY NoRouteFields DEF Idle, TypeOK
<1> QED
  BY <1>1 DEF Idle, Working, Knows, Ensuring

\* The reconcile goes on with the object it read.
Goes ==
    /\ pc # "idle" /\ cur' = cur /\ SameMetadata(rt', rt)
    /\ pc' \in {"resolve"} \cup Ensuring => pc \in {"resolve"} \cup Ensuring

\* Where the routes of a step come from: those there were, and the one created.
RowsStep ==
    \A x \in routes' \cup inflight' :
        \/ \E y \in routes \cup inflight : y.owner = x.owner
        \/ pc \in Ensuring /\ x.owner = rt.uid

\* A call of the platform leaves the objects and the cache alone.
LEMMA GuardCall ==
    ASSUME GuardInv, TypeInv', UNCHANGED <<route, made, rcache>>, Idle \/ Goes, RowsStep
    PROVE  GuardInv'
<1> USE DEF GuardInv, TypeInv
<1>1. Versions'
  BY DEF Versions, Knows
<1>2. Working'
  <2>1. CASE Idle
    BY <2>1, WorkingIdle
  <2>2. CASE Goes
    BY <2>2 DEF Goes, SameMetadata, Working, Knows
  <2> QED
    BY <2>1, <2>2
<1>3. Guarded'
  <2>1. ASSUME NEW x \in routes' \cup inflight'
        PROVE  x.owner \in 1 .. made /\ \A n \in Names : route[n].uid = x.owner => route[n].fin
    <3>1. CASE \E y \in routes \cup inflight : y.owner = x.owner
      BY <3>1 DEF Guarded
    <3>2. CASE pc \in Ensuring /\ x.owner = rt.uid
      <4>1. rt.uid # None /\ rt.uid <= made /\ rt.uid \in Nat /\ made \in Nat
        BY <3>2 DEF Working, Knows, Ensuring, TypeOK, TunnelRoute
      <4>2. \A n \in Names : route[n].uid = rt.uid => n = cur /\ route[cur].fin
        BY <3>2, <4>1 DEF Working, Knows
      <4> QED
        BY <3>2, <4>1, <4>2
    <3> QED
      BY <2>1, <3>1, <3>2 DEF RowsStep
  <2> QED
    BY <2>1 DEF Guarded
<1> QED
  BY <1>1, <1>2, <1>3

LEMMA GuardInit == Init => GuardInv
<1> SUFFICES ASSUME Init PROVE GuardInv OBVIOUS
<1>1. TypeInv
  BY TypeInit
<1>2. \A n \in Names : route[n] = NoRoute /\ rcache[n] = NoRoute
  BY DEF Init
<1>3. \A n \in Names : Knows(NoRoute, n)
  BY <1>1, KnowsNoRoute DEF TypeInv
<1>4. Sound(NoRoute)
  BY NoRouteFields DEF Sound
<1>5. Versions
  BY <1>2, <1>3, <1>4 DEF Versions
<1>6. Working
  BY <1>3, AnyNameType DEF Working, Init, Ensuring
<1>7. Guarded
  BY DEF Guarded, Init
<1> QED
  BY <1>1, <1>5, <1>6, <1>7 DEF GuardInv

LEMMA GuardReconcile == GuardInv /\ Reconcile => GuardInv'
<1> SUFFICES ASSUME GuardInv, Reconcile PROVE GuardInv' OBVIOUS
<1>1. TypeInv'
  BY TypeReconcile DEF GuardInv
<1>2. Versions' /\ Guarded'
  BY DEF GuardInv, Versions, Knows, Guarded, Reconcile, platform, fixed
<1>3. Working'
  <2>1. CASE pc' = "idle"
    <3>1. Idle
      BY <2>1 DEF Reconcile, Return, Idle
    <3> QED
      BY <1>1, <3>1, WorkingIdle DEF TypeInv
  <2>2. CASE pc' # "idle"
    <3>1. PICK n \in Names :
            LET o  == rcache[n]
                to == Dispatch(o, tseen[o.spec.tunnelRef])
            IN  /\ cur' = n /\ pc' = to
                /\ rt' = IF to = "finish" THEN SetReady(SetSynced(o, FALSE)) ELSE o
      BY <2>2 DEF Reconcile, Return
    <3>2. rcache[n] \in TunnelRoute
      BY DEF GuardInv, TypeInv, TypeOK
    <3>3. SameMetadata(rt', rcache[n])
      BY <3>1, <3>2 DEF SameMetadata, SetReady, SetSynced, TunnelRoute
    <3>4. rcache[n].uid # None /\ (pc' \in {"resolve"} \cup Ensuring => rcache[n].fin)
      BY <2>2, <3>1 DEF Dispatch, DispatchDelete, Ensuring
    <3>5. Knows(rcache[n], n) /\ UNCHANGED <<route, made>>
      BY DEF GuardInv, Versions, Reconcile, fixed
    <3> QED
      BY <3>1, <3>3, <3>4, <3>5 DEF Working, Knows, SameMetadata
  <2> QED
    BY <2>1, <2>2
<1> QED
  BY <1>1, <1>2, <1>3 DEF GuardInv

\* A write with the right version makes a later one.
LEMMA WrittenAdvances ==
    ASSUME NEW o \in TunnelRoute, NEW new \in TunnelRoute, Sound(o), o.uid # None,
           new.uid = o.uid, o.fin => new.fin, new.deleting = o.deleting
    PROVE  Advances(o, Written(o, new)) /\ Written(o, new).fin = new.fin
<1>1. CASE new = o
  BY <1>1 DEF Advances, Written, TunnelRoute
<1>2. CASE new # o
  <2>1. /\ Written(o, new).uid = o.uid /\ Written(o, new).rv = o.rv + 1
        /\ Written(o, new).fin = new.fin /\ Written(o, new).deleting = o.deleting
    BY <1>2 DEF Written, TunnelRoute
  <2>2. o.rv \in Nat
    BY DEF TunnelRoute
  <2> QED
    BY <2>1, <2>2 DEF Advances, Sound
<1> QED
  BY <1>1, <1>2

LEMMA StatusStep ==
    ASSUME GuardInv, pc # "idle", NEW new \in TunnelRoute, UpdateStatus(new), made' = made
    PROVE  RouteStep
<1>1. route[cur] \in TunnelRoute /\ cur \in Names /\ Sound(route[cur]) /\ route[cur].uid # None
  BY DEF GuardInv, TypeInv, TypeOK, Versions, Working, UpdateStatus, Current
<1>2. /\ WithStatus(route[cur], new) \in TunnelRoute
      /\ WithStatus(route[cur], new).uid = route[cur].uid
      /\ WithStatus(route[cur], new).fin = route[cur].fin
      /\ WithStatus(route[cur], new).deleting = route[cur].deleting
  BY <1>1, WithStatusType DEF WithStatus, TunnelRoute
<1>3. /\ Advances(route[cur], Written(route[cur], WithStatus(route[cur], new)))
      /\ Written(route[cur], WithStatus(route[cur], new)) \in TunnelRoute
  BY <1>1, <1>2, WrittenAdvances, WrittenType
<1> QED
  BY <1>1, <1>3 DEF RouteStep, UpdateStatus

LEMMA GuardAddFinalizer == GuardInv /\ AddFinalizer => GuardInv'
<1> SUFFICES ASSUME GuardInv, AddFinalizer PROVE GuardInv' OBVIOUS
<1>1. TypeInv' /\ UNCHANGED <<rcache, made, routes, inflight>> /\ pc # "idle" /\ TypeOK'
  BY TypeAddFinalizer DEF GuardInv, TypeInv, AddFinalizer, platform, fixed
<1>2. CASE UNCHANGED route
  <2>1. Idle \/ (rt' = route[cur] /\ pc' = "resolve" /\ cur' = cur /\ Current /\ route[cur].fin)
    BY <1>2 DEF AddFinalizer, Return, Idle, Written, TunnelRoute, GuardInv, TypeInv, TypeOK
  <2>2. CASE Idle
    BY <1>1, <1>2, <2>2, GuardCall DEF RowsStep
  <2>3. CASE rt' = route[cur] /\ pc' = "resolve" /\ cur' = cur /\ Current /\ route[cur].fin
    <3>1. Versions' /\ Guarded'
      BY <1>1, <1>2 DEF GuardInv, Versions, Knows, Guarded
    <3>2. Working'
      BY <1>1, <1>2, <2>3 DEF GuardInv, TypeInv, TypeOK, Versions, Working, Knows, Current
    <3> QED
      BY <1>1, <3>1, <3>2 DEF GuardInv
  <2> QED
    BY <2>1, <2>2, <2>3
<1>3. CASE ~UNCHANGED route
  <2> DEFINE new == [route[cur] EXCEPT !.fin = TRUE]
             p   == Written(route[cur], new)
  <2>1. Current /\ route' = [route EXCEPT ![cur] = p]
    BY <1>3 DEF AddFinalizer
  <2>2. /\ route[cur] \in TunnelRoute /\ cur \in Names /\ Sound(route[cur])
        /\ route[cur].uid = rt.uid /\ rt.uid # None
    BY <1>1, <2>1 DEF GuardInv, TypeInv, TypeOK, Versions, Working, Current
  <2>3. /\ new \in TunnelRoute /\ new.uid = route[cur].uid /\ new.fin = TRUE
        /\ new.deleting = route[cur].deleting
    BY <2>2 DEF TunnelRoute
  <2> HIDE DEF new
  <2>4. p \in TunnelRoute /\ Advances(route[cur], p) /\ p.fin
    BY <2>2, <2>3, WrittenType, WrittenAdvances
  <2> HIDE DEF p
  <2>5. RouteStep
    BY <1>1, <2>1, <2>2, <2>4 DEF RouteStep
  <2>6. Versions' /\ Guarded'
    BY <1>1, <2>5, GuardRouteStep
  <2>7. route'[cur] = p
    BY <2>1, <2>2 DEF GuardInv, TypeInv, TypeOK
  <2>8. Idle \/ (rt' = route'[cur] /\ pc' = "resolve" /\ cur' = cur)
    BY <1>3 DEF AddFinalizer, Return, Idle
  <2>9. Working'
    <3>1. CASE Idle
      BY <1>1, <3>1, WorkingIdle
    <3>2. CASE rt' = route'[cur] /\ pc' = "resolve" /\ cur' = cur
      <4>1. p.uid = rt.uid
        BY <2>2, <2>4 DEF Advances
      <4>2. Knows(route[cur], cur)'
        BY <2>2, <2>6, <3>2 DEF Versions
      <4> QED
        BY <2>2, <2>4, <2>7, <3>2, <4>1, <4>2 DEF Working
    <3> QED
      BY <2>8, <3>1, <3>2
  <2> QED
    BY <1>1, <2>6, <2>9 DEF GuardInv
<1> QED
  BY <1>2, <1>3

LEMMA GuardFinish == GuardInv /\ Finish => GuardInv'
<1> SUFFICES ASSUME GuardInv, Finish PROVE GuardInv' OBVIOUS
<1>1. /\ TypeInv' /\ TypeOK' /\ UNCHANGED <<rcache, made, routes, inflight>> /\ pc # "idle" /\ Idle
  BY TypeFinish DEF GuardInv, TypeInv, Finish, Return, Idle, platform, fixed
<1>2. [rt EXCEPT !.obs = rt.gen] \in TunnelRoute
  BY StatusType DEF GuardInv, TypeInv, TypeOK
<1>3. UpdateStatus([rt EXCEPT !.obs = rt.gen]) \/ UNCHANGED route
  BY DEF Finish
<1>4. CASE UNCHANGED route
  BY <1>1, <1>4, GuardCall DEF RowsStep
<1>5. CASE UpdateStatus([rt EXCEPT !.obs = rt.gen])
  BY <1>1, <1>2, <1>5, StatusStep, GuardRouteStep, WorkingIdle DEF GuardInv
<1> QED
  BY <1>3, <1>4, <1>5

LEMMA GuardRemoveFinalizer == GuardInv /\ RemoveFinalizer => GuardInv'
<1> SUFFICES ASSUME GuardInv, RemoveFinalizer PROVE GuardInv' OBVIOUS
<1>1. /\ TypeInv' /\ TypeOK' /\ UNCHANGED <<rcache, made, routes, inflight>> /\ pc # "idle" /\ Idle
  BY TypeDeletePath DEF GuardInv, TypeInv, RemoveFinalizer, Return, Idle, platform, fixed
<1>2. CASE UNCHANGED route
  BY <1>1, <1>2, GuardCall DEF RowsStep
<1>3. CASE route' = [route EXCEPT ![cur] = NoRoute]
  <2>1. RouteStep
    BY <1>1, <1>3, NoRouteType DEF RouteStep, GuardInv, TypeInv, TypeOK
  <2> QED
    BY <1>1, <2>1, GuardRouteStep, WorkingIdle DEF GuardInv
<1> QED
  BY <1>2, <1>3 DEF RemoveFinalizer

LEMMA NotSyncedCopy ==
    ASSUME NEW o \in TunnelRoute, NEW err, NotSynced(o, err)
    PROVE  SameMetadata(rt', o) /\ pc' = "finish"
BY DEF NotSynced, SetReady, SetSynced, SameMetadata, TunnelRoute

LEMMA FailedCopy ==
    ASSUME TypeOK, Failed
    PROVE  SameMetadata(rt', rt) /\ pc' = "finish" /\ cur' = cur
<1>1. \E permanent : NotSynced(rt, ~permanent)
  BY DEF Failed, Refused, AnswerLost, Missing, Fail
<1> QED
  BY <1>1, NotSyncedCopy DEF Failed, Refused, AnswerLost, Missing, TypeOK

LEMMA CompareCopy ==
    ASSUME TypeOK, NEW row, Compare(row) \/ Published(row.id) \/ Published(loc.id)
    PROVE  SameMetadata(rt', rt) /\ pc' \in {"finish", "updateRoute"}
BY DEF Compare, Published, SetReady, SetSynced, SameMetadata, TypeOK, TunnelRoute

\* The calls of ensureRoute and of the deletion: the objects stay as they are,
\* the reconcile goes on with the object it read, and routes appear only in
\* ensureRoute, for that object.
LEMMA CallStep ==
    ASSUME GuardInv,
           \/ Resolve \/ CallListRoutes \/ CallReplaceRoute \/ CallCreateRoute \/ CallUpdateRoute
           \/ DeleteClientFor \/ CallFindRoute \/ CallDeleteRoute
    PROVE  UNCHANGED <<route, made, rcache>> /\ (Idle \/ Goes) /\ RowsStep
<1> USE DEF GuardInv, TypeInv
<1>0. SameMetadata(rt, rt) /\ rt \in TunnelRoute
  BY DEF SameMetadata, TypeOK
<1>1. CASE Resolve
  <2>1. SameMetadata(SetResolved(rt, TRUE), rt) /\ SameMetadata(SetResolved(rt, FALSE), rt)
    BY DEF SetResolved, SameMetadata, TypeOK, TunnelRoute
  <2>2. \/ \E o \in TunnelRoute : NotSynced(o, FALSE) /\ SameMetadata(o, rt)
        \/ rt' = SetResolved(rt, TRUE) /\ pc' = "listRoutes"
    BY <1>0, <1>1, <2>1, StatusType DEF Resolve
  <2>3. SameMetadata(rt', rt) /\ pc' \in {"finish", "listRoutes"}
    BY <2>1, <2>2, NotSyncedCopy DEF SameMetadata
  <2> QED
    BY <1>1, <2>3 DEF Resolve, Goes, RowsStep, Ensuring, platform, fixed
<1>2. CASE CallListRoutes
  <2>1. SameMetadata(rt', rt) /\ cur' = cur
    BY <1>0, <1>2, FailedCopy, CompareCopy DEF CallListRoutes, Failed
  <2> QED
    BY <1>2, <2>1 DEF CallListRoutes, Goes, RowsStep, Ensuring, platform, fixed
<1>3. CASE CallReplaceRoute
  <2>1. SameMetadata(rt', rt) /\ cur' = cur
    BY <1>0, <1>3, FailedCopy DEF CallReplaceRoute, Failed
  <2> QED
    BY <1>3, <2>1 DEF CallReplaceRoute, DeleteRoute, Goes, RowsStep, Ensuring, fixed
<1>4. CASE CallCreateRoute
  <2>1. Failed \/ (Compare(Asked) /\ UNCHANGED cur)
    BY <1>4 DEF CallCreateRoute, AfterCreate, Asked, Failed
  <2>2. SameMetadata(rt', rt) /\ cur' = cur
    BY <1>0, <2>1, FailedCopy, CompareCopy
  <2>3. /\ routes' \in {routes, routes \cup {Asked}}
        /\ inflight' \in {inflight, inflight \cup {Asked}}
    BY <1>4 DEF CallCreateRoute, Asked, platform
  <2>4. Asked.owner = rt.uid
    BY DEF Asked, NewRoute
  <2> QED
    BY <1>4, <2>2, <2>3, <2>4 DEF CallCreateRoute, Goes, RowsStep, Ensuring, fixed
<1>5. CASE CallUpdateRoute
  <2>1. SameMetadata(rt', rt) /\ cur' = cur
    BY <1>0, <1>5, FailedCopy, CompareCopy DEF CallUpdateRoute, Failed
  <2>2. ASSUME NEW r \in routes, NEW in PROVE Updated(r, loc.drift, in).owner = r.owner
    BY DEF Updated, TypeOK, RouteRow
  <2>3. \A x \in routes' : \E y \in routes : y.owner = x.owner
    BY <1>5, <2>2 DEF CallUpdateRoute
  <2> QED
    BY <1>5, <2>1, <2>3 DEF CallUpdateRoute, Goes, RowsStep, Ensuring, fixed
<1>6. CASE DeleteClientFor \/ CallFindRoute \/ CallDeleteRoute
  BY <1>0, <1>6 DEF DeleteClientFor, AfterDeleteClient, CallFindRoute, CallDeleteRoute, DeleteRoute,
     Return, Idle, Goes, RowsStep, Ensuring, platform, fixed
<1> QED
  BY <1>1, <1>2, <1>3, <1>4, <1>5, <1>6

LEMMA GuardUsers ==
    ASSUME GuardInv, NEW n \in Names, UserCreate(n) \/ UserDelete(n) \/ UserEdit(n) \/ Deliver(n)
    PROVE  GuardInv'
<1>1. TypeInv'
  BY TypeUsers DEF GuardInv
<1>2. /\ route[n] \in TunnelRoute /\ Sound(route[n]) /\ route[n].rv \in Nat /\ route'[n] \in TunnelRoute
      /\ made \in Nat
  BY <1>1 DEF GuardInv, TypeInv, TypeOK, Versions, TunnelRoute
<1>3. ASSUME UserCreate(n) \/ UserDelete(n) \/ UserEdit(n)
      PROVE  RouteStep /\ UNCHANGED <<rcache, routes, inflight, pc, cur, rt>>
  <2>1. CASE UserCreate(n)
    <3>1. PICK s \in SpecsOf[n] :
            route' = [route EXCEPT ![n] = [NoRoute EXCEPT !.uid = made + 1, !.rv = 1,
                                                          !.gen = 1, !.spec = s]]
      BY <2>1 DEF UserCreate
    <3> DEFINE p == [NoRoute EXCEPT !.uid = made + 1, !.rv = 1, !.gen = 1, !.spec = s]
    <3>2. p.uid = made + 1 /\ Sound(p)
      BY <1>2, NoRouteType, NoRouteFields DEF Sound, TunnelRoute
    <3>3. p \in TunnelRoute
      BY <1>2, <3>1 DEF GuardInv, TypeInv, TypeOK
    <3> HIDE DEF p
    <3>4. route' = [route EXCEPT ![n] = p]
      BY <3>1 DEF p
    <3> QED
      BY <2>1, <3>2, <3>3, <3>4 DEF UserCreate, Exists, RouteStep, views, worker
  <2>2. CASE UserDelete(n)
    <3>1. CASE route[n].fin
      <4> DEFINE p == [route[n] EXCEPT !.deleting = TRUE, !.rv = @ + 1]
      <4>1. Advances(route[n], p)
        <5>1. /\ p.uid = route[n].uid /\ p.rv = route[n].rv + 1
              /\ p.fin = route[n].fin /\ p.deleting = TRUE
          BY <1>2 DEF TunnelRoute
        <5> HIDE DEF p
        <5>2. route[n].rv <= p.rv /\ p.rv # route[n].rv
          BY <1>2, <5>1
        <5> QED
          BY <2>2, <3>1, <5>1, <5>2, Zenon DEF Advances, Sound, UserDelete, Exists
      <4>2. route' = [route EXCEPT ![n] = p]
        BY <2>2, <3>1 DEF UserDelete
      <4> HIDE DEF p
      <4>3. p \in TunnelRoute
        BY <1>2, <4>2 DEF GuardInv, TypeInv, TypeOK
      <4> QED
        BY <2>2, <4>1, <4>2, <4>3 DEF UserDelete, RouteStep, views, worker
    <3>2. CASE ~route[n].fin
      BY <2>2, <3>2, NoRouteType DEF UserDelete, RouteStep, views, worker
    <3> QED
      BY <3>1, <3>2
  <2>3. CASE UserEdit(n)
    <3>1. PICK s \in SpecsOf[n] :
            route' = [route EXCEPT ![n] = [route[n] EXCEPT !.spec = s, !.gen = @ + 1, !.rv = @ + 1]]
      BY <2>3 DEF UserEdit
    <3> DEFINE p == [route[n] EXCEPT !.spec = s, !.gen = @ + 1, !.rv = @ + 1]
    <3>2. /\ p.uid = route[n].uid /\ p.rv = route[n].rv + 1
          /\ p.fin = route[n].fin /\ p.deleting = route[n].deleting
      BY <1>2 DEF TunnelRoute
    <3>3. p \in TunnelRoute
      BY <1>2, <3>1 DEF GuardInv, TypeInv, TypeOK
    <3> HIDE DEF p
    <3>4. route' = [route EXCEPT ![n] = p]
      BY <3>1 DEF p
    <3>5. Advances(route[n], p)
      <4>1. route[n].rv <= p.rv /\ p.rv # route[n].rv
        BY <1>2, <3>2
      <4> QED
        BY <1>2, <2>3, <3>2, <4>1, Zenon DEF Advances, Sound, UserEdit, Exists
    <3> QED
      BY <2>3, <3>3, <3>4, <3>5 DEF UserEdit, RouteStep, views, worker
  <2> QED
    BY <1>3, <2>1, <2>2, <2>3
<1>4. CASE UserCreate(n) \/ UserDelete(n) \/ UserEdit(n)
  BY <1>1, <1>3, <1>4, GuardRouteStep DEF GuardInv
<1>5. CASE Deliver(n)
  <2>1. \A m \in Names : rcache'[m] = route[m] \/ rcache'[m] = rcache[m]
    BY <1>5 DEF Deliver, GuardInv, TypeInv, TypeOK
  <2>2. Versions'
    BY <1>5, <2>1 DEF Deliver, api, GuardInv, Versions, Knows
  <2> QED
    BY <1>1, <1>5, <2>2 DEF Deliver, api, worker, GuardInv, Working, Knows, Guarded
<1> QED
  BY <1>4, <1>5

LEMMA GuardEnvironment ==
    ASSUME GuardInv,
           \/ \E r \in Refs : TunnelUser(r) \/ TunnelReconciler(r) \/ DeliverTunnel(r)
           \/ \E s \in Services : ServiceChanges(s)
           \/ UserTogglesCredential \/ PanelDeletesTunnel \/ PanelDeletesRoute
           \/ LateCreate \/ Restart
    PROVE  GuardInv'
<1>1. TypeInv'
  BY TypeTunnels, TypeEnvironment DEF GuardInv
<1>2. UNCHANGED <<route, made>> /\ routes' \cup inflight' \subseteq routes \cup inflight
  BY DEF TunnelUser, TunnelReconciler, DeliverTunnel, ServiceChanges, UserTogglesCredential,
         PanelDeletesTunnel, PanelDeletesRoute, LateCreate, Restart, api
<1>3. Guarded'
  BY <1>2 DEF GuardInv, Guarded
<1>4. UNCHANGED <<rcache, pc, cur, rt>> \/ (rcache' = route /\ Idle)
  BY DEF TunnelUser, TunnelReconciler, DeliverTunnel, ServiceChanges, UserTogglesCredential,
         PanelDeletesTunnel, PanelDeletesRoute, LateCreate, Restart, views, worker, Idle
<1>5. Versions'
  BY <1>2, <1>4 DEF GuardInv, Versions, Knows
<1>6. Working'
  BY <1>1, <1>2, <1>4, WorkingIdle DEF GuardInv, TypeInv, Working, Knows
<1> QED
  BY <1>1, <1>3, <1>5, <1>6 DEF GuardInv

LEMMA GuardStep == GuardInv /\ [Next]_vars => GuardInv'
<1> SUFFICES ASSUME GuardInv, [Next]_vars PROVE GuardInv' OBVIOUS
<1>1. CASE \/ Resolve \/ CallListRoutes \/ CallReplaceRoute \/ CallCreateRoute \/ CallUpdateRoute
           \/ DeleteClientFor \/ CallFindRoute \/ CallDeleteRoute
  <2>1. TypeInv'
    BY TypeStep DEF GuardInv
  <2> QED
    BY <1>1, <2>1, CallStep, GuardCall
<1>2. CASE UNCHANGED vars
  BY <1>2 DEF vars, GuardInv, TypeInv, TypeOK, LifecycleTypeOK, Versions, Working, Knows, Guarded
<1> QED
  BY <1>1, <1>2, GuardReconcile, GuardAddFinalizer, GuardFinish, GuardRemoveFinalizer, GuardUsers,
     GuardEnvironment DEF Next, Worker

LEMMA GuardInvariant == Spec => []GuardInv
BY GuardInit, GuardStep, PTL DEF Spec

\* The finalizer is in the API server before a route is created, for every
\* number of TunnelRoutes, specs, Services and disturbances: a reconcile that
\* trusted a stale cache, a lost answer, a restart or an edit would break it.
THEOREM FinalizerGuards == Spec => []FinalizerGuardsRoute
<1>1. GuardInv => FinalizerGuardsRoute
  BY DEF GuardInv, Guarded, FinalizerGuardsRoute
<1> QED
  BY <1>1, GuardInvariant, PTL

-----------------------------------------------------------------------------
(* No object is forgotten *)

Pending(n) == \E q \in {"now", "later"} : <<n, q>> \in queue

\* NeverForgotten, and the reconcile that is about to put the request back.
Remembered ==
    \A n \in Names : Exists(n) /\ rcache[n] = route[n] => Pending(n) \/ (pc # "idle" /\ cur = n)

\* The work of a step on one object is done, or comes back.
Kept ==
    /\ queue \subseteq queue'
    /\ \A n \in Names : pc # "idle" /\ cur = n /\ Exists(n)'
          => (pc' # "idle" /\ cur' = n) \/ <<n, "later">> \in queue'
    /\ \A n \in Names : (pc # "idle" /\ cur = n) \/ UNCHANGED <<route[n], rcache[n]>>

LEMMA RememberKept == ASSUME Remembered, Kept PROVE Remembered'
BY DEF Remembered, Kept, Pending, Exists

LEMMA LaterKept == <<cur, "later">> \in Later /\ queue \subseteq Later
BY DEF Later

\* Every step of a reconcile but the first keeps the request of its object.
LEMMA WorkerKept ==
    ASSUME GuardInv, Worker, ~Reconcile
    PROVE  Kept
<1>1. rcache' = rcache /\ pc # "idle"
  BY DEF Worker, AddFinalizer, Resolve, CallListRoutes, CallReplaceRoute, CallCreateRoute,
         CallUpdateRoute, Finish, DeleteClientFor, CallFindRoute, CallDeleteRoute, RemoveFinalizer, fixed
<1>2. \A n \in Names \ {cur} : route'[n] = route[n]
  BY DEF Worker, AddFinalizer, Resolve, CallListRoutes, CallReplaceRoute, CallCreateRoute,
         CallUpdateRoute, Finish, UpdateStatus, DeleteClientFor, CallFindRoute, CallDeleteRoute,
         RemoveFinalizer, GuardInv, TypeInv, TypeOK
<1>3. \/ pc' # "idle" /\ cur' = cur /\ queue' = queue
      \/ queue' = Later
      \/ queue' = queue /\ route'[cur].uid = None
  <2>1. CASE AddFinalizer
    BY <2>1 DEF AddFinalizer, Return
  <2>2. CASE Resolve
    BY <2>2 DEF Resolve, NotSynced
  <2>3. CASE CallListRoutes \/ CallReplaceRoute \/ CallCreateRoute \/ CallUpdateRoute
    <3>1. UNCHANGED <<cur, queue>>
      BY <2>3 DEF CallListRoutes, CallReplaceRoute, CallCreateRoute, CallUpdateRoute,
                  Refused, AnswerLost, Missing
    <3>2. Idle \/ Goes
      BY <2>3, CallStep
    <3>3. pc' # "idle"
      <4>1. CASE Failed
        BY <4>1, FailedCopy DEF GuardInv, TypeInv
      <4>2. CASE ~Failed
        BY <2>3, <4>2 DEF Failed, CallListRoutes, CallReplaceRoute, CallCreateRoute,
                  CallUpdateRoute, AfterCreate, Compare, Published
      <4> QED
        BY <4>1, <4>2
    <3> QED
      BY <3>1, <3>3
  <2>4. CASE Finish
    BY <2>4 DEF Finish, Return, Exists
  <2>5. CASE DeleteClientFor \/ CallFindRoute \/ CallDeleteRoute
    BY <2>5 DEF DeleteClientFor, AfterDeleteClient, CallFindRoute, CallDeleteRoute, Return
  <2>6. CASE RemoveFinalizer
    BY <2>6, NoRouteFields DEF RemoveFinalizer, Return, Exists, GuardInv, TypeInv, TypeOK
  <2> QED
    BY <2>1, <2>2, <2>3, <2>4, <2>5, <2>6 DEF Worker
<1> QED
  BY <1>1, <1>2, <1>3, LaterKept DEF Kept, Exists

LEMMA RememberReconcile == ASSUME GuardInv, Remembered, Reconcile PROVE Remembered'
<1>1. PICK n \in Names, q \in {"now", "later"} :
        /\ queue' = queue \ {<<n, q>>}
        /\ \/ Dispatch(rcache[n], tseen[rcache[n].spec.tunnelRef]) = "idle"
           \/ cur' = n /\ pc' # "idle"
  BY DEF Reconcile, Return
<1>2. pc = "idle" /\ UNCHANGED <<route, rcache>>
  BY DEF Reconcile, fixed
<1>3. Dispatch(rcache[n], tseen[rcache[n].spec.tunnelRef]) = "idle" /\ rcache[n] = route[n]
         => ~Exists(n)
  BY DEF Dispatch, DispatchDelete, GuardInv, Versions, Sound, Exists
<1>4. \A m \in Names \ {n} : Pending(m) => Pending(m)'
  BY <1>1 DEF Pending
<1> QED
  BY <1>1, <1>2, <1>3, <1>4 DEF Remembered, Exists

LEMMA RememberUsers ==
    ASSUME GuardInv, Remembered, NEW n \in Names,
           UserCreate(n) \/ UserDelete(n) \/ UserEdit(n) \/ Deliver(n)
    PROVE  Remembered'
<1>1. route[n] \in TunnelRoute /\ rcache[n] \in TunnelRoute /\ made \in Nat /\ Knows(rcache[n], n)
  BY DEF GuardInv, TypeInv, TypeOK, Versions
<1>2. rcache[n].uid \in Nat /\ rcache[n].rv \in Nat /\ route[n].rv \in Nat
  BY <1>1 DEF TunnelRoute
<1>3. /\ queue \subseteq queue' /\ UNCHANGED <<pc, cur>>
      /\ \A m \in Names \ {n} : route'[m] = route[m] /\ rcache'[m] = rcache[m]
  BY DEF UserCreate, UserDelete, UserEdit, Deliver, views, api, worker, GuardInv, TypeInv, TypeOK
<1>4. ~Exists(n)' \/ rcache'[n] # route'[n] \/ <<n, "now">> \in queue'
  <2>1. CASE UserCreate(n)
    <3>1. route'[n].uid = made + 1 /\ rcache' = rcache
      BY <2>1, NoRouteType DEF UserCreate, views, TunnelRoute, GuardInv, TypeInv, TypeOK
    <3> QED
      BY <1>1, <1>2, <3>1 DEF Knows
  <2>2. CASE UserDelete(n)
    <3>1. rcache' = rcache /\ (route'[n] = NoRoute \/ route'[n].rv = route[n].rv + 1)
      BY <1>1, <2>2 DEF UserDelete, views, TunnelRoute, GuardInv, TypeInv, TypeOK
    <3>2. route'[n] # NoRoute => route'[n].uid = route[n].uid
      BY <1>1, <2>2 DEF UserDelete, TunnelRoute, GuardInv, TypeInv, TypeOK
    <3> QED
      BY <1>1, <1>2, <3>1, <3>2, NoRouteFields DEF Knows, Exists
  <2>3. CASE UserEdit(n)
    <3>1. rcache' = rcache /\ route'[n].rv = route[n].rv + 1 /\ route'[n].uid = route[n].uid
      BY <1>1, <2>3 DEF UserEdit, views, TunnelRoute, GuardInv, TypeInv, TypeOK
    <3> QED
      BY <1>1, <1>2, <3>1 DEF Knows, Exists
  <2>4. CASE Deliver(n)
    BY <2>4 DEF Deliver, Now
  <2> QED
    BY <2>1, <2>2, <2>3, <2>4
<1> QED
  BY <1>3, <1>4 DEF Remembered, Pending, Exists

LEMMA RememberEnvironment ==
    ASSUME GuardInv, Remembered,
           \/ \E r \in Refs : TunnelUser(r) \/ TunnelReconciler(r) \/ DeliverTunnel(r)
           \/ \E s \in Services : ServiceChanges(s)
           \/ UserTogglesCredential \/ PanelDeletesTunnel \/ PanelDeletesRoute
           \/ LateCreate \/ Restart
    PROVE  Remembered'
<1>1. CASE Restart
  <2>1. \A n \in Names : Exists(n) => <<n, "now">> \in queue'
    BY <1>1 DEF Restart, Now
  <2> QED
    BY <1>1, <2>1 DEF Restart, api, Remembered, Pending, Exists
<1>2. CASE ~Restart
  <2>1. queue \subseteq queue' /\ UNCHANGED <<route, rcache, pc, cur>>
    BY <1>2 DEF TunnelUser, TunnelReconciler, DeliverTunnel, ServiceChanges, UserTogglesCredential,
                PanelDeletesTunnel, PanelDeletesRoute, LateCreate, api, views, worker
  <2> QED
    BY <2>1 DEF Remembered, Pending, Exists
<1> QED
  BY <1>1, <1>2

\* No object is ever left without a request, a timer or a watch event still to
\* come: every early return of Reconcile, every failed write and every restart
\* puts the name back, for every number of objects and of disturbances.
THEOREM NothingForgotten == Spec => []NeverForgotten
<1>1. Init => Remembered
  BY NoRouteFields DEF Init, Remembered, Exists
<1>2. GuardInv /\ Remembered /\ [Next]_vars => Remembered'
  <2> SUFFICES ASSUME GuardInv, Remembered, [Next]_vars PROVE Remembered' OBVIOUS
  <2>1. CASE UNCHANGED vars
    BY <2>1 DEF vars, Remembered, Pending, Exists
  <2>2. CASE Worker /\ ~Reconcile
    BY <2>2, WorkerKept, RememberKept
  <2> QED
    BY <2>1, <2>2, RememberReconcile, RememberUsers, RememberEnvironment DEF Next, Worker
<1>3. Remembered => NeverForgotten
  BY DEF Remembered, NeverForgotten, Pending
<1> QED
  BY <1>1, <1>2, <1>3, GuardInvariant, PTL DEF Spec
=============================================================================
