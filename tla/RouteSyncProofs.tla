-------------------------- MODULE RouteSyncProofs --------------------------
(***************************************************************************)
(* Synced at the current generation is a fact about the platform: the      *)
(* route of the status is there, with the identity, the priority and the   *)
(* switch of the spec.  In the environment of RouteOrphanProofs.           *)
(***************************************************************************)
EXTENDS RouteOrphanProofs

USE DEF None, Nobody

-----------------------------------------------------------------------------
(* The inductive invariant *)

\* A route has the two settings that a create cannot express.
Matches(x, s) == x.set.priority = Priority(s) /\ x.set.enabled = Enabled(s)

\* An update of the drifting fields makes it so.
Fits(x, s, drift) ==
    /\ "priority" \notin drift => x.set.priority = Priority(s)
    /\ "enabled" \notin drift => x.set.enabled = Enabled(s)

\* o is a version of p that is no newer, and no older than the generation that a
\* status has been written for.
Behind(o, p) ==
    o.uid = p.uid /\ o.uid # None =>
        /\ o.gen <= p.gen
        /\ o.gen = p.gen => o.spec = p.spec
        /\ p.obs = p.gen => o.gen = p.gen

Lag ==
    /\ \A n \in Names : route[n].obs <= route[n].gen /\ Behind(rcache[n], route[n])
    /\ pc # "idle" => /\ Behind(rt, route[cur])
                      /\ rt.uid = rcache[cur].uid => rt.gen <= rcache[cur].gen

\* A status that claims a route has its identifiers.
Filled(o) == o.synced => o.rid # None /\ o.tid # None

Claims == Filled(rt) /\ \A n \in Names : Filled(route[n]) /\ Filled(rcache[n])

TrueOf(o) ==
    o.uid # None /\ o.synced /\ o.obs = o.gen =>
        \A x \in routes : x.owner = o.uid => Matches(x, o.spec)

\* What a reconcile is about to claim.
WorkRows ==
    /\ pc = "finish" /\ rt.synced => \A x \in routes : x.owner = rt.uid => Matches(x, rt.spec)
    /\ pc = "updateRoute" => \A x \in routes : x.owner = rt.uid => Fits(x, rt.spec, loc.drift)

SyncedRows == \A n \in Names : TrueOf(route[n])

SyncInv == OrphanInv /\ Lag /\ Claims /\ SyncedRows /\ WorkRows

-----------------------------------------------------------------------------
(* What the operators of the reconcile leave behind *)

LEMMA Generations ==
    ASSUME GuardInv
    PROVE  /\ rt.gen \in Nat /\ rt.obs \in Nat
           /\ \A n \in Names : /\ route[n].gen \in Nat /\ route[n].obs \in Nat
                               /\ rcache[n].gen \in Nat
BY DEF GuardInv, TypeInv, TypeOK, TunnelRoute

LEMMA NotSyncedOut ==
    ASSUME NEW o \in TunnelRoute, NEW err, NotSynced(o, err)
    PROVE  rt'.synced = FALSE /\ SameObject(rt', o) /\ pc' = "finish"
BY DEF NotSynced, SetReady, SetSynced, SameObject, SameMetadata, TunnelRoute

LEMMA FailedOut ==
    ASSUME OrphanInv, Failed
    PROVE  rt'.synced = FALSE /\ SameObject(rt', rt) /\ pc' = "finish" /\ cur' = cur
<1>1. \E permanent : NotSynced(rt, ~permanent)
  BY DEF Failed, Refused, AnswerLost, Missing, Fail
<1>2. rt \in TunnelRoute
  BY Numbers DEF OrphanInv
<1> QED
  BY <1>1, <1>2, NotSyncedOut DEF Failed, Refused, AnswerLost, Missing

LEMMA PublishedOut ==
    ASSUME OrphanInv, NEW id, Published(id)
    PROVE  SameObject(rt', rt) /\ rt'.rid = id /\ rt'.tid = loc.tid /\ pc' = "finish"
<1>1. rt \in TunnelRoute
  BY Numbers DEF OrphanInv
<1> QED
  BY <1>1 DEF Published, SetReady, SetSynced, SameObject, SameMetadata, TunnelRoute

\* An update of exactly the fields that differ makes the route match.
LEMMA DriftFits ==
    ASSUME NEW row \in RouteRow, NEW s, NEW addr
    PROVE  Fits(row, s, RouteDrift(row, s, addr))
<1>1. DOMAIN row.set = {"upstream", "scheme", "strip", "priority", "enabled"}
  BY DEF RouteRow, Settings
<1>2. SettingsOf(s, addr).priority = Priority(s) /\ SettingsOf(s, addr).enabled = Enabled(s)
  BY DEF SettingsOf
<1> QED
  BY <1>1, <1>2 DEF Fits, RouteDrift

LEMMA UpdatedMatches ==
    ASSUME NEW row \in RouteRow, NEW s, NEW addr, NEW drift, Fits(row, s, drift)
    PROVE  Matches(Updated(row, drift, SettingsOf(s, addr)), s)
<1> DEFINE in == SettingsOf(s, addr)
           mixed == [f \in DOMAIN row.set |-> IF f \in drift THEN in[f] ELSE row.set[f]]
<1>1. "priority" \in DOMAIN row.set /\ "enabled" \in DOMAIN row.set
  BY DEF RouteRow, Settings
<1>2. in.priority = Priority(s) /\ in.enabled = Enabled(s)
  BY DEF SettingsOf
<1> HIDE DEF in
<1>3. mixed.priority = Priority(s) /\ mixed.enabled = Enabled(s)
  BY <1>1, <1>2 DEF Fits
<1> HIDE DEF mixed
<1>4. [row EXCEPT !.set = mixed].set = mixed
  BY DEF RouteRow
<1> QED
  BY <1>3, <1>4 DEF Matches, Updated, in, mixed

LEMMA CompareOut ==
    ASSUME OrphanInv, NEW row \in RouteRow, Compare(row)
    PROVE  /\ SameObject(rt', rt)
           /\ \/ /\ pc' = "finish" /\ Matches(row, rt.spec)
                 /\ rt'.rid = row.id /\ rt'.tid = loc.tid
              \/ /\ pc' = "updateRoute" /\ rt' = rt /\ Fits(row, rt.spec, loc'.drift)
<1> DEFINE drift == RouteDrift(row, rt.spec, Upstream)
<1>1. Fits(row, rt.spec, drift)
  BY DriftFits
<1> HIDE DEF drift
<1>2. CASE drift = {}
  BY <1>1, <1>2, PublishedOut DEF Compare, drift, Fits, Matches
<1>3. CASE drift # {}
  <2>1. pc' = "updateRoute" /\ rt' = rt /\ loc' = [loc EXCEPT !.id = row.id, !.drift = drift]
    BY <1>3 DEF Compare, drift
  <2>2. loc'.drift = drift
    BY <2>1, Numbers DEF OrphanInv, Locals
  <2> QED
    BY <1>1, <2>1, <2>2 DEF SameObject, SameMetadata
<1> QED
  BY <1>2, <1>3

-----------------------------------------------------------------------------
(* Steps that leave the objects alone *)

\* The caches catch up and routes go, while the reconcile waits or ends.
LEMMA SyncRest ==
    ASSUME SyncInv, OrphanInv', UNCHANGED route, routes' \subseteq routes,
           UNCHANGED <<pc, cur, rt, loc>> \/ Idle,
           \A n \in Names : rcache'[n] \in {rcache[n], route[n]}
    PROVE  SyncInv'
<1>1. cur \in Names
  BY Numbers DEF SyncInv, OrphanInv
<1>2. Lag'
  <2>1. \A n \in Names : Behind(rcache'[n], route[n])
    BY Generations DEF SyncInv, OrphanInv, Lag, Behind
  <2>2. ASSUME pc # "idle", UNCHANGED <<pc, cur, rt>>
        PROVE  Behind(rt, route[cur]) /\ (rt.uid = rcache'[cur].uid => rt.gen <= rcache'[cur].gen)
    <3>1. rt.uid # None
      BY <2>2 DEF SyncInv, OrphanInv, GuardInv, Working
    <3> QED
      BY <1>1, <2>2, <3>1 DEF SyncInv, Lag, Behind
  <2>3. \A n \in Names : route[n].obs <= route[n].gen
    BY DEF SyncInv, Lag
  <2> QED
    BY <2>1, <2>2, <2>3 DEF Lag, Idle, Behind
<1>3. Claims'
  <2>1. Filled(rt)'
    BY NoRouteFields DEF SyncInv, Claims, Filled, Idle
  <2> QED
    BY <2>1 DEF SyncInv, Claims, Filled
<1>4. SyncedRows'
  BY DEF SyncInv, SyncedRows, TrueOf, Matches
<1>5. WorkRows'
  BY DEF SyncInv, WorkRows, Idle, Matches, Fits
<1> QED
  BY <1>2, <1>3, <1>4, <1>5 DEF SyncInv

\* The reconcile goes on.
LEMMA SyncGoesOn ==
    ASSUME SyncInv, OrphanInv', UNCHANGED <<route, rcache, cur>>, pc # "idle",
           SameObject(rt', rt), Filled(rt)', SyncedRows', WorkRows'
    PROVE  SyncInv'
<1>1. Lag'
  BY DEF SyncInv, Lag, Behind, SameObject, SameMetadata
<1>2. Claims'
  BY DEF SyncInv, Claims, Filled
<1> QED
  BY <1>1, <1>2 DEF SyncInv

LEMMA SyncReconcile == ASSUME SyncInv, OrphanInv', Reconcile PROVE SyncInv'
<1>1. UNCHANGED <<route, rcache, routes>>
  BY DEF Reconcile, platform, fixed
<1>2. CASE pc' = "idle"
  <2>1. Idle
    BY <1>2 DEF Reconcile, Return, Idle
  <2> QED
    BY <1>1, <2>1, SyncRest
<1>3. CASE pc' # "idle"
  <2>1. PICK n \in Names :
          LET o      == rcache[n]
              tunnel == tseen[o.spec.tunnelRef]
              to     == Dispatch(o, tunnel)
          IN  /\ cur' = n /\ pc' = to
              /\ rt' = IF to = "finish" THEN SetReady(SetSynced(o, FALSE)) ELSE o
    BY <1>3 DEF Reconcile, Return
  <2>2. rcache[n] \in TunnelRoute
    BY Numbers DEF SyncInv, OrphanInv
  <2>3. /\ rt'.uid = rcache[n].uid /\ rt'.gen = rcache[n].gen /\ rt'.spec = rcache[n].spec
        /\ rt'.rid = rcache[n].rid /\ rt'.tid = rcache[n].tid
        /\ rt'.synced => rcache[n].synced /\ pc' # "finish"
    BY <2>1, <2>2 DEF SetReady, SetSynced, TunnelRoute
  <2>4. pc' # "updateRoute" /\ cur' = n
    BY <2>1 DEF Dispatch, DispatchDelete
  <2>5. Lag'
    BY <1>1, <2>3, <2>4, Generations DEF SyncInv, OrphanInv, Lag, Behind
  <2>6. Claims'
    BY <1>1, <2>3 DEF SyncInv, Claims, Filled
  <2>7. SyncedRows' /\ WorkRows'
    BY <1>1, <2>3, <2>4 DEF SyncInv, SyncedRows, TrueOf, WorkRows
  <2> QED
    BY <2>5, <2>6, <2>7 DEF SyncInv
<1> QED
  BY <1>2, <1>3

\* A failure makes no claim.
LEMMA SyncFailed ==
    ASSUME SyncInv, OrphanInv', UNCHANGED <<route, rcache>>, pc # "idle", Failed, SyncedRows'
    PROVE  SyncInv'
<1>1. rt'.synced = FALSE /\ SameObject(rt', rt) /\ pc' = "finish" /\ cur' = cur
  BY FailedOut DEF SyncInv
<1>2. Filled(rt)' /\ WorkRows'
  BY <1>1 DEF Filled, WorkRows
<1> QED
  BY <1>1, <1>2, SyncGoesOn

LEMMA SyncResolve == ASSUME SyncInv, OrphanInv', Resolve PROVE SyncInv'
<1>1. UNCHANGED <<route, rcache, routes, cur>> /\ pc = "resolve"
  BY DEF Resolve, platform, fixed
<1>2. rt \in TunnelRoute
  BY Numbers DEF SyncInv, OrphanInv
<1>3. ASSUME NEW b \in BOOLEAN
      PROVE  /\ SetResolved(rt, b) \in TunnelRoute /\ SameObject(SetResolved(rt, b), rt)
             /\ SetResolved(rt, b).synced = rt.synced
             /\ SetResolved(rt, b).rid = rt.rid /\ SetResolved(rt, b).tid = rt.tid
  <2>1. SetResolved(rt, b) \in TunnelRoute
    BY <1>2, StatusType
  <2> QED
    BY <1>2, <2>1 DEF SetResolved, SameObject, SameMetadata, TunnelRoute
<1>4. SyncedRows'
  BY <1>1 DEF SyncInv, SyncedRows, TrueOf
<1>5. SameObject(rt, rt)
  BY DEF SameObject, SameMetadata
<1>6. \/ \E o \in TunnelRoute : NotSynced(o, FALSE) /\ SameObject(o, rt)
      \/ rt' = SetResolved(rt, TRUE) /\ pc' = "listRoutes"
  BY <1>2, <1>3, <1>5 DEF Resolve
<1>7. CASE \E o \in TunnelRoute : NotSynced(o, FALSE) /\ SameObject(o, rt)
  <2>1. rt'.synced = FALSE /\ SameObject(rt', rt) /\ pc' = "finish"
    BY <1>7, NotSyncedOut DEF SameObject, SameMetadata
  <2>2. Filled(rt)' /\ WorkRows'
    BY <2>1 DEF Filled, WorkRows
  <2> QED
    BY <1>1, <1>4, <2>1, <2>2, SyncGoesOn
<1>8. CASE rt' = SetResolved(rt, TRUE) /\ pc' = "listRoutes"
  <2>1. SameObject(rt', rt) /\ Filled(rt)' /\ WorkRows'
    BY <1>3, <1>8 DEF SyncInv, Claims, Filled, WorkRows
  <2> QED
    BY <1>1, <1>4, <2>1, SyncGoesOn
<1> QED
  BY <1>6, <1>7, <1>8

LEMMA SyncListRoutes == ASSUME Environment, SyncInv, OrphanInv', CallListRoutes PROVE SyncInv'
<1> DEFINE found == FindRoute(routes, loc.tid, rt.rid, rt.spec)
<1>1. UNCHANGED <<route, rcache, routes, cur>> /\ pc = "listRoutes" /\ loc.tid # None
  BY DEF CallListRoutes, Refused, Missing, platform, fixed, SyncInv, OrphanInv, Knowledge, KnowsTunnel,
         Ensuring
<1>2. \A x \in found : x \in routes /\ x.owner = rt.uid /\ x.ident = IdentityOf(rt.spec)
  BY <1>1, FindsOwn DEF SyncInv
<1> HIDE DEF found
<1>3. SyncedRows'
  BY <1>1 DEF SyncInv, SyncedRows, TrueOf
<1>4. CASE Failed
  BY <1>1, <1>3, <1>4, SyncFailed
<1>5. CASE ~Failed /\ found = {}
  <2>1. pc' = "createRoute" /\ UNCHANGED rt
    BY <1>5 DEF CallListRoutes, found, Failed
  <2>2. SameObject(rt', rt) /\ Filled(rt)' /\ WorkRows'
    BY <2>1 DEF SyncInv, Claims, Filled, WorkRows, SameObject, SameMetadata
  <2> QED
    BY <1>1, <1>3, <2>2, SyncGoesOn
<1>6. CASE ~Failed /\ found # {}
  <2>1. PICK row \in found :
          IF IdentityChanged(row, rt.spec)
          THEN /\ pc' = "replaceRoute"
               /\ loc' = [loc EXCEPT !.id = row.id]
               /\ UNCHANGED rt
          ELSE Compare(row)
    BY <1>6 DEF CallListRoutes, found, Failed
  <2>2. row \in routes /\ row.owner = rt.uid /\ Compare(row)
    BY <1>2, <2>1 DEF IdentityChanged
  <2>3. row \in RouteRow
    BY <2>2 DEF SyncInv, OrphanInv, GuardInv, TypeInv, TypeOK
  <2>4. /\ SameObject(rt', rt)
        /\ \/ /\ pc' = "finish" /\ Matches(row, rt.spec)
              /\ rt'.rid = row.id /\ rt'.tid = loc.tid
           \/ /\ pc' = "updateRoute" /\ rt' = rt /\ Fits(row, rt.spec, loc'.drift)
    BY <2>2, <2>3, CompareOut DEF SyncInv
  <2>5. \A x \in routes : x.owner = rt.uid => x = row
    BY <2>2 DEF SyncInv, OrphanInv, Rows
  <2>6. row.id # None
    BY <2>2 DEF SyncInv, OrphanInv, Rows
  <2>7. Filled(rt)'
    BY <1>1, <2>4, <2>6 DEF SyncInv, Claims, Filled
  <2>8. WorkRows'
    BY <1>1, <2>4, <2>5 DEF WorkRows, SameObject, SameMetadata
  <2> QED
    BY <1>1, <1>3, <2>4, <2>7, <2>8, SyncGoesOn
<1> QED
  BY <1>4, <1>5, <1>6

\* Nobody has claimed a route for an object that has none.
LEMMA SyncCreateRoute == ASSUME Environment, SyncInv, OrphanInv', CallCreateRoute PROVE SyncInv'
<1>1. UNCHANGED <<route, rcache, tunnels, cur>> /\ pc = "createRoute" /\ loc.tid # None
  BY DEF CallCreateRoute, AfterCreate, Compare, Published, AnswerLost, Refused, Missing, fixed, SyncInv,
         OrphanInv, Knowledge, KnowsTunnel, Ensuring
<1>2. CASE UNCHANGED routes /\ Failed
  <2>1. SyncedRows'
    BY <1>1, <1>2 DEF SyncInv, SyncedRows, TrueOf
  <2> QED
    BY <1>1, <1>2, <2>1, SyncFailed
<1>3. CASE /\ Live(loc.tid) /\ routes' = routes \cup {Asked}
           /\ Compare(Asked) \/ Failed
  <2>1. PICK row : row = Asked
    OBVIOUS
  <2>2. row \in RouteRow /\ row.owner = rt.uid /\ row.id = issued + 1
    BY <1>1, <2>1, AskedType DEF Asked, NewRoute, SyncInv, OrphanInv, GuardInv, Ensuring
  <2>3. /\ tunnels # {} /\ rt.uid = route[cur].uid /\ rt.uid # None /\ cur \in Names
        /\ \A x \in routes : x.owner # rt.uid
    BY <1>1, <1>3, Numbers DEF Live, SyncInv, OrphanInv, GuardInv, Working, Knowledge, KnowsObject,
       KnowsRoute, Creating, Ensuring
  <2>4. route[cur].rid = None
    BY <1>1, <2>3 DEF SyncInv, OrphanInv, StillThere, InUse, SomeRid, Creating, Ensuring
  <2>5. SyncedRows'
    <3>1. ASSUME NEW n \in Names PROVE TrueOf(route[n])'
      <4>1. CASE n = cur
        BY <1>1, <2>4, <4>1 DEF SyncInv, Claims, Filled, TrueOf
      <4>2. CASE n # cur
        <5>1. route[n].uid # rt.uid
          BY <2>3, <4>2 DEF SyncInv, OrphanInv, GuardInv, Working, Knows
        <5> QED
          BY <1>1, <1>3, <2>1, <2>2, <5>1 DEF SyncInv, SyncedRows, TrueOf
      <4> QED
        BY <4>1, <4>2
    <3> QED
      BY <3>1 DEF SyncedRows
  <2>6. CASE Failed
    BY <1>1, <2>5, <2>6, SyncFailed
  <2>7. CASE Compare(row)
    <3>1. /\ SameObject(rt', rt)
          /\ \/ /\ pc' = "finish" /\ Matches(row, rt.spec)
                /\ rt'.rid = row.id /\ rt'.tid = loc.tid
             \/ /\ pc' = "updateRoute" /\ rt' = rt /\ Fits(row, rt.spec, loc'.drift)
      BY <2>2, <2>7, CompareOut DEF SyncInv
    <3>2. row.id # None
      BY <2>2, Numbers DEF SyncInv, OrphanInv
    <3>3. \A x \in routes' : x.owner = rt.uid => x = row
      BY <1>3, <2>1, <2>3
    <3>4. Filled(rt)' /\ WorkRows'
      BY <1>1, <3>1, <3>2, <3>3 DEF SyncInv, Claims, Filled, WorkRows, SameObject, SameMetadata
    <3> QED
      BY <1>1, <2>5, <3>1, <3>4, SyncGoesOn
  <2> QED
    BY <1>3, <2>1, <2>6, <2>7
<1> QED
  BY <1>2, <1>3 DEF CallCreateRoute, AfterCreate, Asked, Failed, platform, Environment, Undisturbed

\* An update by a reconcile of an older generation would undo what a status
\* claims; Behind says there is none.
LEMMA SyncUpdateRoute == ASSUME SyncInv, OrphanInv', CallUpdateRoute PROVE SyncInv'
<1> DEFINE target == {r \in routes : r.tunnel = loc.tid /\ r.id = loc.id}
           wanted == SettingsOf(rt.spec, Upstream)
<1>1. /\ pc = "updateRoute" /\ UNCHANGED <<route, rcache, cur>>
      /\ loc.id # None /\ loc.tid # None /\ rt.uid # None /\ cur \in Names
      /\ rt.uid = route[cur].uid
      /\ \A x \in routes : x.owner = rt.uid <=> x.id = loc.id
  BY Numbers DEF CallUpdateRoute, Refused, Missing, AnswerLost, Published, fixed, SyncInv, OrphanInv,
         GuardInv, Working, Knowledge, KnowsObject, KnowsTunnel, KnowsRoute, Ensuring, Creating
<1>2. CASE UNCHANGED routes /\ Failed
  <2>1. SyncedRows'
    BY <1>1, <1>2 DEF SyncInv, SyncedRows, TrueOf
  <2> QED
    BY <1>1, <1>2, <2>1, SyncFailed
<1>3. CASE /\ target # {}
           /\ routes' = (routes \ target) \cup {Updated(r, loc.drift, wanted) : r \in target}
           /\ Published(loc.id) \/ Failed
  <2>1. ASSUME NEW r \in target
        PROVE  /\ Matches(Updated(r, loc.drift, wanted), rt.spec)
               /\ Updated(r, loc.drift, wanted).owner = rt.uid
    <3>1. r \in RouteRow /\ r.owner = rt.uid
      BY <1>1 DEF SyncInv, OrphanInv, GuardInv, TypeInv, TypeOK
    <3>2. Fits(r, rt.spec, loc.drift)
      BY <1>1, <3>1 DEF SyncInv, WorkRows
    <3>3. Updated(r, loc.drift, wanted).owner = r.owner
      BY <3>1 DEF Updated, RouteRow
    <3> QED
      BY <3>1, <3>2, <3>3, UpdatedMatches
  <2>2. \A x \in routes : x.owner = rt.uid => x \in target
    BY <1>1, InTheTunnel DEF SyncInv
  <2> HIDE DEF target, wanted
  <2>3. \A x \in routes' : x.owner = rt.uid => Matches(x, rt.spec)
    BY <1>3, <2>1, <2>2
  <2>4. \A x \in routes' : x.owner # rt.uid => x \in routes
    BY <1>3, <2>1
  <2>5. SyncedRows'
    <3>1. ASSUME NEW n \in Names PROVE TrueOf(route[n])'
      <4>1. CASE n = cur
        BY <1>1, <2>3, <4>1 DEF SyncInv, Lag, Behind, TrueOf
      <4>2. CASE n # cur
        <5>1. route[n].uid # rt.uid
          BY <1>1, <4>2 DEF SyncInv, OrphanInv, GuardInv, Working, Knows
        <5> QED
          BY <1>1, <2>4, <5>1 DEF SyncInv, SyncedRows, TrueOf
      <4> QED
        BY <4>1, <4>2
    <3> QED
      BY <3>1 DEF SyncedRows
  <2>6. CASE Failed
    BY <1>1, <2>5, <2>6, SyncFailed
  <2>7. CASE Published(loc.id)
    <3>1. SameObject(rt', rt) /\ rt'.rid = loc.id /\ rt'.tid = loc.tid /\ pc' = "finish"
      BY <2>7, PublishedOut DEF SyncInv
    <3>2. Filled(rt)' /\ WorkRows'
      BY <1>1, <2>3, <3>1 DEF Filled, WorkRows, SameObject, SameMetadata
    <3> QED
      BY <1>1, <2>5, <3>1, <3>2, SyncGoesOn
  <2> QED
    BY <1>3, <2>6, <2>7
<1> QED
  BY <1>2, <1>3 DEF CallUpdateRoute, Failed

\* The steps of reconcileDelete claim nothing.
LEMMA SyncDeletePath ==
    ASSUME SyncInv, OrphanInv', DeleteClientFor \/ CallFindRoute \/ CallDeleteRoute
    PROVE  SyncInv'
<1>1. /\ UNCHANGED <<route, rcache>> /\ pc # "idle" /\ routes' \subseteq routes
      /\ \/ Idle
         \/ UNCHANGED <<cur, rt>> /\ pc' \in {"findRoute", "deleteRoute", "removeFinalizer"}
  BY DEF DeleteClientFor, AfterDeleteClient, CallFindRoute, CallDeleteRoute, DeleteRoute, Return, Idle,
         platform, fixed
<1>2. CASE Idle
  BY <1>1, <1>2, SyncRest
<1>3. CASE UNCHANGED <<cur, rt>> /\ pc' \in {"findRoute", "deleteRoute", "removeFinalizer"}
  <2>1. SyncedRows'
    BY <1>1 DEF SyncInv, SyncedRows, TrueOf
  <2>2. SameObject(rt', rt) /\ Filled(rt)' /\ WorkRows'
    BY <1>3 DEF SyncInv, Claims, Filled, WorkRows, SameObject, SameMetadata
  <2> QED
    BY <1>1, <1>3, <2>1, <2>2, SyncGoesOn
<1> QED
  BY <1>1, <1>2, <1>3

-----------------------------------------------------------------------------
(* Steps that change an object *)

\* What has to be known of the version p that a write gives to the object of n.
LEMMA SyncObject ==
    ASSUME SyncInv, OrphanInv', UNCHANGED <<rcache, routes>>,
           NEW n \in Names, NEW p \in TunnelRoute, route' = [route EXCEPT ![n] = p],
           p.obs <= p.gen, Filled(p), TrueOf(p), Behind(rcache[n], p),
           \/ Idle
           \/ /\ UNCHANGED <<pc, cur, rt, loc>>
              /\ pc # "idle" /\ cur = n => Behind(rt, p)
           \/ /\ pc' = "resolve" /\ cur = n /\ cur' = n /\ rt' = p
              /\ p.uid = rcache[n].uid => p.gen <= rcache[n].gen
    PROVE  SyncInv'
<1>1. /\ route'[n] = p /\ \A m \in Names \ {n} : route'[m] = route[m]
      /\ cur \in Names /\ p.gen \in Nat
  BY DEF SyncInv, OrphanInv, GuardInv, TypeInv, TypeOK, TunnelRoute
<1>2. Lag'
  <2>1. \A m \in Names : route'[m].obs <= route'[m].gen /\ Behind(rcache[m], route'[m])
    BY <1>1 DEF SyncInv, Lag
  <2>2. CASE Idle
    BY <2>1, <2>2 DEF Idle, Lag
  <2>3. CASE UNCHANGED <<pc, cur, rt, loc>> /\ (pc # "idle" /\ cur = n => Behind(rt, p))
    BY <1>1, <2>1, <2>3 DEF SyncInv, Lag
  <2>4. CASE /\ pc' = "resolve" /\ cur = n /\ cur' = n /\ rt' = p
             /\ p.uid = rcache[n].uid => p.gen <= rcache[n].gen
    <3>1. Behind(p, p)
      BY <1>1 DEF Behind
    <3> QED
      BY <1>1, <2>1, <2>4, <3>1 DEF Lag
  <2> QED
    BY <2>2, <2>3, <2>4
<1>3. Claims'
  <2>1. Filled(rt)'
    BY NoRouteFields DEF SyncInv, Claims, Filled, Idle
  <2>2. \A m \in Names : Filled(route'[m]) /\ Filled(rcache[m])
    BY <1>1 DEF SyncInv, Claims
  <2> QED
    BY <2>1, <2>2 DEF Claims, Filled
<1>4. SyncedRows'
  <2>1. \A m \in Names : TrueOf(route'[m])
    BY <1>1 DEF SyncInv, SyncedRows
  <2> QED
    BY <2>1 DEF SyncedRows, TrueOf
<1>5. WorkRows'
  BY DEF SyncInv, WorkRows, Idle
<1> QED
  BY <1>2, <1>3, <1>4, <1>5 DEF SyncInv

\* The object goes, or a new one comes.
LEMMA SyncReplaced ==
    ASSUME SyncInv, OrphanInv', UNCHANGED <<rcache, routes>>,
           NEW n \in Names, NEW p \in TunnelRoute, route' = [route EXCEPT ![n] = p],
           p.uid \notin 1 .. made, p.synced = FALSE, p.obs <= p.gen,
           Idle \/ UNCHANGED <<pc, cur, rt, loc>>
    PROVE  SyncInv'
<1>1. /\ made \in Nat /\ rt.uid \in Nat /\ rt.uid <= made
      /\ rcache[n].uid \in Nat /\ rcache[n].uid <= made
  BY Numbers DEF SyncInv, OrphanInv, GuardInv, Working, Versions, Knows
<1>2. Behind(rcache[n], p) /\ Behind(rt, p) /\ Filled(p) /\ TrueOf(p)
  BY <1>1 DEF Behind, Filled, TrueOf
<1> QED
  BY <1>2, SyncObject

\* A write of the metadata leaves the spec and the status alone.
LEMMA SyncMetadata ==
    ASSUME SyncInv, OrphanInv', UNCHANGED <<rcache, routes>>,
           NEW n \in Names, NEW p \in TunnelRoute, route' = [route EXCEPT ![n] = p],
           p.uid = route[n].uid, p.gen = route[n].gen, p.spec = route[n].spec, p.obs = route[n].obs,
           p.rid = route[n].rid, p.tid = route[n].tid, p.synced = route[n].synced,
           \/ Idle
           \/ UNCHANGED <<pc, cur, rt, loc>>
           \/ /\ pc' = "resolve" /\ cur = n /\ cur' = n /\ rt' = p
              /\ p.uid = rcache[n].uid => p.gen <= rcache[n].gen
    PROVE  SyncInv'
<1>1. p.obs <= p.gen /\ Filled(p) /\ TrueOf(p) /\ Behind(rcache[n], p)
  BY DEF SyncInv, Lag, Claims, SyncedRows, TrueOf, Filled, Behind
<1>2. pc # "idle" /\ cur = n => Behind(rt, p)
  BY DEF SyncInv, Lag, Behind
<1> QED
  BY <1>1, <1>2, SyncObject

LEMMA SyncUsers ==
    ASSUME SyncInv, OrphanInv', NEW n \in Names, UserCreate(n) \/ UserDelete(n) \/ UserEdit(n)
    PROVE  SyncInv'
<1>1. UNCHANGED <<rcache, routes, pc, cur, rt, loc>>
  BY DEF UserCreate, UserDelete, UserEdit, views, worker
<1>2. /\ made \in Nat /\ route[n] \in TunnelRoute /\ route[n].gen \in Nat /\ route[n].rv \in Nat
      /\ route[n].obs \in Nat /\ route[n].spec \in Specs
  BY Numbers DEF SyncInv, OrphanInv, TunnelRoute
<1>3. CASE UserCreate(n)
  <2>1. PICK s \in SpecsOf[n] :
          route' = [route EXCEPT ![n] = [NoRoute EXCEPT !.uid = made + 1, !.rv = 1,
                                                        !.gen = 1, !.spec = s]]
    BY <1>3 DEF UserCreate
  <2> DEFINE p == [NoRoute EXCEPT !.uid = made + 1, !.rv = 1, !.gen = 1, !.spec = s]
  <2>2. p \in TunnelRoute
    <3>1. made + 1 \in Nat /\ s \in Specs
      BY <1>2 DEF Specs
    <3> QED
      BY <3>1, NoRouteType, MetadataType
  <2>3. p.uid = made + 1 /\ p.synced = FALSE /\ p.obs <= p.gen
    BY DEF NoRoute
  <2>4. route' = [route EXCEPT ![n] = p]
    BY <2>1
  <2> HIDE DEF p
  <2>5. p.uid \notin 1 .. made
    BY <1>2, <2>3
  <2> QED
    BY <1>1, <2>2, <2>3, <2>4, <2>5, SyncReplaced
<1>4. CASE UserDelete(n) /\ route[n].fin
  <2> DEFINE p == [route[n] EXCEPT !.deleting = TRUE, !.rv = @ + 1]
  <2>1. route' = [route EXCEPT ![n] = p]
    BY <1>4 DEF UserDelete
  <2>2. p \in TunnelRoute
    <3>1. route[n].rv + 1 \in Nat
      BY <1>2
    <3> QED
      BY <1>2, <3>1, MetadataType
  <2>3. /\ p.uid = route[n].uid /\ p.gen = route[n].gen /\ p.spec = route[n].spec
        /\ p.obs = route[n].obs /\ p.rid = route[n].rid /\ p.tid = route[n].tid
        /\ p.synced = route[n].synced
    BY <1>2 DEF TunnelRoute
  <2> HIDE DEF p
  <2> QED
    BY <1>1, <2>1, <2>2, <2>3, SyncMetadata
<1>5. CASE UserDelete(n) /\ ~route[n].fin
  <2>1. route' = [route EXCEPT ![n] = NoRoute]
    BY <1>5 DEF UserDelete
  <2>2. NoRoute.uid \notin 1 .. made /\ NoRoute.synced = FALSE /\ NoRoute.obs <= NoRoute.gen
    BY <1>2 DEF NoRoute
  <2> QED
    BY <1>1, <2>1, <2>2, NoRouteType, SyncReplaced
<1>6. CASE UserEdit(n)
  <2>1. PICK s \in SpecsOf[n] :
          route' = [route EXCEPT ![n] = [route[n] EXCEPT !.spec = s, !.gen = @ + 1, !.rv = @ + 1]]
    BY <1>6 DEF UserEdit
  <2> DEFINE p == [route[n] EXCEPT !.spec = s, !.gen = @ + 1, !.rv = @ + 1]
  <2>2. p \in TunnelRoute
    <3>1. route[n].gen + 1 \in Nat /\ route[n].rv + 1 \in Nat /\ s \in Specs
      BY <1>2 DEF Specs
    <3> QED
      BY <1>2, <3>1, MetadataType
  <2>3. /\ p.uid = route[n].uid /\ p.gen = route[n].gen + 1 /\ p.spec = s
        /\ p.obs = route[n].obs /\ p.rid = route[n].rid /\ p.tid = route[n].tid
        /\ p.synced = route[n].synced
    BY <1>2 DEF TunnelRoute
  <2> HIDE DEF p
  <2>4. p.obs < p.gen /\ p.obs <= p.gen
    BY <1>2, <2>3 DEF SyncInv, Lag
  <2>5. Filled(p) /\ TrueOf(p)
    BY <1>2, <2>3, <2>4 DEF SyncInv, Claims, Filled, TrueOf
  <2>6. Behind(rcache[n], p)
    BY <1>2, <2>3, <2>4, Generations DEF SyncInv, OrphanInv, Lag, Behind
  <2>7. pc # "idle" /\ cur = n => Behind(rt, p)
    BY <1>2, <2>3, <2>4, Generations DEF SyncInv, OrphanInv, Lag, Behind
  <2> QED
    BY <1>1, <2>1, <2>2, <2>4, <2>5, <2>6, <2>7, SyncObject DEF p
<1> QED
  BY <1>3, <1>4, <1>5, <1>6

LEMMA SyncAddFinalizer == ASSUME SyncInv, OrphanInv', AddFinalizer PROVE SyncInv'
<1> DEFINE w == [route[cur] EXCEPT !.fin = TRUE]
           p == Written(route[cur], w)
<1>1. pc = "addFinalizer" /\ UNCHANGED <<rcache, routes>>
  BY DEF AddFinalizer, platform, fixed
<1>2. CASE UNCHANGED route /\ Idle
  BY <1>1, <1>2, SyncRest
<1>3. CASE /\ Current /\ route' = [route EXCEPT ![cur] = p]
           /\ \/ Idle
              \/ rt' = route'[cur] /\ pc' = "resolve" /\ UNCHANGED <<cur, loc>>
  <2>1. cur \in Names /\ route[cur] \in TunnelRoute
    BY Numbers DEF SyncInv, OrphanInv
  <2>2. /\ w \in TunnelRoute
        /\ w.uid = route[cur].uid /\ w.gen = route[cur].gen /\ w.spec = route[cur].spec
        /\ w.obs = route[cur].obs /\ w.rid = route[cur].rid /\ w.tid = route[cur].tid
        /\ w.synced = route[cur].synced
    BY <2>1 DEF TunnelRoute
  <2> HIDE DEF w
  <2>3. p \in TunnelRoute
    BY <2>1, <2>2, WrittenType
  <2>4. p = w \/ p = [w EXCEPT !.rv = route[cur].rv + 1]
    BY DEF Written
  <2>5. /\ p.uid = route[cur].uid /\ p.gen = route[cur].gen /\ p.spec = route[cur].spec
        /\ p.obs = route[cur].obs /\ p.rid = route[cur].rid /\ p.tid = route[cur].tid
        /\ p.synced = route[cur].synced
    BY <2>2, <2>4 DEF TunnelRoute
  <2> HIDE DEF p
  <2>6. /\ rt.gen = route[cur].gen /\ rt.uid = route[cur].uid
        /\ rt.uid = rcache[cur].uid => rt.gen <= rcache[cur].gen
    BY <1>1, <1>3 DEF Current, SyncInv, OrphanInv, Knowledge, KnowsObject, CopyExact, Lag
  <2>7. rt' = route'[cur] => rt' = p
    BY <1>3, <2>1 DEF SyncInv, OrphanInv, GuardInv, TypeInv, TypeOK
  <2> QED
    BY <1>1, <1>3, <2>1, <2>3, <2>5, <2>6, <2>7, SyncMetadata
<1> QED
  BY <1>2, <1>3 DEF AddFinalizer, Return, Idle

\* The claim itself: the copy that is written is of the current generation.
LEMMA SyncFinish == ASSUME SyncInv, OrphanInv', Finish PROVE SyncInv'
<1> DEFINE new == [rt EXCEPT !.obs = rt.gen]
           w   == WithStatus(route[cur], new)
           p   == Written(route[cur], w)
<1>1. pc = "finish" /\ UNCHANGED <<rcache, routes>> /\ Idle
  BY DEF Finish, Return, Idle, platform, fixed
<1>2. CASE UNCHANGED route
  BY <1>1, <1>2, SyncRest
<1>3. CASE ~UNCHANGED route
  <2>1. Current /\ route' = [route EXCEPT ![cur] = p]
    BY <1>3 DEF Finish, UpdateStatus
  <2>2. cur \in Names /\ rt \in TunnelRoute /\ route[cur] \in TunnelRoute
    BY Numbers DEF SyncInv, OrphanInv
  <2>3. /\ new \in TunnelRoute
        /\ new.rid = rt.rid /\ new.tid = rt.tid /\ new.synced = rt.synced /\ new.obs = rt.gen
    BY <2>2 DEF TunnelRoute
  <2> HIDE DEF new
  <2>4. /\ w \in TunnelRoute
        /\ w.uid = route[cur].uid /\ w.gen = route[cur].gen /\ w.spec = route[cur].spec
        /\ w.obs = rt.gen /\ w.rid = rt.rid /\ w.tid = rt.tid /\ w.synced = rt.synced
    BY <2>2, <2>3, WithStatusType DEF WithStatus, TunnelRoute
  <2> HIDE DEF w
  <2>5. p \in TunnelRoute
    BY <2>2, <2>4, WrittenType
  <2>6. p = w \/ p = [w EXCEPT !.rv = route[cur].rv + 1]
    BY DEF Written
  <2>7. /\ p.uid = route[cur].uid /\ p.gen = route[cur].gen /\ p.spec = route[cur].spec
        /\ p.obs = rt.gen /\ p.rid = rt.rid /\ p.tid = rt.tid /\ p.synced = rt.synced
    BY <2>4, <2>6 DEF TunnelRoute
  <2> HIDE DEF p
  <2>8. /\ rt.gen = route[cur].gen /\ rt.spec = route[cur].spec /\ rt.uid = route[cur].uid
        /\ rcache[cur].uid = rt.uid /\ rt.uid # None
    BY <1>1, <2>1 DEF Current, SyncInv, OrphanInv, GuardInv, Working, Knowledge, KnowsObject, CopyExact
  <2>9. rcache[cur].gen = route[cur].gen /\ rcache[cur].spec = route[cur].spec
    BY <1>1, <2>2, <2>8, Generations DEF SyncInv, OrphanInv, Lag, Behind
  <2>10. route[cur].gen \in Nat
    BY <2>2, Generations DEF SyncInv, OrphanInv
  <2>11. p.obs <= p.gen /\ Behind(rcache[cur], p)
    BY <2>7, <2>8, <2>9, <2>10 DEF Behind
  <2>12. Filled(p) /\ TrueOf(p)
    BY <1>1, <2>7, <2>8 DEF SyncInv, Claims, Filled, WorkRows, TrueOf
  <2> QED
    BY <1>1, <2>1, <2>2, <2>5, <2>11, <2>12, SyncObject
<1> QED
  BY <1>2, <1>3

LEMMA SyncRemoveFinalizer == ASSUME SyncInv, OrphanInv', RemoveFinalizer PROVE SyncInv'
<1>1. UNCHANGED <<rcache, routes>> /\ Idle
  BY DEF RemoveFinalizer, Return, Idle, platform, fixed
<1>2. CASE UNCHANGED route
  BY <1>1, <1>2, SyncRest
<1>3. CASE ~UNCHANGED route
  <2>1. route' = [route EXCEPT ![cur] = NoRoute] /\ cur \in Names
    BY <1>3, Numbers DEF RemoveFinalizer, SyncInv, OrphanInv
  <2>2. NoRoute.uid \notin 1 .. made /\ NoRoute.synced = FALSE /\ NoRoute.obs <= NoRoute.gen
    BY Numbers DEF NoRoute, SyncInv, OrphanInv
  <2> QED
    BY <1>1, <2>1, <2>2, NoRouteType, SyncReplaced
<1> QED
  BY <1>2, <1>3

-----------------------------------------------------------------------------
(* The theorem *)

LEMMA SyncInit == Init => SyncInv
<1> SUFFICES ASSUME Init PROVE SyncInv
  OBVIOUS
<1>1. /\ OrphanInv /\ \A n \in Names : route[n] = NoRoute /\ rcache[n] = NoRoute
      /\ rt = NoRoute /\ routes = {} /\ pc = "idle"
  BY OrphanInit DEF Init
<1>2. NoRoute.obs <= NoRoute.gen
  BY DEF NoRoute
<1> QED
  BY <1>1, <1>2, NoRouteFields DEF SyncInv, Lag, Behind, Claims, Filled, SyncedRows, TrueOf, WorkRows

LEMMA SyncStep == ASSUME Environment, SyncInv, [Next]_vars PROVE SyncInv'
<1>1. OrphanInv'
  BY OrphanStep DEF SyncInv
<1>2. CASE Worker
  BY <1>1, <1>2, SyncReconcile, SyncAddFinalizer, SyncResolve, SyncListRoutes, SyncCreateRoute,
     SyncUpdateRoute, SyncFinish, SyncDeletePath, SyncRemoveFinalizer, OrphanReplaceRoute
     DEF Worker, SyncInv
<1>3. ASSUME NEW n \in Names, UserCreate(n) \/ UserDelete(n) \/ UserEdit(n)
      PROVE  SyncInv'
  BY <1>1, <1>3, SyncUsers
<1>4. ASSUME NEW n \in Names, Deliver(n) PROVE SyncInv'
  <2>1. UNCHANGED <<route, routes, pc, cur, rt, loc>> /\ rcache' = [rcache EXCEPT ![n] = route[n]]
    BY <1>4 DEF Deliver, api, worker
  <2>2. \A m \in Names : rcache'[m] \in {rcache[m], route[m]}
    BY <2>1 DEF SyncInv, OrphanInv, GuardInv, TypeInv, TypeOK
  <2> QED
    BY <1>1, <2>1, <2>2, SyncRest
<1>5. ASSUME \/ \E s \in Services : ServiceChanges(s)
             \/ \E r \in Refs : TunnelUser(r) \/ TunnelReconciler(r) \/ DeliverTunnel(r)
             \/ UserTogglesCredential
             \/ UNCHANGED vars
      PROVE  SyncInv'
  <2>1. UNCHANGED <<route, rcache, pc, cur, rt, loc>> /\ routes' \subseteq routes
    BY <1>5 DEF ServiceChanges, TunnelUser, TunnelReconciler, DeliverTunnel, UserTogglesCredential, vars,
       api, views, worker
  <2> QED
    BY <1>1, <2>1, SyncRest
<1>6. ~PanelDeletesTunnel /\ ~PanelDeletesRoute /\ ~LateCreate
  BY DEF Environment, Undisturbed, PanelDeletesTunnel, PanelDeletesRoute, LateCreate, SyncInv, OrphanInv,
         Rows
<1>7. CASE Restart
  <2>1. UNCHANGED <<route, routes>> /\ rcache' = route /\ Idle
    BY <1>7 DEF Restart, api, Idle
  <2> QED
    BY <1>1, <2>1, SyncRest
<1> QED
  BY <1>2, <1>3, <1>4, <1>5, <1>6, <1>7 DEF Next

\* A TunnelRoute that says Synced at its current generation tells the truth: the
\* route of its status is in the tunnel of its status, under the identity of the
\* spec and with its priority and its switch, as long as the tunnel is there.  No
\* lost answer, no cached copy of an older spec and no crash between the create
\* and the update makes ensureRoute report what is not there.
THEOREM SyncedIsTrue == ASSUME Environment PROVE Spec => []SyncedMeansPublished
<1>1. SyncInv => SyncedMeansPublished
  <2> SUFFICES ASSUME SyncInv, NEW n \in Names,
                      route[n].uid # None, ~route[n].deleting, route[n].synced,
                      route[n].obs = route[n].gen, Live(route[n].tid)
               PROVE  \E x \in ListRoutes(routes, route[n].tid) :
                         /\ x.id = route[n].rid /\ x.ident = IdentityOf(route[n].spec)
                         /\ x.set.priority = Priority(route[n].spec)
                         /\ x.set.enabled = Enabled(route[n].spec)
    BY DEF SyncedMeansPublished, Exists
  <2>1. route[n].rid # None /\ route[n].tid # None
    BY DEF SyncInv, Claims, Filled
  <2>2. rcache[n].uid = route[n].uid /\ ~rcache[n].deleting
    BY <2>1 DEF SyncInv, OrphanInv, Seen, GuardInv, Versions, Knows
  <2>3. tunnels # {}
    BY DEF Live
  <2>4. PICK x \in routes : x.owner = route[n].uid
    BY <2>1, <2>2, <2>3 DEF SyncInv, OrphanInv, StillThere, InUse, SomeRid
  <2>5. x.id = route[n].rid
    BY <2>1, <2>4 DEF SyncInv, OrphanInv, Recorded, RidNames
  <2>6. x.tunnel = route[n].tid
    <3>1. Live(x.tunnel)
      BY DEF SyncInv, OrphanInv, Rows
    <3>2. Meanwhile
      BY <2>3 DEF SyncInv, OrphanInv, Phase, Before, Afterwards
    <3> QED
      BY <3>1, <3>2 DEF Live, Meanwhile
  <2>7. x.ident = IdentityOf(route[n].spec)
    <3>1. PICK m \in Names : route[m].uid = x.owner /\ x.ident = IdentityOf(route[m].spec)
      BY DEF SyncInv, OrphanInv, Rows, HasObject
    <3>2. m = n
      BY <2>4, <3>1 DEF SyncInv, OrphanInv, GuardInv, Versions, Knows
    <3> QED
      BY <3>1, <3>2
  <2>8. Matches(x, route[n].spec)
    BY <2>4 DEF SyncInv, SyncedRows, TrueOf
  <2> QED
    BY <2>5, <2>6, <2>7, <2>8 DEF ListRoutes, Matches
<1>2. SyncInv /\ [Next]_vars => SyncInv'
  BY SyncStep
<1> QED
  BY <1>1, <1>2, SyncInit, PTL DEF Spec
=============================================================================
