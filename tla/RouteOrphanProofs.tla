------------------------- MODULE RouteOrphanProofs -------------------------
(***************************************************************************)
(* No route outlives its object, and a tunnel never carries two routes for *)
(* one hostname and prefix: for every number of TunnelRoutes, objects of a *)
(* name, faults, crashes and edits, as long as                             *)
(*   - nobody changes the account behind the operator's back, a create the *)
(*     operator gave up on is not applied later, and a 404 is the          *)
(*     platform's own;                                                     *)
(*   - there is one Tunnel, which may be deleted but is not followed by    *)
(*     another;                                                            *)
(*   - the edits of a TunnelRoute leave its identity and its Tunnel alone; *)
(*   - no two TunnelRoutes ask for the same hostname and prefix.           *)
(* The runs route_moved, route_stale_id and route_shared show what happens *)
(* without the last three.                                                 *)
(***************************************************************************)
EXTENDS RouteControllerProofs

USE DEF None, Nobody

\* The environment of the theorems.
Undisturbed == ~PanelDeletes /\ ~LateCreates /\ ~BareNotFounds /\ MaxTunnels <= 1

OneIdentity ==
    \A n \in Names : \A s, t \in SpecsOf[n] :
        IdentityOf(s) = IdentityOf(t) /\ s.tunnelRef = t.tunnelRef

DistinctPairs ==
    \A n, m \in Names : \A s \in SpecsOf[n], t \in SpecsOf[m] :
        s.hostname = t.hostname /\ PathPrefix(s) = PathPrefix(t) => n = m

Environment == Undisturbed /\ OneIdentity /\ DistinctPairs

-----------------------------------------------------------------------------
(* The inductive invariant *)

Creating == {"resolve"} \cup Ensuring
Removing == {"deleteClientFor", "findRoute", "deleteRoute", "removeFinalizer"}

OwnSpecs ==
    /\ \A n \in Names : /\ route[n].uid # None => route[n].spec \in SpecsOf[n]
                        /\ rcache[n].uid # None => rcache[n].spec \in SpecsOf[n]
    /\ pc # "idle" => rt.spec \in SpecsOf[cur]

\* There is one Tunnel at most.
OneTunnel ==
    /\ born <= MaxTunnels
    /\ \A r \in Refs : /\ tun[r].uid <= born
                       /\ tun[r].uid = Nobody => tun[r].id = Nobody
                       /\ tseen[r].uid = Nobody => tseen[r].id = Nobody
    /\ \A r, q \in Refs : tun[r].uid # Nobody /\ tun[q].uid # Nobody => r = q

\* Every copy of a tunnel identifier.
KnownIds ==
    {tun[r].id : r \in Refs} \cup {tseen[r].id : r \in Refs}
        \cup {route[n].tid : n \in Names} \cup {rcache[n].tid : n \in Names} \cup {rt.tid, loc.tid}

\* Every copy of a route identifier.
KnownRids == {route[n].rid : n \in Names} \cup {rcache[n].rid : n \in Names} \cup {rt.rid}

\* Its platform tunnel is not there yet, is there, or has gone for good.
Before == tunnels = {} /\ KnownIds \subseteq {None} /\ KnownRids \subseteq {None}

Meanwhile ==
    \E x \in tunnels :
        /\ tunnels = {x} /\ x.id # None /\ x.ext = born /\ x.ext # Nobody
        /\ KnownIds \subseteq {None, x.id}
        /\ \A r \in Refs : tseen[r].id # None => tun[r].id # None

Afterwards == tunnels = {} /\ born = MaxTunnels /\ \A r \in Refs : tun[r].uid # Nobody => tun[r].deleting

Phase == Before \/ Meanwhile \/ Afterwards

\* A route is in the tunnel, and its object is there with the finalizer.
HasObject(x) ==
    \E n \in Names :
        /\ route[n].uid = x.owner /\ route[n].fin
        /\ x.ident = IdentityOf(route[n].spec)
        /\ tseen[route[n].spec.tunnelRef].id # None

Rows ==
    /\ inflight = {}
    /\ \A x \in routes : x.id # None /\ x.id <= issued /\ Live(x.tunnel) /\ HasObject(x)
    /\ \A x, y \in routes : x.id = y.id \/ x.owner = y.owner => x = y

\* An object the cache has not shown yet has nothing, and one that the cache
\* shows with the finalizer and not deleted is still there.
Seen ==
    \A n \in Names :
        /\ route[n].uid # rcache[n].uid => ~route[n].fin /\ route[n].rid = None
        /\ rcache[n].fin /\ ~rcache[n].deleting => route[n].uid = rcache[n].uid

\* The identifier in a status names the route of the object, if that is there.
RidNames(o) == o.rid <= issued /\ (o.rid # None => \A x \in routes : x.owner = o.uid <=> x.id = o.rid)

Recorded == RidNames(rt) /\ \A n \in Names : RidNames(route[n]) /\ RidNames(rcache[n])

\* As long as no reconcile can have deleted it, it is there.
InUse(n) ==
    \/ rcache[n].uid = route[n].uid /\ ~rcache[n].deleting
    \/ pc \in Creating /\ cur = n

SomeRid(n) ==
    \/ route[n].rid # None
    \/ rcache[n].uid = route[n].uid /\ rcache[n].rid # None
    \/ pc # "idle" /\ cur = n /\ rt.uid = route[n].uid /\ rt.rid # None

StillThere ==
    tunnels # {} => \A n \in Names :
        route[n].uid # None /\ InUse(n) /\ SomeRid(n) => \E x \in routes : x.owner = route[n].uid

\* What a reconcile knows of its object, its Tunnel and its route.
CopyExact ==
    Current => /\ rt.deleting = route[cur].deleting /\ rt.gen = route[cur].gen
               /\ rt.spec = route[cur].spec

KnowsObject ==
    /\ CopyExact
    /\ rt.uid = route[cur].uid => rcache[cur].uid = rt.uid
    /\ rt.uid # route[cur].uid => ~route[cur].fin
    /\ pc \in Creating => rt.uid = route[cur].uid
    /\ pc = "addFinalizer" => ~rt.deleting
    /\ pc \in Removing => rt.deleting /\ (rcache[cur].uid = rt.uid => rcache[cur].deleting)

KnowsTunnel ==
    /\ pc \in Ensuring \cup {"deleteClientFor", "findRoute", "deleteRoute"} => loc.tid # None
    /\ loc.tid # None /\ tunnels # {} => tseen[rt.spec.tunnelRef].id # None

KnowsRoute ==
    /\ pc # "replaceRoute"
    /\ pc \in {"createRoute", "removeFinalizer"} => \A x \in routes : x.owner # rt.uid
    /\ pc \in {"updateRoute", "deleteRoute"} =>
          /\ loc.id # None /\ loc.id <= issued
          /\ \A x \in routes : x.owner = rt.uid <=> x.id = loc.id

Knowledge == pc # "idle" => KnowsObject /\ KnowsTunnel /\ KnowsRoute

OrphanInv ==
    /\ GuardInv /\ OwnSpecs /\ OneTunnel /\ Phase /\ Rows /\ Seen /\ Recorded /\ StillThere
    /\ Knowledge

-----------------------------------------------------------------------------
(* What the invariant says of the routes of one object *)

\* The types the arithmetic of the invariant needs.
LEMMA Numbers ==
    ASSUME GuardInv
    PROVE  /\ cur \in Names /\ rt \in TunnelRoute /\ loc \in Locals
           /\ issued \in Nat /\ born \in Nat /\ made \in Nat
           /\ rt.rid \in Nat /\ rt.uid \in Nat /\ rt.tid \in Nat /\ loc.tid \in Nat /\ loc.id \in Nat
           /\ \A n \in Names : /\ route[n] \in TunnelRoute /\ rcache[n] \in TunnelRoute
                               /\ route[n].uid \in Nat /\ rcache[n].uid \in Nat
                               /\ route[n].rid \in Nat /\ rcache[n].rid \in Nat
           /\ \A r \in Refs : tun[r].uid \in Nat /\ tun[r].id \in Nat /\ tseen[r].id \in Nat
           /\ \A x \in routes : x.id \in Nat /\ x.owner \in Nat
BY DEF GuardInv, TypeInv, TypeOK, LifecycleTypeOK, TunnelRoute, Locals, TunnelObject, RouteRow

\* The route of a reconcile's object is in the tunnel the reconcile works with.
LEMMA InTheTunnel ==
    ASSUME OrphanInv, loc.tid # None, NEW x \in routes
    PROVE  x.tunnel = loc.tid /\ Live(loc.tid) /\ tunnels # {}
<1>1. Live(x.tunnel)
  BY DEF OrphanInv, Rows
<1>2. Meanwhile
  BY <1>1 DEF OrphanInv, Phase, Before, Afterwards, Live
<1>3. PICK y \in tunnels : tunnels = {y} /\ KnownIds \subseteq {None, y.id}
  BY <1>2 DEF Meanwhile
<1>4. loc.tid \in KnownIds
  BY DEF KnownIds
<1> QED
  BY <1>1, <1>3, <1>4 DEF Live

\* The identity in all the specs of a name is one.
LEMMA SameIdentity ==
    ASSUME OneIdentity, OrphanInv, pc # "idle", rt.uid = route[cur].uid
    PROVE  IdentityOf(route[cur].spec) = IdentityOf(rt.spec)
           /\ route[cur].spec.tunnelRef = rt.spec.tunnelRef
<1>1. rt.uid # None /\ cur \in Names
  BY Numbers DEF OrphanInv, GuardInv, Working
<1>2. route[cur].spec \in SpecsOf[cur] /\ rt.spec \in SpecsOf[cur]
  BY <1>1 DEF OrphanInv, OwnSpecs
<1> QED
  BY <1>1, <1>2 DEF OneIdentity

\* The route of the object of the reconcile has the identity of its spec.
LEMMA OwnRoute ==
    ASSUME OneIdentity, OrphanInv, pc # "idle", NEW x \in routes, x.owner = rt.uid
    PROVE  /\ route[cur].uid = rt.uid /\ route[cur].fin /\ x.ident = IdentityOf(rt.spec)
           /\ tseen[rt.spec.tunnelRef].id # None
<1>1. PICK n \in Names :
        /\ route[n].uid = x.owner /\ route[n].fin
        /\ x.ident = IdentityOf(route[n].spec)
        /\ tseen[route[n].spec.tunnelRef].id # None
  BY DEF OrphanInv, Rows, HasObject
<1>2. n = cur
  BY <1>1 DEF OrphanInv, GuardInv, Working, Knows
<1> QED
  BY <1>1, <1>2, SameIdentity

\* findRoute finds the route of the object, whether by the identifier in the
\* status or by the hostname and the prefix, and no other.
LEMMA FindsOwn ==
    ASSUME Environment, OrphanInv, pc # "idle", loc.tid # None
    PROVE  LET found == FindRoute(routes, loc.tid, rt.rid, rt.spec) IN
           /\ \A x \in routes : x.owner = rt.uid => found # {}
           /\ \A x \in found : x \in routes /\ x.owner = rt.uid /\ x.ident = IdentityOf(rt.spec)
<1> DEFINE named  == {r \in ListRoutes(routes, loc.tid) : rt.rid # None /\ r.id = rt.rid}
           paired == {r \in ListRoutes(routes, loc.tid) :
                         /\ r.ident.hostname = rt.spec.hostname
                         /\ r.ident.pathPrefix = PathPrefix(rt.spec)}
           found  == FindRoute(routes, loc.tid, rt.rid, rt.spec)
<1>1. found = IF named # {} THEN named ELSE paired
  BY DEF FindRoute
<1>2. \A s : /\ IdentityOf(s).hostname = s.hostname
             /\ IdentityOf(s).pathPrefix = PathPrefix(s)
  BY DEF IdentityOf
<1>3. \A x \in routes : x.owner = rt.uid => x \in paired
  BY <1>2, InTheTunnel, OwnRoute DEF ListRoutes, Environment
<1>4. ASSUME NEW x \in named PROVE x \in routes /\ x.owner = rt.uid
  BY DEF ListRoutes, OrphanInv, Recorded, RidNames
<1>5. ASSUME NEW x \in paired PROVE x \in routes /\ x.owner = rt.uid
  <2>1. x \in routes
    BY DEF ListRoutes
  <2>2. PICK n \in Names :
          route[n].uid = x.owner /\ route[n].fin /\ x.ident = IdentityOf(route[n].spec)
    BY <2>1 DEF OrphanInv, Rows, HasObject
  <2>3. route[n].uid # None
    BY <2>1, <2>2, Numbers DEF OrphanInv, GuardInv, Guarded
  <2>4. route[n].spec \in SpecsOf[n] /\ rt.spec \in SpecsOf[cur] /\ cur \in Names
    BY <2>3, Numbers DEF OrphanInv, OwnSpecs
  <2>5. route[n].spec.hostname = rt.spec.hostname /\ PathPrefix(route[n].spec) = PathPrefix(rt.spec)
    BY <1>2, <2>2
  <2>6. n = cur
    BY <2>4, <2>5 DEF Environment, DistinctPairs
  <2> QED
    BY <2>1, <2>2, <2>6 DEF OrphanInv, Knowledge, KnowsObject
<1>6. \A x \in found : x \in routes /\ x.owner = rt.uid
  BY <1>1, <1>4, <1>5
<1> HIDE DEF named, paired
<1>7. \A x \in routes : x.owner = rt.uid => found # {}
  BY <1>1, <1>3
<1> HIDE DEF found
<1>8. \A x \in found : x.ident = IdentityOf(rt.spec)
  BY <1>6, OwnRoute DEF Environment
<1> QED
  BY <1>6, <1>7, <1>8 DEF found

-----------------------------------------------------------------------------
(* Steps of the reconcile that leave the platform and the objects alone *)

outside == <<tun, tunnels, born, issued, route, rcache, tseen, routes, inflight>>

\* Nobody learns of another tunnel.
LEMMA PhaseStep ==
    ASSUME Phase, KnownIds' \subseteq KnownIds \cup {None}, UNCHANGED <<tun, tunnels, born, tseen>>,
           tunnels = {} => KnownRids' \subseteq KnownRids \cup {None}
    PROVE  Phase'
<1>1. CASE Before
  BY <1>1 DEF Phase, Before
<1>2. CASE Meanwhile
  BY <1>2 DEF Phase, Meanwhile
<1>3. CASE Afterwards
  BY <1>3 DEF Phase, Afterwards
<1> QED
  BY <1>1, <1>2, <1>3 DEF Phase

LEMMA OrphanSame ==
    ASSUME OrphanInv, GuardInv', UNCHANGED <<outside, pc, cur, rt, loc>>
    PROVE  OrphanInv'
<1> USE DEF outside
<1>1. OwnSpecs' /\ OneTunnel' /\ Seen'
  BY DEF OrphanInv, OwnSpecs, OneTunnel, Seen
<1>2. Phase'
  <2>1. KnownIds' = KnownIds /\ KnownRids' = KnownRids
    BY DEF KnownIds, KnownRids
  <2> QED
    BY <2>1, PhaseStep DEF OrphanInv
<1>3. Rows'
  BY DEF OrphanInv, Rows, HasObject, Live
<1>4. Recorded'
  BY DEF OrphanInv, Recorded, RidNames
<1>5. StillThere'
  BY DEF OrphanInv, StillThere, InUse, SomeRid
<1>6. Knowledge'
  BY DEF OrphanInv, Knowledge, KnowsObject, CopyExact, Current, KnowsTunnel, KnowsRoute
<1> QED
  BY <1>1, <1>2, <1>3, <1>4, <1>5, <1>6 DEF OrphanInv

LEMMA OrphanIdle ==
    ASSUME OrphanInv, GuardInv', Idle, loc' = NoLocals, UNCHANGED outside
    PROVE  OrphanInv'
<1> USE DEF outside
<1>1. rt'.rid = None /\ rt'.tid = None /\ loc'.tid = None
  BY NoRouteFields DEF Idle, NoLocals
<1>2. OwnSpecs' /\ OneTunnel' /\ Rows' /\ Seen' /\ Knowledge'
  BY DEF OrphanInv, Idle, OwnSpecs, OneTunnel, Rows, HasObject, Live, Seen, Knowledge
<1>3. Phase'
  <2>1. KnownIds' \subseteq KnownIds \cup {None} /\ KnownRids' \subseteq KnownRids \cup {None}
    BY <1>1 DEF KnownIds, KnownRids
  <2> QED
    BY <2>1, PhaseStep DEF OrphanInv
<1>4. Recorded'
  BY <1>1, Numbers DEF OrphanInv, Recorded, RidNames
<1>5. StillThere'
  BY DEF OrphanInv, Idle, StillThere, InUse, SomeRid, Creating, Ensuring
<1> QED
  BY <1>2, <1>3, <1>4, <1>5 DEF OrphanInv

\* The same version of the object, with another status.
SameObject(o, p) == SameMetadata(o, p) /\ o.gen = p.gen /\ o.spec = p.spec

\* The reconcile goes on: it knows no tunnel and no route it did not know.
GoesOn ==
    /\ pc # "idle" /\ pc' # "idle" /\ cur' = cur /\ loc'.tid = loc.tid
    /\ SameObject(rt', rt)
    /\ rt'.tid \in {rt.tid, loc.tid}
    /\ rt'.rid = rt.rid \/ \E x \in routes : x.owner = rt.uid /\ x.id = rt'.rid
    /\ pc' # "addFinalizer"
    /\ pc' \in Creating => pc \in Creating
    /\ pc' \in Removing => pc \in Removing

LEMMA OrphanGoesOn ==
    ASSUME OrphanInv, GuardInv', UNCHANGED outside, GoesOn, KnowsRoute',
           pc' \in Ensuring \cup {"deleteClientFor", "findRoute", "deleteRoute"} => loc.tid # None
    PROVE  OrphanInv'
<1> USE DEF outside
<1>1. OwnSpecs' /\ OneTunnel' /\ Rows' /\ Seen'
  BY DEF OrphanInv, GoesOn, SameObject, OwnSpecs, OneTunnel, Rows, HasObject, Live, Seen
<1>2. Phase'
  <2>1. KnownIds' \subseteq KnownIds
    BY DEF KnownIds, GoesOn
  <2>2. tunnels = {} => routes = {}
    BY DEF OrphanInv, Rows, Live
  <2>3. tunnels = {} => KnownRids' \subseteq KnownRids
    BY <2>2 DEF KnownRids, GoesOn
  <2> QED
    BY <2>1, <2>3, PhaseStep DEF OrphanInv
<1>3. Recorded'
  <2>1. RidNames(rt)'
    <3>1. CASE rt'.rid = rt.rid
      BY <3>1 DEF OrphanInv, Recorded, RidNames, GoesOn, SameObject, SameMetadata
    <3>2. CASE \E x \in routes : x.owner = rt.uid /\ x.id = rt'.rid
      BY <3>2, Numbers DEF OrphanInv, Rows, RidNames, GoesOn, SameObject, SameMetadata
    <3> QED
      BY <3>1, <3>2 DEF GoesOn
  <2> QED
    BY <2>1 DEF OrphanInv, Recorded, RidNames
<1>4. StillThere'
  <2>1. ASSUME tunnels # {}, NEW n \in Names, route[n].uid # None, InUse(n)', SomeRid(n)'
        PROVE  \E x \in routes : x.owner = route[n].uid
    <3>1. InUse(n)
      BY <2>1 DEF InUse, GoesOn
    <3>2. SomeRid(n) \/ \E x \in routes : x.owner = route[n].uid
      BY <2>1 DEF SomeRid, GoesOn, SameObject, SameMetadata
    <3> QED
      BY <2>1, <3>1, <3>2 DEF OrphanInv, StillThere
  <2> QED
    BY <2>1 DEF StillThere
<1>5. Knowledge'
  <2>1. KnowsObject'
    BY DEF OrphanInv, Knowledge, KnowsObject, CopyExact, Current, GoesOn, SameObject, SameMetadata
  <2>2. KnowsTunnel'
    BY DEF OrphanInv, Knowledge, KnowsTunnel, GoesOn, SameObject
  <2> QED
    BY <2>1, <2>2 DEF Knowledge
<1> QED
  BY <1>1, <1>2, <1>3, <1>4, <1>5 DEF OrphanInv

\* The ways a call fails, or a condition ends the reconcile early: the status is
\* written next, and the reconcile knows what it knew.
LEMMA NotSyncedGoesOn ==
    ASSUME OrphanInv, pc # "idle", NEW err, NEW o \in TunnelRoute, SameObject(o, rt),
           o.rid = rt.rid, o.tid = rt.tid, NotSynced(o, err), cur' = cur
    PROVE  /\ GoesOn /\ KnowsRoute' /\ pc' = "finish"
           /\ rt'.rid = rt.rid /\ rt'.tid = rt.tid
<1>1. /\ SameObject(rt', o) /\ rt'.rid = o.rid /\ rt'.tid = o.tid /\ pc' = "finish"
      /\ loc' = [loc EXCEPT !.err = err]
  BY DEF NotSynced, SetReady, SetSynced, SameObject, SameMetadata, TunnelRoute
<1>2. loc'.tid = loc.tid
  BY <1>1, Numbers DEF OrphanInv, Locals
<1> QED
  BY <1>1, <1>2 DEF GoesOn, KnowsRoute, SameObject, SameMetadata, Creating, Removing, Ensuring

LEMMA FailedGoesOn ==
    ASSUME OrphanInv, pc # "idle", Failed
    PROVE  /\ GoesOn /\ KnowsRoute' /\ pc' = "finish"
           /\ rt'.rid = rt.rid /\ rt'.tid = rt.tid
<1>1. \E permanent : NotSynced(rt, ~permanent)
  BY DEF Failed, Refused, AnswerLost, Missing, Fail
<1>2. cur' = cur
  BY DEF Failed, Refused, AnswerLost, Missing
<1>3. rt \in TunnelRoute /\ SameObject(rt, rt)
  BY Numbers DEF OrphanInv, SameObject, SameMetadata
<1> QED
  BY <1>1, <1>2, <1>3, NotSyncedGoesOn

LEMMA OrphanReconcile == ASSUME OneIdentity, OrphanInv, GuardInv', Reconcile PROVE OrphanInv'
<1>1. UNCHANGED outside /\ pc = "idle"
  BY DEF Reconcile, outside, platform, fixed
<1>2. CASE pc' = "idle"
  <2>1. Idle /\ loc' = NoLocals
    BY <1>2 DEF Reconcile, Return, Idle
  <2> QED
    BY <1>1, <2>1, OrphanIdle
<1>3. CASE pc' # "idle"
  <2>1. PICK n \in Names :
          LET o      == rcache[n]
              tunnel == tseen[o.spec.tunnelRef]
              to     == Dispatch(o, tunnel)
          IN  /\ cur' = n /\ pc' = to
              /\ rt' = IF to = "finish" THEN SetReady(SetSynced(o, FALSE)) ELSE o
              /\ loc' = [NoLocals EXCEPT !.tid = tunnel.id]
    BY <1>3 DEF Reconcile, Return
  <2> DEFINE o      == rcache[n]
             tunnel == tseen[o.spec.tunnelRef]
  <2>2. o \in TunnelRoute
    BY Numbers DEF OrphanInv
  <2>3. SameObject(rt', o) /\ rt'.rid = o.rid /\ rt'.tid = o.tid
    BY <2>1, <2>2 DEF SameObject, SameMetadata, SetReady, SetSynced, TunnelRoute
  <2>4. loc'.tid = tunnel.id
    BY <2>1 DEF NoLocals
  <2>5. /\ o.uid # None /\ pc' = Dispatch(o, tunnel) /\ cur' = n
        /\ pc' \in {"addFinalizer", "resolve", "finish", "deleteClientFor", "removeFinalizer"}
        /\ pc' = "resolve" => o.fin /\ ~o.deleting
        /\ pc' \in Removing => o.deleting
        /\ pc' = "addFinalizer" => ~o.deleting
        /\ pc' = "deleteClientFor" => tunnel.id # None
        /\ pc' = "removeFinalizer" => tunnel.uid = None \/ tunnel.id = None
    BY <1>3, <2>1 DEF Dispatch, DispatchDelete, Removing
  <2>6. o.spec \in SpecsOf[n] /\ o.spec.tunnelRef \in Refs
    <3>1. o.spec \in SpecsOf[n]
      BY <2>5 DEF OrphanInv, OwnSpecs
    <3>2. o.spec \in Specs
      BY <2>2 DEF TunnelRoute
    <3> QED
      BY <3>1, <3>2, SpecType DEF RouteSpec
  <2>7. OwnSpecs' /\ OneTunnel' /\ Rows' /\ Seen'
    BY <1>1, <2>3, <2>5, <2>6
       DEF outside, OrphanInv, SameObject, OwnSpecs, OneTunnel, Rows, HasObject, Live, Seen
  <2>8. Phase'
    <3>1. KnownIds' \subseteq KnownIds /\ KnownRids' \subseteq KnownRids
      BY <1>1, <2>3, <2>4, <2>6 DEF KnownIds, KnownRids, outside
    <3> QED
      BY <1>1, <3>1, PhaseStep DEF OrphanInv, outside
  <2>9. Recorded'
    BY <1>1, <2>3 DEF outside, OrphanInv, Recorded, RidNames, SameObject, SameMetadata
  <2>10. StillThere'
    <3>1. ASSUME NEW m \in Names, InUse(m)', SomeRid(m)', route[m].uid # None
          PROVE  InUse(m) /\ SomeRid(m)
      BY <1>1, <2>3, <2>5, <3>1
         DEF outside, OrphanInv, Seen, InUse, SomeRid, SameObject, SameMetadata, Creating, Ensuring
    <3> QED
      BY <1>1, <3>1 DEF outside, OrphanInv, StillThere
  <2>11. Knowledge'
    <3>1. KnowsObject'
      BY <1>1, <2>3, <2>5 DEF outside, OrphanInv, GuardInv, Versions, Seen, KnowsObject, CopyExact,
         Current, SameObject, SameMetadata, Creating, Ensuring, Removing
    <3>2. KnowsTunnel'
      BY <1>1, <2>3, <2>4, <2>5 DEF outside, KnowsTunnel, SameObject, Ensuring
    <3>3. ASSUME pc' = "removeFinalizer", NEW x \in routes, x.owner = o.uid PROVE FALSE
      <4>1. PICK m \in Names :
              /\ route[m].uid = x.owner
              /\ tseen[route[m].spec.tunnelRef].id # None
        BY DEF OrphanInv, Rows, HasObject
      <4>2. m = n
        BY <2>5, <3>3, <4>1 DEF OrphanInv, GuardInv, Versions, Knows
      <4>3. route[n].spec \in SpecsOf[n]
        BY <2>5, <3>3, <4>1, <4>2 DEF OrphanInv, OwnSpecs
      <4>4. route[n].spec.tunnelRef = o.spec.tunnelRef
        BY <2>6, <4>3 DEF OneIdentity
      <4>5. tunnel.id # None
        BY <4>1, <4>2, <4>4
      <4>6. tunnel.uid # None
        BY <2>6, <4>5 DEF OrphanInv, OneTunnel
      <4> QED
        BY <2>5, <3>3, <4>5, <4>6
    <3>4. KnowsRoute'
      BY <1>1, <2>3, <2>5, <3>3 DEF outside, KnowsRoute, SameObject, SameMetadata
    <3> QED
      BY <3>1, <3>2, <3>4 DEF Knowledge
  <2> QED
    BY <2>7, <2>8, <2>9, <2>10, <2>11 DEF OrphanInv
<1> QED
  BY <1>2, <1>3

LEMMA OrphanResolve == ASSUME OrphanInv, GuardInv', Resolve PROVE OrphanInv'
<1>1. UNCHANGED outside /\ pc = "resolve" /\ cur' = cur
  BY DEF Resolve, outside, platform, fixed
<1>2. ASSUME NEW b \in BOOLEAN
      PROVE  /\ SetResolved(rt, b) \in TunnelRoute /\ SameObject(SetResolved(rt, b), rt)
             /\ SetResolved(rt, b).rid = rt.rid /\ SetResolved(rt, b).tid = rt.tid
  <2>1. rt \in TunnelRoute
    BY Numbers DEF OrphanInv
  <2>2. SetResolved(rt, b) \in TunnelRoute
    BY <2>1 DEF SetResolved, TunnelRoute
  <2> QED
    BY <2>1, <2>2 DEF SetResolved, SameObject, SameMetadata, TunnelRoute
<1>3. rt \in TunnelRoute /\ SameObject(rt, rt)
  BY Numbers DEF OrphanInv, SameObject, SameMetadata
<1>4. \/ \E o \in TunnelRoute : /\ NotSynced(o, FALSE) /\ SameObject(o, rt)
                                /\ o.rid = rt.rid /\ o.tid = rt.tid
      \/ /\ rt' = SetResolved(rt, TRUE) /\ pc' = "listRoutes" /\ loc.tid # None
         /\ \E a : loc' = [loc EXCEPT !.addr = a]
  BY <1>2, <1>3 DEF Resolve
<1>5. CASE \E o \in TunnelRoute : /\ NotSynced(o, FALSE) /\ SameObject(o, rt)
                                  /\ o.rid = rt.rid /\ o.tid = rt.tid
  <2>1. GoesOn /\ KnowsRoute' /\ pc' = "finish"
    BY <1>1, <1>5, NotSyncedGoesOn
  <2> QED
    BY <1>1, <2>1, OrphanGoesOn DEF Ensuring
<1>6. CASE /\ rt' = SetResolved(rt, TRUE) /\ pc' = "listRoutes" /\ loc.tid # None
           /\ \E a : loc' = [loc EXCEPT !.addr = a]
  <2>1. loc'.tid = loc.tid
    BY <1>6, Numbers DEF OrphanInv, Locals
  <2>2. GoesOn /\ KnowsRoute'
    BY <1>1, <1>2, <1>6, <2>1 DEF GoesOn, KnowsRoute, Creating, Removing, Ensuring
  <2> QED
    BY <1>1, <1>6, <2>2, OrphanGoesOn
<1> QED
  BY <1>4, <1>5, <1>6

\* A comparison of the route of the object with its spec.
LEMMA CompareGoesOn ==
    ASSUME OrphanInv, pc \in Ensuring, cur' = cur, NEW row, row.owner = rt.uid, Compare(row)
    PROVE  /\ pc' \in {"finish", "updateRoute"} /\ cur' = cur /\ loc'.tid = loc.tid
           /\ SameObject(rt', rt) /\ rt'.tid \in {rt.tid, loc.tid}
           /\ rt'.rid = rt.rid \/ rt'.rid = row.id
           /\ pc' = "updateRoute" => loc'.id = row.id /\ rt' = rt
           /\ pc' = "finish" => rt'.rid = row.id
<1>1. rt \in TunnelRoute /\ loc \in Locals
  BY Numbers DEF OrphanInv
<1>2. CASE RouteDrift(row, rt.spec, Upstream) = {}
  <2>1. Published(row.id)
    BY <1>2 DEF Compare
  <2>2. SameObject(rt', rt) /\ rt'.rid = row.id /\ rt'.tid = loc.tid /\ pc' = "finish" /\ loc' = loc
    BY <1>1, <2>1 DEF Published, SetReady, SetSynced, SameObject, SameMetadata, TunnelRoute
  <2> QED
    BY <2>2
<1>3. CASE RouteDrift(row, rt.spec, Upstream) # {}
  <2>1. pc' = "updateRoute" /\ rt' = rt
        /\ loc' = [loc EXCEPT !.id = row.id, !.drift = RouteDrift(row, rt.spec, Upstream)]
    BY <1>3 DEF Compare
  <2>2. loc'.id = row.id /\ loc'.tid = loc.tid
    BY <1>1, <2>1 DEF Locals
  <2> QED
    BY <2>1, <2>2 DEF SameObject, SameMetadata
<1> QED
  BY <1>2, <1>3

LEMMA OrphanListRoutes ==
    ASSUME Environment, OrphanInv, GuardInv', CallListRoutes
    PROVE  OrphanInv'
<1> DEFINE found == FindRoute(routes, loc.tid, rt.rid, rt.spec)
<1>1. UNCHANGED outside /\ pc = "listRoutes" /\ cur' = cur /\ loc.tid # None
  BY DEF CallListRoutes, Refused, Missing, outside, platform, fixed, OrphanInv, Knowledge, KnowsTunnel,
         Ensuring
<1>2. /\ \A x \in routes : x.owner = rt.uid => found # {}
      /\ \A x \in found : x \in routes /\ x.owner = rt.uid /\ x.ident = IdentityOf(rt.spec)
  BY <1>1, FindsOwn
<1> HIDE DEF found
<1>3. CASE Failed
  <2>1. GoesOn /\ KnowsRoute' /\ pc' = "finish"
    BY <1>1, <1>3, FailedGoesOn
  <2> QED
    BY <1>1, <2>1, OrphanGoesOn DEF Ensuring
<1>4. CASE ~Failed /\ found = {}
  <2>1. pc' = "createRoute" /\ UNCHANGED <<rt, loc>>
    BY <1>4 DEF CallListRoutes, found, Failed
  <2>2. GoesOn
    BY <1>1, <2>1 DEF GoesOn, SameObject, SameMetadata, Creating, Removing, Ensuring
  <2>3. KnowsRoute'
    BY <1>1, <1>2, <1>4, <2>1 DEF KnowsRoute, outside
  <2> QED
    BY <1>1, <2>2, <2>3, OrphanGoesOn
<1>5. CASE ~Failed /\ found # {}
  <2>1. PICK row \in found :
          IF IdentityChanged(row, rt.spec)
          THEN /\ pc' = "replaceRoute"
               /\ loc' = [loc EXCEPT !.id = row.id]
               /\ UNCHANGED rt
          ELSE Compare(row)
    BY <1>5 DEF CallListRoutes, found, Failed
  <2>2. row \in routes /\ row.owner = rt.uid /\ Compare(row)
    BY <1>2, <2>1 DEF IdentityChanged
  <2>3. /\ pc' \in {"finish", "updateRoute"} /\ cur' = cur /\ loc'.tid = loc.tid
        /\ SameObject(rt', rt) /\ rt'.tid \in {rt.tid, loc.tid}
        /\ rt'.rid = rt.rid \/ rt'.rid = row.id
        /\ pc' = "updateRoute" => loc'.id = row.id /\ rt' = rt
    BY <1>1, <2>2, CompareGoesOn DEF Ensuring
  <2>4. GoesOn
    BY <1>1, <2>2, <2>3 DEF GoesOn, Creating, Removing, Ensuring
  <2>5. KnowsRoute'
    BY <1>1, <2>2, <2>3, Numbers DEF KnowsRoute, outside, OrphanInv, Rows
  <2> QED
    BY <1>1, <2>4, <2>5, OrphanGoesOn
<1> QED
  BY <1>3, <1>4, <1>5

LEMMA OrphanDeleteClientFor ==
    ASSUME OrphanInv, GuardInv', DeleteClientFor
    PROVE  OrphanInv'
<1>1. UNCHANGED outside /\ pc = "deleteClientFor" /\ loc.tid # None
  BY DEF DeleteClientFor, outside, platform, fixed, OrphanInv, Knowledge, KnowsTunnel, Ensuring
<1>2. CASE pc' = "idle"
  BY <1>1, <1>2, OrphanIdle DEF DeleteClientFor, AfterDeleteClient, Return, Idle
<1>3. CASE pc' # "idle"
  <2>1. /\ pc' = (IF rt.rid # None THEN "deleteRoute" ELSE "findRoute")
        /\ loc' = [loc EXCEPT !.id = rt.rid] /\ UNCHANGED <<cur, rt>>
    BY <1>3 DEF DeleteClientFor, AfterDeleteClient, Return
  <2>2. loc'.id = rt.rid /\ loc'.tid = loc.tid
    BY <2>1, Numbers DEF OrphanInv, Locals
  <2>3. GoesOn
    BY <1>1, <2>1, <2>2 DEF GoesOn, SameObject, SameMetadata, Creating, Removing, Ensuring
  <2>4. KnowsRoute'
    BY <1>1, <2>1, <2>2 DEF KnowsRoute, outside, OrphanInv, Recorded, RidNames
  <2> QED
    BY <1>1, <2>3, <2>4, OrphanGoesOn
<1> QED
  BY <1>2, <1>3

LEMMA OrphanFindRoute ==
    ASSUME Environment, OrphanInv, GuardInv', CallFindRoute
    PROVE  OrphanInv'
<1> DEFINE found == FindRoute(routes, loc.tid, rt.rid, rt.spec)
<1>1. UNCHANGED outside /\ pc = "findRoute" /\ loc.tid # None
  BY DEF CallFindRoute, outside, platform, fixed, OrphanInv, Knowledge, KnowsTunnel, Ensuring
<1>2. /\ \A x \in routes : x.owner = rt.uid => found # {}
      /\ \A x \in found : x \in routes /\ x.owner = rt.uid /\ x.ident = IdentityOf(rt.spec)
  BY <1>1, FindsOwn
<1> HIDE DEF found
<1>3. CASE pc' = "idle"
  BY <1>1, <1>3, OrphanIdle DEF CallFindRoute, Return, Idle
<1>4. CASE pc' # "idle"
  <2>1. /\ UNCHANGED <<cur, rt>>
        /\ \/ found = {} /\ pc' = "removeFinalizer" /\ UNCHANGED loc
           \/ pc' = "deleteRoute" /\ \E row \in found : loc' = [loc EXCEPT !.id = row.id]
    BY <1>4 DEF CallFindRoute, Return, found
  <2>2. loc'.tid = loc.tid /\ (pc' = "deleteRoute" => \E row \in found : loc'.id = row.id)
    BY <2>1, Numbers DEF OrphanInv, Locals
  <2>3. GoesOn
    BY <1>1, <2>1, <2>2 DEF GoesOn, SameObject, SameMetadata, Creating, Removing, Ensuring
  <2>4. KnowsRoute'
    BY <1>1, <1>2, <2>1, <2>2, Numbers DEF KnowsRoute, outside, OrphanInv, Rows
  <2> QED
    BY <1>1, <2>3, <2>4, OrphanGoesOn
<1> QED
  BY <1>3, <1>4

-----------------------------------------------------------------------------
(* Steps that change the routes *)

\* What the calls of the platform leave alone.
elsewhere == <<tun, tunnels, born, route, rcache, tseen, inflight>>

\* The route that is created: one for an object that has none.
LEMMA OrphanCreateRoute ==
    ASSUME OneIdentity, ~LateCreates, OrphanInv, GuardInv', CallCreateRoute
    PROVE  OrphanInv'
<1>1. pc = "createRoute" /\ loc.tid # None /\ pc \in Ensuring /\ pc \in Creating
  BY DEF CallCreateRoute, OrphanInv, Knowledge, KnowsTunnel, Creating, Ensuring
<1>2. CASE UNCHANGED routes
  <2>1. Failed /\ UNCHANGED outside
    <3>1. \/ UNCHANGED platform /\ Failed
          \/ routes' = routes \cup {Asked}
      BY DEF CallCreateRoute, Failed, Asked
    <3>2. Asked \notin routes
      BY <1>1 DEF Asked, NewRoute, OrphanInv, Knowledge, KnowsRoute
    <3> QED
      BY <1>2, <3>1, <3>2 DEF CallCreateRoute, platform, fixed, outside
  <2>2. GoesOn /\ KnowsRoute' /\ pc' = "finish"
    BY <1>1, <2>1, FailedGoesOn
  <2> QED
    BY <2>1, <2>2, OrphanGoesOn DEF Ensuring
<1>3. CASE ~UNCHANGED routes
  <2>0. PICK row : row = Asked
    OBVIOUS
  <2>1. /\ routes' = routes \cup {row} /\ issued' = issued + 1 /\ Live(loc.tid)
        /\ UNCHANGED <<elsewhere, cur>>
        /\ Failed \/ Compare(row)
    BY <1>3, <2>0 DEF CallCreateRoute, Asked, Failed, AfterCreate, AnswerLost, platform, fixed, elsewhere
  <2>2. tunnels # {} /\ rt.uid = route[cur].uid /\ rt.uid # None /\ route[cur].fin
    BY <1>1, <2>1 DEF Live, OrphanInv, GuardInv, Working, Knowledge, KnowsObject
  <2>3. /\ row.id = issued + 1 /\ row.owner = rt.uid /\ row.tunnel = loc.tid
        /\ row.ident = IdentityOf(rt.spec)
    BY <2>0 DEF Asked, NewRoute, IdentityOf, PathPrefix
  <2>4. \A x \in routes : x.owner # rt.uid /\ x.id # issued + 1
    BY <1>1, Numbers DEF OrphanInv, Knowledge, KnowsRoute, Rows
  \* Nobody has recorded a route for the object.
  <2>5. ~SomeRid(cur)
    BY <1>1, <2>2, <2>4, Numbers DEF OrphanInv, StillThere, InUse
  <2>6. /\ pc' \in {"finish", "updateRoute"} /\ loc'.tid = loc.tid
        /\ SameObject(rt', rt) /\ rt'.tid \in {rt.tid, loc.tid}
        /\ rt'.rid = rt.rid \/ rt'.rid = issued + 1
        /\ pc' = "updateRoute" => loc'.id = issued + 1 /\ rt' = rt
    <3>1. CASE Failed
      BY <1>1, <3>1, FailedGoesOn DEF GoesOn
    <3>2. CASE Compare(row)
      BY <1>1, <2>1, <2>3, <3>2, CompareGoesOn
    <3> QED
      BY <2>1, <3>1, <3>2
  <2>7. OwnSpecs' /\ OneTunnel' /\ Seen'
    BY <1>1, <2>1, <2>6 DEF elsewhere, OrphanInv, SameObject, OwnSpecs, OneTunnel, Seen
  <2>8. Phase'
    <3>1. KnownIds' \subseteq KnownIds
      BY <2>1, <2>6 DEF KnownIds, elsewhere
    <3> QED
      BY <2>1, <2>2, <3>1, PhaseStep DEF OrphanInv, elsewhere
  <2>9. Rows'
    <3>1. \A x \in routes : HasObject(x)' /\ Live(x.tunnel)' /\ x.id <= issued'
      BY <2>1, Numbers DEF elsewhere, OrphanInv, Rows, HasObject, Live
    <3>2. HasObject(row)'
      <4>1. /\ route[cur].uid = row.owner /\ route[cur].fin
            /\ row.ident = IdentityOf(route[cur].spec)
            /\ tseen[route[cur].spec.tunnelRef].id # None
        BY <1>1, <2>2, <2>3, SameIdentity DEF OrphanInv, Knowledge, KnowsTunnel
      <4> QED
        BY <2>1, <4>1, Numbers DEF HasObject, elsewhere, OrphanInv
    <3>3. Live(row.tunnel)' /\ row.id # None /\ row.id <= issued'
      BY <2>1, <2>3, Numbers DEF Live, elsewhere, OrphanInv
    <3>4. \A x, y \in routes \cup {row} : x.id = y.id \/ x.owner = y.owner => x = y
      BY <2>1, <2>3, <2>4 DEF OrphanInv, Rows
    <3> QED
      BY <2>1, <3>1, <3>2, <3>3, <3>4 DEF OrphanInv, Rows, elsewhere
  <2>10. Recorded'
    <3>1. ASSUME NEW o \in TunnelRoute, RidNames(o), o.uid = rt.uid => o.rid = None
          PROVE  RidNames(o)'
      <4>1. o.rid \in Nat /\ issued \in Nat
        BY Numbers DEF OrphanInv, TunnelRoute
      <4> QED
        BY <2>1, <2>3, <3>1, <4>1 DEF RidNames
    <3>2. ASSUME NEW n \in Names
          PROVE  /\ route[n].uid = rt.uid => route[n].rid = None
                 /\ rcache[n].uid = rt.uid => rcache[n].rid = None
      BY <2>2, <2>5, Numbers DEF OrphanInv, GuardInv, Versions, Knows, SomeRid
    <3>3. RidNames(rt)'
      <4>1. rt.rid = None
        BY <1>1, <2>2, <2>5 DEF SomeRid
      <4> QED
        BY <2>1, <2>3, <2>4, <2>6, <4>1, Numbers DEF OrphanInv, RidNames, SameObject, SameMetadata
    <3>4. ASSUME NEW n \in Names PROVE RidNames(route[n])' /\ RidNames(rcache[n])'
      <4>1. route[n] \in TunnelRoute /\ rcache[n] \in TunnelRoute
        BY Numbers DEF OrphanInv
      <4>2. RidNames(route[n]) /\ RidNames(rcache[n])
        BY DEF OrphanInv, Recorded
      <4>3. route'[n] = route[n] /\ rcache'[n] = rcache[n]
        BY <2>1 DEF elsewhere
      <4> QED
        BY <3>1, <3>2, <4>1, <4>2, <4>3 DEF RidNames
    <3> QED
      BY <3>3, <3>4 DEF Recorded
  <2>11. StillThere'
    <3>1. ASSUME NEW n \in Names \ {cur}, InUse(n)', SomeRid(n)' PROVE InUse(n) /\ SomeRid(n)
      BY <2>1, <3>1 DEF InUse, SomeRid, elsewhere
    <3>2. ASSUME NEW n \in Names, route[n].uid # None, InUse(n)', SomeRid(n)'
          PROVE  \E x \in routes' : x.owner = route[n].uid
      <4>1. CASE n = cur
        BY <2>1, <2>2, <2>3, <4>1
      <4>2. CASE n # cur
        BY <2>1, <2>2, <3>1, <3>2, <4>2 DEF OrphanInv, StillThere
      <4> QED
        BY <4>1, <4>2
    <3> QED
      BY <2>1, <3>2 DEF StillThere, elsewhere
  <2>12. Knowledge'
    <3>1. KnowsObject'
      BY <1>1, <2>1, <2>6 DEF elsewhere, OrphanInv, Knowledge, KnowsObject, CopyExact, Current,
         SameObject, SameMetadata, Creating, Ensuring, Removing
    <3>2. KnowsTunnel'
      BY <1>1, <2>1, <2>6 DEF elsewhere, OrphanInv, Knowledge, KnowsTunnel, SameObject
    <3>3. KnowsRoute'
      BY <2>1, <2>3, <2>4, <2>6, Numbers DEF OrphanInv, KnowsRoute
    <3> QED
      BY <3>1, <3>2, <3>3 DEF Knowledge
  <2> QED
    BY <2>7, <2>8, <2>9, <2>10, <2>11, <2>12 DEF OrphanInv
<1> QED
  BY <1>2, <1>3

\* The route that is updated keeps everything but its settings.
Alike(x, y) == x.id = y.id /\ x.tunnel = y.tunnel /\ x.ident = y.ident /\ x.owner = y.owner

SameRoutes ==
    /\ \A x \in routes : \E y \in routes' : Alike(x, y)
    /\ \A y \in routes' : \E x \in routes : Alike(x, y)
    /\ \A x, y \in routes' : x.id = y.id => x = y

LEMMA OrphanSameRoutes ==
    ASSUME OrphanInv, GuardInv', UNCHANGED <<elsewhere, issued>>, SameRoutes, GoesOn, pc' = "finish"
    PROVE  OrphanInv'
<1> USE DEF elsewhere
<1>1. OwnSpecs' /\ OneTunnel' /\ Seen'
  BY DEF OrphanInv, GoesOn, SameObject, OwnSpecs, OneTunnel, Seen
<1>2. Phase'
  <2>1. KnownIds' \subseteq KnownIds
    BY DEF KnownIds, GoesOn
  <2>2. tunnels = {} => routes = {}
    BY DEF OrphanInv, Rows, Live
  <2>3. tunnels = {} => KnownRids' \subseteq KnownRids
    BY <2>2 DEF KnownRids, GoesOn
  <2> QED
    BY <2>1, <2>3, PhaseStep DEF OrphanInv
<1>3. Rows'
  <2>1. ASSUME NEW y \in routes'
        PROVE  y.id # None /\ y.id <= issued /\ Live(y.tunnel)' /\ HasObject(y)'
    <3>1. PICK x \in routes : Alike(x, y)
      BY DEF SameRoutes
    <3>2. x.id # None /\ x.id <= issued /\ Live(x.tunnel) /\ HasObject(x)
      BY DEF OrphanInv, Rows
    <3>3. Live(y.tunnel)'
      BY <3>1, <3>2 DEF Alike, Live
    <3>4. HasObject(y)'
      BY <3>1, <3>2 DEF Alike, HasObject
    <3> QED
      BY <3>1, <3>2, <3>3, <3>4 DEF Alike
  <2>2. ASSUME NEW y \in routes', NEW z \in routes', y.id = z.id \/ y.owner = z.owner PROVE y = z
    BY <2>2 DEF OrphanInv, Rows, SameRoutes, Alike
  <2> QED
    BY <2>1, <2>2 DEF OrphanInv, Rows
<1>4. ASSUME NEW u, NEW id, \A x \in routes : x.owner = u <=> x.id = id
      PROVE  \A x \in routes' : x.owner = u <=> x.id = id
  BY <1>4 DEF SameRoutes, Alike
<1>5. Recorded'
  <2>1. RidNames(rt)'
    <3>1. CASE rt'.rid = rt.rid
      BY <1>4, <3>1 DEF OrphanInv, Recorded, RidNames, GoesOn, SameObject, SameMetadata
    <3>2. CASE \E x \in routes : x.owner = rt.uid /\ x.id = rt'.rid
      <4>1. \A x \in routes : x.owner = rt.uid <=> x.id = rt'.rid
        BY <3>2 DEF OrphanInv, Rows
      <4>2. \A x \in routes' : x.owner = rt.uid <=> x.id = rt'.rid
        BY <1>4, <4>1
      <4>3. rt'.rid <= issued /\ rt'.uid = rt.uid
        BY <3>2 DEF OrphanInv, Rows, GoesOn, SameObject, SameMetadata
      <4> QED
        BY <4>2, <4>3 DEF RidNames
    <3> QED
      BY <3>1, <3>2 DEF GoesOn
  <2> QED
    BY <1>4, <2>1 DEF OrphanInv, Recorded, RidNames
<1>6. StillThere'
  <2>1. ASSUME tunnels # {}, NEW n \in Names, route[n].uid # None, InUse(n)', SomeRid(n)'
        PROVE  \E x \in routes' : x.owner = route[n].uid
    <3>1. InUse(n)
      BY <2>1 DEF InUse, GoesOn
    <3>2. SomeRid(n) \/ \E x \in routes : x.owner = route[n].uid
      BY <2>1 DEF SomeRid, GoesOn, SameObject, SameMetadata
    <3>3. \E x \in routes : x.owner = route[n].uid
      BY <2>1, <3>1, <3>2 DEF OrphanInv, StillThere
    <3> QED
      BY <3>3 DEF SameRoutes, Alike
  <2> QED
    BY <2>1 DEF StillThere
<1>7. Knowledge'
  <2>1. KnowsObject'
    BY DEF OrphanInv, Knowledge, KnowsObject, CopyExact, Current, GoesOn, SameObject, SameMetadata
  <2>2. KnowsTunnel' /\ KnowsRoute'
    BY DEF OrphanInv, Knowledge, KnowsTunnel, KnowsRoute, GoesOn, SameObject, Ensuring
  <2> QED
    BY <2>1, <2>2 DEF Knowledge
<1> QED
  BY <1>1, <1>2, <1>3, <1>5, <1>6, <1>7 DEF OrphanInv

LEMMA OrphanUpdateRoute == ASSUME OrphanInv, GuardInv', CallUpdateRoute PROVE OrphanInv'
<1> DEFINE target == {r \in routes : r.tunnel = loc.tid /\ r.id = loc.id}
           wanted == SettingsOf(rt.spec, Upstream)
<1>1. /\ pc = "updateRoute" /\ UNCHANGED <<elsewhere, issued, cur>>
      /\ \A x \in routes : x.owner = rt.uid <=> x.id = loc.id
  BY DEF CallUpdateRoute, Failed, Refused, Missing, AnswerLost, Published, elsewhere, fixed, OrphanInv,
         Knowledge, KnowsRoute
<1>2. CASE UNCHANGED routes /\ Failed
  <2>1. GoesOn /\ KnowsRoute' /\ pc' = "finish"
    BY <1>1, <1>2, FailedGoesOn
  <2> QED
    BY <1>1, <1>2, <2>1, OrphanGoesOn DEF Ensuring, outside, elsewhere
<1>3. CASE /\ target # {}
           /\ routes' = (routes \ target) \cup {Updated(r, loc.drift, wanted) : r \in target}
           /\ Published(loc.id) \/ Failed
  <2>1. ASSUME NEW r \in routes PROVE Alike(r, Updated(r, loc.drift, wanted))
    <3>1. r \in RouteRow
      BY DEF OrphanInv, GuardInv, TypeInv, TypeOK
    <3> QED
      BY <3>1 DEF Alike, Updated, RouteRow
  <2>2. SameRoutes
    <3>1. \A x, y \in routes : x.id = y.id => x = y
      BY DEF OrphanInv, Rows
    <3> HIDE DEF wanted
    <3>2. \A x \in routes : \E y \in routes' : Alike(x, y)
      <4>1. \A x : Alike(x, x)
        BY DEF Alike
      <4> QED
        BY <1>3, <2>1, <4>1
    <3>3. \A y \in routes' : \E x \in routes :
             Alike(x, y) /\ y = IF x \in target THEN Updated(x, loc.drift, wanted) ELSE x
      BY <1>3, <2>1 DEF Alike
    <3>4. \A x, y \in routes' : x.id = y.id => x = y
      BY <3>1, <3>3 DEF Alike
    <3> QED
      BY <3>2, <3>3, <3>4 DEF SameRoutes
  <2>3. GoesOn /\ pc' = "finish"
    <3>1. CASE Failed
      BY <1>1, <3>1, FailedGoesOn
    <3>2. CASE Published(loc.id)
      <4>1. rt \in TunnelRoute
        BY Numbers DEF OrphanInv
      <4>2. SameObject(rt', rt) /\ rt'.rid = loc.id /\ rt'.tid = loc.tid /\ pc' = "finish" /\ loc' = loc
        BY <3>2, <4>1 DEF Published, SetReady, SetSynced, SameObject, SameMetadata, TunnelRoute
      <4>3. \E x \in routes : x.owner = rt.uid /\ x.id = loc.id
        BY <1>1, <1>3
      <4> QED
        BY <1>1, <4>2, <4>3 DEF GoesOn, Creating, Removing, Ensuring
    <3> QED
      BY <1>3, <3>1, <3>2
  <2> QED
    BY <1>1, <2>2, <2>3, OrphanSameRoutes
<1> QED
  BY <1>2, <1>3 DEF CallUpdateRoute, Failed

\* What deleteRoute removes is the route of an object that is being deleted.
LEMMA OrphanDeleteRoute ==
    ASSUME ~BareNotFounds, OrphanInv, GuardInv', CallDeleteRoute
    PROVE  OrphanInv'
<1>1. /\ pc = "deleteRoute" /\ UNCHANGED <<elsewhere, issued>> /\ loc.tid # None
      /\ \A x \in routes : x.owner = rt.uid <=> x.id = loc.id
      /\ rt.deleting /\ (rcache[cur].uid = rt.uid => rcache[cur].deleting)
  BY DEF CallDeleteRoute, elsewhere, fixed, OrphanInv, Knowledge, KnowsRoute, KnowsTunnel, KnowsObject,
         Ensuring, Removing
<1>2. /\ \/ routes' = DeleteRoute(routes, loc.tid, loc.id)
         \/ UNCHANGED routes
      /\ \/ Idle /\ loc' = NoLocals
         \/ /\ routes' = DeleteRoute(routes, loc.tid, loc.id)
            /\ pc' = "removeFinalizer" /\ UNCHANGED <<cur, rt, loc>>
  BY DEF CallDeleteRoute, BareNotFound, Return, Idle
<1>3. \A x \in routes : x.tunnel = loc.tid
  BY <1>1, InTheTunnel
<1>4. /\ routes' \subseteq routes
      /\ \A x \in routes : x \notin routes' => x.owner = rt.uid
      /\ routes' = DeleteRoute(routes, loc.tid, loc.id) => \A x \in routes' : x.owner # rt.uid
  BY <1>1, <1>2, <1>3 DEF DeleteRoute
<1> USE DEF elsewhere
<1>5. OwnSpecs' /\ OneTunnel' /\ Seen'
  BY <1>1, <1>2 DEF OrphanInv, OwnSpecs, OneTunnel, Seen, Idle
<1>6. Phase'
  <2>1. KnownIds' \subseteq KnownIds \cup {None} /\ KnownRids' \subseteq KnownRids \cup {None}
    BY <1>1, <1>2, NoRouteFields DEF KnownIds, KnownRids, Idle, NoLocals
  <2> QED
    BY <1>1, <2>1, PhaseStep DEF OrphanInv
<1>7. Rows'
  BY <1>1, <1>4 DEF OrphanInv, Rows, HasObject, Live
<1>8. Recorded'
  <2>1. RidNames(rt)'
    BY <1>1, <1>2, <1>4, NoRouteFields, Numbers DEF OrphanInv, Recorded, RidNames, Idle
  <2> QED
    BY <1>1, <1>4, <2>1 DEF OrphanInv, Recorded, RidNames
<1>9. StillThere'
  <2>1. ASSUME tunnels # {}, NEW n \in Names, route[n].uid # None, InUse(n)', SomeRid(n)'
        PROVE  \E x \in routes' : x.owner = route[n].uid
    <3>1. rcache[n].uid = route[n].uid /\ ~rcache[n].deleting
      BY <1>1, <1>2, <2>1 DEF InUse, Idle, Creating, Ensuring
    <3>2. InUse(n) /\ SomeRid(n)
      BY <1>1, <1>2, <2>1, <3>1 DEF InUse, SomeRid, Idle
    <3>3. PICK x \in routes : x.owner = route[n].uid
      BY <2>1, <3>2 DEF OrphanInv, StillThere
    <3>4. route[n].uid # rt.uid
      <4>1. ASSUME route[n].uid = rt.uid PROVE n = cur
        BY <1>1, <2>1, <4>1 DEF OrphanInv, GuardInv, Working, Knows
      <4> QED
        BY <1>1, <3>1, <4>1
    <3> QED
      BY <1>4, <3>3, <3>4
  <2> QED
    BY <1>1, <2>1 DEF StillThere
<1>10. Knowledge'
  <2>1. CASE Idle
    BY <2>1 DEF Idle, Knowledge
  <2>2. CASE /\ routes' = DeleteRoute(routes, loc.tid, loc.id)
             /\ pc' = "removeFinalizer" /\ UNCHANGED <<cur, rt, loc>>
    <3>1. KnowsObject' /\ KnowsTunnel'
      BY <1>1, <2>2 DEF OrphanInv, Knowledge, KnowsObject, CopyExact, Current, KnowsTunnel, Creating,
         Removing, Ensuring
    <3>2. KnowsRoute'
      BY <1>4, <2>2 DEF KnowsRoute
    <3> QED
      BY <3>1, <3>2 DEF Knowledge
  <2> QED
    BY <1>2, <2>1, <2>2
<1> QED
  BY <1>5, <1>6, <1>7, <1>8, <1>9, <1>10 DEF OrphanInv

LEMMA OrphanReplaceRoute == ASSUME OrphanInv, CallReplaceRoute PROVE FALSE
BY DEF CallReplaceRoute, OrphanInv, Knowledge, KnowsRoute

-----------------------------------------------------------------------------
(* Steps that change an object *)

\* What the writes of the API server leave alone.
aside == <<tun, tunnels, born, issued, rcache, tseen, routes, inflight>>

\* p is a later version of the object o of n: its finalizer stays, its edits are
\* those of a user, and its status is a reconcile's.
Grows(n, o, p) ==
    /\ o.uid # None /\ p.uid = o.uid /\ (o.fin => p.fin) /\ p.spec \in SpecsOf[n]
    /\ p.rv >= o.rv /\ (p.rv = o.rv => p = o)
    /\ o.uid # rcache[n].uid => ~p.fin /\ p.rid = None
    /\ \/ p.rid = o.rid /\ p.tid = o.tid
       \/ pc = "finish" /\ cur = n /\ rt.uid = o.uid /\ p.rid = rt.rid /\ p.tid = rt.tid
    /\ p.fin = o.fin \/ (cur = n /\ rt.uid = o.uid)

\* What a name has now is another object, and the old one had no route.
Replaces(n, o, p) ==
    /\ p.uid \notin 1 .. made
    /\ ~p.fin /\ p.rid = None /\ p.tid = None
    /\ p.uid # None => p.spec \in SpecsOf[n]
    /\ rcache[n].fin => rcache[n].deleting
    /\ \A x \in routes : x.owner # o.uid

LEMMA OrphanObject ==
    ASSUME OneIdentity, OrphanInv, GuardInv', UNCHANGED aside,
           NEW n \in Names, NEW p \in TunnelRoute, route' = [route EXCEPT ![n] = p],
           Grows(n, route[n], p) \/ Replaces(n, route[n], p)
    PROVE  /\ OneTunnel' /\ Rows' /\ Seen'
           /\ \A m \in Names : /\ route'[m].uid # None => route'[m].spec \in SpecsOf[m]
                               /\ rcache'[m].uid # None => rcache'[m].spec \in SpecsOf[m]
           /\ \A m \in Names : RidNames(route[m])' /\ RidNames(rcache[m])'
<1> USE DEF aside
<1>1. route'[n] = p /\ \A m \in Names \ {n} : route'[m] = route[m]
  BY DEF OrphanInv, GuardInv, TypeInv, TypeOK
<1>2. \A m \in Names : /\ route'[m].uid # None => route'[m].spec \in SpecsOf[m]
                       /\ rcache'[m].uid # None => rcache'[m].spec \in SpecsOf[m]
  BY <1>1 DEF OrphanInv, OwnSpecs, Grows, Replaces
<1>3. OneTunnel'
  BY DEF OrphanInv, OneTunnel
<1>4. Rows'
  <2>1. ASSUME NEW x \in routes PROVE HasObject(x)'
    <3>1. PICK m \in Names :
            /\ route[m].uid = x.owner /\ route[m].fin
            /\ x.ident = IdentityOf(route[m].spec)
            /\ tseen[route[m].spec.tunnelRef].id # None
      BY DEF OrphanInv, Rows, HasObject
    <3>2. CASE m # n
      BY <1>1, <3>1, <3>2 DEF HasObject
    <3>3. CASE m = n
      <4>1. Grows(n, route[n], p)
        BY <3>1, <3>3 DEF Replaces
      <4>2. route[n].spec \in SpecsOf[n] /\ p.spec \in SpecsOf[n]
        BY <4>1 DEF Grows, OrphanInv, OwnSpecs
      <4>3. IdentityOf(route[n].spec) = IdentityOf(p.spec) /\ route[n].spec.tunnelRef = p.spec.tunnelRef
        BY <4>2 DEF OneIdentity
      <4> QED
        BY <1>1, <3>1, <3>3, <4>1, <4>3 DEF HasObject, Grows
    <3> QED
      BY <3>2, <3>3
  <2> QED
    BY <2>1 DEF OrphanInv, Rows, Live
<1>5. Seen'
  <2>1. ASSUME NEW m \in Names
        PROVE  /\ route'[m].uid # rcache[m].uid => ~route'[m].fin /\ route'[m].rid = None
               /\ rcache[m].fin /\ ~rcache[m].deleting => route'[m].uid = rcache[m].uid
    BY <1>1 DEF OrphanInv, Seen, Grows, Replaces
  <2> QED
    BY <2>1 DEF Seen
<1>6. ASSUME NEW m \in Names PROVE RidNames(route[m])' /\ RidNames(rcache[m])'
  <2>1. RidNames(rcache[m])'
    BY DEF OrphanInv, Recorded, RidNames
  <2>2. ASSUME m # n PROVE RidNames(route[m])'
    BY <1>1, <2>2 DEF OrphanInv, Recorded, RidNames
  <2>3. RidNames(route[n])'
    BY <1>1, Numbers DEF OrphanInv, Recorded, RidNames, Grows, Replaces
  <2> QED
    BY <2>1, <2>2, <2>3
<1> QED
  BY <1>2, <1>3, <1>4, <1>5, <1>6

\* The reconcile goes on as if nothing had happened, or ends.
LEMMA OrphanObjectStep ==
    ASSUME OneIdentity, OrphanInv, GuardInv', UNCHANGED aside,
           NEW n \in Names, NEW p \in TunnelRoute, route' = [route EXCEPT ![n] = p],
           Grows(n, route[n], p) \/ Replaces(n, route[n], p),
           \/ Idle /\ loc' = NoLocals
           \/ UNCHANGED <<pc, cur, rt, loc>> /\ p.fin = route[n].fin
    PROVE  OrphanInv'
<1> USE DEF aside
<1>1. route'[n] = p /\ \A m \in Names \ {n} : route'[m] = route[m]
  BY DEF OrphanInv, GuardInv, TypeInv, TypeOK
<1>2. /\ OneTunnel' /\ Rows' /\ Seen'
      /\ \A m \in Names : /\ route'[m].uid # None => route'[m].spec \in SpecsOf[m]
                          /\ rcache'[m].uid # None => rcache'[m].spec \in SpecsOf[m]
      /\ \A m \in Names : RidNames(route[m])' /\ RidNames(rcache[m])'
  BY OrphanObject
<1>3. OwnSpecs'
  BY <1>2 DEF OwnSpecs, OrphanInv, Idle
<1>4. Phase'
  <2>1. \A m \in Names : route'[m].tid \in KnownIds \cup {None} /\ route'[m].rid \in KnownRids \cup {None}
    BY <1>1 DEF Grows, Replaces, KnownIds, KnownRids
  <2>2. rt'.tid \in {rt.tid, None} /\ rt'.rid \in {rt.rid, None} /\ loc'.tid \in {loc.tid, None}
    BY NoRouteFields DEF Idle, NoLocals
  <2>3. KnownIds' \subseteq KnownIds \cup {None} /\ KnownRids' \subseteq KnownRids \cup {None}
    BY <2>1, <2>2 DEF KnownIds, KnownRids
  <2> QED
    BY <2>3, PhaseStep DEF OrphanInv
<1>5. Recorded'
  <2>1. RidNames(rt)'
    BY NoRouteFields, Numbers DEF OrphanInv, Recorded, RidNames, Idle
  <2> QED
    BY <1>2, <2>1 DEF Recorded
<1>6. StillThere'
  <2>1. ASSUME tunnels # {}, NEW m \in Names, route'[m].uid # None, InUse(m)', SomeRid(m)'
        PROVE  \E x \in routes : x.owner = route'[m].uid
    <3>1. CASE route'[m].uid = route[m].uid /\ SomeRid(m)
      <4>1. InUse(m)
        BY <2>1, <3>1 DEF InUse, Idle, Creating, Ensuring
      <4> QED
        BY <2>1, <3>1, <4>1 DEF OrphanInv, StillThere
    <3>2. CASE m # n \/ Grows(n, route[n], p)
      <4>1. route'[m].uid = route[m].uid
        BY <1>1, <3>2 DEF Grows
      <4>2. SomeRid(m)
        BY <1>1, <2>1, <3>2, <4>1 DEF SomeRid, Idle, Grows
      <4> QED
        BY <3>1, <4>1, <4>2
    <3>3. CASE m = n /\ Replaces(n, route[n], p)
      <4>1. rcache[n].uid <= made /\ rt.uid <= made /\ made \in Nat /\ rcache[n].uid \in Nat /\ rt.uid \in Nat
        BY Numbers DEF OrphanInv, GuardInv, Versions, Working, Knows
      <4>2. p.uid # None /\ p.uid # rcache[n].uid /\ p.uid # rt.uid /\ p.rid = None
        BY <1>1, <2>1, <3>3, <4>1 DEF Replaces
      <4> QED
        BY <1>1, <2>1, <3>3, <4>2 DEF SomeRid, Idle
    <3> QED
      BY <3>2, <3>3
  <2> QED
    BY <2>1 DEF StillThere
<1>7. Knowledge'
  <2>1. CASE Idle
    BY <2>1 DEF Idle, Knowledge
  <2>2. CASE UNCHANGED <<pc, cur, rt, loc>> /\ p.fin = route[n].fin /\ pc # "idle"
    <3>1. KnowsTunnel' /\ KnowsRoute'
      BY <2>2 DEF OrphanInv, Knowledge, KnowsTunnel, KnowsRoute
    <3>2. CASE cur # n
      <4>1. cur \in Names
        BY Numbers DEF OrphanInv
      <4>2. route'[cur] = route[cur]
        BY <1>1, <3>2, <4>1
      <4>3. KnowsObject'
        BY <2>2, <4>2 DEF OrphanInv, Knowledge, KnowsObject, CopyExact, Current
      <4> QED
        BY <3>1, <4>3 DEF Knowledge
    <3>3. CASE cur = n /\ Grows(n, route[n], p)
      <4>1. rt.rv \in Nat /\ route[n].rv \in Nat /\ p.rv \in Nat /\ rt.uid # None
        BY <2>2, Numbers DEF OrphanInv, TunnelRoute, GuardInv, Working
      <4>2. rt.uid = route[n].uid => rt.rv <= route[n].rv
        BY <3>3, <4>1 DEF OrphanInv, GuardInv, Working, Knows
      <4>3. CopyExact'
        BY <1>1, <2>2, <3>3, <4>1, <4>2 DEF OrphanInv, Knowledge, KnowsObject, CopyExact, Current, Grows
      <4>4. KnowsObject'
        BY <1>1, <2>2, <3>3, <4>3 DEF OrphanInv, Knowledge, KnowsObject, Grows
      <4> QED
        BY <3>1, <4>4 DEF Knowledge
    <3>4. CASE cur = n /\ Replaces(n, route[n], p)
      <4>1. rt.uid \in 1 .. made
        BY <2>2, Numbers DEF OrphanInv, GuardInv, Working, Knows
      <4>2. rt.uid # p.uid /\ ~p.fin
        BY <3>4, <4>1 DEF Replaces
      <4>3. pc \notin Creating
        BY <2>2, <3>4, <4>2 DEF OrphanInv, GuardInv, Working, Knowledge, KnowsObject, Creating
      <4>4. KnowsObject'
        BY <1>1, <2>2, <3>4, <4>2, <4>3 DEF OrphanInv, Knowledge, KnowsObject, CopyExact, Current
      <4> QED
        BY <3>1, <4>4 DEF Knowledge
    <3> QED
      BY <3>2, <3>3, <3>4
  <2> QED
    BY <2>1, <2>2 DEF Knowledge
<1> QED
  BY <1>2, <1>3, <1>4, <1>5, <1>6, <1>7 DEF OrphanInv

LEMMA OrphanUserCreate ==
    ASSUME OneIdentity, OrphanInv, GuardInv', NEW n \in Names, UserCreate(n)
    PROVE  OrphanInv'
<1>1. PICK s \in SpecsOf[n] :
        route' = [route EXCEPT ![n] = [NoRoute EXCEPT !.uid = made + 1, !.rv = 1,
                                                      !.gen = 1, !.spec = s]]
  BY DEF UserCreate
<1> DEFINE p == [NoRoute EXCEPT !.uid = made + 1, !.rv = 1, !.gen = 1, !.spec = s]
<1>2. made \in Nat /\ rcache[n] \in TunnelRoute
  BY Numbers DEF OrphanInv
<1>3. p \in TunnelRoute
  <2>1. s \in Specs
    BY DEF Specs
  <2>2. made + 1 \in Nat
    BY <1>2
  <2> QED
    BY <2>1, <2>2, MetadataType, NoRouteType
<1>4. p.uid = made + 1 /\ p.fin = FALSE /\ p.rid = None /\ p.tid = None /\ p.spec = s
  BY DEF NoRoute
<1> HIDE DEF p
<1>5. route[n].uid = None
  BY DEF UserCreate, Exists
<1>6. Replaces(n, route[n], p)
  <2>1. rcache[n].fin => rcache[n].deleting
    BY <1>5, NoRouteFields DEF OrphanInv, Seen, GuardInv, Versions, Sound
  <2>2. \A x \in routes : x.owner # None
    BY <1>2 DEF OrphanInv, GuardInv, Guarded
  <2> QED
    BY <1>2, <1>4, <1>5, <2>1, <2>2 DEF Replaces
<1>7. route[n].fin = FALSE
  BY <1>5, NoRouteFields DEF OrphanInv, GuardInv, Versions, Sound
<1>8. UNCHANGED aside /\ UNCHANGED <<pc, cur, rt, loc>>
  BY DEF UserCreate, aside, lifecycle, views, worker
<1> QED
  BY <1>1, <1>3, <1>4, <1>6, <1>7, <1>8, OrphanObjectStep DEF p

LEMMA OrphanUserDelete ==
    ASSUME OneIdentity, OrphanInv, GuardInv', NEW n \in Names, UserDelete(n)
    PROVE  OrphanInv'
<1> DEFINE marked == [route[n] EXCEPT !.deleting = TRUE, !.rv = @ + 1]
<1>1. UNCHANGED aside /\ UNCHANGED <<pc, cur, rt, loc>> /\ route[n].uid # None
  BY DEF UserDelete, Exists, aside, lifecycle, views, worker
<1>2. route[n] \in TunnelRoute /\ route[n].rv \in Nat /\ route[n].uid <= made
      /\ made \in Nat /\ rcache[n] \in TunnelRoute
  BY Numbers DEF OrphanInv, TunnelRoute, GuardInv, Versions, Knows
<1>3. CASE route[n].fin
  <2>1. route' = [route EXCEPT ![n] = marked]
    BY <1>3 DEF UserDelete
  <2>2. marked \in TunnelRoute
    <3>1. route[n].rv + 1 \in Nat /\ route[n].spec \in Specs
      BY <1>2 DEF TunnelRoute
    <3> QED
      BY <1>2, <3>1, MetadataType
  <2>3. /\ marked.uid = route[n].uid /\ marked.fin = route[n].fin /\ marked.spec = route[n].spec
        /\ marked.rid = route[n].rid /\ marked.tid = route[n].tid /\ marked.rv = route[n].rv + 1
    BY <1>2 DEF TunnelRoute
  <2> HIDE DEF marked
  <2>4. Grows(n, route[n], marked)
    BY <1>1, <1>2, <2>3 DEF Grows, OrphanInv, OwnSpecs, Seen
  <2> QED
    BY <1>1, <2>1, <2>2, <2>3, <2>4, OrphanObjectStep
<1>4. CASE ~route[n].fin
  <2>1. route' = [route EXCEPT ![n] = NoRoute]
    BY <1>4 DEF UserDelete
  <2>2. \A x \in routes : x.owner # route[n].uid
    BY <1>4 DEF OrphanInv, GuardInv, Guarded
  <2>3. rcache[n].fin => rcache[n].deleting
    BY <1>1, <1>4 DEF OrphanInv, Seen, GuardInv, Versions, Knows
  <2>4. Replaces(n, route[n], NoRoute)
    BY <1>2, <2>2, <2>3, NoRouteFields DEF Replaces
  <2>5. NoRoute.fin = route[n].fin
    BY <1>2, <1>4, NoRouteFields DEF TunnelRoute
  <2> QED
    BY <1>1, <2>1, <2>4, <2>5, NoRouteType, OrphanObjectStep
<1> QED
  BY <1>3, <1>4

LEMMA OrphanUserEdit ==
    ASSUME OneIdentity, OrphanInv, GuardInv', NEW n \in Names, UserEdit(n)
    PROVE  OrphanInv'
<1>1. UNCHANGED aside /\ UNCHANGED <<pc, cur, rt, loc>> /\ route[n].uid # None
  BY DEF UserEdit, Exists, aside, lifecycle, views, worker
<1>2. PICK s \in SpecsOf[n] :
        route' = [route EXCEPT ![n] = [route[n] EXCEPT !.spec = s, !.gen = @ + 1, !.rv = @ + 1]]
  BY DEF UserEdit
<1> DEFINE p == [route[n] EXCEPT !.spec = s, !.gen = @ + 1, !.rv = @ + 1]
<1>3. route[n] \in TunnelRoute /\ route[n].rv \in Nat /\ route[n].gen \in Nat
  BY Numbers DEF OrphanInv, TunnelRoute
<1>4. p \in TunnelRoute
  <2>1. s \in Specs
    BY DEF Specs
  <2>2. route[n].gen + 1 \in Nat /\ route[n].rv + 1 \in Nat
    BY <1>3
  <2> QED
    BY <1>3, <2>1, <2>2, MetadataType
<1>5. /\ p.uid = route[n].uid /\ p.fin = route[n].fin /\ p.spec = s
      /\ p.rid = route[n].rid /\ p.tid = route[n].tid /\ p.rv = route[n].rv + 1
  BY <1>3 DEF TunnelRoute
<1> HIDE DEF p
<1>6. Grows(n, route[n], p)
  BY <1>1, <1>3, <1>5 DEF Grows, OrphanInv, OwnSpecs, Seen
<1> QED
  BY <1>1, <1>2, <1>4, <1>5, <1>6, OrphanObjectStep DEF p

\* The status a reconcile writes names the route it found or created.
LEMMA OrphanFinish == ASSUME OneIdentity, OrphanInv, GuardInv', Finish PROVE OrphanInv'
<1> DEFINE new == [rt EXCEPT !.obs = rt.gen]
           p   == Written(route[cur], WithStatus(route[cur], new))
<1>1. pc = "finish" /\ UNCHANGED aside /\ Idle /\ loc' = NoLocals
  BY DEF Finish, Return, Idle, aside, platform, fixed
<1>2. CASE UNCHANGED route
  BY <1>1, <1>2, OrphanIdle DEF aside, outside
<1>3. CASE ~UNCHANGED route
  <2>1. Current /\ route' = [route EXCEPT ![cur] = p]
    BY <1>3 DEF Finish, UpdateStatus
  <2>2. cur \in Names /\ rt \in TunnelRoute /\ route[cur] \in TunnelRoute
    BY Numbers DEF OrphanInv
  <2>3. new \in TunnelRoute /\ new.rid = rt.rid /\ new.tid = rt.tid
    BY <2>2 DEF TunnelRoute
  <2> HIDE DEF new
  <2>4. p \in TunnelRoute
    BY <2>2, <2>3, WithStatusType, WrittenType
  <2>5. /\ p.uid = route[cur].uid /\ p.fin = route[cur].fin /\ p.spec = route[cur].spec
        /\ p.rid = rt.rid /\ p.tid = rt.tid
        /\ p.rv >= route[cur].rv /\ (p.rv = route[cur].rv => p = route[cur])
    <3> DEFINE w == WithStatus(route[cur], new)
    <3>1. /\ w \in TunnelRoute
          /\ w.uid = route[cur].uid /\ w.fin = route[cur].fin /\ w.spec = route[cur].spec
          /\ w.rid = rt.rid /\ w.tid = rt.tid
      BY <2>2, <2>3, WithStatusType DEF WithStatus, TunnelRoute
    <3> HIDE DEF w
    <3>2. p = w \/ p = [w EXCEPT !.rv = route[cur].rv + 1]
      BY DEF Written, w
    <3>3. p = route[cur] \/ p.rv = route[cur].rv + 1
      BY <3>1 DEF Written, w, TunnelRoute
    <3>4. p.uid = w.uid /\ p.fin = w.fin /\ p.spec = w.spec /\ p.rid = w.rid /\ p.tid = w.tid
      BY <3>1, <3>2 DEF TunnelRoute
    <3>5. route[cur].rv \in Nat
      BY <2>2 DEF TunnelRoute
    <3> QED
      BY <3>1, <3>3, <3>4, <3>5
  <2> HIDE DEF p
  <2>6. rt.uid # None /\ rt.uid = route[cur].uid /\ rcache[cur].uid = rt.uid
    BY <1>1, <2>1 DEF Current, OrphanInv, GuardInv, Working, Knowledge, KnowsObject
  <2>7. Grows(cur, route[cur], p)
    BY <1>1, <2>2, <2>5, <2>6 DEF Grows, OrphanInv, OwnSpecs
  <2> QED
    BY <1>1, <2>1, <2>2, <2>4, <2>7, OrphanObjectStep
<1> QED
  BY <1>2, <1>3

LEMMA OrphanRemoveFinalizer ==
    ASSUME OneIdentity, OrphanInv, GuardInv', RemoveFinalizer
    PROVE  OrphanInv'
<1>1. pc = "removeFinalizer" /\ UNCHANGED aside /\ Idle /\ loc' = NoLocals
  BY DEF RemoveFinalizer, Return, Idle, aside, platform, fixed
<1>2. CASE UNCHANGED route
  BY <1>1, <1>2, OrphanIdle DEF aside, outside
<1>3. CASE ~UNCHANGED route
  <2>1. Current /\ route' = [route EXCEPT ![cur] = NoRoute]
    BY <1>3 DEF RemoveFinalizer
  <2>2. /\ rcache[cur].uid = rt.uid /\ rcache[cur].deleting
        /\ \A x \in routes : x.owner # route[cur].uid
    BY <1>1, <2>1 DEF Current, OrphanInv, Knowledge, KnowsObject, KnowsRoute, Removing
  <2>3. Replaces(cur, route[cur], NoRoute)
    BY <2>2, NoRouteFields, Numbers DEF Replaces, OrphanInv
  <2> QED
    BY <1>1, <2>1, <2>3, NoRouteType, Numbers, OrphanObjectStep DEF OrphanInv
<1> QED
  BY <1>2, <1>3

\* The finalizer is written before the first call that can create a route.
LEMMA OrphanAddFinalizer == ASSUME OneIdentity, OrphanInv, GuardInv', AddFinalizer PROVE OrphanInv'
<1> DEFINE w == [route[cur] EXCEPT !.fin = TRUE]
           p == Written(route[cur], w)
<1>1. pc = "addFinalizer" /\ UNCHANGED aside
  BY DEF AddFinalizer, aside, platform, fixed
<1>2. CASE UNCHANGED route /\ Idle /\ loc' = NoLocals
  BY <1>1, <1>2, OrphanIdle DEF aside, outside
<1>3. CASE /\ Current /\ route' = [route EXCEPT ![cur] = p]
           /\ \/ Idle /\ loc' = NoLocals
              \/ rt' = route'[cur] /\ pc' = "resolve" /\ UNCHANGED <<cur, loc>>
  <2>1. cur \in Names /\ rt \in TunnelRoute /\ route[cur] \in TunnelRoute
    BY Numbers DEF OrphanInv
  <2>2. /\ w \in TunnelRoute
        /\ w.uid = route[cur].uid /\ w.fin = TRUE /\ w.spec = route[cur].spec
        /\ w.rid = route[cur].rid /\ w.tid = route[cur].tid /\ w.deleting = route[cur].deleting
        /\ w.gen = route[cur].gen
    BY <2>1 DEF TunnelRoute
  <2> HIDE DEF w
  <2>3. p \in TunnelRoute
    BY <2>1, <2>2, WrittenType
  <2>4. p = w \/ p = [w EXCEPT !.rv = route[cur].rv + 1]
    BY DEF Written
  <2>5. p = route[cur] \/ p.rv = route[cur].rv + 1
    BY <2>2 DEF Written, TunnelRoute
  <2>6. /\ p.uid = route[cur].uid /\ p.fin = TRUE /\ p.spec = route[cur].spec
        /\ p.rid = route[cur].rid /\ p.tid = route[cur].tid /\ p.deleting = route[cur].deleting
        /\ p.gen = route[cur].gen
    BY <2>2, <2>4 DEF TunnelRoute
  <2>7. route[cur].rv \in Nat
    BY <2>1 DEF TunnelRoute
  <2> HIDE DEF p
  <2>8. /\ rt.uid # None /\ rt.uid = route[cur].uid /\ rcache[cur].uid = rt.uid
        /\ ~route[cur].deleting /\ rt.spec = route[cur].spec
    BY <1>1, <1>3 DEF Current, OrphanInv, GuardInv, Working, Knowledge, KnowsObject, CopyExact
  <2>9. Grows(cur, route[cur], p)
    BY <1>1, <2>1, <2>5, <2>6, <2>7, <2>8 DEF Grows, OrphanInv, OwnSpecs
  <2>10. CASE Idle /\ loc' = NoLocals
    BY <1>1, <1>3, <2>1, <2>3, <2>9, <2>10, OrphanObjectStep
  <2>11. CASE rt' = route'[cur] /\ pc' = "resolve" /\ UNCHANGED <<cur, loc>>
    <3> USE DEF aside
    <3>1. rt' = p /\ route'[cur] = p /\ \A m \in Names \ {cur} : route'[m] = route[m]
      BY <1>3, <2>1, <2>11 DEF OrphanInv, GuardInv, TypeInv, TypeOK
    <3>2. /\ OneTunnel' /\ Rows' /\ Seen'
          /\ \A m \in Names : /\ route'[m].uid # None => route'[m].spec \in SpecsOf[m]
                              /\ rcache'[m].uid # None => rcache'[m].spec \in SpecsOf[m]
          /\ \A m \in Names : RidNames(route[m])' /\ RidNames(rcache[m])'
      BY <1>1, <1>3, <2>1, <2>3, <2>9, OrphanObject
    <3>3. OwnSpecs'
      BY <2>1, <2>6, <2>8, <2>11, <3>1, <3>2 DEF OwnSpecs
    <3>4. Phase'
      <4>1. \A m \in Names : route'[m].tid = route[m].tid /\ route'[m].rid = route[m].rid
        BY <2>6, <3>1
      <4>2. rt'.tid = route[cur].tid /\ rt'.rid = route[cur].rid
        BY <2>6, <3>1
      <4>3. KnownIds' \subseteq KnownIds /\ KnownRids' \subseteq KnownRids
        BY <1>1, <2>1, <2>11, <4>1, <4>2 DEF KnownIds, KnownRids
      <4> QED
        BY <1>1, <4>3, PhaseStep DEF OrphanInv
    <3>5. Recorded'
      <4>1. RidNames(rt)'
        BY <2>1, <2>11, <3>1, <3>2 DEF RidNames
      <4> QED
        BY <3>2, <4>1 DEF Recorded
    <3>6. StillThere'
      <4>1. ~rcache[cur].deleting
        BY <2>1, <2>8 DEF OrphanInv, GuardInv, Versions, Knows
      <4>2. ASSUME tunnels # {}, NEW m \in Names, route'[m].uid # None, InUse(m)', SomeRid(m)'
            PROVE  \E x \in routes : x.owner = route'[m].uid
        <5>1. route'[m].uid = route[m].uid /\ route'[m].rid = route[m].rid
          BY <2>6, <3>1
        <5>2. InUse(m)
          BY <1>1, <2>8, <2>11, <4>1, <4>2, <5>1 DEF InUse
        <5>3. SomeRid(m)
          BY <1>1, <2>6, <2>11, <3>1, <4>2, <5>1 DEF SomeRid
        <5> QED
          BY <4>2, <5>1, <5>2, <5>3 DEF OrphanInv, StillThere
      <4> QED
        BY <1>1, <4>2 DEF StillThere
    <3>7. Knowledge'
      <4>1. KnowsObject'
        BY <1>1, <2>6, <2>8, <2>11, <3>1 DEF KnowsObject, CopyExact, Removing
      <4>2. KnowsTunnel' /\ KnowsRoute'
        BY <1>1, <2>6, <2>8, <2>11, <3>1 DEF OrphanInv, Knowledge, KnowsTunnel, KnowsRoute, Ensuring
      <4> QED
        BY <4>1, <4>2 DEF Knowledge
    <3> QED
      BY <3>2, <3>3, <3>4, <3>5, <3>6, <3>7 DEF OrphanInv
  <2> QED
    BY <1>3, <2>10, <2>11
<1> QED
  BY <1>2, <1>3 DEF AddFinalizer, Return, Idle

-----------------------------------------------------------------------------
(* The caches, and the operator's restarts *)

\* The cache catches up with some of the objects.
LEMMA StillThereDelivered ==
    ASSUME OrphanInv, UNCHANGED <<tunnels, route, routes>>,
           \/ UNCHANGED <<pc, cur, rt>>
           \/ Idle,
           \A n \in Names : rcache'[n] \in {rcache[n], route[n]}
    PROVE  StillThere'
<1>1. ASSUME tunnels # {}, NEW n \in Names, route[n].uid # None, InUse(n)', SomeRid(n)'
      PROVE  \E x \in routes : x.owner = route[n].uid
  <2>1. CASE rcache[n].uid = route[n].uid
    <3>1. InUse(n)
      BY <1>1, <2>1 DEF InUse, Idle, Creating, Ensuring, OrphanInv, GuardInv, Versions, Knows
    <3>2. SomeRid(n)
      BY <1>1, <2>1 DEF SomeRid, Idle
    <3> QED
      BY <1>1, <3>1, <3>2 DEF OrphanInv, StillThere
  <2>2. CASE rcache[n].uid # route[n].uid
    <3>1. route[n].rid = None /\ (pc # "idle" /\ cur = n => rt.uid # route[n].uid)
      BY <2>2 DEF OrphanInv, Seen, Knowledge, KnowsObject
    <3> QED
      BY <1>1, <2>2, <3>1 DEF SomeRid, Idle
  <2> QED
    BY <2>1, <2>2
<1> QED
  BY <1>1 DEF StillThere

LEMMA OrphanDeliver ==
    ASSUME OrphanInv, GuardInv', NEW n \in Names, Deliver(n)
    PROVE  OrphanInv'
<1>1. UNCHANGED <<tun, tunnels, born, issued, route, tseen, routes, inflight, pc, cur, rt, loc>>
  BY DEF Deliver, lifecycle, api, worker
<1>2. rcache' = [rcache EXCEPT ![n] = route[n]]
  BY DEF Deliver
<1>3. rcache'[n] = route[n] /\ \A m \in Names \ {n} : rcache'[m] = rcache[m]
  BY <1>2 DEF OrphanInv, GuardInv, TypeInv, TypeOK
<1>4. OwnSpecs' /\ OneTunnel' /\ Rows' /\ Seen'
  BY <1>1, <1>3 DEF OrphanInv, OwnSpecs, OneTunnel, Rows, HasObject, Live, Seen
<1>5. Phase'
  <2>1. KnownIds' \subseteq KnownIds /\ KnownRids' \subseteq KnownRids
    BY <1>1, <1>3 DEF KnownIds, KnownRids
  <2> QED
    BY <1>1, <2>1, PhaseStep DEF OrphanInv
<1>6. Recorded'
  BY <1>1, <1>3 DEF OrphanInv, Recorded, RidNames
<1>7. StillThere'
  BY <1>1, <1>3, StillThereDelivered
<1>8. Knowledge'
  <2>1. ASSUME pc # "idle" PROVE KnowsObject'
    <3>1. rt.deleting /\ route[cur].uid = rt.uid => route[cur].deleting
      BY <2>1 DEF OrphanInv, GuardInv, Working, Knows
    <3>2. cur \in Names
      BY Numbers DEF OrphanInv
    <3> QED
      BY <1>1, <1>3, <2>1, <3>1, <3>2 DEF OrphanInv, Knowledge, KnowsObject, CopyExact, Current
  <2>2. pc # "idle" => KnowsTunnel' /\ KnowsRoute'
    BY <1>1 DEF OrphanInv, Knowledge, KnowsTunnel, KnowsRoute
  <2> QED
    BY <1>1, <2>1, <2>2 DEF Knowledge
<1> QED
  BY <1>4, <1>5, <1>6, <1>7, <1>8 DEF OrphanInv

\* What the operator has seen of a Tunnel with an identifier is still true while
\* the tunnel is there.
LEMMA SeenTunnels ==
    ASSUME OrphanInv, tunnels # {}, NEW r \in Refs, tseen[r].id # None
    PROVE  tun[r].id # None
BY DEF OrphanInv, Phase, Before, Afterwards, Meanwhile

\* The cache catches up with some of the Tunnels.
LEMMA TunnelsDelivered ==
    ASSUME OrphanInv, UNCHANGED <<tun, tunnels, born, issued, route, routes, inflight>>,
           \A r \in Refs : tseen'[r] \in {tseen[r], tun[r]}
    PROVE  /\ OneTunnel' /\ Rows'
           /\ tunnels # {} => \A r \in Refs : tseen[r].id # None => tseen'[r].id # None
           /\ KnownIds' \subseteq KnownIds \cup {None} /\ KnownRids' \subseteq KnownRids \cup {None}
                => Phase'
<1>1. OneTunnel'
  BY DEF OrphanInv, OneTunnel
<1>2. tunnels # {} => \A r \in Refs : tseen[r].id # None => tseen'[r].id # None
  BY SeenTunnels
<1>3. Rows'
  <2>1. ASSUME NEW x \in routes PROVE HasObject(x)'
    <3>1. PICK n \in Names :
            /\ route[n].uid = x.owner /\ route[n].fin
            /\ x.ident = IdentityOf(route[n].spec)
            /\ tseen[route[n].spec.tunnelRef].id # None
      BY DEF OrphanInv, Rows, HasObject
    <3>2. route[n].spec.tunnelRef \in Refs
      <4>1. route[n] \in TunnelRoute
        BY Numbers DEF OrphanInv
      <4>2. route[n].spec \in Specs
        BY <4>1 DEF TunnelRoute
      <4> QED
        BY <4>2, SpecType DEF RouteSpec
    <3>3. tunnels # {}
      BY DEF OrphanInv, Rows, Live
    <3> QED
      BY <1>2, <3>1, <3>2, <3>3 DEF HasObject
  <2> QED
    BY <2>1 DEF OrphanInv, Rows, Live
<1>4. ASSUME KnownIds' \subseteq KnownIds \cup {None}, KnownRids' \subseteq KnownRids \cup {None}
      PROVE  Phase'
  <2>1. CASE Before
    BY <1>4, <2>1 DEF Phase, Before
  <2>2. CASE Meanwhile
    BY <1>4, <2>2 DEF Phase, Meanwhile
  <2>3. CASE Afterwards
    BY <2>3 DEF Phase, Afterwards
  <2> QED
    BY <2>1, <2>2, <2>3 DEF OrphanInv, Phase
<1> QED
  BY <1>1, <1>2, <1>3, <1>4

LEMMA OrphanDeliverTunnel ==
    ASSUME OrphanInv, GuardInv', NEW q \in Refs, DeliverTunnel(q)
    PROVE  OrphanInv'
<1>1. UNCHANGED <<tun, tunnels, born, issued, route, rcache, routes, inflight, pc, cur, rt, loc>>
  BY DEF DeliverTunnel, lifecycle, api, worker
<1>2. tseen' = [tseen EXCEPT ![q] = tun[q]]
  BY DEF DeliverTunnel
<1>3. \A r \in Refs : tseen'[r] \in {tseen[r], tun[r]}
  BY <1>2 DEF OrphanInv, GuardInv, TypeInv, TypeOK
<1>4. KnownIds' \subseteq KnownIds /\ KnownRids' = KnownRids
  BY <1>1, <1>3 DEF KnownIds, KnownRids
<1>5. /\ OneTunnel' /\ Rows' /\ Phase'
      /\ tunnels # {} => \A r \in Refs : tseen[r].id # None => tseen'[r].id # None
  BY <1>1, <1>3, <1>4, TunnelsDelivered
<1>6. OwnSpecs' /\ Seen'
  BY <1>1 DEF OrphanInv, OwnSpecs, Seen
<1>7. Recorded' /\ StillThere'
  BY <1>1 DEF OrphanInv, Recorded, RidNames, StillThere, InUse, SomeRid
<1>8. Knowledge'
  <2>1. rt.spec.tunnelRef \in Refs
    <3>1. rt.spec \in Specs
      BY Numbers DEF OrphanInv, TunnelRoute
    <3> QED
      BY <3>1, SpecType DEF RouteSpec
  <2>2. pc # "idle" => KnowsObject' /\ KnowsRoute'
    BY <1>1 DEF OrphanInv, Knowledge, KnowsObject, CopyExact, Current, KnowsRoute
  <2>3. pc # "idle" => KnowsTunnel'
    BY <1>1, <1>5, <2>1 DEF OrphanInv, Knowledge, KnowsTunnel
  <2> QED
    BY <1>1, <2>2, <2>3 DEF Knowledge
<1> QED
  BY <1>5, <1>6, <1>7, <1>8 DEF OrphanInv

LEMMA OrphanRestart == ASSUME OrphanInv, GuardInv', Restart PROVE OrphanInv'
<1>1. /\ UNCHANGED <<tun, tunnels, born, issued, route, routes, inflight>>
      /\ rcache' = route /\ tseen' = tun /\ Idle /\ loc' = NoLocals
  BY DEF Restart, lifecycle, api, Idle
<1>2. rt'.rid = None /\ rt'.tid = None /\ loc'.tid = None
  BY <1>1, NoRouteFields DEF Idle, NoLocals
<1>3. KnownIds' \subseteq KnownIds \cup {None} /\ KnownRids' \subseteq KnownRids \cup {None}
  BY <1>1, <1>2 DEF KnownIds, KnownRids
<1>4. OneTunnel' /\ Rows' /\ Phase'
  BY <1>1, <1>3, TunnelsDelivered
<1>5. OwnSpecs' /\ Seen' /\ Knowledge'
  BY <1>1 DEF OrphanInv, OwnSpecs, Seen, Knowledge, Idle
<1>6. Recorded'
  BY <1>1, <1>2, Numbers DEF OrphanInv, Recorded, RidNames
<1>7. StillThere'
  BY <1>1, StillThereDelivered
<1> QED
  BY <1>4, <1>5, <1>6, <1>7 DEF OrphanInv

-----------------------------------------------------------------------------
(* The Tunnels *)

\* The objects and the caches stay as they are; the routes are those whose
\* tunnel is still there.
LEMMA OrphanTunnels ==
    ASSUME OrphanInv, GuardInv', OneTunnel', Phase',
           UNCHANGED <<route, rcache, tseen, inflight, pc, cur, rt, loc>>,
           issued' \in Nat, issued <= issued',
           routes' = {x \in routes : \E y \in tunnels' : y.id = x.tunnel},
           tunnels' # {} => routes' = routes /\ (tunnels # {} \/ Before)
    PROVE  OrphanInv'
<1>1. OwnSpecs' /\ Seen'
  BY DEF OrphanInv, OwnSpecs, Seen
<1>2. routes' \subseteq routes
  OBVIOUS
<1>3. Rows'
  <2>1. \A x \in routes : HasObject(x)'
    BY DEF OrphanInv, Rows, HasObject
  <2>2. \A x \in routes : x.id \in Nat /\ x.id <= issued /\ issued \in Nat /\ x.id # None
    BY Numbers DEF OrphanInv, Rows
  <2>3. \A x \in routes' : Live(x.tunnel)'
    BY DEF Live
  <2> QED
    BY <1>2, <2>1, <2>2, <2>3 DEF OrphanInv, Rows
<1>4. Recorded'
  <2>1. \A n \in Names : RidNames(route[n])' /\ RidNames(rcache[n])'
    BY <1>2, Numbers DEF OrphanInv, Recorded, RidNames
  <2>2. RidNames(rt)'
    BY <1>2, Numbers DEF OrphanInv, Recorded, RidNames
  <2> QED
    BY <2>1, <2>2 DEF Recorded
<1>5. StillThere'
  <2>1. \A n \in Names : (InUse(n)' <=> InUse(n)) /\ (SomeRid(n)' <=> SomeRid(n))
    BY DEF InUse, SomeRid
  <2>2. Before => \A n \in Names : ~SomeRid(n)
    BY DEF Before, SomeRid, KnownRids
  <2> QED
    BY <2>1, <2>2 DEF OrphanInv, StillThere
<1>6. ASSUME pc # "idle" PROVE KnowsObject' /\ KnowsTunnel' /\ KnowsRoute'
  <2>1. KnowsObject'
    BY <1>6 DEF OrphanInv, Knowledge, KnowsObject, CopyExact, Current
  <2>2. KnowsTunnel'
    BY <1>6 DEF OrphanInv, Knowledge, KnowsTunnel, Before, KnownIds
  <2>3. KnowsRoute'
    BY <1>2, <1>6, Numbers DEF OrphanInv, Knowledge, KnowsRoute
  <2> QED
    BY <2>1, <2>2, <2>3
<1> QED
  BY <1>1, <1>3, <1>4, <1>5, <1>6 DEF OrphanInv, Knowledge

\* No step of the Tunnels' users and reconciler can touch the tunnel of a route
\* the operator has not heard of, and there is no second tunnel.
LEMMA OrphanTunnelUser ==
    ASSUME Undisturbed, OrphanInv, GuardInv', NEW q \in Refs, TunnelUser(q)
    PROVE  OrphanInv'
<1>1. UNCHANGED <<tunnels, issued, route, rcache, tseen, routes, inflight, pc, cur, rt, loc>>
  BY DEF TunnelUser, Appear, MarkDeleted, api, views, worker
<1>2. /\ born \in Nat /\ MaxTunnels \in Nat /\ MaxTunnels <= 1 /\ issued \in Nat
      /\ tun \in [Refs -> TunnelObject]
      /\ \A r \in Refs : tun[r].uid \in Nat /\ tun[r] \in TunnelObject
  BY Numbers, RouteConstantsAssumption DEF Undisturbed, OrphanInv, GuardInv, TypeInv, TypeOK,
     LifecycleTypeOK, TunnelObject
<1>3. routes' = {x \in routes : \E y \in tunnels' : y.id = x.tunnel}
  BY <1>1 DEF OrphanInv, Rows, Live
<1>4. KnownRids' = KnownRids
  BY <1>1 DEF KnownRids
<1>5. CASE Appear(q) /\ born < MaxTunnels
  <2>1. /\ born = 0 /\ born' = 1 /\ MaxTunnels = 1
        /\ tun' = [tun EXCEPT ![q] = [Absent EXCEPT !.uid = 1]]
    <3>1. born = 0 /\ MaxTunnels = 1 /\ born + 1 = 1
      BY <1>2, <1>5
    <3> QED
      BY <1>5, <3>1 DEF Appear
  <2>2. \A r \in Refs : tun[r].uid = Nobody /\ tun[r].id = Nobody
    BY <1>2, <2>1 DEF OrphanInv, OneTunnel
  <2>3. [Absent EXCEPT !.uid = 1].uid = 1 /\ [Absent EXCEPT !.uid = 1].id = Nobody
    BY DEF Absent
  <2>4. \A r \in Refs : /\ tun'[r].id = Nobody
                        /\ tun'[r].uid = IF r = q THEN 1 ELSE Nobody
    BY <1>2, <2>1, <2>2, <2>3
  <2>5. OneTunnel'
    BY <1>1, <2>1, <2>4 DEF OrphanInv, OneTunnel
  <2>6. Before
    BY <2>1 DEF OrphanInv, Phase, Meanwhile, Afterwards
  <2>7. Before'
    BY <1>1, <1>4, <2>4, <2>6 DEF Before, KnownIds
  <2> QED
    BY <1>1, <1>2, <1>3, <2>5, <2>6, <2>7, OrphanTunnels DEF Phase
<1>6. CASE MarkDeleted(q)
  <2>1. \A r \in Refs : /\ tun'[r].uid = tun[r].uid /\ tun'[r].id = tun[r].id
                        /\ tun[r].deleting => tun'[r].deleting
    BY <1>2, <1>6 DEF MarkDeleted, TunnelObject
  <2>2. UNCHANGED born
    BY <1>6 DEF MarkDeleted
  <2>3. OneTunnel'
    BY <1>1, <2>1, <2>2 DEF OrphanInv, OneTunnel
  <2>4. KnownIds' = KnownIds
    BY <1>1, <2>1 DEF KnownIds
  <2>5. Phase'
    BY <1>1, <1>4, <2>1, <2>2, <2>4 DEF OrphanInv, Phase, Before, Meanwhile, Afterwards
  <2> QED
    BY <1>1, <1>2, <1>3, <2>3, <2>5, OrphanTunnels
<1> QED
  BY <1>5, <1>6 DEF TunnelUser

LEMMA OrphanTunnelReconciler ==
    ASSUME Undisturbed, OrphanInv, GuardInv', NEW q \in Refs, TunnelReconciler(q)
    PROVE  OrphanInv'
<1>1. /\ UNCHANGED <<born, route, rcache, tseen, inflight, pc, cur, rt, loc>>
      /\ tun[q].uid # Nobody
      /\ routes' = {x \in routes : \E y \in tunnels' : y.id = x.tunnel}
  BY DEF TunnelReconciler, Publish, Record, Withdraw, Vanish, api, views, worker
<1>2. /\ born \in Nat /\ MaxTunnels \in Nat /\ MaxTunnels <= 1 /\ issued \in Nat
      /\ tun \in [Refs -> TunnelObject]
      /\ \A r \in Refs : tun[r].uid \in Nat /\ tun[r] \in TunnelObject
  BY Numbers, RouteConstantsAssumption DEF Undisturbed, OrphanInv, GuardInv, TypeInv, TypeOK,
     LifecycleTypeOK, TunnelObject
<1>3. born = 1 /\ MaxTunnels = 1 /\ tun[q].uid = 1
  BY <1>1, <1>2 DEF OrphanInv, OneTunnel
<1>4. \A r \in Refs : tun[r].uid # Nobody => r = q
  BY <1>1 DEF OrphanInv, OneTunnel
<1>5. KnownRids' = KnownRids
  BY <1>1 DEF KnownRids
<1>6. Meanwhile => tunnels = TunnelsOf(q)
  BY <1>3 DEF Meanwhile, TunnelsOf
<1>7. tunnels = {} => routes = {}
  BY DEF OrphanInv, Rows, Live
<1>8. CASE Publish(q) /\ ~tun[q].deleting
  <2> DEFINE x == [id |-> issued + 1, ext |-> 1]
  <2>1. Before
    BY <1>1, <1>6, <1>8 DEF OrphanInv, Phase, Afterwards, Publish, Meanwhile
  <2>2. tunnels' = {x} /\ issued' = issued + 1 /\ UNCHANGED tun
    BY <1>3, <1>8, <2>1 DEF Publish, Before
  <2>3. KnownIds' = KnownIds
    BY <1>1, <2>2 DEF KnownIds
  <2>4. x.id # None /\ x.ext = 1
    BY <1>2
  <2> HIDE DEF x
  <2>5. \A r \in Refs : tseen[r].id = None
    BY <2>1 DEF Before, KnownIds
  <2>6. Meanwhile'
    BY <1>1, <1>3, <2>1, <2>2, <2>3, <2>4, <2>5 DEF Meanwhile, Before
  <2>7. OneTunnel'
    BY <1>1, <2>2 DEF OrphanInv, OneTunnel
  <2>8. routes' = routes
    BY <1>1, <1>7, <2>1 DEF Before
  <2> QED
    BY <1>1, <1>2, <2>1, <2>2, <2>6, <2>7, <2>8, OrphanTunnels DEF Phase
<1>9. CASE Record(q)
  <2>1. Meanwhile /\ UNCHANGED <<tunnels, issued>>
    BY <1>9 DEF Record, TunnelsOf, OrphanInv, Phase, Before, Afterwards
  <2>2. PICK x \in tunnels : tun' = [tun EXCEPT ![q].id = x.id]
    BY <1>9 DEF Record, TunnelsOf
  <2>3. tunnels = {x} /\ x.id # None /\ x.ext = born /\ KnownIds \subseteq {None, x.id}
    BY <2>1, <2>2 DEF Meanwhile
  <2>4. \A r \in Refs : /\ tun'[r].uid = tun[r].uid
                        /\ tun'[r].id = IF r = q THEN x.id ELSE tun[r].id
    BY <1>2, <2>2 DEF TunnelObject
  <2>5. KnownIds' \subseteq KnownIds \cup {x.id}
    BY <1>1, <2>4 DEF KnownIds
  <2>6. Meanwhile'
    BY <1>1, <2>1, <2>3, <2>4, <2>5 DEF Meanwhile
  <2>7. OneTunnel'
    BY <1>1, <2>4 DEF OrphanInv, OneTunnel
  <2>8. routes' = routes
    BY <1>1, <2>1 DEF OrphanInv, Rows, Live
  <2> QED
    BY <1>1, <1>2, <2>1, <2>3, <2>6, <2>7, <2>8, OrphanTunnels DEF Phase
<1>10. CASE Withdraw(q)
  <2>1. Meanwhile /\ UNCHANGED <<tun, issued>> /\ tun[q].deleting
    BY <1>10 DEF Withdraw, TunnelsOf, OrphanInv, Phase, Before, Afterwards
  <2>2. tunnels' = {}
    BY <1>10, <2>1 DEF Withdraw, TunnelsOf, Meanwhile
  <2>3. Afterwards'
    BY <1>1, <1>3, <1>4, <2>1, <2>2 DEF Afterwards
  <2>4. OneTunnel'
    BY <1>1, <2>1 DEF OrphanInv, OneTunnel
  <2> QED
    BY <1>1, <1>2, <2>1, <2>2, <2>3, <2>4, OrphanTunnels DEF Phase
<1>11. CASE tun[q].deleting /\ Vanish(q)
  <2>1. ~Meanwhile /\ UNCHANGED <<tunnels, issued>> /\ tun' = [tun EXCEPT ![q] = Absent]
    BY <1>6, <1>11 DEF Vanish, Meanwhile
  <2>2. tunnels = {}
    BY <2>1 DEF OrphanInv, Phase, Before, Afterwards
  <2>3. \A r \in Refs : tun'[r].uid = Nobody /\ tun'[r].id = Nobody
    BY <1>2, <1>4, <2>1 DEF Absent, OrphanInv, OneTunnel
  <2>4. OneTunnel'
    BY <1>1, <1>2, <2>3 DEF OrphanInv, OneTunnel
  <2>5. Afterwards'
    BY <1>1, <1>3, <2>1, <2>2, <2>3 DEF Afterwards
  <2> QED
    BY <1>1, <1>2, <2>1, <2>2, <2>4, <2>5, OrphanTunnels DEF Phase
<1> QED
  BY <1>8, <1>9, <1>10, <1>11 DEF TunnelReconciler

-----------------------------------------------------------------------------
(* The theorems *)

LEMMA OrphanInit == Init => OrphanInv
<1> SUFFICES ASSUME Init PROVE OrphanInv
  OBVIOUS
<1>1. GuardInv
  BY GuardInit
<1>2. /\ \A n \in Names : route[n] = NoRoute /\ rcache[n] = NoRoute
      /\ rt = NoRoute /\ loc.tid = None /\ routes = {} /\ inflight = {} /\ tunnels = {}
      /\ pc = "idle" /\ born = 0 /\ issued = 0
      /\ \A r \in Refs : tun[r].uid = Nobody /\ tun[r].id = Nobody /\ tseen[r].id = Nobody
  BY DEF Init, LifecycleInit, Absent, NoLocals
<1>3. OwnSpecs /\ Rows /\ Seen /\ StillThere /\ Knowledge
  BY <1>2, NoRouteFields DEF OwnSpecs, Rows, Seen, StillThere, Knowledge
<1>4. OneTunnel
  BY <1>2, RouteConstantsAssumption DEF OneTunnel
<1>5. Phase
  BY <1>2, NoRouteFields DEF Phase, Before, KnownIds, KnownRids
<1>6. Recorded
  BY <1>2, NoRouteFields DEF Recorded, RidNames
<1> QED
  BY <1>1, <1>3, <1>4, <1>5, <1>6 DEF OrphanInv

LEMMA OrphanStep == ASSUME Environment, OrphanInv, [Next]_vars PROVE OrphanInv'
<1>1. GuardInv'
  BY GuardStep DEF OrphanInv
<1> USE DEF Environment
<1>2. CASE Worker
  BY <1>1, <1>2, OrphanReconcile, OrphanAddFinalizer, OrphanResolve, OrphanListRoutes,
     OrphanReplaceRoute, OrphanCreateRoute, OrphanUpdateRoute, OrphanFinish, OrphanDeleteClientFor,
     OrphanFindRoute, OrphanDeleteRoute, OrphanRemoveFinalizer DEF Worker, Undisturbed
<1>3. ASSUME NEW n \in Names, UserCreate(n) \/ UserDelete(n) \/ UserEdit(n) \/ Deliver(n)
      PROVE  OrphanInv'
  BY <1>1, <1>3, OrphanUserCreate, OrphanUserDelete, OrphanUserEdit, OrphanDeliver
<1>4. ASSUME NEW r \in Refs, TunnelUser(r) \/ TunnelReconciler(r) \/ DeliverTunnel(r)
      PROVE  OrphanInv'
  BY <1>1, <1>4, OrphanTunnelUser, OrphanTunnelReconciler, OrphanDeliverTunnel
<1>5. ASSUME \/ \E s \in Services : ServiceChanges(s)
             \/ UserTogglesCredential
             \/ UNCHANGED vars
      PROVE  OrphanInv'
  <2>1. UNCHANGED <<outside, pc, cur, rt, loc>>
    BY <1>5 DEF ServiceChanges, UserTogglesCredential, vars, outside, lifecycle, api, worker
  <2> QED
    BY <1>1, <2>1, OrphanSame
<1>6. ~PanelDeletesTunnel /\ ~PanelDeletesRoute /\ ~LateCreate
  BY DEF Undisturbed, PanelDeletesTunnel, PanelDeletesRoute, LateCreate, OrphanInv, Rows
<1>7. CASE Restart
  BY <1>1, <1>7, OrphanRestart
<1> QED
  BY <1>2, <1>3, <1>4, <1>5, <1>6, <1>7 DEF Next

LEMMA OrphanInvariant == ASSUME Environment PROVE Spec => []OrphanInv
<1>1. OrphanInv /\ [Next]_vars => OrphanInv'
  BY OrphanStep
<1> QED
  BY <1>1, OrphanInit, PTL DEF Spec

\* No route outlives its object on a public hostname: whatever answers are lost,
\* reconciles retried and crashed, specs edited and Tunnels deleted, a route that
\* the operator created is owned by an object that exists and holds the
\* finalizer, so that its deletion still has to pass through deleteRemoteRoute.
THEOREM NoOrphanRoutes == ASSUME Environment PROVE Spec => []NoRouteOutlives
<1>1. OrphanInv => NoRouteOutlives
  BY DEF OrphanInv, Rows, HasObject, NoRouteOutlives
<1> QED
  BY <1>1, OrphanInvariant, PTL

\* What the comment on findRoute relies on: a tunnel never has two routes with
\* one hostname and prefix, whatever is created again after a lost answer.
THEOREM PairsAreUnique == ASSUME Environment PROVE Spec => []PairIsUnique
<1>1. OrphanInv => PairIsUnique
  <2> SUFFICES ASSUME OrphanInv, NEW x \in routes, NEW y \in routes,
                      x.ident.hostname = y.ident.hostname, x.ident.pathPrefix = y.ident.pathPrefix
               PROVE  x = y
    BY DEF PairIsUnique
  <2>1. PICK n \in Names : route[n].uid = x.owner /\ x.ident = IdentityOf(route[n].spec)
    BY DEF OrphanInv, Rows, HasObject
  <2>2. PICK m \in Names : route[m].uid = y.owner /\ y.ident = IdentityOf(route[m].spec)
    BY DEF OrphanInv, Rows, HasObject
  <2>3. route[n].uid # None /\ route[m].uid # None
    BY <2>1, <2>2, Numbers DEF OrphanInv, GuardInv, Guarded
  <2>4. route[n].spec \in SpecsOf[n] /\ route[m].spec \in SpecsOf[m]
    BY <2>3 DEF OrphanInv, OwnSpecs
  <2>5. route[n].spec.hostname = route[m].spec.hostname
        /\ PathPrefix(route[n].spec) = PathPrefix(route[m].spec)
    BY <2>1, <2>2 DEF IdentityOf
  <2>6. n = m
    BY <2>4, <2>5 DEF Environment, DistinctPairs
  <2> QED
    BY <2>1, <2>2, <2>6 DEF OrphanInv, Rows
<1> QED
  BY <1>1, OrphanInvariant, PTL
=============================================================================
