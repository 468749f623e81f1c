-------------------------- MODULE RouteController --------------------------
(***************************************************************************)
(* The TunnelRoute reconciler                                              *)
(* (internal/controller/tunnelroute_controller.go), for several names and  *)
(* the successive objects of each, over the Tunnels of TunnelLifecycle:    *)
(*   - the API server: the TunnelRoute objects with resourceVersions;      *)
(*   - the manager's caches of TunnelRoutes and Tunnels and the workqueue, *)
(*     with one worker, so that one object is reconciled at a time;        *)
(*   - the platform's routes (RouteAPI), which go with their tunnel;       *)
(*   - users, the panel, and crashes of the operator.                      *)
(* Services are modelled as the cache shows them: nothing else reads them. *)
(* A reconcile is a sequence of steps, one per call that leaves the        *)
(* process.                                                                *)
(***************************************************************************)
EXTENDS TunnelLifecycle, RouteAPI, APIErrors

CONSTANTS
    Names,            \* the names of the TunnelRoutes
    SpecsOf,          \* the specs users give to the object of each name
    Services,         \* the names of the Services
    PortSets,         \* the ports a Service may publish; {} is no Service
    MaxRoutes,        \* how many TunnelRoutes are created over time
    MaxTunnels,       \* how many Tunnels are created over time
    MaxDisturbances,  \* how many faults, crashes and edits a behaviour has
    PanelDeletes,     \* may tunnels and routes be deleted in the panel?
    LateCreates,      \* may a create the operator gave up on be applied later?
    BareNotFounds     \* may a proxy in front of the platform answer 404?

PortDecl == [name : STRING, number : PortNumbers]
PortWanted == [byName : BOOLEAN, name : STRING, number : Nat]

RouteSpec == [tunnelRef : Refs, hostname : STRING, type : Types \cup {""},
              pathPrefix : STRING,
              service : SUBSET [name : Services, port : PortWanted],
              upstream : SUBSET Address, scheme : Schemes \cup {""}, strip : BOOLEAN,
              priority : SUBSET Nat, enabled : SUBSET BOOLEAN]

\* The CRD's validation: exactly one of service and upstream, a prefix other
\* than "/" for a path route and only for one; a pointer is one value or nil.
ValidSpec(s) ==
    /\ s \in RouteSpec
    /\ (s.service = {}) # (s.upstream = {})
    /\ s.type = "path" <=> s.pathPrefix \notin {"", "/"}
    /\ \A field \in {"service", "upstream", "priority", "enabled"} :
          \A x, y \in s[field] : x = y

ASSUME RouteConstantsAssumption ==
    /\ Names # {} /\ Services \subseteq STRING
    /\ \A n \in Names : SpecsOf[n] # {} /\ \A s \in SpecsOf[n] : ValidSpec(s)
    /\ \A ports \in PortSets : \A p \in ports : p \in PortDecl
    /\ MaxRoutes \in Nat /\ MaxTunnels \in Nat /\ MaxDisturbances \in Nat
    /\ PanelDeletes \in BOOLEAN /\ LateCreates \in BOOLEAN /\ BareNotFounds \in BOOLEAN

VARIABLES
    route,    \* the TunnelRoute of each name in the API server
    made,     \* TunnelRoutes created so far; the last uid
    rcache,   \* the TunnelRoutes as the cached client reads them
    tseen,    \* the Tunnels as the cached client reads them
    svc,      \* the ports of each Service, as the cached client reads them
    cred,     \* is the credential Secret of the Tunnels readable?
    queue,    \* the pending requests: <<name, "now">>, and "later" for a timer
    pc,       \* the call the reconcile in progress makes next
    cur,      \* the name it is for
    rt,       \* its copy of the TunnelRoute
    loc,      \* its other locals
    routes,   \* the routes of the account
    inflight, \* creates given up on and still on the wire
    budget    \* disturbances still to come

api      == <<route, made>>
views    == <<rcache, tseen, svc, cred>>
worker   == <<pc, cur, rt, loc>>
platform == <<routes, inflight, issued>>
fixed    == <<tun, tunnels, born, made, rcache, tseen, svc, cred>>  \* what no reconcile writes
vars     == <<tun, tunnels, born, issued, route, made, rcache, tseen, svc, cred,
              queue, pc, cur, rt, loc, routes, inflight, budget>>

-----------------------------------------------------------------------------
(* State *)

Specs == UNION {SpecsOf[n] : n \in Names}
AnyName == CHOOSE n \in Names : TRUE

\* TunnelRoute: metadata (uid, rv, gen, deleting, fin), spec, and the status.
TunnelRoute == [uid : Nat, rv : Nat, gen : Nat, deleting : BOOLEAN, fin : BOOLEAN,
                spec : Specs, rid : Nat, tid : Nat, resolved : BOOLEAN,
                synced : BOOLEAN, ready : BOOLEAN, obs : Nat]

NoRoute == [uid |-> None, rv |-> 0, gen |-> 0, deleting |-> FALSE, fin |-> FALSE,
            spec |-> CHOOSE s \in Specs : TRUE, rid |-> None, tid |-> None,
            resolved |-> FALSE, synced |-> FALSE, ready |-> FALSE, obs |-> 0]

\* The settings an update can carry, the address as one.
Fields == {"upstream", "scheme", "strip", "priority", "enabled"}

\* tunnelID, the resolved upstream, the route found, and an error to return.
Locals == [tid : Nat, addr : SUBSET Address, id : Nat, drift : SUBSET Fields, err : BOOLEAN]
NoLocals == [tid |-> None, addr |-> {}, id |-> None, drift |-> {}, err |-> FALSE]

Labels == {"idle", "addFinalizer", "resolve", "listRoutes", "replaceRoute",
           "createRoute", "updateRoute", "finish",
           "deleteClientFor", "findRoute", "deleteRoute", "removeFinalizer"}

TypeOK ==
    /\ LifecycleTypeOK
    /\ route \in [Names -> TunnelRoute] /\ rcache \in [Names -> TunnelRoute]
    /\ rt \in TunnelRoute /\ cur \in Names
    /\ made \in Nat /\ budget \in Nat
    /\ tseen \in [Refs -> TunnelObject]
    /\ svc \in [Services -> PortSets]
    /\ cred \in BOOLEAN
    /\ queue \in SUBSET (Names \X {"now", "later"})
    /\ pc \in Labels
    /\ loc \in Locals
    /\ routes \in SUBSET RouteRow /\ inflight \in SUBSET RouteRow

Init ==
    /\ LifecycleInit
    /\ route = [n \in Names |-> NoRoute] /\ rcache = route
    /\ made = 0
    /\ tseen = tun
    /\ svc \in [Services -> PortSets]
    /\ cred \in BOOLEAN
    /\ queue = {} /\ pc = "idle" /\ cur = AnyName /\ rt = NoRoute /\ loc = NoLocals
    /\ routes = {} /\ inflight = {}
    /\ budget = MaxDisturbances

-----------------------------------------------------------------------------
(* What the steps share *)

Exists(n) == route[n].uid # None

\* A fault, a crash or an edit: a behaviour has MaxDisturbances of them.
Disturb == budget > 0 /\ budget' = budget - 1

\* The reconcile returns and leaves the requests q behind.
Return(q) ==
    /\ pc' = "idle" /\ cur' = AnyName /\ rt' = NoRoute /\ loc' = NoLocals
    /\ queue' = q

\* Fault: the request is not put back.
LaterForgotten == queue

\* RequeueAfter, and the backoff a returned error gets, are both a timer.
Later == queue \cup {<<cur, "later">>}

\* Is the version the reconcile read still the one the API server has?  Only
\* then does it take a write.
Current == route[cur].uid = rt.uid /\ route[cur].rv = rt.rv

\* A write that changes nothing leaves the resourceVersion alone.
Written(old, new) == IF new = old THEN old ELSE [new EXCEPT !.rv = old.rv + 1]

\* The status subresource.
WithStatus(o, new) ==
    [o EXCEPT !.rid = new.rid, !.tid = new.tid, !.resolved = new.resolved,
              !.synced = new.synced, !.ready = new.ready, !.obs = new.obs]

UpdateStatus(new) ==
    /\ Current
    /\ route' = [route EXCEPT ![cur] = Written(@, WithStatus(@, new))]

\* The three conditions; every exit sets Ready after the other two.
SetResolved(o, resolved) == [o EXCEPT !.resolved = resolved]

SetSynced(o, synced) == [o EXCEPT !.synced = synced]

SetReady(o) == [o EXCEPT !.ready = (o.resolved /\ o.synced)]

\* An exit with Synced False, and the error finish is given, if any.
NotSynced(o, err) ==
    /\ rt' = SetReady(SetSynced(o, FALSE))
    /\ loc' = [loc EXCEPT !.err = err]
    /\ pc' = "finish"

\* ensureRoute failed: Classify decides between the error and a slow retry.
Fail(permanent) == NotSynced(rt, ~permanent)

\* A call of ensureRoute was refused, or not applied and not answered.
Refused ==
    /\ Disturb
    /\ \E permanent \in Verdicts : Fail(permanent)
    /\ UNCHANGED <<cur, queue>>

\* It was applied and its answer lost.
AnswerLost == Disturb /\ Fail(FALSE) /\ UNCHANGED <<cur, queue>>

\* The API has no such tunnel or route.
Missing == Fail(Classify(NotFoundError)) /\ UNCHANGED <<cur, queue, budget>>

\* IsNotFound takes the 404 of a proxy for the platform's.
BareNotFound == BareNotFounds /\ Disturb

Live(tid) == \E x \in tunnels : x.id = tid

\* routesOfTunnel and routesOfService: the cached routes that refer to it.
RoutesOfTunnel(r) == {n \in Names : rcache[n].uid # None /\ rcache[n].spec.tunnelRef = r}

RoutesOfService(s) ==
    {n \in Names : rcache[n].uid # None /\ \E x \in rcache[n].spec.service : x.name = s}

Now(names) == names \X {"now"}

-----------------------------------------------------------------------------
(* Reconcile *)

\* reconcileDelete's early exits: nothing of ours to do, a tunnel that took its
\* routes along, or one that never was.
DispatchDelete(o, tunnel) ==
    IF ~o.fin THEN "idle"
    ELSE IF tunnel.uid = Nobody \/ tunnel.id = None THEN "removeFinalizer"
    ELSE "deleteClientFor"

\* Fault: the finalizer is left to a later reconcile.
DispatchWithoutFinalizer(o, tunnel) ==
    IF o.uid = None THEN "idle"
    ELSE IF o.deleting THEN DispatchDelete(o, tunnel)
    ELSE IF tunnel.uid = Nobody THEN "finish"
    ELSE "resolve"

\* Where a reconcile of o goes first: "idle" is an immediate return.
Dispatch(o, tunnel) ==
    IF o.uid = None THEN "idle"
    ELSE IF o.deleting THEN DispatchDelete(o, tunnel)
    ELSE IF tunnel.uid = Nobody THEN "finish"
    ELSE IF o.fin THEN "resolve" ELSE "addFinalizer"

\* The route and its Tunnel are read from the cache.  No Tunnel: Synced is
\* False and nothing else happens.
Reconcile ==
    /\ pc = "idle"
    /\ \E n \in Names, q \in {"now", "later"} :
          /\ <<n, q>> \in queue
          /\ LET o      == rcache[n]
                 tunnel == tseen[o.spec.tunnelRef]
                 to     == Dispatch(o, tunnel)
             IN  IF to = "idle"
                 THEN Return(queue \ {<<n, q>>})
                 ELSE /\ queue' = queue \ {<<n, q>>}
                      /\ cur' = n /\ pc' = to
                      /\ rt' = IF to = "finish" THEN SetReady(SetSynced(o, FALSE)) ELSE o
                      /\ loc' = [NoLocals EXCEPT !.tid = tunnel.id]
    /\ UNCHANGED <<route, platform, fixed, budget>>

\* Update with the finalizer added; any error is returned as it is.
AddFinalizer ==
    /\ pc = "addFinalizer"
    /\ LET put == /\ Current
                  /\ route' = [route EXCEPT ![cur] = Written(@, [@ EXCEPT !.fin = TRUE])]
       IN  \/ /\ put
              /\ rt' = route'[cur] /\ pc' = "resolve"
              /\ UNCHANGED <<cur, loc, queue, budget>>
           \/ /\ ~Current
              /\ Return(Later)
              /\ UNCHANGED <<route, budget>>
           \/ /\ Disturb
              /\ put \/ UNCHANGED route
              /\ Return(Later)
    /\ UNCHANGED <<platform, fixed>>

\* No tunnel identifier yet, then resolveUpstream, then ClientFor: each of them
\* may end the reconcile before anything is written to the platform.
Resolve ==
    /\ pc = "resolve"
    /\ LET addr == ResolveUpstream(svc, rt.spec)
       IN  CASE loc.tid = None -> NotSynced(rt, FALSE)
             [] loc.tid # None /\ addr = {} -> NotSynced(SetResolved(rt, FALSE), FALSE)
             [] loc.tid # None /\ addr # {} /\ ~cred -> NotSynced(SetResolved(rt, TRUE), FALSE)
             [] OTHER -> /\ rt' = SetResolved(rt, TRUE)
                         /\ loc' = [loc EXCEPT !.addr = addr]
                         /\ pc' = "listRoutes"
    /\ UNCHANGED <<route, cur, queue, platform, fixed, budget>>

-----------------------------------------------------------------------------
(* ensureRoute *)

Upstream == CHOOSE a \in loc.addr : TRUE

\* ensureRoute returned a route: the status is filled in.
Published(id) ==
    /\ rt' = SetReady(SetSynced([rt EXCEPT !.rid = id, !.tid = loc.tid], TRUE))
    /\ pc' = "finish"
    /\ UNCHANGED loc

\* Fault: what a create returns is taken to be what was asked for.
AfterCreateTrusting(row) == Published(row.id)

\* A route that is there, found or just created, is compared with the spec.
Compare(row) ==
    LET drift == RouteDrift(row, rt.spec, Upstream)
    IN  IF drift = {}
        THEN Published(row.id)
        ELSE /\ pc' = "updateRoute"
             /\ loc' = [loc EXCEPT !.id = row.id, !.drift = drift]
             /\ UNCHANGED rt

AfterCreate(row) == Compare(row)

\* The listing of a tunnel that is not there is a 404 or empty.
CallListRoutes ==
    /\ pc = "listRoutes"
    /\ LET found == FindRoute(routes, loc.tid, rt.rid, rt.spec)
       IN  \/ /\ IF found = {}
                 THEN pc' = "createRoute" /\ UNCHANGED <<rt, loc>>
                 ELSE \E row \in found :
                        IF IdentityChanged(row, rt.spec)
                        THEN /\ pc' = "replaceRoute"
                             /\ loc' = [loc EXCEPT !.id = row.id]
                             /\ UNCHANGED rt
                        ELSE Compare(row)
              /\ UNCHANGED <<cur, queue, budget>>
           \/ ~Live(loc.tid) /\ Missing
           \/ Refused
    /\ UNCHANGED <<route, platform, fixed>>

\* The identity cannot be updated: the route is deleted before the new one is
\* created.  A 404 counts as deleted.
CallReplaceRoute ==
    /\ pc = "replaceRoute"
    /\ LET gone == pc' = "createRoute" /\ UNCHANGED <<cur, rt, loc, queue>>
       IN  \/ /\ routes' = DeleteRoute(routes, loc.tid, loc.id)
              /\ \/ gone /\ UNCHANGED budget
                 \/ AnswerLost
           \/ Refused /\ UNCHANGED routes
           \/ BareNotFound /\ gone /\ UNCHANGED routes
    /\ UNCHANGED <<route, inflight, issued, fixed>>

CallCreateRoute ==
    /\ pc = "createRoute"
    /\ LET row == NewRoute(issued + 1, loc.tid, IdentityOf(rt.spec),
                           SettingsOf(rt.spec, Upstream), rt.uid)
       IN  \/ /\ Live(loc.tid)
              /\ routes' = routes \cup {row} /\ issued' = issued + 1
              /\ \/ AfterCreate(row) /\ UNCHANGED <<cur, queue, budget>>
                 \/ AnswerLost
              /\ UNCHANGED inflight
           \/ ~Live(loc.tid) /\ Missing /\ UNCHANGED platform
           \/ Refused /\ UNCHANGED platform
           \/ /\ LateCreates /\ AnswerLost
              /\ inflight' = inflight \cup {row} /\ issued' = issued + 1
              /\ UNCHANGED routes
    /\ UNCHANGED <<route, fixed>>

CallUpdateRoute ==
    /\ pc = "updateRoute"
    /\ LET target == {r \in routes : r.tunnel = loc.tid /\ r.id = loc.id}
           wanted == SettingsOf(rt.spec, Upstream)
       IN  \/ /\ target # {}
              /\ routes' = (routes \ target) \cup {Updated(r, loc.drift, wanted) : r \in target}
              /\ \/ Published(loc.id) /\ UNCHANGED <<cur, queue, budget>>
                 \/ AnswerLost
           \/ target = {} /\ Missing /\ UNCHANGED routes
           \/ Refused /\ UNCHANGED routes
    /\ UNCHANGED <<route, inflight, issued, fixed>>

\* finish: the write of the status.  Its own failure is returned unless the
\* object is gone and the reconcile had no error to return.
Finish ==
    /\ pc = "finish"
    /\ LET new == [rt EXCEPT !.obs = rt.gen]
       IN  \/ /\ UpdateStatus(new)
              /\ Return(Later)
              /\ UNCHANGED budget
           \/ /\ ~Current
              /\ Return(IF Exists(cur) \/ loc.err THEN Later ELSE queue)
              /\ UNCHANGED <<route, budget>>
           \/ /\ Disturb
              /\ UpdateStatus(new) \/ UNCHANGED route
              /\ Return(Later)
    /\ UNCHANGED <<platform, fixed>>

-----------------------------------------------------------------------------
(* reconcileDelete *)

\* Fault: no recorded identifier is taken to mean no route.
AfterDeleteClientNoLookup(o) == IF o.rid # None THEN "deleteRoute" ELSE "removeFinalizer"

\* The recorded identifier if there is one; the listing is searched otherwise.
AfterDeleteClient(o) == IF o.rid # None THEN "deleteRoute" ELSE "findRoute"

\* deleteRemoteRoute reads the Tunnel once more: one that has gone meanwhile, or
\* an unreadable credential, is an error and a later attempt.
DeleteClientFor ==
    /\ pc = "deleteClientFor"
    /\ IF tseen[rt.spec.tunnelRef].uid # Nobody /\ cred
       THEN /\ pc' = AfterDeleteClient(rt)
            /\ loc' = [loc EXCEPT !.id = rt.rid]
            /\ UNCHANGED <<cur, rt, queue>>
       ELSE Return(Later)
    /\ UNCHANGED <<route, platform, fixed, budget>>

CallFindRoute ==
    /\ pc = "findRoute"
    /\ LET found == FindRoute(routes, loc.tid, rt.rid, rt.spec)
       IN  \/ /\ IF found = {}
                 THEN pc' = "removeFinalizer" /\ UNCHANGED loc
                 ELSE /\ pc' = "deleteRoute"
                      /\ \E row \in found : loc' = [loc EXCEPT !.id = row.id]
              /\ UNCHANGED <<cur, rt, queue, budget>>
           \/ ~Live(loc.tid) /\ Return(Later) /\ UNCHANGED budget
           \/ Disturb /\ Return(Later)
    /\ UNCHANGED <<route, platform, fixed>>

\* Fault: a route that is already gone is an error.
CallDeleteRouteNotFoundFails ==
    /\ pc = "deleteRoute"
    /\ routes' = DeleteRoute(routes, loc.tid, loc.id)
    /\ IF routes' = routes
       THEN Return(Later) /\ UNCHANGED budget
       ELSE pc' = "removeFinalizer" /\ UNCHANGED <<cur, rt, loc, queue, budget>>
    /\ UNCHANGED <<route, inflight, issued, fixed>>

\* A 404 counts as deleted.
CallDeleteRoute ==
    /\ pc = "deleteRoute"
    /\ LET gone == pc' = "removeFinalizer" /\ UNCHANGED <<cur, rt, loc, queue>>
       IN  \/ /\ routes' = DeleteRoute(routes, loc.tid, loc.id)
              /\ \/ gone /\ UNCHANGED budget
                 \/ Disturb /\ Return(Later)
           \/ Disturb /\ Return(Later) /\ UNCHANGED routes
           \/ BareNotFound /\ gone /\ UNCHANGED routes
    /\ UNCHANGED <<route, inflight, issued, fixed>>

\* The API server drops the object with its last finalizer.
RemoveFinalizer ==
    /\ pc = "removeFinalizer"
    /\ LET put == Current /\ route' = [route EXCEPT ![cur] = NoRoute]
       IN  \/ put /\ Return(queue) /\ UNCHANGED budget
           \/ ~Current /\ Return(Later) /\ UNCHANGED <<route, budget>>
           \/ /\ Disturb
              /\ put \/ UNCHANGED route
              /\ Return(Later)
    /\ UNCHANGED <<platform, fixed>>

-----------------------------------------------------------------------------
(* The rest of the world *)

UserCreate(n) ==
    /\ ~Exists(n) /\ made < MaxRoutes
    /\ made' = made + 1
    /\ \E s \in SpecsOf[n] :
          route' = [route EXCEPT ![n] = [NoRoute EXCEPT !.uid = made + 1, !.rv = 1,
                                                        !.gen = 1, !.spec = s]]
    /\ UNCHANGED <<lifecycle, views, worker, queue, routes, inflight, budget>>

\* An object with the finalizer is only marked; one without is gone at once.
UserDelete(n) ==
    /\ Exists(n) /\ ~route[n].deleting
    /\ route' = [route EXCEPT ![n] = IF @.fin
                                     THEN [route[n] EXCEPT !.deleting = TRUE, !.rv = @ + 1]
                                     ELSE NoRoute]
    /\ UNCHANGED <<lifecycle, made, views, worker, queue, routes, inflight, budget>>

UserEdit(n) ==
    /\ Exists(n) /\ Disturb
    /\ \E s \in SpecsOf[n] \ {route[n].spec} :
          route' = [route EXCEPT ![n] = [route[n] EXCEPT !.spec = s, !.gen = @ + 1, !.rv = @ + 1]]
    /\ UNCHANGED <<lifecycle, made, views, worker, queue, routes, inflight>>

\* A Service comes, goes or changes its ports: the watch wakes its routes.
ServiceChanges(s) ==
    /\ Disturb
    /\ \E ports \in PortSets \ {svc[s]} : svc' = [svc EXCEPT ![s] = ports]
    /\ queue' = queue \cup Now(RoutesOfService(s))
    /\ UNCHANGED <<lifecycle, api, rcache, tseen, cred, worker, routes, inflight>>

UserTogglesCredential ==
    /\ Disturb
    /\ cred' = ~cred
    /\ UNCHANGED <<lifecycle, api, rcache, tseen, svc, worker, queue, routes, inflight>>

\* For(&TunnelRoute{}).
Deliver(n) ==
    /\ rcache[n] # route[n]
    /\ rcache' = [rcache EXCEPT ![n] = route[n]]
    /\ queue' = queue \cup Now({n})
    /\ UNCHANGED <<lifecycle, api, tseen, svc, cred, worker, routes, inflight, budget>>

\* Watches(&Tunnel{}): a Tunnel that becomes ready wakes the routes waiting.
DeliverTunnel(r) ==
    /\ tseen[r] # tun[r]
    /\ tseen' = [tseen EXCEPT ![r] = tun[r]]
    /\ queue' = queue \cup Now(RoutesOfTunnel(r))
    /\ UNCHANGED <<lifecycle, api, rcache, svc, cred, worker, routes, inflight, budget>>

\* The users and the reconciler of Tunnels.  A platform tunnel takes its routes
\* with it.  One that is created while its object is being deleted is left out:
\* its identifier is never recorded, so no route is created in it.
TunnelUser(r) ==
    /\ \/ Appear(r) /\ born < MaxTunnels
       \/ MarkDeleted(r)
    /\ UNCHANGED <<api, views, worker, queue, routes, inflight, budget>>

TunnelReconciler(r) ==
    /\ \/ Publish(r) /\ ~tun[r].deleting
       \/ Record(r) /\ tun' # tun
       \/ Withdraw(r)
       \/ tun[r].deleting /\ Vanish(r)
    /\ routes' = {x \in routes : \E y \in tunnels' : y.id = x.tunnel}
    /\ UNCHANGED <<api, views, worker, queue, inflight, budget>>

PanelDeletesTunnel ==
    /\ PanelDeletes /\ Disturb
    /\ \E x \in tunnels :
          /\ tunnels' = tunnels \ {x}
          /\ routes' = {y \in routes : y.tunnel # x.id}
    /\ UNCHANGED <<tun, born, issued, api, views, worker, queue, inflight>>

PanelDeletesRoute ==
    /\ PanelDeletes /\ Disturb
    /\ \E x \in routes : routes' = routes \ {x}
    /\ UNCHANGED <<lifecycle, api, views, worker, queue, inflight>>

\* A create the operator gave up on reaches the platform.
LateCreate ==
    /\ \E x \in inflight :
          /\ routes' = IF Live(x.tunnel) THEN routes \cup {x} ELSE routes
          /\ inflight' = inflight \ {x}
    /\ UNCHANGED <<lifecycle, api, views, worker, queue, budget>>

\* The operator restarts: everything in memory goes, and the first list of the
\* informers asks for a reconcile of what exists.
Restart ==
    /\ Disturb
    /\ pc' = "idle" /\ cur' = AnyName /\ rt' = NoRoute /\ loc' = NoLocals
    /\ rcache' = route /\ tseen' = tun
    /\ queue' = Now({n \in Names : Exists(n)})
    /\ UNCHANGED <<lifecycle, api, svc, cred, routes, inflight>>

-----------------------------------------------------------------------------

Worker ==
    \/ Reconcile \/ AddFinalizer \/ Resolve
    \/ CallListRoutes \/ CallReplaceRoute \/ CallCreateRoute \/ CallUpdateRoute \/ Finish
    \/ DeleteClientFor \/ CallFindRoute \/ CallDeleteRoute \/ RemoveFinalizer

Next ==
    \/ Worker
    \/ \E n \in Names : UserCreate(n) \/ UserDelete(n) \/ UserEdit(n) \/ Deliver(n)
    \/ \E s \in Services : ServiceChanges(s)
    \/ \E r \in Refs : TunnelUser(r) \/ TunnelReconciler(r) \/ DeliverTunnel(r)
    \/ UserTogglesCredential \/ PanelDeletesTunnel \/ PanelDeletesRoute
    \/ LateCreate \/ Restart

Spec == Init /\ [][Next]_vars

\* What runs keeps running: the worker, the watches and, with a credential, the
\* reconciler of Tunnels.  Nobody has to edit, delete or fail anything.
Fairness ==
    /\ WF_vars(Worker)
    /\ \A n \in Names : WF_vars(Deliver(n))
    /\ \A r \in Refs : WF_vars(DeliverTunnel(r)) /\ WF_vars(cred /\ TunnelReconciler(r))

FairSpec == Spec /\ Fairness

-----------------------------------------------------------------------------
(* Properties *)

\* A route on the platform belongs to an object that still exists and holds the
\* finalizer: none outlives its object on a public hostname, whatever is lost,
\* retried, crashed or deleted, and whatever becomes of its Tunnel.
NoRouteOutlives ==
    \A x \in routes : \E n \in Names : route[n].uid = x.owner /\ route[n].fin

\* The finalizer is in the API server, and not just in the memory of a
\* reconcile, before a route is created.
FinalizerGuardsRoute ==
    \A x \in routes : \A n \in Names :
        route[n].uid = x.owner /\ ~route[n].deleting => route[n].fin

\* The comment on findRoute: the hostname and the prefix are unique within a
\* tunnel, so they identify a route as well as its identifier does.
PairIsUnique ==
    \A x, y \in routes :
        x.tunnel = y.tunnel /\ x.ident.hostname = y.ident.hostname
            /\ x.ident.pathPrefix = y.ident.pathPrefix => x = y

\* Synced at the current generation means that the route of the status is on the
\* platform with the identity, the priority and the switch the spec asks for,
\* the two a create cannot express included, as long as its tunnel is there.
SyncedMeansPublished ==
    \A n \in Names : LET o == route[n] IN
        Exists(n) /\ ~o.deleting /\ o.synced /\ o.obs = o.gen /\ Live(o.tid)
            => \E x \in ListRoutes(routes, o.tid) :
                  /\ x.id = o.rid /\ x.ident = IdentityOf(o.spec)
                  /\ x.set.priority = Priority(o.spec) /\ x.set.enabled = Enabled(o.spec)

\* No object is forgotten: with the watch caught up and no reconcile running, an
\* object the operator still has to look after has a request or a timer.
NeverForgotten ==
    pc = "idle" => \A n \in Names :
        rcache[n] = route[n] /\ Exists(n) => \E q \in {"now", "later"} : <<n, q>> \in queue

\* What a reconcile of o needs before it can publish.
Publishable(o) ==
    /\ o.uid # None /\ ~o.deleting
    /\ cred /\ ResolveUpstream(svc, o.spec) # {}
    /\ tun[o.spec.tunnelRef].uid # Nobody /\ ~tun[o.spec.tunnelRef].deleting

\* Once the disturbances are over, a route whose Tunnel, Service and credential
\* are there ends up Ready for good, with exactly what its spec says on the
\* platform.
EventuallyPublished ==
    \A n \in Names : <>[](Publishable(route[n]) =>
        /\ route[n].ready
        /\ \E x \in ListRoutes(routes, tun[route[n].spec.tunnelRef].id) :
              /\ x.id = route[n].rid /\ x.ident = IdentityOf(route[n].spec)
              /\ \E a \in ResolveUpstream(svc, route[n].spec) :
                    x.set = SettingsOf(route[n].spec, a))

\* A deletion ends: the operator keeps its finalizer for good only when there is
\* a tunnel to clean and no credential to clean it with.
DeletionCompletes ==
    \A n \in Names : <>[](route[n].deleting =>
        ~cred /\ tun[route[n].spec.tunnelRef].id # Nobody)
=============================================================================
