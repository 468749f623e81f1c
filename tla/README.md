# A TLA+ model of the Nubulus Cloud operator

The operator (`src/`) is a Kubernetes controller manager. A `Tunnel` object asks
for a WireGuard tunnel on the Nubulus platform and an agent Deployment that keeps
it up; a `TunnelRoute` publishes a Service under a public hostname through a
tunnel. What is hard about it is not any single call: it is that a tunnel on the
platform, an object, a Secret, a Deployment and a running pod have to agree when
any call may fail, be lost after it was applied, or be followed by a crash, while
the operator reads the cluster through a cache that lags.

This directory holds the specifications, the TLC configurations that check them
on small instances, and TLAPS proofs of the main results for every instance.

## Inventory

| component | source | state | operations |
|---|---|---|---|
| Tunnel reconciler | `internal/controller/tunnel_controller.go` | none of its own between reconciles; the status of the object, the token Secret, the agent Deployment, the tunnel on the platform | `Reconcile`, `ensureTunnel`, `ensureCredentialSecret`, `ensureAgentDeployment`, `reconcileDelete`, `fail`, `finish` |
| TunnelRoute reconciler | `internal/controller/tunnelroute_controller.go` | the status of the route, the route on the platform | `Reconcile`, `resolveUpstream`, `ensureRoute`, `findRoute`, `reconcileDelete`, the maps of its watches |
| agent builder | `internal/controller/agent.go` | none | `buildAgentDeployment` |
| client factory | `internal/controller/apiclient.go` | the map of clients, under a mutex | `ClientFor`, `configFor` |
| platform client | `internal/nubulus/tunnel.go`, `client.go` | token source | one method per REST call |
| error classification | `internal/nubulus/errors.go` | none | `parseAPIError`, `Classify`, `IsNotFound` |
| API types | `api/v1alpha1/` | the objects | – |
| manager | `cmd/main.go` | – | wiring, start and stop |

Interaction. Both reconcilers run in one manager, one worker each, woken by
watches (`For`, `Owns`, `Watches`), by `RequeueAfter` and by the backoff of a
returned error. They share the client factory. The TunnelRoute reconciler reads
the Tunnel's status to know the tunnel and uses the Tunnel's credential. Both
write to the platform over HTTP. The agent pod reads the token from the Secret
when it starts, and the platform reports whether it is connected.

What is hard: a create whose answer is lost; a crash between a remote write and
the status; deletion racing with creation; a token that is rotated and not
stored; a cache that does not show the operator's own last write; objects
deleted and recreated under the same name; tunnels deleted in the panel behind
the operator's back; the absence of any event for changes on the platform.
`PROJECT.json` lists these hazards line by line with the properties that cover
them.

What makes each component correct:

- Tunnel reconciler: no tunnel is left that no object points at; a deletion
  ends; a Tunnel ends up connected with a token that works; a working token is
  not rotated; the status does not claim what is not so; no object is forgotten.
- TunnelRoute reconciler: no route outlives its object; a changed route is
  replaced, not duplicated; two objects do not fight over a route.
- client factory: a reconcile authenticates with the credential its Tunnel
  names; one token source per credential.
- classification: a failure keeps its object alive whatever the verdict. Which
  verdict goes with which code decides only how long the timer is, and no property
  here is about that.

## Modules

| module | models |
|---|---|
| `TunnelAPI` | what each call of `TunnelClient`, made in an account, does to the tunnels of the platform, as operators |
| `TunnelController` | the Tunnel reconciler with the API server, the cached client, the workqueue, the platform, the agent pod, users and crashes |
| `TunnelControllerProofs` | proofs: types; the finalizer and the external id precede the tunnel; no Tunnel is forgotten; the Deployment is of the generation that was observed |
| `TunnelOrphanProofs` | proof: no tunnel is orphaned |
| `TunnelCredentialProofs` | proofs: a stored token works, and is not rotated |
| `TunnelLifecycle` | what the Tunnel reconciler promises: the life of a Tunnel and its platform tunnel in seven steps |
| `TunnelRefinement` | the mapping from `TunnelController` to `TunnelLifecycle` |
| `TunnelRefinementProofs` | proof: `TunnelController` implements `TunnelLifecycle` |
| `APIErrors` | `Classify` and `IsNotFound` over codes and statuses |
| `RouteAPI` | the route calls of `TunnelClient`; `findRoute`, `identityChanged`, `routeDrift`, `resolveUpstream` and the defaults of a spec, as operators |
| `RouteController` | the TunnelRoute reconciler over the Tunnels of `TunnelLifecycle`, with the caches, the workqueue, the platform's routes, users, the panel and crashes |
| `MCRoute` | specs, Services and ports for the runs of `RouteController` |
| `RouteControllerProofs` | proofs: types; the finalizer precedes the route; no TunnelRoute is forgotten |
| `RouteOrphanProofs` | proofs: no route outlives its object; a pair names one route |
| `RouteSyncProofs` | proof: Synced is true of the platform |
| `ClientCache` | `CachedClientFactory` under concurrent reconciles and rewritten Secrets |
| `ClientCacheProofs` | proofs: types; one client per key; the client matches the credential that was read |

### TunnelController

The variable `pc` is the next call of the reconcile in progress that leaves the
process, `t` its copy of the Tunnel, `loc` its other locals. One action is one
such call with the code up to the next one. Between two of them every action of
the environment may happen, and `Restart` may drop the reconcile.

| code | actions |
|---|---|
| `Reconcile`, the read and the dispatch | `Reconcile`, `Dispatch`, `DispatchDelete` |
| finalizer | `AddFinalizer` |
| `r.API.ClientFor` | `ClientFor`, `DeleteClientFor`: the account of the rest of the reconcile |
| `ensureTunnel` | `ReadTunnel`, `RecordExternalID`, `CallCreateTunnel`, `ReadCreated` |
| `ensureCredentialSecret` | `CheckSecret`, `CallRotateToken`, `WriteSecret` |
| `ensureAgentDeployment` and the rest of `Reconcile` | `EnsureDeployment` |
| `fail`, `finish` | `Fail`, `Finish` |
| `reconcileDelete` | `DeleteClientFor`, `CallFindTunnel`, `CallDeleteTunnel`, `RemoveFinalizer` |
| watches | `Deliver`, `DeliverSecret`, `EnqueueOwner` |

Numbers. A uid, an identifier, a token, a resourceVersion is a number and `None`
(0) is Go's empty string. One counter, `issued`, gives out identifiers and
tokens, so that two of them are equal only if they are the same.

What a call may do. A call to the platform succeeds, is refused (`Refused`: an
answer that `Classify` reads as permanent or not), or is applied and its answer
lost (`AnswerLost`: a transport error, never permanent). With `LateCreates` a
create may also be given up on and applied later; with `BareNotFounds` a 404 may
come from something in front of the platform. A write to the API server
succeeds, conflicts when the version read is not the current one, fails, or is
applied with its answer lost.

Abstractions, and why they are sound for the properties:

- the conditions are their truth values. Reason and message are left out; a
  status write that only changes a message bumps the version and wakes the
  object again, which adds wake-ups and takes none away;
- the cached client jumps to the current version of an object at any time it
  differs (`Deliver`). Intermediate versions are skipped, which a watch may also
  do, and every version that was current can be the cached one for as long as
  the behaviour needs;
- the Secret is read without delay unless `StaleSecrets`; the Deployment is
  always read without delay, since a stale read of it only makes
  `CreateOrUpdate` conflict and be retried;
- the requests of the workqueue are `now` and `later`: the queue deduplicates,
  and how long a timer runs does not matter to the properties;
- the pod has the template of the Deployment it was started from and the token
  the Secret held at that moment; `Handshake` is the platform noticing;
- what `spec.credentials`, `spec.endpoints` and the credential Secret decide is an
  account of `Accounts`, or that nothing can be read (`cred`). `UserEdit` changes
  the first two, `UserChangesCredential` the last. A reconcile that works from
  a copy older than the edit still uses the former credential; in the model that is
  a `UserEdit` that keeps the account and a `UserChangesCredential` after it;
- a read through the cached client fails with NotFound or not at all. The returns
  for other errors (`tunnel_controller.go:90`, `:263`,
  `tunnelroute_controller.go:82`, `:99`, `:434`) are left out: a read from the
  informer's store has no others;
- the token Secret is created by the operator. A Secret of that name made by a
  user beforehand is not modelled, nor is a user who deletes or edits the
  Deployment;
- one reconcile of the object at a time, as the workqueue guarantees within one
  process. Two operators at once are not modelled: both manifests turn leader
  election on.

Bounds. `MaxObjects` objects of the name are created one after another.
`MaxEdits` changes that users make (to the spec, the credential, the token Secret)
and `MaxFaults` faults and crashes happen in a behaviour: they are the `budget` of
everything that need not happen, and the loops of a failing system are cut by it.
They are counted apart so that an edit does not use up the fault that may follow
it: with one of each, a token Secret is emptied, the tunnel is rotated, and the
write of the new token fails. Creating and deleting objects, the watches and the
pods cost nothing of it. `MaxIssued` stops rotations whose token cannot be stored:
beyond it a rotation waits until the Secret can be written, which the code would
reach by retrying; with 1, in `tunnel_panel`, there is no such rotation, which none
of its properties is about. Two objects are what it takes for an object to meet
the leftovers of another; two faults are what the counterexamples with panel
deletions take, and one is enough for every other failure that was found. The
passing runs have one account: a second one breaks `NoOrphan` by itself
(`tunnel_moved`). The proofs have no bound on objects, edits and faults.

Deadlock is not checked, here and in `RouteController`: with no object left to
create, nothing happens and nothing has to.

### TunnelLifecycle and TunnelRefinement

The other reconciler does not care how a tunnel is created, only when it is there
and when the object names it. `TunnelLifecycle` says that much: a user applies a
Tunnel (`Appear`) and deletes it (`MarkDeleted`); one platform tunnel is created
for an object (`Publish`), and the status names it while it is there (`Record`);
it is deleted only for an object that is being deleted (`Withdraw`), and the object
goes only when nothing of it is left (`Vanish`). `Rotate` is a credential taking
the next number. `TunnelRefinement` maps the object, the tunnels and the counters
of `TunnelController` to it; `ImplementsLifecycle` is the abstract specification
as a property. It holds with one account and without panel deletions, late creates
and proxies, which break `Vanish` in the way described below.

### RouteController

It extends `TunnelLifecycle`, so its Tunnels live as the other reconciler lets
them, in every interleaving with its own steps: `TunnelReconciler` is that
reconciler's part, and a tunnel that is withdrawn takes its routes along.

| code | actions |
|---|---|
| `Reconcile`, the two reads and the dispatch | `Reconcile`, `Dispatch`, `DispatchDelete` |
| finalizer | `AddFinalizer` |
| no identifier, `resolveUpstream`, `ClientFor` | `Resolve` |
| `ensureRoute` | `CallListRoutes`, `CallReplaceRoute`, `CallCreateRoute`, `CallUpdateRoute` |
| `finish` | `Finish` |
| `reconcileDelete`, `deleteRemoteRoute` | `DeleteClientFor`, `CallFindRoute`, `CallDeleteRoute`, `RemoveFinalizer` |
| watches, `routesOfTunnel`, `routesOfService` | `Deliver`, `DeliverTunnel`, `ServiceChanges` |

What is abstracted, beside what was said of `TunnelController`:

- a pointer of the spec is the set of its value, empty for nil; the name of a
  Service in the cluster's DNS is the pair of its name and `svc`;
- `owner` of a route is the uid of the TunnelRoute it was created for. The
  platform does not know it and no operation reads it; the properties do;
- a create does not refuse a hostname and prefix the tunnel already has, as in
  the test double; the listing of a tunnel that is gone is a 404 or empty;
- Services are what the cached client shows. Only the cache is read, so a lag
  between the Service and the cache changes nothing;
- the credential is one for the Tunnels of the namespace, and always leads to the
  same account: what happens to a tunnel when it does not is a question of
  `TunnelController`;
- the cached reads fail with NotFound only, as above;
- a tunnel that is created while its object is being deleted is left out: the
  write of its identifier would conflict, so no route can be in it;
- finalizers of other controllers on a TunnelRoute are left out.

Bounds. `MaxRoutes` and `MaxTunnels` objects are created over time, over all
names; `MaxDisturbances` is the budget of faults, crashes, edits, toggles of the
credential and changes of Services. Creating and deleting objects costs nothing of
it. The specs are in `MCRoute`: a host route to a named port of a Service, the
same with the two settings a create cannot express (priority 0 and disabled), a
path route to an address, and a route in another tunnel. One name and one tunnel
are enough for everything but two routes with one hostname and the change of
tunnel, which have runs of their own.

### ClientCache

`data` is the credential Secrets as the cached client shows them, `clients` the
map, `call` the calls in progress. `ConfigFor` reads the Secret; `ClientFor` is
the part under the mutex. One entry of a Secret stands for the pair of client id
and client secret, read and checked together. The three endpoint settings are
one value; that none of them contains the separator of the key is assumed.
`nubulus.New` does not fail here: its one error is an empty client id or secret
(`client.go:117`), which `configFor` has refused before (`apiclient.go:125`).

## Runs

| run | shows |
|---|---|
| `tunnel_safety` | two objects, one edit and one fault, 3.9 million states: `NoOrphan`, `StoredCredentialIsLive`, `NeverForgotten`, `DeployedSpecIsObserved`, `RotationOnlyWhenNothingStored`, and the refinement `ImplementsLifecycle` |
| `tunnel_liveness` | `TypeOK`, `EventuallyConnected` and `DeletionCompletes` with the agent running, one edit and one fault: among others, a Secret that is spoiled and a rotation whose token is not stored |
| `tunnel_panel` | panel deletions, late creates, proxies and a lagging Secret cache, two faults: `TunnelComesBack`, `DeletionCompletes`, and `FinalizerGuardsRemote` where `NoOrphan` no longer holds |
| `client_cache` | two reconciles, two Secrets, two endpoints: the right client, and one per key |
| `route_safety` | two TunnelRoutes of one name, a Tunnel that comes and goes, two disturbances, 3.3 million states: `NoRouteOutlives`, `SyncedMeansPublished`, `PairIsUnique`, `NeverForgotten` |
| `route_liveness` | edits of the identity, panel deletions, late creates, proxies, Services and Tunnels that come and go: `TypeOK`, `FinalizerGuardsRoute`, `EventuallyPublished`, `DeletionCompletes` |

Six runs show where the code does not do what its comments say. Each checks one
property and TLC finds it violated; `findings` in `PROJECT.json` quotes the line.

| run | what happens |
|---|---|
| `tunnel_moved` | `spec.credentials` is edited to a credential of another account: the tunnel in the former one is neither found nor deleted, and the object goes without it. No fault |
| `tunnel_stale_dead_token` | a reconcile that does not see the Secret just written rotates a stored token and cannot write the new one: the stored one is dead for good, with no fault involved |
| `client_cache_names` | two Tunnels reading different entries of one Secret share a client |
| `route_moved` | a published route gets another `tunnelRef` and is deleted: the route in the former tunnel stays |
| `route_stale_id` | a Tunnel is recreated; the route is created in the new tunnel and deleted before the status names it; `deleteRemoteRoute` trusts the identifier of the former route, gets a 404 and lets the object go. No fault, no edit |
| `route_shared` | the second of two TunnelRoutes with one hostname adopts the route of the first; one is deleted, and the other says Synced of a route that is gone |

The same instances show more, for which no run is kept:

- `NoOrphan` with `PanelDeletes` and two faults: a tunnel deleted in the
  panel is replaced, the reconcile fails before the status, and the deletion trusts
  the old identifier (`tunnel_controller.go:364`, the pattern of `route_stale_id`);
- `NoOrphan` with `BareNotFounds`: the 404 of a proxy counts as a deleted tunnel
  (`errors.go:133`);
- `StoredTokenBecomesLive` with `PanelDeletes`: the token of a replacement is lost
  and the one of the deleted tunnel is kept (`tunnel_controller.go:261`). The same
  happens with two accounts: after a move the token of the former tunnel counts as
  usable;
- `TunnelComesBack` holds with `Accounts = {1, 2}`, one edit and one fault in the
  instance of `tunnel_panel` without `StaleSecrets`: after a move the tunnel the
  status names is one of the new account;
- `NoRouteOutlives` with `SpecsOf <- MCTwoIdentities`: a hostname edited between
  the create and the status write leaves the first route behind;
- an unreadable credential leaves Ready True beside Synced False
  (`tunnel_controller.go:116`), and its repair is noticed by the timer and not by
  a watch, which covers only the Secrets a Tunnel owns (`:502`).

### Fairness

`FairSpec` assumes weak fairness of the worker as a whole (controller-runtime
runs a pending request, and a reconcile does not stop in the middle but by a
crash, which is an action), of each watch, of the garbage collector, of the
kubelet (with `AgentRuns`) and of the handshake monitor. No user and no fault is
fair: the kubelet that stops a pod of a former template is `PodStop`, which is fair,
and a pod that dies is `PodFail`, which is not. Since a behaviour has finitely many
edits and faults, the liveness properties say what holds once they are over. The worker is one fairness condition, so a
step of it that is enabled in several ways may always be taken in the same one.

`FairSpec` of `RouteController` is the same for its worker and its watches. The
steps of the Tunnel reconciler are fair while the credential is readable: that it
publishes and withdraws is what `EventuallyConnected`, `TunnelComesBack` and
`DeletionCompletes` of `TunnelController` say. `route_liveness` has one disturbance:
an edit of the identity, or a fault. A fault in the middle of the replacement that
follows an edit needs two, which is more than 3 million states under this
fairness and out of TLC's reach here; nor is its one Tunnel followed by another of
its name.

## Proofs

Every invariant and action property that a run checks, and the refinement, is also
a theorem that TLAPS checks, for any number of objects, edits, faults, names and
values. An invariant P is proved by an inductive invariant that implies it:
`Init => Inv`, `Inv /\ [Next]_vars => Inv'` with one lemma per action or group of
actions, `Inv => P`. Each was checked by TLC before it was proved.

| theorem | states | holds for |
|---|---|---|
| `TunnelControllerProofs!TypeCorrect` | `TypeOK` | every value of the constants |
| `TunnelControllerProofs!FinalizerGuards` | `FinalizerGuardsRemote` | every value |
| `TunnelControllerProofs!NothingForgotten` | `NeverForgotten` | every value |
| `TunnelControllerProofs!DeployedIsObserved` | `DeployedSpecIsObserved` | every value |
| `TunnelOrphanProofs!NoOrphans` | `NoOrphan` | one account (`OneAccount`); no panel deletions, late creates, proxies |
| `TunnelRefinementProofs!RefinesLifecycle` | `ImplementsLifecycle` | the same |
| `TunnelCredentialProofs!StoredIsLive` | `StoredCredentialIsLive` | the same, and no lag on the Secret |
| `TunnelCredentialProofs!RotationIsSafe` | `RotationOnlyWhenNothingStored` | the same, and no lag on the Secret |
| `RouteControllerProofs!TypeCorrect` | `TypeOK` | every value |
| `RouteControllerProofs!FinalizerGuards` | `FinalizerGuardsRoute` | every value |
| `RouteControllerProofs!NothingForgotten` | `NeverForgotten` | every value |
| `RouteOrphanProofs!NoOrphanRoutes` | `NoRouteOutlives` | `Environment`, below |
| `RouteOrphanProofs!PairsAreUnique` | `PairIsUnique` | `Environment` |
| `RouteSyncProofs!SyncedIsTrue` | `SyncedMeansPublished` | `Environment` |
| `ClientCacheProofs!TypeCorrect` | `TypeOK` | every value |
| `ClientCacheProofs!OneTokenSource` | `TokenSourceShared` | every value |
| `ClientCacheProofs!ClientMatches` | `ClientMatchesConfig` | one entry name per Secret |

The assumptions are the named `ASSUME`s of the modules, which type the constants,
and the hypotheses the theorems state. TLC finds a counterexample to `NoOrphan` and to
`NoRouteOutlives` with any one of panel deletions, late creates and proxies (set
the switch in `tunnel_safety.cfg`, with two faults for the panel, or in
`route_safety.cfg`), to `NoOrphan` with a second account, to
`StoredCredentialIsLive` with a lagging Secret, and the violation runs are what
happens without the others. Only `MaxTunnels <= 1` asks for more than is needed,
see `Environment`.

### The Tunnel reconciler

- `FinalizerGuards`. The invariant is not inductive: a create happens at a time
  when the operator only has a copy of the object. `GuardInv` adds that versions
  never run ahead of their counter and that the same version is the same object
  (`Versions`), that the cache and the copy are behind the object and never ahead
  of it (`CacheBehind`, `CopyBehind`), what each `pc` knows of the copy
  (`Working`), and that the external ids on the platform and on the wire are
  guarded (`Guarded`). Every action is one of four kinds of change to the object
  (`ObjStep`), and the frame lemmas say what each keeps.
- `NothingForgotten`. `NeverForgotten` is inductive beside `GuardInv`. The lemma
  that carries it, `WorkerRemembers`, is about the returns: a reconcile that ends
  without a change of the object leaves a request or a timer.
- `DeployedIsObserved`. `ObservedInv` adds to `GuardInv` that no view of an object
  is older than the generation its status says was observed (`Generations`), that
  a copy of the current version is the object (`CopyCurrent`), and that a reconcile
  about to claim Synced has built the Deployment from its own copy (`Built`). The
  step that needs all three is `Finish`: the write is accepted only for the
  current version, so the generation it records is the one of the Deployment.
- `NoOrphans`. A second account, panel deletions, late creates and proxies each
  break it; a create applied after `reconcileDelete` found nothing is one that no
  order of the operator's steps could prevent. `AccountInv` says that every tunnel,
  every create on the wire and every reconcile past `ClientFor` is in one of
  `Accounts`; with `OneAccount` it follows that a call sees every tunnel there is
  (`SeesAll`), which the steps below use. `OrphanInv` adds that a recorded identifier is
  the one of the object's tunnel and that the tunnel is there until the object is
  closed to creating (`Recorded`, `Closed`), that a cached object with the
  finalizer and no deletion still exists (`CacheHeld`), that a creating reconcile
  works for the object that exists (`WorkHeld`), that identifiers and external ids
  name the same tunnels (`Distinct`), and what the create and the delete path know
  in between (`LocalKnown`, `Deleting`).
- `RefinesLifecycle`. From `OrphanInv`, `ObservedInv` and `TidKept` (a status that
  names a tunnel is not overwritten by one that does not) every step is a step of
  `TunnelLifecycle` or leaves its variables alone: a create is `Publish`, a write of
  the status that adds the identifier is `Record`, a rotation `Rotate`, the delete
  `Withdraw`, the last finalizer `Vanish`. That `Publish` happens once per object
  and `Vanish` only with nothing left is where `OrphanInv` is used.
- `StoredIsLive` and `RotationIsSafe`. `LiveInv` adds to `OrphanInv` that a
  reconcile about to rotate or to write a token found the Secret without one
  (`NothingStored`), that the token it holds is the one of the tunnel as it is now
  (`HeldIsLive`), and that a stored token outlives its tunnel only when the object
  will not get another one (`StoredHasTunnel`). With a lagging cache the first of these is false, which is
  the finding of `tunnel_stale_dead_token`.

### The TunnelRoute reconciler

- `FinalizerGuards` and `NothingForgotten` follow the same argument as for
  Tunnels, per name, with a second view (the cached Tunnels) that they do not
  depend on: they hold whatever the Tunnels do.
- `NoOrphanRoutes` and `PairsAreUnique` need the world to be what the code takes
  it for, and `Environment` says exactly that: nobody changes the account behind
  the operator, a create that was given up on is not applied later, a 404 is the
  platform's (`Undisturbed`); an edit leaves the hostname, the prefix, the type
  and the `tunnelRef` alone (`OneIdentity`, without which `route_moved`); two
  TunnelRoutes do not ask for one hostname and prefix (`DistinctPairs`, without
  which `route_shared`); and there is one Tunnel, which may be deleted at any time
  but is not followed by another (`MaxTunnels <= 1`, without which
  `route_stale_id`). The last is stronger than needed: Tunnels of different names
  that are not recreated would do. Any number of TunnelRoutes, of objects of a
  name, of Services and of edits of the settings remain.
  `OrphanInv` follows the one Tunnel through its life (`Phase`): before its tunnel
  exists no identifier is known to anyone, while it exists every known identifier
  is its own, and afterwards no route is left. In each phase a route has an object
  with the finalizer and the route's identity (`Rows`), an identifier in a status
  or in a copy of one names the object's route if that is there (`Recorded`), the
  route of an object that is still in use is there (`StillThere`), and `Knowledge`
  says what each `pc` has established: that nothing of the object is in the tunnel
  when it creates and when it removes the finalizer, and that the route it updates
  or deletes is the object's.
- `SyncedIsTrue`. `SyncInv` adds how far the cache and the copy may lag behind a
  status that has been written (`Lag`), that a status that says Synced names a
  route and a tunnel (`Claims`), that the row of an object that says Synced at its
  generation has the settings (`SyncedRows`), and that a reconcile about to say so
  has seen them or is about to send the difference (`WorkRows`). Priority 0 and a
  disabled route, which a create cannot express, are why the last one is there.

### The client cache

- `OneTokenSource`: a client once built for a key stays the one of that key until a
  restart, which also ends the reconciles that hold it (`Mapped`).
- `ClientMatches`: when all references to a Secret name the same entry (`OneName`;
  the run `client_cache_names` is what happens otherwise). `MatchInv` says that
  whatever was read under a key agrees with everything else read under it, which
  holds because every write of a Secret has a version of its own.

### Only model-checked

The liveness properties `EventuallyConnected`, `DeletionCompletes`,
`TunnelComesBack` and `EventuallyPublished`: they rest on fairness and so on
ENABLED, which is out of the prover's reach. The six runs that expect a violation
are counterexamples and have no proof.

## Plan

Done: both reconcilers, the client cache, the classification of errors, the
abstract specification of a Tunnel's life; every safety property proved, and the
refinement.

Left:

1. `NoOrphanRoutes`, `PairsAreUnique` and `SyncedIsTrue` for any number of Tunnels
   under different names, with the hypothesis that a name is not used again in
   place of `MaxTunnels <= 1`;
2. the parts of the safety properties that survive without the hypotheses: what
   can still be said of a tunnel when the panel deletes, beyond
   `FinalizerGuardsRemote`.

## Not modelled

Generated deep copies, scheme registration, flags, metrics, webhooks and TLS
set-up (no state of the reconcilers); charts, CRDs and RBAC (declarative); the
OAuth2 exchange and JSON encoding (libraries); the words of conditions and
events; the contents of the pod template other than what makes it change;
`ListTunnels` and `GetRoute`, which nothing in the repository calls.
