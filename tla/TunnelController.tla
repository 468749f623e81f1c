-------------------------- MODULE TunnelController --------------------------
(***************************************************************************)
(* The Tunnel reconciler (internal/controller/tunnel_controller.go), for   *)
(* the successive objects of one name, with what it talks to:              *)
(*   - the API server: the Tunnel object, the Secret holding the tunnel    *)
(*     token and the agent Deployment, with resourceVersions;              *)
(*   - the manager's cached client and workqueue, which see the API server *)
(*     with a delay;                                                       *)
(*   - the platform (TunnelAPI), every call of which may be refused, or    *)
(*     applied with its answer lost;                                       *)
(*   - the agent pod, which reads the token when it starts;                *)
(*   - users, the panel, and crashes of the operator.                      *)
(* A reconcile is a sequence of steps, one per call that leaves the        *)
(* process; everything else may happen between two of them.                *)
(***************************************************************************)
EXTENDS TunnelAPI, APIErrors

CONSTANTS
    Accounts,         \* the platform accounts that credentials may lead to
    MaxObjects,       \* how many objects of this name are created over time
    MaxEdits,         \* how many edits users make
    MaxFaults,        \* how many faults and crashes a behaviour has
    MaxIssued,        \* how many tokens are issued without being stored
    PanelDeletes,     \* may a tunnel be deleted in the panel?
    StaleSecrets,     \* may the cached client lag on the token Secret?
    AgentRuns,        \* does the cluster get to run the agent pod?
    LateCreates,      \* may a create the operator gave up on be applied later?
    BareNotFounds     \* may a proxy in front of the platform answer 404?

ASSUME ConstantsAssumption ==
    /\ Accounts \subseteq Nat \ {None}
    /\ MaxObjects \in Nat
    /\ MaxEdits \in Nat
    /\ MaxFaults \in Nat
    /\ MaxIssued \in Nat
    /\ PanelDeletes \in BOOLEAN
    /\ StaleSecrets \in BOOLEAN
    /\ AgentRuns \in BOOLEAN
    /\ LateCreates \in BOOLEAN
    /\ BareNotFounds \in BOOLEAN

VARIABLES
    obj,      \* the Tunnel in the API server; its uid is None when there is none
    secret,   \* the Secret <name>-tunnel-token
    dep,      \* the Deployment <name>-agent
    rev,      \* the last resourceVersion given to a Tunnel
    cache,    \* the Tunnel as the cached client reads it
    sCache,   \* the Secret as the cached client reads it
    queue,    \* the pending requests: "now", and "later" for a running timer
    pc,       \* the call the reconcile in progress makes next
    t,        \* the reconcile's own copy of the Tunnel
    loc,      \* its other locals
    remote,   \* the tunnels on the platform
    issued,   \* the last identifier or token the platform gave out
    inflight, \* creates given up on and still on the wire
    pod,      \* the agent pod
    cred,     \* the account of the credential spec.credentials names, or None
    uids,     \* objects created so far
    budget    \* edits and faults still to come

api      == <<obj, secret, dep, rev>>
informer == <<cache, sCache>>
worker   == <<pc, t, loc>>
platform == <<remote, issued, inflight>>
outside  == <<cache, sCache, pod, cred, uids>>   \* what no reconcile writes
vars     == <<obj, secret, dep, rev, cache, sCache, queue, pc, t, loc,
              remote, issued, inflight, pod, cred, uids, budget>>

-----------------------------------------------------------------------------
(* State *)

\* Tunnel: metadata (uid, rv, gen, deleting, fin, other: a finalizer of
\* somebody else's), status (ext, tid, obs) and the status conditions.
Tunnel == [uid : Nat, rv : Nat, gen : Nat, deleting : BOOLEAN, fin : BOOLEAN,
           other : BOOLEAN, ext : Nat, tid : Nat, synced : BOOLEAN,
           agent : BOOLEAN, ready : BOOLEAN, obs : Nat]

\* A Secret or Deployment whose owner is None does not exist.
Secret     == [owner : Nat, token : Nat, rv : Nat]
Deployment == [owner : Nat, gen : Nat, ver : Nat]
Pod        == [up : BOOLEAN, tmpl : Deployment, token : Nat]
Locals     == [acct : Nat, id : Nat, token : Nat, ver : Nat, online : BOOLEAN, err : BOOLEAN]
Create     == [acct : Nat, ext : Nat]
Budget     == [edits : Nat, faults : Nat]

\* What reading the credential may come to; None when it cannot be read.
Credentials == Accounts \cup {None}

Labels == {"idle", "addFinalizer", "clientFor", "getTunnel", "recordExternalID",
           "createTunnel", "getCreated", "checkSecret", "rotateToken",
           "writeSecret", "ensureDeployment", "finish",
           "deleteClientFor", "findTunnel", "deleteTunnel", "removeFinalizer"}

NoTunnel == [uid |-> None, rv |-> 0, gen |-> 0, deleting |-> FALSE,
             fin |-> FALSE, other |-> FALSE, ext |-> None, tid |-> None,
             synced |-> FALSE, agent |-> FALSE, ready |-> FALSE, obs |-> 0]
NoLocals == [acct |-> None, id |-> None, token |-> None, ver |-> 0, online |-> FALSE, err |-> FALSE]
NoDep    == [owner |-> None, gen |-> 0, ver |-> 0]
NoPod    == [up |-> FALSE, tmpl |-> NoDep, token |-> None]
NoSecret(rv) == [owner |-> None, token |-> None, rv |-> rv]

TypeOK ==
    /\ obj \in Tunnel /\ cache \in Tunnel /\ t \in Tunnel
    /\ secret \in Secret /\ sCache \in Secret
    /\ dep \in Deployment
    /\ pod \in Pod
    /\ rev \in Nat /\ issued \in Nat /\ uids \in Nat
    /\ budget \in Budget
    /\ queue \in SUBSET {"now", "later"}
    /\ pc \in Labels
    /\ loc \in Locals
    /\ remote \in SUBSET TunnelRow
    /\ inflight \in SUBSET Create
    /\ cred \in Credentials

Init ==
    /\ obj = NoTunnel /\ cache = NoTunnel
    /\ secret = NoSecret(0) /\ sCache = NoSecret(0)
    /\ dep = NoDep /\ pod = NoPod
    /\ rev = 0 /\ issued = 0 /\ uids = 0
    /\ budget = [edits |-> MaxEdits, faults |-> MaxFaults]
    /\ queue = {} /\ pc = "idle" /\ t = NoTunnel /\ loc = NoLocals
    /\ remote = {} /\ inflight = {}
    /\ cred \in Credentials

-----------------------------------------------------------------------------
(* What the steps share *)

Exists == obj.uid # None

\* A fault or a crash: a behaviour has MaxFaults of them.
Disturb == budget.faults > 0 /\ budget' = [budget EXCEPT !.faults = @ - 1]

\* A change a user makes: a behaviour has MaxEdits of them.
Edit == budget.edits > 0 /\ budget' = [budget EXCEPT !.edits = @ - 1]

\* The reconcile returns and leaves the requests q behind.
Return(q) ==
    /\ pc' = "idle" /\ t' = NoTunnel /\ loc' = NoLocals
    /\ queue' = q

\* Fault: the request is not put back.
LaterForgotten == queue

\* RequeueAfter, and the backoff a returned error gets, are both a timer.
Later == queue \cup {"later"}

\* Status().Update writes the status part of `new` over the object, when the
\* resourceVersion the reconcile read is still the current one.  A write that
\* changes nothing leaves the resourceVersion alone.
WithStatus(o, new) ==
    [o EXCEPT !.ext = new.ext, !.tid = new.tid, !.synced = new.synced,
              !.agent = new.agent, !.ready = new.ready, !.obs = new.obs]

UpdateStatus(new) ==
    /\ t.rv = obj.rv
    /\ IF WithStatus(obj, new) = obj
       THEN UNCHANGED <<obj, rev>>
       ELSE /\ rev' = rev + 1
            /\ obj' = [WithStatus(obj, new) EXCEPT !.rv = rev + 1]

\* The three conditions.  Ready rolls the other two up with the connection state.
SetSynced(o, synced) == [o EXCEPT !.synced = synced]

SetAgentAvailable(o, agent) == [o EXCEPT !.agent = agent]

SetReady(o, online) == [o EXCEPT !.ready = (o.synced /\ o.agent /\ online)]

\* fail: Synced and Ready go False, and the verdict of Classify decides whether
\* finish is given an error to return.
Fail(new, permanent) ==
    /\ t' = SetReady(SetSynced(new, FALSE), FALSE)
    /\ loc' = [loc EXCEPT !.err = ~permanent]
    /\ pc' = "finish"

\* A call to the platform goes wrong without having been applied: refused with
\* an answer Classify reads either way, or never answered.
Refused ==
    /\ Disturb
    /\ \E permanent \in Verdicts : Fail(t, permanent)
    /\ UNCHANGED queue

\* IsNotFound looks at the status alone, so a 404 that did not come from the
\* platform reads as the platform's.
BareNotFound == BareNotFounds /\ Disturb

\* A call was applied and its answer lost: a transport error, never permanent.
AnswerLost == Disturb /\ Fail(t, FALSE) /\ UNCHANGED queue

\* Owns: a change to a Secret or a Deployment wakes the Tunnel that controls it,
\* and a Secret nobody controls wakes nothing.
EnqueueOwner(owner) == IF owner = None THEN {} ELSE {"now"}

\* The request a change of the token Secret adds.  With StaleSecrets it comes
\* with the delivery to the cache (DeliverSecret), and otherwise at once.
SecretEvent(owner) == IF StaleSecrets THEN {} ELSE EnqueueOwner(owner)

\* The cached client's view of the Secret.
SecretSeen == IF StaleSecrets THEN sCache ELSE secret

-----------------------------------------------------------------------------
(* Reconcile *)

\* reconcileDelete's early exits: nothing of ours to do, and nothing ever
\* attempted against the platform.
DispatchDelete(o) ==
    IF ~o.fin THEN "idle"
    ELSE IF o.ext = None THEN "removeFinalizer" ELSE "deleteClientFor"

\* Fault: the finalizer is left to a later reconcile.
DispatchWithoutFinalizer(o) ==
    IF o.uid = None THEN "idle"
    ELSE IF o.deleting THEN DispatchDelete(o) ELSE "clientFor"

\* Where a reconcile of o goes first: "idle" is an immediate return.
Dispatch(o) ==
    IF o.uid = None THEN "idle"
    ELSE IF o.deleting THEN DispatchDelete(o)
    ELSE IF o.fin THEN "clientFor" ELSE "addFinalizer"

Reconcile ==
    /\ pc = "idle"
    /\ \E q \in queue : queue' = queue \ {q}
    /\ pc' = Dispatch(cache)
    /\ t' = IF Dispatch(cache) = "idle" THEN NoTunnel ELSE cache
    /\ loc' = NoLocals
    /\ UNCHANGED <<api, platform, outside, budget>>

\* Update with the finalizer added; any error is returned as it is.
AddFinalizer ==
    /\ pc = "addFinalizer"
    /\ \/ /\ t.rv = obj.rv
          /\ rev' = rev + 1
          /\ obj' = [obj EXCEPT !.fin = TRUE, !.rv = rev + 1]
          /\ \/ t' = obj' /\ pc' = "clientFor" /\ UNCHANGED <<loc, queue, budget>>
             \/ Disturb /\ Return(Later)
       \/ /\ t.rv # obj.rv
          /\ Return(Later)
          /\ UNCHANGED <<obj, rev, budget>>
       \/ /\ Disturb
          /\ Return(Later)
          /\ UNCHANGED <<obj, rev>>
    /\ UNCHANGED <<secret, dep, platform, outside>>

\* Fault: the external id is left to the write of the status at the end.
BeforeCreateUnrecorded(o) == "createTunnel"

\* What ensureTunnel does once it has decided to create: the external id is
\* recorded before the call, once.
BeforeCreate(o) == IF o.ext = None THEN "recordExternalID" ELSE "createTunnel"

\* The first thing ensureTunnel does.
AfterClient(o) == IF o.tid # None THEN "getTunnel" ELSE BeforeCreate(o)

\* The client of the rest of the reconcile.  An unreadable credential sets Synced
\* and nothing else, and finishes.
ClientFor ==
    /\ pc = "clientFor"
    /\ IF cred # None
       THEN pc' = AfterClient(t) /\ UNCHANGED t
       ELSE pc' = "finish" /\ t' = SetSynced(t, FALSE)
    /\ loc' = [loc EXCEPT !.acct = cred]
    /\ UNCHANGED <<api, queue, platform, outside, budget>>

\* Fault: a 404 of the recorded identifier is an error like any other.
ReadTunnelNotFoundFails ==
    /\ pc = "getTunnel"
    /\ \/ /\ \E r \in GetTunnel(remote, loc.acct, t.tid) :
                loc' = [loc EXCEPT !.id = r.id, !.online = r.online]
          /\ pc' = "checkSecret"
          /\ UNCHANGED <<t, queue, budget>>
       \/ /\ GetTunnel(remote, loc.acct, t.tid) = {}
          /\ Fail(t, TRUE)
          /\ UNCHANGED <<queue, budget>>
       \/ Refused
    /\ UNCHANGED <<api, platform, outside>>

\* GetTunnel of the recorded identifier.  A 404 falls through to the create.
ReadTunnel ==
    /\ pc = "getTunnel"
    /\ \/ /\ \E r \in GetTunnel(remote, loc.acct, t.tid) :
                loc' = [loc EXCEPT !.id = r.id, !.online = r.online]
          /\ pc' = "checkSecret"
          /\ UNCHANGED <<t, queue, budget>>
       \/ /\ \/ GetTunnel(remote, loc.acct, t.tid) = {} /\ UNCHANGED budget
             \/ BareNotFound
          /\ pc' = BeforeCreate(t)
          /\ UNCHANGED <<t, loc, queue>>
       \/ Refused
    /\ UNCHANGED <<api, platform, outside>>

RecordExternalID ==
    /\ pc = "recordExternalID"
    /\ LET new == [t EXCEPT !.ext = t.uid]
       IN  \/ /\ UpdateStatus(new)
              /\ t' = obj' /\ pc' = "createTunnel"
              /\ UNCHANGED <<loc, queue, budget>>
           \/ /\ t.rv # obj.rv
              /\ Fail(new, FALSE)
              /\ UNCHANGED <<obj, rev, queue, budget>>
           \/ /\ Disturb
              /\ UpdateStatus(new) \/ UNCHANGED <<obj, rev>>
              /\ Fail(new, FALSE)
              /\ UNCHANGED queue
    /\ UNCHANGED <<secret, dep, platform, outside>>

\* CreateTunnel under the object's uid.  A tunnel already carrying it is
\* adopted, and comes without a token.
CallCreateTunnel ==
    /\ pc = "createTunnel"
    /\ \/ /\ remote' = CreateTunnel(remote, loc.acct, t.uid, issued + 1)
          /\ issued' = IF remote' = remote THEN issued ELSE issued + 1
          /\ \/ /\ \E c \in CreateTunnelResult(remote, loc.acct, t.uid, issued + 1) :
                      loc' = [loc EXCEPT !.id = c.id, !.token = c.token]
                /\ pc' = "getCreated"
                /\ UNCHANGED <<t, queue, budget>>
             \/ AnswerLost
          /\ UNCHANGED inflight
       \/ Refused /\ UNCHANGED platform
       \/ /\ LateCreates
          /\ AnswerLost
          /\ inflight' = inflight \cup {[acct |-> loc.acct, ext |-> t.uid]}
          /\ UNCHANGED <<remote, issued>>
    /\ UNCHANGED <<api, outside>>

\* GetTunnel of the tunnel just created or adopted.  The token the create
\* returned is only a local: an error here drops it.
ReadCreated ==
    /\ pc = "getCreated"
    /\ \/ /\ \E r \in GetTunnel(remote, loc.acct, loc.id) :
                loc' = [loc EXCEPT !.online = r.online]
          /\ pc' = IF loc.token # None THEN "writeSecret" ELSE "checkSecret"
          /\ UNCHANGED <<t, queue, budget>>
       \/ /\ GetTunnel(remote, loc.acct, loc.id) = {}
          /\ Fail(t, TRUE)
          /\ UNCHANGED <<queue, budget>>
       \/ Refused
    /\ UNCHANGED <<api, platform, outside>>

-----------------------------------------------------------------------------
(* ensureCredentialSecret and ensureAgentDeployment *)

\* Fault: the credential is refreshed on every reconcile.
UsableNever(s) == FALSE

\* An existing Secret with a token in it is kept, whoever owns it.
Usable(s) == s.owner # None /\ s.token # None

CheckSecret ==
    /\ pc = "checkSecret"
    /\ IF Usable(SecretSeen)
       THEN /\ loc' = [loc EXCEPT !.ver = SecretSeen.rv]
            /\ pc' = "ensureDeployment"
       ELSE /\ UNCHANGED loc
            /\ pc' = "rotateToken"
    /\ UNCHANGED <<api, t, queue, platform, outside, budget>>

\* May CreateOrUpdate write the Secret?  It creates what the cached client does
\* not see, updates what it sees at the version it sees, and
\* SetControllerReference refuses a Secret controlled by another object.
SecretWritable ==
    IF SecretSeen.owner = None
    THEN secret.owner = None
    ELSE SecretSeen.owner = t.uid /\ SecretSeen.rv = secret.rv

\* Rotations whose token cannot be stored are bounded by MaxIssued: with it
\* reached, the call waits for the cache or the garbage collector.
CallRotateToken ==
    /\ pc = "rotateToken"
    /\ \/ /\ GetTunnel(remote, loc.acct, loc.id) # {}
          /\ issued < MaxIssued \/ SecretWritable
          /\ remote' = RotateToken(remote, loc.acct, loc.id, issued + 1)
          /\ issued' = issued + 1
          /\ \/ /\ loc' = [loc EXCEPT !.token = issued + 1]
                /\ pc' = "writeSecret"
                /\ UNCHANGED <<t, queue, budget>>
             \/ AnswerLost
       \/ /\ GetTunnel(remote, loc.acct, loc.id) = {}
          /\ Fail(t, TRUE)
          /\ UNCHANGED <<remote, issued, queue, budget>>
       \/ Refused /\ UNCHANGED <<remote, issued>>
    /\ UNCHANGED <<api, inflight, outside>>

PutSecret ==
    /\ SecretWritable
    /\ secret' = [owner |-> t.uid, token |-> loc.token, rv |-> secret.rv + 1]

WriteSecret ==
    /\ pc = "writeSecret"
    /\ \/ /\ PutSecret
          /\ loc' = [loc EXCEPT !.ver = secret.rv + 1]
          /\ pc' = "ensureDeployment"
          /\ queue' = queue \cup SecretEvent(t.uid)
          /\ UNCHANGED <<t, budget>>
       \/ /\ ~SecretWritable
          /\ Fail(t, FALSE)
          /\ UNCHANGED <<secret, queue, budget>>
       \/ /\ Disturb /\ Fail(t, FALSE)
          /\ \/ PutSecret /\ queue' = queue \cup SecretEvent(t.uid)
             \/ UNCHANGED <<secret, queue>>
    /\ UNCHANGED <<obj, dep, rev, platform, outside>>

\* Fault: the version of the Secret is not part of the template.
BuildAgentDeploymentUnversioned(o, version) == [owner |-> o.uid, gen |-> o.gen, ver |-> 0]

\* buildAgentDeployment: the template is a function of the spec and of the
\* version of the Secret.  gen and ver stand for the two.
BuildAgentDeployment(o, version) == [owner |-> o.uid, gen |-> o.gen, ver |-> version]

\* Fault: what is written on create is left alone afterwards, as the selector is.
MutateDeploymentOnce(existing, desired) ==
    IF existing.owner = None THEN desired ELSE existing

\* The mutate function of CreateOrUpdate: replicas, strategy and template are
\* assigned on every reconcile.
MutateDeployment(existing, desired) == desired

\* Status.AvailableReplicas of the Deployment o owns.
AvailableReplicas(o) == pod.up /\ pod.tmpl.owner = o.uid

\* The rest of Reconcile once every call has succeeded.
Synced(o) ==
    LET named == SetSynced([o EXCEPT !.tid = loc.id], TRUE)
    IN  SetReady(SetAgentAvailable(named, AvailableReplicas(o)), loc.online)

\* An error of this step is returned without touching the status.
EnsureDeployment ==
    /\ pc = "ensureDeployment"
    /\ LET new == MutateDeployment(dep, BuildAgentDeployment(t, loc.ver))
           put == dep.owner \in {None, t.uid} /\ dep' = new
       IN  \/ /\ put
              /\ t' = Synced(t) /\ pc' = "finish"
              /\ queue' = IF new = dep THEN queue ELSE queue \cup EnqueueOwner(t.uid)
              /\ UNCHANGED <<loc, budget>>
           \/ /\ dep.owner \notin {None, t.uid}
              /\ Return(Later)
              /\ UNCHANGED <<dep, budget>>
           \/ /\ Disturb
              /\ put \/ UNCHANGED dep
              /\ Return(Later)
    /\ UNCHANGED <<obj, secret, rev, platform, outside>>

\* finish: the write of the status.  Its own failure is returned unless the
\* object is gone and the reconcile had no error to return.
Finish ==
    /\ pc = "finish"
    /\ LET new == [t EXCEPT !.obs = t.gen]
       IN  \/ /\ UpdateStatus(new)
              /\ Return(Later)
              /\ UNCHANGED budget
           \/ /\ t.rv # obj.rv
              /\ Return(IF Exists \/ loc.err THEN Later ELSE queue)
              /\ UNCHANGED <<obj, rev, budget>>
           \/ /\ Disturb
              /\ UpdateStatus(new) \/ UNCHANGED <<obj, rev>>
              /\ Return(Later)
    /\ UNCHANGED <<secret, dep, platform, outside>>

-----------------------------------------------------------------------------
(* reconcileDelete *)

\* Fault: no recorded identifier is taken to mean no tunnel.
AfterDeleteClientNoLookup(o) == IF o.tid # None THEN "deleteTunnel" ELSE "removeFinalizer"

\* The recorded identifier if there is one; the platform is asked otherwise.
AfterDeleteClient(o) == IF o.tid # None THEN "deleteTunnel" ELSE "findTunnel"

\* An unreadable credential blocks the deletion until a later attempt.
DeleteClientFor ==
    /\ pc = "deleteClientFor"
    /\ IF cred # None
       THEN /\ pc' = AfterDeleteClient(t)
            /\ loc' = [loc EXCEPT !.acct = cred, !.id = t.tid]
            /\ UNCHANGED <<t, queue>>
       ELSE Return(Later)
    /\ UNCHANGED <<api, platform, outside, budget>>

CallFindTunnel ==
    /\ pc = "findTunnel"
    /\ \/ /\ \E r \in FindTunnelByExternalID(remote, loc.acct, t.uid) :
                loc' = [loc EXCEPT !.id = r.id]
          /\ pc' = "deleteTunnel"
          /\ UNCHANGED <<t, queue, budget>>
       \/ /\ FindTunnelByExternalID(remote, loc.acct, t.uid) = {}
          /\ pc' = "removeFinalizer"
          /\ UNCHANGED <<t, loc, queue, budget>>
       \/ Disturb /\ Return(Later)
    /\ UNCHANGED <<api, platform, outside>>

\* Fault: a tunnel that is already gone is an error.
CallDeleteTunnelNotFoundFails ==
    /\ pc = "deleteTunnel"
    /\ remote' = DeleteTunnel(remote, loc.acct, loc.id)
    /\ IF remote' = remote
       THEN Return(Later) /\ UNCHANGED budget
       ELSE pc' = "removeFinalizer" /\ UNCHANGED <<t, loc, queue, budget>>
    /\ UNCHANGED <<api, issued, inflight, outside>>

\* A 404 counts as deleted.
CallDeleteTunnel ==
    /\ pc = "deleteTunnel"
    /\ \/ /\ remote' = DeleteTunnel(remote, loc.acct, loc.id)
          /\ \/ pc' = "removeFinalizer" /\ UNCHANGED <<t, loc, queue, budget>>
             \/ Disturb /\ Return(Later)
       \/ Disturb /\ Return(Later) /\ UNCHANGED remote
       \/ BareNotFound /\ pc' = "removeFinalizer" /\ UNCHANGED <<t, loc, queue, remote>>
    /\ UNCHANGED <<api, issued, inflight, outside>>

\* The API server drops a deleted object when its last finalizer goes.
WithoutFinalizer(o, rv) ==
    IF o.other THEN [o EXCEPT !.fin = FALSE, !.rv = rv] ELSE NoTunnel

RemoveFinalizer ==
    /\ pc = "removeFinalizer"
    /\ \/ /\ t.rv = obj.rv
          /\ obj' = WithoutFinalizer(obj, rev + 1)
          /\ rev' = rev + 1
          /\ \/ Return(queue) /\ UNCHANGED budget
             \/ Disturb /\ Return(Later)
       \/ /\ t.rv # obj.rv
          /\ Return(Later)
          /\ UNCHANGED <<obj, rev, budget>>
       \/ /\ Disturb
          /\ Return(Later)
          /\ UNCHANGED <<obj, rev>>
    /\ UNCHANGED <<secret, dep, platform, outside>>

-----------------------------------------------------------------------------
(* The rest of the world *)

\* A Tunnel is created under this name once the previous one is gone.
UserCreate ==
    /\ ~Exists /\ uids < MaxObjects
    /\ uids' = uids + 1
    /\ rev' = rev + 1
    /\ obj' = [NoTunnel EXCEPT !.uid = uids + 1, !.rv = rev + 1, !.gen = 1]
    /\ UNCHANGED <<secret, dep, informer, worker, queue, platform, pod, cred, budget>>

\* An object with a finalizer, the operator's or another's, is only marked; one
\* without is gone at once.
UserDelete ==
    /\ Exists /\ ~obj.deleting
    /\ \E other \in BOOLEAN :
          obj' = IF obj.fin \/ other
                 THEN [obj EXCEPT !.deleting = TRUE, !.other = other, !.rv = rev + 1]
                 ELSE NoTunnel
    /\ rev' = rev + 1
    /\ UNCHANGED <<secret, dep, informer, worker, queue, platform, pod, cred, uids, budget>>

\* The finalizer that is not the operator's goes.
ReleaseOther ==
    /\ obj.deleting /\ obj.other
    /\ obj' = IF obj.fin THEN [obj EXCEPT !.other = FALSE, !.rv = rev + 1] ELSE NoTunnel
    /\ rev' = rev + 1
    /\ UNCHANGED <<secret, dep, informer, worker, queue, platform, pod, cred, uids, budget>>

\* An edit of the spec, which may name another credential.
UserEdit ==
    /\ Exists /\ Edit
    /\ obj' = [obj EXCEPT !.gen = obj.gen + 1, !.rv = rev + 1]
    /\ rev' = rev + 1
    /\ cred' \in Credentials
    /\ UNCHANGED <<secret, dep, informer, worker, queue, platform, pod, uids>>

\* The token Secret is deleted, or its key emptied.
UserSpoilsSecret ==
    /\ secret.owner # None /\ Edit
    /\ secret' \in {NoSecret(secret.rv + 1),
                    [secret EXCEPT !.token = None, !.rv = secret.rv + 1]}
    /\ queue' = queue \cup SecretEvent(secret.owner)
    /\ UNCHANGED <<obj, dep, rev, informer, worker, platform, pod, cred, uids>>

\* The credential Secret comes, goes or is rewritten.  It is the user's: no
\* Tunnel owns it.
UserChangesCredential ==
    /\ Edit
    /\ cred' \in Credentials \ {cred}
    /\ queue' = queue \cup EnqueueOwner(None)
    /\ UNCHANGED <<api, informer, worker, platform, pod, uids>>

PanelDelete ==
    /\ PanelDeletes /\ Disturb
    /\ \E r \in remote : remote' = remote \ {r}
    /\ UNCHANGED <<api, informer, worker, queue, issued, inflight, pod, cred, uids>>

\* A create the operator gave up on reaches the platform.
LateCreate ==
    /\ \E e \in inflight :
          /\ remote' = CreateTunnel(remote, e.acct, e.ext, issued + 1)
          /\ inflight' = inflight \ {e}
    /\ issued' = IF remote' = remote THEN issued ELSE issued + 1
    /\ UNCHANGED <<api, informer, worker, queue, pod, cred, uids, budget>>

\* For(&Tunnel{}): the watch brings the cache up to date and adds a request.
Deliver ==
    /\ cache # obj
    /\ cache' = obj
    /\ queue' = queue \cup {"now"}
    /\ UNCHANGED <<api, sCache, worker, platform, pod, cred, uids, budget>>

DeliverSecret ==
    /\ StaleSecrets /\ sCache # secret
    /\ sCache' = secret
    /\ queue' = queue \cup EnqueueOwner(sCache.owner) \cup EnqueueOwner(secret.owner)
    /\ UNCHANGED <<api, cache, worker, platform, pod, cred, uids, budget>>

\* The garbage collector: an owned object goes after its owner.
Collectable(owner) == owner # None /\ owner # obj.uid

CollectSecret ==
    /\ Collectable(secret.owner)
    /\ secret' = NoSecret(secret.rv + 1)
    /\ queue' = queue \cup SecretEvent(secret.owner)
    /\ UNCHANGED <<obj, dep, rev, informer, worker, platform, pod, cred, uids, budget>>

CollectDeployment ==
    /\ Collectable(dep.owner)
    /\ dep' = NoDep
    /\ queue' = queue \cup EnqueueOwner(dep.owner)
    /\ UNCHANGED <<obj, secret, rev, informer, worker, platform, pod, cred, uids, budget>>

\* The Recreate strategy: a pod of another template goes before the next one
\* starts.
PodStop ==
    /\ pod.up /\ pod.tmpl # dep
    /\ pod' = NoPod
    /\ queue' = queue \cup EnqueueOwner(dep.owner)
    /\ UNCHANGED <<api, informer, worker, platform, cred, uids, budget>>

\* The pod is evicted or dies.
PodFail ==
    /\ pod.up /\ Disturb
    /\ pod' = NoPod
    /\ queue' = queue \cup EnqueueOwner(dep.owner)
    /\ UNCHANGED <<api, informer, worker, platform, cred, uids>>

\* secretKeyRef: the token becomes the environment of the process, once.
PodStart ==
    /\ AgentRuns /\ ~pod.up /\ dep.owner # None /\ Usable(secret)
    /\ pod' = [up |-> TRUE, tmpl |-> dep, token |-> secret.token]
    /\ queue' = queue \cup EnqueueOwner(dep.owner)
    /\ UNCHANGED <<api, informer, worker, platform, cred, uids, budget>>

\* The platform's view of who is connected catches up with the agent.
Handshake ==
    /\ remote' = {[r EXCEPT !.online = (pod.up /\ pod.token = r.token)] : r \in remote}
    /\ remote' # remote
    /\ UNCHANGED <<api, informer, worker, queue, issued, inflight, pod, cred, uids, budget>>

\* The operator restarts: everything in memory goes, and the first list of the
\* informers asks for a reconcile of what exists.
Restart ==
    /\ Disturb
    /\ pc' = "idle" /\ t' = NoTunnel /\ loc' = NoLocals
    /\ cache' = obj
    /\ sCache' = IF StaleSecrets THEN secret ELSE sCache
    /\ queue' = IF Exists THEN {"now"} ELSE {}
    /\ UNCHANGED <<api, platform, pod, cred, uids>>

-----------------------------------------------------------------------------

\* The reconcile's own steps.
Worker ==
    \/ Reconcile \/ AddFinalizer \/ ClientFor \/ ReadTunnel \/ RecordExternalID
    \/ CallCreateTunnel \/ ReadCreated \/ CheckSecret \/ CallRotateToken
    \/ WriteSecret \/ EnsureDeployment \/ Finish
    \/ DeleteClientFor \/ CallFindTunnel \/ CallDeleteTunnel \/ RemoveFinalizer

Next ==
    \/ Worker
    \/ UserCreate \/ UserDelete \/ ReleaseOther \/ UserEdit
    \/ UserSpoilsSecret \/ UserChangesCredential
    \/ PanelDelete \/ LateCreate
    \/ Deliver \/ DeliverSecret \/ CollectSecret \/ CollectDeployment
    \/ PodStop \/ PodFail \/ PodStart \/ Handshake \/ Restart

Spec == Init /\ [][Next]_vars

\* What runs keeps running: the worker, the watches, the garbage collector, the
\* kubelet and the agent.  Nobody has to edit, delete or fail anything.
Fairness ==
    /\ WF_vars(Worker)
    /\ WF_vars(Deliver) /\ WF_vars(DeliverSecret)
    /\ WF_vars(CollectSecret) /\ WF_vars(CollectDeployment)
    /\ WF_vars(PodStop) /\ WF_vars(PodStart) /\ WF_vars(Handshake)

FairSpec == Spec /\ Fairness

-----------------------------------------------------------------------------
(* Properties *)

\* Every tunnel on the platform belongs to an object that still exists, that
\* holds the finalizer and that has the external id in its status, so that
\* reconcileDelete will come for it: whatever is lost, retried or crashed, no
\* tunnel is left that nothing in the cluster points at.
NoOrphan ==
    \A r \in remote : r.ext = obj.uid /\ obj.fin /\ obj.ext # None

\* The two writes that precede a create protect it: as long as an object is not
\* being deleted, a tunnel carrying its uid means that the finalizer and the
\* external id are in the API server, not just in the memory of a reconcile.
FinalizerGuardsRemote ==
    \A r \in remote :
        r.ext = obj.uid /\ ~obj.deleting => obj.fin /\ obj.ext # None

\* A token kept in the Secret is one the platform accepts: nothing rotates or
\* replaces the credential of a tunnel and leaves the old one stored
\* (ensureCredentialSecret keeps a stored token without ever checking it).
StoredCredentialIsLive ==
    \A r \in remote :
        r.ext = secret.owner /\ secret.token # None => r.token = secret.token

\* A rotation takes a running agent down, so the platform changes the token of a
\* tunnel only while no token for it is stored.
RotationOnlyWhenNothingStored ==
    [][\A r \in remote : \A s \in remote' :
          r.id = s.id /\ r.token # s.token
              => ~(secret.owner = r.ext /\ secret.token # None)]_vars

\* No object is forgotten: with the watch caught up and no reconcile running, an
\* object the operator still has to look after has a request or a timer.
NeverForgotten ==
    pc = "idle" /\ cache = obj /\ Exists /\ (obj.deleting => obj.fin)
        => queue # {}

\* Synced=True with ObservedGeneration equal to the generation means that the
\* Deployment was built from that generation of the spec.
DeployedSpecIsObserved ==
    Exists /\ ~obj.deleting /\ obj.synced /\ obj.obs = obj.gen
        => dep.owner = obj.uid /\ dep.gen = obj.gen

\* Once the edits and faults are over, a Tunnel whose credential is readable ends up
\* Ready for good with a tunnel in the account of that credential, and the token
\* in the Secret and in the pod is the one the platform accepts.
EventuallyConnected ==
    <>[](Exists /\ ~obj.deleting /\ cred # None =>
            /\ obj.synced /\ obj.ready
            /\ \E r \in remote :
                  /\ r.acct = cred /\ r.id = obj.tid /\ r.online
                  /\ r.token = secret.token
                  /\ r.token = pod.token)

\* A deletion ends: the operator keeps its finalizer for good only when it
\* attempted a create and cannot read the credential to clean up.
DeletionCompletes ==
    <>[](obj.deleting /\ obj.fin => obj.ext # None /\ cred = None)

\* A Tunnel whose platform tunnel is deleted behind its back, or whose credential
\* leads to another account, gets another one, and its status ends up naming a
\* tunnel that exists in that account.
TunnelComesBack ==
    <>[](Exists /\ ~obj.deleting /\ cred # None =>
            obj.synced /\ \E r \in remote : r.acct = cred /\ r.id = obj.tid /\ r.ext = obj.uid)

\* The token in the Secret ends up being the one of the tunnel the status names,
\* whatever the platform and the cache did: no tunnel is left with a stored
\* token that no agent can connect with.
StoredTokenBecomesLive ==
    <>[](Exists /\ ~obj.deleting /\ cred # None =>
            \E r \in remote : r.id = obj.tid /\ r.token = secret.token)
=============================================================================
