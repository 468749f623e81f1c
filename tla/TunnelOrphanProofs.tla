------------------------- MODULE TunnelOrphanProofs -------------------------
(***************************************************************************)
(* No tunnel is orphaned, for every number of objects, edits and faults,   *)
(* as long as all credentials lead to one account, nobody deletes tunnels  *)
(* in the panel, a create the operator gave up on is never applied         *)
(* afterwards, and a 404 is the platform's own.                            *)
(***************************************************************************)
EXTENDS TunnelControllerProofs

USE DEF None, SetSynced, SetAgentAvailable, SetReady

-----------------------------------------------------------------------------
(* Accounts *)

\* Where a reconcile calls the platform, and so has a client.
Calls == {"getTunnel", "recordExternalID", "createTunnel", "getCreated", "checkSecret",
          "rotateToken", "writeSecret", "ensureDeployment", "findTunnel", "deleteTunnel"}

\* A tunnel, a create on the wire and a client are in an account that some
\* credential leads to.
AccountInv ==
    /\ \A r \in remote : r.acct \in Accounts
    /\ \A e \in inflight : e.acct \in Accounts
    /\ pc \in Calls => loc.acct \in Accounts

\* All credentials lead to the same account.
OneAccount == \A a, b \in Accounts : a = b

\* A reconcile that has a client sees every tunnel there is.
SeesAll == pc \in Calls => \A r \in remote : r.acct = loc.acct

LEMMA AccountInit == Init => AccountInv
BY DEF Init, AccountInv, Calls

\* Creates are made in the account of the client, and nothing moves a tunnel.
LEMMA AccountNext ==
    ASSUME TypeOK, TypeOK', AccountInv, [Next]_vars
    PROVE  AccountInv'
<1>1. CASE UNCHANGED <<remote, inflight>>
  <2>1. pc' \in Calls => loc'.acct \in Accounts
    <3>1. CASE ClientFor
      BY <3>1 DEF ClientFor, Credentials, TypeOK, Locals, Calls
    <3>2. CASE DeleteClientFor
      <4>1. CASE cred = None
        BY <3>2, <4>1 DEF DeleteClientFor, Return, Calls
      <4>2. CASE cred # None
        <5>1. loc' = [loc EXCEPT !.acct = cred, !.id = t.tid]
          BY <3>2, <4>2 DEF DeleteClientFor
        <5> QED
          BY <4>2, <5>1 DEF Credentials, TypeOK, Locals
      <4> QED
        BY <4>1, <4>2
    <3>3. CASE ~ClientFor /\ ~DeleteClientFor
      <4>1. pc' \in Calls => pc \in Calls /\ loc'.acct = loc.acct
        BY <3>3 DEF Next, Worker, Reconcile, Dispatch, DispatchDelete, AddFinalizer, ReadTunnel,
              RecordExternalID, CallCreateTunnel, ReadCreated, CheckSecret, CallRotateToken,
              WriteSecret, EnsureDeployment, Finish, CallFindTunnel, CallDeleteTunnel,
              RemoveFinalizer, UserCreate, UserDelete, ReleaseOther, UserEdit, UserSpoilsSecret,
              UserChangesCredential, PanelDelete, LateCreate, Deliver, DeliverSecret,
              CollectSecret, CollectDeployment, PodStop, PodFail, PodStart, Handshake, Restart,
              Refused, AnswerLost, Fail, Return, BeforeCreate, Calls, TypeOK, Locals, vars, worker
      <4> QED
        BY <4>1 DEF AccountInv
    <3> QED
      BY <3>1, <3>2, <3>3
  <2> QED
    BY <1>1, <2>1 DEF AccountInv
<1>2. CASE CallCreateTunnel
  <2>1. pc \in Calls /\ loc.acct \in Accounts
    BY <1>2 DEF CallCreateTunnel, AccountInv, Calls
  <2>2. \A r \in remote' : r.acct \in Accounts
    <3>1. \/ remote' = remote
          \/ remote' = CreateTunnel(remote, loc.acct, t.uid, issued + 1)
      BY <1>2 DEF CallCreateTunnel, platform
    <3> QED
      BY <2>1, <3>1 DEF CreateTunnel, AccountInv
  <2>3. \A e \in inflight' : e.acct \in Accounts
    <3>1. \/ inflight' = inflight
          \/ inflight' = inflight \cup {[acct |-> loc.acct, ext |-> t.uid]}
      BY <1>2 DEF CallCreateTunnel, platform
    <3> QED
      BY <2>1, <3>1 DEF AccountInv
  <2>4. loc'.acct = loc.acct
    BY <1>2 DEF CallCreateTunnel, Refused, AnswerLost, Fail, TypeOK, Locals
  <2> QED
    BY <2>1, <2>2, <2>3, <2>4 DEF AccountInv
<1>3. CASE CallRotateToken
  <2>1. \A r \in remote' : \E s \in remote : r.acct = s.acct
    <3>1. CASE remote' = remote
      BY <3>1
    <3>2. CASE remote' = RotateToken(remote, loc.acct, loc.id, issued + 1)
      BY <3>2 DEF RotateToken, TypeOK, TunnelRow
    <3> QED
      BY <1>3, <3>1, <3>2 DEF CallRotateToken
  <2>2. /\ inflight' = inflight /\ loc'.acct = loc.acct /\ pc \in Calls
    BY <1>3 DEF CallRotateToken, Refused, AnswerLost, Fail, TypeOK, Locals, Calls
  <2> QED
    BY <2>1, <2>2 DEF AccountInv
<1>4. CASE CallDeleteTunnel
  <2>1. remote' \subseteq remote /\ inflight' = inflight /\ pc' \notin Calls
    BY <1>4 DEF CallDeleteTunnel, DeleteTunnel, Return, Calls
  <2> QED
    BY <2>1 DEF AccountInv
<1>5. CASE PanelDelete
  BY <1>5 DEF PanelDelete, worker, AccountInv
<1>6. CASE LateCreate
  BY <1>6 DEF LateCreate, CreateTunnel, worker, AccountInv
<1>7. CASE Handshake
  <2>1. \A r \in remote' : \E s \in remote : r.acct = s.acct
    BY <1>7 DEF Handshake, TypeOK, TunnelRow
  <2> QED
    BY <1>7, <2>1 DEF Handshake, worker, AccountInv
<1> QED
  <2>1. \/ CallCreateTunnel \/ CallRotateToken \/ CallDeleteTunnel
        \/ PanelDelete \/ LateCreate \/ Handshake
        \/ UNCHANGED <<remote, inflight>>
    BY DEF Next, Worker, Reconcile, AddFinalizer, ClientFor, ReadTunnel, RecordExternalID,
           ReadCreated, CheckSecret, WriteSecret, EnsureDeployment, Finish, DeleteClientFor,
           CallFindTunnel, RemoveFinalizer, UserCreate, UserDelete, ReleaseOther, UserEdit,
           UserSpoilsSecret, UserChangesCredential, Deliver, DeliverSecret, CollectSecret,
           CollectDeployment, PodStop, PodFail, PodStart, Restart, platform, vars
  <2> QED
    BY <1>1, <1>2, <1>3, <1>4, <1>5, <1>6, <1>7, <2>1

LEMMA AlwaysSeesAll ==
    ASSUME OneAccount
    PROVE  Spec => []SeesAll
<1>1. TypeOK /\ TypeOK' /\ AccountInv /\ [Next]_vars => AccountInv'
  BY AccountNext
<1>2. AccountInv => SeesAll
  BY DEF OneAccount, AccountInv, SeesAll
<1> QED
  BY <1>1, <1>2, AccountInit, TypeCorrect, PTL DEF Spec

-----------------------------------------------------------------------------
(* The inductive invariant behind NoOrphan *)

CreatePath == Labels \ (DeletePath \cup {"idle"})

\* The operator is through with creating for the object u: whoever looks at it
\* sees it being deleted, and the reconcile in progress is not a creating one.
Closed(u) ==
    /\ u <= uids
    /\ cache.uid = u => cache.deleting
    /\ obj.uid = u => obj.deleting
    /\ pc \in CreatePath => t.uid # u

\* An identifier in a status is the identifier of that object's tunnel, and the
\* tunnel is there until the deletion takes it.
Recorded(o) ==
    o.tid # None =>
        /\ o.tid <= issued
        /\ \A r \in remote : r.ext = o.uid <=> r.id = o.tid
        /\ (\E r \in remote : r.ext = o.uid) \/ Closed(o.uid)

\* An object seen with the finalizer and without a deletion still exists.
CacheHeld ==
    cache.fin /\ ~cache.deleting => cache.uid = obj.uid /\ obj.fin

\* Past the finalizer, a creating reconcile works for the object that exists.
WorkHeld ==
    pc \in CreatePath \ {"addFinalizer"} => t.uid = obj.uid /\ obj.fin

\* Identifiers and external ids name the same tunnels, and identifiers are
\* given out once.
Distinct ==
    /\ \A r \in remote : r.id <= issued
    /\ \A r, s \in remote : r.id = s.id <=> r.ext = s.ext

\* Between the create and the status the tunnel is only known to a local.
LocalKnown ==
    pc \in {"getCreated", "checkSecret", "rotateToken", "writeSecret", "ensureDeployment"} =>
        \E r \in remote : r.id = loc.id /\ r.ext = t.uid

\* What a deleting reconcile knows: it is deleting all there is of the object.
Deleting ==
    /\ pc \in DeletePath => Closed(t.uid)
    /\ pc = "deleteTunnel" => \A r \in remote : r.ext = t.uid <=> r.id = loc.id
    /\ pc = "removeFinalizer" => t.ext = None \/ \A r \in remote : r.ext # t.uid

OrphanInv ==
    /\ GuardInv
    /\ inflight = {}
    /\ Recorded(obj) /\ Recorded(cache) /\ (pc # "idle" => Recorded(t))
    /\ CacheHeld
    /\ WorkHeld
    /\ Distinct
    /\ LocalKnown
    /\ Deleting
    /\ NoOrphan

-----------------------------------------------------------------------------
(* What most steps keep *)

\* The same tunnels, but for tokens and connection state.
SameTunnels ==
    /\ \A r \in remote' : \E s \in remote : s.id = r.id /\ s.ext = r.ext
    /\ \A s \in remote : \E r \in remote' : s.id = r.id /\ s.ext = r.ext
    /\ issued <= issued'

CacheStep == cache' = cache \/ (cache' = obj /\ UNCHANGED <<obj, rev, uids>>)

\* An object with the operator's finalizer stays, with it.
KeepsFin == obj.uid # None /\ obj.fin => obj'.uid = obj.uid /\ obj'.fin

\* A creating reconcile works for the same object as before, or starts from a
\* cache that shows no deletion.
WorkerKept ==
    pc' \in CreatePath =>
        \/ pc \in CreatePath /\ t'.uid = t.uid
        \/ t'.uid = cache.uid /\ ~cache.deleting

LEMMA OrphanInit == Init => OrphanInv
<1> SUFFICES ASSUME Init PROVE OrphanInv OBVIOUS
<1>1. GuardInv
  BY GuardInit
<1> QED
  BY <1>1 DEF Init, OrphanInv, Recorded, CacheHeld, WorkHeld, Distinct, LocalKnown, Deleting,
              NoOrphan, NoTunnel, CreatePath, DeletePath

LEMMA ClosedStable ==
    ASSUME OrphanInv, TypeOK', ObjStep, CacheStep, WorkerKept,
           NEW u \in Nat, u # None, Closed(u)
    PROVE  Closed(u)'
<1>1. pc' \in CreatePath => t'.uid # u
  BY DEF WorkerKept, Closed
<1>2. cache'.uid = u => cache'.deleting
  BY DEF CacheStep, Closed
<1>3. u <= uids' /\ (obj'.uid = u => obj'.deleting)
  <2>1. CASE UNCHANGED <<obj, rev, uids>>
    BY <2>1 DEF Closed
  <2>2. CASE Kept
    BY <2>2 DEF Kept, Closed
  <2>3. CASE Gone
    BY <2>3 DEF Gone, NoTunnel, Closed
  <2>4. CASE Born
    BY <2>4 DEF Born, Closed, OrphanInv, GuardInv, TypeOK
  <2> QED
    BY <2>1, <2>2, <2>3, <2>4 DEF ObjStep
<1> QED
  BY <1>1, <1>2, <1>3 DEF Closed

\* What is recorded stays right.
LEMMA RecordedStable ==
    ASSUME OrphanInv, TypeOK', ObjStep, CacheStep, WorkerKept, SameTunnels,
           NEW o \in Tunnel, o.uid # None, Recorded(o)
    PROVE  Recorded(o)'
<1> SUFFICES ASSUME o.tid # None PROVE Recorded(o)'
  BY DEF Recorded
<1>1. o.tid <= issued'
  BY DEF Recorded, SameTunnels, Tunnel, OrphanInv, GuardInv, TypeOK
<1>2. \A r \in remote' : r.ext = o.uid <=> r.id = o.tid
  BY DEF Recorded, SameTunnels
<1>3. (\E r \in remote' : r.ext = o.uid) \/ Closed(o.uid)'
  <2>1. CASE \E r \in remote : r.ext = o.uid
    BY <2>1 DEF SameTunnels
  <2>2. CASE Closed(o.uid)
    <3>1. o.uid \in Nat
      BY DEF Tunnel
    <3> QED
      BY <2>2, <3>1, ClosedStable
  <2> QED
    BY <2>1, <2>2 DEF Recorded
<1> QED
  BY <1>1, <1>2, <1>3 DEF Recorded

LEMMA RecordedAll ==
    ASSUME OrphanInv, TypeOK', ObjStep, CacheStep, WorkerKept, SameTunnels
    PROVE  \A o \in Tunnel : o.uid # None /\ Recorded(o) => Recorded(o)'
BY RecordedStable

\* The identifier is all of an object that Recorded looks at.
LEMMA RecordedId ==
    ASSUME OrphanInv, TypeOK', ObjStep, CacheStep, WorkerKept, SameTunnels
    PROVE  /\ Recorded(cache)'
           /\ obj'.uid = obj.uid /\ obj'.tid = obj.tid => Recorded(obj)'
           /\ obj'.tid = None => Recorded(obj)'
           /\ pc # "idle" /\ t'.uid = t.uid /\ t'.tid = t.tid => Recorded(t)'
           /\ pc # "idle" /\ obj'.uid = t.uid /\ obj'.tid = t.tid => Recorded(obj)'
           /\ t' = cache => Recorded(t)'
<1>1. \A o \in Tunnel : o.uid # None /\ Recorded(o) => Recorded(o)'
  BY RecordedAll
<1>2. obj \in Tunnel /\ cache \in Tunnel /\ t \in Tunnel
  BY DEF OrphanInv, GuardInv, TypeOK
<1>3. /\ obj.uid = None => obj.tid = None
      /\ cache.uid = None => cache.tid = None
      /\ pc # "idle" => t.uid # None
  BY DEF OrphanInv, GuardInv, Versions, Working, NoTunnel
<1>4. Recorded(obj) /\ Recorded(cache) /\ (pc # "idle" => Recorded(t))
  BY DEF OrphanInv
<1>5. Recorded(cache)'
  <2>1. CASE cache' = cache
    BY <1>1, <1>2, <1>3, <1>4, <2>1 DEF Recorded, Closed
  <2>2. CASE cache' = obj
    BY <1>1, <1>2, <1>3, <1>4, <2>2 DEF Recorded, Closed
  <2> QED
    BY <2>1, <2>2 DEF CacheStep
<1>6. obj'.uid = obj.uid /\ obj'.tid = obj.tid => Recorded(obj)'
  BY <1>1, <1>2, <1>3, <1>4 DEF Recorded, Closed
<1>7. obj'.tid = None => Recorded(obj)'
  BY DEF Recorded
<1>8. pc # "idle" /\ t'.uid = t.uid /\ t'.tid = t.tid => Recorded(t)'
  BY <1>1, <1>2, <1>3, <1>4 DEF Recorded, Closed
<1>9. pc # "idle" /\ obj'.uid = t.uid /\ obj'.tid = t.tid => Recorded(obj)'
  BY <1>1, <1>2, <1>3, <1>4 DEF Recorded, Closed
<1>10. t' = cache => Recorded(t)'
  BY <1>1, <1>2, <1>3, <1>4 DEF Recorded, Closed
<1> QED
  BY <1>5, <1>6, <1>7, <1>8, <1>9, <1>10

\* The parts a step that keeps the tunnels and the finalizer has to
\* re-establish.
LEMMA OrphanParts ==
    ASSUME OrphanInv, GuardInv', ObjStep, CacheStep, WorkerKept, SameTunnels, KeepsFin,
           inflight' = inflight,
           Recorded(obj)', pc' # "idle" => Recorded(t)', WorkHeld', LocalKnown', Deleting'
    PROVE  OrphanInv'
<1>1. TypeOK'
  BY DEF GuardInv
<1>2. Recorded(cache)'
  BY <1>1, RecordedId
<1>3. CacheHeld'
  <2>1. CASE cache' = cache
    BY <2>1 DEF OrphanInv, GuardInv, Versions, NoTunnel, CacheHeld, KeepsFin
  <2>2. CASE cache' = obj /\ UNCHANGED <<obj, rev, uids>>
    BY <2>2 DEF CacheHeld
  <2> QED
    BY <2>1, <2>2 DEF CacheStep
<1>4. Distinct'
  <2>1. \A r \in remote' : r.id <= issued'
    BY <1>1 DEF OrphanInv, Distinct, SameTunnels, GuardInv, TypeOK, TunnelRow
  <2>2. \A r, s \in remote' : r.id = s.id <=> r.ext = s.ext
    BY DEF OrphanInv, Distinct, SameTunnels
  <2> QED
    BY <2>1, <2>2 DEF Distinct
<1>5. NoOrphan'
  <2> SUFFICES ASSUME NEW r \in remote'
               PROVE  r.ext = obj'.uid /\ obj'.fin /\ obj'.ext # None
    BY DEF NoOrphan
  <2>1. PICK s \in remote : s.id = r.id /\ s.ext = r.ext
    BY DEF SameTunnels
  <2>2. s.ext = obj.uid /\ obj.fin /\ obj.ext # None /\ s.ext # None /\ obj.uid <= uids
    BY DEF OrphanInv, NoOrphan, GuardInv, Guarded, Versions
  <2>3. obj'.uid = obj.uid /\ obj'.fin
    BY <2>2 DEF KeepsFin
  <2>4. obj'.ext # None
    BY <2>2, <2>3 DEF ObjStep, Kept, Gone, Born, NoTunnel, OrphanInv, GuardInv, TypeOK
  <2> QED
    BY <2>1, <2>2, <2>3, <2>4
<1> QED
  BY <1>2, <1>3, <1>4, <1>5 DEF OrphanInv

-----------------------------------------------------------------------------
(* The steps outside the reconcile *)

LEMMA OrphanUsers ==
    ASSUME ~PanelDeletes, OrphanInv, GuardInv',
           \/ UserCreate \/ UserDelete \/ ReleaseOther \/ UserEdit \/ UserSpoilsSecret
           \/ UserChangesCredential \/ PanelDelete \/ LateCreate
    PROVE  OrphanInv'
<1>1. ~PanelDelete /\ ~LateCreate
  BY DEF PanelDelete, LateCreate, OrphanInv
<1>2. UNCHANGED <<pc, t, loc, cache, remote, issued, inflight>>
  BY <1>1 DEF UserCreate, UserDelete, ReleaseOther, UserEdit, UserSpoilsSecret,
              UserChangesCredential, worker, informer, platform
<1>3. /\ ObjStep /\ KeepsFin
      /\ obj'.tid = None \/ (obj'.uid = obj.uid /\ obj'.tid = obj.tid)
  <2>1. CASE UserCreate
    BY <2>1 DEF UserCreate, Exists, NoTunnel, ObjStep, Born, KeepsFin
  <2>2. CASE UserDelete
    <3>1. PICK other \in BOOLEAN :
             obj' = IF obj.fin \/ other
                    THEN [obj EXCEPT !.deleting = TRUE, !.other = other, !.rv = rev + 1]
                    ELSE NoTunnel
      BY <2>2 DEF UserDelete
    <3>2. CASE obj.fin \/ other
      BY <2>2, <3>1, <3>2 DEF UserDelete, Exists, ObjStep, Kept, KeepsFin,
                              OrphanInv, GuardInv, TypeOK, Tunnel
    <3>3. CASE ~(obj.fin \/ other)
      BY <2>2, <3>1, <3>3 DEF UserDelete, ObjStep, Gone, KeepsFin, NoTunnel
    <3> QED
      BY <3>2, <3>3
  <2>3. CASE ReleaseOther
    <3>1. CASE obj.fin
      BY <2>3, <3>1 DEF ReleaseOther, ObjStep, Kept, KeepsFin, NoTunnel,
                        OrphanInv, GuardInv, Versions, TypeOK, Tunnel
    <3>2. CASE ~obj.fin
      BY <2>3, <3>2 DEF ReleaseOther, ObjStep, Gone, KeepsFin, NoTunnel
    <3> QED
      BY <3>1, <3>2
  <2>4. CASE UserEdit
    BY <2>4 DEF UserEdit, Exists, ObjStep, Kept, KeepsFin, OrphanInv, GuardInv, TypeOK, Tunnel
  <2>5. CASE UserSpoilsSecret \/ UserChangesCredential
    BY <2>5 DEF UserSpoilsSecret, UserChangesCredential, ObjStep, KeepsFin, api
  <2> QED
    BY <1>1, <2>1, <2>2, <2>3, <2>4, <2>5
<1>4. CacheStep /\ SameTunnels
  BY <1>2 DEF CacheStep, SameTunnels, OrphanInv, GuardInv, TypeOK
<1>5. WorkerKept
  BY <1>2 DEF WorkerKept
<1>6. TypeOK' /\ TypeOK
  BY DEF GuardInv, OrphanInv
<1>7. Recorded(obj)' /\ (pc' # "idle" => Recorded(t)')
  BY <1>2, <1>3, <1>4, <1>5, <1>6, RecordedId
<1>8. WorkHeld' /\ LocalKnown'
  <2>1. pc \in CreatePath => t.uid # None
    BY DEF OrphanInv, GuardInv, Working, CreatePath
  <2> QED
    BY <1>2, <1>3, <2>1 DEF OrphanInv, WorkHeld, LocalKnown, KeepsFin
<1>9. Deleting'
  <2>1. pc \in DeletePath => t.uid \in Nat /\ t.uid # None /\ Closed(t.uid)
    BY <1>6 DEF OrphanInv, Deleting, GuardInv, Working, DeletePath, TypeOK, Tunnel
  <2>2. \A u \in Nat : u # None /\ Closed(u) => Closed(u)'
    BY <1>3, <1>4, <1>5, <1>6, ClosedStable
  <2>3. pc' \in DeletePath => Closed(t.uid)'
    BY <1>2, <2>1, <2>2 DEF Closed
  <2> QED
    BY <1>2, <2>3 DEF OrphanInv, Deleting
<1> QED
  BY <1>2, <1>3, <1>4, <1>5, <1>7, <1>8, <1>9, OrphanParts

LEMMA OrphanCluster ==
    ASSUME OrphanInv, GuardInv',
           \/ Deliver \/ DeliverSecret \/ CollectSecret \/ CollectDeployment
           \/ PodStop \/ PodFail \/ PodStart \/ Handshake \/ Restart
    PROVE  OrphanInv'
<1>1. /\ UNCHANGED <<obj, rev, uids, inflight, issued>>
      /\ cache' = cache \/ cache' = obj
  BY DEF Deliver, DeliverSecret, CollectSecret, CollectDeployment, PodStop, PodFail, PodStart,
         Handshake, Restart, api, informer, platform
<1>2. pc' = "idle" \/ UNCHANGED <<pc, t, loc>>
  BY DEF Deliver, DeliverSecret, CollectSecret, CollectDeployment, PodStop, PodFail, PodStart,
         Handshake, Restart, worker
<1>3. TypeOK' /\ TypeOK
  BY DEF GuardInv, OrphanInv
<1>4. SameTunnels
  <2>1. CASE Handshake
    <3>1. /\ \A r \in remote' : \E s \in remote : s.id = r.id /\ s.ext = r.ext
          /\ \A s \in remote : \E r \in remote' : s.id = r.id /\ s.ext = r.ext
      <4> DEFINE seen(r) == [r EXCEPT !.online = (pod.up /\ pod.token = r.token)]
      <4>1. remote' = {seen(r) : r \in remote}
        BY <2>1 DEF Handshake
      <4>2. \A r \in remote : seen(r).id = r.id /\ seen(r).ext = r.ext
        BY <1>3 DEF TypeOK, TunnelRow
      <4> HIDE DEF seen
      <4> QED
        BY <4>1, <4>2
    <3> QED
      BY <1>1, <1>3, <3>1 DEF SameTunnels, TypeOK
  <2>2. CASE UNCHANGED remote
    BY <1>1, <1>3, <2>2 DEF SameTunnels, TypeOK
  <2> QED
    BY <2>1, <2>2 DEF Deliver, DeliverSecret, CollectSecret, CollectDeployment, PodStop, PodFail,
                      PodStart, Restart, platform
<1>5. ObjStep /\ CacheStep /\ KeepsFin
  BY <1>1 DEF ObjStep, CacheStep, KeepsFin
<1>6. WorkerKept
  BY <1>2 DEF WorkerKept, CreatePath
<1>7. Recorded(obj)'
  BY <1>1, <1>3, <1>4, <1>5, <1>6, RecordedId
<1>8. CASE pc' = "idle"
  <2>1. WorkHeld' /\ LocalKnown' /\ Deleting'
    BY <1>8 DEF WorkHeld, LocalKnown, Deleting, CreatePath, DeletePath
  <2> QED
    BY <1>1, <1>4, <1>5, <1>6, <1>7, <1>8, <2>1, OrphanParts
<1>9. CASE UNCHANGED <<pc, t, loc>>
  <2>1. pc' # "idle" => Recorded(t)'
    BY <1>3, <1>4, <1>5, <1>6, <1>9, RecordedId
  <2>2. WorkHeld' /\ LocalKnown'
    BY <1>1, <1>4, <1>9 DEF OrphanInv, WorkHeld, LocalKnown, SameTunnels
  <2>3. Deleting'
    <3>1. pc \in DeletePath => Closed(t.uid)
      BY DEF OrphanInv, Deleting
    <3>2. pc' \in DeletePath => Closed(t.uid)'
      BY <1>1, <1>9, <3>1 DEF Closed
    <3> QED
      BY <1>4, <1>9, <3>2 DEF OrphanInv, Deleting, SameTunnels
  <2> QED
    BY <1>1, <1>4, <1>5, <1>6, <1>7, <2>1, <2>2, <2>3, OrphanParts
<1> QED
  BY <1>2, <1>8, <1>9

-----------------------------------------------------------------------------
(* The steps of the reconcile *)

\* A reconcile that returns.
LEMMA OrphanReturn ==
    ASSUME pc' = "idle"
    PROVE  WorkHeld' /\ LocalKnown' /\ Deleting' /\ WorkerKept
BY DEF WorkHeld, LocalKnown, Deleting, WorkerKept, CreatePath, DeletePath

LEMMA OrphanReconcile ==
    ASSUME OrphanInv, GuardInv', Reconcile
    PROVE  OrphanInv'
<1>1. UNCHANGED <<obj, rev, uids, cache, remote, issued, inflight>>
  BY DEF Reconcile, api, platform, outside
<1>2. TypeOK' /\ TypeOK /\ cache \in Tunnel
  BY DEF GuardInv, OrphanInv, TypeOK
<1>3. ObjStep /\ CacheStep /\ KeepsFin /\ SameTunnels
  BY <1>1, <1>2 DEF ObjStep, CacheStep, KeepsFin, SameTunnels, TypeOK
<1>4. CASE pc' = "idle"
  <2>1. Recorded(obj)'
    BY <1>1, <1>2, <1>3, <1>4, OrphanReturn, RecordedId
  <2> QED
    BY <1>1, <1>3, <1>4, <2>1, OrphanReturn, OrphanParts
<1>5. CASE pc' # "idle"
  <2>1. /\ t' = cache /\ pc' = Dispatch(cache)
        /\ pc' \in {"removeFinalizer", "deleteClientFor", "addFinalizer", "clientFor"}
        /\ pc' \in {"removeFinalizer", "deleteClientFor"} => cache.deleting
        /\ pc' \in {"addFinalizer", "clientFor"} => ~cache.deleting
        /\ pc' = "removeFinalizer" => cache.ext = None
        /\ pc' = "clientFor" => cache.fin
    BY <1>2, <1>5, DispatchCases DEF Reconcile
  <2>2. WorkerKept
    BY <2>1 DEF WorkerKept, CreatePath, DeletePath
  <2>3. Recorded(obj)' /\ Recorded(t)'
    BY <1>1, <1>2, <1>3, <2>1, <2>2, RecordedId
  <2>4. WorkHeld'
    BY <1>1, <2>1 DEF WorkHeld, OrphanInv, CacheHeld, CreatePath, DeletePath
  <2>5. LocalKnown'
    BY <2>1 DEF LocalKnown
  <2>6. Deleting'
    <3>1. pc' \in DeletePath => Closed(t.uid)'
      <4> SUFFICES ASSUME pc' \in DeletePath PROVE Closed(t.uid)'
        OBVIOUS
      <4>1. t'.uid <= uids' /\ pc' \notin CreatePath /\ cache'.deleting
        BY <1>1, <2>1 DEF DeletePath, CreatePath, OrphanInv, GuardInv, Versions
      <4>2. obj'.uid = t'.uid => obj'.deleting
        BY <1>1, <2>1, <4>1 DEF OrphanInv, GuardInv, CacheBehind
      <4> QED
        BY <4>1, <4>2 DEF Closed
    <3> QED
      BY <2>1, <3>1 DEF Deleting
  <2> QED
    BY <1>1, <1>3, <2>2, <2>3, <2>4, <2>5, <2>6, OrphanParts
<1> QED
  BY <1>4, <1>5

LEMMA OrphanAddFinalizer ==
    ASSUME OrphanInv, GuardInv', AddFinalizer
    PROVE  OrphanInv'
<1>1. UNCHANGED <<uids, cache, remote, issued, inflight>> /\ pc = "addFinalizer"
  BY DEF AddFinalizer, platform, outside
<1>2. TypeOK' /\ TypeOK
  BY DEF GuardInv, OrphanInv
<1>3. CacheStep /\ SameTunnels
  BY <1>1, <1>2 DEF CacheStep, SameTunnels, TypeOK
<1>4. ObjStep /\ KeepsFin /\ obj'.uid = obj.uid /\ obj'.tid = obj.tid
  <2>1. CASE UNCHANGED <<obj, rev>>
    BY <1>1, <2>1 DEF ObjStep, KeepsFin
  <2>2. CASE t.rv = obj.rv /\ rev' = rev + 1 /\ obj' = [obj EXCEPT !.fin = TRUE, !.rv = rev + 1]
    <3>1. obj.uid # None
      BY <1>1, <2>2 DEF OrphanInv, GuardInv, Working
    <3> QED
      BY <1>1, <1>2, <2>2, <3>1 DEF ObjStep, Kept, KeepsFin, TypeOK, Tunnel
  <2> QED
    BY <2>1, <2>2 DEF AddFinalizer
<1>5. CASE pc' = "idle"
  <2>1. Recorded(obj)'
    BY <1>2, <1>3, <1>4, <1>5, OrphanReturn, RecordedId
  <2> QED
    BY <1>1, <1>3, <1>4, <1>5, <2>1, OrphanReturn, OrphanParts
<1>6. CASE pc' # "idle"
  <2>1. t' = obj' /\ pc' = "clientFor" /\ t.rv = obj.rv /\ obj'.fin
    BY <1>2, <1>6 DEF AddFinalizer, Return, TypeOK, Tunnel
  <2>2. t.uid = obj.uid
    BY <1>1, <2>1 DEF OrphanInv, GuardInv, Working
  <2>3. WorkerKept
    BY <1>1, <1>4, <2>1, <2>2 DEF WorkerKept, CreatePath, Labels, DeletePath
  <2>4. Recorded(obj)'
    BY <1>2, <1>3, <1>4, <2>3, RecordedId
  <2>5. Recorded(t)'
    BY <2>1, <2>4 DEF Recorded, Closed
  <2>6. WorkHeld' /\ LocalKnown' /\ Deleting'
    BY <2>1 DEF WorkHeld, LocalKnown, Deleting, DeletePath
  <2> QED
    BY <1>1, <1>3, <1>4, <2>3, <2>4, <2>5, <2>6, OrphanParts
<1> QED
  BY <1>5, <1>6

LEMMA OrphanRecordExternalID ==
    ASSUME OrphanInv, GuardInv', RecordExternalID
    PROVE  OrphanInv'
<1> DEFINE new == [t EXCEPT !.ext = t.uid]
<1>1. UNCHANGED <<uids, cache, remote, issued, inflight>> /\ pc = "recordExternalID"
  BY DEF RecordExternalID, platform, outside
<1>2. TypeOK' /\ TypeOK /\ GuardInv
  BY DEF GuardInv, OrphanInv
<1>3. CacheStep /\ SameTunnels
  BY <1>1, <1>2 DEF CacheStep, SameTunnels, TypeOK
<1>4. new \in Tunnel /\ new.ext = t.uid /\ new.tid = t.tid /\ new.uid = t.uid /\ t.uid # None
  BY <1>1, <1>2 DEF TypeOK, Tunnel, GuardInv, Working
<1>5. t.uid = obj.uid /\ obj.fin
  BY <1>1 DEF OrphanInv, WorkHeld, CreatePath, Labels, DeletePath
<1>6. /\ ObjStep /\ KeepsFin /\ obj'.uid = obj.uid
      /\ obj'.tid = obj.tid \/ obj'.tid = t.tid
  <2>1. CASE UNCHANGED <<obj, rev>>
    BY <1>1, <2>1 DEF ObjStep, KeepsFin
  <2>2. CASE UpdateStatus(new)
    BY <1>1, <1>2, <1>4, <1>5, <2>2, StatusObjStep DEF KeepsFin
  <2> QED
    BY <2>1, <2>2 DEF RecordExternalID
<1>7. /\ pc' \in {"createTunnel", "finish"}
      /\ \/ t'.uid = t.uid /\ t'.tid = t.tid
         \/ t' = obj'
  BY <1>2, <1>4 DEF RecordExternalID, Fail, TypeOK, Tunnel
<1>8. t'.uid = t.uid
  BY <1>5, <1>6, <1>7
<1>9. WorkerKept
  BY <1>1, <1>7, <1>8 DEF WorkerKept, CreatePath, Labels, DeletePath
<1>10. Recorded(obj)'
  BY <1>1, <1>2, <1>3, <1>5, <1>6, <1>9, RecordedId
<1>11. Recorded(t)'
  <2>1. CASE t'.uid = t.uid /\ t'.tid = t.tid
    BY <1>1, <1>2, <1>3, <1>6, <1>9, <2>1, RecordedId
  <2>2. CASE t' = obj'
    BY <1>10, <2>2 DEF Recorded, Closed
  <2> QED
    BY <1>7, <2>1, <2>2
<1>12. WorkHeld' /\ LocalKnown' /\ Deleting'
  BY <1>5, <1>6, <1>7, <1>8 DEF WorkHeld, LocalKnown, Deleting, DeletePath, KeepsFin,
     OrphanInv, GuardInv, Working
<1> QED
  BY <1>1, <1>3, <1>6, <1>9, <1>10, <1>11, <1>12, OrphanParts

LEMMA OrphanFinish ==
    ASSUME OrphanInv, GuardInv', Finish
    PROVE  OrphanInv'
<1> DEFINE new == [t EXCEPT !.obs = t.gen]
<1>1. UNCHANGED <<uids, cache, remote, issued, inflight>> /\ pc = "finish" /\ pc' = "idle"
  BY DEF Finish, Return, platform, outside
<1>2. TypeOK' /\ TypeOK /\ GuardInv
  BY DEF GuardInv, OrphanInv
<1>3. CacheStep /\ SameTunnels
  BY <1>1, <1>2 DEF CacheStep, SameTunnels, TypeOK
<1>4. new \in Tunnel /\ new.ext = t.ext /\ new.tid = t.tid
  BY <1>2 DEF TypeOK, Tunnel
<1>5. t.uid = obj.uid
  BY <1>1 DEF OrphanInv, WorkHeld, CreatePath, Labels, DeletePath
<1>6. /\ ObjStep /\ KeepsFin /\ obj'.uid = obj.uid
      /\ obj'.tid = obj.tid \/ obj'.tid = t.tid
  <2>1. CASE UNCHANGED <<obj, rev>>
    BY <1>1, <2>1 DEF ObjStep, KeepsFin
  <2>2. CASE UpdateStatus(new)
    <3>1. obj.ext # None => new.ext # None
      BY <1>1, <1>4, <2>2 DEF UpdateStatus, OrphanInv, GuardInv, Working
    <3> QED
      BY <1>1, <1>2, <1>4, <2>2, <3>1, StatusObjStep DEF KeepsFin
  <2> QED
    BY <2>1, <2>2 DEF Finish
<1>7. Recorded(obj)'
  BY <1>1, <1>2, <1>3, <1>5, <1>6, OrphanReturn, RecordedId
<1> QED
  BY <1>1, <1>3, <1>6, <1>7, OrphanReturn, OrphanParts

\* The finalizer goes when nothing is left on the platform.
LEMMA OrphanRemoveFinalizer ==
    ASSUME OrphanInv, GuardInv', RemoveFinalizer
    PROVE  OrphanInv'
<1>1. /\ UNCHANGED <<uids, cache, remote, issued, inflight>>
      /\ pc = "removeFinalizer" /\ pc' = "idle"
  BY DEF RemoveFinalizer, Return, platform, outside
<1>2. TypeOK' /\ TypeOK /\ GuardInv
  BY DEF GuardInv, OrphanInv
<1>3. CacheStep /\ SameTunnels
  BY <1>1, <1>2 DEF CacheStep, SameTunnels, TypeOK
<1>4. CASE UNCHANGED <<obj, rev>>
  <2>1. ObjStep /\ KeepsFin
    BY <1>1, <1>4 DEF ObjStep, KeepsFin
  <2>2. Recorded(obj)'
    BY <1>1, <1>2, <1>3, <1>4, <2>1, OrphanReturn, RecordedId
  <2> QED
    BY <1>1, <1>3, <2>1, <2>2, OrphanReturn, OrphanParts
<1>5. CASE t.rv = obj.rv /\ obj' = WithoutFinalizer(obj, rev + 1) /\ rev' = rev + 1
  <2>1. t.uid = obj.uid /\ obj.uid # None /\ obj.deleting /\ (obj.ext # None => t.ext # None)
    BY <1>1, <1>2, <1>5 DEF GuardInv, Working, DeletePath
  <2>2. remote = {}
    BY <1>1, <2>1 DEF OrphanInv, NoOrphan, Deleting
  <2>3. ObjStep /\ (obj'.tid = None \/ (obj'.uid = obj.uid /\ obj'.tid = obj.tid))
    <3>1. CASE obj.other
      BY <1>1, <1>2, <1>5, <2>1, <3>1 DEF ObjStep, Kept, WithoutFinalizer, TypeOK, Tunnel
    <3>2. CASE ~obj.other
      BY <1>1, <1>5, <3>2 DEF ObjStep, Gone, WithoutFinalizer, NoTunnel
    <3> QED
      BY <3>1, <3>2
  <2>4. Recorded(obj)' /\ Recorded(cache)'
    BY <1>1, <1>2, <1>3, <2>3, OrphanReturn, RecordedId
  <2>5. CacheHeld'
    BY <1>1, <2>1 DEF OrphanInv, CacheHeld, Deleting, DeletePath, Closed
  <2>6. Distinct' /\ NoOrphan' /\ inflight' = {}
    BY <1>1, <2>2 DEF OrphanInv, Distinct, NoOrphan
  <2> QED
    BY <1>1, <2>4, <2>5, <2>6, OrphanReturn DEF OrphanInv
<1> QED
  BY <1>4, <1>5 DEF RemoveFinalizer

\* The steps that leave the object, the cache and the tunnels as they are.
LEMMA OrphanQuiet ==
    ASSUME OrphanInv, GuardInv', UNCHANGED <<obj, rev, uids, cache, inflight>>, SameTunnels,
           pc \notin {"idle", "addFinalizer"},
           pc' # "idle" => t'.uid = t.uid,
           pc' \in CreatePath => pc \in CreatePath,
           pc' # "addFinalizer",
           pc' # "idle" => Recorded(t)', LocalKnown', Deleting'
    PROVE  OrphanInv'
<1>1. ObjStep /\ CacheStep /\ KeepsFin
  BY DEF ObjStep, CacheStep, KeepsFin
<1>2. WorkerKept
  BY DEF WorkerKept, CreatePath
<1>3. TypeOK'
  BY DEF GuardInv
<1>4. Recorded(obj)'
  BY <1>1, <1>2, <1>3, RecordedId
<1>5. WorkHeld'
  <2> SUFFICES ASSUME pc' \in CreatePath \ {"addFinalizer"} PROVE t'.uid = obj'.uid /\ obj'.fin
    BY DEF WorkHeld
  <2>1. pc \in CreatePath \ {"addFinalizer"} /\ pc' # "idle"
    BY DEF CreatePath
  <2> QED
    BY <2>1 DEF OrphanInv, WorkHeld
<1> QED
  BY <1>1, <1>2, <1>4, <1>5, OrphanParts

LEMMA OrphanQuietCopy ==
    ASSUME OrphanInv, GuardInv', UNCHANGED <<obj, rev, uids, cache, inflight>>, SameTunnels,
           pc \notin {"idle", "addFinalizer"},
           pc' # "idle" => t'.uid = t.uid /\ t'.tid = t.tid,
           pc' \in CreatePath => pc \in CreatePath,
           pc' # "addFinalizer",
           LocalKnown', Deleting'
    PROVE  OrphanInv'
<1>1. ObjStep /\ CacheStep
  BY DEF ObjStep, CacheStep
<1>2. WorkerKept
  BY DEF WorkerKept, CreatePath
<1>3. TypeOK'
  BY DEF GuardInv
<1>4. pc' # "idle" => Recorded(t)'
  BY <1>1, <1>2, <1>3, RecordedId
<1> QED
  BY <1>4, OrphanQuiet

\* A call that failed, or the end of one that did not: the status is next.
LEMMA OrphanToFinish ==
    ASSUME OrphanInv, GuardInv', UNCHANGED <<obj, rev, uids, cache, inflight>>, SameTunnels,
           pc \in CreatePath \ {"addFinalizer"},
           pc' = "idle" \/ (pc' = "finish" /\ t'.uid = t.uid /\ t'.tid = t.tid)
    PROVE  OrphanInv'
<1>1. LocalKnown' /\ Deleting' /\ pc' # "addFinalizer" /\ pc \notin {"idle", "addFinalizer"}
  BY DEF LocalKnown, Deleting, DeletePath, CreatePath
<1> QED
  BY <1>1, OrphanQuietCopy

LEMMA FailTid ==
    ASSUME TypeOK, Refused \/ AnswerLost \/ \E permanent \in BOOLEAN : Fail(t, permanent)
    PROVE  pc' = "finish" /\ t'.uid = t.uid /\ t'.tid = t.tid
BY DEF Refused, AnswerLost, Fail, TypeOK, Tunnel

LEMMA OrphanReads ==
    ASSUME OrphanInv, GuardInv',
           ClientFor \/ ReadTunnel \/ ReadCreated \/ CheckSecret \/ WriteSecret
    PROVE  OrphanInv'
<1>1. UNCHANGED <<obj, rev, uids, cache, inflight, remote, issued>>
  BY DEF ClientFor, ReadTunnel, ReadCreated, CheckSecret, WriteSecret, api, platform, outside
<1>2. TypeOK' /\ TypeOK
  BY DEF GuardInv, OrphanInv
<1>3. SameTunnels
  BY <1>1, <1>2 DEF SameTunnels, TypeOK
<1>4. pc \in CreatePath \ {"addFinalizer"} /\ pc # "idle"
  BY DEF ClientFor, ReadTunnel, ReadCreated, CheckSecret, WriteSecret, CreatePath, DeletePath, Labels
<1>5. CASE pc' = "finish"
  <2>1. t'.uid = t.uid /\ t'.tid = t.tid
    BY <1>2, <1>5, FailTid
       DEF ClientFor, ReadTunnel, ReadCreated, CheckSecret, WriteSecret, BeforeCreate, TypeOK, Tunnel
  <2> QED
    BY <1>1, <1>3, <1>4, <1>5, <2>1, OrphanToFinish
<1>6. CASE pc' # "finish"
  <2>1. /\ t' = t
        /\ pc' \in {"getTunnel", "recordExternalID", "createTunnel", "checkSecret",
                    "writeSecret", "rotateToken", "ensureDeployment"}
    BY <1>2, <1>6, FailTid
       DEF ClientFor, ReadTunnel, ReadCreated, CheckSecret, WriteSecret, AfterClient, BeforeCreate
  <2>2. LocalKnown'
    <3>1. CASE ClientFor
      BY <2>1, <3>1 DEF ClientFor, AfterClient, BeforeCreate, LocalKnown
    <3>2. CASE ReadTunnel
      <4>1. CASE pc' \in {"recordExternalID", "createTunnel"}
        BY <4>1 DEF LocalKnown
      <4>2. CASE pc' \notin {"recordExternalID", "createTunnel"}
        <5>1. PICK r \in GetTunnel(remote, loc.acct, t.tid) :
                     loc' = [loc EXCEPT !.id = r.id, !.online = r.online]
          BY <1>2, <1>6, <3>2, <4>2, FailTid DEF ReadTunnel, BeforeCreate
        <5>2. r \in remote /\ r.id = t.tid /\ loc'.id = r.id /\ r.id # None
          BY <1>2, <5>1 DEF GetTunnel, TypeOK, TunnelRow, Locals
        <5>3. r.ext = t.uid
          BY <1>4, <5>2 DEF OrphanInv, Recorded
        <5> QED
          BY <1>1, <2>1, <5>2, <5>3 DEF LocalKnown
      <4> QED
        BY <4>1, <4>2
    <3>3. CASE ReadCreated \/ CheckSecret \/ WriteSecret
      <4>1. loc'.id = loc.id
        BY <1>2, <1>6, <3>3, FailTid DEF ReadCreated, CheckSecret, WriteSecret, TypeOK, Locals
      <4>2. \E r \in remote : r.id = loc.id /\ r.ext = t.uid
        BY <3>3 DEF OrphanInv, LocalKnown, ReadCreated, CheckSecret, WriteSecret
      <4> QED
        BY <1>1, <2>1, <4>1, <4>2 DEF LocalKnown
    <3> QED
      BY <3>1, <3>2, <3>3
  <2>3. Deleting' /\ pc' # "addFinalizer"
    BY <2>1 DEF Deleting, DeletePath
  <2> QED
    BY <1>1, <1>3, <1>4, <2>1, <2>2, <2>3, OrphanQuietCopy
<1> QED
  BY <1>5, <1>6

LEMMA OrphanRotate ==
    ASSUME OrphanInv, GuardInv', CallRotateToken
    PROVE  OrphanInv'
<1>1. UNCHANGED <<obj, rev, uids, cache, inflight>>
  BY DEF CallRotateToken, api, outside
<1>2. TypeOK' /\ TypeOK
  BY DEF GuardInv, OrphanInv
<1>3. SameTunnels
  <2>1. CASE UNCHANGED <<remote, issued>>
    BY <1>2, <2>1 DEF SameTunnels, TypeOK
  <2>2. CASE remote' = RotateToken(remote, loc.acct, loc.id, issued + 1) /\ issued' = issued + 1
    <3> DEFINE rotated(r) == IF r \in GetTunnel(remote, loc.acct, loc.id) THEN [r EXCEPT !.token = issued + 1] ELSE r
    <3>1. remote' = {rotated(r) : r \in remote}
      BY <2>2 DEF RotateToken
    <3>2. \A r \in remote : rotated(r).id = r.id /\ rotated(r).ext = r.ext
      BY <1>2 DEF TypeOK, TunnelRow
    <3>3. issued <= issued'
      BY <1>2, <2>2 DEF TypeOK
    <3> HIDE DEF rotated
    <3> QED
      BY <3>1, <3>2, <3>3 DEF SameTunnels
  <2> QED
    BY <2>1, <2>2 DEF CallRotateToken
<1>4. pc = "rotateToken" /\ pc \in CreatePath \ {"addFinalizer"}
  BY DEF CallRotateToken, CreatePath, Labels, DeletePath
<1>5. CASE pc' = "finish"
  <2>1. t'.uid = t.uid /\ t'.tid = t.tid
    BY <1>2, <1>5, FailTid DEF CallRotateToken
  <2> QED
    BY <1>1, <1>3, <1>4, <1>5, <2>1, OrphanToFinish
<1>6. CASE pc' # "finish"
  <2>1. t' = t /\ pc' = "writeSecret" /\ loc'.id = loc.id
    BY <1>2, <1>6, FailTid DEF CallRotateToken, TypeOK, Locals
  <2>2. LocalKnown'
    BY <1>3, <1>4, <2>1 DEF LocalKnown, OrphanInv, SameTunnels
  <2>3. Deleting'
    BY <2>1 DEF Deleting, DeletePath
  <2> QED
    BY <1>1, <1>3, <1>4, <2>1, <2>2, <2>3, OrphanQuietCopy
<1> QED
  BY <1>5, <1>6

\* The identifier goes into the copy when everything before it succeeded.
LEMMA OrphanEnsureDeployment ==
    ASSUME OrphanInv, GuardInv', EnsureDeployment
    PROVE  OrphanInv'
<1>1. UNCHANGED <<obj, rev, uids, cache, inflight, remote, issued>>
  BY DEF EnsureDeployment, platform, outside
<1>2. TypeOK' /\ TypeOK
  BY DEF GuardInv, OrphanInv
<1>3. SameTunnels
  BY <1>1, <1>2 DEF SameTunnels, TypeOK
<1>4. pc = "ensureDeployment" /\ pc \in CreatePath \ {"addFinalizer"}
  BY DEF EnsureDeployment, CreatePath, Labels, DeletePath
<1>5. CASE pc' = "idle"
  BY <1>1, <1>3, <1>4, <1>5, OrphanToFinish
<1>6. CASE pc' # "idle"
  <2>1. pc' = "finish" /\ t' = Synced(t)
    BY <1>6 DEF EnsureDeployment, Return
  <2>2. t'.uid = t.uid /\ t'.tid = loc.id
    BY <1>2, <2>1 DEF Synced, TypeOK, Tunnel
  <2>3. PICK r \in remote : r.id = loc.id /\ r.ext = t.uid
    BY <1>4 DEF OrphanInv, LocalKnown
  <2>4. /\ loc.id <= issued
        /\ \A s \in remote : s.ext = t.uid <=> s.id = loc.id
    BY <2>3 DEF OrphanInv, Distinct
  <2>5. Recorded(t)'
    BY <1>1, <2>2, <2>3, <2>4 DEF Recorded
  <2>6. LocalKnown' /\ Deleting'
    BY <2>1 DEF LocalKnown, Deleting, DeletePath
  <2> QED
    BY <1>1, <1>3, <1>4, <2>1, <2>2, <2>5, <2>6, OrphanQuiet
<1> QED
  BY <1>5, <1>6

LEMMA OrphanDeleteReads ==
    ASSUME SeesAll, OrphanInv, GuardInv', DeleteClientFor \/ CallFindTunnel
    PROVE  OrphanInv'
<1>1. UNCHANGED <<obj, rev, uids, cache, inflight, remote, issued>>
  BY DEF DeleteClientFor, CallFindTunnel, api, platform, outside
<1>2. TypeOK' /\ TypeOK
  BY DEF GuardInv, OrphanInv
<1>3. SameTunnels
  BY <1>1, <1>2 DEF SameTunnels, TypeOK
<1>4. pc \in DeletePath /\ pc \notin {"idle", "addFinalizer"}
  BY DEF DeleteClientFor, CallFindTunnel, DeletePath
<1>5. CASE pc' = "idle"
  <2>1. LocalKnown' /\ Deleting'
    BY <1>5, OrphanReturn
  <2> QED
    BY <1>1, <1>3, <1>4, <1>5, <2>1, OrphanQuietCopy DEF CreatePath
<1>6. CASE pc' # "idle"
  <2>1. t' = t /\ pc' \in {"findTunnel", "deleteTunnel", "removeFinalizer"}
    BY <1>6 DEF DeleteClientFor, CallFindTunnel, AfterDeleteClient, Return
  <2>2. Closed(t.uid)'
    <3>1. Closed(t.uid)
      BY <1>4 DEF OrphanInv, Deleting
    <3>2. pc' \notin CreatePath
      BY <2>1 DEF CreatePath, DeletePath
    <3> QED
      BY <1>1, <2>1, <3>1, <3>2 DEF Closed
  <2>3. pc' = "deleteTunnel" => \A r \in remote' : r.ext = t'.uid <=> r.id = loc'.id
    <3> SUFFICES ASSUME pc' = "deleteTunnel"
                 PROVE  \A r \in remote : r.ext = t.uid <=> r.id = loc'.id
      BY <1>1, <2>1
    <3>1. CASE DeleteClientFor
      <4>1. t.tid # None /\ loc'.id = t.tid
        BY <1>2, <3>1 DEF DeleteClientFor, AfterDeleteClient, Return, TypeOK, Locals
      <4> QED
        BY <1>4, <4>1 DEF OrphanInv, Recorded
    <3>2. CASE CallFindTunnel
      <4>1. PICK r \in FindTunnelByExternalID(remote, loc.acct, t.uid) : loc' = [loc EXCEPT !.id = r.id]
        BY <3>2 DEF CallFindTunnel, Return
      <4>2. r \in remote /\ r.ext = t.uid /\ loc'.id = r.id
        BY <1>2, <4>1 DEF FindTunnelByExternalID, TypeOK, Locals
      <4> QED
        BY <4>2 DEF OrphanInv, Distinct
    <3> QED
      BY <3>1, <3>2
  <2>4. pc' = "removeFinalizer" => \A r \in remote' : r.ext # t'.uid
    BY <1>1, <2>1 DEF DeleteClientFor, AfterDeleteClient, CallFindTunnel, FindTunnelByExternalID,
                      Return, SeesAll, Calls
  <2>5. LocalKnown' /\ Deleting'
    BY <2>1, <2>2, <2>3, <2>4 DEF LocalKnown, Deleting
  <2>6. pc' \notin CreatePath /\ pc' # "addFinalizer"
    BY <2>1 DEF CreatePath, DeletePath
  <2> QED
    BY <1>1, <1>3, <1>4, <2>1, <2>5, <2>6, OrphanQuietCopy
<1> QED
  BY <1>5, <1>6

\* A reconcile that creates works for an object no status calls finished, so a
\* new tunnel contradicts nothing that is recorded.
LEMMA RecordedCreate ==
    ASSUME OrphanInv, pc = "createTunnel", UNCHANGED <<obj, uids, cache>>,
           pc' \in CreatePath, t'.uid = t.uid, issued' = issued + 1, remote = {},
           remote' = {[acct |-> loc.acct, id |-> issued + 1, ext |-> t.uid, token |-> issued + 1,
                       online |-> FALSE]},
           NEW o \in Tunnel, Recorded(o)
    PROVE  Recorded(o)'
<1> SUFFICES ASSUME o.tid # None PROVE Recorded(o)'
  BY DEF Recorded
<1>1. o.tid <= issued /\ Closed(o.uid)
  BY DEF Recorded
<1>2. o.uid # t.uid
  BY <1>1 DEF Closed, CreatePath, Labels, DeletePath
<1>3. Closed(o.uid)'
  BY <1>1, <1>2 DEF Closed
<1>4. o.tid <= issued' /\ o.tid # issued + 1
  BY <1>1 DEF Tunnel, OrphanInv, GuardInv, TypeOK
<1> QED
  BY <1>2, <1>3, <1>4 DEF Recorded

LEMMA OrphanCreate ==
    ASSUME ~LateCreates, SeesAll, OrphanInv, GuardInv', CallCreateTunnel
    PROVE  OrphanInv'
<1>1. UNCHANGED <<obj, rev, uids, cache, inflight>>
  BY DEF CallCreateTunnel, api, outside, platform
<1>2. TypeOK' /\ TypeOK
  BY DEF GuardInv, OrphanInv
<1>3. pc = "createTunnel" /\ pc \in CreatePath \ {"addFinalizer"}
  BY DEF CallCreateTunnel, CreatePath, Labels, DeletePath
<1>4. CASE Refused /\ UNCHANGED platform
  <2>1. SameTunnels
    BY <1>2, <1>4 DEF SameTunnels, TypeOK, platform
  <2> QED
    BY <1>1, <1>2, <1>3, <1>4, <2>1, FailTid, OrphanToFinish
<1>5. CASE /\ remote' = CreateTunnel(remote, loc.acct, t.uid, issued + 1)
           /\ issued' = IF remote' = remote THEN issued ELSE issued + 1
           /\ \/ /\ \E c \in CreateTunnelResult(remote, loc.acct, t.uid, issued + 1) :
                       loc' = [loc EXCEPT !.id = c.id, !.token = c.token]
                 /\ pc' = "getCreated"
                 /\ UNCHANGED t
              \/ AnswerLost
  <2>1. CASE FindTunnelByExternalID(remote, loc.acct, t.uid) # {}
    <3>1. SameTunnels
      <4>1. remote' = remote
        BY <1>5, <2>1 DEF CreateTunnel
      <4>2. issued' = issued
        BY <1>5, <4>1
      <4> QED
        BY <1>2, <4>1, <4>2 DEF SameTunnels, TypeOK
    <3>2. CASE AnswerLost
      BY <1>1, <1>2, <1>3, <3>1, <3>2, FailTid, OrphanToFinish
    <3>3. CASE ~AnswerLost
      <4>1. t' = t /\ pc' = "getCreated"
        BY <1>5, <3>3
      <4>2. PICK r \in remote : r.ext = t.uid /\ loc'.id = r.id
        <5>1. PICK c \in CreateTunnelResult(remote, loc.acct, t.uid, issued + 1) :
                 loc' = [loc EXCEPT !.id = c.id, !.token = c.token]
          BY <1>5, <3>3
        <5>2. \E r \in remote : r.ext = t.uid /\ c.id = r.id
          BY <2>1, <5>1 DEF CreateTunnelResult, FindTunnelByExternalID
        <5>3. loc'.id = c.id
          BY <1>2, <5>1 DEF TypeOK, Locals
        <5> QED
          BY <5>2, <5>3
      <4>3. LocalKnown'
        BY <4>1, <4>2, <3>1 DEF LocalKnown, SameTunnels
      <4>4. Deleting' /\ pc' # "addFinalizer" /\ pc \notin {"idle", "addFinalizer"}
        BY <1>3, <4>1 DEF Deleting, DeletePath
      <4> QED
        BY <1>1, <1>3, <3>1, <4>1, <4>3, <4>4, OrphanQuietCopy
    <3> QED
      BY <3>2, <3>3
  <2>2. CASE FindTunnelByExternalID(remote, loc.acct, t.uid) = {}
    <3> DEFINE n == [acct |-> loc.acct, id |-> issued + 1, ext |-> t.uid,
                     token |-> issued + 1, online |-> FALSE]
    <3>1. t.uid = obj.uid /\ obj.fin
      BY <1>3 DEF OrphanInv, WorkHeld
    <3>2. remote = {}
      BY <1>3, <2>2, <3>1 DEF OrphanInv, NoOrphan, FindTunnelByExternalID, SeesAll, Calls
    <3>3. remote' = {n} /\ issued' = issued + 1
      BY <1>5, <2>2, <3>2 DEF CreateTunnel
    <3>4. /\ pc' \in {"getCreated", "finish"} /\ t'.uid = t.uid /\ t'.tid = t.tid
          /\ pc' = "getCreated" => loc'.id = issued + 1
      <4>1. CASE AnswerLost
        BY <1>2, <4>1, FailTid
      <4>2. CASE ~AnswerLost
        <5>1. PICK c \in CreateTunnelResult(remote, loc.acct, t.uid, issued + 1) :
                 loc' = [loc EXCEPT !.id = c.id, !.token = c.token]
          BY <1>5, <4>2
        <5>2. c.id = issued + 1
          BY <2>2, <5>1 DEF CreateTunnelResult
        <5>3. loc'.id = c.id
          BY <1>2, <5>1 DEF TypeOK, Locals
        <5> QED
          BY <1>5, <4>2, <5>2, <5>3
      <4> QED
        BY <4>1, <4>2
    <3>5. pc' \in CreatePath /\ pc' # "addFinalizer" /\ pc' \notin DeletePath
      BY <3>4 DEF CreatePath, Labels, DeletePath
    <3>6. \A o \in Tunnel : Recorded(o) => Recorded(o)'
      BY <1>1, <1>3, <3>2, <3>3, <3>4, <3>5, RecordedCreate
    <3>7. Recorded(obj)' /\ Recorded(cache)' /\ Recorded(t)'
      <4>1. Recorded(obj) /\ Recorded(cache) /\ Recorded(t)
        BY <1>3 DEF OrphanInv
      <4>2. obj \in Tunnel /\ cache \in Tunnel /\ t \in Tunnel
        BY <1>2 DEF TypeOK
      <4> QED
        BY <1>1, <3>4, <3>6, <4>1, <4>2 DEF Recorded, Closed
    <3>8. CacheHeld' /\ WorkHeld'
      BY <1>1, <3>1, <3>4 DEF OrphanInv, CacheHeld, WorkHeld
    <3>9. Distinct'
      BY <1>2, <3>3 DEF Distinct, TypeOK
    <3>10. LocalKnown' /\ Deleting'
      BY <3>3, <3>4, <3>5 DEF LocalKnown, Deleting, DeletePath
    <3>11. NoOrphan'
      <4>1. obj.ext # None
        BY <1>3, <3>1 DEF OrphanInv, GuardInv, Working, CopyBehind
      <4> QED
        BY <1>1, <3>1, <3>3, <4>1 DEF NoOrphan
    <3> QED
      BY <1>1, <3>7, <3>8, <3>9, <3>10, <3>11 DEF OrphanInv
  <2> QED
    BY <2>1, <2>2
<1> QED
  BY <1>4, <1>5 DEF CallCreateTunnel

\* The deletion takes exactly the tunnel of the object, whose creating is over.
LEMMA OrphanDelete ==
    ASSUME ~BareNotFounds, SeesAll, OrphanInv, GuardInv', CallDeleteTunnel
    PROVE  OrphanInv'
<1>1. UNCHANGED <<obj, rev, uids, cache, inflight, issued>>
  BY DEF CallDeleteTunnel, api, outside
<1>2. TypeOK' /\ TypeOK
  BY DEF GuardInv, OrphanInv
<1>3. pc = "deleteTunnel" /\ pc \in DeletePath /\ pc \notin {"idle", "addFinalizer"}
  BY DEF CallDeleteTunnel, DeletePath
<1>4. pc' = "idle" \/ (pc' = "removeFinalizer" /\ t' = t)
  BY DEF CallDeleteTunnel, Return
<1>5. pc' \notin CreatePath
  BY <1>4 DEF CreatePath, DeletePath
<1>6. Closed(t.uid) /\ \A r \in remote : r.ext = t.uid <=> r.id = loc.id
  BY <1>3 DEF OrphanInv, Deleting
<1>7. \A u : Closed(u) => Closed(u)'
  BY <1>1, <1>5 DEF Closed
<1>8. remote' = remote \/ remote' = DeleteTunnel(remote, loc.acct, loc.id)
  BY DEF CallDeleteTunnel
<1>9. remote' = remote \/ \A r : r \in remote' <=> r \in remote /\ r.ext # t.uid
  BY <1>3, <1>6, <1>8 DEF DeleteTunnel, GetTunnel, SeesAll, Calls
<1>10. \A o \in Tunnel : Recorded(o) => Recorded(o)'
  <2> SUFFICES ASSUME NEW o \in Tunnel, Recorded(o), o.tid # None PROVE Recorded(o)'
    BY DEF Recorded
  <2>1. (\E r \in remote' : r.ext = o.uid) \/ Closed(o.uid)'
    <3>1. CASE o.uid = t.uid
      BY <1>6, <1>7, <3>1
    <3>2. CASE o.uid # t.uid
      BY <1>7, <1>9, <3>2 DEF Recorded
    <3> QED
      BY <3>1, <3>2
  <2> QED
    BY <1>1, <1>9, <2>1 DEF Recorded
<1>11. Recorded(obj)' /\ Recorded(cache)' /\ (pc' # "idle" => Recorded(t)')
  <2>1. Recorded(obj) /\ Recorded(cache) /\ Recorded(t)
    BY <1>3 DEF OrphanInv
  <2>2. obj \in Tunnel /\ cache \in Tunnel /\ t \in Tunnel
    BY <1>2 DEF TypeOK
  <2> QED
    BY <1>1, <1>4, <1>10, <2>1, <2>2 DEF Recorded, Closed
<1>12. CacheHeld' /\ WorkHeld' /\ LocalKnown'
  BY <1>1, <1>4, <1>5 DEF OrphanInv, CacheHeld, WorkHeld, LocalKnown
<1>13. Distinct' /\ NoOrphan'
  BY <1>1, <1>9 DEF OrphanInv, Distinct, NoOrphan
<1>14. Deleting'
  <2>1. CASE pc' = "idle"
    BY <2>1, OrphanReturn
  <2>2. CASE pc' = "removeFinalizer" /\ t' = t
    <3>1. remote' = DeleteTunnel(remote, loc.acct, loc.id)
      BY <2>2 DEF CallDeleteTunnel, BareNotFound, Return
    <3>2. \A r \in remote' : r.ext # t'.uid
      BY <1>3, <1>6, <2>2, <3>1 DEF DeleteTunnel, GetTunnel, SeesAll, Calls
    <3>3. Closed(t.uid)'
      BY <1>6, <1>7, <2>2 DEF Closed
    <3> QED
      BY <2>2, <3>2, <3>3 DEF Deleting
  <2> QED
    BY <1>4, <2>1, <2>2
<1> QED
  BY <1>1, <1>11, <1>12, <1>13, <1>14 DEF OrphanInv

-----------------------------------------------------------------------------

LEMMA OrphanStutter ==
    ASSUME OrphanInv, GuardInv', UNCHANGED vars
    PROVE  OrphanInv'
<1> USE DEF vars
<1>1. \A u : Closed(u) <=> Closed(u)'
  BY DEF Closed
<1>2. Recorded(obj)' /\ Recorded(cache)' /\ (pc' # "idle" => Recorded(t)')
  BY <1>1 DEF OrphanInv, Recorded, Closed
<1>3. CacheHeld' /\ WorkHeld' /\ Distinct' /\ LocalKnown' /\ NoOrphan'
  BY DEF OrphanInv, CacheHeld, WorkHeld, Distinct, LocalKnown, NoOrphan
<1>4. Deleting'
  BY <1>1 DEF OrphanInv, Deleting, Closed
<1> QED
  BY <1>2, <1>3, <1>4 DEF OrphanInv

LEMMA OrphanNext ==
    ASSUME ~PanelDeletes, ~LateCreates, ~BareNotFounds, SeesAll, OrphanInv, [Next]_vars
    PROVE  OrphanInv'
<1>1. GuardInv'
  BY GuardNext DEF OrphanInv
<1>2. CASE Worker
  BY <1>1, <1>2, OrphanReconcile, OrphanAddFinalizer, OrphanReads, OrphanRecordExternalID,
     OrphanCreate, OrphanRotate, OrphanEnsureDeployment, OrphanFinish, OrphanDeleteReads,
     OrphanDelete, OrphanRemoveFinalizer DEF Worker
<1>3. CASE UNCHANGED vars
  BY <1>1, <1>3, OrphanStutter
<1> QED
  BY <1>1, <1>2, <1>3, OrphanUsers, OrphanCluster DEF Next

\* Whatever is lost, retried, crashed or edited, for any number of objects, of
\* edits and of faults, a tunnel on the platform belongs to an object that exists,
\* holds the finalizer and has recorded its external id, so that
\* reconcileDelete finds it.  Four things are excluded: credentials that lead to
\* different accounts, deletions in the panel, a create applied after the operator
\* gave up on it, and a 404 that did not come from the platform; with each of them
\* TLC has a counterexample.
THEOREM NoOrphans ==
    ASSUME OneAccount, ~PanelDeletes, ~LateCreates, ~BareNotFounds
    PROVE  Spec => []NoOrphan
<1>1. SeesAll /\ OrphanInv /\ [Next]_vars => OrphanInv'
  BY OrphanNext
<1>2. OrphanInv => NoOrphan
  BY DEF OrphanInv
<1> QED
  BY <1>1, <1>2, AlwaysSeesAll, OrphanInit, PTL DEF Spec
=============================================================================
