----------------------- MODULE TunnelCredentialProofs -----------------------
(***************************************************************************)
(* The token in the Secret is the one the platform accepts, and nothing is *)
(* rotated under a stored token, for every number of objects, edits and    *)
(* faults, under the hypotheses of NoOrphans and with a cached client that *)
(* does not lag on the token Secret.                                       *)
(***************************************************************************)
EXTENDS TunnelOrphanProofs

USE DEF None, SetSynced, SetAgentAvailable, SetReady

-----------------------------------------------------------------------------
(* What is over for an object stays over *)

LEMMA ObjStepNext == ASSUME GuardInv, Next PROVE ObjStep
<1> USE DEF GuardInv, TypeOK, Tunnel
<1>1. CASE AddFinalizer
  BY <1>1 DEF AddFinalizer, ObjStep, Kept, Working, outside
<1>2. CASE RecordExternalID
  <2>1. CASE UNCHANGED <<obj, rev>>
    BY <1>2, <2>1 DEF RecordExternalID, ObjStep, outside
  <2>2. CASE UpdateStatus([t EXCEPT !.ext = t.uid])
    <3>1. /\ [t EXCEPT !.ext = t.uid] \in Tunnel /\ [t EXCEPT !.ext = t.uid].ext # None
          /\ uids' = uids /\ pc # "idle"
      BY <1>2 DEF RecordExternalID, outside, Working
    <3> QED
      BY <2>2, <3>1, StatusObjStep
  <2> QED
    BY <1>2, <2>1, <2>2 DEF RecordExternalID
<1>3. CASE Finish
  <2>1. CASE UNCHANGED <<obj, rev>>
    BY <1>3, <2>1 DEF Finish, ObjStep, outside
  <2>2. CASE UpdateStatus([t EXCEPT !.obs = t.gen])
    <3>1. /\ [t EXCEPT !.obs = t.gen] \in Tunnel /\ [t EXCEPT !.obs = t.gen].ext = t.ext
          /\ uids' = uids /\ pc # "idle"
      BY <1>3 DEF Finish, outside
    <3>2. obj.ext # None => t.ext # None
      BY <2>2, <3>1 DEF UpdateStatus, Working
    <3> QED
      BY <2>2, <3>1, <3>2, StatusObjStep
  <2> QED
    BY <1>3, <2>1, <2>2 DEF Finish
<1>4. CASE RemoveFinalizer
  BY <1>4 DEF RemoveFinalizer, WithoutFinalizer, ObjStep, Kept, Gone, Working, DeletePath, outside
<1>5. CASE CallStep \/ Reconcile
  BY <1>5 DEF CallStep, Reconcile, ClientFor, ReadTunnel, CallCreateTunnel, ReadCreated,
              CheckSecret, CallRotateToken, WriteSecret, EnsureDeployment, DeleteClientFor,
              CallFindTunnel, CallDeleteTunnel, api, outside, ObjStep
<1>6. CASE UserCreate \/ UserEdit
  BY <1>6 DEF UserCreate, UserEdit, Exists, NoTunnel, ObjStep, Born, Kept
<1>7. CASE UserDelete
  <2>1. PICK other \in BOOLEAN :
           obj' = IF obj.fin \/ other
                  THEN [obj EXCEPT !.deleting = TRUE, !.other = other, !.rv = rev + 1]
                  ELSE NoTunnel
    BY <1>7 DEF UserDelete
  <2> QED
    BY <1>7, <2>1 DEF UserDelete, Exists, ObjStep, Kept, Gone
<1>8. CASE ReleaseOther
  BY <1>8 DEF ReleaseOther, ObjStep, Kept, Gone, Versions, NoTunnel
<1>9. CASE UserSpoilsSecret \/ UserChangesCredential \/ PanelDelete \/ LateCreate
  BY <1>9 DEF UserSpoilsSecret, UserChangesCredential, PanelDelete, LateCreate, ObjStep, api
<1>10. CASE \/ Deliver \/ DeliverSecret \/ CollectSecret \/ CollectDeployment
            \/ PodStop \/ PodFail \/ PodStart \/ Handshake \/ Restart
  BY <1>10 DEF Deliver, DeliverSecret, CollectSecret, CollectDeployment, PodStop, PodFail, PodStart,
               Handshake, Restart, api, ObjStep
<1> QED
  BY <1>1, <1>2, <1>3, <1>4, <1>5, <1>6, <1>7, <1>8, <1>9, <1>10 DEF Next, Worker, CallStep

LEMMA CacheStepNext == ASSUME Next PROVE CacheStep
<1>1. CASE Deliver \/ Restart
  BY <1>1 DEF Deliver, Restart, CacheStep, api
<1>2. CASE ~Deliver /\ ~Restart
  BY <1>2 DEF Next, Worker, Reconcile, AddFinalizer, ClientFor, ReadTunnel, RecordExternalID,
              CallCreateTunnel, ReadCreated, CheckSecret, CallRotateToken, WriteSecret,
              EnsureDeployment, Finish, DeleteClientFor, CallFindTunnel, CallDeleteTunnel,
              RemoveFinalizer, UserCreate, UserDelete, ReleaseOther, UserEdit,
              UserSpoilsSecret, UserChangesCredential, PanelDelete, LateCreate,
              DeliverSecret, CollectSecret, CollectDeployment, PodStop, PodFail, PodStart,
              Handshake, informer, outside, CacheStep
<1> QED
  BY <1>1, <1>2

LEMMA WorkerKeptNext == ASSUME OrphanInv, Next PROVE WorkerKept
<1>1. GuardInv /\ TypeOK /\ WorkHeld
  BY DEF OrphanInv, GuardInv
<1> SUFFICES ASSUME pc' \in CreatePath
             PROVE  \/ pc \in CreatePath /\ t'.uid = t.uid
                    \/ t'.uid = cache.uid /\ ~cache.deleting
  BY DEF WorkerKept
<1>2. CASE Reconcile
  <2>1. pc' \in {"addFinalizer", "clientFor"}
    BY <1>1, <1>2, DispatchCases DEF Reconcile, CreatePath, DeletePath, TypeOK
  <2>2. t' = cache /\ ~cache.deleting
    BY <1>1, <1>2, <2>1, DispatchCases DEF Reconcile, TypeOK
  <2> QED
    BY <2>2
<1>3. CASE AddFinalizer
  <2>1. pc = "addFinalizer" /\ t.rv = obj.rv /\ t' = obj' /\ obj' = [obj EXCEPT !.fin = TRUE, !.rv = rev + 1]
    BY <1>3 DEF AddFinalizer, Return, CreatePath
  <2>2. obj'.uid = obj.uid /\ t.uid = obj.uid
    BY <1>1, <2>1 DEF GuardInv, Working, TypeOK, Tunnel
  <2> QED
    BY <2>1, <2>2 DEF CreatePath, DeletePath, Labels
<1>4. CASE RecordExternalID
  <2>1. pc = "recordExternalID" /\ pc \in CreatePath /\ t.uid = obj.uid
    BY <1>1, <1>4 DEF RecordExternalID, WorkHeld, CreatePath, DeletePath, Labels
  <2>2. t'.uid = t.uid \/ (UpdateStatus([t EXCEPT !.ext = t.uid]) /\ t' = obj')
    BY <1>1, <1>4 DEF RecordExternalID, Fail, TypeOK, Tunnel
  <2>3. ASSUME NEW new \in Tunnel, UpdateStatus(new) PROVE obj'.uid = obj.uid
    BY <1>1, <2>3 DEF UpdateStatus, WithStatus, TypeOK, Tunnel
  <2>4. [t EXCEPT !.ext = t.uid] \in Tunnel
    BY <1>1 DEF TypeOK, Tunnel
  <2> QED
    BY <2>1, <2>2, <2>3, <2>4
<1>5. CASE CallStep
  <2>1. SameCopy /\ pc \notin {"idle", "finish", "addFinalizer"}
    BY <1>1, <1>5, CallStepCopy DEF CreatePath
  <2>2. pc \in CreatePath
    BY <1>5 DEF CallStep, ClientFor, ReadTunnel, CallCreateTunnel, ReadCreated, CheckSecret,
                CallRotateToken, WriteSecret, EnsureDeployment, DeleteClientFor,
                CallFindTunnel, CallDeleteTunnel, AfterDeleteClient, Return,
                CreatePath, DeletePath, Labels
  <2> QED
    BY <2>1, <2>2 DEF SameCopy
<1>6. CASE Finish \/ RemoveFinalizer
  BY <1>6 DEF Finish, RemoveFinalizer, Return, CreatePath
<1>7. CASE Restart
  BY <1>7 DEF Restart, CreatePath
<1>8. CASE ~Worker /\ ~Restart
  <2>1. UNCHANGED <<pc, t>>
    BY <1>8 DEF Next, UserCreate, UserDelete, ReleaseOther, UserEdit, UserSpoilsSecret,
             UserChangesCredential, PanelDelete, LateCreate, Deliver, DeliverSecret,
             CollectSecret, CollectDeployment, PodStop, PodFail, PodStart, Handshake, worker
  <2> QED
    BY <2>1
<1> QED
  BY <1>2, <1>3, <1>4, <1>5, <1>6, <1>7, <1>8 DEF Worker, CallStep

LEMMA ClosedNext ==
    ASSUME OrphanInv, TypeOK', Next
    PROVE  \A u \in Nat : u # None /\ Closed(u) => Closed(u)'
<1>1. ObjStep /\ CacheStep /\ WorkerKept
  BY ObjStepNext, CacheStepNext, WorkerKeptNext DEF OrphanInv
<1> QED
  BY <1>1, ClosedStable

-----------------------------------------------------------------------------
(* The inductive invariant behind StoredCredentialIsLive *)

\* A reconcile about to ask for a token, or with one that is not stored yet.
Holding ==
    \/ pc = "rotateToken"
    \/ pc \in {"getCreated", "writeSecret"} /\ loc.token # None

\* Nothing is stored for the object meanwhile.
NothingStored == Holding /\ secret.owner = t.uid => secret.token = None

\* The token a reconcile holds is the tunnel's.
HeldIsLive ==
    /\ pc = "writeSecret" => loc.token # None
    /\ pc \in {"getCreated", "writeSecret"} /\ loc.token # None =>
          \A r \in remote : r.ext = t.uid => r.token = loc.token

\* A token stays stored as long as its tunnel is there, and longer only when the
\* object will not get another one.
StoredHasTunnel ==
    secret.owner # None /\ secret.token # None =>
        (\E r \in remote : r.ext = secret.owner) \/ Closed(secret.owner)

CredentialInv ==
    /\ NothingStored
    /\ HeldIsLive
    /\ StoredHasTunnel
    /\ StoredCredentialIsLive

\* No tunnel appears or gets another token, and one goes only when the
\* operator is through with its object.
TokensKept ==
    /\ \A r \in remote' : \E s \in remote : s.id = r.id /\ s.ext = r.ext /\ s.token = r.token
    /\ \A s \in remote : (\E r \in remote' : r.ext = s.ext) \/ Closed(s.ext)'

\* No reconcile comes to hold a token.
HoldingKept ==
    Holding' => Holding /\ t'.uid = t.uid /\ loc'.token = loc.token

LEMMA CredentialFrame ==
    ASSUME OrphanInv, CredentialInv, TypeOK', Next, TokensKept, HoldingKept,
           pc' = "writeSecret" => loc'.token # None,
           secret' = secret \/ secret'.token = None,
           pc' \in {"getCreated", "writeSecret"} => pc \in {"getCreated", "writeSecret"}
    PROVE  CredentialInv'
<1>1. NothingStored'
  BY DEF CredentialInv, NothingStored, HoldingKept
<1>2. HeldIsLive'
  <2> SUFFICES ASSUME pc' \in {"getCreated", "writeSecret"}, loc'.token # None,
                      NEW r \in remote', r.ext = t'.uid
               PROVE  r.token = loc'.token
    BY DEF HeldIsLive
  <2>1. pc \in {"getCreated", "writeSecret"} /\ t'.uid = t.uid /\ loc'.token = loc.token
    BY DEF HoldingKept, Holding
  <2>2. PICK s \in remote : s.ext = r.ext /\ s.token = r.token
    BY DEF TokensKept
  <2> QED
    BY <2>1, <2>2 DEF CredentialInv, HeldIsLive
<1>3. StoredHasTunnel'
  <2> SUFFICES ASSUME secret' = secret, secret.owner # None, secret.token # None
               PROVE  (\E r \in remote' : r.ext = secret.owner) \/ Closed(secret.owner)'
    BY DEF StoredHasTunnel, Closed
  <2>1. CASE \E r \in remote : r.ext = secret.owner
    <3>1. PICK s \in remote : s.ext = secret.owner
      BY <2>1
    <3>2. (\E r \in remote' : r.ext = s.ext) \/ Closed(s.ext)'
      BY DEF TokensKept
    <3> QED
      BY <3>1, <3>2 DEF Closed
  <2>2. CASE Closed(secret.owner)
    <3>1. secret.owner \in Nat
      BY DEF OrphanInv, GuardInv, TypeOK, Secret
    <3>2. \A u \in Nat : u # None /\ Closed(u) => Closed(u)'
      BY ClosedNext
    <3> QED
      BY <2>2, <3>1, <3>2 DEF Closed
  <2> QED
    BY <2>1, <2>2 DEF CredentialInv, StoredHasTunnel
<1>4. StoredCredentialIsLive'
  BY DEF CredentialInv, StoredCredentialIsLive, TokensKept
<1> QED
  BY <1>1, <1>2, <1>3, <1>4 DEF CredentialInv

LEMMA TokensSame == ASSUME remote' = remote PROVE TokensKept
BY DEF TokensKept

LEMMA CredentialOutside ==
    ASSUME ~PanelDeletes, OrphanInv, CredentialInv, TypeOK', Next, ~Worker
    PROVE  CredentialInv' /\ TokensKept
<1>1. ~PanelDelete /\ ~LateCreate
  BY DEF PanelDelete, LateCreate, OrphanInv
<1>2. pc' = "idle" \/ UNCHANGED <<pc, t, loc>>
  BY <1>1 DEF Next, UserCreate, UserDelete, ReleaseOther, UserEdit, UserSpoilsSecret,
              UserChangesCredential, Deliver, DeliverSecret, CollectSecret,
              CollectDeployment, PodStop, PodFail, PodStart, Handshake, Restart, worker
<1>3. TokensKept
  <2>1. CASE Handshake
    <3> DEFINE seen(r) == [r EXCEPT !.online = (pod.up /\ pod.token = r.token)]
    <3>1. remote' = {seen(r) : r \in remote}
      BY <2>1 DEF Handshake
    <3>2. \A r \in remote : seen(r).id = r.id /\ seen(r).ext = r.ext /\ seen(r).token = r.token
      BY DEF OrphanInv, GuardInv, TypeOK, TunnelRow
    <3> HIDE DEF seen
    <3> QED
      BY <3>1, <3>2 DEF TokensKept
  <2>2. CASE ~Handshake
    <3>1. remote' = remote
      BY <1>1, <2>2
         DEF Next, UserCreate, UserDelete, ReleaseOther, UserEdit, UserSpoilsSecret,
             UserChangesCredential, Deliver, DeliverSecret, CollectSecret,
             CollectDeployment, PodStop, PodFail, PodStart, Restart, platform
    <3> QED
      BY <3>1, TokensSame
  <2> QED
    BY <2>1, <2>2
<1>4. secret' = secret \/ secret'.token = None
  <2>1. CASE UserSpoilsSecret
    <3>1. \/ secret' = NoSecret(secret.rv + 1)
          \/ secret' = [secret EXCEPT !.token = None, !.rv = secret.rv + 1]
      BY <2>1 DEF UserSpoilsSecret
    <3>2. NoSecret(secret.rv + 1).token = None
      BY DEF NoSecret
    <3>3. [secret EXCEPT !.token = None, !.rv = secret.rv + 1].token = None
      BY DEF OrphanInv, GuardInv, TypeOK, Secret
    <3> QED
      BY <3>1, <3>2, <3>3
  <2>2. CASE CollectSecret
    BY <2>2 DEF CollectSecret, NoSecret
  <2>3. CASE ~UserSpoilsSecret /\ ~CollectSecret
    BY <1>1, <2>3
       DEF Next, UserCreate, UserDelete, ReleaseOther, UserEdit, UserChangesCredential,
           Deliver, DeliverSecret, CollectDeployment, PodStop, PodFail, PodStart, Handshake, Restart, api
  <2> QED
    BY <2>1, <2>2, <2>3
<1>5. /\ HoldingKept /\ (pc' = "writeSecret" => loc'.token # None)
      /\ pc' \in {"getCreated", "writeSecret"} => pc \in {"getCreated", "writeSecret"}
  BY <1>2 DEF HoldingKept, Holding, CredentialInv, HeldIsLive
<1> QED
  BY <1>3, <1>4, <1>5, CredentialFrame

\* The steps of a reconcile that touch neither the Secret nor a token.
LEMMA CredentialQuiet ==
    ASSUME OrphanInv, CredentialInv, TypeOK', Next,
           \/ Reconcile \/ AddFinalizer \/ ClientFor \/ ReadTunnel \/ RecordExternalID
           \/ ReadCreated \/ EnsureDeployment \/ Finish \/ DeleteClientFor \/ CallFindTunnel
           \/ RemoveFinalizer
    PROVE  CredentialInv' /\ TokensKept
<1>1. UNCHANGED <<remote, secret>>
  BY DEF Reconcile, AddFinalizer, ClientFor, ReadTunnel, RecordExternalID, ReadCreated,
         EnsureDeployment, Finish, DeleteClientFor, CallFindTunnel, RemoveFinalizer, api, platform
<1>2. TypeOK
  BY DEF OrphanInv, GuardInv
<1>3. CASE ReadCreated
  <2>1. CASE pc' = "finish"
    <3>1. /\ HoldingKept /\ pc' # "writeSecret" /\ pc' \notin {"getCreated", "writeSecret"}
      BY <2>1 DEF HoldingKept, Holding
    <3> QED
      BY <1>1, <3>1, TokensSame, CredentialFrame
  <2>2. CASE pc' # "finish"
    <3>1. /\ pc = "getCreated" /\ t' = t /\ loc'.token = loc.token
          /\ pc' = IF loc.token # None THEN "writeSecret" ELSE "checkSecret"
      BY <1>2, <1>3, <2>2, FailTid DEF ReadCreated, TypeOK, Locals
    <3>2. /\ HoldingKept /\ (pc' = "writeSecret" => loc'.token # None)
          /\ pc \in {"getCreated", "writeSecret"}
      BY <3>1 DEF HoldingKept, Holding
    <3> QED
      BY <1>1, <3>2, TokensSame, CredentialFrame
  <2> QED
    BY <2>1, <2>2
<1>4. CASE ~ReadCreated
  <2>1. pc' \notin {"rotateToken", "getCreated", "writeSecret"}
    <3>1. CASE Reconcile
      BY <1>2, <3>1, DispatchCases DEF Reconcile, TypeOK
    <3>2. CASE ClientFor \/ ReadTunnel
      BY <1>2, <3>2, FailTid DEF ClientFor, ReadTunnel, AfterClient, BeforeCreate
    <3>3. CASE \/ AddFinalizer \/ RecordExternalID \/ EnsureDeployment \/ Finish
               \/ DeleteClientFor \/ CallFindTunnel \/ RemoveFinalizer
      BY <3>3 DEF AddFinalizer, RecordExternalID, EnsureDeployment, Finish, DeleteClientFor,
                  CallFindTunnel, RemoveFinalizer, AfterDeleteClient, Fail, Return
    <3> QED
      BY <1>4, <3>1, <3>2, <3>3
  <2>2. HoldingKept
    BY <2>1 DEF HoldingKept, Holding
  <2> QED
    BY <1>1, <2>1, <2>2, TokensSame, CredentialFrame
<1> QED
  BY <1>3, <1>4

\* A rotation is only asked for when the Secret holds no token.
LEMMA CredentialCheckSecret ==
    ASSUME ~StaleSecrets, OrphanInv, CredentialInv, TypeOK', Next, CheckSecret
    PROVE  CredentialInv' /\ TokensKept
<1>1. UNCHANGED <<remote, secret, t>> /\ pc' \in {"ensureDeployment", "rotateToken"}
  BY DEF CheckSecret, api, platform
<1>2. TokensKept
  BY <1>1, TokensSame
<1>3. CASE pc' = "ensureDeployment"
  <2>1. HoldingKept /\ pc' # "writeSecret" /\ pc' \notin {"getCreated", "writeSecret"}
    BY <1>3 DEF HoldingKept, Holding
  <2> QED
    BY <1>1, <1>2, <2>1, CredentialFrame
<1>4. CASE pc' = "rotateToken"
  <2>1. ~Usable(secret)
    BY <1>4 DEF CheckSecret, SecretSeen
  <2>2. t.uid # None
    BY DEF CheckSecret, OrphanInv, GuardInv, Working
  <2>3. NothingStored'
    BY <1>1, <2>1, <2>2 DEF NothingStored, Usable
  <2>4. HeldIsLive'
    BY <1>4 DEF HeldIsLive
  <2>5. StoredHasTunnel'
    <3> SUFFICES ASSUME secret.owner # None, secret.token # None PROVE FALSE
      BY <1>1 DEF StoredHasTunnel
    <3> QED
      BY <2>1 DEF Usable
  <2>6. StoredCredentialIsLive'
    BY <1>1 DEF CredentialInv, StoredCredentialIsLive
  <2> QED
    BY <1>2, <2>3, <2>4, <2>5, <2>6 DEF CredentialInv
<1> QED
  BY <1>1, <1>3, <1>4

\* A new tunnel contradicts no stored token: there is none for its object.
LEMMA CredentialCreate ==
    ASSUME SeesAll, OrphanInv, CredentialInv, OrphanInv', Next, CallCreateTunnel
    PROVE  /\ CredentialInv'
           /\ \A s \in remote' : s \in remote \/ s.id = issued + 1
<1>1. UNCHANGED <<obj, secret, cache, uids>> /\ pc = "createTunnel" /\ pc \in CreatePath \ {"addFinalizer"}
  BY DEF CallCreateTunnel, api, outside, CreatePath, Labels, DeletePath
<1>2. TypeOK' /\ TypeOK
  BY DEF OrphanInv, GuardInv
<1>3. CASE remote' = remote
  <2>1. ~Holding' /\ pc' # "writeSecret"
    <3>1. CASE Refused \/ AnswerLost
      BY <1>2, <3>1, FailTid DEF Holding
    <3>2. CASE ~(Refused \/ AnswerLost)
      <4>1. PICK c \in CreateTunnelResult(remote, loc.acct, t.uid, issued + 1) :
               loc' = [loc EXCEPT !.id = c.id, !.token = c.token]
        BY <3>2 DEF CallCreateTunnel
      <4>2. FindTunnelByExternalID(remote, loc.acct, t.uid) # {}
        <5> SUFFICES ASSUME FindTunnelByExternalID(remote, loc.acct, t.uid) = {} PROVE FALSE
          OBVIOUS
        <5> DEFINE n == [acct |-> loc.acct, id |-> issued + 1, ext |-> t.uid,
                         token |-> issued + 1, online |-> FALSE]
        <5>1. n \in remote' /\ n.ext = t.uid
          BY <3>2 DEF CallCreateTunnel, CreateTunnel
        <5> QED
          BY <1>3, <5>1 DEF FindTunnelByExternalID
      <4>3. loc'.token = None
        BY <1>2, <4>1, <4>2 DEF CreateTunnelResult, TypeOK, Locals
      <4> QED
        BY <3>2, <4>3 DEF CallCreateTunnel, Holding
    <3> QED
      BY <3>1, <3>2
  <2>3. NothingStored' /\ HeldIsLive'
    BY <2>1 DEF NothingStored, HeldIsLive, Holding
  <2>4. StoredHasTunnel'
    <3> SUFFICES ASSUME secret.owner # None, secret.token # None
                 PROVE  (\E r \in remote : r.ext = secret.owner) \/ Closed(secret.owner)'
      BY <1>1, <1>3 DEF StoredHasTunnel, Closed
    <3>1. secret.owner \in Nat /\ \A u \in Nat : u # None /\ Closed(u) => Closed(u)'
      BY <1>2, ClosedNext DEF TypeOK, Secret
    <3> QED
      BY <1>1, <3>1 DEF CredentialInv, StoredHasTunnel, Closed
  <2>5. StoredCredentialIsLive'
    BY <1>1, <1>3 DEF CredentialInv, StoredCredentialIsLive
  <2> QED
    BY <1>3, <2>3, <2>4, <2>5 DEF CredentialInv
<1>4. CASE remote' # remote
  <2> DEFINE n == [acct |-> loc.acct, id |-> issued + 1, ext |-> t.uid,
                   token |-> issued + 1, online |-> FALSE]
  <2>1. remote' = CreateTunnel(remote, loc.acct, t.uid, issued + 1)
    BY <1>4 DEF CallCreateTunnel, platform
  <2>2. FindTunnelByExternalID(remote, loc.acct, t.uid) = {}
    BY <1>4, <2>1 DEF CreateTunnel
  <2>3. remote' = remote \cup {n}
    BY <2>1, <2>2 DEF CreateTunnel
  <2>4. t.uid # None /\ ~Closed(t.uid)
    BY <1>1 DEF OrphanInv, GuardInv, Working, Closed
  <2>5. secret.owner = t.uid => secret.token = None
    BY <1>1, <2>2, <2>4 DEF CredentialInv, StoredHasTunnel, FindTunnelByExternalID, SeesAll, Calls
  <2>6. t'.uid = t.uid /\ (pc' = "finish" \/ (pc' = "getCreated" /\ loc'.token = issued + 1))
    <3>1. CASE Refused \/ AnswerLost
      BY <1>2, <3>1, FailTid
    <3>2. CASE ~(Refused \/ AnswerLost)
      <4>1. PICK c \in CreateTunnelResult(remote, loc.acct, t.uid, issued + 1) :
               loc' = [loc EXCEPT !.id = c.id, !.token = c.token]
        BY <3>2 DEF CallCreateTunnel
      <4>2. loc'.token = issued + 1
        BY <1>2, <2>2, <4>1 DEF CreateTunnelResult, TypeOK, Locals
      <4> QED
        BY <3>2, <4>2 DEF CallCreateTunnel
    <3> QED
      BY <3>1, <3>2
  <2>7. NothingStored'
    BY <1>1, <2>5, <2>6 DEF NothingStored
  <2>8. HeldIsLive'
    BY <1>1, <2>2, <2>3, <2>6 DEF HeldIsLive, FindTunnelByExternalID, SeesAll, Calls
  <2>9. StoredHasTunnel'
    <3> SUFFICES ASSUME secret.owner # None, secret.token # None
                 PROVE  (\E r \in remote' : r.ext = secret.owner) \/ Closed(secret.owner)'
      BY <1>1 DEF StoredHasTunnel, Closed
    <3>1. secret.owner \in Nat /\ \A u \in Nat : u # None /\ Closed(u) => Closed(u)'
      BY <1>2, ClosedNext DEF TypeOK, Secret
    <3> QED
      BY <1>1, <2>3, <3>1 DEF CredentialInv, StoredHasTunnel, Closed
  <2>10. StoredCredentialIsLive'
    BY <1>1, <2>3, <2>5 DEF CredentialInv, StoredCredentialIsLive
  <2> QED
    BY <2>3, <2>7, <2>8, <2>9, <2>10 DEF CredentialInv
<1> QED
  BY <1>3, <1>4

\* A rotation gives the tunnel of the reconcile's object, which has no token
\* stored, another token, and no other tunnel.
LEMMA RotatedRows ==
    ASSUME SeesAll, OrphanInv, pc = "rotateToken",
           remote' = RotateToken(remote, loc.acct, loc.id, issued + 1)
    PROVE  /\ \A r \in remote' : \E s \in remote :
                 /\ s.id = r.id /\ s.ext = r.ext
                 /\ r.ext = t.uid => r.token = issued + 1
                 /\ r.ext # t.uid => r.token = s.token
           /\ \A s \in remote : \E r \in remote' : r.ext = s.ext
<1> DEFINE rotated(r) == IF r \in GetTunnel(remote, loc.acct, loc.id)
                         THEN [r EXCEPT !.token = issued + 1] ELSE r
<1>1. remote' = {rotated(r) : r \in remote}
  BY DEF RotateToken
<1>2. \A r \in remote : r.id = loc.id <=> r.ext = t.uid
  BY DEF OrphanInv, LocalKnown, Distinct
<1>3. \A r \in remote :
         /\ rotated(r).id = r.id /\ rotated(r).ext = r.ext
         /\ r.ext = t.uid => rotated(r).token = issued + 1
         /\ r.ext # t.uid => rotated(r).token = r.token
  <2>1. \A r \in remote : r \in GetTunnel(remote, loc.acct, loc.id) <=> r.ext = t.uid
    BY <1>2 DEF GetTunnel, SeesAll, Calls
  <2> QED
    BY <2>1 DEF OrphanInv, GuardInv, TypeOK, TunnelRow
<1> HIDE DEF rotated
<1> QED
  BY <1>1, <1>3

LEMMA CredentialRotate ==
    ASSUME SeesAll, OrphanInv, CredentialInv, OrphanInv', Next, CallRotateToken
    PROVE  CredentialInv'
<1>1. UNCHANGED <<secret, uids, obj, cache>> /\ pc = "rotateToken"
  BY DEF CallRotateToken, api, outside
<1>2. TypeOK' /\ TypeOK
  BY DEF OrphanInv, GuardInv
<1>3. CASE UNCHANGED <<remote, issued>>
  <2>1. pc' = "finish"
    <3>1. CASE Refused \/ AnswerLost \/ Fail(t, TRUE)
      BY <1>2, <3>1, FailTid
    <3>2. CASE ~(Refused \/ AnswerLost \/ Fail(t, TRUE))
      <4>1. issued' = issued + 1
        BY <3>2 DEF CallRotateToken
      <4> QED
        BY <1>2, <1>3, <4>1 DEF TypeOK
    <3> QED
      BY <3>1, <3>2
  <2>2. HoldingKept /\ pc' # "writeSecret" /\ pc' \notin {"getCreated", "writeSecret"}
    BY <2>1 DEF HoldingKept, Holding
  <2> QED
    BY <1>1, <1>2, <1>3, <2>2, TokensSame, CredentialFrame
<1>4. CASE remote' = RotateToken(remote, loc.acct, loc.id, issued + 1) /\ issued' = issued + 1
  <2>1. secret.owner = t.uid => secret.token = None
    BY <1>1 DEF CredentialInv, NothingStored, Holding
  <2>2. \A r \in remote' : \E s \in remote :
           /\ s.id = r.id /\ s.ext = r.ext
           /\ r.ext = t.uid => r.token = issued + 1
           /\ r.ext # t.uid => r.token = s.token
    BY <1>1, <1>4, RotatedRows
  <2>3. \/ pc' = "finish" /\ t'.uid = t.uid
        \/ pc' = "writeSecret" /\ t' = t /\ loc'.token = issued + 1
    <3>1. CASE Refused \/ AnswerLost \/ Fail(t, TRUE)
      BY <1>2, <3>1, FailTid
    <3>2. CASE ~(Refused \/ AnswerLost \/ Fail(t, TRUE))
      BY <1>2, <3>2 DEF CallRotateToken, TypeOK, Locals
    <3> QED
      BY <3>1, <3>2
  <2>4. NothingStored'
    BY <1>1, <2>1, <2>3 DEF NothingStored
  <2>5. HeldIsLive'
    <3>1. issued + 1 # None
      BY <1>2 DEF TypeOK
    <3> QED
      BY <2>2, <2>3, <3>1 DEF HeldIsLive
  <2>6. StoredHasTunnel'
    <3> SUFFICES ASSUME secret.owner # None, secret.token # None
                 PROVE  (\E r \in remote' : r.ext = secret.owner) \/ Closed(secret.owner)'
      BY <1>1 DEF StoredHasTunnel, Closed
    <3>1. secret.owner \in Nat /\ \A u \in Nat : u # None /\ Closed(u) => Closed(u)'
      BY <1>2, ClosedNext DEF TypeOK, Secret
    <3>2. \A s \in remote : \E r \in remote' : r.ext = s.ext
      BY <1>1, <1>4, RotatedRows
    <3> QED
      BY <1>1, <3>1, <3>2 DEF CredentialInv, StoredHasTunnel, Closed
  <2>7. StoredCredentialIsLive'
    BY <1>1, <2>1, <2>2 DEF CredentialInv, StoredCredentialIsLive
  <2> QED
    BY <2>4, <2>5, <2>6, <2>7 DEF CredentialInv
<1> QED
  BY <1>3, <1>4 DEF CallRotateToken

\* What is stored is what the create or the rotation returned.
LEMMA CredentialWriteSecret ==
    ASSUME OrphanInv, CredentialInv, OrphanInv', Next, WriteSecret
    PROVE  CredentialInv' /\ TokensKept
<1>1. UNCHANGED <<remote, obj, cache, uids>> /\ pc = "writeSecret"
  BY DEF WriteSecret, platform, outside
<1>2. TypeOK' /\ TypeOK
  BY DEF OrphanInv, GuardInv
<1>3. TokensKept
  BY <1>1, TokensSame
<1>4. pc' \in {"ensureDeployment", "finish"}
  BY DEF WriteSecret, Fail
<1>5. HoldingKept /\ pc' # "writeSecret" /\ pc' \notin {"getCreated", "writeSecret"}
  BY <1>4 DEF HoldingKept, Holding
<1>6. CASE secret' = secret
  BY <1>2, <1>3, <1>5, <1>6, CredentialFrame
<1>7. CASE PutSecret
  <2>1. secret'.owner = t.uid /\ secret'.token = loc.token
    BY <1>7 DEF PutSecret
  <2>2. loc.token # None /\ \A r \in remote : r.ext = t.uid => r.token = loc.token
    BY <1>1 DEF CredentialInv, HeldIsLive
  <2>3. \E r \in remote : r.ext = t.uid
    BY <1>1 DEF OrphanInv, LocalKnown
  <2>4. NothingStored' /\ HeldIsLive'
    BY <1>4 DEF NothingStored, HeldIsLive, Holding
  <2>5. StoredHasTunnel'
    BY <1>1, <2>1, <2>3 DEF StoredHasTunnel
  <2>6. StoredCredentialIsLive'
    BY <1>1, <2>1, <2>2 DEF StoredCredentialIsLive
  <2> QED
    BY <1>3, <2>4, <2>5, <2>6 DEF CredentialInv
<1> QED
  BY <1>6, <1>7 DEF WriteSecret

\* The delete is of an object that gets no other tunnel.
LEMMA CredentialDelete ==
    ASSUME OrphanInv, CredentialInv, OrphanInv', Next, CallDeleteTunnel
    PROVE  CredentialInv' /\ TokensKept
<1>1. UNCHANGED secret /\ pc = "deleteTunnel"
  BY DEF CallDeleteTunnel, api
<1>2. TypeOK' /\ TypeOK
  BY DEF OrphanInv, GuardInv
<1>3. pc' \in {"idle", "removeFinalizer"}
  BY DEF CallDeleteTunnel, Return
<1>4. HoldingKept /\ pc' # "writeSecret" /\ pc' \notin {"getCreated", "writeSecret"}
  BY <1>3 DEF HoldingKept, Holding
<1>5. TokensKept
  <2>1. CASE remote' = remote
    BY <2>1, TokensSame
  <2>2. CASE remote' = DeleteTunnel(remote, loc.acct, loc.id)
    <3>1. Closed(t.uid) /\ t.uid \in Nat /\ t.uid # None
      BY <1>1, <1>2 DEF OrphanInv, Deleting, DeletePath, GuardInv, Working, TypeOK, Tunnel
    <3>2. \A u \in Nat : u # None /\ Closed(u) => Closed(u)'
      BY <1>2, ClosedNext
    <3>3. \A s \in remote : s \in remote' \/ s.ext = t.uid
      BY <1>1, <2>2 DEF DeleteTunnel, GetTunnel, OrphanInv, Deleting
    <3>4. \A s \in remote : s \in remote' \/ Closed(s.ext)'
      <4> SUFFICES ASSUME NEW s \in remote, s \notin remote' PROVE Closed(s.ext)'
        OBVIOUS
      <4>1. s.ext = t.uid
        BY <3>3
      <4>2. PICK u \in Nat : u = s.ext /\ Closed(u)'
        BY <3>1, <3>2, <4>1
      <4> QED
        BY <4>2 DEF Closed
    <3> QED
      BY <2>2, <3>4 DEF TokensKept, DeleteTunnel
  <2> QED
    BY <2>1, <2>2 DEF CallDeleteTunnel
<1> QED
  BY <1>1, <1>2, <1>4, <1>5, CredentialFrame

-----------------------------------------------------------------------------

LiveInv == OrphanInv /\ CredentialInv

\* What a step may do to a token.
Rotation ==
    \A r \in remote : \A s \in remote' :
        r.id = s.id /\ r.token # s.token
            => ~(secret.owner = r.ext /\ secret.token # None)

\* The stored token is that of every row of its object, so a row that kept its
\* token was not rotated under it.
LEMMA KeptIsNoRotation ==
    ASSUME LiveInv,
           \A s \in remote' : s.id = issued + 1 \/
              \E q \in remote : q.id = s.id /\ q.token = s.token
    PROVE  Rotation
<1> SUFFICES ASSUME NEW r \in remote, NEW s \in remote', r.id = s.id, r.token # s.token,
                    secret.owner = r.ext, secret.token # None
             PROVE  FALSE
  BY DEF Rotation
<1>1. r.id # issued + 1
  <2>1. r.id <= issued /\ r.id \in Nat /\ issued \in Nat
    BY DEF LiveInv, OrphanInv, Distinct, GuardInv, TypeOK, TunnelRow
  <2> QED
    BY <2>1
<1>2. PICK q \in remote : q.id = s.id /\ q.token = s.token
  BY <1>1
<1>3. q.ext = r.ext
  BY <1>2 DEF LiveInv, OrphanInv, Distinct
<1> QED
  BY <1>2, <1>3 DEF LiveInv, CredentialInv, StoredCredentialIsLive

LEMMA LiveNext ==
    ASSUME ~PanelDeletes, ~LateCreates, ~BareNotFounds, ~StaleSecrets,
           SeesAll, LiveInv, [Next]_vars
    PROVE  LiveInv' /\ (Rotation \/ UNCHANGED vars)
<1>1. OrphanInv /\ CredentialInv /\ OrphanInv'
  BY OrphanNext DEF LiveInv
<1>2. TypeOK'
  BY <1>1 DEF OrphanInv, GuardInv
<1>3. CASE UNCHANGED vars
  <2>1. NothingStored' /\ HeldIsLive' /\ StoredCredentialIsLive'
    BY <1>1, <1>3 DEF vars, CredentialInv, NothingStored, HeldIsLive, Holding, StoredCredentialIsLive
  <2>2. StoredHasTunnel'
    BY <1>1, <1>3 DEF vars, CredentialInv, StoredHasTunnel, Closed
  <2> QED
    BY <1>1, <1>3, <2>1, <2>2 DEF LiveInv, CredentialInv
<1>4. CASE Next /\ ~CallCreateTunnel /\ ~CallRotateToken
  <2>1. CredentialInv' /\ TokensKept
    <3>1. CASE Worker
      BY <1>1, <1>2, <1>4, <3>1, CredentialQuiet, CredentialCheckSecret, CredentialWriteSecret,
         CredentialDelete DEF Worker
    <3>2. CASE ~Worker
      BY <1>1, <1>2, <1>4, <3>2, CredentialOutside
    <3> QED
      BY <3>1, <3>2
  <2>2. Rotation
    BY <2>1, KeptIsNoRotation DEF TokensKept
  <2> QED
    BY <1>1, <2>1, <2>2 DEF LiveInv
<1>5. CASE Next /\ CallCreateTunnel
  <2>1. CredentialInv' /\ \A s \in remote' : s \in remote \/ s.id = issued + 1
    BY <1>1, <1>5, CredentialCreate
  <2>2. Rotation
    BY <2>1, KeptIsNoRotation
  <2> QED
    BY <1>1, <2>1, <2>2 DEF LiveInv
<1>6. CASE Next /\ CallRotateToken
  <2>1. CredentialInv'
    BY <1>1, <1>6, CredentialRotate
  <2>2. Rotation
    <3>1. CASE remote' = remote
      BY <3>1, KeptIsNoRotation
    <3>2. CASE remote' # remote
      <4>1. pc = "rotateToken" /\ remote' = RotateToken(remote, loc.acct, loc.id, issued + 1)
        BY <1>6, <3>2 DEF CallRotateToken
      <4> SUFFICES ASSUME NEW r \in remote, NEW s \in remote', r.id = s.id, r.token # s.token,
                          secret.owner = r.ext, secret.token # None
                   PROVE  FALSE
        BY DEF Rotation
      <4>2. PICK q \in remote : q.id = s.id /\ q.ext = s.ext /\ (s.ext # t.uid => s.token = q.token)
        BY <1>1, <4>1, RotatedRows
      <4>3. q.ext = r.ext
        BY <1>1, <4>2 DEF OrphanInv, Distinct
      <4>4. CASE r.ext = t.uid
        BY <1>1, <4>1, <4>4 DEF CredentialInv, NothingStored, Holding
      <4>5. CASE r.ext # t.uid
        BY <1>1, <4>2, <4>3, <4>5 DEF CredentialInv, StoredCredentialIsLive
      <4> QED
        BY <4>4, <4>5
    <3> QED
      BY <3>1, <3>2
  <2> QED
    BY <1>1, <2>1, <2>2 DEF LiveInv
<1> QED
  BY <1>3, <1>4, <1>5, <1>6

LEMMA LiveInit == Init => LiveInv
<1> SUFFICES ASSUME Init PROVE LiveInv OBVIOUS
<1>1. OrphanInv
  BY OrphanInit
<1> QED
  BY <1>1 DEF Init, LiveInv, CredentialInv, NothingStored, HeldIsLive, Holding, StoredHasTunnel,
              StoredCredentialIsLive, NoSecret

\* A token in the Secret is the one the platform accepts for the tunnel of its
\* object: a lost answer of a create or a rotation, a failed write, a restart in
\* between or a Secret of an earlier object never leaves a dead one stored.  Next
\* to the hypotheses of NoOrphans, the cached client must not lag on the Secret:
\* with StaleSecrets, TLC has a counterexample.
THEOREM StoredIsLive ==
    ASSUME OneAccount, ~PanelDeletes, ~LateCreates, ~BareNotFounds, ~StaleSecrets
    PROVE  Spec => []StoredCredentialIsLive
<1>1. SeesAll /\ LiveInv /\ [Next]_vars => LiveInv'
  BY LiveNext
<1>2. LiveInv => StoredCredentialIsLive
  BY DEF LiveInv, CredentialInv
<1> QED
  BY <1>1, <1>2, LiveInit, AlwaysSeesAll, PTL DEF Spec

\* No step takes the credential of a running agent away: the platform changes the
\* token of a tunnel only while the Secret of its object holds none.
THEOREM RotationIsSafe ==
    ASSUME OneAccount, ~PanelDeletes, ~LateCreates, ~BareNotFounds, ~StaleSecrets
    PROVE  Spec => RotationOnlyWhenNothingStored
<1>1. SeesAll /\ LiveInv /\ [Next]_vars => LiveInv'
  BY LiveNext
<1>2. SeesAll /\ LiveInv /\ [Next]_vars => [Rotation]_vars
  BY LiveNext
<1>3. Spec => [][Rotation]_vars
  BY <1>1, <1>2, LiveInit, AlwaysSeesAll, PTL DEF Spec
<1> QED
  BY <1>3 DEF RotationOnlyWhenNothingStored, Rotation
=============================================================================
