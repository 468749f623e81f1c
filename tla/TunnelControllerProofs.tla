----------------------- MODULE TunnelControllerProofs -----------------------
(***************************************************************************)
(* Theorems about TunnelController, for every value of its constants.      *)
(***************************************************************************)
EXTENDS TunnelController, TLAPS

USE DEF None, SetSynced, SetAgentAvailable, SetReady

-----------------------------------------------------------------------------
(* Types *)

LEMMA NoTunnelType == NoTunnel \in Tunnel
BY DEF NoTunnel, Tunnel

LEMMA NoLocalsType == NoLocals \in Locals
BY DEF NoLocals, Locals

LEMMA NoDepType == NoDep \in Deployment
BY DEF NoDep, Deployment

LEMMA NoPodType == NoPod \in Pod
BY NoDepType DEF NoPod, Pod

LEMMA NoSecretType == ASSUME NEW rv \in Nat PROVE NoSecret(rv) \in Secret
BY DEF NoSecret, Secret

LEMMA WithStatusType ==
    ASSUME NEW o \in Tunnel, NEW new \in Tunnel
    PROVE  WithStatus(o, new) \in Tunnel
BY DEF WithStatus, Tunnel

LEMMA UpdateStatusType ==
    ASSUME TypeOK, NEW new \in Tunnel, UpdateStatus(new)
    PROVE  obj' \in Tunnel /\ rev' \in Nat
<1>1. WithStatus(obj, new) \in Tunnel
  BY WithStatusType DEF TypeOK
<1>2. [WithStatus(obj, new) EXCEPT !.rv = rev + 1] \in Tunnel
  BY <1>1 DEF TypeOK, Tunnel
<1> QED
  BY <1>2 DEF UpdateStatus, TypeOK

\* The writes of the metadata keep the type of a Tunnel.
LEMMA MetadataType ==
    ASSUME NEW o \in Tunnel, NEW n \in Nat, NEW m \in Nat, NEW b \in BOOLEAN
    PROVE  /\ [o EXCEPT !.fin = b, !.rv = n] \in Tunnel
           /\ [o EXCEPT !.deleting = TRUE, !.other = b, !.rv = n] \in Tunnel
           /\ [o EXCEPT !.other = b, !.rv = n] \in Tunnel
           /\ [o EXCEPT !.gen = m, !.rv = n] \in Tunnel
           /\ [NoTunnel EXCEPT !.uid = m, !.rv = n, !.gen = 1] \in Tunnel
BY NoTunnelType DEF Tunnel

LEMMA Successors ==
    ASSUME TypeOK
    PROVE  /\ rev + 1 \in Nat /\ uids + 1 \in Nat /\ obj.gen + 1 \in Nat
           /\ secret.rv + 1 \in Nat /\ issued + 1 \in Nat \ {0}
BY DEF TypeOK, Tunnel, Secret

\* What a failed call leaves.
LEMMA FailType ==
    ASSUME TypeOK, NEW new \in Tunnel, NEW permanent \in BOOLEAN, Fail(new, permanent)
    PROVE  t' \in Tunnel /\ loc' \in Locals /\ pc' \in Labels
<1>1. SetSynced(new, FALSE) \in Tunnel
  BY DEF Tunnel
<1>2. SetReady(SetSynced(new, FALSE), FALSE) \in Tunnel
  BY <1>1 DEF Tunnel
<1> QED
  BY <1>2 DEF Fail, TypeOK, Locals, Labels

LEMMA ReturnType ==
    ASSUME NEW q, Return(q)
    PROVE  t' \in Tunnel /\ loc' \in Locals /\ pc' \in Labels /\ queue' = q
BY NoTunnelType, NoLocalsType DEF Return, Labels

LEMMA DisturbType == ASSUME TypeOK, Disturb \/ Edit PROVE budget' \in Budget
BY DEF Disturb, Edit, TypeOK, Budget

\* What Classify says of an error is yes or no.
LEMMA VerdictsType == Verdicts \subseteq BOOLEAN
BY DEF Verdicts, Classify

LEMMA RefusedType ==
    ASSUME TypeOK, Refused
    PROVE  t' \in Tunnel /\ loc' \in Locals /\ pc' \in Labels /\ queue' = queue /\ budget' \in Budget
BY FailType, DisturbType, VerdictsType DEF Refused, TypeOK

LEMMA AnswerLostType ==
    ASSUME TypeOK, AnswerLost
    PROVE  t' \in Tunnel /\ loc' \in Locals /\ pc' \in Labels /\ queue' = queue /\ budget' \in Budget
BY FailType, DisturbType DEF AnswerLost, TypeOK

LEMMA QueueType ==
    ASSUME TypeOK, NEW owner
    PROVE  /\ Later \in SUBSET {"now", "later"}
           /\ queue \cup EnqueueOwner(owner) \in SUBSET {"now", "later"}
           /\ queue \cup SecretEvent(owner) \in SUBSET {"now", "later"}
BY DEF TypeOK, Later, EnqueueOwner, SecretEvent

LEMMA CreateTunnelType ==
    ASSUME NEW tunnels \in SUBSET TunnelRow, NEW acct \in Nat, NEW ext \in Nat,
           NEW fresh \in Nat \ {0}
    PROVE  /\ CreateTunnel(tunnels, acct, ext, fresh) \in SUBSET TunnelRow
           /\ \A c \in CreateTunnelResult(tunnels, acct, ext, fresh) : c.id \in Nat /\ c.token \in Nat
<1>1. CreateTunnel(tunnels, acct, ext, fresh) \in SUBSET TunnelRow
  <2>1. [acct |-> acct, id |-> fresh, ext |-> ext, token |-> fresh, online |-> FALSE] \in TunnelRow
    BY DEF TunnelRow
  <2> QED
    BY <2>1 DEF CreateTunnel
<1>2. \A c \in CreateTunnelResult(tunnels, acct, ext, fresh) : c.id \in Nat /\ c.token \in Nat
  BY DEF CreateTunnelResult, FindTunnelByExternalID, TunnelRow
<1> QED
  BY <1>1, <1>2

LEMMA RotateTokenType ==
    ASSUME NEW tunnels \in SUBSET TunnelRow, NEW acct, NEW id, NEW fresh \in Nat \ {0}
    PROVE  RotateToken(tunnels, acct, id, fresh) \in SUBSET TunnelRow
BY DEF RotateToken, GetTunnel, TunnelRow

-----------------------------------------------------------------------------

LEMMA TypeInit == Init => TypeOK
BY NoTunnelType, NoLocalsType, NoDepType, NoPodType, NoSecretType, ConstantsAssumption
   DEF Init, TypeOK, Labels, Budget

LEMMA TypeReconcile == TypeOK /\ Reconcile => TypeOK'
<1> SUFFICES ASSUME TypeOK, Reconcile PROVE TypeOK' OBVIOUS
<1>1. pc' \in Labels
  BY DEF Reconcile, Dispatch, DispatchDelete, Labels
<1>2. t' \in Tunnel /\ loc' \in Locals
  BY NoTunnelType, NoLocalsType DEF Reconcile, TypeOK
<1>3. queue' \in SUBSET {"now", "later"}
  BY DEF Reconcile, TypeOK
<1> QED
  BY <1>1, <1>2, <1>3 DEF Reconcile, TypeOK, api, platform, outside

LEMMA TypeAddFinalizer == TypeOK /\ AddFinalizer => TypeOK'
<1> SUFFICES ASSUME TypeOK, AddFinalizer PROVE TypeOK' OBVIOUS
<1>1. obj' \in Tunnel /\ rev' \in Nat
  <2>1. [obj EXCEPT !.fin = TRUE, !.rv = rev + 1] \in Tunnel
    BY MetadataType, Successors DEF TypeOK
  <2> QED
    BY <2>1, Successors DEF AddFinalizer, TypeOK
<1>2. /\ t' \in Tunnel /\ loc' \in Locals /\ pc' \in Labels /\ budget' \in Budget
      /\ queue' \in SUBSET {"now", "later"}
  BY <1>1, ReturnType, DisturbType, QueueType DEF AddFinalizer, TypeOK, Labels
<1> QED
  BY <1>1, <1>2 DEF AddFinalizer, TypeOK, platform, outside

\* An account is a number.
LEMMA CredType == TypeOK => cred \in Nat
BY ConstantsAssumption DEF TypeOK, Credentials

LEMMA TypeClientFor == TypeOK /\ ClientFor => TypeOK'
BY CredType DEF ClientFor, AfterClient, BeforeCreate, TypeOK, Tunnel, Locals, Labels, api,
                platform, outside

LEMMA TypeReadTunnel == TypeOK /\ ReadTunnel => TypeOK'
<1> SUFFICES ASSUME TypeOK, ReadTunnel PROVE TypeOK' OBVIOUS
<1>1. loc' \in Locals /\ t' \in Tunnel /\ queue' = queue /\ budget' \in Budget
  <2>1. CASE Refused
    BY <2>1, RefusedType
  <2>2. CASE ~Refused
    BY <2>2, DisturbType DEF ReadTunnel, BareNotFound, GetTunnel, TypeOK, TunnelRow, Locals
  <2> QED
    BY <2>1, <2>2
<1>2. pc' \in Labels
  BY RefusedType DEF ReadTunnel, BeforeCreate, Labels
<1> QED
  BY <1>1, <1>2 DEF ReadTunnel, TypeOK, api, platform, outside

LEMMA TypeRecordExternalID == TypeOK /\ RecordExternalID => TypeOK'
<1> SUFFICES ASSUME TypeOK, RecordExternalID PROVE TypeOK' OBVIOUS
<1> DEFINE new == [t EXCEPT !.ext = t.uid]
<1>1. new \in Tunnel
  BY DEF TypeOK, Tunnel
<1>2. obj' \in Tunnel /\ rev' \in Nat
  BY <1>1, UpdateStatusType DEF RecordExternalID, TypeOK
<1>3. t' \in Tunnel /\ loc' \in Locals /\ pc' \in Labels /\ queue' = queue /\ budget' \in Budget
  BY <1>1, <1>2, FailType, DisturbType DEF RecordExternalID, TypeOK, Labels
<1> QED
  BY <1>2, <1>3 DEF RecordExternalID, TypeOK, platform, outside

LEMMA TypeCallCreateTunnel == TypeOK /\ CallCreateTunnel => TypeOK'
<1> SUFFICES ASSUME TypeOK, CallCreateTunnel PROVE TypeOK' OBVIOUS
<1>1. t.uid \in Nat /\ loc.acct \in Nat /\ issued + 1 \in Nat \ {0}
  BY DEF TypeOK, Tunnel, Locals
<1>2. remote' \in SUBSET TunnelRow /\ issued' \in Nat /\ inflight' \in SUBSET Create
  <2>1. remote' \in SUBSET TunnelRow /\ issued' \in Nat
    BY <1>1, CreateTunnelType DEF CallCreateTunnel, TypeOK, platform
  <2>2. [acct |-> loc.acct, ext |-> t.uid] \in Create
    BY <1>1 DEF Create
  <2>3. \/ inflight' = inflight
        \/ inflight' = inflight \cup {[acct |-> loc.acct, ext |-> t.uid]}
    BY DEF CallCreateTunnel, platform
  <2> QED
    BY <2>1, <2>2, <2>3 DEF TypeOK
<1>3. t' \in Tunnel /\ loc' \in Locals /\ pc' \in Labels /\ queue' = queue /\ budget' \in Budget
  <2>1. CASE Refused \/ AnswerLost
    BY <2>1, RefusedType, AnswerLostType
  <2>2. CASE ~(Refused \/ AnswerLost)
    <3>1. PICK c \in CreateTunnelResult(remote, loc.acct, t.uid, issued + 1) :
                 loc' = [loc EXCEPT !.id = c.id, !.token = c.token]
      BY <2>2 DEF CallCreateTunnel
    <3>2. c.id \in Nat /\ c.token \in Nat
      BY <1>1, CreateTunnelType DEF TypeOK
    <3>3. loc' \in Locals
      BY <3>1, <3>2 DEF TypeOK, Locals
    <3> QED
      BY <2>2, <3>3 DEF CallCreateTunnel, TypeOK, Labels
  <2> QED
    BY <2>1, <2>2
<1> QED
  BY <1>2, <1>3 DEF CallCreateTunnel, TypeOK, api, outside

LEMMA TypeReadCreated == TypeOK /\ ReadCreated => TypeOK'
<1> SUFFICES ASSUME TypeOK, ReadCreated PROVE TypeOK' OBVIOUS
<1>1. t' \in Tunnel /\ loc' \in Locals /\ pc' \in Labels /\ queue' = queue /\ budget' \in Budget
  BY RefusedType, FailType DEF ReadCreated, GetTunnel, TypeOK, TunnelRow, Locals, Labels
<1> QED
  BY <1>1 DEF ReadCreated, TypeOK, api, platform, outside

LEMMA TypeCheckSecret == TypeOK /\ CheckSecret => TypeOK'
BY DEF CheckSecret, SecretSeen, TypeOK, Locals, Labels, Secret, api, platform, outside

LEMMA TypeCallRotateToken == TypeOK /\ CallRotateToken => TypeOK'
<1> SUFFICES ASSUME TypeOK, CallRotateToken PROVE TypeOK' OBVIOUS
<1>1. loc.id \in Nat /\ issued + 1 \in Nat \ {0}
  BY DEF TypeOK, Locals
<1>2. remote' \in SUBSET TunnelRow /\ issued' \in Nat
  BY <1>1, RotateTokenType DEF CallRotateToken, TypeOK
<1>3. t' \in Tunnel /\ loc' \in Locals /\ pc' \in Labels /\ queue' = queue /\ budget' \in Budget
  BY <1>1, RefusedType, AnswerLostType, FailType DEF CallRotateToken, TypeOK, Locals, Labels
<1> QED
  BY <1>2, <1>3 DEF CallRotateToken, TypeOK, api, outside

LEMMA TypeWriteSecret == TypeOK /\ WriteSecret => TypeOK'
<1> SUFFICES ASSUME TypeOK, WriteSecret PROVE TypeOK' OBVIOUS
<1>1. secret' \in Secret
  <2>1. [owner |-> t.uid, token |-> loc.token, rv |-> secret.rv + 1] \in Secret
    BY DEF TypeOK, Secret, Tunnel, Locals
  <2> QED
    BY <2>1 DEF WriteSecret, PutSecret, TypeOK
<1>2. queue' \in SUBSET {"now", "later"}
  BY QueueType DEF WriteSecret, TypeOK
<1>3. t' \in Tunnel /\ loc' \in Locals /\ pc' \in Labels /\ budget' \in Budget
  <2>1. [loc EXCEPT !.ver = secret.rv + 1] \in Locals
    BY DEF TypeOK, Locals, Secret
  <2> QED
    BY <2>1, FailType, DisturbType DEF WriteSecret, TypeOK, Labels
<1> QED
  BY <1>1, <1>2, <1>3 DEF WriteSecret, TypeOK, platform, outside

LEMMA TypeEnsureDeployment == TypeOK /\ EnsureDeployment => TypeOK'
<1> SUFFICES ASSUME TypeOK, EnsureDeployment PROVE TypeOK' OBVIOUS
<1>1. dep' \in Deployment
  <2>1. MutateDeployment(dep, BuildAgentDeployment(t, loc.ver)) \in Deployment
    BY DEF MutateDeployment, BuildAgentDeployment, TypeOK, Deployment, Tunnel, Locals
  <2> QED
    BY <2>1 DEF EnsureDeployment, TypeOK
<1>2. Synced(t) \in Tunnel
  BY DEF Synced, AvailableReplicas, TypeOK, Tunnel, Locals, Pod
<1>3. queue' \in SUBSET {"now", "later"}
  BY QueueType, ReturnType DEF EnsureDeployment, TypeOK
<1>4. t' \in Tunnel /\ loc' \in Locals /\ pc' \in Labels /\ budget' \in Budget
  BY <1>2, ReturnType, DisturbType DEF EnsureDeployment, TypeOK, Labels
<1> QED
  BY <1>1, <1>3, <1>4 DEF EnsureDeployment, TypeOK, platform, outside

LEMMA TypeFinish == TypeOK /\ Finish => TypeOK'
<1> SUFFICES ASSUME TypeOK, Finish PROVE TypeOK' OBVIOUS
<1> DEFINE new == [t EXCEPT !.obs = t.gen]
<1>1. new \in Tunnel
  BY DEF TypeOK, Tunnel
<1>2. obj' \in Tunnel /\ rev' \in Nat
  BY <1>1, UpdateStatusType DEF Finish, TypeOK
<1>3. /\ t' \in Tunnel /\ loc' \in Locals /\ pc' \in Labels /\ budget' \in Budget
      /\ queue' \in SUBSET {"now", "later"}
  BY ReturnType, DisturbType, QueueType DEF Finish, TypeOK
<1> QED
  BY <1>2, <1>3 DEF Finish, TypeOK, platform, outside

LEMMA TypeDeletePath ==
    TypeOK /\ (DeleteClientFor \/ CallFindTunnel \/ CallDeleteTunnel \/ RemoveFinalizer) => TypeOK'
<1> SUFFICES ASSUME TypeOK,
                    DeleteClientFor \/ CallFindTunnel \/ CallDeleteTunnel \/ RemoveFinalizer
             PROVE  TypeOK'
  OBVIOUS
<1>1. CASE DeleteClientFor
  <2>1. [loc EXCEPT !.acct = cred, !.id = t.tid] \in Locals
    BY CredType DEF TypeOK, Locals, Tunnel
  <2>2. /\ t' \in Tunnel /\ loc' \in Locals /\ pc' \in Labels
        /\ queue' \in SUBSET {"now", "later"}
    BY <1>1, <2>1, ReturnType, QueueType DEF DeleteClientFor, AfterDeleteClient, TypeOK, Labels
  <2> QED
    BY <1>1, <2>2 DEF DeleteClientFor, TypeOK, api, platform, outside
<1>2. CASE CallFindTunnel
  <2>1. /\ t' \in Tunnel /\ loc' \in Locals /\ pc' \in Labels /\ budget' \in Budget
        /\ queue' \in SUBSET {"now", "later"}
    BY <1>2, ReturnType, QueueType, DisturbType
       DEF CallFindTunnel, FindTunnelByExternalID, TypeOK, Locals, Labels, TunnelRow
  <2> QED
    BY <1>2, <2>1 DEF CallFindTunnel, TypeOK, api, platform, outside
<1>3. CASE CallDeleteTunnel
  <2>1. /\ t' \in Tunnel /\ loc' \in Locals /\ pc' \in Labels /\ budget' \in Budget
        /\ queue' \in SUBSET {"now", "later"}
    BY <1>3, ReturnType, QueueType, DisturbType DEF CallDeleteTunnel, BareNotFound, TypeOK, Labels
  <2>2. remote' \in SUBSET TunnelRow
    BY <1>3 DEF CallDeleteTunnel, DeleteTunnel, TypeOK
  <2> QED
    BY <1>3, <2>1, <2>2 DEF CallDeleteTunnel, TypeOK, api, outside
<1>4. CASE RemoveFinalizer
  <2>1. /\ t' \in Tunnel /\ loc' \in Locals /\ pc' \in Labels /\ budget' \in Budget
        /\ queue' \in SUBSET {"now", "later"}
    BY <1>4, ReturnType, QueueType, DisturbType DEF RemoveFinalizer, TypeOK
  <2>2. obj' \in Tunnel /\ rev' \in Nat
    <3>1. WithoutFinalizer(obj, rev + 1) \in Tunnel
      BY NoTunnelType, MetadataType, Successors DEF WithoutFinalizer, TypeOK
    <3> QED
      BY <1>4, <3>1, Successors DEF RemoveFinalizer, TypeOK
  <2> QED
    BY <1>4, <2>1, <2>2 DEF RemoveFinalizer, TypeOK, platform, outside
<1> QED
  BY <1>1, <1>2, <1>3, <1>4

\* The steps of the users and of the platform.
LEMMA TypeUsers ==
    TypeOK /\ (\/ UserCreate \/ UserDelete \/ ReleaseOther \/ UserEdit \/ UserSpoilsSecret
              \/ UserChangesCredential \/ PanelDelete \/ LateCreate) => TypeOK'
<1> SUFFICES ASSUME TypeOK,
                    \/ UserCreate \/ UserDelete \/ ReleaseOther \/ UserEdit \/ UserSpoilsSecret
                    \/ UserChangesCredential \/ PanelDelete \/ LateCreate
             PROVE  TypeOK'
  OBVIOUS
<1>1. CASE UserCreate \/ UserDelete \/ ReleaseOther \/ UserEdit
  <2>1. obj' \in Tunnel /\ rev' \in Nat /\ uids' \in Nat /\ budget' \in Budget
    <3>1. /\ [NoTunnel EXCEPT !.uid = uids + 1, !.rv = rev + 1, !.gen = 1] \in Tunnel
          /\ \A other \in BOOLEAN :
                [obj EXCEPT !.deleting = TRUE, !.other = other, !.rv = rev + 1] \in Tunnel
          /\ [obj EXCEPT !.other = FALSE, !.rv = rev + 1] \in Tunnel
          /\ [obj EXCEPT !.gen = obj.gen + 1, !.rv = rev + 1] \in Tunnel
      BY MetadataType, Successors DEF TypeOK
    <3> QED
      BY <1>1, <3>1, NoTunnelType, DisturbType, Successors
         DEF UserCreate, UserDelete, ReleaseOther, UserEdit, TypeOK
  <2> QED
    BY <1>1, <2>1 DEF UserCreate, UserDelete, ReleaseOther, UserEdit, TypeOK,
                      informer, worker, platform, Credentials
<1>2. CASE UserSpoilsSecret
  <2>1. secret' \in Secret
    <3>1. ASSUME NEW n \in Nat PROVE [secret EXCEPT !.token = None, !.rv = n] \in Secret
      BY DEF TypeOK, Secret
    <3> QED
      BY <1>2, <3>1, NoSecretType, Successors DEF UserSpoilsSecret
  <2> QED
    BY <1>2, <2>1, QueueType, DisturbType DEF UserSpoilsSecret, TypeOK, informer, worker, platform
<1>3. CASE UserChangesCredential
  <2>1. cred' \in Credentials
    BY <1>3, Zenon DEF UserChangesCredential, TypeOK
  <2> QED
    BY <1>3, <2>1, QueueType, DisturbType
       DEF UserChangesCredential, TypeOK, api, informer, worker, platform
<1>4. CASE PanelDelete
  BY <1>4, DisturbType DEF PanelDelete, TypeOK, api, informer, worker
<1>5. CASE LateCreate
  <2>1. remote' \in SUBSET TunnelRow /\ inflight' \in SUBSET Create /\ issued' \in Nat
    <3>1. issued + 1 \in Nat \ {0}
      BY DEF TypeOK
    <3> QED
      BY <1>5, <3>1, CreateTunnelType DEF LateCreate, TypeOK, Create
  <2> QED
    BY <1>5, <2>1 DEF LateCreate, TypeOK, api, informer, worker
<1> QED
  BY <1>1, <1>2, <1>3, <1>4, <1>5

\* The steps of the cluster: watches, garbage collector, kubelet, agent, restart.
LEMMA TypeCluster ==
    TypeOK /\ (\/ Deliver \/ DeliverSecret \/ CollectSecret \/ CollectDeployment
              \/ PodStop \/ PodFail \/ PodStart \/ Handshake \/ Restart) => TypeOK'
<1> SUFFICES ASSUME TypeOK,
                    \/ Deliver \/ DeliverSecret \/ CollectSecret \/ CollectDeployment
                    \/ PodStop \/ PodFail \/ PodStart \/ Handshake \/ Restart
             PROVE  TypeOK'
  OBVIOUS
<1>1. CASE Deliver \/ DeliverSecret
  BY <1>1 DEF Deliver, DeliverSecret, EnqueueOwner, TypeOK, api, worker, platform
<1>2. CASE CollectSecret
  <2>1. secret' \in Secret
    BY <1>2, NoSecretType DEF CollectSecret, TypeOK, Secret
  <2> QED
    BY <1>2, <2>1, QueueType DEF CollectSecret, TypeOK, informer, worker, platform
<1>3. CASE CollectDeployment
  BY <1>3, NoDepType, QueueType DEF CollectDeployment, TypeOK, informer, worker, platform
<1>4. CASE PodStop \/ PodFail
  BY <1>4, NoPodType, QueueType, DisturbType DEF PodStop, PodFail, TypeOK, api, informer, worker, platform
<1>5. CASE PodStart
  <2>1. pod' \in Pod
    BY <1>5 DEF PodStart, TypeOK, Pod, Secret
  <2> QED
    BY <1>5, <2>1, QueueType DEF PodStart, TypeOK, api, informer, worker, platform
<1>6. CASE Handshake
  <2>1. remote' \in SUBSET TunnelRow
    <3>1. \A r \in remote :
             [r EXCEPT !.online = (pod.up /\ pod.token = r.token)] \in TunnelRow
      BY DEF TypeOK, TunnelRow, Pod
    <3> QED
      BY <1>6, <3>1 DEF Handshake
  <2> QED
    BY <1>6, <2>1 DEF Handshake, TypeOK, api, informer, worker
<1>7. CASE Restart
  BY <1>7, NoTunnelType, NoLocalsType, DisturbType DEF Restart, TypeOK, Labels, api, platform
<1> QED
  BY <1>1, <1>2, <1>3, <1>4, <1>5, <1>6, <1>7

LEMMA TypeNext == TypeOK /\ [Next]_vars => TypeOK'
<1> SUFFICES ASSUME TypeOK, [Next]_vars PROVE TypeOK' OBVIOUS
<1>1. CASE Worker
  BY <1>1, TypeReconcile, TypeAddFinalizer, TypeClientFor, TypeReadTunnel, TypeRecordExternalID,
     TypeCallCreateTunnel, TypeReadCreated, TypeCheckSecret, TypeCallRotateToken, TypeWriteSecret,
     TypeEnsureDeployment, TypeFinish, TypeDeletePath
     DEF Worker
<1>2. CASE UNCHANGED vars
  BY <1>2 DEF vars, TypeOK
<1> QED
  BY <1>1, <1>2, TypeUsers, TypeCluster DEF Next

\* Every variable keeps its type through every call, fault, edit and restart.
THEOREM TypeCorrect == Spec => []TypeOK
BY TypeInit, TypeNext, PTL DEF Spec
-----------------------------------------------------------------------------
(* The inductive invariant behind FinalizerGuardsRemote *)

DeletePath == {"deleteClientFor", "findTunnel", "deleteTunnel", "removeFinalizer"}

\* Versions and uids never run ahead of their counters, and a version read
\* again is the same object.
Versions ==
    /\ obj.uid <= uids /\ obj.rv <= rev
    /\ obj.uid = None => obj = NoTunnel
    /\ obj.uid # None => obj.rv > 0
    /\ cache.uid <= uids /\ cache.rv <= rev
    /\ cache.uid = None => cache = NoTunnel
    /\ cache.uid # None => cache.rv > 0
    /\ cache.rv = obj.rv => cache = obj

\* The cache is behind the object, never ahead of it.
CacheBehind ==
    cache.uid = obj.uid =>
        /\ cache.deleting => obj.deleting
        /\ cache.ext # None => obj.ext # None
        /\ cache.fin /\ ~obj.deleting => obj.fin

\* The reconcile's copy is some version of an object; while that version is the
\* current one, the two agree on what decides the path taken.
Working ==
    pc # "idle" =>
        /\ t.uid # None /\ t.uid <= uids
        /\ t.rv > 0 /\ t.rv <= rev
        /\ pc # "addFinalizer" => t.fin
        /\ pc = "createTunnel" => t.ext # None
        /\ pc \in DeletePath => t.deleting
        /\ t.rv = obj.rv =>
              /\ t.uid = obj.uid /\ t.deleting = obj.deleting /\ t.fin = obj.fin
              /\ obj.ext # None => t.ext # None

\* What the copy says of the finalizer and, but for the last write of a failed
\* reconcile, of the external id is in the API server.
CopyBehind ==
    pc # "idle" /\ t.uid = obj.uid =>
        /\ t.fin /\ ~obj.deleting => obj.fin
        /\ pc # "finish" /\ t.ext # None => obj.ext # None

\* The uids the platform knows are those of objects that have existed, and as
\* long as such an object is not being deleted it is protected.
Guarded(u) ==
    /\ u # None /\ u <= uids
    /\ u = obj.uid /\ ~obj.deleting => obj.fin /\ obj.ext # None

GuardInv ==
    /\ TypeOK
    /\ Versions
    /\ CacheBehind
    /\ Working
    /\ CopyBehind
    /\ \A r \in remote : Guarded(r.ext)
    /\ \A e \in inflight : Guarded(e.ext)

\* How the object in the API server may change in one step.
Kept ==
    /\ obj.uid # None /\ obj'.uid = obj.uid
    /\ obj'.rv = rev + 1 /\ rev' = rev + 1 /\ uids' = uids
    /\ obj.deleting => obj'.deleting
    /\ obj.ext # None => obj'.ext # None
    /\ obj.fin /\ ~obj'.deleting => obj'.fin

Gone == obj' = NoTunnel /\ rev' = rev + 1 /\ uids' = uids

Born ==
    /\ obj.uid = None
    /\ obj'.uid = uids + 1 /\ uids' = uids + 1
    /\ obj'.rv = rev + 1 /\ rev' = rev + 1

ObjStep == UNCHANGED <<obj, rev, uids>> \/ Kept \/ Gone \/ Born

LEMMA GuardInit == Init => GuardInv
<1> SUFFICES ASSUME Init PROVE GuardInv OBVIOUS
<1>1. TypeOK
  BY TypeInit
<1> QED
  BY <1>1 DEF Init, GuardInv, Versions, CacheBehind, Working, CopyBehind, NoTunnel

\* What is guarded stays guarded, and the cache stays behind.
LEMMA FrameCache ==
    ASSUME GuardInv, TypeOK', ObjStep,
           cache' = cache \/ (cache' = obj /\ UNCHANGED <<obj, rev, uids>>)
    PROVE  Versions' /\ CacheBehind'
<1>1. CASE UNCHANGED <<obj, rev, uids>>
  BY <1>1 DEF GuardInv, Versions, CacheBehind
<1>2. CASE Kept /\ cache' = cache
  BY <1>2 DEF GuardInv, TypeOK, Tunnel, Kept, Versions, CacheBehind
<1>3. CASE Gone /\ cache' = cache
  BY <1>3 DEF GuardInv, TypeOK, Tunnel, Gone, Versions, CacheBehind, NoTunnel
<1>4. CASE Born /\ cache' = cache
  BY <1>4 DEF GuardInv, TypeOK, Tunnel, Born, Versions, CacheBehind
<1> QED
  BY <1>1, <1>2, <1>3, <1>4 DEF ObjStep

LEMMA FrameGuarded ==
    ASSUME GuardInv, TypeOK', ObjStep, NEW u \in Nat, Guarded(u)
    PROVE  Guarded(u)'
<1>1. CASE UNCHANGED <<obj, rev, uids>>
  BY <1>1 DEF Guarded
<1>2. CASE Kept
  BY <1>2 DEF Kept, Guarded
<1>3. CASE Gone
  BY <1>3 DEF Gone, Guarded, NoTunnel
<1>4. CASE Born
  BY <1>4 DEF GuardInv, TypeOK, Born, Guarded
<1> QED
  BY <1>1, <1>2, <1>3, <1>4 DEF ObjStep

\* The copy of a reconcile that goes on with it as it is.
SameCopy ==
    /\ t'.uid = t.uid /\ t'.rv = t.rv /\ t'.deleting = t.deleting
    /\ t'.fin = t.fin /\ t'.ext = t.ext

LEMMA FrameCopy ==
    ASSUME GuardInv, TypeOK', ObjStep, SameCopy,
           pc = "idle" => pc' = "idle",
           pc' # "idle" /\ pc' # "addFinalizer" => t.fin,
           pc' = "createTunnel" => t.ext # None,
           pc' \in DeletePath => t.deleting,
           pc = "finish" => pc' \in {"idle", "finish"}
    PROVE  Working' /\ CopyBehind'
<1>1. CASE UNCHANGED <<obj, rev, uids>>
  BY <1>1 DEF GuardInv, SameCopy, Working, CopyBehind
<1>2. CASE Kept
  BY <1>2 DEF GuardInv, TypeOK, Tunnel, Kept, SameCopy, Working, CopyBehind
<1>3. CASE Gone
  <2>1. obj'.uid = None /\ obj'.rv = 0 /\ rev' = rev + 1 /\ uids' = uids
    BY <1>3 DEF Gone, NoTunnel
  <2> QED
    BY <2>1 DEF GuardInv, TypeOK, Tunnel, SameCopy, Working, CopyBehind
<1>4. CASE Born
  BY <1>4 DEF GuardInv, TypeOK, Tunnel, Born, SameCopy, Working, CopyBehind
<1> QED
  BY <1>1, <1>2, <1>3, <1>4 DEF ObjStep

\* A step that leaves the reconcile alone.
LEMMA FrameIdle ==
    ASSUME GuardInv, TypeOK', ObjStep, UNCHANGED <<pc, t>>
    PROVE  Working' /\ CopyBehind'
<1>1. SameCopy
  BY DEF SameCopy
<1>2. /\ pc = "idle" => pc' = "idle"
      /\ pc' # "idle" /\ pc' # "addFinalizer" => t.fin
      /\ pc' = "createTunnel" => t.ext # None
      /\ pc' \in DeletePath => t.deleting
      /\ pc = "finish" => pc' \in {"idle", "finish"}
  BY DEF GuardInv, Working, DeletePath
<1> QED
  BY <1>1, <1>2, FrameCopy

\* A write of the status keeps the object and what is recorded in it.
LEMMA StatusObjStep ==
    ASSUME GuardInv, pc # "idle", uids' = uids, NEW new \in Tunnel,
           obj.ext # None => new.ext # None, UpdateStatus(new)
    PROVE  /\ ObjStep
           /\ obj'.uid = obj.uid /\ obj'.ext = new.ext /\ obj'.deleting = obj.deleting
           /\ obj'.fin = obj.fin /\ obj'.tid = new.tid
           /\ obj'.rv > 0 /\ obj'.rv <= rev'
<1>1. obj.uid # None
  BY DEF UpdateStatus, GuardInv, Versions, Working, TypeOK, Tunnel, NoTunnel
<1>2. CASE WithStatus(obj, new) = obj
  <2>1. new.ext = obj.ext /\ new.tid = obj.tid
    BY <1>2 DEF WithStatus, GuardInv, TypeOK, Tunnel
  <2> QED
    BY <1>1, <1>2, <2>1 DEF UpdateStatus, ObjStep, GuardInv, Versions
<1>3. CASE WithStatus(obj, new) # obj
  <2>1. obj' = [WithStatus(obj, new) EXCEPT !.rv = rev + 1] /\ rev' = rev + 1
    BY <1>3 DEF UpdateStatus
  <2>2. /\ obj'.uid = obj.uid /\ obj'.ext = new.ext /\ obj'.deleting = obj.deleting
        /\ obj'.fin = obj.fin /\ obj'.tid = new.tid /\ obj'.rv = rev + 1
    BY <2>1 DEF WithStatus, GuardInv, TypeOK, Tunnel
  <2> QED
    BY <1>1, <2>1, <2>2 DEF Kept, ObjStep, GuardInv, TypeOK
<1> QED
  BY <1>2, <1>3

\* The parts of GuardInv a step has to re-establish.
LEMMA GuardParts ==
    ASSUME GuardInv, TypeOK', ObjStep, Working', CopyBehind',
           cache' = cache \/ (cache' = obj /\ UNCHANGED <<obj, rev, uids>>),
           \A r \in remote' : (\E s \in remote : s.ext = r.ext) \/ Guarded(r.ext)',
           \A e \in inflight' : e \in inflight \/ Guarded(e.ext)'
    PROVE  GuardInv'
<1>1. Versions' /\ CacheBehind'
  BY FrameCache
<1>2. \A r \in remote' : Guarded(r.ext)'
  BY FrameGuarded DEF GuardInv, TypeOK, TunnelRow
<1>3. \A e \in inflight' : Guarded(e.ext)'
  BY FrameGuarded DEF GuardInv, TypeOK, Create
<1> QED
  BY <1>1, <1>2, <1>3 DEF GuardInv

\* The steps of the users, the panel and the wire.
LEMMA GuardUsers ==
    ASSUME GuardInv, TypeOK',
           \/ UserCreate \/ UserDelete \/ ReleaseOther \/ UserEdit \/ UserSpoilsSecret
           \/ UserChangesCredential \/ PanelDelete \/ LateCreate
    PROVE  GuardInv'
<1>1. UNCHANGED <<pc, t, cache>>
  BY DEF UserCreate, UserDelete, ReleaseOther, UserEdit, UserSpoilsSecret,
         UserChangesCredential, PanelDelete, LateCreate, worker, informer
<1>2. ObjStep
  <2>1. CASE UserCreate
    BY <2>1 DEF UserCreate, Exists, NoTunnel, ObjStep, Born
  <2>2. CASE UserDelete
    <3>1. PICK other \in BOOLEAN :
             obj' = IF obj.fin \/ other
                    THEN [obj EXCEPT !.deleting = TRUE, !.other = other, !.rv = rev + 1]
                    ELSE NoTunnel
      BY <2>2 DEF UserDelete
    <3> QED
      BY <2>2, <3>1 DEF UserDelete, Exists, ObjStep, Kept, Gone, GuardInv, TypeOK, Tunnel
  <2>3. CASE ReleaseOther
    BY <2>3 DEF ReleaseOther, ObjStep, Kept, Gone, GuardInv, TypeOK, Tunnel, Versions, NoTunnel
  <2>4. CASE UserEdit
    BY <2>4 DEF UserEdit, Exists, ObjStep, Kept, GuardInv, TypeOK, Tunnel
  <2>5. CASE UserSpoilsSecret \/ UserChangesCredential \/ PanelDelete \/ LateCreate
    BY <2>5 DEF UserSpoilsSecret, UserChangesCredential, PanelDelete, LateCreate, ObjStep, api
  <2> QED
    BY <2>1, <2>2, <2>3, <2>4, <2>5
<1>3. Working' /\ CopyBehind'
  BY <1>1, <1>2, FrameIdle
<1>4. /\ \A r \in remote' : (\E s \in remote : s.ext = r.ext) \/ Guarded(r.ext)'
      /\ \A e \in inflight' : e \in inflight
  <2>1. CASE PanelDelete
    BY <2>1 DEF PanelDelete
  <2>2. CASE LateCreate
    <3>1. PICK e \in inflight : /\ remote' = CreateTunnel(remote, e.acct, e.ext, issued + 1)
                                /\ inflight' = inflight \ {e}
      BY <2>2 DEF LateCreate
    <3>2. Guarded(e.ext)'
      BY <1>2, FrameGuarded DEF GuardInv, TypeOK, Create
    <3>3. \A r \in remote' : r \in remote \/ r.ext = e.ext
      BY <3>1 DEF CreateTunnel
    <3> QED
      BY <3>1, <3>2, <3>3
  <2>3. CASE UNCHANGED <<remote, inflight>>
    BY <2>3
  <2> QED
    BY <2>1, <2>2, <2>3 DEF UserCreate, UserDelete, ReleaseOther, UserEdit, UserSpoilsSecret,
                            UserChangesCredential, platform
<1> QED
  BY <1>1, <1>2, <1>3, <1>4, GuardParts

\* The steps of the cluster.
LEMMA GuardCluster ==
    ASSUME GuardInv, TypeOK',
           \/ Deliver \/ DeliverSecret \/ CollectSecret \/ CollectDeployment
           \/ PodStop \/ PodFail \/ PodStart \/ Handshake \/ Restart
    PROVE  GuardInv'
<1>1. /\ UNCHANGED <<obj, rev, uids, inflight>>
      /\ cache' = cache \/ cache' = obj
  BY DEF Deliver, DeliverSecret, CollectSecret, CollectDeployment, PodStop, PodFail, PodStart,
         Handshake, Restart, api, informer, platform
<1>2. ObjStep
  BY <1>1 DEF ObjStep
<1>3. Working' /\ CopyBehind'
  <2>1. CASE Restart
    BY <2>1 DEF Restart, Working, CopyBehind
  <2>2. CASE ~Restart
    <3>1. UNCHANGED <<pc, t>>
      BY <2>2 DEF Deliver, DeliverSecret, CollectSecret, CollectDeployment, PodStop, PodFail, PodStart,
                  Handshake, worker
    <3> QED
      BY <1>2, <3>1, FrameIdle
  <2> QED
    BY <2>1, <2>2
<1>4. \A r \in remote' : \E s \in remote : s.ext = r.ext
  <2>1. CASE Handshake
    BY <2>1 DEF Handshake, GuardInv, TypeOK, TunnelRow
  <2>2. CASE UNCHANGED remote
    BY <2>2
  <2> QED
    BY <2>1, <2>2 DEF Deliver, DeliverSecret, CollectSecret, CollectDeployment, PodStop, PodFail,
                      PodStart, Restart, platform
<1> QED
  BY <1>1, <1>2, <1>3, <1>4, GuardParts

\* A reconcile that returned has no copy to speak of.
LEMMA FrameReturn ==
    ASSUME pc' = "idle"
    PROVE  Working' /\ CopyBehind'
BY DEF Working, CopyBehind

\* Where each kind of object is sent.
LEMMA DispatchCases ==
    ASSUME NEW o \in Tunnel
    PROVE  /\ Dispatch(o) \in {"idle", "removeFinalizer", "deleteClientFor", "addFinalizer", "clientFor"}
           /\ Dispatch(o) # "idle" => o.uid # None
           /\ Dispatch(o) \in {"removeFinalizer", "deleteClientFor"} => o.deleting /\ o.fin
           /\ Dispatch(o) \in {"addFinalizer", "clientFor"} => ~o.deleting
           /\ Dispatch(o) = "removeFinalizer" => o.ext = None
           /\ Dispatch(o) = "clientFor" => o.fin
BY DEF Dispatch, DispatchDelete, Tunnel

LEMMA GuardReconcile ==
    ASSUME GuardInv, TypeOK', Reconcile
    PROVE  GuardInv'
<1>1. UNCHANGED <<obj, rev, uids, cache, remote, inflight>>
  BY DEF Reconcile, api, platform, outside
<1>2. ObjStep
  BY <1>1 DEF ObjStep
<1>3. Working' /\ CopyBehind'
  <2>1. CASE Dispatch(cache) = "idle"
    BY <2>1, FrameReturn DEF Reconcile
  <2>2. CASE Dispatch(cache) # "idle"
    <3>1. t' = cache /\ pc' = Dispatch(cache) /\ cache.uid # None
      BY <2>2, DispatchCases DEF Reconcile, GuardInv, TypeOK
    <3>2. /\ pc' # "addFinalizer" => cache.fin
          /\ pc' \in DeletePath => cache.deleting
          /\ pc' # "createTunnel"
      BY <2>2, <3>1, DispatchCases DEF DeletePath, GuardInv, TypeOK
    <3> QED
      BY <1>1, <3>1, <3>2
         DEF Working, CopyBehind, GuardInv, Versions, CacheBehind, TypeOK, Tunnel
  <2> QED
    BY <2>1, <2>2
<1> QED
  BY <1>1, <1>2, <1>3, GuardParts

LEMMA GuardAddFinalizer ==
    ASSUME GuardInv, TypeOK', AddFinalizer
    PROVE  GuardInv'
<1>1. UNCHANGED <<uids, cache, remote, inflight>>
  BY DEF AddFinalizer, platform, outside
<1>2. ObjStep
  <2>1. CASE UNCHANGED <<obj, rev>>
    BY <1>1, <2>1 DEF ObjStep
  <2>2. CASE t.rv = obj.rv /\ rev' = rev + 1 /\ obj' = [obj EXCEPT !.fin = TRUE, !.rv = rev + 1]
    <3>1. obj.uid # None
      BY <2>2 DEF AddFinalizer, GuardInv, Working, TypeOK, Tunnel
    <3> QED
      BY <1>1, <2>2, <3>1 DEF ObjStep, Kept, GuardInv, TypeOK, Tunnel
  <2> QED
    BY <2>1, <2>2 DEF AddFinalizer
<1>3. Working' /\ CopyBehind'
  <2>1. CASE pc' = "idle"
    BY <2>1, FrameReturn
  <2>2. CASE pc' # "idle"
    <3>1. /\ t' = obj' /\ pc' = "clientFor" /\ rev' = rev + 1
          /\ obj' = [obj EXCEPT !.fin = TRUE, !.rv = rev + 1] /\ t.rv = obj.rv
      BY <2>2 DEF AddFinalizer, Return
    <3>2. obj'.fin /\ obj'.uid = obj.uid /\ obj'.rv = rev + 1 /\ obj.uid # None
      BY <3>1 DEF AddFinalizer, GuardInv, Working, TypeOK, Tunnel
    <3> QED
      BY <1>1, <3>1, <3>2 DEF Working, CopyBehind, GuardInv, Versions, TypeOK, Tunnel, DeletePath
  <2> QED
    BY <2>1, <2>2
<1> QED
  BY <1>1, <1>2, <1>3, GuardParts

LEMMA GuardRecordExternalID ==
    ASSUME GuardInv, TypeOK', RecordExternalID
    PROVE  GuardInv'
<1> DEFINE new == [t EXCEPT !.ext = t.uid]
<1>1. UNCHANGED <<uids, cache, remote, inflight>>
  BY DEF RecordExternalID, platform, outside
<1>2. /\ new \in Tunnel /\ new.ext = t.uid /\ new.uid = t.uid /\ new.rv = t.rv
      /\ new.fin = t.fin /\ new.deleting = t.deleting
      /\ t.uid # None /\ pc # "idle" /\ t.fin
  BY DEF RecordExternalID, GuardInv, TypeOK, Tunnel, Working
<1>3. ObjStep
  <2>1. CASE UNCHANGED <<obj, rev>>
    BY <1>1, <2>1 DEF ObjStep
  <2>2. CASE UpdateStatus(new)
    BY <1>1, <1>2, <2>2, StatusObjStep
  <2> QED
    BY <2>1, <2>2 DEF RecordExternalID
<1>4. Working' /\ CopyBehind'
  <2>1. CASE UpdateStatus(new) /\ t' = obj' /\ pc' = "createTunnel"
    <3>1. obj'.uid = obj.uid /\ obj'.ext = t.uid /\ obj'.fin = obj.fin /\ obj'.deleting = obj.deleting
      BY <1>1, <1>2, <2>1, StatusObjStep
    <3>2. obj.uid = t.uid /\ obj'.rv > 0 /\ obj'.rv <= rev'
      BY <1>1, <1>2, <2>1, StatusObjStep DEF UpdateStatus, GuardInv, Working
    <3>3. obj'.fin
      BY <3>1, <2>1, <1>2 DEF UpdateStatus, GuardInv, Working
    <3> QED
      BY <1>1, <1>2, <2>1, <3>1, <3>2, <3>3 DEF Working, CopyBehind, DeletePath, GuardInv
  <2>2. CASE Fail(new, FALSE)
    <3>1. /\ t'.uid = t.uid /\ t'.rv = t.rv /\ t'.fin = t.fin /\ t'.deleting = t.deleting
          /\ t'.ext = t.uid /\ pc' = "finish"
      BY <1>2, <2>2 DEF Fail, Tunnel
    <3>2. CASE UNCHANGED <<obj, rev>>
      BY <1>1, <1>2, <3>1, <3>2 DEF Working, CopyBehind, DeletePath, GuardInv, TypeOK, Tunnel
    <3>3. CASE Kept
      <4>1. t'.rv # obj'.rv /\ t'.rv <= rev' /\ t'.rv > 0
        BY <1>2, <3>1, <3>3 DEF Kept, Working, GuardInv, TypeOK, Tunnel
      <4> QED
        BY <1>1, <1>2, <3>1, <3>3, <4>1 DEF Kept, Working, CopyBehind, DeletePath, GuardInv
    <3>4. CASE Gone
      <4>1. obj'.uid = None /\ obj'.rv = 0 /\ rev' = rev + 1
        BY <3>4 DEF Gone, NoTunnel
      <4>2. t'.rv # obj'.rv /\ t'.rv <= rev' /\ t'.rv > 0 /\ t'.uid # obj'.uid
        BY <1>2, <3>1, <4>1 DEF Working, GuardInv, TypeOK, Tunnel
      <4> QED
        BY <1>1, <1>2, <3>1, <4>1, <4>2 DEF Working, CopyBehind, DeletePath, GuardInv
    <3>5. ~Born
      BY <1>1 DEF Born, GuardInv, TypeOK
    <3> QED
      BY <1>3, <3>2, <3>3, <3>4, <3>5 DEF ObjStep
  <2> QED
    BY <2>1, <2>2 DEF RecordExternalID
<1> QED
  BY <1>1, <1>3, <1>4, GuardParts

LEMMA GuardFinish ==
    ASSUME GuardInv, TypeOK', Finish
    PROVE  GuardInv'
<1> DEFINE new == [t EXCEPT !.obs = t.gen]
<1>1. UNCHANGED <<uids, cache, remote, inflight>> /\ pc' = "idle"
  BY DEF Finish, Return, platform, outside
<1>2. ObjStep
  <2>1. CASE UNCHANGED <<obj, rev>>
    BY <1>1, <2>1 DEF ObjStep
  <2>2. CASE UpdateStatus(new)
    <3>1. new \in Tunnel /\ new.ext = t.ext /\ pc # "idle"
      BY DEF Finish, GuardInv, TypeOK, Tunnel
    <3>2. obj.ext # None => new.ext # None
      BY <2>2, <3>1 DEF UpdateStatus, GuardInv, Working
    <3> QED
      BY <1>1, <2>2, <3>1, <3>2, StatusObjStep
  <2> QED
    BY <2>1, <2>2 DEF Finish
<1> QED
  BY <1>1, <1>2, FrameReturn, GuardParts

LEMMA GuardRemoveFinalizer ==
    ASSUME GuardInv, TypeOK', RemoveFinalizer
    PROVE  GuardInv'
<1>1. UNCHANGED <<uids, cache, remote, inflight>> /\ pc' = "idle"
  BY DEF RemoveFinalizer, Return, platform, outside
<1>2. ObjStep
  <2>1. CASE UNCHANGED <<obj, rev>>
    BY <1>1, <2>1 DEF ObjStep
  <2>2. CASE t.rv = obj.rv /\ obj' = WithoutFinalizer(obj, rev + 1) /\ rev' = rev + 1
    <3>1. obj.uid # None /\ obj.deleting
      BY <2>2 DEF RemoveFinalizer, GuardInv, Working, DeletePath, TypeOK, Tunnel
    <3> QED
      BY <1>1, <2>2, <3>1 DEF ObjStep, Kept, Gone, WithoutFinalizer, GuardInv, TypeOK, Tunnel
  <2> QED
    BY <2>1, <2>2 DEF RemoveFinalizer
<1> QED
  BY <1>1, <1>2, FrameReturn, GuardParts

\* A failed call keeps what matters of the copy.
LEMMA FailCopy ==
    ASSUME TypeOK, Refused \/ AnswerLost \/ \E permanent \in BOOLEAN : Fail(t, permanent)
    PROVE  SameCopy /\ pc' = "finish"
BY DEF Refused, AnswerLost, Fail, SameCopy, TypeOK, Tunnel

\* The steps that only read, call the platform, or write the Secret or the
\* Deployment.
CallStep ==
    \/ ClientFor \/ ReadTunnel \/ CallCreateTunnel \/ ReadCreated \/ CheckSecret
    \/ CallRotateToken \/ WriteSecret \/ EnsureDeployment
    \/ DeleteClientFor \/ CallFindTunnel \/ CallDeleteTunnel

LEMMA CallStepCopy ==
    ASSUME GuardInv, CallStep
    PROVE  \/ pc' = "idle"
           \/ /\ SameCopy /\ pc \notin {"idle", "finish", "addFinalizer"}
              /\ pc' # "addFinalizer"
              /\ pc' = "createTunnel" => t.ext # None
              /\ pc' \in DeletePath => t.deleting
<1> TypeOK
  BY DEF GuardInv
<1>1. CASE ClientFor
  BY <1>1 DEF ClientFor, AfterClient, BeforeCreate, SameCopy, TypeOK, Tunnel, DeletePath
<1>2. CASE ReadTunnel
  BY <1>2, FailCopy DEF ReadTunnel, BeforeCreate, SameCopy, DeletePath
<1>3. CASE CallCreateTunnel
  BY <1>3, FailCopy DEF CallCreateTunnel, SameCopy, DeletePath
<1>4. CASE ReadCreated
  BY <1>4, FailCopy DEF ReadCreated, SameCopy, DeletePath
<1>5. CASE CheckSecret
  BY <1>5 DEF CheckSecret, SameCopy, DeletePath
<1>6. CASE CallRotateToken
  BY <1>6, FailCopy DEF CallRotateToken, SameCopy, DeletePath
<1>7. CASE WriteSecret
  BY <1>7, FailCopy DEF WriteSecret, SameCopy, DeletePath
<1>8. CASE EnsureDeployment
  BY <1>8 DEF EnsureDeployment, Return, Synced, SameCopy, DeletePath, TypeOK, Tunnel
<1>9. CASE DeleteClientFor \/ CallFindTunnel \/ CallDeleteTunnel
  BY <1>9 DEF DeleteClientFor, CallFindTunnel, CallDeleteTunnel, AfterDeleteClient, Return,
              SameCopy, DeletePath, GuardInv, Working
<1> QED
  BY <1>1, <1>2, <1>3, <1>4, <1>5, <1>6, <1>7, <1>8, <1>9 DEF CallStep

LEMMA GuardCallStep ==
    ASSUME GuardInv, TypeOK', CallStep
    PROVE  GuardInv'
<1>1. UNCHANGED <<obj, rev, uids, cache>>
  BY DEF CallStep, ClientFor, ReadTunnel, CallCreateTunnel, ReadCreated, CheckSecret,
         CallRotateToken, WriteSecret, EnsureDeployment, DeleteClientFor, CallFindTunnel,
         CallDeleteTunnel, api, outside
<1>2. ObjStep
  BY <1>1 DEF ObjStep
<1>3. Working' /\ CopyBehind'
  <2>1. CASE pc' = "idle"
    BY <2>1, FrameReturn
  <2>2. CASE pc' # "idle"
    <3>1. /\ SameCopy /\ pc \notin {"idle", "finish", "addFinalizer"}
          /\ pc' = "createTunnel" => t.ext # None
          /\ pc' \in DeletePath => t.deleting
      BY <2>2, CallStepCopy
    <3>2. t.fin
      BY <3>1 DEF GuardInv, Working
    <3> QED
      BY <1>2, <3>1, <3>2, FrameCopy
  <2> QED
    BY <2>1, <2>2
<1>4. /\ \A r \in remote' : (\E s \in remote : s.ext = r.ext) \/ Guarded(r.ext)'
      /\ \A e \in inflight' : e \in inflight \/ Guarded(e.ext)'
  <2>1. CASE CallCreateTunnel
    <3>1. Guarded(t.uid)
      BY <2>1 DEF CallCreateTunnel, GuardInv, Working, CopyBehind, Guarded
    <3>2. t.uid \in Nat
      BY DEF GuardInv, TypeOK, Tunnel
    <3>3. Guarded(t.uid) <=> \E u \in {t.uid} : Guarded(u)'
      BY <1>1, <3>1 DEF Guarded
    <3>4. \A r \in remote' : r \in remote \/ r.ext = t.uid
      <4>1. remote' = remote \/ remote' = CreateTunnel(remote, loc.acct, t.uid, issued + 1)
        BY <2>1 DEF CallCreateTunnel, platform
      <4> QED
        BY <4>1 DEF CreateTunnel
    <3>5. \A e \in inflight' : e \in inflight \/ e.ext = t.uid
      <4>1. \/ inflight' = inflight
            \/ inflight' = inflight \cup {[acct |-> loc.acct, ext |-> t.uid]}
        BY <2>1 DEF CallCreateTunnel, platform
      <4> QED
        BY <4>1
    <3> QED
      BY <1>1, <3>1, <3>4, <3>5 DEF Guarded
  <2>2. CASE CallRotateToken
    BY <2>2 DEF CallRotateToken, RotateToken, GuardInv, TypeOK, TunnelRow
  <2>3. CASE CallDeleteTunnel
    BY <2>3 DEF CallDeleteTunnel, DeleteTunnel
  <2>4. CASE UNCHANGED <<remote, inflight>>
    BY <2>4
  <2> QED
    BY <2>1, <2>2, <2>3, <2>4
       DEF CallStep, ClientFor, ReadTunnel, ReadCreated, CheckSecret, WriteSecret,
           EnsureDeployment, DeleteClientFor, CallFindTunnel, platform
<1> QED
  BY <1>1, <1>2, <1>3, <1>4, GuardParts

LEMMA GuardNext == GuardInv /\ [Next]_vars => GuardInv'
<1> SUFFICES ASSUME GuardInv, [Next]_vars PROVE GuardInv' OBVIOUS
<1>1. TypeOK'
  BY TypeNext DEF GuardInv
<1>2. CASE UNCHANGED vars
  BY <1>2 DEF vars, GuardInv, TypeOK, Versions, CacheBehind, Working, CopyBehind, Guarded
<1>3. CASE Next
  BY <1>1, <1>3, GuardReconcile, GuardAddFinalizer, GuardRecordExternalID, GuardFinish,
     GuardRemoveFinalizer, GuardCallStep, GuardUsers, GuardCluster
     DEF Next, Worker, CallStep
<1> QED
  BY <1>2, <1>3

LEMMA GuardInvariant == Spec => []GuardInv
BY GuardInit, GuardNext, PTL DEF Spec

\* The finalizer and the external id are in the API server before a tunnel of a
\* live object exists, whatever the panel deletes, however stale the cache is
\* and however late a create is applied.
THEOREM FinalizerGuards == Spec => []FinalizerGuardsRemote
<1>1. GuardInv => FinalizerGuardsRemote
  BY DEF GuardInv, Guarded, FinalizerGuardsRemote
<1> QED
  BY <1>1, GuardInvariant, PTL

-----------------------------------------------------------------------------
(* No object is forgotten *)

\* A change of the object gives it a version nobody has seen, or takes it away.
LEMMA FreshVersion ==
    ASSUME GuardInv, Next
    PROVE  obj' = obj \/ obj' = NoTunnel \/ obj'.rv = rev + 1
<1>1. CASE AddFinalizer
  BY <1>1 DEF AddFinalizer, GuardInv, TypeOK, Tunnel
<1>2. CASE RecordExternalID \/ Finish
  <2>1. ASSUME NEW new, UpdateStatus(new)
        PROVE  obj' = obj \/ obj'.rv = rev + 1
    BY <2>1 DEF UpdateStatus, WithStatus, GuardInv, TypeOK, Tunnel
  <2> QED
    BY <1>2, <2>1 DEF RecordExternalID, Finish
<1>3. CASE RemoveFinalizer
  BY <1>3 DEF RemoveFinalizer, WithoutFinalizer, GuardInv, TypeOK, Tunnel
<1>4. CASE CallStep \/ Reconcile
  BY <1>4 DEF CallStep, Reconcile, ClientFor, ReadTunnel, CallCreateTunnel, ReadCreated,
              CheckSecret, CallRotateToken, WriteSecret, EnsureDeployment, DeleteClientFor,
              CallFindTunnel, CallDeleteTunnel, api
<1>5. CASE UserCreate \/ UserDelete \/ ReleaseOther \/ UserEdit
  BY <1>5 DEF UserCreate, UserDelete, ReleaseOther, UserEdit, GuardInv, TypeOK, Tunnel, NoTunnel
<1>6. CASE UserSpoilsSecret \/ UserChangesCredential \/ PanelDelete \/ LateCreate
  BY <1>6 DEF UserSpoilsSecret, UserChangesCredential, PanelDelete, LateCreate, api
<1>7. CASE \/ Deliver \/ DeliverSecret \/ CollectSecret \/ CollectDeployment
           \/ PodStop \/ PodFail \/ PodStart \/ Handshake \/ Restart
  BY <1>7 DEF Deliver, DeliverSecret, CollectSecret, CollectDeployment, PodStop, PodFail, PodStart,
              Handshake, Restart, api
<1> QED
  BY <1>1, <1>2, <1>3, <1>4, <1>5, <1>6, <1>7 DEF Next, Worker, CallStep

\* A reconcile that returns leaves a request or a timer behind, unless there is
\* nothing to come back for or the object just changed.
LEMMA WorkerRemembers ==
    ASSUME GuardInv, Worker, obj' = obj, cache = obj, obj.uid # None,
           obj.deleting => obj.fin, pc' = "idle"
    PROVE  queue' # {}
<1>1. Later # {}
  BY DEF Later
<1>2. CASE Reconcile
  BY <1>2 DEF Reconcile, Dispatch, DispatchDelete, GuardInv, TypeOK, Tunnel
<1>3. CASE AddFinalizer
  BY <1>1, <1>3 DEF AddFinalizer, Return
<1>4. CASE RecordExternalID
  BY <1>4 DEF RecordExternalID, Fail
<1>5. CASE CallStep
  <2>1. CASE ClientFor
    BY <1>5, <2>1 DEF ClientFor, AfterClient, BeforeCreate
  <2>2. CASE ReadTunnel \/ CallCreateTunnel \/ ReadCreated \/ CheckSecret
    BY <2>2 DEF ReadTunnel, CallCreateTunnel, ReadCreated, CheckSecret, BeforeCreate,
                Refused, AnswerLost, Fail
  <2>3. CASE CallRotateToken \/ WriteSecret
    BY <2>3 DEF CallRotateToken, WriteSecret, Refused, AnswerLost, Fail
  <2>4. CASE EnsureDeployment
    BY <1>1, <2>4 DEF EnsureDeployment, Return
  <2>5. CASE DeleteClientFor
    BY <1>1, <2>5 DEF DeleteClientFor, AfterDeleteClient, Return
  <2>6. CASE CallFindTunnel \/ CallDeleteTunnel
    BY <1>1, <2>6 DEF CallFindTunnel, CallDeleteTunnel, Return
  <2> QED
    BY <1>5, <2>1, <2>2, <2>3, <2>4, <2>5, <2>6 DEF CallStep
<1>6. CASE Finish
  BY <1>1, <1>6 DEF Finish, Return, Exists
<1>7. CASE RemoveFinalizer
  <2>1. CASE t.rv = obj.rv /\ obj' = WithoutFinalizer(obj, rev + 1)
    <3>1. obj'.rv = rev + 1 \/ obj'.uid = None
      BY <2>1 DEF WithoutFinalizer, NoTunnel, GuardInv, TypeOK, Tunnel
    <3> QED
      BY <3>1 DEF GuardInv, Versions, TypeOK, Tunnel
  <2>2. CASE ~(t.rv = obj.rv /\ obj' = WithoutFinalizer(obj, rev + 1))
    BY <1>1, <1>7, <2>2 DEF RemoveFinalizer, Return
  <2> QED
    BY <2>1, <2>2
<1> QED
  BY <1>2, <1>3, <1>4, <1>5, <1>6, <1>7 DEF Worker, CallStep

LEMMA RememberedNext ==
    ASSUME GuardInv, NeverForgotten, [Next]_vars
    PROVE  NeverForgotten'
<1> SUFFICES ASSUME pc' = "idle", cache' = obj', obj'.uid # None, obj'.deleting => obj'.fin
             PROVE  queue' # {}
  BY DEF NeverForgotten, Exists
<1>1. CASE UNCHANGED vars
  BY <1>1 DEF vars, NeverForgotten, Exists
<1>2. CASE Deliver \/ Restart
  BY <1>2 DEF Deliver, Restart, Exists, api
<1>3. CASE Next /\ ~Deliver /\ ~Restart
  <2>1. cache' = cache
    BY <1>3 DEF Next, Worker, Reconcile, AddFinalizer, ClientFor, ReadTunnel, RecordExternalID,
                CallCreateTunnel, ReadCreated, CheckSecret, CallRotateToken, WriteSecret,
                EnsureDeployment, Finish, DeleteClientFor, CallFindTunnel, CallDeleteTunnel,
                RemoveFinalizer, UserCreate, UserDelete, ReleaseOther, UserEdit,
                UserSpoilsSecret, UserChangesCredential, PanelDelete, LateCreate,
                DeliverSecret, CollectSecret, CollectDeployment, PodStop, PodFail, PodStart,
                Handshake, informer, outside
  <2>2. obj'.rv # rev + 1 /\ obj' # NoTunnel
    BY <2>1 DEF GuardInv, Versions, TypeOK, Tunnel, NoTunnel
  <2>3. obj' = obj /\ cache = obj
    BY <1>3, <2>1, <2>2, FreshVersion
  <2>4. CASE Worker
    BY <2>3, <2>4, WorkerRemembers
  <2>5. CASE ~Worker
    <3>1. pc = "idle" /\ queue \subseteq queue'
      BY <1>3, <2>5
         DEF Next, UserCreate, UserDelete, ReleaseOther, UserEdit, UserSpoilsSecret,
             UserChangesCredential, PanelDelete, LateCreate, DeliverSecret, CollectSecret,
             CollectDeployment, PodStop, PodFail, PodStart, Handshake, worker
    <3> QED
      BY <2>3, <3>1 DEF NeverForgotten, Exists
  <2> QED
    BY <2>4, <2>5
<1> QED
  BY <1>1, <1>2, <1>3

\* No Tunnel is left without a request, a timer or a watch event still to come:
\* every early return, every failed write and every restart of the operator puts
\* it back, for every number of objects, edits and faults, with the panel, a
\* lagging cache and late creates included.
THEOREM NothingForgotten == Spec => []NeverForgotten
<1>1. Init => NeverForgotten
  BY DEF Init, NeverForgotten, Exists, NoTunnel
<1>2. GuardInv /\ NeverForgotten /\ [Next]_vars => NeverForgotten'
  BY RememberedNext
<1> QED
  BY <1>1, <1>2, GuardInvariant, PTL DEF Spec

-----------------------------------------------------------------------------
(* The inductive invariant behind DeployedSpecIsObserved *)

\* A copy of the current version is the object, until the status to write is
\* put into it; the generation never changes in a copy.
CopyCurrent ==
    pc # "idle" /\ t.rv = obj.rv =>
        /\ pc # "finish" => t = obj
        /\ t.gen = obj.gen

\* No view of an object is older than what its status says was observed, and
\* none is newer than the object; the cache is never behind the copy it gave.
Generations ==
    /\ obj.obs <= obj.gen
    /\ cache.uid = obj.uid => obj.obs <= cache.gen /\ cache.gen <= obj.gen
    /\ pc # "idle" /\ t.uid = obj.uid => obj.obs <= t.gen /\ t.gen <= obj.gen
    /\ pc # "idle" /\ t.uid = cache.uid => t.gen <= cache.gen

\* The Deployment is the one of o, built from its generation.
BuiltFrom(o) == dep.owner = o.uid /\ dep.gen = o.gen

Built ==
    /\ pc = "finish" /\ t.synced /\ t.uid = obj.uid => BuiltFrom(t)
    /\ Exists /\ obj.synced /\ obj.obs = obj.gen => BuiltFrom(obj)

ObservedInv == GuardInv /\ CopyCurrent /\ Generations /\ Built

\* How a step that does not end a reconcile changes the object: the part of the
\* status these invariants are about stays.
MetaStep ==
    \/ obj' = obj
    \/ obj' = NoTunnel
    \/ /\ obj.uid = None /\ obj'.uid = uids + 1 /\ obj'.rv = rev + 1
       /\ obj'.gen = 1 /\ obj'.obs = 0
    \/ /\ obj.uid # None /\ obj'.uid = obj.uid /\ obj'.rv = rev + 1
       /\ obj'.gen >= obj.gen /\ obj'.obs = obj.obs
       /\ obj'.synced = obj.synced /\ obj'.tid = obj.tid

\* How it changes the reconcile: ended, untouched, on its way with the same
\* copy, or failed.
CopyStep ==
    \/ pc' = "idle"
    \/ UNCHANGED <<pc, t>>
    \/ pc \notin {"idle", "finish"} /\ pc' # "finish" /\ t' = t
    \/ /\ pc \notin {"idle", "finish"} /\ pc' = "finish" /\ ~t'.synced
       /\ t'.uid = t.uid /\ t'.rv = t.rv /\ t'.gen = t.gen /\ t'.tid = t.tid

CacheMoves == cache' = cache \/ (cache' = obj /\ obj' = obj)

LEMMA FrameObserved ==
    ASSUME ObservedInv, TypeOK', MetaStep, CacheMoves, CopyStep
    PROVE  CopyCurrent' /\ Generations'
<1> USE DEF ObservedInv, GuardInv, TypeOK, Tunnel
<1>1. CASE obj' = obj
  <2>1. CopyCurrent'
    BY <1>1 DEF CopyStep, CopyCurrent
  <2>2. Generations'
    BY <1>1 DEF CopyStep, Generations, CacheMoves
  <2> QED
    BY <2>1, <2>2
<1>2. CASE obj' = NoTunnel /\ cache' = cache
  <2>1. obj'.uid = 0 /\ obj'.rv = 0 /\ obj'.gen = 0 /\ obj'.obs = 0
    BY <1>2 DEF NoTunnel
  <2>2. pc' # "idle" => t'.uid = t.uid /\ t'.rv = t.rv /\ t'.gen = t.gen /\ pc # "idle"
    BY DEF CopyStep
  <2>3. pc # "idle" => t.rv > 0 /\ t.uid # 0
    BY DEF Working
  <2>4. CopyCurrent'
    BY <2>1, <2>2, <2>3 DEF CopyCurrent
  <2>5. cache.uid = 0 => cache.gen = 0
    BY DEF Versions, NoTunnel
  <2>6. Generations'
    BY <1>2, <2>1, <2>2, <2>3, <2>5 DEF Generations
  <2> QED
    BY <2>4, <2>6
<1>3. CASE cache' = cache /\ obj'.rv = rev + 1
  <2>1. pc' # "idle" => t'.uid = t.uid /\ t'.rv = t.rv /\ t'.gen = t.gen /\ pc # "idle"
    BY DEF CopyStep
  <2>2. CopyCurrent'
    BY <1>3, <2>1 DEF CopyCurrent, Working
  <2>3. CASE obj.uid = None /\ obj'.uid = uids + 1 /\ obj'.gen = 1 /\ obj'.obs = 0
    BY <1>3, <2>1, <2>2, <2>3 DEF Generations, Working, Versions
  <2>4. CASE obj'.uid = obj.uid /\ obj'.gen >= obj.gen /\ obj'.obs = obj.obs
    BY <1>3, <2>1, <2>2, <2>4 DEF Generations
  <2>5. CASE obj' = obj \/ obj' = NoTunnel
    BY <1>1, <1>2, <1>3, <2>5
  <2> QED
    BY <2>2, <2>3, <2>4, <2>5 DEF MetaStep
<1> QED
  BY <1>1, <1>2, <1>3 DEF MetaStep, CacheMoves

LEMMA FrameBuilt ==
    ASSUME ObservedInv, TypeOK', MetaStep, CopyStep,
           dep' = dep \/ (dep.owner # obj.uid /\ obj' = obj)
    PROVE  Built'
<1> USE DEF ObservedInv, GuardInv, TypeOK, Tunnel
<1>1. pc' = "finish" /\ t'.synced /\ t'.uid = obj'.uid => BuiltFrom(t)'
  <2> SUFFICES ASSUME pc' = "finish", t'.synced, t'.uid = obj'.uid PROVE BuiltFrom(t)'
    OBVIOUS
  <2>1. pc = "finish" /\ t' = t
    BY DEF CopyStep
  <2>2. obj.uid = t.uid
    <3>1. t.uid # None /\ t.uid <= uids
      BY <2>1 DEF Working
    <3> QED
      BY <2>1, <3>1 DEF MetaStep, NoTunnel
  <2>3. BuiltFrom(t)
    BY <2>1, <2>2 DEF Built
  <2> QED
    BY <2>1, <2>2, <2>3 DEF BuiltFrom
<1>2. obj'.uid # None /\ obj'.synced /\ obj'.obs = obj'.gen => BuiltFrom(obj)'
  <2> SUFFICES ASSUME obj'.uid # None, obj'.synced, obj'.obs = obj'.gen PROVE BuiltFrom(obj)'
    OBVIOUS
  <2>1. CASE obj' = obj
    BY <2>1 DEF Built, BuiltFrom, Exists
  <2>2. CASE obj' # obj
    <3>1. /\ obj.uid # None /\ obj'.uid = obj.uid /\ obj'.gen >= obj.gen
          /\ obj'.obs = obj.obs /\ obj'.synced = obj.synced
      <4>1. ~(obj'.gen = 1 /\ obj'.obs = 0) /\ obj' # NoTunnel
        BY DEF NoTunnel
      <4> QED
        BY <2>2, <4>1, Zenon DEF MetaStep
    <3>2. obj'.gen = obj.gen /\ obj.obs = obj.gen
      BY <3>1 DEF Generations
    <3>3. BuiltFrom(obj)
      BY <3>1, <3>2 DEF Built, Exists
    <3> QED
      BY <2>2, <3>1, <3>2, <3>3 DEF BuiltFrom
  <2> QED
    BY <2>1, <2>2
<1> QED
  BY <1>1, <1>2 DEF Built, Exists

LEMMA ObservedUsers ==
    ASSUME ObservedInv, TypeOK',
           \/ UserCreate \/ UserDelete \/ ReleaseOther \/ UserEdit \/ UserSpoilsSecret
           \/ UserChangesCredential \/ PanelDelete \/ LateCreate
    PROVE  CopyCurrent' /\ Generations' /\ Built'
<1>1. UNCHANGED <<pc, t, cache, dep>>
  BY DEF UserCreate, UserDelete, ReleaseOther, UserEdit, UserSpoilsSecret,
         UserChangesCredential, PanelDelete, LateCreate, worker, informer, api
<1>2. CopyStep /\ CacheMoves
  BY <1>1 DEF CopyStep, CacheMoves
<1>3. MetaStep
  <2> USE DEF ObservedInv, GuardInv, TypeOK, Tunnel
  <2>1. CASE UserCreate
    BY <2>1 DEF UserCreate, Exists, NoTunnel, MetaStep
  <2>2. CASE UserDelete
    <3>1. PICK other \in BOOLEAN :
             obj' = IF obj.fin \/ other
                    THEN [obj EXCEPT !.deleting = TRUE, !.other = other, !.rv = rev + 1]
                    ELSE NoTunnel
      BY <2>2 DEF UserDelete
    <3>2. obj.fin \/ other =>
             /\ obj'.uid = obj.uid /\ obj'.rv = rev + 1 /\ obj'.gen >= obj.gen
             /\ obj'.obs = obj.obs /\ obj'.synced = obj.synced /\ obj'.tid = obj.tid
      BY <3>1
    <3>3. obj.uid # None
      BY <2>2 DEF UserDelete, Exists
    <3> QED
      BY <3>1, <3>2, <3>3, Zenon DEF MetaStep
  <2>3. CASE ReleaseOther
    <3>1. obj.fin =>
             /\ obj'.uid = obj.uid /\ obj'.rv = rev + 1 /\ obj'.gen >= obj.gen
             /\ obj'.obs = obj.obs /\ obj'.synced = obj.synced /\ obj'.tid = obj.tid
      BY <2>3 DEF ReleaseOther
    <3>2. obj.uid # None /\ (obj.fin \/ obj' = NoTunnel)
      BY <2>3 DEF ReleaseOther, Versions, NoTunnel
    <3> QED
      BY <3>1, <3>2, Zenon DEF MetaStep
  <2>4. CASE UserEdit
    BY <2>4 DEF UserEdit, Exists, MetaStep
  <2>5. CASE UserSpoilsSecret \/ UserChangesCredential \/ PanelDelete \/ LateCreate
    BY <2>5 DEF UserSpoilsSecret, UserChangesCredential, PanelDelete, LateCreate, MetaStep, api
  <2> QED
    BY <2>1, <2>2, <2>3, <2>4, <2>5
<1> QED
  BY <1>1, <1>2, <1>3, FrameObserved, FrameBuilt

\* The garbage collector takes the Deployment of another object only.
LEMMA ObservedCluster ==
    ASSUME ObservedInv, TypeOK',
           \/ Deliver \/ DeliverSecret \/ CollectSecret \/ CollectDeployment
           \/ PodStop \/ PodFail \/ PodStart \/ Handshake \/ Restart
    PROVE  CopyCurrent' /\ Generations' /\ Built'
<1>1. obj' = obj /\ (cache' = cache \/ cache' = obj)
  BY DEF Deliver, DeliverSecret, CollectSecret, CollectDeployment, PodStop, PodFail, PodStart,
         Handshake, Restart, api, informer
<1>2. pc' = "idle" \/ UNCHANGED <<pc, t>>
  BY DEF Deliver, DeliverSecret, CollectSecret, CollectDeployment, PodStop, PodFail, PodStart,
         Handshake, Restart, worker
<1>3. dep' = dep \/ dep.owner # obj.uid
  BY DEF Deliver, DeliverSecret, CollectSecret, CollectDeployment, Collectable, PodStop, PodFail,
         PodStart, Handshake, Restart, api
<1>4. MetaStep /\ CacheMoves /\ CopyStep
  BY <1>1, <1>2 DEF MetaStep, CacheMoves, CopyStep
<1> QED
  BY <1>1, <1>3, <1>4, FrameObserved, FrameBuilt

\* Every call but the one that writes the Deployment.
LEMMA ObservedCalls ==
    ASSUME ObservedInv, TypeOK', CallStep, ~EnsureDeployment
    PROVE  CopyCurrent' /\ Generations' /\ Built'
<1>1. UNCHANGED <<obj, dep, cache>>
  BY DEF CallStep, ClientFor, ReadTunnel, CallCreateTunnel, ReadCreated, CheckSecret,
         CallRotateToken, WriteSecret, DeleteClientFor, CallFindTunnel,
         CallDeleteTunnel, api, outside
<1>2. MetaStep /\ CacheMoves
  BY <1>1 DEF MetaStep, CacheMoves
<1>3. CopyStep
  <2>1. ASSUME NEW permanent, Fail(t, permanent), pc \notin {"idle", "finish"} PROVE CopyStep
    BY <2>1 DEF Fail, CopyStep, ObservedInv, GuardInv, TypeOK, Tunnel
  <2>2. ASSUME Refused \/ AnswerLost, pc \notin {"idle", "finish"} PROVE CopyStep
    BY <2>1, <2>2 DEF Refused, AnswerLost
  <2>3. CASE ClientFor
    BY <2>3 DEF ClientFor, AfterClient, BeforeCreate, CopyStep, ObservedInv, GuardInv, TypeOK, Tunnel
  <2>4. CASE ReadTunnel
    <3>1. CASE Refused
      BY <2>2, <2>4, <3>1 DEF ReadTunnel
    <3>2. CASE ~Refused
      BY <2>4, <3>2 DEF ReadTunnel, BeforeCreate, CopyStep
    <3> QED
      BY <3>1, <3>2
  <2>5. CASE CallCreateTunnel
    <3>1. CASE Refused \/ AnswerLost
      BY <2>2, <2>5, <3>1 DEF CallCreateTunnel
    <3>2. CASE ~(Refused \/ AnswerLost)
      BY <2>5, <3>2 DEF CallCreateTunnel, CopyStep
    <3> QED
      BY <3>1, <3>2
  <2>6. CASE ReadCreated
    <3>1. CASE Refused \/ Fail(t, TRUE)
      BY <2>1, <2>2, <2>6, <3>1 DEF ReadCreated
    <3>2. CASE ~(Refused \/ Fail(t, TRUE))
      BY <2>6, <3>2 DEF ReadCreated, CopyStep
    <3> QED
      BY <3>1, <3>2
  <2>7. CASE CheckSecret
    BY <2>7 DEF CheckSecret, CopyStep
  <2>8. CASE CallRotateToken
    <3>1. CASE Refused \/ AnswerLost \/ Fail(t, TRUE)
      BY <2>1, <2>2, <2>8, <3>1 DEF CallRotateToken
    <3>2. CASE ~(Refused \/ AnswerLost \/ Fail(t, TRUE))
      BY <2>8, <3>2 DEF CallRotateToken, CopyStep
    <3> QED
      BY <3>1, <3>2
  <2>9. CASE WriteSecret
    <3>1. CASE Fail(t, FALSE)
      BY <2>1, <2>9, <3>1 DEF WriteSecret
    <3>2. CASE ~Fail(t, FALSE)
      BY <2>9, <3>2 DEF WriteSecret, CopyStep
    <3> QED
      BY <3>1, <3>2
  <2>10. CASE DeleteClientFor \/ CallFindTunnel \/ CallDeleteTunnel
    BY <2>10 DEF DeleteClientFor, AfterDeleteClient, CallFindTunnel, CallDeleteTunnel, Return, CopyStep
  <2> QED
    BY <2>3, <2>4, <2>5, <2>6, <2>7, <2>8, <2>9, <2>10 DEF CallStep
<1> QED
  BY <1>1, <1>2, <1>3, FrameObserved, FrameBuilt

\* The Deployment is only ever replaced by one of the same object built from a
\* generation no older than the one observed.
LEMMA ObservedEnsureDeployment ==
    ASSUME ObservedInv, TypeOK', EnsureDeployment
    PROVE  CopyCurrent' /\ Generations' /\ Built'
<1> USE DEF ObservedInv, GuardInv, TypeOK
<1>1. UNCHANGED <<obj, cache>> /\ pc = "ensureDeployment"
  BY DEF EnsureDeployment, outside
<1>2. \/ dep' = dep
      \/ dep.owner \in {None, t.uid} /\ dep'.owner = t.uid /\ dep'.gen = t.gen
  BY DEF EnsureDeployment, MutateDeployment, BuildAgentDeployment
<1>3. obj'.uid # None /\ obj'.synced /\ obj'.obs = obj'.gen => BuiltFrom(obj)'
  <2> SUFFICES ASSUME obj.uid # None, obj.synced, obj.obs = obj.gen
               PROVE  dep'.owner = obj.uid /\ dep'.gen = obj.gen
    BY <1>1 DEF BuiltFrom
  <2>1. dep.owner = obj.uid /\ dep.gen = obj.gen
    BY DEF Built, BuiltFrom, Exists
  <2>2. t.uid = obj.uid => t.gen = obj.gen
    BY <1>1 DEF Generations, Tunnel
  <2> QED
    BY <1>2, <2>1, <2>2
<1>4. CASE pc' = "idle"
  <2>1. MetaStep /\ CacheMoves /\ CopyStep
    BY <1>1, <1>4 DEF MetaStep, CacheMoves, CopyStep
  <2>2. CopyCurrent' /\ Generations'
    BY <2>1, FrameObserved
  <2> QED
    BY <1>3, <1>4, <2>2 DEF Built, Exists
<1>5. CASE pc' # "idle"
  <2>1. pc' = "finish" /\ t' = Synced(t) /\ dep'.owner = t.uid /\ dep'.gen = t.gen
    BY <1>5 DEF EnsureDeployment, Return, MutateDeployment, BuildAgentDeployment
  <2>2. t'.uid = t.uid /\ t'.rv = t.rv /\ t'.gen = t.gen
    BY <2>1 DEF Synced, Tunnel
  <2>3. CopyCurrent' /\ Generations'
    BY <1>1, <2>1, <2>2 DEF CopyCurrent, Generations
  <2>4. BuiltFrom(t)'
    BY <2>1, <2>2 DEF BuiltFrom
  <2> QED
    BY <1>3, <2>3, <2>4 DEF Built, Exists
<1> QED
  BY <1>4, <1>5

\* A reconcile starts from the cache.
LEMMA ObservedReconcile ==
    ASSUME ObservedInv, TypeOK', Reconcile
    PROVE  CopyCurrent' /\ Generations' /\ Built'
<1>1. UNCHANGED <<obj, cache, dep>> /\ pc' = Dispatch(cache)
  BY DEF Reconcile, api, outside
<1>2. CASE pc' = "idle"
  <2>1. MetaStep /\ CacheMoves /\ CopyStep
    BY <1>1, <1>2 DEF MetaStep, CacheMoves, CopyStep
  <2> QED
    BY <1>1, <2>1, FrameObserved, FrameBuilt
<1>3. CASE pc' # "idle"
  <2>1. t' = cache /\ pc' # "finish"
    BY <1>1, <1>3, DispatchCases DEF Reconcile, ObservedInv, GuardInv, TypeOK
  <2>2. CopyCurrent'
    BY <1>1, <2>1 DEF CopyCurrent, ObservedInv, GuardInv, Versions
  <2>3. Generations'
    BY <1>1, <2>1 DEF Generations, ObservedInv, GuardInv, TypeOK, Tunnel
  <2>4. Built'
    BY <1>1, <2>1 DEF Built, BuiltFrom, Exists, ObservedInv
  <2> QED
    BY <2>2, <2>3, <2>4
<1> QED
  BY <1>2, <1>3

\* The writes in the middle of a reconcile go on with the object as written.
LEMMA ObservedWritten ==
    ASSUME ObservedInv, TypeOK', MetaStep, CopyCurrent, pc \notin {"idle", "finish"},
           t.rv = obj.rv, obj'.uid = obj.uid, obj'.gen = obj.gen, obj'.obs = obj.obs,
           obj'.synced = obj.synced,
           UNCHANGED <<cache, dep>>, t' = obj', pc' # "finish"
    PROVE  CopyCurrent' /\ Generations' /\ Built'
<1> USE DEF ObservedInv, GuardInv, TypeOK, Tunnel
<1>1. t = obj
  BY DEF CopyCurrent
<1>2. CopyCurrent'
  BY DEF CopyCurrent
<1>3. Generations'
  BY <1>1 DEF Generations
<1>4. Built'
  BY DEF Built, BuiltFrom, Exists
<1> QED
  BY <1>2, <1>3, <1>4

LEMMA ObservedAddFinalizer ==
    ASSUME ObservedInv, TypeOK', AddFinalizer
    PROVE  CopyCurrent' /\ Generations' /\ Built'
<1>1. UNCHANGED <<cache, dep>> /\ pc = "addFinalizer"
  BY DEF AddFinalizer, outside
<1>2. MetaStep
  <2>1. CASE obj' = obj
    BY <2>1 DEF MetaStep
  <2>2. CASE t.rv = obj.rv /\ obj' = [obj EXCEPT !.fin = TRUE, !.rv = rev + 1]
    <3>1. /\ obj'.uid = obj.uid /\ obj'.rv = rev + 1 /\ obj'.gen >= obj.gen
          /\ obj'.obs = obj.obs /\ obj'.synced = obj.synced /\ obj'.tid = obj.tid
      BY <2>2 DEF ObservedInv, GuardInv, TypeOK, Tunnel
    <3>2. obj.uid # None
      BY <1>1, <2>2 DEF ObservedInv, GuardInv, Working
    <3> QED
      BY <3>1, <3>2, Zenon DEF MetaStep
  <2> QED
    BY <2>1, <2>2 DEF AddFinalizer
<1>3. CASE pc' = "idle"
  <2>1. CacheMoves /\ CopyStep
    BY <1>1, <1>3 DEF CacheMoves, CopyStep
  <2> QED
    BY <1>1, <1>2, <2>1, FrameObserved, FrameBuilt
<1>4. CASE pc' # "idle"
  <2>1. /\ t.rv = obj.rv /\ t' = obj' /\ pc' = "clientFor"
        /\ obj' = [obj EXCEPT !.fin = TRUE, !.rv = rev + 1]
    BY <1>4 DEF AddFinalizer, Return
  <2>2. /\ obj'.uid = obj.uid /\ obj'.gen = obj.gen /\ obj'.obs = obj.obs
        /\ obj'.synced = obj.synced
    BY <2>1 DEF ObservedInv, GuardInv, TypeOK, Tunnel
  <2>3. CopyCurrent
    BY DEF ObservedInv
  <2> QED
    BY <1>1, <1>2, <2>1, <2>2, <2>3, ObservedWritten
<1> QED
  BY <1>3, <1>4

\* What a write of the status leaves in the object.
LEMMA StatusWritten ==
    ASSUME TypeOK, NEW new \in Tunnel, UpdateStatus(new)
    PROVE  /\ t.rv = obj.rv
           /\ obj'.uid = obj.uid /\ obj'.gen = obj.gen
           /\ obj'.obs = new.obs /\ obj'.synced = new.synced /\ obj'.tid = new.tid
           /\ obj' = obj \/ obj'.rv = rev + 1
<1>1. CASE WithStatus(obj, new) = obj
  <2>1. new.obs = obj.obs /\ new.synced = obj.synced /\ new.tid = obj.tid
    BY <1>1 DEF WithStatus, TypeOK, Tunnel
  <2> QED
    BY <1>1, <2>1 DEF UpdateStatus
<1>2. CASE WithStatus(obj, new) # obj
  BY <1>2 DEF UpdateStatus, WithStatus, TypeOK, Tunnel
<1> QED
  BY <1>1, <1>2

\* The external id is all that the write before the create adds.
LEMMA ObservedRecordExternalID ==
    ASSUME ObservedInv, TypeOK', RecordExternalID
    PROVE  CopyCurrent' /\ Generations' /\ Built'
<1> DEFINE new == [t EXCEPT !.ext = t.uid]
<1>1. UNCHANGED <<cache, dep>> /\ pc = "recordExternalID"
  BY DEF RecordExternalID, outside
<1>2. /\ TypeOK /\ new \in Tunnel /\ new.obs = t.obs /\ new.synced = t.synced /\ new.tid = t.tid
      /\ new.uid = t.uid /\ new.rv = t.rv /\ new.gen = t.gen
  BY DEF ObservedInv, GuardInv, TypeOK, Tunnel
<1>3. UpdateStatus(new) =>
         /\ t.rv = obj.rv /\ MetaStep
         /\ obj'.uid = obj.uid /\ obj'.gen = obj.gen /\ obj'.obs = obj.obs
         /\ obj'.synced = obj.synced
  <2> SUFFICES ASSUME UpdateStatus(new)
               PROVE  /\ t.rv = obj.rv /\ MetaStep
                      /\ obj'.uid = obj.uid /\ obj'.gen = obj.gen /\ obj'.obs = obj.obs
                      /\ obj'.synced = obj.synced
    OBVIOUS
  <2> HIDE DEF new
  <2>1. /\ t.rv = obj.rv
        /\ obj'.uid = obj.uid /\ obj'.gen = obj.gen
        /\ obj'.obs = new.obs /\ obj'.synced = new.synced /\ obj'.tid = new.tid
        /\ obj' = obj \/ obj'.rv = rev + 1
    BY <1>2, StatusWritten
  <2>2. t = obj /\ obj.uid # None
    BY <1>1, <2>1 DEF ObservedInv, CopyCurrent, GuardInv, Working
  <2>3. obj'.obs = obj.obs /\ obj'.synced = obj.synced /\ obj'.tid = obj.tid
    BY <1>2, <2>1, <2>2
  <2>4. obj'.gen >= obj.gen
    BY <1>2, <2>1 DEF TypeOK, Tunnel
  <2>5. MetaStep
    BY <2>1, <2>2, <2>3, <2>4, Zenon DEF MetaStep
  <2> QED
    BY <2>1, <2>3, <2>5
<1>4. MetaStep
  BY <1>3 DEF RecordExternalID, MetaStep
<1>5. CASE pc' = "finish"
  <2>1. Fail(new, FALSE)
    BY <1>5 DEF RecordExternalID
  <2>2. CacheMoves /\ CopyStep
    BY <1>1, <1>2, <2>1 DEF CacheMoves, CopyStep, Fail, Tunnel
  <2> QED
    BY <1>1, <1>4, <2>2, FrameObserved, FrameBuilt
<1>6. CASE pc' # "finish"
  <2>1. UpdateStatus(new) /\ t' = obj' /\ pc' = "createTunnel"
    BY <1>6 DEF RecordExternalID, Fail
  <2>2. CopyCurrent
    BY DEF ObservedInv
  <2> QED
    BY <1>1, <1>3, <2>1, <2>2, ObservedWritten
<1> QED
  BY <1>5, <1>6

LEMMA ObservedRemoveFinalizer ==
    ASSUME ObservedInv, TypeOK', RemoveFinalizer
    PROVE  CopyCurrent' /\ Generations' /\ Built'
<1>1. UNCHANGED <<cache, dep>> /\ pc = "removeFinalizer" /\ pc' = "idle"
  BY DEF RemoveFinalizer, Return, outside
<1>2. MetaStep
  <2>1. CASE obj' = obj
    BY <2>1 DEF MetaStep
  <2>2. CASE t.rv = obj.rv /\ obj' = WithoutFinalizer(obj, rev + 1)
    <3>1. obj.other =>
             /\ obj'.uid = obj.uid /\ obj'.rv = rev + 1 /\ obj'.gen >= obj.gen
             /\ obj'.obs = obj.obs /\ obj'.synced = obj.synced /\ obj'.tid = obj.tid
      BY <2>2 DEF WithoutFinalizer, ObservedInv, GuardInv, TypeOK, Tunnel
    <3>2. obj.uid # None /\ (obj.other \/ obj' = NoTunnel)
      BY <1>1, <2>2 DEF WithoutFinalizer, ObservedInv, GuardInv, Working
    <3> QED
      BY <3>1, <3>2, Zenon DEF MetaStep
  <2> QED
    BY <2>1, <2>2 DEF RemoveFinalizer
<1>3. CacheMoves /\ CopyStep
  BY <1>1 DEF CacheMoves, CopyStep
<1> QED
  BY <1>1, <1>2, <1>3, FrameObserved, FrameBuilt

\* The status says observed what the Deployment was built from.
LEMMA ObservedFinish ==
    ASSUME ObservedInv, TypeOK', Finish
    PROVE  CopyCurrent' /\ Generations' /\ Built'
<1> DEFINE new == [t EXCEPT !.obs = t.gen]
<1>1. UNCHANGED <<cache, dep>> /\ pc = "finish" /\ pc' = "idle"
  BY DEF Finish, Return, outside
<1>2. CopyStep /\ CacheMoves /\ CopyCurrent'
  BY <1>1 DEF CopyStep, CacheMoves, CopyCurrent
<1>3. CASE obj' = obj
  <2>1. MetaStep
    BY <1>3 DEF MetaStep
  <2> QED
    BY <1>1, <1>2, <2>1, FrameObserved, FrameBuilt
<1>4. CASE UpdateStatus(new)
  <2>1. TypeOK /\ new \in Tunnel /\ new.obs = t.gen /\ new.synced = t.synced
    BY DEF ObservedInv, GuardInv, TypeOK, Tunnel
  <2> HIDE DEF new
  <2>2. /\ t.rv = obj.rv
        /\ obj'.uid = obj.uid /\ obj'.gen = obj.gen
        /\ obj'.obs = t.gen /\ obj'.synced = t.synced
    BY <1>4, <2>1, StatusWritten
  <2>3. t.uid = obj.uid /\ t.gen = obj.gen
    BY <1>1, <2>2 DEF ObservedInv, CopyCurrent, GuardInv, Working
  <2>4. Generations'
    BY <1>1, <2>1, <2>2, <2>3 DEF Generations, ObservedInv, TypeOK, Tunnel
  <2>5. Built'
    <3>1. obj'.synced => BuiltFrom(t)
      BY <1>1, <2>2, <2>3 DEF Built, ObservedInv
    <3> QED
      BY <1>1, <2>2, <2>3, <3>1 DEF Built, BuiltFrom
  <2> QED
    BY <1>2, <2>4, <2>5
<1> QED
  BY <1>3, <1>4 DEF Finish

LEMMA ObservedNext == ObservedInv /\ [Next]_vars => ObservedInv'
<1> SUFFICES ASSUME ObservedInv, [Next]_vars PROVE ObservedInv' OBVIOUS
<1>1. GuardInv' /\ TypeOK'
  BY GuardNext DEF ObservedInv, GuardInv
<1>2. CASE UNCHANGED vars
  BY <1>1, <1>2 DEF vars, ObservedInv, CopyCurrent, Generations, Built, BuiltFrom, Exists
<1>3. CASE Next
  <2>1. CopyCurrent' /\ Generations' /\ Built'
    BY <1>1, <1>3, ObservedUsers, ObservedCluster, ObservedCalls, ObservedEnsureDeployment,
       ObservedReconcile, ObservedAddFinalizer, ObservedRecordExternalID, ObservedFinish,
       ObservedRemoveFinalizer DEF Next, Worker, CallStep
  <2> QED
    BY <1>1, <2>1 DEF ObservedInv
<1> QED
  BY <1>2, <1>3

LEMMA ObservedInit == Init => ObservedInv
<1> SUFFICES ASSUME Init PROVE ObservedInv OBVIOUS
<1>1. GuardInv
  BY GuardInit
<1> QED
  BY <1>1 DEF Init, ObservedInv, CopyCurrent, Generations, Built, Exists, NoTunnel

\* Synced=True at the current generation means that the Deployment runs that
\* generation of the spec, whatever is edited during a reconcile, however stale
\* the copy a reconcile works on is, and with an older reconcile's Deployment
\* still in place: no assumption about the platform, the panel or the cache.
THEOREM DeployedIsObserved == Spec => []DeployedSpecIsObserved
<1>1. ObservedInv => DeployedSpecIsObserved
  BY DEF ObservedInv, Built, BuiltFrom, DeployedSpecIsObserved
<1> QED
  BY <1>1, ObservedInit, ObservedNext, PTL DEF Spec
=============================================================================
