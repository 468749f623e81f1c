----------------------- MODULE TunnelRefinementProofs -----------------------
(***************************************************************************)
(* The Tunnel reconciler implements TunnelLifecycle, for every number of   *)
(* objects, edits and faults, under the hypotheses of NoOrphans.           *)
(***************************************************************************)
EXTENDS TunnelRefinement, TunnelOrphanProofs

USE DEF None, SetSynced, SetAgentAvailable, SetReady

-----------------------------------------------------------------------------
(* What the lifecycle sees of a state *)

Life == [uid |-> obj.uid, deleting |-> obj.deleting, id |-> obj.tid]
Rows == {[id |-> r.id, ext |-> r.ext] : r \in remote}

LEMMA StutterStep ==
    ASSUME Life' = Life, Rows' = Rows, UNCHANGED <<uids, issued>>
    PROVE  UNCHANGED Lifecycle!lifecycle
BY DEF Lifecycle!lifecycle, Life, Rows

LEMMA AppearStep ==
    ASSUME obj.uid = None, uids' = uids + 1, obj'.uid = uids + 1,
           obj'.deleting = FALSE, obj'.tid = None, Rows' = Rows, issued' = issued
    PROVE  Lifecycle!Appear("tunnel")
BY DEF Lifecycle!Appear, Lifecycle!Absent, Lifecycle!Nobody, Rows

LEMMA MarkDeletedStep ==
    ASSUME obj.uid # None, ~obj.deleting, obj'.uid = obj.uid, obj'.deleting = TRUE,
           obj'.tid = obj.tid, Rows' = Rows, UNCHANGED <<uids, issued>>
    PROVE  Lifecycle!MarkDeleted("tunnel")
BY DEF Lifecycle!MarkDeleted, Lifecycle!Nobody, Rows

LEMMA RecordStep ==
    ASSUME obj.uid # None, obj'.uid = obj.uid, obj'.deleting = obj.deleting,
           NEW r \in remote, r.ext = obj.uid, obj'.tid = r.id,
           Rows' = Rows, UNCHANGED <<uids, issued>>
    PROVE  Lifecycle!Record("tunnel")
<1>1. [id |-> r.id, ext |-> r.ext] \in Lifecycle!TunnelsOf("tunnel")
  BY DEF Lifecycle!TunnelsOf
<1> QED
  BY <1>1 DEF Lifecycle!Record, Lifecycle!Nobody, Rows

LEMMA RotateStep ==
    ASSUME Life' = Life, Rows' = Rows, uids' = uids, issued' = issued + 1
    PROVE  Lifecycle!Rotate
BY DEF Lifecycle!Rotate, Life, Rows

LEMMA PublishStep ==
    ASSUME obj.uid # None, remote = {}, obj.tid = None, Life' = Life, uids' = uids,
           issued' = issued + 1, Rows' = {[id |-> issued + 1, ext |-> obj.uid]}
    PROVE  Lifecycle!Publish("tunnel")
BY DEF Lifecycle!Publish, Lifecycle!TunnelsOf, Lifecycle!Nobody, Life, Rows

LEMMA WithdrawStep ==
    ASSUME obj.uid # None, obj.deleting, NEW r \in remote, r.ext = obj.uid,
           Rows' = Rows \ {[id |-> r.id, ext |-> r.ext]}, Life' = Life, UNCHANGED <<uids, issued>>
    PROVE  Lifecycle!Withdraw("tunnel")
<1>1. [id |-> r.id, ext |-> r.ext] \in Lifecycle!TunnelsOf("tunnel")
  BY DEF Lifecycle!TunnelsOf
<1> QED
  BY <1>1 DEF Lifecycle!Withdraw, Lifecycle!Nobody, Life, Rows

LEMMA VanishStep ==
    ASSUME obj.uid # None, remote = {}, obj' = NoTunnel, UNCHANGED <<remote, uids, issued>>
    PROVE  Lifecycle!Vanish("tunnel")
BY DEF Lifecycle!Vanish, Lifecycle!TunnelsOf, Lifecycle!Absent, Lifecycle!Nobody, NoTunnel

-----------------------------------------------------------------------------
(* The identifier stays in the status *)

\* A status write never takes the identifier out of the object it was read from.
TidKept == pc # "idle" /\ t.rv = obj.rv /\ obj.tid # None => t.tid # None

LifeInv == OrphanInv /\ ObservedInv /\ TidKept

LEMMA TidNext ==
    ASSUME LifeInv, ObservedInv', Next
    PROVE  TidKept'
<1> SUFFICES ASSUME pc' = "finish", t'.rv = obj'.rv, obj'.tid # None PROVE t'.tid # None
  BY DEF TidKept, ObservedInv, CopyCurrent
<1>1. GuardInv /\ TypeOK /\ LocalKnown /\ CopyCurrent
  BY DEF LifeInv, OrphanInv, ObservedInv, GuardInv
<1>2. ASSUME t'.rv = t.rv, pc # "idle" PROVE obj' = obj
  <2>1. t.rv <= rev /\ t.rv \in Nat /\ rev \in Nat
    BY <1>1, <1>2 DEF GuardInv, Working, TypeOK, Tunnel
  <2>2. obj' = obj \/ obj' = NoTunnel \/ obj'.rv = rev + 1
    BY <1>1, FreshVersion
  <2>3. obj'.rv # rev + 1 /\ obj' # NoTunnel
    BY <1>2, <2>1 DEF NoTunnel
  <2> QED
    BY <2>2, <2>3
<1>3. ASSUME pc # "idle", t'.rv = t.rv, t'.tid = t.tid PROVE t'.tid # None
  BY <1>2, <1>3 DEF LifeInv, TidKept
<1>4. CASE UNCHANGED <<pc, t>>
  BY <1>3, <1>4
<1>5. CASE Worker
  <2>1. CASE EnsureDeployment
    <3>1. t' = Synced(t) /\ pc = "ensureDeployment"
      BY <2>1 DEF EnsureDeployment, Return
    <3>2. t'.tid = loc.id
      BY <1>1, <3>1 DEF Synced, TypeOK, Tunnel
    <3>3. loc.id # None
      BY <1>1, <3>1 DEF LocalKnown, TypeOK, TunnelRow
    <3> QED
      BY <3>2, <3>3
  <2>2. CASE RecordExternalID
    <3>1. pc # "idle" /\ t'.rv = t.rv /\ t'.tid = t.tid
      BY <1>1, <2>2 DEF RecordExternalID, Fail, TypeOK, Tunnel
    <3> QED
      BY <1>3, <3>1
  <2>3. CASE CallStep /\ ~EnsureDeployment
    <3>1. pc # "idle" /\ SameCopy
      BY <1>1, <2>3, CallStepCopy
    <3>2. t'.tid = t.tid
      BY <1>1, <2>3, FailTid
         DEF CallStep, ClientFor, ReadTunnel, CallCreateTunnel, ReadCreated, CheckSecret,
             CallRotateToken, WriteSecret, DeleteClientFor, CallFindTunnel, CallDeleteTunnel,
             BeforeCreate, AfterDeleteClient, Return, TypeOK, Tunnel
    <3> QED
      BY <1>3, <3>1, <3>2 DEF SameCopy
  <2>4. CASE Reconcile \/ AddFinalizer \/ Finish \/ RemoveFinalizer
    BY <1>1, <2>4, DispatchCases DEF Reconcile, AddFinalizer, Finish, RemoveFinalizer, Return, TypeOK
  <2> QED
    BY <1>5, <2>1, <2>2, <2>3, <2>4 DEF Worker, CallStep
<1>6. CASE ~Worker
  <2>1. UNCHANGED <<pc, t>>
    BY <1>6 DEF Next, UserCreate, UserDelete, ReleaseOther, UserEdit, UserSpoilsSecret,
             UserChangesCredential, PanelDelete, LateCreate, Deliver, DeliverSecret,
             CollectSecret, CollectDeployment, PodStop, PodFail, PodStart, Handshake, Restart, worker
  <2> QED
    BY <1>4, <2>1
<1> QED
  BY <1>5, <1>6

LEMMA LifeInvNext ==
    ASSUME ~PanelDeletes, ~LateCreates, ~BareNotFounds, SeesAll, LifeInv, [Next]_vars
    PROVE  LifeInv'
<1>1. OrphanInv' /\ ObservedInv'
  BY OrphanNext, ObservedNext DEF LifeInv
<1>2. TidKept'
  <2>1. CASE UNCHANGED vars
    BY <2>1 DEF vars, LifeInv, TidKept
  <2> QED
    BY <1>1, <2>1, TidNext
<1> QED
  BY <1>1, <1>2 DEF LifeInv

-----------------------------------------------------------------------------
(* Every step is a step of the lifecycle, or none *)

LifeStep == Lifecycle!LifecycleNext \/ UNCHANGED Lifecycle!lifecycle

LEMMA LifeUsers ==
    ASSUME ~PanelDeletes, LifeInv,
           \/ UserCreate \/ UserDelete \/ ReleaseOther \/ UserEdit \/ UserSpoilsSecret
           \/ UserChangesCredential \/ PanelDelete \/ LateCreate
    PROVE  LifeStep
<1>1. ~PanelDelete /\ ~LateCreate
  BY DEF PanelDelete, LateCreate, LifeInv, OrphanInv
<1>2. UNCHANGED <<remote, issued>> /\ Rows' = Rows
  BY <1>1 DEF UserCreate, UserDelete, ReleaseOther, UserEdit, UserSpoilsSecret,
              UserChangesCredential, platform, Rows
<1>3. TypeOK /\ Versions /\ NoOrphan
  BY DEF LifeInv, OrphanInv, GuardInv
<1>4. CASE UserCreate
  <2>1. Lifecycle!Appear("tunnel")
    BY <1>2, <1>4, AppearStep DEF UserCreate, Exists, NoTunnel
  <2> QED
    BY <2>1 DEF LifeStep, Lifecycle!LifecycleNext
<1>5. CASE UserDelete
  <2>1. PICK other \in BOOLEAN :
           obj' = IF obj.fin \/ other
                  THEN [obj EXCEPT !.deleting = TRUE, !.other = other, !.rv = rev + 1]
                  ELSE NoTunnel
    BY <1>5 DEF UserDelete
  <2>2. obj.uid # None /\ ~obj.deleting /\ uids' = uids
    BY <1>5 DEF UserDelete, Exists
  <2>3. CASE obj.fin \/ other
    <3>1. obj'.uid = obj.uid /\ obj'.deleting = TRUE /\ obj'.tid = obj.tid
      BY <1>3, <2>1, <2>3 DEF TypeOK, Tunnel
    <3>2. Lifecycle!MarkDeleted("tunnel")
      BY <1>2, <2>2, <3>1, MarkDeletedStep
    <3> QED
      BY <3>2 DEF LifeStep, Lifecycle!LifecycleNext
  <2>4. CASE ~(obj.fin \/ other)
    <3>1. remote = {}
      BY <1>3, <2>4 DEF NoOrphan
    <3>2. Lifecycle!Vanish("tunnel")
      BY <1>2, <2>1, <2>2, <2>4, <3>1, VanishStep
    <3> QED
      BY <3>2 DEF LifeStep, Lifecycle!LifecycleNext
  <2> QED
    BY <2>3, <2>4
<1>6. CASE ReleaseOther
  <2>1. obj.uid # None /\ uids' = uids
    BY <1>3, <1>6 DEF ReleaseOther, Versions, NoTunnel
  <2>2. CASE obj.fin
    <3>1. Life' = Life
      BY <1>3, <1>6, <2>2 DEF ReleaseOther, Life, TypeOK, Tunnel
    <3> QED
      BY <1>2, <2>1, <3>1, StutterStep DEF LifeStep
  <2>3. CASE ~obj.fin
    <3>1. remote = {} /\ obj' = NoTunnel
      BY <1>3, <1>6, <2>3 DEF ReleaseOther, NoOrphan
    <3>2. Lifecycle!Vanish("tunnel")
      BY <1>2, <2>1, <3>1, VanishStep
    <3> QED
      BY <3>2 DEF LifeStep, Lifecycle!LifecycleNext
  <2> QED
    BY <2>2, <2>3
<1>7. CASE UserEdit \/ UserSpoilsSecret \/ UserChangesCredential
  <2>1. Life' = Life /\ uids' = uids
    BY <1>3, <1>7 DEF UserEdit, UserSpoilsSecret, UserChangesCredential, Life, TypeOK, Tunnel, api
  <2> QED
    BY <1>2, <2>1, StutterStep DEF LifeStep
<1> QED
  BY <1>1, <1>4, <1>5, <1>6, <1>7

LEMMA LifeCluster ==
    ASSUME LifeInv,
           \/ Deliver \/ DeliverSecret \/ CollectSecret \/ CollectDeployment
           \/ PodStop \/ PodFail \/ PodStart \/ Handshake \/ Restart
    PROVE  LifeStep
<1>1. UNCHANGED <<obj, uids, issued>>
  BY DEF Deliver, DeliverSecret, CollectSecret, CollectDeployment, PodStop, PodFail, PodStart,
         Handshake, Restart, api, platform
<1>2. Rows' = Rows
  <2>1. CASE Handshake
    <3> DEFINE seen(r) == [r EXCEPT !.online = (pod.up /\ pod.token = r.token)]
    <3>1. remote' = {seen(r) : r \in remote}
      BY <2>1 DEF Handshake
    <3>2. \A r \in remote : seen(r).id = r.id /\ seen(r).ext = r.ext
      BY DEF LifeInv, OrphanInv, GuardInv, TypeOK, TunnelRow
    <3> HIDE DEF seen
    <3> QED
      BY <3>1, <3>2 DEF Rows
  <2>2. CASE ~Handshake
    BY <2>2 DEF Deliver, DeliverSecret, CollectSecret, CollectDeployment, PodStop, PodFail, PodStart,
                Restart, platform, Rows
  <2> QED
    BY <2>1, <2>2
<1>3. Life' = Life
  BY <1>1 DEF Life
<1> QED
  BY <1>1, <1>2, <1>3, StutterStep DEF LifeStep

\* The steps of a reconcile that only read, or write what the lifecycle does not
\* look at.
LEMMA LifeQuiet ==
    ASSUME LifeInv,
           \/ Reconcile \/ AddFinalizer \/ ClientFor \/ ReadTunnel \/ ReadCreated \/ CheckSecret
           \/ WriteSecret \/ EnsureDeployment \/ DeleteClientFor \/ CallFindTunnel
    PROVE  LifeStep
<1>1. UNCHANGED <<remote, issued, uids>>
  BY DEF Reconcile, AddFinalizer, ClientFor, ReadTunnel, ReadCreated, CheckSecret, WriteSecret,
         EnsureDeployment, DeleteClientFor, CallFindTunnel, platform, outside
<1>2. Life' = Life
  <2>1. CASE AddFinalizer
    BY <2>1 DEF AddFinalizer, Life, LifeInv, OrphanInv, GuardInv, TypeOK, Tunnel
  <2>2. CASE ~AddFinalizer
    BY <2>2 DEF Reconcile, ClientFor, ReadTunnel, ReadCreated, CheckSecret, WriteSecret,
                EnsureDeployment, DeleteClientFor, CallFindTunnel, api, Life
  <2> QED
    BY <2>1, <2>2
<1>3. Rows' = Rows
  BY <1>1 DEF Rows
<1> QED
  BY <1>1, <1>2, <1>3, StutterStep DEF LifeStep

\* A write of the status records the identifier of a tunnel that is there.
LEMMA LifeStatus ==
    ASSUME LifeInv, RecordExternalID \/ Finish
    PROVE  LifeStep
<1>1. UNCHANGED <<remote, issued, uids>> /\ Rows' = Rows /\ pc \in {"recordExternalID", "finish"}
  BY DEF RecordExternalID, Finish, platform, outside, Rows
<1>2. GuardInv /\ TypeOK /\ t \in Tunnel
  BY DEF LifeInv, OrphanInv, GuardInv, TypeOK
<1>3. CASE obj' = obj
  BY <1>1, <1>3, StutterStep DEF LifeStep, Life
<1>4. CASE obj' # obj
  <2>1. PICK new \in Tunnel : UpdateStatus(new) /\ new.tid = t.tid /\ (t.ext # None => new.ext # None)
    <3>1. CASE UpdateStatus([t EXCEPT !.ext = t.uid]) /\ pc = "recordExternalID"
      <4>1. [t EXCEPT !.ext = t.uid] \in Tunnel /\ [t EXCEPT !.ext = t.uid].tid = t.tid
        BY <1>2 DEF Tunnel
      <4>2. [t EXCEPT !.ext = t.uid].ext = t.uid /\ t.uid # None
        BY <1>1, <1>2 DEF Tunnel, GuardInv, Working
      <4> QED
        BY <3>1, <4>1, <4>2
    <3>2. CASE UpdateStatus([t EXCEPT !.obs = t.gen]) /\ pc = "finish"
      <4>1. /\ [t EXCEPT !.obs = t.gen] \in Tunnel /\ [t EXCEPT !.obs = t.gen].tid = t.tid
            /\ [t EXCEPT !.obs = t.gen].ext = t.ext
        BY <1>2 DEF Tunnel
      <4> QED
        BY <3>2, <4>1
    <3> QED
      BY <1>4, <3>1, <3>2 DEF RecordExternalID, Finish
  <2>2. t.rv = obj.rv
    BY <2>1 DEF UpdateStatus
  <2>3. t.uid = obj.uid /\ obj.uid # None /\ (obj.ext # None => new.ext # None)
    BY <1>1, <1>2, <2>1, <2>2 DEF GuardInv, Working
  <2>4. obj'.uid = obj.uid /\ obj'.deleting = obj.deleting /\ obj'.tid = t.tid
    BY <1>1, <1>2, <2>1, <2>3, StatusObjStep
  <2>5. CASE t.tid = None
    <3>1. obj.tid = None
      BY <1>1, <2>2, <2>5 DEF LifeInv, TidKept
    <3>2. Life' = Life
      BY <2>4, <2>5, <3>1 DEF Life
    <3> QED
      BY <1>1, <3>2, StutterStep DEF LifeStep
  <2>6. CASE t.tid # None
    <3>1. Recorded(t) /\ ~Closed(t.uid)
      BY <1>1 DEF LifeInv, OrphanInv, Closed, CreatePath, Labels, DeletePath
    <3>2. PICK r \in remote : r.ext = t.uid /\ r.id = t.tid
      BY <2>6, <3>1 DEF Recorded
    <3>3. Lifecycle!Record("tunnel")
      BY <1>1, <2>3, <2>4, <3>2, RecordStep
    <3> QED
      BY <3>3 DEF LifeStep, Lifecycle!LifecycleNext
  <2> QED
    BY <2>5, <2>6
<1> QED
  BY <1>3, <1>4

LEMMA LifeCreate ==
    ASSUME ~LateCreates, SeesAll, LifeInv, CallCreateTunnel
    PROVE  LifeStep
<1>1. UNCHANGED <<obj, uids>> /\ Life' = Life /\ pc = "createTunnel"
  BY DEF CallCreateTunnel, api, outside, Life
<1>2. CASE UNCHANGED <<remote, issued>>
  BY <1>1, <1>2, StutterStep DEF LifeStep, Rows
<1>3. CASE ~UNCHANGED <<remote, issued>>
  <2>1. /\ remote' = CreateTunnel(remote, loc.acct, t.uid, issued + 1)
        /\ issued' = IF remote' = remote THEN issued ELSE issued + 1
    BY <1>3 DEF CallCreateTunnel, platform
  <2>2. FindTunnelByExternalID(remote, loc.acct, t.uid) = {}
    BY <1>3, <2>1 DEF CreateTunnel
  <2>3. t.uid = obj.uid /\ obj.uid # None
    BY <1>1 DEF LifeInv, OrphanInv, GuardInv, Working, WorkHeld, CreatePath, Labels, DeletePath
  <2>4. remote = {}
    BY <1>1, <2>2, <2>3 DEF LifeInv, OrphanInv, NoOrphan, FindTunnelByExternalID, SeesAll, Calls
  <2>5. obj.tid = None
    <3>1. ~Closed(obj.uid)
      BY <1>1, <2>3 DEF Closed, CreatePath, Labels, DeletePath
    <3> QED
      BY <2>4, <3>1 DEF LifeInv, OrphanInv, Recorded
  <2> DEFINE n == [acct |-> loc.acct, id |-> issued + 1, ext |-> t.uid,
                   token |-> issued + 1, online |-> FALSE]
  <2>6. remote' = {n}
    BY <2>1, <2>2, <2>4 DEF CreateTunnel
  <2>7. issued' = issued + 1
    BY <2>1, <2>4, <2>6
  <2>8. Rows' = {[id |-> issued + 1, ext |-> obj.uid]}
    BY <2>3, <2>6 DEF Rows
  <2>9. Lifecycle!Publish("tunnel")
    BY <1>1, <2>3, <2>4, <2>5, <2>7, <2>8, PublishStep
  <2> QED
    BY <2>9 DEF LifeStep, Lifecycle!LifecycleNext
<1> QED
  BY <1>2, <1>3

LEMMA LifeRotate ==
    ASSUME LifeInv, CallRotateToken
    PROVE  LifeStep
<1>1. UNCHANGED <<obj, uids>> /\ Life' = Life
  BY DEF CallRotateToken, api, outside, Life
<1>2. CASE UNCHANGED <<remote, issued>>
  BY <1>1, <1>2, StutterStep DEF LifeStep, Rows
<1>3. CASE remote' = RotateToken(remote, loc.acct, loc.id, issued + 1) /\ issued' = issued + 1
  <2> DEFINE rotated(r) == IF r \in GetTunnel(remote, loc.acct, loc.id)
                           THEN [r EXCEPT !.token = issued + 1] ELSE r
  <2>1. remote' = {rotated(r) : r \in remote}
    BY <1>3 DEF RotateToken
  <2>2. \A r \in remote : rotated(r).id = r.id /\ rotated(r).ext = r.ext
    BY DEF LifeInv, OrphanInv, GuardInv, TypeOK, TunnelRow
  <2> HIDE DEF rotated
  <2>3. Rows' = Rows
    BY <2>1, <2>2 DEF Rows
  <2> QED
    BY <1>1, <1>3, <2>3, RotateStep DEF LifeStep, Lifecycle!LifecycleNext
<1> QED
  BY <1>2, <1>3 DEF CallRotateToken

\* The delete takes the one tunnel of an object that is being deleted.
LEMMA LifeDelete ==
    ASSUME SeesAll, LifeInv, CallDeleteTunnel
    PROVE  LifeStep
<1>1. UNCHANGED <<obj, uids, issued>> /\ Life' = Life /\ pc = "deleteTunnel"
  BY DEF CallDeleteTunnel, api, outside, Life
<1>2. CASE remote' = remote
  BY <1>1, <1>2, StutterStep DEF LifeStep, Rows
<1>3. CASE remote' # remote
  <2>1. remote' = DeleteTunnel(remote, loc.acct, loc.id)
    BY <1>3 DEF CallDeleteTunnel
  <2>2. PICK r \in remote : r.id = loc.id
    BY <1>3, <2>1 DEF DeleteTunnel, GetTunnel
  <2>3. r.ext = t.uid /\ r.ext = obj.uid /\ Closed(t.uid)
    BY <1>1, <2>2 DEF LifeInv, OrphanInv, Deleting, DeletePath, NoOrphan
  <2>4. obj.uid # None /\ obj.deleting
    BY <1>1, <2>3 DEF Closed, LifeInv, OrphanInv, GuardInv, Working
  <2>5. Rows' = Rows \ {[id |-> r.id, ext |-> r.ext]}
    <3>1. \A s \in remote : s.id = r.id => s.ext = r.ext
      BY DEF LifeInv, OrphanInv, Distinct
    <3>2. \A s : s \in remote' <=> s \in remote /\ s.id # r.id
      BY <1>1, <2>1, <2>2 DEF DeleteTunnel, GetTunnel, SeesAll, Calls
    <3> QED
      BY <3>1, <3>2 DEF Rows
  <2>6. Lifecycle!Withdraw("tunnel")
    BY <1>1, <2>3, <2>4, <2>5, WithdrawStep
  <2> QED
    BY <2>6 DEF LifeStep, Lifecycle!LifecycleNext
<1> QED
  BY <1>2, <1>3

\* The finalizer goes when nothing is left on the platform.
LEMMA LifeRemoveFinalizer ==
    ASSUME LifeInv, RemoveFinalizer
    PROVE  LifeStep
<1>1. UNCHANGED <<remote, issued, uids>> /\ Rows' = Rows /\ pc = "removeFinalizer"
  BY DEF RemoveFinalizer, platform, outside, Rows
<1>2. CASE obj' = obj
  BY <1>1, <1>2, StutterStep DEF LifeStep, Life
<1>3. CASE t.rv = obj.rv /\ obj' = WithoutFinalizer(obj, rev + 1)
  <2>1. CASE obj.other
    <3>1. Life' = Life
      BY <1>3, <2>1 DEF WithoutFinalizer, Life, LifeInv, OrphanInv, GuardInv, TypeOK, Tunnel
    <3> QED
      BY <1>1, <3>1, StutterStep DEF LifeStep
  <2>2. CASE ~obj.other
    <3>1. t.uid = obj.uid /\ obj.uid # None /\ (obj.ext # None => t.ext # None)
      BY <1>1, <1>3 DEF LifeInv, OrphanInv, GuardInv, Working
    <3>2. remote = {}
      BY <1>1, <3>1 DEF LifeInv, OrphanInv, NoOrphan, Deleting
    <3>3. Lifecycle!Vanish("tunnel")
      BY <1>1, <1>3, <2>2, <3>1, <3>2, VanishStep DEF WithoutFinalizer
    <3> QED
      BY <3>3 DEF LifeStep, Lifecycle!LifecycleNext
  <2> QED
    BY <2>1, <2>2
<1> QED
  BY <1>2, <1>3 DEF RemoveFinalizer

LEMMA LifeNext ==
    ASSUME ~PanelDeletes, ~LateCreates, SeesAll, LifeInv, [Next]_vars
    PROVE  LifeStep
<1>1. CASE UNCHANGED vars
  BY <1>1, StutterStep DEF vars, Life, Rows, LifeStep
<1>2. CASE Worker
  BY <1>2, LifeQuiet, LifeStatus, LifeCreate, LifeRotate, LifeDelete, LifeRemoveFinalizer
     DEF Worker
<1> QED
  BY <1>1, <1>2, LifeUsers, LifeCluster DEF Next

\* The reconciler, with every fault, restart, edit and stale read the model has,
\* implements the life of a Tunnel as TunnelLifecycle states it, for every number
\* of objects, edits and faults: a tunnel is created once for an object, recorded
\* while it is there, withdrawn only when the object is being deleted, and gone
\* before the object.  Excluded are credentials that lead to different accounts,
\* and what the operator cannot see coming: the panel, a create applied after it
\* was given up on, and a proxy's 404.
THEOREM RefinesLifecycle ==
    ASSUME OneAccount, ~PanelDeletes, ~LateCreates, ~BareNotFounds
    PROVE  Spec => ImplementsLifecycle
<1>1. Init => LifeInv
  <2> SUFFICES ASSUME Init PROVE LifeInv OBVIOUS
  <2>1. OrphanInv /\ ObservedInv
    BY OrphanInit, ObservedInit
  <2> QED
    BY <2>1 DEF Init, LifeInv, TidKept
<1>2. Init => Lifecycle!LifecycleInit
  BY DEF Init, NoTunnel, Lifecycle!LifecycleInit, Lifecycle!Absent, Lifecycle!Nobody
<1>3. SeesAll /\ LifeInv /\ [Next]_vars => LifeInv'
  BY LifeInvNext
<1>4. SeesAll /\ LifeInv /\ [Next]_vars => [Lifecycle!LifecycleNext]_(Lifecycle!lifecycle)
  BY LifeNext DEF LifeStep
<1> QED
  BY <1>1, <1>2, <1>3, <1>4, AlwaysSeesAll, PTL DEF Spec, ImplementsLifecycle, Lifecycle!LifecycleSpec
=============================================================================
