-------------------------- MODULE TunnelLifecycle --------------------------
(***************************************************************************)
(* What the Tunnel reconciler promises to the rest of the operator, for    *)
(* the Tunnels of a namespace: a platform tunnel is created for an object  *)
(* that exists, its identifier is recorded in the object while the tunnel  *)
(* is there, the tunnel is withdrawn only when the object is being         *)
(* deleted, and the object goes only after its tunnel.                     *)
(*                                                                         *)
(* TunnelController implements it (TunnelRefinement) as long as all        *)
(* credentials lead to one account and nobody changes that account behind  *)
(* its back.  RouteController is written against it.                       *)
(***************************************************************************)
EXTENDS Naturals

CONSTANT Refs      \* the names of the Tunnels

VARIABLES
    tun,      \* the Tunnel object of each name: uid, deleting and status.tunnelID
    tunnels,  \* the tunnels of the account: identifier and external id
    born,     \* Tunnel objects created so far; the last uid
    issued    \* the last identifier or credential the platform gave out

lifecycle == <<tun, tunnels, born, issued>>

Nobody == 0

TunnelObject == [uid : Nat, deleting : BOOLEAN, id : Nat]
Absent == [uid |-> Nobody, deleting |-> FALSE, id |-> Nobody]

LifecycleTypeOK ==
    /\ tun \in [Refs -> TunnelObject]
    /\ tunnels \in SUBSET [id : Nat, ext : Nat]
    /\ born \in Nat /\ issued \in Nat

LifecycleInit ==
    /\ tun = [r \in Refs |-> Absent]
    /\ tunnels = {}
    /\ born = 0 /\ issued = 0

\* The tunnels created for the object of r.
TunnelsOf(r) == {x \in tunnels : x.ext = tun[r].uid}

\* A user applies the Tunnel.
Appear(r) ==
    /\ tun[r].uid = Nobody
    /\ born' = born + 1
    /\ tun' = [tun EXCEPT ![r] = [Absent EXCEPT !.uid = born + 1]]
    /\ UNCHANGED <<tunnels, issued>>

\* A user deletes it: the finalizer keeps it around.
MarkDeleted(r) ==
    /\ tun[r].uid # Nobody /\ ~tun[r].deleting
    /\ tun' = [tun EXCEPT ![r].deleting = TRUE]
    /\ UNCHANGED <<tunnels, born, issued>>

\* The create: one tunnel for an object, before its identifier is known to it.
\* A create under way when the object is deleted is still made.
Publish(r) ==
    /\ tun[r].uid # Nobody /\ TunnelsOf(r) = {}
    /\ tun[r].deleting => tun[r].id = Nobody
    /\ issued' = issued + 1
    /\ tunnels' = tunnels \cup {[id |-> issued + 1, ext |-> tun[r].uid]}
    /\ UNCHANGED <<tun, born>>

\* The status names the tunnel of the object.
Record(r) ==
    /\ tun[r].uid # Nobody
    /\ \E x \in TunnelsOf(r) : tun' = [tun EXCEPT ![r].id = x.id]
    /\ UNCHANGED <<tunnels, born, issued>>

\* A credential is issued.
Rotate ==
    /\ issued' = issued + 1
    /\ UNCHANGED <<tun, tunnels, born>>

\* The delete: never while the object is wanted.
Withdraw(r) ==
    /\ tun[r].uid # Nobody /\ tun[r].deleting
    /\ \E x \in TunnelsOf(r) : tunnels' = tunnels \ {x}
    /\ UNCHANGED <<tun, born, issued>>

\* The object goes, and nothing of it is left on the platform.
Vanish(r) ==
    /\ tun[r].uid # Nobody /\ TunnelsOf(r) = {}
    /\ tun' = [tun EXCEPT ![r] = Absent]
    /\ UNCHANGED <<tunnels, born, issued>>

LifecycleNext ==
    \/ Rotate
    \/ \E r \in Refs : \/ Appear(r) \/ MarkDeleted(r) \/ Publish(r) \/ Record(r)
                       \/ Withdraw(r) \/ Vanish(r)

LifecycleSpec == LifecycleInit /\ [][LifecycleNext]_lifecycle
=============================================================================
