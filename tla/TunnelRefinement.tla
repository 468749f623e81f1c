-------------------------- MODULE TunnelRefinement --------------------------
(***************************************************************************)
(* The Tunnel reconciler implements TunnelLifecycle for the one name it is *)
(* modelled with.                                                          *)
(***************************************************************************)
EXTENDS TunnelController

Lifecycle == INSTANCE TunnelLifecycle
    WITH Refs    <- {"tunnel"},
         tun     <- [r \in {"tunnel"} |->
                        [uid |-> obj.uid, deleting |-> obj.deleting, id |-> obj.tid]],
         tunnels <- {[id |-> r.id, ext |-> r.ext] : r \in remote},
         born    <- uids

\* Every step of the reconciler, of the users and of the cluster is a step of
\* the life of a Tunnel or none at all: whatever fails, is retried or crashes,
\* a tunnel is created once, recorded while it is there, withdrawn only when its
\* object is being deleted, and gone before its object.
ImplementsLifecycle == Lifecycle!LifecycleSpec
=============================================================================
