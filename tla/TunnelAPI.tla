----------------------------- MODULE TunnelAPI -----------------------------
(***************************************************************************)
(* The platform's tunnel collection as internal/nubulus/tunnel.go uses it: *)
(* what each call of TunnelClient does to the platform's set of tunnels    *)
(* and what it answers.  The server itself is outside the repository; its  *)
(* behaviour is the one the client's comments measure and the test double  *)
(* (internal/controller/fakeapi_test.go) reproduces.                       *)
(*                                                                         *)
(* Identifiers and tokens are numbers.  None is Go's empty string.         *)
(***************************************************************************)
EXTENDS Naturals

None == 0

\* A tunnel as the platform stores it: the account it is in, its identifier, the
\* caller's external id, the one credential that is valid now, and whether the
\* last handshake makes it "online".
TunnelRow == [acct : Nat, id : Nat \ {None}, ext : Nat, token : Nat \ {None}, online : BOOLEAN]

\* GET /tunnels/{id}: the answer is empty for a 404.  Here and below a caller
\* sees and changes nothing but the tunnels of its own account.
GetTunnel(tunnels, acct, id) == {r \in tunnels : r.acct = acct /\ r.id = id}

\* GET /tunnels?external_id=: an empty list is an answer, not an error.
FindTunnelByExternalID(tunnels, acct, ext) == {r \in tunnels : r.acct = acct /\ r.ext = ext}

\* POST /tunnels: adopts the tunnel already carrying the external id, or makes
\* one.  The identifier and the credential of a new tunnel are both `fresh`.
CreateTunnel(tunnels, acct, ext, fresh) ==
    IF FindTunnelByExternalID(tunnels, acct, ext) # {}
    THEN tunnels
    ELSE tunnels \cup
         {[acct |-> acct, id |-> fresh, ext |-> ext, token |-> fresh, online |-> FALSE]}

\* CreateTunnelResult: an adoption identifies the tunnel and carries no token.
CreateTunnelResult(tunnels, acct, ext, fresh) ==
    IF FindTunnelByExternalID(tunnels, acct, ext) # {}
    THEN {[id |-> r.id, token |-> None] : r \in FindTunnelByExternalID(tunnels, acct, ext)}
    ELSE {[id |-> fresh, token |-> fresh]}

\* Fault: a rotation leaves the tunnel without a credential.
RotateTokenEmpty(tunnels, acct, id, fresh) ==
    {IF r \in GetTunnel(tunnels, acct, id) THEN [r EXCEPT !.token = None] ELSE r : r \in tunnels}

\* POST /tunnels/{id}/rotate-token: the old credential stops being valid.
RotateToken(tunnels, acct, id, fresh) ==
    {IF r \in GetTunnel(tunnels, acct, id) THEN [r EXCEPT !.token = fresh] ELSE r : r \in tunnels}

\* DELETE /tunnels/{id}: the tunnel and everything hanging off it.
DeleteTunnel(tunnels, acct, id) == tunnels \ GetTunnel(tunnels, acct, id)
=============================================================================
