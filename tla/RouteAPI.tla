------------------------------ MODULE RouteAPI ------------------------------
(***************************************************************************)
(* The routes of the platform's tunnels, as internal/nubulus/tunnel.go     *)
(* uses them, and the comparison of a route with a spec                    *)
(* (internal/controller/tunnelroute_controller.go).  As with tunnels, the  *)
(* server is outside the repository and behaves as the client's comments   *)
(* and the test double say.                                                *)
(*                                                                         *)
(* A pointer or an optional field of the spec is a set: empty when it is   *)
(* nil, and otherwise the singleton of its value.                          *)
(***************************************************************************)
EXTENDS Naturals, Sequences

None == 0
DefaultPriority == 100

PortNumbers == 1 .. 65535

\* A host as it is written, or a Service by its name in the cluster's DNS.
Address  == [host : Seq(STRING) \cup (STRING \X {"svc"}), port : PortNumbers]

Types    == {"host", "path"}
Schemes  == {"http", "https"}
Identity == [type : Types, hostname : STRING, pathPrefix : STRING \cup {"/"}]

\* What an update can change.
Settings == [upstream : Address, scheme : Schemes, strip : BOOLEAN,
             priority : Nat, enabled : BOOLEAN]

\* A route as the platform stores it.  owner is not the platform's: it is the
\* uid of the TunnelRoute the route was created for.
RouteRow == [id : Nat, tunnel : Nat, ident : Identity, set : Settings, owner : Nat]

\* GET /tunnels/{id}/routes: the whole set.
ListRoutes(routes, tid) == {r \in routes : r.tunnel = tid}

\* POST: a route is born enabled, a priority of 0 reads as unset, and an empty
\* prefix is stored as "/".
NewRoute(id, tid, ident, in, owner) ==
    [id |-> id, tunnel |-> tid, owner |-> owner,
     ident |-> [ident EXCEPT !.pathPrefix = IF @ = "" THEN "/" ELSE @],
     set |-> [in EXCEPT !.enabled = TRUE,
                        !.priority = IF in.priority = 0 THEN DefaultPriority ELSE @]]

\* Fault: the fields are not pointers, so a zero value is left out of the body.
UpdatedOmitEmpty(row, fields, in) ==
    LET omitted == {f \in {"priority", "enabled"} :
                       IF f = "priority" THEN in.priority = 0 ELSE ~in.enabled}
    IN  [row EXCEPT !.set = [f \in DOMAIN row.set |->
                                IF f \in fields \ omitted THEN in[f] ELSE row.set[f]]]

\* PUT: the given fields change and the others are left alone.
Updated(row, fields, in) ==
    [row EXCEPT !.set = [f \in DOMAIN row.set |-> IF f \in fields THEN in[f] ELSE row.set[f]]]

\* DELETE: a route of this tunnel, or a 404.
DeleteRoute(routes, tid, id) == {r \in routes : ~(r.tunnel = tid /\ r.id = id)}

-----------------------------------------------------------------------------
(* A spec in the platform's terms *)

RouteType(spec) == IF spec.type = "" THEN "host" ELSE spec.type

\* Fault: the prefix is compared as it is written.
PathPrefixVerbatim(spec) == spec.pathPrefix

\* The platform stores "/" for a host route, which the spec leaves empty.
PathPrefix(spec) == IF spec.pathPrefix = "" THEN "/" ELSE spec.pathPrefix

Priority(spec) == IF spec.priority = {} THEN DefaultPriority ELSE CHOOSE p \in spec.priority : TRUE

Enabled(spec) == spec.enabled # {FALSE}

UpstreamScheme(spec) == IF spec.scheme = "" THEN "http" ELSE spec.scheme

IdentityOf(spec) ==
    [type |-> RouteType(spec), hostname |-> spec.hostname, pathPrefix |-> PathPrefix(spec)]

SettingsOf(spec, addr) ==
    [upstream |-> addr, scheme |-> UpstreamScheme(spec), strip |-> spec.strip,
     priority |-> Priority(spec), enabled |-> Enabled(spec)]

IdentityChanged(row, spec) == row.ident # IdentityOf(spec)

\* The fields of the update that closes the gap.
RouteDrift(row, spec, addr) ==
    {f \in DOMAIN row.set : row.set[f] # SettingsOf(spec, addr)[f]}

\* The identifier in the status first, the hostname and the prefix otherwise.
\* The answer is the set of the routes findRoute may return.
FindRoute(routes, tid, rid, spec) ==
    LET listed == ListRoutes(routes, tid)
        named  == {r \in listed : rid # None /\ r.id = rid}
    IN  IF named # {} THEN named
        ELSE {r \in listed : /\ r.ident.hostname = spec.hostname
                             /\ r.ident.pathPrefix = PathPrefix(spec)}

\* Fault: a name is read as a number, and gives 0.
ServicePortUnnamed(ports, want) == {want.number : p \in ports}

\* servicePort: the number of the port with the wanted name or number, or none.
ServicePort(ports, want) ==
    {p.number : p \in {q \in ports : IF want.byName THEN q.name = want.name
                                                    ELSE q.number = want.number}}

\* A Service by its name in the cluster's DNS.
ClusterName(service) == <<service, "svc">>

\* resolveUpstream: empty when the Service or its port does not exist.
ResolveUpstream(services, spec) ==
    spec.upstream \cup
    UNION {{[host |-> ClusterName(s.name), port |-> n] : n \in ServicePort(services[s.name], s.port)}
             : s \in spec.service}
=============================================================================
