------------------------------ MODULE MCRoute ------------------------------
(***************************************************************************)
(* Constants of RouteController for TLC.                                   *)
(***************************************************************************)
EXTENDS RouteController

MCHttp  == [name |-> "http", number |-> 80]
MCHttps == [name |-> "https", number |-> 443]

\* No Service, one that publishes http, and one that does not.
MCPortSets == {{}, {MCHttp}, {MCHttps}}

\* The Service is always there.
MCOnePort == {{MCHttp}}

\* The Service comes and goes.
MCTwoPorts == {{}, {MCHttp}}

MCByName == [byName |-> TRUE, name |-> "http", number |-> 0]

\* A host route to the port "http" of the Service "web".
MCHost ==
    [tunnelRef |-> "t1", hostname |-> "a.example", type |-> "host", pathPrefix |-> "",
     service |-> {[name |-> "web", port |-> MCByName]}, upstream |-> {},
     scheme |-> "http", strip |-> FALSE, priority |-> {}, enabled |-> {}]

\* The same route with the two settings a create cannot express.
MCQuiet == [MCHost EXCEPT !.priority = {0}, !.enabled = {FALSE}]

\* Another identity, to an address that is not a Service.
MCPath ==
    [MCHost EXCEPT !.type = "path", !.pathPrefix = "/api", !.service = {},
                   !.upstream = {[host |-> <<"elsewhere">>, port |-> 8080]}]

\* Another tunnel.
MCMoved == [MCHost EXCEPT !.tunnelRef = "t2"]

\* One identity: edits change settings only.
MCOneIdentity == [n \in Names |-> {MCHost, MCQuiet}]

\* Two names that both want a.example.
MCSameHost == [n \in Names |-> {MCHost}]

\* Edits that change the identity.
MCTwoIdentities == [n \in Names |-> {MCQuiet, MCPath}]

\* Edits that change the Tunnel.
MCTwoTunnels == [n \in Names |-> {MCHost, MCMoved}]
=============================================================================
