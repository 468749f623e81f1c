---------------------------- MODULE ClientCache ----------------------------
(***************************************************************************)
(* CachedClientFactory (internal/controller/apiclient.go): the platform    *)
(* clients shared by the reconcilers, one per credential.                  *)
(*                                                                         *)
(* A call reads the credential Secret, and only then takes the mutex; the  *)
(* Secret may be rewritten in between, and other reconciles may be at any  *)
(* point of the same call.  A Secret maps the names of its entries to      *)
(* values; one entry stands for the pair client_id and client_secret that  *)
(* a reference names, the two being read, checked and used together.       *)
(***************************************************************************)
EXTENDS Naturals

CONSTANTS
    Workers,      \* the reconciles that may run at the same time
    Secrets,      \* credential Secrets, by namespace and name
    Names,        \* entry names a reference may give; "" leaves it to the default
    Endpoints,    \* values of spec.endpoints: token URL, API and project
    Values,       \* what an entry may hold
    MaxRevision   \* how many times Secrets are written

DefaultName == "client_id"

ASSUME CacheAssumption ==
    /\ Names \subseteq STRING
    /\ 0 \notin Values
    /\ MaxRevision \in Nat

VARIABLES
    data,     \* the Secrets as the manager's cached client reads them
    rev,      \* the last resourceVersion given to a Secret
    clients,  \* the map of the factory, as a set of its entries
    built,    \* clients built so far, a new one being number built + 1
    call      \* the call each worker has in progress

vars == <<data, rev, clients, built, call>>

-----------------------------------------------------------------------------
(* State *)

Missing == 0   \* no such entry, or an empty one

\* The entry a reference means: an empty name is replaced by the default.
EntryName(n) == IF n = "" THEN DefaultName ELSE n

EntryNames == {EntryName(n) : n \in Names}
Contents   == [EntryNames -> Values \cup {Missing}]

\* A Secret whose rv is 0 does not exist.
SecretState == [rv : Nat, content : Contents]

\* What a Tunnel says: which Secret, under which name, against which endpoints.
Reference == [secret : Secrets, name : Names, ep : Endpoints]

Config == [cred : Values, ep : Endpoints]
Key    == [secret : Secrets, rv : Nat, ep : Endpoints]
Entry  == [key : Key, cfg : Config, n : Nat]

Idle    == [pc |-> "idle"]
Calling == [pc : {"lock"}, key : Key, cfg : Config]
Using   == [pc : {"using"}, key : Key, cfg : Config, client : Entry]

Empty == [n \in EntryNames |-> Missing]

TypeOK ==
    /\ data \in [Secrets -> SecretState]
    /\ rev \in Nat /\ built \in Nat
    /\ clients \in SUBSET Entry
    /\ call \in [Workers -> {Idle} \cup Calling \cup Using]

Init ==
    /\ data = [s \in Secrets |-> [rv |-> 0, content |-> Empty]]
    /\ rev = 0 /\ built = 0
    /\ clients = {}
    /\ call = [w \in Workers |-> Idle]

-----------------------------------------------------------------------------
(* ClientFor *)

\* Fault: an entry that is missing or empty is not refused.
ReadableWithoutEntry(ref) == data[ref.secret].rv # 0

\* The Secret exists and holds what the reference asks for: the three early
\* returns of configFor.
Readable(ref) ==
    /\ data[ref.secret].rv # 0
    /\ data[ref.secret].content[EntryName(ref.name)] # Missing

ConfigOf(ref) == [cred |-> data[ref.secret].content[EntryName(ref.name)], ep |-> ref.ep]

\* Fault: the version of the Secret is not part of the key.
KeyUnversioned(ref) == [secret |-> ref.secret, rv |-> 0, ep |-> ref.ep]

KeyOf(ref) == [secret |-> ref.secret, rv |-> data[ref.secret].rv, ep |-> ref.ep]

ConfigFor(w) ==
    /\ call[w] = Idle
    /\ \E ref \in Reference :
          /\ Readable(ref)
          /\ call' = [call EXCEPT ![w] =
                         [pc |-> "lock", key |-> KeyOf(ref), cfg |-> ConfigOf(ref)]]
    /\ UNCHANGED <<data, rev, clients, built>>

\* Fault: a client is built for every call.
LookupNothing(key) == {}

Lookup(key) == {c \in clients : c.key = key}

\* nubulus.New talks to nobody: the token is fetched by the first request.
NewClient(key, cfg) == [key |-> key, cfg |-> cfg, n |-> built + 1]

\* The part under the mutex.
ClientFor(w) ==
    /\ call[w] # Idle /\ call[w].pc = "lock"
    /\ LET key == call[w].key
           cfg == call[w].cfg
           use(c) == call' = [call EXCEPT ![w] =
                                 [pc |-> "using", key |-> key, cfg |-> cfg, client |-> c]]
       IN  \/ /\ \E c \in Lookup(key) : use(c)
              /\ UNCHANGED <<clients, built>>
           \/ /\ Lookup(key) = {}
              /\ clients' = {c \in clients : c.key # key} \cup {NewClient(key, cfg)}
              /\ use(NewClient(key, cfg))
              /\ built' = built + 1
    /\ UNCHANGED <<data, rev>>

\* The reconcile that asked for the client returns.
Return(w) ==
    /\ call[w] # Idle /\ call[w].pc = "using"
    /\ call' = [call EXCEPT ![w] = Idle]
    /\ UNCHANGED <<data, rev, clients, built>>

-----------------------------------------------------------------------------
(* The cluster *)

\* A user writes a Secret: every write gets a resourceVersion of its own.
WriteSecret(s) ==
    /\ rev < MaxRevision
    /\ rev' = rev + 1
    /\ \E c \in Contents : data' = [data EXCEPT ![s] = [rv |-> rev + 1, content |-> c]]
    /\ UNCHANGED <<clients, built, call>>

DeleteSecret(s) ==
    /\ data[s].rv # 0
    /\ data' = [data EXCEPT ![s] = [rv |-> 0, content |-> Empty]]
    /\ UNCHANGED <<rev, clients, built, call>>

\* The operator restarts.
Restart ==
    /\ clients # {}
    /\ clients' = {} /\ built' = 0
    /\ call' = [w \in Workers |-> Idle]
    /\ UNCHANGED <<data, rev>>

Next ==
    \/ \E w \in Workers : ConfigFor(w) \/ ClientFor(w) \/ Return(w)
    \/ \E s \in Secrets : WriteSecret(s) \/ DeleteSecret(s)
    \/ Restart

Spec == Init /\ [][Next]_vars

-----------------------------------------------------------------------------
(* Properties *)

\* Whatever is rewritten between the read and the lock, the client a reconcile
\* gets authenticates with the credential that reconcile read and talks to the
\* endpoints it asked for.
ClientMatchesConfig ==
    \A w \in Workers :
        call[w] # Idle /\ call[w].pc = "using" => call[w].client.cfg = call[w].cfg

\* Reconciles holding clients for the same key hold the same client, so that
\* a credential has one token source however many reconciles race to build it.
TokenSourceShared ==
    \A v, w \in Workers :
        call[v] # Idle /\ call[v].pc = "using" /\ call[w] # Idle /\ call[w].pc = "using"
            /\ call[v].key = call[w].key
            => call[v].client = call[w].client
=============================================================================
