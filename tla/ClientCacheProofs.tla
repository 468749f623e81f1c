------------------------- MODULE ClientCacheProofs -------------------------
(***************************************************************************)
(* Theorems about ClientCache, for any number of reconciles, Secrets,      *)
(* endpoints and rewrites.                                                 *)
(***************************************************************************)
EXTENDS ClientCache, TLAPS

USE DEF NewClient

Active(w) == call[w] # Idle

LEMMA EntryNameType == \A n \in Names : EntryName(n) \in EntryNames
BY DEF EntryNames

LEMMA ConfigType ==
    ASSUME TypeOK, NEW ref \in Reference, Readable(ref)
    PROVE  KeyOf(ref) \in Key /\ ConfigOf(ref) \in Config
<1>1. data[ref.secret] \in SecretState /\ EntryName(ref.name) \in EntryNames
  BY EntryNameType DEF TypeOK, Reference
<1>2. data[ref.secret].content[EntryName(ref.name)] \in Values
  BY <1>1 DEF SecretState, Contents, Readable
<1> QED
  BY <1>1, <1>2 DEF KeyOf, ConfigOf, Key, Config, Reference, SecretState

\* What a step of a call leaves: the call's own record, nobody else's.
LEMMA CallShape ==
    ASSUME TypeOK, NEW w \in Workers
    PROVE  /\ Active(w) => call[w] \in Calling \cup Using
           /\ Active(w) /\ call[w].pc = "lock" => call[w] \in Calling
           /\ Active(w) /\ call[w].pc = "using" => call[w] \in Using
BY DEF TypeOK, Active, Calling, Using, Idle

LEMMA TypeNext == TypeOK /\ [Next]_vars => TypeOK'
<1> SUFFICES ASSUME TypeOK, [Next]_vars PROVE TypeOK' OBVIOUS
<1>1. ASSUME NEW w \in Workers, ConfigFor(w) PROVE TypeOK'
  <2>1. PICK ref \in Reference :
           /\ Readable(ref)
           /\ call' = [call EXCEPT ![w] =
                          [pc |-> "lock", key |-> KeyOf(ref), cfg |-> ConfigOf(ref)]]
    BY <1>1 DEF ConfigFor
  <2>2. [pc |-> "lock", key |-> KeyOf(ref), cfg |-> ConfigOf(ref)] \in Calling
    BY <2>1, ConfigType DEF Calling
  <2> QED
    BY <1>1, <2>1, <2>2 DEF ConfigFor, TypeOK
<1>2. ASSUME NEW w \in Workers, ClientFor(w) PROVE TypeOK'
  <2>1. call[w] \in Calling
    BY <1>2, CallShape DEF ClientFor, Active
  <2>2. call[w].key \in Key /\ call[w].cfg \in Config
    BY <2>1 DEF Calling
  <2> DEFINE new == [key |-> call[w].key, cfg |-> call[w].cfg, n |-> built + 1]
             used(c) == [pc |-> "using", key |-> call[w].key, cfg |-> call[w].cfg, client |-> c]
  <2>3. new \in Entry
    BY <2>2 DEF Entry, TypeOK
  <2>4. \A c \in Entry : used(c) \in Using
    BY <2>2 DEF Using
  <2>5. CASE Lookup(call[w].key) # {}
    BY <1>2, <2>4, <2>5 DEF ClientFor, Lookup, TypeOK
  <2>6. CASE Lookup(call[w].key) = {}
    BY <1>2, <2>3, <2>4, <2>6 DEF ClientFor, TypeOK
  <2> QED
    BY <2>5, <2>6
<1>3. ASSUME NEW w \in Workers, Return(w) PROVE TypeOK'
  BY <1>3 DEF Return, TypeOK
<1>4. ASSUME NEW s \in Secrets, WriteSecret(s) PROVE TypeOK'
  <2>1. \A c \in Contents : [rv |-> rev + 1, content |-> c] \in SecretState
    BY DEF SecretState, TypeOK
  <2> QED
    BY <1>4, <2>1 DEF WriteSecret, TypeOK
<1>5. ASSUME NEW s \in Secrets, DeleteSecret(s) PROVE TypeOK'
  <2>1. [rv |-> 0, content |-> Empty] \in SecretState
    BY DEF SecretState, Empty, Contents
  <2> QED
    BY <1>5, <2>1 DEF DeleteSecret, TypeOK
<1>6. CASE Restart
  BY <1>6 DEF Restart, TypeOK
<1>7. CASE UNCHANGED vars
  BY <1>7 DEF vars, TypeOK
<1> QED
  BY <1>1, <1>2, <1>3, <1>4, <1>5, <1>6, <1>7 DEF Next

LEMMA TypeInit == Init => TypeOK
BY DEF Init, TypeOK, SecretState, Empty, Contents

\* Every variable keeps its type, for any interleaving of the calls with rewrites,
\* deletions and restarts: in particular a call past configFor holds a credential
\* that is there, never a missing entry.
THEOREM TypeCorrect == Spec => []TypeOK
BY TypeInit, TypeNext, PTL DEF Spec

-----------------------------------------------------------------------------
(* One client per key *)

\* The map has one client per key, and a client in use is the one in the map.
Mapped ==
    /\ TypeOK
    /\ \A c, d \in clients : c.key = d.key => c = d
    /\ \A w \in Workers : Active(w) /\ call[w].pc = "using" =>
          call[w].client \in clients /\ call[w].client.key = call[w].key

LEMMA MappedNext == Mapped /\ [Next]_vars => Mapped'
<1> SUFFICES ASSUME Mapped, [Next]_vars PROVE Mapped' OBVIOUS
<1> USE DEF Active
<1>1. TypeOK /\ TypeOK'
  BY TypeNext DEF Mapped
<1>2. ASSUME NEW w \in Workers, ConfigFor(w) PROVE Mapped'
  BY <1>1, <1>2 DEF Mapped, ConfigFor, TypeOK
<1>3. ASSUME NEW w \in Workers, ClientFor(w) PROVE Mapped'
  <2> DEFINE new == [key |-> call[w].key, cfg |-> call[w].cfg, n |-> built + 1]
             used(c) == [pc |-> "using", key |-> call[w].key, cfg |-> call[w].cfg, client |-> c]
  <2>1. CASE Lookup(call[w].key) # {}
    <3>1. PICK c \in Lookup(call[w].key) : call' = [call EXCEPT ![w] = used(c)]
      BY <1>3, <2>1 DEF ClientFor
    <3>2. c \in clients /\ c.key = call[w].key /\ clients' = clients
      BY <1>3, <2>1, <3>1 DEF ClientFor, Lookup
    <3> QED
      BY <1>1, <3>1, <3>2 DEF Mapped, TypeOK
  <2>2. CASE Lookup(call[w].key) = {}
    <3>1. /\ clients' = clients \cup {new} /\ call' = [call EXCEPT ![w] = used(new)]
          /\ \A c \in clients : c.key # call[w].key
      BY <1>3, <2>2 DEF ClientFor, Lookup
    <3> QED
      BY <1>1, <3>1 DEF Mapped, TypeOK
  <2> QED
    BY <2>1, <2>2
<1>4. ASSUME NEW w \in Workers, Return(w) PROVE Mapped'
  BY <1>1, <1>4 DEF Mapped, Return, TypeOK
<1>5. ASSUME NEW s \in Secrets, WriteSecret(s) \/ DeleteSecret(s) PROVE Mapped'
  BY <1>1, <1>5 DEF Mapped, WriteSecret, DeleteSecret
<1>6. CASE Restart
  BY <1>1, <1>6 DEF Mapped, Restart
<1>7. CASE UNCHANGED vars
  BY <1>1, <1>7 DEF Mapped, vars
<1> QED
  BY <1>2, <1>3, <1>4, <1>5, <1>6, <1>7 DEF Next

LEMMA MappedInit == Init => Mapped
BY TypeInit DEF Init, Mapped, Active

\* However many reconciles race through ClientFor, those that end up with the
\* same key hold the same client, and so the same token source.
THEOREM OneTokenSource == Spec => []TokenSourceShared
<1>1. Mapped => TokenSourceShared
  BY DEF Mapped, TokenSourceShared, Active
<1> QED
  BY <1>1, MappedInit, MappedNext, PTL DEF Spec

-----------------------------------------------------------------------------
(* The right credential *)

\* Every reference to a Secret means the same entry of it.
OneName == \A m, n \in Names : EntryName(m) = EntryName(n)

\* A configuration somebody read under a key: it is in the map or in a call.
Known(key, cfg) ==
    \/ \E c \in clients : c.key = key /\ c.cfg = cfg
    \/ \E w \in Workers : Active(w) /\ call[w].key = key /\ call[w].cfg = cfg

\* What was read of the version a Secret has now is what it holds now.
UpToDate(key, cfg) ==
    /\ key.rv # 0 /\ key.rv <= rev
    /\ cfg.ep = key.ep
    /\ key.rv = data[key.secret].rv =>
          \A n \in Names : cfg.cred = data[key.secret].content[EntryName(n)]

MatchInv ==
    /\ Mapped
    /\ \A s \in Secrets : data[s].rv <= rev
    /\ \A key \in Key, cfg \in Config : Known(key, cfg) => UpToDate(key, cfg)
    /\ \A key \in Key, cfg, other \in Config :
          Known(key, cfg) /\ Known(key, other) => cfg = other

\* A step that makes nothing known and rewrites no Secret.
LEMMA MatchFrame ==
    ASSUME MatchInv, Mapped', UNCHANGED <<data, rev>>,
           \A key \in Key, cfg \in Config : Known(key, cfg)' => Known(key, cfg)
    PROVE  MatchInv'
<1>1. \A key \in Key, cfg \in Config : UpToDate(key, cfg) => UpToDate(key, cfg)'
  BY DEF UpToDate
<1> QED
  BY <1>1 DEF MatchInv

LEMMA MatchConfigFor ==
    ASSUME OneName, MatchInv, Mapped', NEW w \in Workers, ConfigFor(w)
    PROVE  MatchInv'
<1>1. PICK ref \in Reference :
         /\ Readable(ref)
         /\ call' = [call EXCEPT ![w] =
                        [pc |-> "lock", key |-> KeyOf(ref), cfg |-> ConfigOf(ref)]]
  BY DEF ConfigFor
<1>2. TypeOK /\ TypeOK' /\ UNCHANGED <<data, rev, clients>>
  BY DEF MatchInv, Mapped, ConfigFor
<1>3. KeyOf(ref) \in Key /\ ConfigOf(ref) \in Config
  BY <1>1, <1>2, ConfigType
<1>4. \A key \in Key, cfg \in Config :
         Known(key, cfg)' => Known(key, cfg) \/ (key = KeyOf(ref) /\ cfg = ConfigOf(ref))
  BY <1>1, <1>2 DEF Known, Active, TypeOK
<1>5. UpToDate(KeyOf(ref), ConfigOf(ref))
  <2>1. \A n \in Names : EntryName(n) = EntryName(ref.name)
    BY DEF OneName, Reference
  <2>2. ref.secret \in Secrets
    BY DEF Reference
  <2> QED
    BY <1>1, <2>1, <2>2 DEF UpToDate, KeyOf, ConfigOf, Readable, MatchInv
<1>6. \A cfg \in Config : Known(KeyOf(ref), cfg) => cfg = ConfigOf(ref)
  <2> SUFFICES ASSUME NEW cfg \in Config, Known(KeyOf(ref), cfg) PROVE cfg = ConfigOf(ref)
    OBVIOUS
  <2>1. UpToDate(KeyOf(ref), cfg)
    BY <1>3 DEF MatchInv
  <2>2. cfg.ep = ConfigOf(ref).ep /\ cfg.cred = ConfigOf(ref).cred
    BY <2>1 DEF UpToDate, KeyOf, ConfigOf, Reference
  <2> QED
    BY <1>3, <2>2 DEF Config
<1>7. \A key \in Key, cfg \in Config : UpToDate(key, cfg) => UpToDate(key, cfg)'
  BY <1>2 DEF UpToDate
<1>8. \A key \in Key, cfg \in Config : Known(key, cfg)' => UpToDate(key, cfg)'
  BY <1>4, <1>5, <1>7 DEF MatchInv
<1>9. \A key \in Key, cfg, other \in Config :
         Known(key, cfg)' /\ Known(key, other)' => cfg = other
  BY <1>4, <1>6 DEF MatchInv
<1> QED
  BY <1>2, <1>8, <1>9 DEF MatchInv

LEMMA MatchClientFor ==
    ASSUME MatchInv, Mapped', NEW w \in Workers, ClientFor(w)
    PROVE  MatchInv'
<1> DEFINE new == [key |-> call[w].key, cfg |-> call[w].cfg, n |-> built + 1]
           used(c) == [pc |-> "using", key |-> call[w].key, cfg |-> call[w].cfg, client |-> c]
<1>1. TypeOK /\ TypeOK' /\ UNCHANGED <<data, rev>> /\ Active(w)
  BY DEF MatchInv, Mapped, ClientFor, Active
<1>2. clients' \subseteq clients \cup {new} /\ \E c : call' = [call EXCEPT ![w] = used(c)]
  BY DEF ClientFor
<1>3. \A v \in Workers : Active(v)' =>
         Active(v) /\ call'[v].key = call[v].key /\ call'[v].cfg = call[v].cfg
  BY <1>1, <1>2 DEF Active, TypeOK
<1>4. \A key \in Key, cfg \in Config : Known(key, cfg)' => Known(key, cfg)
  BY <1>1, <1>2, <1>3 DEF Known
<1> QED
  BY <1>1, <1>4, MatchFrame

LEMMA MatchWriteSecret ==
    ASSUME MatchInv, Mapped', NEW s \in Secrets, WriteSecret(s)
    PROVE  MatchInv'
<1>1. TypeOK /\ rev' = rev + 1 /\ UNCHANGED <<clients, call>>
  BY DEF MatchInv, Mapped, WriteSecret
<1>2. \A z \in Secrets : data'[z] = data[z] \/ data'[z].rv = rev + 1
  BY <1>1 DEF WriteSecret, TypeOK
<1>3. \A z \in Secrets : data[z].rv \in Nat
  BY <1>1 DEF TypeOK, SecretState
<1>4. \A z \in Secrets : data'[z].rv <= rev'
  BY <1>1, <1>2, <1>3 DEF MatchInv, TypeOK
<1>5. \A key \in Key, cfg \in Config : Known(key, cfg)' <=> Known(key, cfg)
  BY <1>1 DEF Known, Active
<1>6. \A key \in Key, cfg \in Config : UpToDate(key, cfg) => UpToDate(key, cfg)'
  BY <1>1, <1>2 DEF UpToDate, Key, TypeOK
<1> QED
  BY <1>4, <1>5, <1>6 DEF MatchInv

LEMMA MatchDeleteSecret ==
    ASSUME MatchInv, Mapped', NEW s \in Secrets, DeleteSecret(s)
    PROVE  MatchInv'
<1>1. TypeOK /\ UNCHANGED <<rev, clients, call>>
  BY DEF MatchInv, Mapped, DeleteSecret
<1>2. \A z \in Secrets : data'[z] = data[z] \/ data'[z].rv = 0
  BY <1>1 DEF DeleteSecret, TypeOK
<1>3. \A z \in Secrets : data'[z].rv <= rev'
  BY <1>1, <1>2 DEF MatchInv, TypeOK
<1>4. \A key \in Key, cfg \in Config : Known(key, cfg)' <=> Known(key, cfg)
  BY <1>1 DEF Known, Active
<1>5. \A key \in Key, cfg \in Config : UpToDate(key, cfg) => UpToDate(key, cfg)'
  BY <1>1, <1>2 DEF UpToDate, Key, TypeOK
<1> QED
  BY <1>3, <1>4, <1>5 DEF MatchInv

LEMMA MatchNext == ASSUME OneName, MatchInv, [Next]_vars PROVE MatchInv'
<1>1. Mapped' /\ TypeOK
  BY MappedNext DEF MatchInv, Mapped
<1>2. ASSUME NEW w \in Workers, Return(w) PROVE MatchInv'
  <2>1. \A key \in Key, cfg \in Config : Known(key, cfg)' => Known(key, cfg)
    BY <1>1, <1>2 DEF Known, Active, Return, TypeOK
  <2> QED
    BY <1>1, <1>2, <2>1, MatchFrame DEF Return
<1>3. CASE Restart
  <2>1. \A key \in Key, cfg \in Config : ~Known(key, cfg)'
    BY <1>3 DEF Known, Active, Restart
  <2> QED
    BY <1>1, <1>3, <2>1, MatchFrame DEF Restart
<1>4. CASE UNCHANGED vars
  <2>1. \A key \in Key, cfg \in Config : Known(key, cfg)' => Known(key, cfg)
    BY <1>4 DEF Known, Active, vars
  <2> QED
    BY <1>1, <1>4, <2>1, MatchFrame DEF vars
<1> QED
  BY <1>1, <1>2, <1>3, <1>4, MatchConfigFor, MatchClientFor, MatchWriteSecret,
     MatchDeleteSecret DEF Next

LEMMA MatchInit == Init => MatchInv
<1> SUFFICES ASSUME Init PROVE MatchInv OBVIOUS
<1>1. Mapped
  BY MappedInit
<1>2. \A key \in Key, cfg \in Config : ~Known(key, cfg)
  BY DEF Init, Known, Active
<1>3. \A s \in Secrets : data[s].rv <= rev
  BY DEF Init
<1> QED
  BY <1>1, <1>2, <1>3 DEF MatchInv

\* A reconcile never gets a client built from another credential than the one it
\* read, whatever is rewritten or raced, provided that all references to a
\* Secret name the same entry of it: the key of the map leaves the name out.
THEOREM ClientMatches == ASSUME OneName PROVE Spec => []ClientMatchesConfig
<1>1. MatchInv => ClientMatchesConfig
  <2> SUFFICES ASSUME MatchInv, NEW w \in Workers, Active(w), call[w].pc = "using"
               PROVE  call[w].client.cfg = call[w].cfg
    BY DEF ClientMatchesConfig, Active
  <2>1. call[w] \in Using
    BY CallShape DEF MatchInv, Mapped
  <2>2. call[w].client \in clients /\ call[w].client.key = call[w].key
    BY DEF MatchInv, Mapped
  <2>3. call[w].key \in Key /\ call[w].cfg \in Config /\ call[w].client.cfg \in Config
    BY <2>1 DEF Using, Entry
  <2>4. Known(call[w].key, call[w].cfg) /\ Known(call[w].key, call[w].client.cfg)
    BY <2>2 DEF Known
  <2> QED
    BY <2>3, <2>4 DEF MatchInv
<1>2. MatchInv /\ [Next]_vars => MatchInv'
  BY MatchNext
<1> QED
  BY <1>1, <1>2, MatchInit, PTL DEF Spec
=============================================================================
