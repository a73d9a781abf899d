------------------------------ MODULE PartsProofs ------------------------------
(***************************************************************************)
(* What a relay keeps and answers, and the seven parts of MCParts.tla side *)
(* by side.                                                                *)
(* The registry, for any number of devices, keys and requests, any skew    *)
(* and times to live that satisfy the relations of the code's constants: a *)
(* request is accepted once, an identity in use stays listed, and the      *)
(* registry stays within its limits. The tunnels, for any number of        *)
(* requests and clients: they stay counted and within both limits. The     *)
(* lookup at two relays, for any periods that the code's satisfy: a device *)
(* that stayed for a while is found where it is.                           *)
(* The parts share no variable, and a step of the whole is a step of one   *)
(* of them: so the whole implements the specification of each part, and    *)
(* keeps the types and promises that are proved of the part alone.         *)
(***************************************************************************)
EXTENDS MCParts, GroupsProofs, ConversationProofs, TransferProofs, FiniteSetTheorems,
        SequenceTheorems, TLAPS

(* As much of the types as the arguments need.                             *)
RelayShape ==
  /\ minute \in Nat
  /\ signed \in Seq([dev : Devices, key : 0..Ephemerals, ts : Int])
  /\ usedNonces \in [1..MaxRequests -> Int]
  /\ registry \in [Keys -> [at : Nat, identity : BOOLEAN] \cup {Nobody}]
  /\ listed \in [Devices -> Nat \cup {Nobody}]

LEMMA RelayInitShape == RelayInit => RelayShape
  BY RelayAssumption, EmptySeq DEF RelayInit, RelayShape

(* A request names keys of its own device, the identity's among them.      *)
LEMMA RequestedAreKeys ==
  ASSUME RelayShape, NEW n \in DOMAIN signed
  PROVE  /\ signed[n] \in [dev : Devices, key : 0..Ephemerals, ts : Int]
         /\ RequestedKeys(signed[n]) \subseteq Keys
         /\ <<signed[n].dev, 0>> \in RequestedKeys(signed[n])
         /\ \A k \in RequestedKeys(signed[n]) : k[1] = signed[n].dev
  <1>1. signed[n] \in [dev : Devices, key : 0..Ephemerals, ts : Int]
    BY LenProperties, ElementOfSeq DEF RelayShape
  <1> QED
    BY <1>1, RelayAssumption DEF RequestedKeys, Keys

(* The cap drops nothing but other keys of the device, and as many as      *)
(* exceed its share.                                                       *)
LEMMA CappedEntries ==
  ASSUME RelayShape, NEW d \in Devices, NEW keys, NEW reg \in Capped(d, keys)
  PROVE  \E drop \in SUBSET (HeldBy(d) \ keys) :
           /\ reg = [k \in Keys |-> IF k \in drop THEN Nobody ELSE registry[k]]
           /\ Entries(reg) = Entries(registry) \ drop
           /\ Cardinality(drop) = IF Excess(d, keys) > 0 THEN Excess(d, keys) ELSE 0
  <1>1. PICK drop \in SUBSET (HeldBy(d) \ keys) :
          /\ reg = [k \in Keys |-> IF k \in drop THEN Nobody ELSE registry[k]]
          /\ Cardinality(Entries(registry) \ Entries(reg))
               = IF Excess(d, keys) > 0 THEN Excess(d, keys) ELSE 0
    BY DEF Capped
  <1>2. Entries(reg) = Entries(registry) \ drop
    BY <1>1 DEF Entries, HeldBy
  <1>3. Entries(registry) \ Entries(reg) = drop
    BY <1>1, <1>2 DEF Entries, HeldBy
  <1> QED
    BY <1>1, <1>2, <1>3

LEMMA CappedShape ==
  ASSUME RelayShape, NEW d \in Devices, NEW keys, NEW reg \in Capped(d, keys)
  PROVE  reg \in [Keys -> [at : Nat, identity : BOOLEAN] \cup {Nobody}]
  BY CappedEntries DEF RelayShape

LEMMA RelayNextShape == ASSUME RelayShape, [RelayNext]_relayVars PROVE RelayShape'
  <1>1. CASE Minute
    BY <1>1 DEF RelayShape, Minute
  <1>2. ASSUME NEW d \in Devices, Connect(d) \/ Disconnect(d) PROVE RelayShape'
    BY <1>2 DEF RelayShape, Connect, Disconnect
  <1>3. ASSUME NEW d \in Devices, NEW key \in 0..Ephemerals, NEW off \in -Skew..Skew,
               SignRequest(d, key, minute + off)
        PROVE  RelayShape'
    <2>1. minute + off \in Int
      BY RelayAssumption DEF RelayShape
    <2>2. signed' \in Seq([dev : Devices, key : 0..Ephemerals, ts : Int])
      BY <1>3, <2>1, AppendProperties DEF RelayShape, SignRequest
    <2> QED
      BY <1>3, <2>2 DEF RelayShape, SignRequest
  <1>4. ASSUME NEW n \in 1..MaxRequests, Register(n) PROVE RelayShape'
    <2> DEFINE keys == RequestedKeys(signed[n])
    <2>1. n \in DOMAIN signed /\ signed[n].dev \in Devices
      BY <1>4, RequestedAreKeys DEF Register
    <2>2. PICK reg \in Capped(signed[n].dev, keys) :
            \/ registry' = reg /\ UNCHANGED listed
            \/ /\ registry' = [k \in Keys |->
                    IF k \in keys
                      THEN [at |-> minute, identity |-> k[2] = 0 /\ signed[n].key # 0]
                      ELSE reg[k]]
               /\ listed' = [listed EXCEPT ![signed[n].dev] =
                                IF signed[n].key # 0 THEN minute ELSE Nobody]
      BY <1>4 DEF Register
    <2>3. reg \in [Keys -> [at : Nat, identity : BOOLEAN] \cup {Nobody}]
      BY <2>1, CappedShape
    <2>4. registry' \in [Keys -> [at : Nat, identity : BOOLEAN] \cup {Nobody}]
      <3>1. CASE registry' = reg
        BY <2>3, <3>1
      <3>2. CASE registry' = [k \in Keys |->
                    IF k \in keys
                      THEN [at |-> minute, identity |-> k[2] = 0 /\ signed[n].key # 0]
                      ELSE reg[k]]
        <4>1. \A k \in Keys : [at |-> minute, identity |-> k[2] = 0 /\ signed[n].key # 0]
                                \in [at : Nat, identity : BOOLEAN]
          BY DEF RelayShape
        <4> QED
          BY <2>3, <3>2, <4>1
      <3> QED
        BY <2>2, <3>1, <3>2
    <2>5. listed' \in [Devices -> Nat \cup {Nobody}]
      BY <2>2 DEF RelayShape
    <2>6. usedNonces' \in [1..MaxRequests -> Int]
      <3>1. minute + NonceTtl \in Int
        BY RelayAssumption DEF RelayShape
      <3>2. usedNonces' = [usedNonces EXCEPT ![n] = minute + NonceTtl]
        BY <1>4 DEF Register, UseNonce
      <3> QED
        BY <3>1, <3>2 DEF RelayShape
    <2>7. minute' = minute /\ signed' = signed
      BY <1>4 DEF Register
    <2> QED
      BY <2>4, <2>5, <2>6, <2>7 DEF RelayShape
  <1>5. CASE UNCHANGED relayVars
    BY <1>5 DEF RelayShape, relayVars
  <1> QED
    BY <1>1, <1>2, <1>3, <1>4, <1>5 DEF RelayNext

-----------------------------------------------------------------------------
(* The exact types of the registry.                                        *)

LEMMA RelayConstants ==
  /\ Ephemerals \in Nat /\ Skew \in Nat /\ NonceTtl \in Nat
  /\ MaxMinutes \in Nat /\ MaxRequests \in Nat
  BY RelayAssumption

LEMMA RelayInitTypes == RelayInit => RelayTypeOK
  BY RelayConstants, EmptySeq DEF RelayInit, RelayTypeOK

(* A nonce lives NonceTtl after a minute within the bound.                 *)
LEMMA RelayStepTypes == ASSUME RelayTypeOK, [RelayNext]_relayVars PROVE RelayTypeOK'
  <1>0. RelayShape
    <2>1. Request \subseteq [dev : Devices, key : 0..Ephemerals, ts : Int]
      BY RelayConstants DEF Request
    <2>2. signed \in Seq([dev : Devices, key : 0..Ephemerals, ts : Int])
      BY <2>1, Widened DEF RelayTypeOK
    <2> QED BY <2>2, RelayConstants DEF RelayTypeOK, RelayShape, Listing
  <1>1. CASE Minute
    <2>1. minute' = minute + 1 /\ minute' \in 0..MaxMinutes
      BY <1>1, RelayConstants DEF Minute, RelayTypeOK
    <2>2. usedNonces' \in [1..MaxRequests -> 0..(MaxMinutes + NonceTtl)]
      BY <1>1, RelayConstants DEF Minute, RelayTypeOK
    <2>3. registry' \in [Keys -> Listing \cup {Nobody}]
      BY <1>1 DEF Minute, RelayTypeOK
    <2>4. \A k \in Keys : registry'[k] # Nobody /\ registry'[k].identity => k[2] = 0
      BY <1>1 DEF Minute, RelayTypeOK
    <2> QED BY <1>1, <2>1, <2>2, <2>3, <2>4 DEF Minute, RelayTypeOK
  <1>2. ASSUME NEW d \in Devices, Connect(d) PROVE RelayTypeOK'
    BY <1>2 DEF RelayTypeOK, Connect
  <1>3. ASSUME NEW d \in Devices, Disconnect(d) PROVE RelayTypeOK'
    BY <1>3 DEF RelayTypeOK, Disconnect
  <1>4. ASSUME NEW d \in Devices, NEW key \in 0..Ephemerals, NEW off \in -Skew..Skew,
               SignRequest(d, key, minute + off)
        PROVE  RelayTypeOK'
    <2>1. minute + off \in -Skew..(MaxMinutes + Skew)
      BY RelayConstants DEF RelayTypeOK
    <2>2. [dev |-> d, key |-> key, ts |-> minute + off] \in Request
      BY <2>1 DEF Request
    <2>3. signed' \in Seq(Request) /\ Len(signed') = Len(signed) + 1
      BY <1>4, <2>2, AppendProperties DEF RelayTypeOK, SignRequest
    <2>4. Len(signed') <= MaxRequests
      BY <1>4, <2>3, LenProperties, RelayConstants DEF RelayTypeOK, SignRequest
    <2> QED BY <1>4, <2>3, <2>4 DEF RelayTypeOK, SignRequest
  <1>5. ASSUME NEW n \in 1..MaxRequests, Register(n) PROVE RelayTypeOK'
    <2> DEFINE keys == RequestedKeys(signed[n])
               entry(k) == [at |-> minute, identity |-> k[2] = 0 /\ signed[n].key # 0]
    <2>1. n \in DOMAIN signed /\ signed[n].dev \in Devices
      BY <1>0, <1>5, RequestedAreKeys DEF Register
    <2>2. PICK reg \in Capped(signed[n].dev, keys) :
            \/ registry' = reg /\ UNCHANGED <<accepted, listed>>
            \/ /\ registry' = [k \in Keys |-> IF k \in keys THEN entry(k) ELSE reg[k]]
               /\ accepted' = accepted \cup {<<n, minute>>}
               /\ listed' = [listed EXCEPT ![signed[n].dev] =
                                IF signed[n].key # 0 THEN minute ELSE Nobody]
      BY <1>5 DEF Register
    <2>3. PICK drop \in SUBSET (HeldBy(signed[n].dev) \ keys) :
            reg = [k \in Keys |-> IF k \in drop THEN Nobody ELSE registry[k]]
      BY <1>0, <2>1, CappedEntries
    <2>4. /\ reg \in [Keys -> Listing \cup {Nobody}]
          /\ \A k \in Keys : reg[k] # Nobody /\ reg[k].identity => k[2] = 0
      BY <2>3 DEF RelayTypeOK
    <2>5. \A k \in Keys : entry(k) \in Listing /\ (entry(k).identity => k[2] = 0)
      BY DEF RelayTypeOK, Listing
    <2> HIDE DEF entry, keys
    <2>6. /\ registry' \in [Keys -> Listing \cup {Nobody}]
          /\ \A k \in Keys : registry'[k] # Nobody /\ registry'[k].identity => k[2] = 0
      <3>1. CASE registry' = reg
        BY <2>4, <3>1
      <3>2. CASE registry' = [k \in Keys |-> IF k \in keys THEN entry(k) ELSE reg[k]]
        BY <2>4, <2>5, <3>2
      <3> QED BY <2>2, <3>1, <3>2
    <2>7. accepted' \subseteq (1..MaxRequests) \X (0..MaxMinutes)
      BY <2>2 DEF RelayTypeOK
    <2>8. listed' \in [Devices -> (0..MaxMinutes) \cup {Nobody}]
      BY <2>2 DEF RelayTypeOK
    <2>9. usedNonces' \in [1..MaxRequests -> 0..(MaxMinutes + NonceTtl)]
      <3>1. usedNonces' = [usedNonces EXCEPT ![n] = minute + NonceTtl]
        BY <1>5 DEF Register, UseNonce
      <3>2. minute + NonceTtl \in 0..(MaxMinutes + NonceTtl)
        BY RelayConstants DEF RelayTypeOK
      <3> QED BY <3>1, <3>2 DEF RelayTypeOK
    <2>10. UNCHANGED <<minute, signed, online>>
      BY <1>5 DEF Register
    <2> QED BY <2>6, <2>7, <2>8, <2>9, <2>10 DEF RelayTypeOK
  <1>6. CASE UNCHANGED relayVars
    BY <1>6 DEF RelayTypeOK, relayVars
  <1> QED BY <1>1, <1>2, <1>3, <1>4, <1>5, <1>6 DEF RelayNext

(* Nonces, entries and requests stay what the relay's maps may hold, and   *)
(* only the entry under a device's identity is marked as one.              *)
THEOREM RelayTypeCorrect == RelaySpec => []RelayTypeOK
  BY RelayInitTypes, RelayStepTypes, PTL DEF RelaySpec

-----------------------------------------------------------------------------
(* A request is accepted once.                                             *)

(* A nonce is remembered for NonceTtl after any acceptance, and a request  *)
(* was fresh when it was accepted.                                         *)
NonceKept ==
  \A a \in accepted :
    /\ a[1] \in DOMAIN signed /\ a[1] \in 1..MaxRequests
    /\ a[2] \in Nat /\ a[2] <= minute
    /\ signed[a[1]].ts - a[2] <= Skew
    /\ minute < a[2] + NonceTtl => usedNonces[a[1]] >= a[2] + NonceTtl

OnceInv == RelayShape /\ NonceKept /\ AcceptedOnce

(* What the invariant says of one acceptance.                              *)
LEMMA AcceptanceFacts ==
  ASSUME RelayShape, NonceKept, NEW a \in accepted
  PROVE  /\ a[1] \in DOMAIN signed /\ a[1] \in 1..MaxRequests
         /\ a[2] \in Nat /\ a[2] <= minute /\ minute \in Nat
         /\ signed[a[1]].ts \in Int /\ signed[a[1]].ts - a[2] <= Skew
         /\ usedNonces[a[1]] \in Int
         /\ minute < a[2] + NonceTtl => usedNonces[a[1]] >= a[2] + NonceTtl
  <1>1. signed[a[1]].ts \in Int
    BY RequestedAreKeys DEF NonceKept
  <1> QED
    BY <1>1 DEF NonceKept, RelayShape

LEMMA SkewAndTtl == Skew \in Nat /\ NonceTtl \in Nat /\ Skew + Skew <= NonceTtl
  BY RelayAssumption

LEMMA SignedType ==
  ASSUME RelayShape, NEW n \in DOMAIN signed PROVE signed[n].ts \in Int
  BY RequestedAreKeys

LEMMA RelayNextOnce == OnceInv /\ [RelayNext]_relayVars => OnceInv'
  <1> SUFFICES ASSUME OnceInv, [RelayNext]_relayVars PROVE OnceInv'
    OBVIOUS
  <1> USE SkewAndTtl
  <1>0. RelayShape /\ RelayShape' /\ NonceKept
    BY RelayNextShape DEF OnceInv
  <1>1. CASE Minute
    <2>1. NonceKept'
      <3> SUFFICES ASSUME NEW a \in accepted
                   PROVE  /\ a[1] \in DOMAIN signed /\ a[1] \in 1..MaxRequests
                          /\ a[2] \in Nat /\ a[2] <= minute + 1
                          /\ signed[a[1]].ts - a[2] <= Skew
                          /\ minute + 1 < a[2] + NonceTtl
                               => usedNonces'[a[1]] >= a[2] + NonceTtl
        BY <1>1 DEF NonceKept, Minute
      <3>1. usedNonces'[a[1]] = IF usedNonces[a[1]] <= minute + 1 THEN 0 ELSE usedNonces[a[1]]
        BY <1>0, <1>1, AcceptanceFacts DEF Minute, RelayShape
      <3> QED
        BY <1>0, <3>1, AcceptanceFacts
    <2> QED
      BY <1>0, <1>1, <2>1 DEF OnceInv, AcceptedOnce, Minute
  <1>2. ASSUME UNCHANGED <<minute, signed, usedNonces, accepted>> PROVE OnceInv'
    BY <1>0, <1>2 DEF OnceInv, NonceKept, AcceptedOnce
  <1>3. ASSUME NEW d \in Devices, Connect(d) \/ Disconnect(d) PROVE OnceInv'
    BY <1>2, <1>3 DEF Connect, Disconnect
  <1>4. ASSUME NEW d \in Devices, NEW key \in 0..Ephemerals, NEW off \in -Skew..Skew,
               SignRequest(d, key, minute + off)
        PROVE  OnceInv'
    <2>1. [dev |-> d, key |-> key, ts |-> minute + off]
            \in [dev : Devices, key : 0..Ephemerals, ts : Int]
      BY <1>0 DEF RelayShape
    <2>2. \A n \in DOMAIN signed : n \in DOMAIN signed' /\ signed'[n] = signed[n]
      BY <1>0, <1>4, <2>1, AppendProperties, LenProperties DEF SignRequest, RelayShape
    <2>3. UNCHANGED <<minute, usedNonces, accepted>>
      BY <1>4 DEF SignRequest
    <2> QED
      BY <1>0, <2>2, <2>3 DEF OnceInv, NonceKept, AcceptedOnce
  <1>5. ASSUME NEW n \in 1..MaxRequests, Register(n) PROVE OnceInv'
    <2>1. /\ n \in DOMAIN signed /\ signed[n].ts - minute \in -Skew..Skew
          /\ usedNonces[n] = 0 /\ usedNonces' = [usedNonces EXCEPT ![n] = minute + NonceTtl]
          /\ UNCHANGED <<minute, signed>> /\ signed[n].ts \in Int
          /\ accepted' \in {accepted, accepted \cup {<<n, minute>>}}
      BY <1>0, <1>5, SignedType DEF Register, MayRegister, UseNonce
    <2>2. ASSUME NEW a \in accepted, a[1] = n
          PROVE  a[2] < minute => a[2] + Skew = signed[n].ts
      <3>1. minute >= a[2] + NonceTtl
        BY <1>0, <2>1, <2>2, AcceptanceFacts
      <3> QED
        BY <1>0, <2>1, <2>2, <3>1, AcceptanceFacts
    <2>3. NonceKept'
      <3> SUFFICES ASSUME NEW a \in accepted'
                   PROVE  /\ a[1] \in DOMAIN signed /\ a[1] \in 1..MaxRequests
                          /\ a[2] \in Nat /\ a[2] <= minute
                          /\ signed[a[1]].ts - a[2] <= Skew
                          /\ minute < a[2] + NonceTtl => usedNonces'[a[1]] >= a[2] + NonceTtl
        BY <2>1 DEF NonceKept
      <3>1. CASE a \in accepted
        <4>1. usedNonces'[a[1]] = IF a[1] = n THEN minute + NonceTtl ELSE usedNonces[a[1]]
          BY <1>0, <2>1, <3>1, AcceptanceFacts DEF RelayShape
        <4> QED
          BY <1>0, <3>1, <4>1, AcceptanceFacts
      <3>2. CASE a = <<n, minute>>
        BY <1>0, <2>1, <3>2 DEF RelayShape
      <3> QED
        BY <2>1, <3>1, <3>2
    <2>4. AcceptedOnce'
      <3> SUFFICES ASSUME NEW a \in accepted', NEW b \in accepted', a[1] = b[1], a[2] < b[2]
                   PROVE  a[2] + Skew = signed[a[1]].ts
        BY <2>1 DEF AcceptedOnce
      <3>1. CASE b \in accepted
        <4>1. a \in accepted
          BY <1>0, <2>1, <3>1, AcceptanceFacts
        <4> QED
          BY <3>1, <4>1 DEF OnceInv, AcceptedOnce
      <3>2. CASE b = <<n, minute>>
        <4>1. a \in accepted /\ a[1] = n /\ a[2] < minute
          <5>1. minute \in Nat /\ b[1] = n /\ b[2] = minute
            BY <1>0, <3>2 DEF RelayShape
          <5>2. a # <<n, minute>>
            BY <5>1
          <5> QED
            BY <2>1, <5>1, <5>2
        <4> QED
          BY <2>2, <4>1
      <3> QED
        BY <2>1, <3>1, <3>2
    <2> QED
      BY <1>0, <2>3, <2>4 DEF OnceInv
  <1>6. CASE UNCHANGED relayVars
    BY <1>2, <1>6 DEF relayVars
  <1> QED
    BY <1>1, <1>3, <1>4, <1>5, <1>6 DEF RelayNext

(* For any skew and a nonce kept for at least twice as long: a request is  *)
(* accepted a second time at most in the last instant of its freshness,    *)
(* and only if it came as early as the skew allows.                        *)
THEOREM RequestsRegisterOnce == RelaySpec => []AcceptedOnce
  <1>1. RelayInit => OnceInv
    BY RelayInitShape DEF RelayInit, OnceInv, NonceKept, AcceptedOnce
  <1>2. OnceInv => AcceptedOnce
    BY DEF OnceInv
  <1> QED
    BY <1>1, <1>2, RelayNextOnce, PTL DEF RelaySpec

-----------------------------------------------------------------------------
(* An identity in use stays listed.                                        *)

(* The identity's entry is as old as the registration that made it one.    *)
ListedThen ==
  \A d \in Devices :
    listed[d] # Nobody /\ minute - listed[d] <= RegistryTtl =>
      registry[<<d, 0>>] # Nobody /\ registry[<<d, 0>>] = [at |-> listed[d], identity |-> TRUE]

ListedInv == RelayShape /\ ListedThen

LEMMA IdentityIsKey == \A d \in Devices : <<d, 0>> \in Keys
  BY RelayAssumption DEF Keys

LEMMA RelayNextListed == ListedInv /\ [RelayNext]_relayVars => ListedInv'
  <1> SUFFICES ASSUME ListedInv, [RelayNext]_relayVars PROVE ListedInv'
    OBVIOUS
  <1>0. RelayShape /\ RelayShape' /\ ListedThen
    BY RelayNextShape DEF ListedInv
  <1>1. CASE Minute
    <2> SUFFICES ASSUME NEW d \in Devices, listed'[d] # Nobody,
                        minute' - listed'[d] <= RegistryTtl
                 PROVE  /\ registry'[<<d, 0>>] # Nobody
                        /\ registry'[<<d, 0>>] = [at |-> listed'[d], identity |-> TRUE]
      BY <1>0 DEF ListedInv, ListedThen
    <2>0. minute' = minute + 1 /\ UNCHANGED listed
      BY <1>1 DEF Minute
    <2>1. /\ listed[d] \in Nat /\ minute \in Nat /\ RegistryTtl \in Nat
          /\ minute' - listed[d] <= RegistryTtl
      BY <1>0, <2>0, RelayAssumption DEF RelayShape
    <2>2. registry[<<d, 0>>] # Nobody /\ registry[<<d, 0>>] = [at |-> listed[d], identity |-> TRUE]
      BY <1>0, <2>0, <2>1 DEF ListedThen
    <2>3. registry[<<d, 0>>].at = listed[d]
      BY <2>2
    <2>4. registry'[<<d, 0>>] = registry[<<d, 0>>]
      BY <1>1, <2>1, <2>3, IdentityIsKey DEF Minute
    <2> QED
      BY <2>0, <2>2, <2>4
  <1>2. ASSUME UNCHANGED <<minute, registry, listed>> PROVE ListedInv'
    BY <1>0, <1>2 DEF ListedInv, ListedThen
  <1>3. ASSUME NEW d \in Devices, Connect(d) PROVE ListedInv'
    BY <1>2, <1>3 DEF Connect
  <1>4. ASSUME NEW d \in Devices, Disconnect(d) PROVE ListedInv'
    <2> SUFFICES ASSUME NEW e \in Devices, listed[e] # Nobody, minute - listed[e] <= RegistryTtl
                 PROVE  /\ registry'[<<e, 0>>] # Nobody
                        /\ registry'[<<e, 0>>] = [at |-> listed[e], identity |-> TRUE]
      BY <1>0, <1>4 DEF ListedInv, ListedThen, Disconnect
    <2>1. registry[<<e, 0>>] # Nobody /\ registry[<<e, 0>>] = [at |-> listed[e], identity |-> TRUE]
      BY <1>0 DEF ListedThen
    <2>2. registry[<<e, 0>>].identity
      BY <2>1
    <2>3. registry'[<<e, 0>>] = registry[<<e, 0>>]
      BY <1>4, <2>2, IdentityIsKey DEF Disconnect
    <2> QED
      BY <2>1, <2>3
  <1>5. ASSUME NEW d \in Devices, NEW key \in 0..Ephemerals, NEW off \in -Skew..Skew,
               SignRequest(d, key, minute + off)
        PROVE  ListedInv'
    BY <1>2, <1>5 DEF SignRequest
  <1>6. ASSUME NEW n \in 1..MaxRequests, Register(n) PROVE ListedInv'
    <2> DEFINE r == signed[n]
               keys == RequestedKeys(r)
    <2>1. /\ n \in DOMAIN signed /\ r.dev \in Devices /\ keys \subseteq Keys
          /\ <<r.dev, 0>> \in keys /\ \A k \in keys : k[1] = r.dev
      BY <1>0, <1>6, RequestedAreKeys DEF Register
    <2>2. PICK reg \in Capped(r.dev, keys) :
            \/ registry' = reg /\ UNCHANGED listed
            \/ /\ registry' = [k \in Keys |->
                    IF k \in keys THEN [at |-> minute, identity |-> k[2] = 0 /\ r.key # 0]
                    ELSE reg[k]]
               /\ listed' = [listed EXCEPT ![r.dev] = IF r.key # 0 THEN minute ELSE Nobody]
      BY <1>6 DEF Register
    <2>3. PICK drop \in SUBSET (HeldBy(r.dev) \ keys) :
            reg = [k \in Keys |-> IF k \in drop THEN Nobody ELSE registry[k]]
      BY <1>0, <2>1, CappedEntries
    <2>4. ASSUME NEW e \in Devices PROVE reg[<<e, 0>>] = registry[<<e, 0>>]
      <3>1. <<e, 0>> \notin drop
        <4>1. CASE e = r.dev
          BY <2>1, <2>3, <4>1
        <4>2. CASE e # r.dev
          BY <2>3, <4>2 DEF HeldBy
        <4> QED
          BY <4>1, <4>2
      <3> QED
        BY <2>3, <3>1, IdentityIsKey
    <2>5. CASE registry' = reg /\ UNCHANGED listed
      BY <1>0, <1>6, <2>4, <2>5 DEF ListedInv, ListedThen, Register
    <2>6. CASE /\ registry' = [k \in Keys |->
                    IF k \in keys THEN [at |-> minute, identity |-> k[2] = 0 /\ r.key # 0]
                    ELSE reg[k]]
               /\ listed' = [listed EXCEPT ![r.dev] = IF r.key # 0 THEN minute ELSE Nobody]
      <3> SUFFICES ASSUME NEW e \in Devices, listed'[e] # Nobody, minute - listed'[e] <= RegistryTtl
                   PROVE  /\ registry'[<<e, 0>>] # Nobody
                          /\ registry'[<<e, 0>>] = [at |-> listed'[e], identity |-> TRUE]
        BY <1>0, <1>6 DEF ListedInv, ListedThen, Register
      <3>1. CASE e = r.dev
        <4>1. r.key # 0 /\ listed'[e] = minute
          BY <1>0, <2>1, <2>6, <3>1 DEF RelayShape
        <4>2. registry'[<<e, 0>>] = [at |-> minute, identity |-> TRUE]
          BY <2>1, <2>6, <3>1, <4>1, IdentityIsKey
        <4>3. [at |-> minute, identity |-> TRUE] # Nobody
          <5>1. [at |-> minute, identity |-> TRUE] \in [at : Nat, identity : BOOLEAN]
            BY <1>0 DEF RelayShape
          <5> QED
            BY <5>1, RelayAssumption
        <4> QED
          BY <4>1, <4>2, <4>3
      <3>2. CASE e # r.dev
        <4>1. <<e, 0>> \notin keys /\ listed'[e] = listed[e]
          BY <1>0, <2>1, <2>6, <3>2 DEF RelayShape
        <4>2. registry'[<<e, 0>>] = registry[<<e, 0>>]
          BY <2>4, <2>6, <4>1, IdentityIsKey
        <4> QED
          BY <1>0, <4>1, <4>2 DEF ListedThen
      <3> QED
        BY <3>1, <3>2
    <2> QED
      BY <2>2, <2>5, <2>6
  <1>7. CASE UNCHANGED relayVars
    BY <1>2, <1>7 DEF relayVars
  <1> QED
    BY <1>1, <1>3, <1>4, <1>5, <1>6, <1>7 DEF RelayNext

(* Neither other registrations, of the device or of others, nor            *)
(* disconnections, nor a full registry take an identity's entry before its *)
(* time.                                                                   *)
THEOREM IdentitiesStay == RelaySpec => []IdentityListed
  <1>1. RelayInit => ListedInv
    BY RelayInitShape DEF RelayInit, ListedInv, ListedThen
  <1>2. ListedInv => IdentityListed
    <2> SUFFICES ASSUME ListedInv, NEW d \in Devices,
                        listed[d] # Nobody, minute - listed[d] <= RegistryTtl
                 PROVE  registry[<<d, 0>>] # Nobody /\ registry[<<d, 0>>].identity
      BY DEF IdentityListed
    <2>1. /\ registry[<<d, 0>>] # Nobody
          /\ registry[<<d, 0>>] = [at |-> listed[d], identity |-> TRUE]
      BY DEF ListedInv, ListedThen
    <2> QED
      BY <2>1
  <1> QED
    BY <1>1, <1>2, RelayNextListed, PTL DEF RelaySpec

-----------------------------------------------------------------------------
(* The registry stays within its limits.                                   *)

BoundInv == RelayShape /\ IsFiniteSet(Entries(registry)) /\ RegistryBounded

LEMMA HeldFinite == ASSUME IsFiniteSet(Entries(registry)), NEW d PROVE IsFiniteSet(HeldBy(d))
  <1>1. HeldBy(d) \in SUBSET Entries(registry)
    BY DEF HeldBy, Entries
  <1> QED
    BY <1>1, FS_Subset

(* A registry without some of the entries is within the limits as well.    *)
LEMMA FewerBounded ==
  ASSUME BoundInv, RelayShape', \A k \in Keys : registry'[k] # Nobody => registry[k] # Nobody
  PROVE  BoundInv'
  <1>1. Entries(registry') \in SUBSET Entries(registry)
    BY DEF Entries
  <1>2. /\ IsFiniteSet(Entries(registry'))
        /\ Cardinality(Entries(registry')) <= Cardinality(Entries(registry))
        /\ Cardinality(Entries(registry')) \in Nat /\ Cardinality(Entries(registry)) \in Nat
    BY <1>1, FS_Subset, FS_CardinalityType DEF BoundInv
  <1>3. Cardinality(Entries(registry')) <= MaxEntries
    BY <1>2, RelayAssumption DEF BoundInv, RegistryBounded
  <1>4. ASSUME NEW d \in Devices PROVE Cardinality(HeldBy(d)') <= MaxKeys
    <2>1. HeldBy(d)' \in SUBSET HeldBy(d) /\ IsFiniteSet(HeldBy(d))
      BY HeldFinite DEF HeldBy, BoundInv
    <2>2. /\ Cardinality(HeldBy(d)') <= Cardinality(HeldBy(d))
          /\ Cardinality(HeldBy(d)') \in Nat /\ Cardinality(HeldBy(d)) \in Nat
      BY <2>1, FS_Subset, FS_CardinalityType
    <2> QED
      BY <2>2, RelayAssumption DEF BoundInv, RegistryBounded
  <1> QED
    BY <1>2, <1>3, <1>4 DEF BoundInv, RegistryBounded

(* A set of two names has one or two elements.                             *)
LEMMA PairFinite ==
  ASSUME NEW a, NEW b
  PROVE  IsFiniteSet({a, b}) /\ Cardinality({a, b}) \in {1, 2}
  <1>1. IsFiniteSet({a}) /\ Cardinality({a}) = 1
    BY FS_Singleton
  <1>2. {a} \cup {b} = {a, b}
    OBVIOUS
  <1>3. IsFiniteSet({a} \cup {b})
        /\ (Cardinality({a} \cup {b}) = Cardinality({a}) \/ Cardinality({a} \cup {b}) = Cardinality({a}) + 1)
    BY <1>1, FS_AddElement
  <1>4. Cardinality({a, b}) = 1 \/ Cardinality({a, b}) = 2
    BY <1>1, <1>2, <1>3
  <1> QED
    BY <1>2, <1>3, <1>4

(* The cap leaves room for the requested keys of the device.               *)
LEMMA CapLeavesRoom ==
  ASSUME BoundInv, NEW d \in Devices, NEW a, NEW b, NEW drop \in SUBSET (HeldBy(d) \ {a, b}),
         Cardinality(drop) = IF Excess(d, {a, b}) > 0 THEN Excess(d, {a, b}) ELSE 0
  PROVE  Cardinality((HeldBy(d) \ drop) \cup {a, b}) <= MaxKeys
  <1> DEFINE others == HeldBy(d) \ {a, b}
             rest == others \ drop
  <1>1. IsFiniteSet(others) /\ IsFiniteSet(drop) /\ IsFiniteSet(rest)
    <2>1. IsFiniteSet(HeldBy(d))
      BY HeldFinite DEF BoundInv
    <2>2. IsFiniteSet(others)
      BY <2>1, FS_Subset
    <2> QED
      BY <2>2, FS_Subset
  <1>2. IsFiniteSet({a, b}) /\ Cardinality({a, b}) \in {1, 2}
    BY PairFinite
  <1>3. Cardinality(rest) = Cardinality(others) - Cardinality(drop)
    <2>1. others \cap drop = drop
      OBVIOUS
    <2> QED
      BY <1>1, <2>1, FS_Difference
  <1>4. Cardinality(rest \cup {a, b}) = Cardinality(rest) + Cardinality({a, b})
    <2>1. rest \cap {a, b} = {}
      OBVIOUS
    <2>2. Cardinality(rest \cup {a, b})
            = Cardinality(rest) + Cardinality({a, b}) - Cardinality(rest \cap {a, b})
      BY <1>1, <1>2, FS_Union
    <2>3. Cardinality(rest \cap {a, b}) = 0
      BY <2>1, FS_EmptySet
    <2>4. Cardinality(rest) \in Nat /\ Cardinality({a, b}) \in Nat
      BY <1>1, <1>2, FS_CardinalityType
    <2> QED
      BY <2>2, <2>3, <2>4
  <1>5. (HeldBy(d) \ drop) \cup {a, b} = rest \cup {a, b}
    OBVIOUS
  <1>6. /\ Cardinality(others) \in Nat /\ Cardinality(drop) \in Nat /\ Cardinality(rest) \in Nat
        /\ Excess(d, {a, b}) = Cardinality(others) + Cardinality({a, b}) - MaxKeys
    BY <1>1, FS_CardinalityType DEF Excess
  <1>7. Cardinality(rest) + Cardinality({a, b}) <= MaxKeys
    <2> DEFINE o == Cardinality(others)
               w == Cardinality(drop)
               p == Cardinality({a, b})
               q == Cardinality(rest)
               e == Excess(d, {a, b})
    <2>1. /\ o \in Nat /\ w \in Nat /\ q \in Nat /\ p \in {1, 2}
          /\ MaxKeys \in Nat /\ MaxKeys >= 2
          /\ e = o + p - MaxKeys /\ q = o - w
          /\ w = IF e > 0 THEN e ELSE 0
      BY <1>2, <1>3, <1>6, RelayAssumption
    <2> HIDE DEF o, w, p, q, e
    <2>2. q + p <= MaxKeys
      BY <2>1
    <2> QED
      BY <2>2 DEF p, q
  <1> QED
    BY <1>4, <1>5, <1>7

LEMMA RegisterBounded == ASSUME BoundInv, RelayShape', NEW n \in 1..MaxRequests, Register(n) PROVE BoundInv'
  <1> DEFINE r == signed[n]
             keys == RequestedKeys(r)
  <1>1. /\ n \in DOMAIN signed /\ r.dev \in Devices /\ keys \subseteq Keys
        /\ keys = {<<r.dev, r.key>>, <<r.dev, 0>>} /\ \A k \in keys : k[1] = r.dev
    BY RequestedAreKeys DEF Register, RequestedKeys, BoundInv
  <1>2. PICK reg \in Capped(r.dev, keys) :
          \/ registry' = reg
          \/ /\ ~(Cardinality(Entries(reg) \cup keys) > MaxEntries)
             /\ registry' = [k \in Keys |->
                  IF k \in keys THEN [at |-> minute, identity |-> k[2] = 0 /\ r.key # 0]
                  ELSE reg[k]]
    BY DEF Register
  <1>3. PICK drop \in SUBSET (HeldBy(r.dev) \ keys) :
          /\ reg = [k \in Keys |-> IF k \in drop THEN Nobody ELSE registry[k]]
          /\ Entries(reg) = Entries(registry) \ drop
          /\ Cardinality(drop) = IF Excess(r.dev, keys) > 0 THEN Excess(r.dev, keys) ELSE 0
    BY <1>1, CappedEntries DEF BoundInv
  <1>4. CASE registry' = reg
    BY <1>3, <1>4, FewerBounded
  <1>5. CASE /\ ~(Cardinality(Entries(reg) \cup keys) > MaxEntries)
             /\ registry' = [k \in Keys |->
                  IF k \in keys THEN [at |-> minute, identity |-> k[2] = 0 /\ r.key # 0]
                  ELSE reg[k]]
    <2>1. \A k \in keys : registry'[k] # Nobody
      <3> SUFFICES ASSUME NEW k \in keys PROVE registry'[k] # Nobody
        OBVIOUS
      <3>1. registry'[k] = [at |-> minute, identity |-> k[2] = 0 /\ r.key # 0]
        BY <1>1, <1>5
      <3>2. [at |-> minute, identity |-> k[2] = 0 /\ r.key # 0] \in [at : Nat, identity : BOOLEAN]
        BY DEF BoundInv, RelayShape
      <3> QED
        BY <3>1, <3>2, RelayAssumption
    <2>2. \A k \in Keys \ keys : registry'[k] = reg[k]
      BY <1>5
    <2>3. Entries(registry') = Entries(reg) \cup keys
      BY <1>1, <2>1, <2>2 DEF Entries
    <2>4. /\ IsFiniteSet(keys) /\ IsFiniteSet(Entries(registry'))
          /\ Cardinality(Entries(registry')) <= MaxEntries
      <3>1. IsFiniteSet(keys)
        <4>1. keys = {<<r.dev, r.key>>, <<r.dev, 0>>}
          BY <1>1
        <4>2. IsFiniteSet({<<r.dev, r.key>>, <<r.dev, 0>>})
          BY PairFinite
        <4> QED
          BY <4>1, <4>2, Zenon
      <3>2. IsFiniteSet(Entries(reg))
        <4>1. IsFiniteSet(Entries(registry)) /\ Entries(reg) = Entries(registry) \ drop
          BY <1>3 DEF BoundInv
        <4> QED
          BY <4>1, FS_Difference, Zenon
      <3>3. IsFiniteSet(Entries(registry'))
        BY <2>3, <3>1, <3>2, FS_Union
      <3>4. Cardinality(Entries(registry')) \in Nat
        BY <3>3, FS_CardinalityType
      <3>5. ~(Cardinality(Entries(registry')) > MaxEntries)
        BY <1>5, <2>3
      <3>6. Cardinality(Entries(registry')) <= MaxEntries
        BY <3>4, <3>5, RelayAssumption
      <3> QED
        BY <3>1, <3>3, <3>6
    <2>5. ASSUME NEW d \in Devices PROVE Cardinality(HeldBy(d)') <= MaxKeys
      <3>1. CASE d = r.dev
        <4>1. HeldBy(d)' = (HeldBy(d) \ drop) \cup keys
          BY <1>1, <1>3, <2>1, <2>2, <3>1 DEF HeldBy
        <4>2. Cardinality((HeldBy(d) \ drop) \cup keys) <= MaxKeys
          BY <1>1, <1>3, <3>1, CapLeavesRoom
        <4> QED
          BY <4>1, <4>2
      <3>2. CASE d # r.dev
        <4>1. HeldBy(d)' = HeldBy(d)
          BY <1>1, <1>3, <2>2, <3>2 DEF HeldBy
        <4> QED
          BY <4>1 DEF BoundInv, RegistryBounded
      <3> QED
        BY <3>1, <3>2
    <2> QED
      BY <2>4, <2>5 DEF BoundInv, RegistryBounded
  <1> QED
    BY <1>2, <1>4, <1>5

LEMMA RelayNextBounded == BoundInv /\ [RelayNext]_relayVars => BoundInv'
  <1> SUFFICES ASSUME BoundInv, [RelayNext]_relayVars PROVE BoundInv'
    OBVIOUS
  <1>0. RelayShape'
    BY RelayNextShape DEF BoundInv
  <1>1. CASE Minute
    BY <1>0, <1>1, FewerBounded DEF Minute
  <1>2. ASSUME UNCHANGED registry PROVE BoundInv'
    BY <1>0, <1>2, FewerBounded
  <1>3. ASSUME NEW d \in Devices, Connect(d) PROVE BoundInv'
    BY <1>2, <1>3 DEF Connect
  <1>4. ASSUME NEW d \in Devices, Disconnect(d) PROVE BoundInv'
    BY <1>0, <1>4, FewerBounded DEF Disconnect
  <1>5. ASSUME NEW d \in Devices, NEW key \in 0..Ephemerals, NEW off \in -Skew..Skew,
               SignRequest(d, key, minute + off)
        PROVE  BoundInv'
    BY <1>2, <1>5 DEF SignRequest
  <1>6. ASSUME NEW n \in 1..MaxRequests, Register(n) PROVE BoundInv'
    BY <1>0, <1>6, RegisterBounded
  <1>7. CASE UNCHANGED relayVars
    BY <1>2, <1>7 DEF relayVars
  <1> QED
    BY <1>1, <1>3, <1>4, <1>5, <1>6, <1>7 DEF RelayNext

(* However many devices register however many keys, the registry stays     *)
(* within its capacity and each device within its share.                   *)
THEOREM RegistryStaysBounded == RelaySpec => []RegistryBounded
  <1>1. RelayInit => BoundInv
    <2> SUFFICES ASSUME RelayInit PROVE BoundInv
      OBVIOUS
    <2>1. Entries(registry) = {} /\ \A d : HeldBy(d) = {}
      BY DEF RelayInit, Entries, HeldBy
    <2>2. IsFiniteSet({}) /\ Cardinality({}) = 0
      BY FS_EmptySet
    <2>3. IsFiniteSet(Entries(registry)) /\ Cardinality(Entries(registry)) <= MaxEntries
      BY <2>1, <2>2, RelayAssumption
    <2>4. ASSUME NEW d \in Devices PROVE Cardinality(HeldBy(d)) <= MaxKeys
      <3>1. HeldBy(d) = {}
        BY <2>1
      <3>2. Cardinality({}) <= MaxKeys
        BY <2>2, RelayAssumption
      <3> QED
        BY <3>1, <3>2, Zenon
    <2> QED
      BY <2>3, <2>4, RelayInitShape DEF BoundInv, RegistryBounded
  <1>2. BoundInv => RegistryBounded
    BY DEF BoundInv
  <1> QED
    BY <1>1, <1>2, RelayNextBounded, PTL DEF RelaySpec

-----------------------------------------------------------------------------
(* The tunnels.  The set of open tunnels is finite because it starts empty *)
(* and changes by one at a time, and the counters follow it; the limits    *)
(* hold because they are tested in the same step that counts.              *)

Up == {t \in Tokens : tunnel[t] \in {"open", "broken"}}
UpOf(c) == {t \in Up : ClientOf[t] = c}

TunnelsInv == TunnelsTypeOK /\ IsFiniteSet(Up) /\ TunnelsCounted

LEMMA TunnelsInitInv == TunnelsInit => TunnelsInv
  <1> SUFFICES ASSUME TunnelsInit PROVE TunnelsInv
    OBVIOUS
  <1>1. Up = {} /\ \A c \in Clients : UpOf(c) = {}
    BY DEF TunnelsInit, Up, UpOf
  <1>2. TunnelsTypeOK
    BY DEF TunnelsInit, TunnelsTypeOK
  <1> QED
    BY <1>1, <1>2, FS_EmptySet, TunnelsAssumption
    DEF TunnelsInv, TunnelsCounted, TunnelsInit, Up, UpOf, Clients

(* The parts of a client are finite as the whole is.                       *)
LEMMA ClientUpFinite == ASSUME IsFiniteSet(Up), NEW c PROVE IsFiniteSet(UpOf(c))
  BY FS_Subset DEF UpOf

(* A step that opens a tunnel, given that there is room.                   *)
LEMMA OpenTunnelInv == ASSUME TunnelsInv, NEW t \in Tokens, OpenTunnel(t) PROVE TunnelsInv'
  <1>1. t \notin Up /\ Up' = Up \cup {t} /\ ClientOf[t] \in Clients
    BY DEF OpenTunnel, Up, TunnelsInv, TunnelsTypeOK, Clients
  <1>2. TunnelsTypeOK'
    BY <1>1 DEF OpenTunnel, TunnelsInv, TunnelsTypeOK
  <1>3. IsFiniteSet(Up') /\ Cardinality(Up') = Cardinality(Up) + 1
    BY <1>1, FS_AddElement DEF TunnelsInv
  <1>4. activeTunnels' = Cardinality(Up') /\ activeTunnels' <= MaxTunnels
    BY <1>3, TunnelsAssumption
    DEF OpenTunnel, HasRoom, TunnelsInv, TunnelsTypeOK, TunnelsCounted, Up
  <1>5. ASSUME NEW c \in Clients
        PROVE  perClient'[c] = Cardinality(UpOf(c)') /\ perClient'[c] <= MaxTunnelsPerClient
    <2>1. perClient[c] = Cardinality(UpOf(c)) /\ perClient[c] <= MaxTunnelsPerClient
      BY DEF TunnelsInv, TunnelsCounted, Up, UpOf
    <2>2. CASE c = ClientOf[t]
      <3>1. UpOf(c)' = UpOf(c) \cup {t} /\ t \notin UpOf(c)
        BY <1>1, <2>2 DEF UpOf
      <3>2. Cardinality(UpOf(c)') = Cardinality(UpOf(c)) + 1
        BY <3>1, ClientUpFinite, FS_AddElement DEF TunnelsInv
      <3>3. perClient'[c] = perClient[c] + 1 /\ perClient[c] < MaxTunnelsPerClient
        BY <2>2 DEF OpenTunnel, HasRoom, TunnelsInv, TunnelsTypeOK
      <3> QED
        BY <2>1, <3>2, <3>3, TunnelsAssumption DEF TunnelsInv, TunnelsTypeOK
    <2>3. CASE c # ClientOf[t]
      BY <1>1, <2>1, <2>3 DEF UpOf, OpenTunnel, TunnelsInv, TunnelsTypeOK
    <2> QED
      BY <2>2, <2>3
  <1> QED
    BY <1>2, <1>3, <1>4, <1>5 DEF TunnelsInv, TunnelsCounted, Up, UpOf

(* A step that closes one.                                                 *)
LEMMA CloseInv == ASSUME TunnelsInv, NEW t \in Tokens, CloseTunnel(t) PROVE TunnelsInv'
  <1>1. t \in Up /\ Up' = Up \ {t} /\ ClientOf[t] \in Clients
    BY DEF CloseTunnel, Up, TunnelsInv, TunnelsTypeOK, Clients
  <1>2. IsFiniteSet(Up') /\ Cardinality(Up') = Cardinality(Up) - 1 /\ Cardinality(Up') \in Nat
    BY <1>1, FS_RemoveElement, FS_CardinalityType DEF TunnelsInv
  <1>3. /\ activeTunnels' = Cardinality(Up') /\ activeTunnels' <= MaxTunnels
        /\ activeTunnels' \in Nat
    BY <1>2, TunnelsAssumption DEF CloseTunnel, TunnelsInv, TunnelsTypeOK, TunnelsCounted, Up
  <1>4. TunnelsTypeOK'
    BY <1>1, <1>3 DEF CloseTunnel, TunnelsInv, TunnelsTypeOK
  <1>5. ASSUME NEW c \in Clients
        PROVE  perClient'[c] = Cardinality(UpOf(c)') /\ perClient'[c] <= MaxTunnelsPerClient
    <2>1. perClient[c] = Cardinality(UpOf(c)) /\ perClient[c] <= MaxTunnelsPerClient
      BY DEF TunnelsInv, TunnelsCounted, Up, UpOf
    <2>2. CASE c = ClientOf[t]
      <3>1. UpOf(c)' = UpOf(c) \ {t} /\ t \in UpOf(c)
        BY <1>1, <2>2 DEF UpOf
      <3>2. /\ Cardinality(UpOf(c)') = Cardinality(UpOf(c)) - 1
            /\ Cardinality(UpOf(c)') \in Nat
        BY <3>1, ClientUpFinite, FS_RemoveElement, FS_CardinalityType DEF TunnelsInv
      <3>3. perClient'[c] = IF perClient[c] > 0 THEN perClient[c] - 1 ELSE 0
        BY <2>2 DEF CloseTunnel, TunnelsInv, TunnelsTypeOK
      <3> QED
        BY <2>1, <3>2, <3>3, TunnelsAssumption DEF TunnelsInv, TunnelsTypeOK
    <2>3. CASE c # ClientOf[t]
      BY <1>1, <2>1, <2>3 DEF UpOf, CloseTunnel, TunnelsInv, TunnelsTypeOK
    <2> QED
      BY <2>2, <2>3
  <1> QED
    BY <1>2, <1>3, <1>4, <1>5 DEF TunnelsInv, TunnelsCounted, Up, UpOf

(* The other steps neither open nor close.                                 *)
LEMMA SameUpInv ==
  ASSUME TunnelsInv, Up' = Up, UNCHANGED <<activeTunnels, perClient>>, TunnelsTypeOK'
  PROVE  TunnelsInv'
  <1>1. {t \in Tokens : tunnel'[t] \in {"open", "broken"}}
          = {t \in Tokens : tunnel[t] \in {"open", "broken"}}
    BY DEF Up
  <1> QED
    BY <1>1 DEF TunnelsInv, TunnelsCounted, Up

LEMMA TunnelsNextInv == TunnelsInv /\ [TunnelsNext]_tunnelVars => TunnelsInv'
  <1> SUFFICES ASSUME TunnelsInv, [TunnelsNext]_tunnelVars PROVE TunnelsInv'
    OBVIOUS
  <1>1. ASSUME NEW t \in Tokens, AskTunnel(t) PROVE TunnelsInv'
    BY <1>1, SameUpInv DEF AskTunnel, Up, TunnelsInv, TunnelsTypeOK
  <1>2. ASSUME NEW t \in Tokens, RejectTunnel(t) PROVE TunnelsInv'
    BY <1>2, SameUpInv DEF RejectTunnel, Up, TunnelsInv, TunnelsTypeOK
  <1>3. CASE UNCHANGED tunnelVars
    BY <1>3, SameUpInv DEF tunnelVars, Up, TunnelsInv, TunnelsTypeOK
  <1> QED
    BY <1>1, <1>2, <1>3, OpenTunnelInv, CloseInv DEF TunnelsNext

(* A request for a tunnel is at one of its six stages, and the counters   *)
(* never go below zero, although every event of a stream may end it.       *)
THEOREM TunnelsTypeCorrect == TunnelsSpec => []TunnelsTypeOK
  <1>1. TunnelsInv => TunnelsTypeOK
    BY DEF TunnelsInv
  <1> QED
    BY <1>1, TunnelsInitInv, TunnelsNextInv, PTL DEF TunnelsSpec

(* Whatever is asked for at once, the counters of a relay are the tunnels  *)
(* it has open and those that broke while they were set up (handleUpgrade  *)
(* in federationRuntime.ts), and neither limit is passed.                  *)
THEOREM TunnelsStayCounted == TunnelsSpec => []TunnelsCounted
  <1>1. TunnelsInv => TunnelsCounted
    BY DEF TunnelsInv
  <1> QED
    BY <1>1, TunnelsInitInv, TunnelsNextInv, PTL DEF TunnelsSpec

-----------------------------------------------------------------------------
(* Where the device is found.  The relay it uses heard from it within a    *)
(* heartbeat, the other one not since it moved: as long as it stays, that  *)
(* is at least as long as it has registered at its own.  What a query read *)
(* before it asked the other relay is true for as long as the device       *)
(* stays, and the ages decide.                                             *)

Ages == 0..Ttl \cup {None}
Located == [at : Relays, age : Ages, reachable : BOOLEAN]
Query == [at : Relays, own : Located, settled : BOOLEAN, late : BOOLEAN]

FedShape ==
  /\ home \in Relays /\ age \in [Relays -> Ages] /\ active \subseteq Relays
  /\ faithful \in 0..Fresh /\ query \in Query \cup {None}

(* What the relays know of a device that has stayed for some time.         *)
RelaysKnow ==
  /\ faithful > 0 => age[home] # None /\ age[home] <= Heartbeat
  /\ \A r \in Relays : r # home => age[r] = None \/ age[r] >= faithful

(* What the query of such a device read at the relay it was made at.       *)
Asked ==
  query # None /\ query.settled =>
    /\ faithful = Fresh /\ query.own.at = query.at
    /\ query.at = home => query.own.age # None /\ query.own.age <= Heartbeat
    /\ query.at # home => query.own.age = None \/ query.own.age >= Fresh

FedInv == FedShape /\ RelaysKnow /\ Asked /\ MovedDeviceFound

LEMMA Periods ==
  /\ Heartbeat \in Nat /\ Fresh \in Nat /\ Ttl \in Nat /\ Heartbeat < Fresh /\ Fresh <= Ttl
  /\ None \notin Int
  BY FederationAssumption

(* There are two relays, and the one that is not asked is the other.       *)
LEMMA TheOther ==
  ASSUME NEW r \in Relays
  PROVE  /\ OtherRelay(r) \in Relays /\ OtherRelay(r) # r
         /\ \A s \in Relays : s # r => s = OtherRelay(r)
  <1>1. PICK x, y \in Relays : x # y /\ Relays = {x, y}
    BY FederationAssumption
  <1>2. \E s \in Relays : s # r
    BY <1>1
  <1>3. OtherRelay(r) \in Relays /\ OtherRelay(r) # r
    BY <1>2 DEF OtherRelay
  <1> QED BY <1>1, <1>3

LEMMA FedInitInv == FedInit => FedInv
  BY Periods DEF FedInit, FedInv, FedShape, RelaysKnow, Asked, MovedDeviceFound, Ages

LEMMA RegisterHomeInv == ASSUME FedInv, RegisterHome PROVE FedInv'
  <1>1. /\ age' = [age EXCEPT ![home] = 0]
        /\ UNCHANGED <<home, active, faithful, query, answer>>
    BY DEF RegisterHome
  <1>2. \A r \in Relays : age'[r] = IF r = home THEN 0 ELSE age[r]
    BY <1>1 DEF FedInv, FedShape
  <1>3. 0 \in Ages /\ 0 # None
    BY Periods DEF Ages
  <1>4. FedShape'
    BY <1>1, <1>3 DEF FedInv, FedShape
  <1>5. RelaysKnow'
    BY <1>1, <1>2, <1>3, Periods DEF FedInv, FedShape, RelaysKnow
  <1> QED BY <1>1, <1>4, <1>5 DEF FedInv, Asked, MovedDeviceFound

LEMMA ReservationInv ==
  ASSUME FedInv, active' \subseteq Relays, UNCHANGED <<home, age, faithful, query, answer>>
  PROVE  FedInv'
  BY DEF FedInv, FedShape, RelaysKnow, Asked, MovedDeviceFound

(* After a move nothing is claimed, of the query under way neither.        *)
LEMMA MoveInv == ASSUME FedInv, NEW r \in Relays, Move(r) PROVE FedInv'
  <1>1. /\ home' = r /\ faithful' = 0 /\ UNCHANGED <<age, active, answer>>
        /\ query' = IF query = None THEN None ELSE [query EXCEPT !.settled = FALSE]
    BY DEF Move
  <1>2. query' \in Query \cup {None} /\ (query' # None => ~query'.settled)
    BY <1>1 DEF FedInv, FedShape, Query
  <1>3. RelaysKnow'
    BY <1>1, Periods DEF FedInv, FedShape, RelaysKnow, Ages
  <1>4. FedShape'
    BY <1>1, <1>2, Periods DEF FedInv, FedShape
  <1> QED BY <1>1, <1>2, <1>3, <1>4 DEF FedInv, Asked, MovedDeviceFound

LEMMA PassInv == ASSUME FedInv, Pass PROVE FedInv'
  <1> DEFINE older == [r \in Relays |-> IF age[r] = None \/ age[r] = Ttl THEN None ELSE age[r] + 1]
  <1>1. /\ age' = older /\ UNCHANGED <<home, active, answer>>
        /\ query' = IF query = None THEN None
                    ELSE [query EXCEPT !.late = TRUE, !.settled = @ /\ Registering(age'[home])]
        /\ faithful' = IF ~Registering(age'[home]) THEN 0
                       ELSE IF faithful < Fresh THEN faithful + 1 ELSE faithful
    BY DEF Pass
  <1>2. \A r \in Relays :
          /\ age[r] \in Ages
          /\ age'[r] = IF age[r] = None \/ age[r] = Ttl THEN None ELSE age[r] + 1
    BY <1>1 DEF FedInv, FedShape
  <1>3. \A r \in Relays : age'[r] \in Ages
    BY <1>2, Periods DEF Ages
  <1>4. Registering(age'[home]) \in BOOLEAN
    BY DEF Registering
  <1>5. query' \in Query \cup {None}
    BY <1>1, <1>4 DEF FedInv, FedShape, Query
  <1>6. FedShape'
    <2>1. age' \in [Relays -> Ages]
      BY <1>1, <1>3
    <2>2. faithful' \in 0..Fresh
      BY <1>1, Periods DEF FedInv, FedShape
    <2> QED BY <1>1, <1>5, <2>1, <2>2 DEF FedInv, FedShape
  <1>7. RelaysKnow'
    <2>1. faithful' > 0 => age'[home] # None /\ age'[home] <= Heartbeat
      BY <1>1 DEF Registering
    <2>2. faithful' <= faithful + 1 /\ faithful' \in Nat
      BY <1>1, Periods DEF FedInv, FedShape
    <2>3. ASSUME NEW r \in Relays, r # home PROVE age'[r] = None \/ age'[r] >= faithful'
      BY <1>2, <2>2, <2>3, Periods DEF FedInv, FedShape, RelaysKnow, Ages
    <2> QED BY <1>1, <2>1, <2>3 DEF RelaysKnow
  <1>8. Asked'
    <2> SUFFICES ASSUME query' # None, query'.settled PROVE Asked'
      BY DEF Asked
    <2>1. /\ query # None /\ query.settled /\ Registering(age'[home])
          /\ query'.at = query.at /\ query'.own = query.own
      BY <1>1, <1>4 DEF FedInv, FedShape, Query
    <2>2. faithful' = Fresh
      BY <1>1, <2>1, Periods DEF FedInv, Asked
    <2> QED BY <1>1, <2>1, <2>2 DEF FedInv, Asked
  <1> QED BY <1>1, <1>6, <1>7, <1>8 DEF FedInv, MovedDeviceFound

(* The local half reads what is known.                                     *)
LEMMA LookUpInv == ASSUME FedInv, NEW r \in Relays, LookUp(r) PROVE FedInv'
  <1>1. query = None /\ UNCHANGED <<home, age, active, faithful>>
    BY DEF LookUp
  <1>2. age[r] \in Ages /\ Own(r) \in Located /\ Own(r).at = r /\ Own(r).age = age[r]
    BY DEF FedInv, FedShape, Own, Located
  <1>3. faithful \in Nat /\ faithful <= Fresh /\ RelaysKnow'
    BY <1>1, Periods DEF FedInv, FedShape, RelaysKnow
  <1>4. CASE AsksPeer(r)
    <2>1. /\ query' = [at |-> r, own |-> Own(r), settled |-> faithful >= Fresh, late |-> FALSE]
          /\ answer' = answer
      BY <1>4 DEF LookUp
    <2>2. query' \in Query
      BY <1>2, <2>1 DEF Query
    <2>3. ASSUME faithful >= Fresh
          PROVE  /\ faithful = Fresh
                 /\ r = home => age[r] # None /\ age[r] <= Heartbeat
                 /\ r # home => age[r] = None \/ age[r] >= Fresh
      BY <1>2, <1>3, <2>3, Periods DEF FedInv, RelaysKnow, Ages
    <2>4. Asked'
      BY <1>1, <1>2, <2>1, <2>3 DEF Asked
    <2>5. FedShape'
      BY <1>1, <2>2 DEF FedInv, FedShape
    <2> QED BY <1>3, <2>1, <2>4, <2>5 DEF FedInv, MovedDeviceFound
  <1>5. CASE ~AsksPeer(r)
    <2>1. /\ answer' = [route |-> Chosen(Own(r)), device |-> home,
                        settled |-> faithful >= Fresh, heard |-> TRUE]
          /\ query' = None
      BY <1>1, <1>5 DEF LookUp
    <2>2. age[r] # None /\ ~(age[r] >= Fresh) /\ Chosen(Own(r)) = r
      BY <1>2, <1>5 DEF AsksPeer, Chosen
    <2>3. faithful >= Fresh => r = home
      BY <1>2, <1>3, <2>2, Periods DEF FedInv, RelaysKnow, Ages
    <2>4. MovedDeviceFound'
      BY <2>1, <2>2, <2>3 DEF MovedDeviceFound
    <2> QED BY <1>1, <1>3, <2>1, <2>4 DEF FedInv, FedShape, Asked
  <1> QED BY <1>4, <1>5

(* Whichever of the two relays was asked, the one in use is picked.        *)
LEMMA PeerAnswersInv == ASSUME FedInv, PeerAnswers PROVE FedInv'
  <1> DEFINE peer == OtherRelay(query.at)
             told == IF age[peer] # None /\ peer \notin Reporting THEN Unreported ELSE age[peer]
             remote == [at |-> peer, reachable |-> TRUE, age |-> told]
  <1>1. /\ query # None /\ query' = None /\ UNCHANGED <<home, age, active, faithful>>
        /\ answer' = [route |-> Chosen(Pick(query.own, remote)), device |-> home,
                      settled |-> query.settled, heard |-> peer \in Reporting \/ ~query.own.reachable]
    BY DEF PeerAnswers
  <1>2. query \in Query /\ query.own.age \in Ages
    BY <1>1 DEF FedInv, FedShape, Query, Located
  <1>3. FedShape' /\ RelaysKnow' /\ Asked'
    BY <1>1 DEF FedInv, FedShape, RelaysKnow, Asked
  <1>4. ASSUME query.settled, peer \in Reporting \/ ~query.own.reachable
        PROVE  Chosen(Pick(query.own, remote)) = home
    <2>1. /\ faithful = Fresh /\ faithful > 0 /\ query.own.at = query.at
          /\ query.at = home => query.own.age # None /\ query.own.age <= Heartbeat
          /\ query.at # home => query.own.age = None \/ query.own.age >= Fresh
      BY <1>1, <1>4, Periods DEF FedInv, Asked
    <2>2. age[home] \in Ages /\ age[home] # None /\ age[home] <= Heartbeat
      BY <2>1 DEF FedInv, FedShape, RelaysKnow
    <2>3. remote.at = peer /\ remote.age = told /\ remote.reachable
      OBVIOUS
    <2>4. CASE query.at = home
      <3>1. query.own.age < Fresh /\ query.own.age # None
        BY <1>2, <2>1, <2>4, Periods DEF Ages
      <3>2. Pick(query.own, remote) = query.own
        BY <3>1 DEF Pick
      <3> QED BY <2>1, <2>4, <3>1, <3>2 DEF Chosen
    <2>5. CASE query.at # home
      <3>1. peer = home
        BY <1>2, <2>5, TheOther DEF FedInv, FedShape, Query
      <3>2. told # None /\ told \in Int /\ told <= Heartbeat
        BY <2>2, <3>1, Periods DEF Ages, Unreported
      <3>3. query.own.age = None \/ query.own.age >= Fresh
        BY <2>1, <2>5
      <3>4. query.own.age # None => query.own.age \in Nat
        BY <1>2, Periods DEF Ages
      <3>5. query.own.reachable => told = age[home] /\ told # Unreported
        BY <1>4, <2>2, <3>1, Periods DEF Ages, Unreported
      <3> HIDE DEF told
      <3>6. Pick(query.own, remote) = remote
        <4>1. CASE query.own.age = None
          BY <2>3, <3>2, <4>1 DEF Pick
        <4>2. CASE query.own.age # None
          <5>1. ~(query.own.age < Fresh) /\ ~(told >= query.own.age)
            BY <3>2, <3>3, <3>4, <4>2, Periods
          <5> QED BY <2>3, <3>2, <3>5, <4>2, <5>1 DEF Pick
        <4> QED BY <4>1, <4>2
      <3> QED BY <2>3, <3>1, <3>2, <3>6 DEF Chosen
    <2> QED BY <2>4, <2>5
  <1> HIDE DEF remote
  <1>5. MovedDeviceFound'
    BY <1>1, <1>4 DEF MovedDeviceFound
  <1> QED BY <1>3, <1>5 DEF FedInv

LEMMA PeerFailsInv == ASSUME FedInv, PeerFails PROVE FedInv'
  BY DEF PeerFails, FedInv, FedShape, RelaysKnow, Asked, MovedDeviceFound

LEMMA FedNextInv == ASSUME FedInv, [FedNext]_fedVars PROVE FedInv'
  <1>1. CASE UNCHANGED fedVars
    BY <1>1 DEF fedVars, FedInv, FedShape, RelaysKnow, Asked, MovedDeviceFound
  <1>2. CASE NoticeReservation
    BY <1>2, ReservationInv DEF NoticeReservation, FedInv, FedShape
  <1>3. ASSUME NEW r \in Relays, LoseReservation(r) PROVE FedInv'
    BY <1>3, ReservationInv DEF LoseReservation, FedInv, FedShape
  <1> QED BY <1>1, <1>2, <1>3, RegisterHomeInv, MoveInv, PassInv, LookUpInv, PeerAnswersInv,
             PeerFailsInv DEF FedNext

(* A device that has registered at one relay for the fresh window is found *)
(* there from either of two federated relays (pickRegistration in          *)
(* federation.ts), for any heartbeat shorter than the window, however      *)
(* often it moved before and however old the other relay's entry is.       *)
THEOREM SettledDevicesAreFound == FedSpec => []MovedDeviceFound
  <1>1. FedInv => MovedDeviceFound
    BY DEF FedInv
  <1> QED BY <1>1, FedInitInv, FedNextInv, PTL DEF FedSpec

(* A query keeps where it was asked, and what is picked of two located     *)
(* entries is at one of the relays.                                        *)
FedTypes == FedInv /\ FedTypeOK

LEMMA RoutesAreRelays ==
  ASSUME NEW own, NEW remote, own.at \in Relays, remote.at \in Relays
  PROVE  Chosen(own) \in Relays \cup {None} /\ Chosen(Pick(own, remote)) \in Relays \cup {None}
  BY DEF Chosen, Pick

LEMMA FedNextTypes == ASSUME FedTypes, [FedNext]_fedVars PROVE FedTypes'
  <1>1. FedInv' /\ FedShape'
    BY FedNextInv DEF FedTypes, FedInv
  <1>2. SUFFICES /\ query' # None => query'.own.at = query'.at
                 /\ answer' # None => answer'.route \in Relays \cup {None}
    BY <1>1 DEF FedTypes, FedTypeOK, FedShape, Ages, Query
  <1>3. /\ query # None => query \in Query /\ query.at \in Relays /\ query.own.at = query.at
        /\ answer # None => answer.route \in Relays \cup {None}
    BY DEF FedTypes, FedTypeOK, FedInv, FedShape
  <1>4. CASE UNCHANGED <<query, answer>>
    BY <1>3, <1>4
  <1>5. CASE Pass \/ \E r \in Relays : Move(r)
    BY <1>3, <1>5 DEF Pass, Move, Query
  <1>6. ASSUME NEW r \in Relays, LookUp(r)
        PROVE  /\ query' # None => query'.own.at = query'.at
               /\ answer' # None => answer'.route \in Relays \cup {None}
    <2>1. Own(r).at = r /\ Chosen(Own(r)) \in Relays \cup {None}
      BY DEF Own, Chosen
    <2> QED BY <1>3, <1>6, <2>1 DEF LookUp
  <1>7. CASE PeerAnswers
    <2> DEFINE peer == OtherRelay(query.at)
               told == IF age[peer] # None /\ peer \notin Reporting THEN Unreported ELSE age[peer]
               remote == [at |-> peer, reachable |-> TRUE, age |-> told]
    <2>1. /\ query # None /\ query' = None
          /\ answer'.route = Chosen(Pick(query.own, remote))
      BY <1>7 DEF PeerAnswers
    <2>2. query.own.at \in Relays /\ remote.at \in Relays
      BY <1>3, <2>1, TheOther
    <2> QED BY <2>1, <2>2, RoutesAreRelays
  <1>8. CASE PeerFails
    <2>1. query # None /\ query' = None /\ answer'.route = Chosen(query.own)
      BY <1>8 DEF PeerFails
    <2> QED BY <1>3, <2>1 DEF Chosen
  <1> QED
    BY <1>4, <1>5, <1>6, <1>7, <1>8
    DEF FedTypes, FedNext, fedVars, RegisterHome, NoticeReservation, LoseReservation

(* A lookup is answered with a relay or with nothing, and the half of an   *)
(* answer that waits for the peer is about the relay that was asked.       *)
THEOREM FedTypeCorrect == FedSpec => []FedTypeOK
  <1>1. FedInit => FedTypes
    BY FedInitInv DEF FedInit, FedTypes, FedTypeOK, FedInv, FedShape, Ages
  <1>2. FedTypes => FedTypeOK
    BY DEF FedTypes
  <1> QED BY <1>1, <1>2, FedNextTypes, PTL DEF FedSpec

-----------------------------------------------------------------------------
(* The parts together: a step of the composition is a step of one part and *)
(* leaves the variables of the others.                                     *)

LEMMA PartsStart ==
  Init => /\ part \in Parts
          /\ GroupsInit /\ ConvInit /\ FilesInit /\ TransferInit /\ RelayInit /\ FedInit
          /\ TunnelsInit
  BY DEF Init

LEMMA OnePartMoves ==
  ASSUME [Next]_vars
  PROVE  /\ part' = part
         /\ [GroupsNext]_groupVars /\ [ConvNext]_convVars /\ [FilesNext]_fileVars
         /\ [TransferNext]_transferVars /\ [RelayNext]_relayVars /\ [FedNext]_fedVars
         /\ [TunnelsNext]_tunnelVars
  BY Zenon DEF Next, vars

(* A behaviour of the composition is one of every part, so what is proved  *)
(* of a part alone holds of it in the composition.                         *)
THEOREM PartsImplemented ==
  Spec => /\ GroupsSpec /\ ConvSpec /\ FilesSpec /\ TransferSpec
          /\ RelaySpec /\ FedSpec /\ TunnelsSpec
  BY PartsStart, OnePartMoves, PTL
  DEF Spec, GroupsSpec, ConvSpec, FilesSpec, TransferSpec, RelaySpec, FedSpec, TunnelsSpec

(* Every part keeps its types, for any values of the constants: those of   *)
(* the seven type theorems, for the part that moves and for the others.    *)
THEOREM PartsTypeCorrect == Spec => []TypeOK
  <1>1. Spec => [](part \in Parts)
    <2>1. part \in Parts /\ [Next]_vars => (part \in Parts)'
      BY OnePartMoves DEF Parts
    <2> QED BY <2>1, PartsStart, PTL DEF Spec
  <1>2. /\ part \in Parts /\ GroupsTypeOK /\ ConvTypeOK /\ FilesTypeOK /\ TransferTypeOK
        /\ RelayTypeOK /\ FedTypeOK /\ TunnelsTypeOK
        => TypeOK
    BY DEF Parts, TypeOK
  <1> QED
    BY <1>1, <1>2, PartsImplemented, GroupsTypeCorrect, ConvTypeCorrect, FilesTypeCorrect,
       TransferTypeCorrect, RelayTypeCorrect, FedTypeCorrect, TunnelsTypeCorrect, PTL

(* What each part promises holds when they run beside each other.          *)
THEOREM PartsKeepPromises ==
  Spec => [](/\ RemovedLearnsNoNewKey /\ CountedKeysWereStored /\ OneEnvelopePerGeneration
             /\ SettledCopiesAgree /\ ConfirmedDeletionHolds
             /\ DeliveredFileStored /\ SlotsMatchTransfers /\ WindowKeepsMoving
             /\ AccountSurvives /\ NoHalfAccount
             /\ AcceptedOnce /\ IdentityListed /\ RegistryBounded
             /\ MovedDeviceFound /\ TunnelsCounted)
  BY PartsImplemented, RemovedStayOut, CountedMeansStored, NoNeedlessRewrap, CopiesAgree,
     DeletionsHold, DeliveredMeansFileStored, SlotsAreRight, WindowsMove, MovedAccountSurvives,
     NeverHalfAnAccount, RequestsRegisterOnce, IdentitiesStay, RegistryStaysBounded,
     SettledDevicesAreFound, TunnelsStayCounted, PTL
=============================================================================
