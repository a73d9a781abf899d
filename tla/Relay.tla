--------------------------------- MODULE Relay ---------------------------------
(***************************************************************************)
(* The registry of one relay (packages/relay/src/index.ts with             *)
(* registry.ts): devices that hold a connection register their identity    *)
(* key and a changing ephemeral key under a signed request that is good    *)
(* for one use; a sweep forgets old entries and old nonces.                *)
(*                                                                         *)
(* Time is in minutes, the period of the sweep.  A device's clock may be   *)
(* off by the tolerated skew, and a request may arrive late, again or      *)
(* never.  Every device signs with its own identity: the PeerID that a     *)
(* registration names is the one of the signing key.                       *)
(***************************************************************************)
EXTENDS Integers, Sequences, FiniteSets

CONSTANTS
  Devices,
  Ephemerals,    \* how many ephemeral keys a device uses in turn
  Skew,          \* the freshness check, in minutes
  NonceTtl,      \* NONCE_TTL_MS
  RegistryTtl,   \* REGISTRY_TTL_MS
  MaxKeys,       \* MAX_KEYS_PER_PEER
  MaxEntries,    \* MAX_REGISTRY_ENTRIES
  MaxMinutes,    \* bound: how long the relay is watched
  MaxRequests,   \* bound: signed requests
  Nobody         \* no such entry

ASSUME RelayAssumption ==
  /\ Ephemerals \in Nat /\ Skew \in Nat /\ NonceTtl \in Nat /\ RegistryTtl \in Nat
  /\ MaxKeys \in Nat /\ MaxEntries \in Nat
  /\ MaxMinutes \in Nat /\ MaxRequests \in Nat
  /\ NonceTtl >= 2 * Skew
  /\ MaxKeys >= 2
  /\ Nobody \notin Nat /\ Nobody \notin [at : Nat, identity : BOOLEAN]

VARIABLES
  minute,      \* Date.now()
  signed,      \* the requests made; a request's nonce is its place
  usedNonces,  \* nonce -> expiry; 0: not there
  registry,    \* peerRegistry
  online,      \* devices with an open connection
  accepted,    \* history: <<request, minute>> that were not refused
  listed       \* history: when a device's identity was last registered as such

relayVars == <<minute, signed, usedNonces, registry, online, accepted, listed>>

(* Key 0 of a device is its identity.                                      *)
Keys == Devices \X (0..Ephemerals)
Request == [dev : Devices, key : 0..Ephemerals, ts : -Skew..(MaxMinutes + Skew)]
Listing == [at : 0..MaxMinutes, identity : BOOLEAN]

RelayTypeOK ==
  /\ minute \in 0..MaxMinutes
  /\ signed \in Seq(Request) /\ Len(signed) <= MaxRequests
  /\ usedNonces \in [1..MaxRequests -> 0..(MaxMinutes + NonceTtl)]
  /\ registry \in [Keys -> Listing \cup {Nobody}]
  /\ \A k \in Keys : registry[k] # Nobody /\ registry[k].identity => k[2] = 0
  /\ online \subseteq Devices
  /\ accepted \subseteq (1..MaxRequests) \X (0..MaxMinutes)
  /\ listed \in [Devices -> (0..MaxMinutes) \cup {Nobody}]

RelayInit ==
  /\ minute = 0
  /\ signed = << >>
  /\ usedNonces = [n \in 1..MaxRequests |-> 0]
  /\ registry = [k \in Keys |-> Nobody]
  /\ online = {}
  /\ accepted = {}
  /\ listed = [d \in Devices |-> Nobody]

-----------------------------------------------------------------------------
(* The devices.                                                            *)

Connect(d) ==
  /\ d \notin online
  /\ online' = online \cup {d}
  /\ UNCHANGED <<minute, signed, usedNonces, registry, accepted, listed>>

(* registerWithRelay: the key is the current ephemeral one, and the        *)
(* identity as long as there is none (key 0).                              *)
SignRequest(d, key, ts) ==
  /\ Len(signed) < MaxRequests
  /\ signed' = Append(signed, [dev |-> d, key |-> key, ts |-> ts])
  /\ UNCHANGED <<minute, usedNonces, registry, online, accepted, listed>>

-----------------------------------------------------------------------------
(* The relay.                                                              *)

HeldBy(d) == {k \in Keys : k[1] = d /\ registry[k] # Nobody}
Entries(reg) == {k \in Keys : reg[k] # Nobody}
RequestedKeys(r) == {<<r.dev, r.key>>, <<r.dev, 0>>}

(* A plausible bug: the requested keys are not counted.                    *)
ExcessIgnoringRequest(d, keeping) == Cardinality(HeldBy(d) \ keeping) - MaxKeys

Excess(d, keeping) ==
  Cardinality(HeldBy(d) \ keeping) + Cardinality(keeping) - MaxKeys

(* capDeviceKeys: the oldest keys go that a registration of these leaves   *)
(* no room for; of equally old ones the map's order decides, here any.     *)
Capped(d, keeping) ==
  {reg \in {[k \in Keys |-> IF k \in drop THEN Nobody ELSE registry[k]] :
              drop \in SUBSET (HeldBy(d) \ keeping)} :
     LET dropped == Entries(registry) \ Entries(reg) IN
       /\ Cardinality(dropped) = IF Excess(d, keeping) > 0 THEN Excess(d, keeping) ELSE 0
       /\ \A k \in dropped, l \in (HeldBy(d) \ keeping) \ dropped : registry[k].at <= registry[l].at}

(* The checks that a request passes before it changes anything: freshness, *)
(* replay, and admission of a connected device.                            *)
MayRegister(n) ==
  LET r == signed[n] IN
    /\ r.ts - minute \in -Skew..Skew
    /\ usedNonces[n] = 0
    /\ r.dev \in online

(* A plausible bug: a nonce is kept for the skew on one side only.         *)
UseNonceBriefly(n) == usedNonces' = [usedNonces EXCEPT ![n] = minute + Skew]

UseNonce(n) == usedNonces' = [usedNonces EXCEPT ![n] = minute + NonceTtl]

(* The POST /register handler.  An entry under the identity key is marked  *)
(* as such only when the request names an ephemeral key beside it.  A full *)
(* registry refuses, after the device's old keys have been dropped.        *)
Register(n) ==
  /\ n \in DOMAIN signed /\ MayRegister(n)
  /\ UseNonce(n)
  /\ LET d == signed[n].dev
         keys == RequestedKeys(signed[n])
     IN \E reg \in Capped(d, keys) :
          IF Cardinality(Entries(reg) \cup keys) > MaxEntries
            THEN registry' = reg /\ UNCHANGED <<accepted, listed>>
            ELSE /\ registry' = [k \in Keys |->
                      IF k \in keys
                        THEN [at |-> minute, identity |-> k[2] = 0 /\ signed[n].key # 0]
                        ELSE reg[k]]
                 /\ accepted' = accepted \cup {<<n, minute>>}
                 /\ listed' = [listed EXCEPT ![d] = IF signed[n].key # 0 THEN minute ELSE Nobody]
  /\ UNCHANGED <<minute, signed, online>>

(* A plausible bug: the identity goes with the rest.                       *)
DisconnectForgetsAll(d) ==
  /\ d \in online
  /\ online' = online \ {d}
  /\ registry' = [k \in Keys |-> IF k[1] = d THEN Nobody ELSE registry[k]]
  /\ UNCHANGED <<minute, signed, usedNonces, accepted, listed>>

(* peer:disconnect: entries of the device go, its identity's stays.        *)
Disconnect(d) ==
  /\ d \in online
  /\ online' = online \ {d}
  /\ registry' = [k \in Keys |->
       IF k[1] = d /\ registry[k] # Nobody /\ ~registry[k].identity THEN Nobody ELSE registry[k]]
  /\ UNCHANGED <<minute, signed, usedNonces, accepted, listed>>

(* A minute passes and the sweep runs.                                     *)
Minute ==
  /\ minute < MaxMinutes
  /\ minute' = minute + 1
  /\ usedNonces' = [n \in DOMAIN usedNonces |->
       IF usedNonces[n] <= minute' THEN 0 ELSE usedNonces[n]]
  /\ registry' = [k \in Keys |->
       IF registry[k] # Nobody /\ minute' - registry[k].at > RegistryTtl THEN Nobody ELSE registry[k]]
  /\ UNCHANGED <<signed, online, accepted, listed>>

RelayNext ==
  \/ Minute
  \/ \E d \in Devices : Connect(d) \/ Disconnect(d)
  \/ \E d \in Devices, key \in 0..Ephemerals, off \in -Skew..Skew : SignRequest(d, key, minute + off)
  \/ \E n \in 1..MaxRequests : Register(n)

RelaySpec == RelayInit /\ [][RelayNext]_relayVars

-----------------------------------------------------------------------------
(* A signed request registers once, whenever it arrives again: the sweep   *)
(* "can never evict a still-valid nonce".  The one exception is a request  *)
(* that arrived as early as the skew allows, whose nonce is dropped in the *)
(* very instant at which the request is fresh for the last time.           *)
AcceptedOnce ==
  \A a, b \in accepted :
    a[1] = b[1] /\ a[2] < b[2] => a[2] + Skew = signed[a[1]].ts

(* "Identity-key entries must survive a reconnect so lookups keep working":*)
(* an identity that was registered beside an ephemeral key is listed until *)
(* the entry is older than the time to live, whatever the device's other   *)
(* keys, other devices and a full registry do.                             *)
IdentityListed ==
  \A d \in Devices :
    listed[d] # Nobody /\ minute - listed[d] <= RegistryTtl =>
      registry[<<d, 0>>] # Nobody /\ registry[<<d, 0>>].identity

(* The registry never outgrows its limit, nor a device its share.          *)
RegistryBounded ==
  /\ Cardinality(Entries(registry)) <= MaxEntries
  /\ \A d \in Devices : Cardinality(HeldBy(d)) <= MaxKeys
=============================================================================
