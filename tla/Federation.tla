------------------------------- MODULE Federation -------------------------------
(***************************************************************************)
(* Two relays that are federated (packages/relay/src/federation.ts,        *)
(* federationRuntime.ts and the /lookup handler of index.ts).  A device    *)
(* registers at the relay it uses and may change it; a lookup at either    *)
(* relay answers with a route, and asks the other relay when its own entry *)
(* is missing, old or without a reservation.                               *)
(*                                                                         *)
(* Time is in units of ten seconds, the tick of the device's heartbeat,    *)
(* which registers it at every second tick (useKant.ts, although the       *)
(* comments of the relay say every ten seconds).  A peer is asked for less *)
(* than one unit (LOOKUP_TIMEOUT_MS).                                      *)
(***************************************************************************)
EXTENDS Integers, FiniteSets

CONSTANTS
  Relays,         \* two
  Reporting,      \* relays that report ages in their answers
  Heartbeat,      \* how often a device in use registers
  Fresh,          \* REGISTRATION_FRESH_MS
  Ttl,            \* the registry's time to live
  MaxMoves,       \* bound: changes of the relay
  MaxLookups,     \* bound: lookups
  None            \* no entry, no relay, no answer

ASSUME FederationAssumption ==
  /\ Heartbeat \in Nat /\ Fresh \in Nat /\ Ttl \in Nat
  /\ Heartbeat < Fresh /\ Fresh <= Ttl
  /\ Reporting \subseteq Relays /\ \E r, s \in Relays : r # s /\ Relays = {r, s}
  /\ None \notin Int

VARIABLES
  home,      \* the relay the device uses
  age,       \* how long ago it registered at a relay; None: no entry
  active,    \* relays where it holds a reservation
  faithful,  \* for how long it has been registering at its relay
  query,     \* a lookup that waits for the peer relay
  answer,    \* the last lookup's answer
  used       \* counters behind the bounds

fedVars == <<home, age, active, faithful, query, answer, used>>

FedTypeOK ==
  /\ home \in Relays
  /\ age \in [Relays -> 0..Ttl \cup {None}]
  /\ active \subseteq Relays
  /\ faithful \in 0..Fresh
  /\ query # None => query.at \in Relays /\ query.own.at = query.at
  /\ answer # None => answer.route \in Relays \cup {None}

FedInit ==
  /\ home \in Relays
  /\ age = [r \in Relays |-> None]
  /\ active = {} /\ faithful = 0
  /\ query = None /\ answer = None
  /\ used = [moves |-> 0, lookups |-> 0]

-----------------------------------------------------------------------------
(* The device and the clock.                                               *)

(* It registers where it is; it has its circuit address, and so its        *)
(* reservation, by then.  The relay may not have noticed the reservation   *)
(* yet (it looks every ten seconds).                                       *)
RegisterHome ==
  /\ age' = [age EXCEPT ![home] = 0]
  /\ UNCHANGED <<home, active, faithful, query, answer, used>>

NoticeReservation ==
  /\ age[home] # None /\ home \notin active
  /\ active' = active \cup {home}
  /\ UNCHANGED <<home, age, faithful, query, answer, used>>

(* A reservation lapses; at the relay in use only until it is renewed.     *)
LoseReservation(r) ==
  /\ r \in active
  /\ active' = active \ {r}
  /\ UNCHANGED <<home, age, faithful, query, answer, used>>

(* The device moves to another relay.  The old one's entry stays.          *)
Move(r) ==
  /\ r # home /\ used.moves < MaxMoves
  /\ used' = [used EXCEPT !.moves = @ + 1]
  /\ home' = r
  /\ faithful' = 0
  /\ query' = IF query = None THEN None ELSE [query EXCEPT !.settled = FALSE]
  /\ UNCHANGED <<age, active, answer>>

(* It has registered within the period of its heartbeat.                  *)
Registering(sinceLast) == sinceLast # None /\ sinceLast <= Heartbeat

(* Ten seconds pass, but not twice while a peer is asked; entries beyond   *)
(* their time to live are swept.                                           *)
Pass ==
  /\ query # None => ~query.late
  /\ age' = [r \in Relays |-> IF age[r] = None \/ age[r] = Ttl THEN None ELSE age[r] + 1]
  /\ query' = IF query = None THEN None
              ELSE [query EXCEPT !.late = TRUE, !.settled = @ /\ Registering(age'[home])]
  /\ faithful' = IF ~Registering(age'[home]) THEN 0
                 ELSE IF faithful < Fresh THEN faithful + 1 ELSE faithful
  /\ UNCHANGED <<home, active, answer, used>>

-----------------------------------------------------------------------------
(* Lookups.                                                                *)

OtherRelay(r) == CHOOSE s \in Relays : s # r

(* A plausible bug: the peer is asked for missing keys only.               *)
AsksOnlyMisses(r) == age[r] = None

AsksPeer(r) == age[r] = None \/ age[r] >= Fresh \/ r \notin active

(* A plausible bug: an entry of one's own always wins.                     *)
PickOwn(own, remote) == IF own.age # None THEN own ELSE remote

Unreported == -1    \* the age in an answer without one

(* pickRegistration                                                        *)
Pick(own, remote) ==
  IF remote.age = None THEN own
  ELSE IF own.age = None THEN remote
  ELSE IF own.age < Fresh THEN own
  ELSE IF ~own.reachable THEN remote
  ELSE IF remote.age = Unreported \/ remote.age >= own.age THEN own
  ELSE remote

Own(r) == [at |-> r, age |-> age[r], reachable |-> r \in active]

Chosen(located) == IF located.age = None THEN None ELSE located.at

(* The local half of a lookup: what it read is used when the peer relay    *)
(* has answered.  A relay does not ask a peer that it believes down.       *)
LookUp(r) ==
  /\ query = None /\ used.lookups < MaxLookups
  /\ used' = [used EXCEPT !.lookups = @ + 1]
  /\ IF AsksPeer(r)
       THEN /\ query' = [at |-> r, own |-> Own(r), settled |-> faithful >= Fresh,
                         late |-> FALSE]
            /\ UNCHANGED answer
       ELSE /\ answer' = [route |-> Chosen(Own(r)), device |-> home,
                         settled |-> faithful >= Fresh, heard |-> TRUE]
            /\ UNCHANGED query
  /\ UNCHANGED <<home, age, active, faithful>>

(* The peer relay answers from its own registry.                           *)
PeerAnswers ==
  /\ query # None
  /\ LET peer == OtherRelay(query.at)
         remote == [at |-> peer, reachable |-> TRUE,
                    age |-> IF age[peer] # None /\ peer \notin Reporting THEN Unreported ELSE age[peer]]
     IN answer' = [route |-> Chosen(Pick(query.own, remote)), device |-> home,
                   settled |-> query.settled, heard |-> peer \in Reporting \/ ~query.own.reachable]
  /\ query' = None
  /\ UNCHANGED <<home, age, active, faithful, used>>

(* The peer is down, does not answer in time or refuses.                   *)
PeerFails ==
  /\ query # None
  /\ answer' = [route |-> Chosen(query.own), device |-> home, settled |-> query.settled, heard |-> FALSE]
  /\ query' = None
  /\ UNCHANGED <<home, age, active, faithful, used>>

FedNext ==
  \/ RegisterHome \/ NoticeReservation \/ Pass \/ PeerAnswers \/ PeerFails
  \/ \E r \in Relays : LoseReservation(r) \/ Move(r) \/ LookUp(r)

FedSpec == FedInit /\ [][FedNext]_fedVars

-----------------------------------------------------------------------------
(* A device that has registered at one relay for the fresh window, without *)
(* moving meanwhile, is found there from either relay, although the other  *)
(* one may still list it, even as reachable, and although what a relay     *)
(* read of its own registry is old when the peer has answered: "an entry   *)
(* that stopped refreshing may be a device that moved" (index.ts).         *)
MovedDeviceFound ==
  answer # None /\ answer.settled /\ answer.heard => answer.route = answer.device
=============================================================================
