------------------------------ MODULE SendLock ------------------------------
(***************************************************************************)
(* withSendLock (packages/core/src/send-lock.ts): a per-key FIFO mutex     *)
(* made of a chain of promises.  A caller reads the promise stored for its *)
(* key, stores its own in its place, awaits the one it read, runs its      *)
(* function and resolves its own promise in a `finally`.                   *)
(*                                                                         *)
(* Every stream the client opens towards a peer goes through this lock, so *)
(* the calls carry the destination they dial and the kind of call site     *)
(* they come from: the key is chosen by the call site, not by the lock.    *)
(***************************************************************************)
EXTENDS Integers, FiniteSets

CONSTANTS
  Calls,     \* invocations of withSendLock on one node
  Dests,     \* peers they dial
  DestOf,    \* the peer a call dials
  KindOf,    \* the call site: "stream", "groupKey" or "file"
  Hanging,   \* calls whose function never settles (a stream nobody answers)
  NoCall     \* an absent map entry, and an already resolved promise

ASSUME CallsAssumption ==
  /\ DestOf \in [Calls -> Dests]
  /\ KindOf \in [Calls -> {"stream", "groupKey", "file"}]
  /\ Hanging \subseteq Calls
  /\ NoCall \notin Calls

VARIABLES
  pc,        \* where a call is: "idle", "waiting", "running", "done"
  tail,      \* nodeLocks: the call whose promise is stored for a key
  previous,  \* the call whose promise a waiting call awaits
  ticket,    \* history: the position in which a call entered, 0 before
  entered    \* history: how many calls have entered

vars == <<pc, tail, previous, ticket, entered>>

Kinds == {"stream", "groupKey", "file"}
Keys == Kinds \X Dests

(* Ping, receipt, prekey and onion sends lock the circuit address, group   *)
(* key sends the member's public key, file sends "file:" plus the address: *)
(* three different strings for one destination.                            *)
KeyOf(c) == <<KindOf[c], DestOf[c]>>

Active(c) == pc[c] \in {"waiting", "running"}

(* The promise of a call is resolved by release() when it leaves.          *)
Resolved(c) == c # NoCall => pc[c] = "done"

TypeOK ==
  /\ pc \in [Calls -> {"idle", "waiting", "running", "done"}]
  /\ tail \in [Keys -> Calls \cup {NoCall}]
  /\ previous \in [Calls -> Calls \cup {NoCall}]
  /\ ticket \in [Calls -> Nat]
  /\ entered \in Nat

Init ==
  /\ pc = [c \in Calls |-> "idle"]
  /\ tail = [k \in Keys |-> NoCall]
  /\ previous = [c \in Calls |-> NoCall]
  /\ ticket = [c \in Calls |-> 0]
  /\ entered = 0

-----------------------------------------------------------------------------

(* A plausible bug: the new promise is stored only for a key without one.  *)
EnterKeepsTail(c) ==
  /\ pc[c] = "idle"
  /\ pc' = [pc EXCEPT ![c] = "waiting"]
  /\ previous' = [previous EXCEPT ![c] = tail[KeyOf(c)]]
  /\ tail' = [tail EXCEPT ![KeyOf(c)] = IF @ = NoCall THEN c ELSE @]
  /\ entered' = entered + 1
  /\ ticket' = [ticket EXCEPT ![c] = entered + 1]

(* The synchronous head of withSendLock, up to `await previous`.           *)
Enter(c) ==
  /\ pc[c] = "idle"
  /\ pc' = [pc EXCEPT ![c] = "waiting"]
  /\ previous' = [previous EXCEPT ![c] = tail[KeyOf(c)]]
  /\ tail' = [tail EXCEPT ![KeyOf(c)] = c]
  /\ entered' = entered + 1
  /\ ticket' = [ticket EXCEPT ![c] = entered + 1]

(* The awaited promise is resolved: the function starts.                   *)
Run(c) ==
  /\ pc[c] = "waiting"
  /\ Resolved(previous[c])
  /\ pc' = [pc EXCEPT ![c] = "running"]
  /\ UNCHANGED <<tail, previous, ticket, entered>>

(* Plausible bugs in the `finally` block.                                  *)
LeaveDeletesAlways(c) ==
  /\ pc[c] = "running"
  /\ c \notin Hanging
  /\ pc' = [pc EXCEPT ![c] = "done"]
  /\ tail' = [tail EXCEPT ![KeyOf(c)] = NoCall]
  /\ UNCHANGED <<previous, ticket, entered>>

LeaveNeverDeletes(c) ==
  /\ pc[c] = "running"
  /\ c \notin Hanging
  /\ pc' = [pc EXCEPT ![c] = "done"]
  /\ UNCHANGED <<tail, previous, ticket, entered>>

LeaveReleasesOnSuccess(c) ==
  /\ pc[c] = "running"
  /\ c \notin Hanging
  /\ \E outcome \in {"done", "threw"} : pc' = [pc EXCEPT ![c] = outcome]
  /\ tail' = [tail EXCEPT ![KeyOf(c)] = IF @ = c THEN NoCall ELSE @]
  /\ UNCHANGED <<previous, ticket, entered>>

(* The function returned or threw; the `finally` block resolves the        *)
(* promise and removes the map entry if no later caller replaced it.       *)
Leave(c) ==
  /\ pc[c] = "running"
  /\ c \notin Hanging
  /\ pc' = [pc EXCEPT ![c] = "done"]
  /\ tail' = [tail EXCEPT ![KeyOf(c)] = IF @ = c THEN NoCall ELSE @]
  /\ UNCHANGED <<previous, ticket, entered>>

Next == \E c \in Calls : Enter(c) \/ Run(c) \/ Leave(c)

Spec == Init /\ [][Next]_vars

(* The event loop runs a ready continuation, and a function that settles   *)
(* does so eventually.  No call has to be made.                            *)
FairSpec == Spec /\ \A c \in Calls : WF_vars(Run(c)) /\ WF_vars(Leave(c))

-----------------------------------------------------------------------------

(* At most one function at a time runs under a key, whatever the order in  *)
(* which callers come and go: the stream set-ups that withSendLock's       *)
(* callers hand it never overlap.                                          *)
MutualExclusion ==
  \A c, d \in Calls :
    pc[c] = "running" /\ pc[d] = "running" /\ KeyOf(c) = KeyOf(d) => c = d

(* First come, first served: a function runs only when every call that     *)
(* entered before it under the same key is done.  Messages encrypted in    *)
(* order are handed to the transport in that order.                        *)
ServedInOrder ==
  \A c, d \in Calls :
    pc[c] = "running" /\ Active(d) /\ KeyOf(c) = KeyOf(d)
      => ticket[c] <= ticket[d]

(* A key has a map entry exactly while some call waits or runs under it:   *)
(* entries are not leaked, and none is removed under a waiting caller.     *)
EntryIffInUse ==
  \A k \in Keys :
    tail[k] # NoCall <=> \E c \in Calls : Active(c) /\ KeyOf(c) = k

(* A waiting call eventually runs unless a call that never settles holds   *)
(* its key: a call that throws does not strand the callers behind it.      *)
WaiterRuns ==
  \A c \in Calls :
    pc[c] = "waiting" ~>
      \/ pc[c] = "running"
      \/ \E h \in Hanging : pc[h] = "running" /\ KeyOf(h) = KeyOf(c)

(* "Serialize circuit stream setup for one destination on one node"        *)
(* (send-lock.ts): no two set-ups towards one destination overlap.         *)
OneSetupPerDestination ==
  \A c, d \in Calls :
    pc[c] = "running" /\ pc[d] = "running" /\ DestOf[c] = DestOf[d] => c = d

(* The chain of promises implements a first-come-first-served lock: every  *)
(* step of withSendLock is a step of the queue or leaves it alone, and in  *)
(* particular a resolved predecessor means being the first in the queue.   *)
Lock == INSTANCE FifoLock WITH
          Key <- [c \in Calls |-> KeyOf(c)],
          status <- pc, place <- ticket, arrivals <- entered

(* send-lock.ts behaves as FifoLock prescribes.                            *)
ImplementsLock == Lock!Spec
=============================================================================
