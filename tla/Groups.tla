------------------------------- MODULE Groups -------------------------------
(***************************************************************************)
(* Group keys (packages/core/src/groups.ts with the parts of the app's     *)
(* useGroups.ts that call it): the creator of one group hands its key to   *)
(* the members, rotates it when one is removed, and retries what could not *)
(* be delivered from a queue in IndexedDB.                                 *)
(*                                                                         *)
(* Keys are numbered in the order they are made; the generation a key is   *)
(* sent under is another number, which the code derives from the group     *)
(* object at hand.  Clocks are left out: a task may be due or not.  The    *)
(* queue holds one task per member: a distribution reuses the row of an    *)
(* older task.                                                             *)
(***************************************************************************)
EXTENDS Integers, FiniteSets

CONSTANTS
  Members,        \* the members other than the creator
  MaxRemovals,    \* bound: removals, and so rotations
  MaxRetries,     \* MAX_RETRIES
  MaxPasses,      \* bound: runs of the queue
  MaxTimeouts,    \* bound: sends that are not answered in time
  MaxLostOpks,    \* bound: pre-keys that expire or are lost at a member
  MaxRefreshes,   \* bound: address refreshes
  MaxReloads,     \* bound: reloads of the creator's page
  MaxEvents,      \* bound: removals and these four together
  NoOne           \* no task, no send, no row read

KeyIds == 0..MaxRemovals
NoKey == -1
Queue == -1                    \* processDeliveryQueue as a sender
Senders == KeyIds \cup {Queue}   \* and the distribution of each key

VARIABLES
  row,        \* the creator's stored group: its key and members
  shown,      \* the group object of the user interface, which removeMember is given
  removing,   \* the removal of a member: its group object, and whether it has a new key
  readRow,    \* the group an address refresh read and has not written back
  newest,     \* the key made last
  generation, \* keyGeneration of each key
  todo,       \* members a distribution still has to reach
  task,       \* delivery_queue: the task of a member
  pass,       \* processDeliveryQueue: snapshot, members left, bundles, ...
  sending,    \* the send a sender waits for or has just had answered
  wire,       \* requests a member has not finished handling
  stored,     \* the key in a member's store
  gone,       \* one-time pre-keys a member no longer has
  issued,     \* how many bundles a member has served
  spent,      \* the counters behind the bounds
  removed,    \* history: members the user has removed
  removedAt,  \* history: of them, those removed before a key was made
  relisted,   \* history: of them, those a save has put back on the list
  enveloped,  \* history: envelopes made
  refused,    \* history: members that answered opk_unavailable
  kept,       \* history: <<member, key>> ever stored
  ackedKeys   \* history: <<member, key>> counted as delivered

groupVars == <<row, shown, removing, readRow, newest, generation, todo, task, pass, sending, wire,
               stored, gone, issued, spent, removed, removedAt, relisted, enveloped, refused, kept, ackedKeys>>
keyVars == <<newest, generation, removed, removedAt>>
rowVars == <<row, shown, removing, relisted, keyVars>>
memberVars == <<stored, gone, kept, refused>>
sendVars == <<task, pass, sending, wire, issued, enveloped, ackedKeys, memberVars>>

Envelope == [to : Members, key : KeyIds, opk : Nat]
Group == [key : KeyIds, members : SUBSET Members]
Removal == [group : Group, rotated : BOOLEAN]
Task == [key : KeyIds, opk : Nat, attempts : Nat, rejected : BOOLEAN, failed : BOOLEAN]
Send == [env : Envelope, status : {"waiting", "accepted", "rejected", "failed"}]
Idle == [at |-> "idle", snapshot |-> [m \in Members |-> NoOne], left |-> {},
         bundles |-> {}, rejecting |-> {}]

ASSUME GroupsAssumption ==
  /\ MaxRemovals \in Nat
  /\ NoOne \notin Int /\ NoOne \notin Group /\ NoOne \notin Removal
  /\ NoOne \notin Task /\ NoOne \notin Send

GroupsTypeOK ==
  /\ {row, shown} \subseteq Group /\ readRow \in Group \cup {NoOne}
  /\ removing \in [Members -> Removal \cup {NoOne}]
  /\ newest \in KeyIds /\ generation \in [KeyIds -> Nat]
  /\ todo \in [KeyIds -> SUBSET Members]
  /\ task \in [Members -> Task \cup {NoOne}]
  /\ pass.at \in {"idle", "first", "second"}
  /\ pass.snapshot \in [Members -> Task \cup {NoOne}]
  /\ \A m \in pass.left : pass.snapshot[m] # NoOne
  /\ \A s \in Senders : sending[s] # NoOne =>
       /\ sending[s] \in Send
       /\ s = Queue => sending[s].env.to \in pass.left
       /\ s # Queue => sending[s].env.key = s /\ sending[s].env.to \in todo[s]
  /\ stored \in [Members -> KeyIds \cup {NoKey}]

GroupsInit ==
  /\ row = [key |-> 0, members |-> Members] /\ shown = row
  /\ removing = [m \in Members |-> NoOne]
  /\ readRow = NoOne
  /\ newest = 0 /\ generation = [k \in KeyIds |-> 0]
  /\ \E reached \in SUBSET Members : todo = [k \in KeyIds |-> IF k = 0 THEN reached ELSE {}]
  /\ task = [m \in Members |-> NoOne]
  /\ pass = Idle
  /\ sending = [s \in Senders |-> NoOne]
  /\ wire = {}
  /\ stored = [m \in Members |-> NoKey]
  /\ gone = {}
  /\ issued = [m \in Members |-> 0]
  /\ spent = [pass |-> 0, timeout |-> 0, opk |-> 0, refresh |-> 0, reload |-> 0, removal |-> 0]
  /\ removed = {} /\ removedAt = [k \in KeyIds |-> {}] /\ relisted = {}
  /\ enveloped = {} /\ refused = {} /\ kept = {} /\ ackedKeys = {}

Spend(what, bound) ==
  spent[what] < bound /\ spent' = [spent EXCEPT ![what] = @ + 1]

(* Removals and what else happens are bounded by kind and in all.          *)
Event(what, bound) ==
  /\ spent.removal + spent.timeout + spent.opk + spent.refresh + spent.reload < MaxEvents
  /\ Spend(what, bound)

-----------------------------------------------------------------------------
(* Removing a member and rotating the key.                                 *)

(* saveGroup; the list may bring back members the user has removed.        *)
Save(group) ==
  /\ row' = group
  /\ relisted' = relisted \cup (removed \cap group.members)

(* removeMember up to its first save, from the object the user interface   *)
(* has; then it fetches bundles.                                           *)
Remove(m) ==
  /\ removing[m] = NoOne /\ m \in shown.members
  /\ Event("removal", MaxRemovals)
  /\ removed' = removed \cup {m}
  /\ shown' = [shown EXCEPT !.members = @ \ {m}]
  /\ Save(shown')
  /\ removing' = [removing EXCEPT ![m] = [group |-> shown', rotated |-> FALSE]]
  /\ UNCHANGED <<newest, generation, removedAt, readRow, todo, sendVars>>

(* rotateGroupKey: the new key is saved and goes to the members whose      *)
(* bundle could be fetched; nothing is kept for the others.                *)
Rotate(m) ==
  /\ removing[m] # NoOne /\ ~removing[m].rotated
  /\ newest < MaxRemovals /\ newest' = newest + 1
  /\ generation' = [generation EXCEPT ![newest + 1] = generation[removing[m].group.key] + 1]
  /\ removedAt' = [removedAt EXCEPT ![newest + 1] = removed]
  /\ Save([removing[m].group EXCEPT !.key = newest + 1])
  /\ removing' = [removing EXCEPT ![m] = [group |-> row', rotated |-> TRUE]]
  /\ \E reached \in SUBSET row'.members : todo' = [todo EXCEPT ![newest + 1] = reached]
  /\ UNCHANGED <<removed, shown, readRow, spent, sendVars>>

(* After the distribution the user interface gets the rotated group.       *)
RotateEnds(m) ==
  /\ removing[m] # NoOne /\ removing[m].rotated /\ todo[removing[m].group.key] = {}
  /\ shown' = removing[m].group
  /\ removing' = [removing EXCEPT ![m] = NoOne]
  /\ UNCHANGED <<row, relisted, keyVars, readRow, todo, spent, sendVars>>

(* A presence message or the retry tick reads the groups, and writes a row *)
(* back with a new address after an await; the presence message also gives *)
(* it to the user interface.                                               *)
ReadForRefresh ==
  /\ readRow = NoOne
  /\ Event("refresh", MaxRefreshes)
  /\ readRow' = row
  /\ UNCHANGED <<rowVars, todo, sendVars>>

WriteBack ==
  /\ readRow # NoOne
  /\ Save(readRow)
  /\ shown' \in {shown, readRow}
  /\ readRow' = NoOne
  /\ UNCHANGED <<removing, keyVars, todo, spent, sendVars>>

-----------------------------------------------------------------------------
(* Sending an envelope, under the member's send lock.                      *)

LockFree(m) ==
  \A s \in Senders : sending[s] # NoOne /\ sending[s].status = "waiting" => sending[s].env.to # m

Transmit(s, env) ==
  /\ sending' = [sending EXCEPT ![s] = [env |-> env, status |-> "waiting"]]
  /\ wire' = wire \cup {[env |-> env, by |-> s, step |-> "new"]}

(* A bundle always carries another one-time pre-key.                       *)
Wrap(m, k, env) ==
  /\ env = [to |-> m, key |-> k, opk |-> issued[m] + 1]
  /\ issued' = [issued EXCEPT ![m] = @ + 1]
  /\ enveloped' = enveloped \cup {env}

NewTask(env) ==
  [key |-> env.key, opk |-> env.opk, attempts |-> 0, rejected |-> FALSE, failed |-> FALSE]

(* The answer to a request is lost or comes after GROUP_ACK_TIMEOUT_MS;    *)
(* the member may still handle it.                                         *)
Unanswered(s) ==
  /\ sending[s] # NoOne /\ sending[s].status = "waiting"
  /\ Event("timeout", MaxTimeouts)
  /\ sending' = [sending EXCEPT ![s].status = "failed"]
  /\ wire' = {IF r.by = s THEN [r EXCEPT !.by = NoOne] ELSE r : r \in wire}
  /\ UNCHANGED <<rowVars, readRow, todo, task, pass, issued, enveloped, ackedKeys, memberVars>>

(* distributeGroupKey, one member.                                         *)
DistributeTo(k, m) ==
  /\ sending[k] = NoOne /\ m \in todo[k] /\ LockFree(m)
  /\ \E env \in {[to |-> m, key |-> k, opk |-> issued[m] + 1]} :
       Wrap(m, k, env) /\ Transmit(k, env)
  /\ UNCHANGED <<rowVars, readRow, todo, task, pass, spent, ackedKeys, memberVars>>

(* The member acknowledged, or its envelope goes into the queue.           *)
Delivered(k) ==
  /\ sending[k] # NoOne /\ sending[k].status # "waiting"
  /\ LET env == sending[k].env IN
       /\ todo' = [todo EXCEPT ![k] = @ \ {env.to}]
       /\ IF sending[k].status = "accepted"
            THEN ackedKeys' = ackedKeys \cup {<<env.to, env.key>>} /\ UNCHANGED task
            ELSE task' = [task EXCEPT ![env.to] = NewTask(env)] /\ UNCHANGED ackedKeys
  /\ sending' = [sending EXCEPT ![k] = NoOne]
  /\ UNCHANGED <<rowVars, readRow, pass, wire, issued, spent, enveloped, memberVars>>

-----------------------------------------------------------------------------
(* processDeliveryQueue and its two calls in retryQueuedGroupKeys.         *)

Pending == {m \in Members : task[m] # NoOne /\ ~task[m].failed}

(* All tasks are read once; the loop works on what was read.               *)
BeginPass(at, bundles) ==
  \E due \in SUBSET Pending :
    pass' = [at |-> at, snapshot |-> task, rejecting |-> {}, bundles |-> bundles,
             left |-> due \cup {m \in bundles : task[m] # NoOne /\ task[m].rejected}]

Tick ==
  /\ pass.at = "idle" /\ Pending # {}
  /\ Spend("pass", MaxPasses)
  /\ BeginPass("first", {})
  /\ UNCHANGED <<rowVars, readRow, todo, task, sending, wire, issued, enveloped, ackedKeys, memberVars>>

(* Fresh bundles are fetched for the members that rejected an envelope.    *)
TickAgain ==
  /\ pass.at = "first" /\ pass.left = {} /\ pass.rejecting # {}
  /\ \E bundles \in (SUBSET pass.rejecting) \ {{}} : BeginPass("second", bundles)
  /\ UNCHANGED <<rowVars, readRow, todo, task, sending, wire, issued, spent, enveloped, ackedKeys, memberVars>>

TickEnds ==
  /\ pass.at # "idle" /\ pass.left = {}
  /\ pass' = Idle
  /\ UNCHANGED <<rowVars, readRow, todo, task, sending, wire, issued, spent, enveloped, ackedKeys, memberVars>>

Replaces(m) == pass.snapshot[m].rejected /\ m \in pass.bundles
(* Only generations are compared, not keys.                                *)
Outdated(m) == generation[pass.snapshot[m].key] # generation[row.key]
Snapshotted(m) == [to |-> m, key |-> pass.snapshot[m].key, opk |-> pass.snapshot[m].opk]

(* A plausible bug: the exact envelope is never trusted again.             *)
ResendRewrapped(m) ==
  /\ sending[Queue] = NoOne /\ m \in pass.left /\ LockFree(m)
  /\ m \in row.members /\ ~Outdated(m) /\ ~Replaces(m)
  /\ \E env \in {[to |-> m, key |-> row.key, opk |-> issued[m] + 1]} :
       Wrap(m, row.key, env) /\ Transmit(Queue, env)
  /\ UNCHANGED <<rowVars, readRow, todo, task, pass, spent, ackedKeys, memberVars>>

(* The exact envelope again.                                               *)
Resend(m) ==
  /\ sending[Queue] = NoOne /\ m \in pass.left /\ LockFree(m)
  /\ m \in row.members /\ ~Outdated(m) /\ ~Replaces(m)
  /\ Transmit(Queue, Snapshotted(m))
  /\ UNCHANGED <<rowVars, readRow, todo, task, pass, issued, spent, enveloped, ackedKeys, memberVars>>

(* A plausible bug: membership is taken from the task, not from the group. *)
RewrapForAnyone(m) ==
  /\ sending[Queue] = NoOne /\ m \in pass.left /\ LockFree(m)
  /\ m \in pass.bundles /\ (Outdated(m) \/ Replaces(m))
  /\ \E env \in {[to |-> m, key |-> row.key, opk |-> issued[m] + 1]} :
       /\ Wrap(m, row.key, env) /\ Transmit(Queue, env)
       /\ task' = [task EXCEPT ![m] = NewTask(env)]
       /\ pass' = [pass EXCEPT !.snapshot[m] = NewTask(env)]
  /\ UNCHANGED <<rowVars, readRow, todo, spent, ackedKeys, memberVars>>

(* A fresh envelope, persisted before it is sent.                          *)
Rewrap(m) ==
  /\ sending[Queue] = NoOne /\ m \in pass.left /\ LockFree(m)
  /\ m \in row.members /\ m \in pass.bundles /\ (Outdated(m) \/ Replaces(m))
  /\ \E env \in {[to |-> m, key |-> row.key, opk |-> issued[m] + 1]} :
       /\ Wrap(m, row.key, env) /\ Transmit(Queue, env)
       /\ task' = [task EXCEPT ![m] = NewTask(env)]
       /\ pass' = [pass EXCEPT !.snapshot[m] = NewTask(env)]
  /\ UNCHANGED <<rowVars, readRow, todo, spent, ackedKeys, memberVars>>

(* "member not in group", "fresh member bundle required".                  *)
CannotSend(m) ==
  /\ sending[Queue] = NoOne /\ m \in pass.left /\ LockFree(m)
  /\ m \notin row.members \/ (Outdated(m) /\ m \notin pass.bundles)
  /\ sending' = [sending EXCEPT ![Queue] = [env |-> Snapshotted(m), status |-> "failed"]]
  /\ UNCHANGED <<rowVars, readRow, todo, task, pass, wire, issued, spent, enveloped, ackedKeys, memberVars>>

(* After the lock: the row is deleted, or the task that was read at the    *)
(* beginning of the pass is written back with one attempt more.            *)
Retried(m) ==
  /\ sending[Queue] # NoOne /\ sending[Queue].status # "waiting" /\ sending[Queue].env.to = m
  /\ LET outcome == sending[Queue].status
         t == pass.snapshot[m]
     IN  IF outcome = "accepted"
           THEN /\ task' = [task EXCEPT ![m] = NoOne]
                /\ ackedKeys' = ackedKeys \cup {<<m, sending[Queue].env.key>>}
                /\ pass' = [pass EXCEPT !.left = @ \ {m}]
           ELSE /\ task' = [task EXCEPT ![m] =
                     [t EXCEPT !.attempts = @ + 1,
                               !.rejected = @ \/ outcome = "rejected",
                               !.failed = outcome # "rejected" /\ t.attempts + 1 >= MaxRetries]]
                /\ pass' = [pass EXCEPT !.left = @ \ {m},
                              !.rejecting = IF outcome = "rejected" THEN @ \cup {m} ELSE @]
                /\ UNCHANGED ackedKeys
  /\ sending' = [sending EXCEPT ![Queue] = NoOne]
  /\ UNCHANGED <<rowVars, readRow, todo, wire, issued, spent, enveloped, memberVars>>

(* The creator's page is reloaded: only the row and the queue survive.     *)
Reload ==
  /\ Event("reload", MaxReloads)
  /\ removing' = [m \in Members |-> NoOne] /\ shown' = row
  /\ readRow' = NoOne
  /\ todo' = [k \in KeyIds |-> {}]
  /\ pass' = Idle
  /\ sending' = [s \in Senders |-> NoOne]
  /\ wire' = {[r EXCEPT !.by = NoOne] : r \in wire}
  /\ UNCHANGED <<row, relisted, keyVars, task, issued, enveloped, ackedKeys, memberVars>>

-----------------------------------------------------------------------------
(* registerGroupHandler at a member.                                       *)

RespondTo(r, status) ==
  sending' = IF r.by = NoOne THEN sending ELSE [sending EXCEPT ![r.by].status = status]

(* Its stored group has that generation or a later one.                    *)
Has(m, k) == stored[m] # NoKey /\ generation[stored[m]] >= generation[k]

Duplicate(r) ==
  /\ r \in wire /\ r.step = "new" /\ Has(r.env.to, r.env.key)
  /\ RespondTo(r, "accepted")
  /\ wire' = wire \ {r}
  /\ UNCHANGED <<rowVars, readRow, todo, task, pass, issued, spent, enveloped, ackedKeys, memberVars>>

(* The one-time pre-key is not there (any more).                           *)
RejectOpk(r) ==
  /\ r \in wire /\ r.step = "new" /\ ~Has(r.env.to, r.env.key)
  /\ <<r.env.to, r.env.opk>> \in gone
  /\ RespondTo(r, "rejected")
  /\ wire' = wire \ {r}
  /\ refused' = refused \cup {r.env.to}
  /\ UNCHANGED <<rowVars, readRow, todo, task, pass, issued, spent, enveloped, ackedKeys, stored, gone, kept>>

(* A plausible bug: the acknowledgement precedes the save.                 *)
UnwrapAcknowledged(r) ==
  /\ r \in wire /\ r.step = "new" /\ ~Has(r.env.to, r.env.key)
  /\ <<r.env.to, r.env.opk>> \notin gone
  /\ RespondTo(r, "accepted")
  /\ wire' = (wire \ {r}) \cup {[r EXCEPT !.step = "unwrapping", !.by = NoOne]}
  /\ UNCHANGED <<rowVars, readRow, todo, task, pass, issued, spent, enveloped, ackedKeys, memberVars>>

(* The pre-key was read; the envelope is being unwrapped.                  *)
Unwrap(r) ==
  /\ r \in wire /\ r.step = "new" /\ ~Has(r.env.to, r.env.key)
  /\ <<r.env.to, r.env.opk>> \notin gone
  /\ wire' = (wire \ {r}) \cup {[r EXCEPT !.step = "unwrapping"]}
  /\ UNCHANGED <<rowVars, readRow, todo, task, pass, sending, issued, spent, enveloped, ackedKeys, memberVars>>

(* The group is saved, the pre-key burned, and the key acknowledged.       *)
StoreKey(r) ==
  /\ r \in wire /\ r.step = "unwrapping"
  /\ stored' = [stored EXCEPT ![r.env.to] = r.env.key]
  /\ kept' = kept \cup {<<r.env.to, r.env.key>>}
  /\ gone' = gone \cup {<<r.env.to, r.env.opk>>}
  /\ RespondTo(r, "accepted")
  /\ wire' = wire \ {r}
  /\ UNCHANGED <<rowVars, readRow, todo, task, pass, issued, spent, enveloped, ackedKeys, refused>>

(* A reserved pre-key is dropped by a replenish run (see Prekeys).         *)
OpkLost(m) ==
  /\ Event("opk", MaxLostOpks)
  /\ issued[m] > 0
  /\ gone' = gone \cup {<<m, issued[m]>>}
  /\ UNCHANGED <<rowVars, readRow, todo, task, pass, sending, wire, issued, enveloped, ackedKeys, stored, kept, refused>>

GroupsNext ==
  \/ ReadForRefresh \/ WriteBack \/ Tick \/ TickAgain \/ TickEnds \/ Reload
  \/ \E s \in Senders : Unanswered(s)
  \/ \E k \in KeyIds : Delivered(k)
  \/ \E m \in Members, k \in KeyIds : DistributeTo(k, m)
  \/ \E m \in Members : Remove(m) \/ Rotate(m) \/ RotateEnds(m) \/ Resend(m) \/ Rewrap(m)
                        \/ CannotSend(m) \/ Retried(m) \/ OpkLost(m)
  \/ \E r \in wire : Duplicate(r) \/ RejectOpk(r) \/ Unwrap(r) \/ StoreKey(r)

GroupsSpec == GroupsInit /\ [][GroupsNext]_groupVars

-----------------------------------------------------------------------------

(* A member whom the user removed stores no key made after that, whatever  *)
(* the queue or a distribution still holds for it: "On member removal, the *)
(* creator rotates the group key and re-distributes to remaining members"  *)
(* (groups.ts).  Unless a save of an older group object has put it back on *)
(* the list (see RotationLocksOut).                                        *)
RemovedLearnsNoNewKey ==
  \A k \in 1..newest : \A m \in removedAt[k] \ relisted : <<m, k>> \notin kept

(* A member removed before the key was rotated does not have the key the   *)
(* group uses now (the same sentence of groups.ts).                        *)
RotationLocksOut ==
  \A k \in 1..newest : \A m \in removedAt[k] : <<m, row.key>> \notin kept

(* "Generation counter - incremented on every key rotation" (groups.ts):   *)
(* a key has a later generation than every key made before.  Removals that *)
(* overlap, and saves of older group objects, repeat a generation.         *)
GenerationsIncrease == \A i, j \in 0..newest : i < j => generation[i] < generation[j]

(* A key the creator counts as delivered, and takes out of its queue, was  *)
(* stored by the member, it or one made later, although answers are lost   *)
(* and envelopes sent again; as long as later keys have later generations, *)
(* by which a member recognizes a key it has had.                          *)
CountedKeysWereStored ==
  GenerationsIncrease =>
    \A key \in ackedKeys : \E j \in KeyIds : j >= key[2] /\ <<key[1], j>> \in kept

(* "Retrying the same generation must not consume/re-wrap another OPK"     *)
(* (groups.ts): a second envelope for the same member and key is made only *)
(* for a member that reported a missing pre-key.                           *)
OneEnvelopePerGeneration ==
  \A e, f \in enveloped : e.to = f.to /\ e.key = f.key /\ e # f => e.to \in refused
=============================================================================
