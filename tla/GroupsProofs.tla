------------------------------ MODULE GroupsProofs ------------------------------
(***************************************************************************)
(* Group keys, for any number of members, removals, passes, timeouts and   *)
(* reloads: no key made after a removal reaches the removed member unless  *)
(* a save of an old group puts it back, what is counted as delivered was   *)
(* stored, and an envelope is made anew only for a member that refused one.*)
(*                                                                         *)
(* Three arguments meet in one invariant.  Everything that may hand over a *)
(* key (the row, distributions, tasks, the snapshot of a pass, sends,      *)
(* requests) is about a member that was not removed when the key was made, *)
(* or is listed again: `Entitled'.  A request that will be answered is the *)
(* one its sender waits for, so an answer is about the envelope that was   *)
(* sent: `Asking', `Answered'.  And a distribution makes an envelope for a *)
(* member once, since there is none of its key before the rotation; the    *)
(* queue makes another only with a bundle that was fetched after a         *)
(* refusal: `Lists', `Once', `Refusals'.                                   *)
(***************************************************************************)
EXTENDS Groups, TLAPS

(* A request that a member handles; a run of the queue.                    *)
KeyRequest == [env : Envelope, by : Senders \cup {NoOne}, step : {"new", "unwrapping"}]
Run == [at : {"idle", "first", "second"}, snapshot : [Members -> Task \cup {NoOne}],
        left : SUBSET Members, bundles : SUBSET Members, rejecting : SUBSET Members]

Counters == [pass : Nat, timeout : Nat, opk : Nat, refresh : Nat, reload : Nat, removal : Nat]

GroupsShape ==
  /\ row \in Group /\ shown \in Group /\ readRow \in Group \cup {NoOne}
  /\ removing \in [Members -> Removal \cup {NoOne}]
  /\ newest \in KeyIds /\ generation \in [KeyIds -> Nat]
  /\ removed \subseteq Members /\ relisted \subseteq Members /\ removedAt \in [KeyIds -> SUBSET Members]
  /\ todo \in [KeyIds -> SUBSET Members] /\ task \in [Members -> Task \cup {NoOne}]
  /\ pass \in Run /\ sending \in [Senders -> Send \cup {NoOne}] /\ wire \subseteq KeyRequest
  /\ stored \in [Members -> KeyIds \cup {NoKey}] /\ issued \in [Members -> Nat]
  /\ enveloped \subseteq Envelope
  /\ spent \in Counters

(* The queue works on members whose task it has read.                      *)
Working ==
  /\ \A m \in pass.left : pass.snapshot[m] # NoOne
  /\ pass.at = "idle" => pass.left = {}
  /\ sending[Queue] # NoOne => sending[Queue].env.to \in pass.left
  /\ \A g \in KeyIds : sending[g] # NoOne =>
       sending[g].env.key = g /\ sending[g].env.to \in todo[g]

(* A request that is answered is the one its sender waits for.             *)
Asking ==
  /\ \A r \in wire : r.by # NoOne =>
       sending[r.by] # NoOne /\ sending[r.by].status = "waiting" /\ sending[r.by].env = r.env
  /\ \A r, q \in wire : r.by # NoOne /\ r.by = q.by => r = q

(* Whom a key that was made may reach.                                     *)
Entitlements ==
  {key \in Members \X KeyIds : key[2] <= newest /\ key[1] \notin removedAt[key[2]] \ relisted}

(* Whatever may hand a key to a member is about a key for it.              *)
Entitled ==
  /\ \A k \in KeyIds : \A m \in todo[k] : <<m, k>> \in Entitlements
  /\ \A m \in Members : task[m] # NoOne => <<m, task[m].key>> \in Entitlements
  /\ \A m \in Members : pass.snapshot[m] # NoOne => <<m, pass.snapshot[m].key>> \in Entitlements
  /\ \A s \in Senders : sending[s] # NoOne =>
       <<sending[s].env.to, sending[s].env.key>> \in Entitlements
  /\ \A r \in wire : <<r.env.to, r.env.key>> \in Entitlements
  /\ kept \subseteq Entitlements /\ ackedKeys \subseteq Entitlements

(* The member has had a key of that generation or a later one.             *)
HasHad(m, k) == \E h \in KeyIds : generation[h] >= generation[k] /\ <<m, h>> \in kept

AckedHad == \A key \in ackedKeys : HasHad(key[1], key[2])

Answered ==
  /\ \A m \in Members : stored[m] # NoKey => <<m, stored[m]>> \in kept
  /\ \A s \in Senders : sending[s] # NoOne =>
       /\ sending[s].status = "accepted" => HasHad(sending[s].env.to, sending[s].env.key)
       /\ sending[s].status = "rejected" => sending[s].env.to \in refused
  /\ AckedHad

(* Fresh bundles are fetched only for members that refused an envelope.    *)
Refusals ==
  /\ \A m \in Members : task[m] # NoOne /\ task[m].rejected => m \in refused
  /\ \A m \in Members : pass.snapshot[m] # NoOne /\ pass.snapshot[m].rejected => m \in refused
  /\ pass.rejecting \subseteq refused /\ pass.bundles \subseteq refused

(* No group object and no envelope has a key that is not made yet, and a   *)
(* removed member on the list has been put back there.                     *)
Lists ==
  /\ row.members \cap removed \subseteq relisted /\ \A k \in KeyIds : removedAt[k] \subseteq removed
  /\ row.key <= newest /\ shown.key <= newest /\ (readRow # NoOne => readRow.key <= newest)
  /\ \A m \in Members : removing[m] # NoOne => removing[m].group.key <= newest
  /\ \A e \in enveloped : e.key <= newest
  /\ \A k \in KeyIds : k > newest => todo[k] = {}

(* A distribution makes its envelope for a member once.                    *)
Once ==
  /\ \A e \in enveloped :
       e.to \in refused \/ e.to \notin todo[e.key]
         \/ (sending[e.key] # NoOne /\ sending[e.key].env = e)
  /\ OneEnvelopePerGeneration

GroupsInv ==
  GroupsShape /\ Working /\ Asking /\ Entitled /\ Answered /\ Refusals /\ Lists /\ Once

-----------------------------------------------------------------------------

LEMMA Absences ==
  /\ NoOne \notin Senders /\ NoOne \notin Task /\ NoOne \notin Send
  /\ NoOne \notin Group /\ NoOne \notin Removal
  /\ MaxRemovals \in Nat /\ KeyIds \subseteq Senders /\ Queue \in Senders /\ Queue \notin KeyIds
  /\ 0 \in KeyIds /\ KeyIds \subseteq Nat /\ NoKey \notin KeyIds
  BY GroupsAssumption DEF Senders, KeyIds, Queue, NoKey

(* The types, one element at a time.                                       *)
LEMMA Elements ==
  ASSUME GroupsShape
  PROVE  /\ \A s \in Senders : sending[s] # NoOne =>
              /\ sending[s] \in Send /\ sending[s].env \in Envelope
              /\ sending[s].env.to \in Members /\ sending[s].env.key \in KeyIds
              /\ sending[s].env.opk \in Nat
         /\ \A r \in wire :
              /\ r \in KeyRequest /\ r.env \in Envelope /\ r.by \in Senders \cup {NoOne}
              /\ r.env.to \in Members /\ r.env.key \in KeyIds
         /\ \A m \in Members : task[m] # NoOne => task[m] \in Task
         /\ \A m \in Members : pass.snapshot[m] # NoOne =>
              pass.snapshot[m] \in Task /\ pass.snapshot[m].key \in KeyIds /\ pass.snapshot[m].opk \in Nat
         /\ row.key \in KeyIds /\ row.members \subseteq Members
  BY DEF GroupsShape, Send, Envelope, KeyRequest, Task, Run, Group

LEMMA GroupsInitInv == GroupsInit => GroupsInv
  <1> SUFFICES ASSUME GroupsInit PROVE GroupsInv
    OBVIOUS
  <1>1. PICK reached \in SUBSET Members : todo = [g \in KeyIds |-> IF g = 0 THEN reached ELSE {}]
    BY DEF GroupsInit
  <1>2. pass = Idle /\ Idle \in Run
    BY DEF GroupsInit, Idle, Run
  <1>3. GroupsShape
    <2>1. row \in Group /\ shown \in Group
      BY Absences DEF GroupsInit, Group
    <2>2. spent \in Counters
      BY DEF GroupsInit, Counters
    <2>3. /\ removing \in [Members -> Removal \cup {NoOne}] /\ readRow \in Group \cup {NoOne}
          /\ newest \in KeyIds /\ generation \in [KeyIds -> Nat]
          /\ removed \subseteq Members /\ relisted \subseteq Members /\ removedAt \in [KeyIds -> SUBSET Members]
      BY Absences DEF GroupsInit
    <2>4. /\ todo \in [KeyIds -> SUBSET Members] /\ task \in [Members -> Task \cup {NoOne}]
          /\ sending \in [Senders -> Send \cup {NoOne}] /\ wire \subseteq KeyRequest
          /\ stored \in [Members -> KeyIds \cup {NoKey}] /\ issued \in [Members -> Nat]
          /\ enveloped \subseteq Envelope
      BY <1>1 DEF GroupsInit
    <2> QED BY <1>2, <2>1, <2>2, <2>3, <2>4 DEF GroupsShape
  <1>4. Working /\ Asking /\ Refusals
    BY <1>2, Absences DEF GroupsInit, Working, Asking, Refusals, Idle
  <1>5. Entitled
    <2>1. /\ \A k \in KeyIds : todo[k] = IF k = 0 THEN reached ELSE {}
          /\ \A k \in KeyIds : removedAt[k] = {}
          /\ 0 \in KeyIds /\ 0 <= newest
      BY <1>1, Absences DEF GroupsInit
    <2>2. \A k \in KeyIds : \A m \in todo[k] : <<m, k>> \in Entitlements
      BY <2>1 DEF Entitlements, GroupsInit
    <2>3. \A m \in Members : task[m] = NoOne /\ pass.snapshot[m] = NoOne
      BY <1>2 DEF GroupsInit, Idle
    <2>4. \A s \in Senders : sending[s] = NoOne
      BY DEF GroupsInit
    <2>5. wire = {} /\ kept = {} /\ ackedKeys = {}
      BY DEF GroupsInit
    <2> QED BY <2>2, <2>3, <2>4, <2>5 DEF Entitled
  <1>6. Answered /\ Once
    BY Absences DEF GroupsInit, Answered, AckedHad, Once, OneEnvelopePerGeneration
  <1>7. Lists
    BY <1>1, Absences DEF GroupsInit, Lists
  <1> QED BY <1>3, <1>4, <1>5, <1>6, <1>7 DEF GroupsInv

(* A send that is only answered, or given up, stays about its envelope.    *)
SameSends ==
  \A s \in Senders : sending'[s] # NoOne => sending[s] # NoOne /\ sending'[s].env = sending[s].env

(* What does not depend on requests and answers.                           *)
LEMMA SendsKept ==
  ASSUME GroupsInv, SameSends, UNCHANGED <<row, readRow, todo, task, pass>>
  PROVE  Working' /\ (\A s \in Senders : sending'[s] # NoOne =>
                        <<sending'[s].env.to, sending'[s].env.key>> \in Entitlements)
  <1>1. KeyIds \subseteq Senders /\ Queue \in Senders
    BY Absences
  <1> QED BY <1>1 DEF SameSends, GroupsInv, Working, Entitled

(* Entitlements change only with the removals and the keys.                *)
LEMMA SameEntitlements ==
  ASSUME UNCHANGED rowVars
  PROVE  /\ Entitlements' = Entitlements
         /\ UNCHANGED <<row, shown, removing, relisted, newest, generation, removed, removedAt>>
  BY DEF rowVars, keyVars, Entitlements

-----------------------------------------------------------------------------
(* Removal, rotation and address refreshes.                                *)

(* What a member has had stays so when a key is made.                      *)
LEMMA HadStays ==
  ASSUME GroupsInv, kept' = kept, \A k \in KeyIds : k <= newest => generation'[k] = generation[k],
         NEW m, NEW k \in KeyIds, k <= newest, HasHad(m, k)
  PROVE  \E h \in KeyIds : generation'[h] >= generation'[k] /\ <<m, h>> \in kept'
  <1>1. PICK h \in KeyIds : generation[h] >= generation[k] /\ <<m, h>> \in kept
    BY DEF HasHad
  <1>2. <<m, h>> \in Entitlements
    BY <1>1 DEF GroupsInv, Entitled
  <1>3. h <= newest
    BY <1>2 DEF Entitlements
  <1> QED BY <1>1, <1>3

(* Steps of the creator outside sending and the queue.                     *)
LEMMA CreatorOnly ==
  ASSUME GroupsInv, GroupsShape', UNCHANGED sendVars, Working', Lists', Once',
         Entitlements \subseteq Entitlements',
         \A k \in KeyIds : k <= newest => generation'[k] = generation[k],
         \A k \in KeyIds : \A m \in todo'[k] : <<m, k>> \in Entitlements'
  PROVE  GroupsInv'
  <1>1. /\ UNCHANGED <<task, pass, sending, wire, issued, enveloped, ackedKeys>>
        /\ UNCHANGED <<stored, gone, kept, refused>>
    BY DEF sendVars, memberVars
  <1>2. Asking' /\ Refusals'
    BY <1>1 DEF GroupsInv, Asking, Refusals
  <1>3. Entitled'
    BY <1>1 DEF GroupsInv, Entitled
  <1>4. \A key \in Entitlements : key[2] \in KeyIds /\ key[2] <= newest
    BY DEF Entitlements
  <1>5. ASSUME NEW s \in Senders, sending[s] # NoOne, sending[s].status = "accepted"
        PROVE  HasHad(sending[s].env.to, sending[s].env.key)'
    <2>1. sending[s].env.key \in KeyIds /\ HasHad(sending[s].env.to, sending[s].env.key)
      BY <1>5, Elements DEF GroupsInv, Answered
    <2>2. <<sending[s].env.to, sending[s].env.key>> \in Entitlements
      BY <1>5 DEF GroupsInv, Entitled
    <2>3. sending[s].env.key <= newest
      BY <1>4, <2>2
    <2>4. \E h \in KeyIds : generation'[h] >= generation'[sending[s].env.key]
                            /\ <<sending[s].env.to, h>> \in kept'
      BY <1>1, <2>1, <2>3, HadStays
    <2> QED BY <1>1, <2>4 DEF HasHad
  <1>6. AckedHad'
    <2>1. ASSUME NEW key \in ackedKeys PROVE HasHad(key[1], key[2])'
      <3>1. key[2] \in KeyIds /\ key[2] <= newest /\ HasHad(key[1], key[2])
        BY <1>4 DEF GroupsInv, Entitled, Answered, AckedHad
      <3>2. \E h \in KeyIds : generation'[h] >= generation'[key[2]] /\ <<key[1], h>> \in kept'
        BY <1>1, <3>1, HadStays
      <3> QED BY <3>2 DEF HasHad
    <2> QED BY <1>1, <2>1 DEF AckedHad
  <1>7. Answered'
    BY <1>1, <1>5, <1>6 DEF GroupsInv, Answered
  <1> QED BY <1>2, <1>3, <1>7 DEF GroupsInv

(* Steps that make no key and start no distribution.                       *)
LEMMA NoKeyMade ==
  ASSUME GroupsInv, GroupsShape', UNCHANGED sendVars, UNCHANGED <<newest, generation, removedAt, todo>>,
         Lists', relisted \subseteq relisted'
  PROVE  GroupsInv'
  <1>1. Entitlements \subseteq Entitlements'
    BY DEF Entitlements
  <1>2. Working' /\ Once'
    BY DEF GroupsInv, Working, Once, OneEnvelopePerGeneration, sendVars, memberVars
  <1>3. \A k \in KeyIds : \A m \in todo'[k] : <<m, k>> \in Entitlements'
    BY <1>1 DEF GroupsInv, Entitled
  <1> QED BY <1>1, <1>2, <1>3, CreatorOnly

LEMMA RemoveInv == ASSUME GroupsInv, NEW m \in Members, Remove(m) PROVE GroupsInv'
  <1> DEFINE removal == [group |-> row', rotated |-> FALSE]
  <1>1. /\ shown' = [shown EXCEPT !.members = @ \ {m}] /\ row' = shown'
        /\ relisted' = relisted \cup (removed \cap row'.members) /\ removed' = removed \cup {m}
        /\ removing' = [removing EXCEPT ![m] = removal]
        /\ spent' = [spent EXCEPT !.removal = @ + 1]
        /\ UNCHANGED <<newest, generation, removedAt, readRow, todo>> /\ UNCHANGED sendVars
    BY DEF Remove, Save, Event, Spend
  <1>2. row' \in Group /\ row'.key = shown.key /\ row'.members = shown.members \ {m}
    BY <1>1 DEF GroupsInv, GroupsShape, Group
  <1>3. removal \in Removal /\ removal.group.key = shown.key
    BY <1>2 DEF Removal
  <1> HIDE DEF removal
  <1>4. \A q \in Members : removing'[q] = IF q = m THEN removal ELSE removing[q]
    BY <1>1 DEF GroupsInv, GroupsShape
  <1>5. GroupsShape'
    <2>1. spent' \in Counters
      BY <1>1 DEF GroupsInv, GroupsShape, Counters
    <2>2. removing' \in [Members -> Removal \cup {NoOne}]
      BY <1>1, <1>3 DEF GroupsInv, GroupsShape
    <2> QED BY <1>1, <1>2, <2>1, <2>2 DEF GroupsInv, GroupsShape, sendVars, memberVars
  <1>6. Lists'
    <2>1. enveloped' = enveloped
      BY <1>1 DEF sendVars
    <2> QED BY <1>1, <1>2, <1>3, <1>4, <2>1 DEF GroupsInv, Lists
  <1> QED BY <1>1, <1>5, <1>6, NoKeyMade

(* The key is new: no envelope was made with it, and whom it is made for   *)
(* is on the list that is saved.                                           *)
LEMMA RotateInv == ASSUME GroupsInv, NEW m \in Members, Rotate(m) PROVE GroupsInv'
  <1> DEFINE new == newest + 1
             group == removing[m].group
             removal == [group |-> row', rotated |-> TRUE]
  <1>1. /\ removing[m] # NoOne /\ newest < MaxRemovals /\ newest' = new
        /\ generation' = [generation EXCEPT ![new] = generation[group.key] + 1]
        /\ removedAt' = [removedAt EXCEPT ![new] = removed]
        /\ row' = [group EXCEPT !.key = new]
        /\ relisted' = relisted \cup (removed \cap row'.members)
        /\ removing' = [removing EXCEPT ![m] = removal]
        /\ UNCHANGED <<removed, shown, readRow, spent>> /\ UNCHANGED sendVars
    BY DEF Rotate, Save
  <1>2. PICK reached \in SUBSET row'.members : todo' = [todo EXCEPT ![new] = reached]
    BY DEF Rotate
  <1>3. new \in KeyIds /\ newest \in Nat /\ new > newest /\ newest \in KeyIds
    BY <1>1, Absences DEF GroupsInv, GroupsShape, KeyIds
  <1>4. removing[m] \in Removal /\ group \in Group
    BY <1>1 DEF GroupsInv, GroupsShape, Removal
  <1>5. row' \in Group /\ row'.key = new /\ row'.members \subseteq Members
    BY <1>1, <1>3, <1>4 DEF Group
  <1>6. removal \in Removal /\ removal.group = row'
    BY <1>5 DEF Removal
  <1> HIDE DEF removal
  <1>7. generation[group.key] + 1 \in Nat
    BY <1>4 DEF GroupsInv, GroupsShape, Group
  <1> HIDE DEF new, group
  <1>8. /\ \A k \in KeyIds : todo'[k] = IF k = new THEN reached ELSE todo[k]
        /\ \A k \in KeyIds : removedAt'[k] = IF k = new THEN removed ELSE removedAt[k]
        /\ \A k \in KeyIds : k # new => generation'[k] = generation[k]
        /\ \A q \in Members : removing'[q] = IF q = m THEN removal ELSE removing[q]
    BY <1>1, <1>2, <1>3 DEF GroupsInv, GroupsShape
  <1>9. GroupsShape'
    <2>1. /\ generation' \in [KeyIds -> Nat] /\ removedAt' \in [KeyIds -> SUBSET Members]
          /\ todo' \in [KeyIds -> SUBSET Members] /\ removing' \in [Members -> Removal \cup {NoOne}]
          /\ relisted' \subseteq Members /\ removed' \subseteq Members
      BY <1>1, <1>2, <1>3, <1>5, <1>6, <1>7 DEF GroupsInv, GroupsShape
    <2> QED BY <1>1, <1>3, <1>5, <2>1 DEF GroupsInv, GroupsShape, sendVars, memberVars
  <1>10. todo[new] = {} /\ sending[new] = NoOne
    <2>1. todo[new] = {}
      BY <1>3 DEF GroupsInv, Lists
    <2> QED BY <1>3, <2>1 DEF GroupsInv, Working
  <1>11. UNCHANGED <<task, pass, sending, enveloped, refused>>
    BY <1>1 DEF sendVars, memberVars
  <1>12. Working'
    BY <1>8, <1>10, <1>11 DEF GroupsInv, Working
  <1>13. \A e \in enveloped : e.key \in KeyIds /\ e.key # new /\ e.key <= newest
    BY <1>3 DEF GroupsInv, GroupsShape, Envelope, Lists
  <1>14. Once'
    <2>1. \A e \in enveloped : todo'[e.key] = todo[e.key]
      BY <1>8, <1>13
    <2> QED BY <1>11, <2>1 DEF GroupsInv, Once, OneEnvelopePerGeneration
  <1>15. Lists'
    <2>1. /\ row'.key <= newest' /\ shown'.key <= newest'
          /\ (readRow' # NoOne => readRow'.key <= newest')
          /\ row'.members \cap removed' \subseteq relisted'
      BY <1>1, <1>3, <1>5 DEF GroupsInv, Lists, GroupsShape, Group, KeyIds
    <2>2. \A q \in Members : removing'[q] # NoOne => removing'[q].group.key <= newest'
      <3>1. ASSUME NEW q \in Members, q # m, removing[q] # NoOne
            PROVE  removing[q].group.key <= newest'
        <4>1. removing[q].group.key <= newest /\ removing[q].group.key \in KeyIds
          BY <3>1 DEF GroupsInv, Lists, GroupsShape, Removal, Group
        <4> QED BY <1>1, <1>3, <4>1 DEF KeyIds
      <3> QED BY <1>6, <1>8, <2>1, <3>1
    <2>3. /\ \A k \in KeyIds : removedAt'[k] \subseteq removed'
          /\ \A k \in KeyIds : k > newest' => todo'[k] = {}
      <3>1. \A k \in KeyIds : k > new => k > newest /\ k # new
        BY <1>3 DEF KeyIds
      <3> QED BY <1>1, <1>8, <3>1 DEF GroupsInv, Lists
    <2>4. \A e \in enveloped' : e.key <= newest'
      BY <1>1, <1>3, <1>11, <1>13 DEF KeyIds
    <2> QED BY <2>1, <2>2, <2>3, <2>4 DEF Lists
  <1>16. Entitlements \subseteq Entitlements'
    <2>1. \A k \in KeyIds : k <= newest => k # new /\ k <= newest'
      BY <1>1, <1>3 DEF KeyIds
    <2> QED BY <1>1, <1>8, <2>1 DEF Entitlements
  <1>17. \A k \in KeyIds : \A q \in todo'[k] : <<q, k>> \in Entitlements'
    <2>1. ASSUME NEW q \in reached PROVE <<q, new>> \in Entitlements'
      <3>1. q \in Members /\ q \notin removed \ relisted'
        BY <1>1, <1>2, <1>5
      <3>2. new <= newest' /\ removedAt'[new] = removed
        BY <1>1, <1>3, <1>8 DEF KeyIds
      <3> QED BY <1>3, <3>1, <3>2 DEF Entitlements
    <2>2. \A k \in KeyIds : \A q \in todo[k] : <<q, k>> \in Entitlements
      BY DEF GroupsInv, Entitled
    <2>3. ASSUME NEW k \in KeyIds, NEW q \in todo'[k] PROVE <<q, k>> \in Entitlements'
      <3>1. CASE k = new
        BY <1>8, <2>1, <2>3, <3>1
      <3>2. CASE k # new
        BY <1>8, <1>16, <2>2, <2>3, <3>2
      <3> QED BY <3>1, <3>2
    <2> QED BY <2>3
  <1>18. \A k \in KeyIds : k <= newest => generation'[k] = generation[k]
    BY <1>3, <1>8 DEF KeyIds
  <1> QED BY <1>1, <1>9, <1>12, <1>14, <1>15, <1>16, <1>17, <1>18, CreatorOnly

LEMMA RotateEndsInv == ASSUME GroupsInv, NEW m \in Members, RotateEnds(m) PROVE GroupsInv'
  <1>1. /\ removing[m] # NoOne /\ shown' = removing[m].group
        /\ removing' = [removing EXCEPT ![m] = NoOne]
        /\ UNCHANGED <<row, relisted, newest, generation, removed, removedAt, readRow, todo, spent>>
        /\ UNCHANGED sendVars
    BY DEF RotateEnds, keyVars
  <1>2. removing[m] \in Removal /\ shown' \in Group /\ shown'.key <= newest
    BY <1>1 DEF GroupsInv, GroupsShape, Lists, Removal
  <1>3. /\ removing' \in [Members -> Removal \cup {NoOne}]
        /\ \A q \in Members : removing'[q] # NoOne => removing'[q] = removing[q]
    BY <1>1 DEF GroupsInv, GroupsShape
  <1>4. GroupsShape'
    BY <1>1, <1>2, <1>3 DEF GroupsInv, GroupsShape, sendVars, memberVars
  <1>5. Lists'
    <2>1. enveloped' = enveloped
      BY <1>1 DEF sendVars
    <2> QED BY <1>1, <1>2, <1>3, <2>1 DEF GroupsInv, Lists
  <1> QED BY <1>1, <1>4, <1>5, NoKeyMade

LEMMA ReadForRefreshInv == ASSUME GroupsInv, ReadForRefresh PROVE GroupsInv'
  <1>1. /\ readRow' = row /\ spent' = [spent EXCEPT !.refresh = @ + 1]
        /\ UNCHANGED <<row, shown, removing, relisted, newest, generation, removed, removedAt, todo>>
        /\ UNCHANGED sendVars
    BY DEF ReadForRefresh, Event, Spend, rowVars, keyVars
  <1>2. spent' \in Counters
    BY <1>1 DEF GroupsInv, GroupsShape, Counters
  <1>3. GroupsShape'
    BY <1>1, <1>2 DEF GroupsInv, GroupsShape, sendVars, memberVars
  <1>4. Lists'
    <2>1. enveloped' = enveloped
      BY <1>1 DEF sendVars
    <2> QED BY <1>1, <2>1 DEF GroupsInv, Lists
  <1> QED BY <1>1, <1>3, <1>4, NoKeyMade

(* What is written back is a group that was stored before: whom it lists   *)
(* again is known from then on.                                            *)
LEMMA WriteBackInv == ASSUME GroupsInv, WriteBack PROVE GroupsInv'
  <1>1. /\ readRow # NoOne /\ row' = readRow /\ readRow' = NoOne /\ shown' \in {shown, readRow}
        /\ relisted' = relisted \cup (removed \cap readRow.members)
        /\ UNCHANGED <<removing, newest, generation, removed, removedAt, todo, spent>>
        /\ UNCHANGED sendVars
    BY DEF WriteBack, Save, keyVars
  <1>2. readRow \in Group
    BY <1>1 DEF GroupsInv, GroupsShape
  <1>3. GroupsShape'
    BY <1>1, <1>2 DEF GroupsInv, GroupsShape, sendVars, memberVars
  <1>4. Lists'
    <2>1. enveloped' = enveloped
      BY <1>1 DEF sendVars
    <2> QED BY <1>1, <2>1 DEF GroupsInv, Lists
  <1> QED BY <1>1, <1>3, <1>4, NoKeyMade

-----------------------------------------------------------------------------
(* Sending.                                                                *)

LEMMA NewTaskIs ==
  ASSUME NEW env \in Envelope
  PROVE  /\ NewTask(env) \in Task /\ NewTask(env) # NoOne
         /\ NewTask(env).key = env.key /\ ~NewTask(env).rejected
  <1>1. /\ NewTask(env) \in Task /\ NewTask(env).key = env.key /\ ~NewTask(env).rejected
    BY DEF NewTask, Task, Envelope
  <1> QED BY <1>1, Absences

(* A sender that waits for nothing sends one request.                      *)
LEMMA Sent ==
  ASSUME GroupsInv, NEW s \in Senders, sending[s] = NoOne, NEW env \in Envelope,
         <<env.to, env.key>> \in Entitlements, Transmit(s, env)
  PROVE  /\ sending' \in [Senders -> Send \cup {NoOne}] /\ wire' \subseteq KeyRequest /\ Asking'
         /\ sending'[s] # NoOne /\ sending'[s].env = env /\ sending'[s].status = "waiting"
         /\ \A q \in Senders : q # s => sending'[q] = sending[q]
         /\ \A q \in Senders : sending'[q] # NoOne =>
              <<sending'[q].env.to, sending'[q].env.key>> \in Entitlements
         /\ \A r \in wire' : <<r.env.to, r.env.key>> \in Entitlements
  <1> DEFINE new == [env |-> env, status |-> "waiting"]
             req == [env |-> env, by |-> s, step |-> "new"]
  <1>1. sending' = [sending EXCEPT ![s] = new] /\ wire' = wire \cup {req}
    BY DEF Transmit
  <1>2. /\ new \in Send /\ new # NoOne /\ new.env = env /\ new.status = "waiting"
        /\ req \in KeyRequest /\ req.env = env /\ req.by = s
    BY Absences DEF Send, KeyRequest
  <1> HIDE DEF new, req
  <1>3. /\ sending'[s] = new /\ \A q \in Senders : q # s => sending'[q] = sending[q]
        /\ sending' \in [Senders -> Send \cup {NoOne}] /\ wire' \subseteq KeyRequest
    BY <1>1, <1>2 DEF GroupsInv, GroupsShape
  <1>4. \A r \in wire : r.by # NoOne => r.by # s /\ r.by \in Senders
    BY Elements DEF GroupsInv, Asking
  <1>5. Asking'
    BY <1>1, <1>2, <1>3, <1>4 DEF GroupsInv, Asking
  <1>6. /\ \A q \in Senders : sending'[q] # NoOne =>
              <<sending'[q].env.to, sending'[q].env.key>> \in Entitlements
        /\ \A r \in wire' : <<r.env.to, r.env.key>> \in Entitlements
    BY <1>1, <1>2, <1>3 DEF GroupsInv, Entitled
  <1> QED BY <1>2, <1>3, <1>5, <1>6

(* The answers so far stand, and no member has learned anything yet.       *)
LEMMA AnsweredSame ==
  ASSUME GroupsInv, UNCHANGED <<memberVars, ackedKeys, generation>>,
         \A s \in Senders : sending'[s] # NoOne /\ sending'[s] # sending[s] =>
           sending'[s].status \in {"waiting", "failed"}
  PROVE  Answered'
  BY DEF GroupsInv, Answered, HasHad, AckedHad, memberVars

LEMMA DistributeToInv ==
  ASSUME GroupsInv, NEW g \in KeyIds, NEW m \in Members, DistributeTo(g, m) PROVE GroupsInv'
  <1> DEFINE env == [to |-> m, key |-> g, opk |-> issued[m] + 1]
  <1>1. /\ sending[g] = NoOne /\ m \in todo[g] /\ Transmit(g, env)
        /\ issued' = [issued EXCEPT ![m] = @ + 1] /\ enveloped' = enveloped \cup {env}
        /\ UNCHANGED <<rowVars, readRow, todo, task, pass, spent, ackedKeys, memberVars>>
    BY DEF DistributeTo, Wrap
  <1>2. env \in Envelope /\ env.to = m /\ env.key = g
    BY DEF GroupsInv, GroupsShape, Envelope
  <1> HIDE DEF env
  <1>3. <<env.to, env.key>> \in Entitlements /\ g \in Senders
    BY <1>1, <1>2, Absences DEF GroupsInv, Entitled
  <1>4. /\ sending' \in [Senders -> Send \cup {NoOne}] /\ wire' \subseteq KeyRequest /\ Asking'
        /\ sending'[g] # NoOne /\ sending'[g].env = env /\ sending'[g].status = "waiting"
        /\ \A q \in Senders : q # g => sending'[q] = sending[q]
        /\ \A q \in Senders : sending'[q] # NoOne =>
             <<sending'[q].env.to, sending'[q].env.key>> \in Entitlements
        /\ \A r \in wire' : <<r.env.to, r.env.key>> \in Entitlements
    BY <1>1, <1>2, <1>3, Sent
  <1>5. GroupsShape'
    BY <1>1, <1>2, <1>4 DEF GroupsInv, GroupsShape, rowVars, keyVars, memberVars
  <1>6. Working'
    BY <1>1, <1>2, <1>4, Absences DEF GroupsInv, Working
  <1>7. Entitled'
    BY <1>1, <1>4, SameEntitlements DEF GroupsInv, Entitled, rowVars, keyVars, memberVars
  <1>8. Answered'
    BY <1>1, <1>4, AnsweredSame DEF rowVars, keyVars
  <1>9. Refusals'
    BY <1>1 DEF GroupsInv, Refusals, memberVars
  <1>10. Lists'
    <2>1. g <= newest
      BY <1>2, <1>3 DEF Entitlements
    <2> QED BY <1>1, <1>2, <2>1 DEF GroupsInv, Lists, rowVars, keyVars
  <1>11. Once'
    <2>1. \A e \in enveloped' :
            e.to \in refused \/ e.to \notin todo[e.key]
              \/ (sending'[e.key] # NoOne /\ sending'[e.key].env = e)
      <3>1. \A e \in enveloped : e.key \in Senders
        BY Absences DEF GroupsInv, GroupsShape, Envelope
      <3> QED BY <1>1, <1>2, <1>4, <3>1 DEF GroupsInv, Once
    <2>2. \A e \in enveloped : e.to = m /\ e.key = g => m \in refused
      BY <1>1 DEF GroupsInv, Once
    <2>3. OneEnvelopePerGeneration'
      BY <1>1, <1>2, <2>2 DEF GroupsInv, Once, OneEnvelopePerGeneration, memberVars
    <2> QED BY <1>1, <2>1, <2>3 DEF Once, memberVars
  <1> QED BY <1>4, <1>5, <1>6, <1>7, <1>8, <1>9, <1>10, <1>11 DEF GroupsInv

(* What a distribution has done does not depend on the queue's sends.      *)
LEMMA OnceSame ==
  ASSUME GroupsInv, UNCHANGED <<enveloped, todo, memberVars>>,
         \A g \in KeyIds : sending'[g] = sending[g]
  PROVE  Once'
  <1>1. \A e \in enveloped : e.key \in KeyIds
    BY DEF GroupsInv, GroupsShape, Envelope
  <1> QED BY <1>1 DEF GroupsInv, Once, OneEnvelopePerGeneration, memberVars

LEMMA ResendInv == ASSUME GroupsInv, NEW m \in Members, Resend(m) PROVE GroupsInv'
  <1> DEFINE env == Snapshotted(m)
  <1>1. /\ sending[Queue] = NoOne /\ m \in pass.left /\ Transmit(Queue, env)
        /\ UNCHANGED <<rowVars, readRow, todo, task, pass, issued, spent, enveloped, ackedKeys, memberVars>>
    BY DEF Resend
  <1>2. pass.snapshot[m] # NoOne
    BY <1>1 DEF GroupsInv, Working
  <1>3. env \in Envelope /\ env.to = m /\ env.key = pass.snapshot[m].key
    BY <1>2, Elements DEF GroupsInv, Snapshotted, Envelope
  <1> HIDE DEF env
  <1>4. <<env.to, env.key>> \in Entitlements /\ Queue \in Senders
    BY <1>2, <1>3, Absences DEF GroupsInv, Entitled
  <1>5. /\ sending' \in [Senders -> Send \cup {NoOne}] /\ wire' \subseteq KeyRequest /\ Asking'
        /\ sending'[Queue] # NoOne /\ sending'[Queue].env = env /\ sending'[Queue].status = "waiting"
        /\ \A q \in Senders : q # Queue => sending'[q] = sending[q]
        /\ \A q \in Senders : sending'[q] # NoOne =>
             <<sending'[q].env.to, sending'[q].env.key>> \in Entitlements
        /\ \A r \in wire' : <<r.env.to, r.env.key>> \in Entitlements
    BY <1>1, <1>3, <1>4, Sent
  <1>6. GroupsShape'
    BY <1>1, <1>5 DEF GroupsInv, GroupsShape, rowVars, keyVars, memberVars
  <1>7. Working'
    BY <1>1, <1>3, <1>5, Absences DEF GroupsInv, Working
  <1>8. Entitled'
    BY <1>1, <1>5, SameEntitlements DEF GroupsInv, Entitled, rowVars, keyVars, memberVars
  <1>9. Answered'
    BY <1>1, <1>5, AnsweredSame DEF rowVars, keyVars
  <1>10. Refusals' /\ Lists'
    BY <1>1 DEF GroupsInv, Refusals, Lists, rowVars, keyVars, memberVars
  <1>11. Once'
    BY <1>1, <1>5, OnceSame, Absences
  <1> QED BY <1>5, <1>6, <1>7, <1>8, <1>9, <1>10, <1>11 DEF GroupsInv

(* A fresh envelope of the queue is for a member that refused one.         *)
LEMMA RewrapInv == ASSUME GroupsInv, NEW m \in Members, Rewrap(m) PROVE GroupsInv'
  <1> DEFINE env == [to |-> m, key |-> row.key, opk |-> issued[m] + 1]
             new == NewTask(env)
  <1>1. /\ sending[Queue] = NoOne /\ m \in pass.left /\ m \in row.members /\ m \in pass.bundles
        /\ Transmit(Queue, env)
        /\ issued' = [issued EXCEPT ![m] = @ + 1] /\ enveloped' = enveloped \cup {env}
        /\ task' = [task EXCEPT ![m] = new]
        /\ pass' = [pass EXCEPT !.snapshot[m] = new]
        /\ UNCHANGED <<rowVars, readRow, todo, spent, ackedKeys, memberVars>>
    BY DEF Rewrap, Wrap
  <1>2. env \in Envelope /\ env.to = m /\ env.key = row.key
    BY Elements DEF GroupsInv, GroupsShape, Envelope
  <1> HIDE DEF env
  <1>3. new \in Task /\ new # NoOne /\ new.key = row.key /\ ~new.rejected
    BY <1>2, NewTaskIs
  <1>4. <<m, row.key>> \in Entitlements /\ m \in refused /\ Queue \in Senders
    <2>1. row.key \in KeyIds /\ row.key <= newest /\ m \notin removedAt[row.key] \ relisted
      BY <1>1, Elements DEF GroupsInv, Lists
    <2>2. <<m, row.key>> \in Entitlements
      BY <2>1 DEF Entitlements
    <2> QED BY <1>1, <2>2, Absences DEF GroupsInv, Refusals
  <1>5. /\ sending' \in [Senders -> Send \cup {NoOne}] /\ wire' \subseteq KeyRequest /\ Asking'
        /\ sending'[Queue] # NoOne /\ sending'[Queue].env = env /\ sending'[Queue].status = "waiting"
        /\ \A q \in Senders : q # Queue => sending'[q] = sending[q]
        /\ \A q \in Senders : sending'[q] # NoOne =>
             <<sending'[q].env.to, sending'[q].env.key>> \in Entitlements
        /\ \A r \in wire' : <<r.env.to, r.env.key>> \in Entitlements
    BY <1>1, <1>2, <1>4, Sent
  <1> HIDE DEF new
  <1>6. /\ pass' \in Run /\ pass'.left = pass.left /\ pass'.at = pass.at
        /\ pass'.bundles = pass.bundles /\ pass'.rejecting = pass.rejecting
        /\ pass'.snapshot = [pass.snapshot EXCEPT ![m] = new]
    BY <1>1, <1>3 DEF GroupsInv, GroupsShape, Run
  <1>7. /\ \A q \in Members : pass'.snapshot[q] = IF q = m THEN new ELSE pass.snapshot[q]
        /\ \A q \in Members : task'[q] = IF q = m THEN new ELSE task[q]
        /\ pass.left \subseteq Members
    BY <1>1, <1>6 DEF GroupsInv, GroupsShape, Run
  <1>8. GroupsShape'
    BY <1>1, <1>2, <1>3, <1>5, <1>6 DEF GroupsInv, GroupsShape, rowVars, keyVars, memberVars
  <1>9. Working'
    BY <1>1, <1>2, <1>3, <1>5, <1>6, <1>7, Absences DEF GroupsInv, Working
  <1>10. Entitled'
    <2>1. /\ \A q \in Members : task'[q] # NoOne => <<q, task'[q].key>> \in Entitlements
          /\ \A q \in Members : pass'.snapshot[q] # NoOne => <<q, pass'.snapshot[q].key>> \in Entitlements
      BY <1>3, <1>4, <1>7 DEF GroupsInv, Entitled
    <2> QED BY <1>1, <1>5, <2>1, SameEntitlements DEF GroupsInv, Entitled, rowVars, keyVars, memberVars
  <1>11. Answered'
    BY <1>1, <1>5, AnsweredSame DEF rowVars, keyVars
  <1>12. Refusals'
    BY <1>1, <1>3, <1>6, <1>7 DEF GroupsInv, Refusals, memberVars
  <1>13. Lists'
    BY <1>1, <1>2 DEF GroupsInv, Lists, rowVars, keyVars
  <1>14. Once'
    <2>1. \A e \in enveloped : e.key \in KeyIds
      BY DEF GroupsInv, GroupsShape, Envelope
    <2>2. \A e \in enveloped : sending'[e.key] = sending[e.key]
      BY <1>5, <2>1, Absences
    <2>3. OneEnvelopePerGeneration'
      BY <1>1, <1>2, <1>4 DEF GroupsInv, Once, OneEnvelopePerGeneration, memberVars
    <2> QED BY <1>1, <1>2, <1>4, <2>2, <2>3 DEF GroupsInv, Once, memberVars
  <1> QED BY <1>5, <1>8, <1>9, <1>10, <1>11, <1>12, <1>13, <1>14 DEF GroupsInv

LEMMA CannotSendInv == ASSUME GroupsInv, NEW m \in Members, CannotSend(m) PROVE GroupsInv'
  <1> DEFINE env == Snapshotted(m)
             new == [env |-> env, status |-> "failed"]
  <1>1. /\ sending[Queue] = NoOne /\ m \in pass.left /\ sending' = [sending EXCEPT ![Queue] = new]
        /\ UNCHANGED <<rowVars, readRow, todo, task, pass, wire, issued, spent, enveloped, ackedKeys, memberVars>>
    BY DEF CannotSend
  <1>2. pass.snapshot[m] # NoOne
    BY <1>1 DEF GroupsInv, Working
  <1>3. env \in Envelope /\ env.to = m /\ env.key = pass.snapshot[m].key
    BY <1>2, Elements DEF GroupsInv, Snapshotted, Envelope
  <1> HIDE DEF env
  <1>4. new \in Send /\ new # NoOne /\ new.env = env /\ new.status = "failed"
    BY <1>3, Absences DEF Send
  <1> HIDE DEF new
  <1>5. <<m, env.key>> \in Entitlements
    BY <1>2, <1>3 DEF GroupsInv, Entitled
  <1>6. /\ sending' \in [Senders -> Send \cup {NoOne}] /\ sending'[Queue] = new
        /\ \A q \in Senders : q # Queue => sending'[q] = sending[q]
    BY <1>1, <1>4, Absences DEF GroupsInv, GroupsShape
  <1>7. GroupsShape'
    BY <1>1, <1>6 DEF GroupsInv, GroupsShape, rowVars, keyVars, memberVars
  <1>8. Working'
    BY <1>1, <1>3, <1>4, <1>6, Absences DEF GroupsInv, Working
  <1>9. Asking'
    BY <1>1, <1>6, Elements DEF GroupsInv, Asking
  <1>10. Entitled'
    BY <1>1, <1>3, <1>4, <1>5, <1>6, SameEntitlements DEF GroupsInv, Entitled, rowVars, keyVars, memberVars
  <1>11. Answered'
    BY <1>1, <1>4, <1>6, AnsweredSame DEF rowVars, keyVars
  <1>12. Refusals' /\ Lists'
    BY <1>1 DEF GroupsInv, Refusals, Lists, rowVars, keyVars, memberVars
  <1>13. Once'
    BY <1>1, <1>6, OnceSame, Absences
  <1> QED BY <1>7, <1>8, <1>9, <1>10, <1>11, <1>12, <1>13 DEF GroupsInv

(* An answer that does not come in time leaves its request to nobody.      *)
LEMMA UnansweredInv == ASSUME GroupsInv, NEW s \in Senders, Unanswered(s) PROVE GroupsInv'
  <1> DEFINE new == [sending[s] EXCEPT !.status = "failed"]
  <1>1. /\ sending[s] # NoOne /\ sending[s].status = "waiting"
        /\ sending' = [sending EXCEPT ![s] = new]
        /\ wire' = {IF r.by = s THEN [r EXCEPT !.by = NoOne] ELSE r : r \in wire}
        /\ spent' = [spent EXCEPT !.timeout = @ + 1]
        /\ UNCHANGED <<rowVars, readRow, todo, task, pass, issued, enveloped, ackedKeys, memberVars>>
    BY DEF Unanswered, Event, Spend
  <1>2. new \in Send /\ new # NoOne /\ new.env = sending[s].env /\ new.status = "failed"
    BY <1>1, Elements, Absences DEF GroupsInv, Send
  <1> HIDE DEF new
  <1>3. /\ sending' \in [Senders -> Send \cup {NoOne}] /\ sending'[s] = new
        /\ \A q \in Senders : q # s => sending'[q] = sending[q]
    BY <1>1, <1>2 DEF GroupsInv, GroupsShape
  <1>4. ASSUME NEW r \in wire'
        PROVE  /\ r \in KeyRequest
               /\ \E q \in wire : r.env = q.env /\ (r.by # NoOne => r = q /\ q.by # s)
    <2>1. PICK q \in wire : r = IF q.by = s THEN [q EXCEPT !.by = NoOne] ELSE q
      BY <1>1
    <2>2. q \in KeyRequest
      BY Elements DEF GroupsInv
    <2>3. CASE q.by = s
      <3>1. r = [q EXCEPT !.by = NoOne]
        BY <2>1, <2>3
      <3>2. r \in KeyRequest /\ r.by = NoOne /\ r.env = q.env
        BY <2>2, <3>1 DEF KeyRequest
      <3> QED BY <3>2
    <2> QED BY <2>1, <2>2, <2>3
  <1>5. spent' \in Counters
    BY <1>1 DEF GroupsInv, GroupsShape, Counters
  <1>6. GroupsShape'
    BY <1>1, <1>3, <1>4, <1>5 DEF GroupsInv, GroupsShape, rowVars, keyVars, memberVars
  <1>7. SameSends
    BY <1>1, <1>2, <1>3 DEF SameSends
  <1>8. Working' /\ (\A q \in Senders : sending'[q] # NoOne =>
                        <<sending'[q].env.to, sending'[q].env.key>> \in Entitlements)
    BY <1>1, <1>7, SendsKept DEF rowVars, keyVars
  <1>9. Asking'
    <2>1. \A r \in wire' : r.by # NoOne => r \in wire /\ r.by # s
      BY <1>4
    <2>2. \A r \in wire : r.by # NoOne => r.by \in Senders
      BY Elements DEF GroupsInv
    <2> QED BY <1>3, <2>1, <2>2 DEF GroupsInv, Asking
  <1>10. Entitled'
    <2>1. \A r \in wire' : <<r.env.to, r.env.key>> \in Entitlements
      BY <1>4 DEF GroupsInv, Entitled
    <2> QED BY <1>1, <1>8, <2>1, SameEntitlements DEF GroupsInv, Entitled, rowVars, keyVars, memberVars
  <1>11. Answered'
    BY <1>1, <1>2, <1>3, AnsweredSame DEF rowVars, keyVars
  <1>12. Refusals' /\ Lists'
    BY <1>1, <1>5 DEF GroupsInv, Refusals, Lists, rowVars, keyVars, memberVars
  <1>13. Once'
    <2>1. \A e \in enveloped : e.key \in Senders
      BY Absences DEF GroupsInv, GroupsShape, Envelope
    <2> QED BY <1>1, <1>2, <1>3, <2>1 DEF GroupsInv, Once, OneEnvelopePerGeneration, memberVars
  <1> QED BY <1>6, <1>8, <1>9, <1>10, <1>11, <1>12, <1>13 DEF GroupsInv

(* A sender that was answered forgets the send.                            *)
LEMMA Forgotten ==
  ASSUME GroupsInv, NEW s \in Senders, sending[s] # NoOne, sending[s].status # "waiting",
         sending' = [sending EXCEPT ![s] = NoOne], wire' = wire
  PROVE  /\ sending' \in [Senders -> Send \cup {NoOne}] /\ Asking'
         /\ sending'[s] = NoOne /\ \A q \in Senders : q # s => sending'[q] = sending[q]
  <1>1. /\ sending' \in [Senders -> Send \cup {NoOne}]
        /\ sending'[s] = NoOne /\ \A q \in Senders : q # s => sending'[q] = sending[q]
    BY DEF GroupsInv, GroupsShape
  <1>2. \A r \in wire : r.by # NoOne => r.by # s /\ r.by \in Senders
    BY Elements DEF GroupsInv, Asking
  <1> QED BY <1>1, <1>2 DEF GroupsInv, Asking

(* A key is counted that the member has had.                               *)
LEMMA AnsweredMore ==
  ASSUME GroupsInv, UNCHANGED <<stored, kept, refused, generation>>,
         \A q \in Senders : sending'[q] # NoOne => sending'[q] = sending[q],
         NEW m, NEW g,
         ackedKeys' = ackedKeys \/ (ackedKeys' = ackedKeys \cup {<<m, g>>} /\ HasHad(m, g))
  PROVE  Answered'
  <1>1. AckedHad'
    <2>1. ASSUME NEW key \in ackedKeys' PROVE HasHad(key[1], key[2])
      <3>1. CASE key \in ackedKeys
        BY <3>1 DEF GroupsInv, Answered, AckedHad
      <3>2. CASE key \notin ackedKeys
        <4>1. key = <<m, g>> /\ HasHad(m, g)
          BY <2>1, <3>2
        <4>2. key[1] = m /\ key[2] = g
          BY <4>1
        <4> QED BY <4>1, <4>2
      <3> QED BY <3>1, <3>2
    <2> QED BY <2>1 DEF AckedHad, HasHad
  <1>2. \A s \in Senders : sending'[s] # NoOne =>
          /\ sending'[s].status = "accepted" =>
               \E h \in KeyIds : generation'[h] >= generation'[sending'[s].env.key] /\ <<sending'[s].env.to, h>> \in kept'
          /\ sending'[s].status = "rejected" => sending'[s].env.to \in refused'
    BY DEF GroupsInv, Answered, HasHad
  <1> QED BY <1>1, <1>2 DEF GroupsInv, Answered, HasHad

LEMMA DeliveredInv == ASSUME GroupsInv, NEW g \in KeyIds, Delivered(g) PROVE GroupsInv'
  <1> DEFINE env == sending[g].env
             new == NewTask(env)
  <1>1. /\ sending[g] # NoOne /\ sending[g].status # "waiting"
        /\ todo' = [todo EXCEPT ![g] = @ \ {env.to}]
        /\ \/ sending[g].status = "accepted" /\ task' = task
              /\ ackedKeys' = ackedKeys \cup {<<env.to, env.key>>}
           \/ task' = [task EXCEPT ![env.to] = new] /\ ackedKeys' = ackedKeys
        /\ sending' = [sending EXCEPT ![g] = NoOne]
        /\ UNCHANGED <<rowVars, readRow, pass, wire, issued, spent, enveloped, memberVars>>
    BY DEF Delivered
  <1>2. env \in Envelope /\ env.to \in Members /\ env.key = g /\ g \in Senders
    BY <1>1, Elements, Absences DEF GroupsInv, Working
  <1>3. new \in Task /\ new.key = env.key /\ ~new.rejected
    BY <1>2, NewTaskIs
  <1>4. /\ sending' \in [Senders -> Send \cup {NoOne}] /\ Asking'
        /\ sending'[g] = NoOne /\ \A q \in Senders : q # g => sending'[q] = sending[q]
    BY <1>1, <1>2, Forgotten
  <1>5. <<env.to, env.key>> \in Entitlements
    BY <1>1, <1>2 DEF GroupsInv, Entitled
  <1>6. sending[g].status = "accepted" => HasHad(env.to, env.key)
    BY <1>1, <1>2 DEF GroupsInv, Answered
  <1> HIDE DEF new
  <1>7. \A m \in Members : task'[m] = task[m] \/ (m = env.to /\ task'[m] = new)
    BY <1>1, <1>2 DEF GroupsInv, GroupsShape
  <1>8. /\ \A h \in KeyIds : todo'[h] = IF h = g THEN todo[g] \ {env.to} ELSE todo[h]
        /\ todo' \in [KeyIds -> SUBSET Members]
    BY <1>1 DEF GroupsInv, GroupsShape
  <1>9. task' \in [Members -> Task \cup {NoOne}]
    BY <1>1, <1>3 DEF GroupsInv, GroupsShape
  <1>10. GroupsShape'
    BY <1>1, <1>4, <1>8, <1>9 DEF GroupsInv, GroupsShape, rowVars, keyVars, memberVars
  <1>11. Working'
    BY <1>1, <1>4, <1>8, Absences DEF GroupsInv, Working
  <1>12. Entitled'
    <2>1. \A m \in Members : task'[m] # NoOne => <<m, task'[m].key>> \in Entitlements
      BY <1>3, <1>5, <1>7 DEF GroupsInv, Entitled
    <2>2. \A q \in Senders : sending'[q] # NoOne => <<sending'[q].env.to, sending'[q].env.key>> \in Entitlements
      BY <1>4 DEF GroupsInv, Entitled
    <2>3. \A h \in KeyIds : \A m \in todo'[h] : <<m, h>> \in Entitlements
      BY <1>8 DEF GroupsInv, Entitled
    <2>4. ackedKeys' \subseteq Entitlements
      BY <1>1, <1>5 DEF GroupsInv, Entitled
    <2> QED BY <1>1, <2>1, <2>2, <2>3, <2>4, SameEntitlements DEF GroupsInv, Entitled, rowVars, keyVars, memberVars
  <1>13. Answered'
    <2>1. ackedKeys' = ackedKeys
            \/ (ackedKeys' = ackedKeys \cup {<<env.to, env.key>>} /\ HasHad(env.to, env.key))
      BY <1>1, <1>6
    <2>2. \A q \in Senders : sending'[q] # NoOne => sending'[q] = sending[q]
      BY <1>4
    <2> QED BY <1>1, <2>1, <2>2, AnsweredMore DEF rowVars, keyVars, memberVars
  <1>14. Refusals'
    BY <1>1, <1>3, <1>7 DEF GroupsInv, Refusals, memberVars
  <1>15. Lists'
    BY <1>1, <1>8 DEF GroupsInv, Lists, rowVars, keyVars
  <1>16. Once'
    <2>1. \A e \in enveloped : e.key \in KeyIds /\ e.key \in Senders
      BY Absences DEF GroupsInv, GroupsShape, Envelope
    <2>2. ASSUME NEW e \in enveloped
          PROVE  e.to \in refused \/ e.to \notin todo'[e.key]
                   \/ (sending'[e.key] # NoOne /\ sending'[e.key].env = e)
      <3>1. CASE e.key = g
        BY <1>8, <2>1, <3>1 DEF GroupsInv, Once
      <3>2. CASE e.key # g
        BY <1>4, <1>8, <2>1, <3>2 DEF GroupsInv, Once
      <3> QED BY <3>1, <3>2
    <2> QED BY <1>1, <2>2 DEF GroupsInv, Once, OneEnvelopePerGeneration, memberVars
  <1> QED BY <1>4, <1>10, <1>11, <1>12, <1>13, <1>14, <1>15, <1>16 DEF GroupsInv

-----------------------------------------------------------------------------
(* The queue.                                                              *)

(* A run that begins or ends, while the queue sends nothing.               *)
LEMMA RunChanged ==
  ASSUME GroupsInv, pass.left = {}, pass' \in Run,
         \A m \in pass'.left : pass'.snapshot[m] # NoOne, pass'.at = "idle" => pass'.left = {},
         \A m \in Members : pass'.snapshot[m] # NoOne => pass'.snapshot[m] = task[m],
         pass'.rejecting \subseteq refused, pass'.bundles \subseteq refused,
         spent' \in Counters,
         UNCHANGED <<rowVars, readRow, todo, task, sending, wire, issued, enveloped, ackedKeys, memberVars>>
  PROVE  GroupsInv'
  <1>1. GroupsShape'
    BY DEF GroupsInv, GroupsShape, rowVars, keyVars, memberVars
  <1>2. Working'
    BY DEF GroupsInv, Working
  <1>3. Asking' /\ Refusals' /\ Lists'
    BY DEF GroupsInv, Asking, Refusals, Lists, rowVars, keyVars, memberVars
  <1>4. Entitled'
    BY SameEntitlements DEF GroupsInv, Entitled, rowVars, keyVars, memberVars
  <1>5. Answered' /\ Once'
    BY AnsweredSame, OnceSame, Absences DEF rowVars, keyVars, Senders
  <1> QED BY <1>1, <1>2, <1>3, <1>4, <1>5 DEF GroupsInv

(* What a run reads is there.                                              *)
LEMMA BeginPassIs ==
  ASSUME GroupsInv, NEW at \in {"first", "second"}, NEW bundles \in SUBSET Members,
         BeginPass(at, bundles)
  PROVE  /\ pass' \in Run /\ pass'.snapshot = task /\ pass'.at = at
         /\ pass'.bundles = bundles /\ pass'.rejecting = {}
         /\ \A m \in pass'.left : task[m] # NoOne
  <1>1. PICK due \in SUBSET Pending :
          pass' = [at |-> at, snapshot |-> task, rejecting |-> {}, bundles |-> bundles,
                   left |-> due \cup {m \in bundles : task[m] # NoOne /\ task[m].rejected}]
    BY DEF BeginPass
  <1>2. Pending \subseteq Members /\ \A m \in Pending : task[m] # NoOne
    BY DEF Pending
  <1> QED BY <1>1, <1>2 DEF Run, GroupsInv, GroupsShape

LEMMA TickInv == ASSUME GroupsInv, Tick PROVE GroupsInv'
  <1>1. /\ pass.at = "idle" /\ BeginPass("first", {}) /\ spent' = [spent EXCEPT !.pass = @ + 1]
        /\ UNCHANGED <<rowVars, readRow, todo, task, sending, wire, issued, enveloped, ackedKeys, memberVars>>
    BY DEF Tick, Spend
  <1>2. spent' \in Counters
    BY <1>1 DEF GroupsInv, GroupsShape, Counters
  <1>3. pass.left = {}
    BY <1>1 DEF GroupsInv, Working
  <1>4. /\ pass' \in Run /\ pass'.snapshot = task /\ pass'.at = "first"
        /\ pass'.bundles = {} /\ pass'.rejecting = {} /\ \A m \in pass'.left : task[m] # NoOne
    BY <1>1, BeginPassIs
  <1> QED BY <1>1, <1>2, <1>3, <1>4, RunChanged

LEMMA TickAgainInv == ASSUME GroupsInv, TickAgain PROVE GroupsInv'
  <1>1. /\ pass.left = {}
        /\ UNCHANGED <<rowVars, readRow, todo, task, sending, wire, issued, spent, enveloped, ackedKeys, memberVars>>
    BY DEF TickAgain
  <1>2. PICK bundles \in SUBSET pass.rejecting : BeginPass("second", bundles)
    BY DEF TickAgain
  <1>3. bundles \subseteq refused /\ bundles \in SUBSET Members
    BY <1>2 DEF GroupsInv, Refusals, GroupsShape, Run
  <1>4. /\ pass' \in Run /\ pass'.snapshot = task /\ pass'.at = "second"
        /\ pass'.bundles = bundles /\ pass'.rejecting = {} /\ \A m \in pass'.left : task[m] # NoOne
    BY <1>2, <1>3, BeginPassIs
  <1> QED BY <1>1, <1>3, <1>4, RunChanged DEF GroupsInv, GroupsShape

LEMMA IdleRun ==
  /\ Idle \in Run /\ Idle.at = "idle" /\ Idle.left = {} /\ Idle.bundles = {} /\ Idle.rejecting = {}
  /\ \A m \in Members : Idle.snapshot[m] = NoOne
  BY DEF Idle, Run

LEMMA TickEndsInv == ASSUME GroupsInv, TickEnds PROVE GroupsInv'
  <1>1. /\ pass.left = {} /\ pass' = Idle
        /\ UNCHANGED <<rowVars, readRow, todo, task, sending, wire, issued, spent, enveloped, ackedKeys, memberVars>>
    BY DEF TickEnds
  <1> QED BY <1>1, IdleRun, RunChanged DEF GroupsInv, GroupsShape

(* A task that is written back is the one that was read, one attempt later.*)
LEMMA RetriedInv == ASSUME GroupsInv, NEW m \in Members, Retried(m) PROVE GroupsInv'
  <1> DEFINE outcome == sending[Queue].status
             key == sending[Queue].env.key
             t == pass.snapshot[m]
             new == [t EXCEPT !.attempts = @ + 1, !.rejected = @ \/ outcome = "rejected",
                              !.failed = outcome # "rejected" /\ t.attempts + 1 >= MaxRetries]
  <1>1. /\ sending[Queue] # NoOne /\ outcome # "waiting" /\ sending[Queue].env.to = m
        /\ sending' = [sending EXCEPT ![Queue] = NoOne]
        /\ \/ /\ outcome = "accepted" /\ task' = [task EXCEPT ![m] = NoOne]
              /\ ackedKeys' = ackedKeys \cup {<<m, key>>}
              /\ pass' = [pass EXCEPT !.left = @ \ {m}]
           \/ /\ task' = [task EXCEPT ![m] = new] /\ ackedKeys' = ackedKeys
              /\ pass' = [pass EXCEPT !.left = @ \ {m},
                            !.rejecting = IF outcome = "rejected" THEN @ \cup {m} ELSE @]
        /\ UNCHANGED <<rowVars, readRow, todo, wire, issued, spent, enveloped, memberVars>>
    BY DEF Retried
  <1>2. t # NoOne /\ t \in Task /\ key \in KeyIds
    BY <1>1, Elements, Absences DEF GroupsInv, Working
  <1>3. new \in Task /\ new.key = t.key /\ (new.rejected => t.rejected \/ outcome = "rejected")
    <2> DEFINE rejected == t.rejected \/ outcome = "rejected"
               failed == outcome # "rejected" /\ t.attempts + 1 >= MaxRetries
    <2>1. new = [t EXCEPT !.attempts = @ + 1, !.rejected = rejected, !.failed = failed]
      BY <1>2, Zenon DEF Task
    <2>2. rejected \in BOOLEAN /\ failed \in BOOLEAN
      BY Zenon
    <2>3. rejected => t.rejected \/ outcome = "rejected"
      OBVIOUS
    <2> HIDE DEF rejected, failed, new
    <2>4. new \in Task /\ new.key = t.key /\ new.rejected = rejected
      <3>1. t \in Task
        BY <1>2
      <3> HIDE DEF t
      <3>2. new = [key |-> t.key, opk |-> t.opk, attempts |-> t.attempts + 1,
                   rejected |-> rejected, failed |-> failed]
        BY <2>1, <3>1 DEF Task
      <3>3. t.key \in KeyIds /\ t.opk \in Nat /\ t.attempts + 1 \in Nat
        BY <3>1 DEF Task
      <3> QED BY <2>2, <3>2, <3>3 DEF Task
    <2> QED BY <2>3, <2>4
  <1>4. outcome = "accepted" => HasHad(m, key)
    BY <1>1, Absences DEF GroupsInv, Answered
  <1>5. outcome = "rejected" => m \in refused
    BY <1>1, Absences DEF GroupsInv, Answered
  <1>6. /\ sending' \in [Senders -> Send \cup {NoOne}] /\ Asking'
        /\ sending'[Queue] = NoOne /\ \A q \in Senders : q # Queue => sending'[q] = sending[q]
    BY <1>1, Absences, Forgotten
  <1> HIDE DEF new
  <1>7. /\ pass' \in Run /\ pass'.at = pass.at /\ pass'.left \subseteq pass.left
        /\ pass'.snapshot = pass.snapshot /\ pass'.bundles = pass.bundles
        /\ pass'.rejecting \subseteq pass.rejecting
             \/ (outcome = "rejected" /\ pass'.rejecting \subseteq pass.rejecting \cup {m})
    <2>1. pass \in Run
      BY DEF GroupsInv, GroupsShape
    <2>2. CASE pass' = [pass EXCEPT !.left = @ \ {m}]
      BY <2>1, <2>2 DEF Run
    <2>3. CASE pass' = [pass EXCEPT !.left = @ \ {m},
                          !.rejecting = IF outcome = "rejected" THEN @ \cup {m} ELSE @]
      <3>1. CASE outcome = "rejected"
        <4>1. pass' = [pass EXCEPT !.left = @ \ {m}, !.rejecting = @ \cup {m}]
          BY <2>3, <3>1
        <4> QED BY <2>1, <3>1, <4>1 DEF Run
      <3>2. CASE outcome # "rejected"
        <4>1. pass' = [pass EXCEPT !.left = @ \ {m}, !.rejecting = @]
          BY <2>3, <3>2
        <4> QED BY <2>1, <4>1 DEF Run
      <3> QED BY <3>1, <3>2
    <2> QED BY <1>1, <2>2, <2>3
  <1>8. \A q \in Members : task'[q] = task[q] \/ (q = m /\ task'[q] \in {NoOne, new})
    BY <1>1 DEF GroupsInv, GroupsShape
  <1>9. task' \in [Members -> Task \cup {NoOne}]
    BY <1>1, <1>3 DEF GroupsInv, GroupsShape
  <1>10. GroupsShape'
    BY <1>1, <1>6, <1>7, <1>9 DEF GroupsInv, GroupsShape, rowVars, keyVars, memberVars
  <1>11. Working'
    BY <1>1, <1>6, <1>7, Absences DEF GroupsInv, Working
  <1>12. Entitled'
    <2>1. <<m, t.key>> \in Entitlements
      BY <1>2 DEF GroupsInv, Entitled
    <2>2. \A q \in Members : task'[q] # NoOne => <<q, task'[q].key>> \in Entitlements
      BY <1>3, <1>8, <2>1 DEF GroupsInv, Entitled
    <2>3. \A q \in Senders : sending'[q] # NoOne => <<sending'[q].env.to, sending'[q].env.key>> \in Entitlements
      BY <1>6 DEF GroupsInv, Entitled
    <2>4. ackedKeys' \subseteq Entitlements
      <3>1. <<m, key>> \in Entitlements
        BY <1>1, Absences DEF GroupsInv, Entitled
      <3> QED BY <1>1, <3>1 DEF GroupsInv, Entitled
    <2> QED BY <1>1, <1>7, <2>2, <2>3, <2>4, SameEntitlements DEF GroupsInv, Entitled, rowVars, keyVars, memberVars
  <1>13. Answered'
    <2>1. ackedKeys' = ackedKeys \/ (ackedKeys' = ackedKeys \cup {<<m, key>>} /\ HasHad(m, key))
      BY <1>1, <1>4
    <2>2. \A q \in Senders : sending'[q] # NoOne => sending'[q] = sending[q]
      BY <1>6
    <2> QED BY <1>1, <2>1, <2>2, AnsweredMore DEF rowVars, keyVars, memberVars
  <1>14. Refusals'
    <2>1. t.rejected => m \in refused
      BY <1>2 DEF GroupsInv, Refusals
    <2>2. \A q \in Members : task'[q] # NoOne /\ task'[q].rejected => q \in refused
      BY <1>3, <1>5, <1>8, <2>1 DEF GroupsInv, Refusals
    <2> QED BY <1>1, <1>5, <1>7, <2>2 DEF GroupsInv, Refusals, memberVars
  <1>15. Lists'
    BY <1>1 DEF GroupsInv, Lists, rowVars, keyVars
  <1>16. Once'
    BY <1>1, <1>6, OnceSame, Absences
  <1> QED BY <1>6, <1>10, <1>11, <1>12, <1>13, <1>14, <1>15, <1>16 DEF GroupsInv

(* After a reload nobody waits for an answer, and no distribution runs.    *)
LEMMA ReloadInv == ASSUME GroupsInv, Reload PROVE GroupsInv'
  <1>1. /\ removing' = [m \in Members |-> NoOne] /\ shown' = row
        /\ readRow' = NoOne /\ todo' = [k \in KeyIds |-> {}]
        /\ pass' = Idle /\ sending' = [s \in Senders |-> NoOne]
        /\ wire' = {[r EXCEPT !.by = NoOne] : r \in wire}
        /\ spent' = [spent EXCEPT !.reload = @ + 1]
        /\ UNCHANGED <<row, relisted, keyVars, task, issued, enveloped, ackedKeys, memberVars>>
    BY DEF Reload, Event, Spend
  <1>2. spent' \in Counters
    BY <1>1 DEF GroupsInv, GroupsShape, Counters
  <1>3. ASSUME NEW r \in wire'
        PROVE  r \in KeyRequest /\ r.by = NoOne /\ \E q \in wire : r.env = q.env
    <2>1. PICK q \in wire : r = [q EXCEPT !.by = NoOne]
      BY <1>1
    <2> QED BY <2>1, Elements DEF GroupsInv, KeyRequest
  <1>4. \A s \in Senders : sending'[s] = NoOne
    BY <1>1
  <1>5. \A g \in KeyIds : todo'[g] = {}
    BY <1>1
  <1>6. GroupsShape'
    BY <1>1, <1>2, <1>3, IdleRun DEF GroupsInv, GroupsShape, keyVars, memberVars
  <1>7. Working' /\ Asking' /\ Refusals'
    BY <1>1, <1>3, <1>4, IdleRun, Absences DEF GroupsInv, Working, Asking, Refusals, memberVars
  <1>8. Entitled'
    <2>1. \A r \in wire' : <<r.env.to, r.env.key>> \in Entitlements
      BY <1>3 DEF GroupsInv, Entitled
    <2>2. Entitlements' = Entitlements
      BY <1>1 DEF Entitlements, keyVars
    <2> QED BY <1>1, <1>4, <1>5, <2>1, <2>2, IdleRun DEF GroupsInv, Entitled, memberVars
  <1>9. Answered'
    BY <1>1, <1>4, AnsweredSame DEF rowVars, keyVars
  <1>10. Lists'
    BY <1>1, <1>5 DEF GroupsInv, Lists, keyVars
  <1>11. Once'
    <2>1. \A e \in enveloped : e.key \in KeyIds
      BY DEF GroupsInv, GroupsShape, Envelope
    <2> QED BY <1>1, <1>5, <2>1 DEF GroupsInv, Once, OneEnvelopePerGeneration, memberVars
  <1> QED BY <1>6, <1>7, <1>8, <1>9, <1>10, <1>11 DEF GroupsInv

-----------------------------------------------------------------------------
(* The member.                                                             *)

(* A request is handled: who waits for the answer gets it.                 *)
LEMMA Handled ==
  ASSUME GroupsInv, NEW r \in wire, NEW st \in {"accepted", "rejected"}, RespondTo(r, st),
         wire' = wire \ {r},
         UNCHANGED <<rowVars, readRow, todo, task, pass, issued, spent, enveloped, ackedKeys>>,
         stored' \in [Members -> KeyIds \cup {NoKey}],
         kept \subseteq kept', kept' \subseteq Entitlements, refused \subseteq refused',
         \A m \in Members : stored'[m] # NoKey => <<m, stored'[m]>> \in kept',
         st = "accepted" => \E h \in KeyIds : generation[h] >= generation[r.env.key] /\ <<r.env.to, h>> \in kept',
         st = "rejected" => r.env.to \in refused'
  PROVE  GroupsInv'
  <1> DEFINE told == [sending[r.by] EXCEPT !.status = st]
  <1>1. r.by # NoOne => /\ r.by \in Senders /\ sending[r.by] # NoOne /\ sending[r.by].env = r.env
                        /\ sending[r.by] \in Send
    BY Elements DEF GroupsInv, Asking
  <1>2. r.by # NoOne => told \in Send /\ told # NoOne /\ told.env = r.env /\ told.status = st
    BY <1>1, Absences DEF Send
  <1>3. sending' = IF r.by = NoOne THEN sending ELSE [sending EXCEPT ![r.by] = told]
    BY DEF RespondTo
  <1> HIDE DEF told
  <1>4. /\ sending' \in [Senders -> Send \cup {NoOne}]
        /\ \A s \in Senders : s # r.by => sending'[s] = sending[s]
        /\ r.by # NoOne => sending'[r.by] = told
    BY <1>1, <1>2, <1>3 DEF GroupsInv, GroupsShape
  <1>5. /\ SameSends
        /\ \A s \in Senders : sending[s] # NoOne => sending'[s] # NoOne
    BY <1>1, <1>2, <1>4, Absences DEF SameSends
  <1>6. GroupsShape'
    BY <1>4 DEF GroupsInv, GroupsShape, rowVars, keyVars
  <1>7. Working' /\ (\A s \in Senders : sending'[s] # NoOne =>
                        <<sending'[s].env.to, sending'[s].env.key>> \in Entitlements)
    BY <1>5, SendsKept DEF rowVars, keyVars
  <1>8. Asking'
    <2>1. \A q \in wire' : q.by # NoOne => q \in wire /\ q.by # r.by /\ q.by \in Senders
      BY Elements DEF GroupsInv, Asking
    <2> QED BY <1>4, <2>1 DEF GroupsInv, Asking
  <1>9. Entitled'
    BY <1>7, SameEntitlements DEF GroupsInv, Entitled, rowVars, keyVars
  <1>10. Answered'
    <2>1. ASSUME NEW s \in Senders, sending'[s] # NoOne
          PROVE  /\ sending'[s].status = "accepted" =>
                      \E h \in KeyIds : /\ generation[h] >= generation[sending'[s].env.key]
                                       /\ <<sending'[s].env.to, h>> \in kept'
                 /\ sending'[s].status = "rejected" => sending'[s].env.to \in refused'
      <3>1. CASE s = r.by
        <4>1. r.by # NoOne /\ sending'[s] = told
          BY <1>4, <3>1, Absences
        <4>2. sending'[s].env = r.env /\ sending'[s].status = st
          BY <1>2, <4>1
        <4> QED BY <4>2
      <3>2. CASE s # r.by
        <4>1. sending'[s] = sending[s]
          BY <1>4, <3>2
        <4>2. sending[s].status = "accepted" => HasHad(sending[s].env.to, sending[s].env.key)
          BY <2>1, <4>1 DEF GroupsInv, Answered
        <4>3. sending[s].status = "rejected" => sending[s].env.to \in refused
          BY <2>1, <4>1 DEF GroupsInv, Answered
        <4> QED BY <4>1, <4>2, <4>3 DEF HasHad
      <3> QED BY <3>1, <3>2
    <2>2. AckedHad'
      BY SameEntitlements DEF GroupsInv, Answered, AckedHad, HasHad
    <2> QED BY <2>1, <2>2, SameEntitlements DEF Answered, HasHad
  <1>11. Refusals' /\ Lists'
    BY DEF GroupsInv, Refusals, Lists, rowVars, keyVars
  <1>12. Once'
    <2>1. \A e \in enveloped : e.key \in Senders
      BY Absences DEF GroupsInv, GroupsShape, Envelope
    <2> QED BY <1>5, <2>1 DEF SameSends, GroupsInv, Once, OneEnvelopePerGeneration
  <1> QED BY <1>6, <1>7, <1>8, <1>9, <1>10, <1>11, <1>12 DEF GroupsInv

LEMMA DuplicateInv == ASSUME GroupsInv, NEW r \in wire, Duplicate(r) PROVE GroupsInv'
  <1>1. /\ Has(r.env.to, r.env.key) /\ RespondTo(r, "accepted") /\ wire' = wire \ {r}
        /\ UNCHANGED <<rowVars, readRow, todo, task, pass, issued, spent, enveloped, ackedKeys, memberVars>>
    BY DEF Duplicate
  <1>2. r.env.to \in Members
    BY Elements DEF GroupsInv
  <1>3. /\ stored[r.env.to] \in KeyIds /\ <<r.env.to, stored[r.env.to]>> \in kept
        /\ generation[stored[r.env.to]] >= generation[r.env.key]
    BY <1>1, <1>2 DEF Has, GroupsInv, GroupsShape, Answered
  <1>4. \E h \in KeyIds : generation[h] >= generation[r.env.key] /\ <<r.env.to, h>> \in kept
    BY <1>3
  <1> QED BY <1>1, <1>4, Handled DEF GroupsInv, GroupsShape, Answered, Entitled, memberVars

LEMMA RejectOpkInv == ASSUME GroupsInv, NEW r \in wire, RejectOpk(r) PROVE GroupsInv'
  <1>1. /\ RespondTo(r, "rejected") /\ wire' = wire \ {r} /\ refused' = refused \cup {r.env.to}
        /\ UNCHANGED <<rowVars, readRow, todo, task, pass, issued, spent, enveloped, ackedKeys, stored, gone, kept>>
    BY DEF RejectOpk
  <1> QED BY <1>1, Handled DEF GroupsInv, GroupsShape, Answered, Entitled

(* The key that is stored was made for the member.                         *)
LEMMA StoreKeyInv == ASSUME GroupsInv, NEW r \in wire, StoreKey(r) PROVE GroupsInv'
  <1>1. /\ stored' = [stored EXCEPT ![r.env.to] = r.env.key]
        /\ kept' = kept \cup {<<r.env.to, r.env.key>>}
        /\ RespondTo(r, "accepted") /\ wire' = wire \ {r}
        /\ UNCHANGED <<rowVars, readRow, todo, task, pass, issued, spent, enveloped, ackedKeys, refused>>
    BY DEF StoreKey
  <1>2. r.env.to \in Members /\ r.env.key \in KeyIds /\ r.env.key \in Nat
    BY Elements, Absences DEF GroupsInv
  <1>3. stored' \in [Members -> KeyIds \cup {NoKey}] /\ kept' \subseteq Entitlements
    BY <1>1, <1>2 DEF GroupsInv, GroupsShape, Entitled
  <1>4. \A m \in Members : stored'[m] # NoKey => <<m, stored'[m]>> \in kept'
    BY <1>1, <1>2 DEF GroupsInv, GroupsShape, Answered
  <1>5. \E h \in KeyIds : generation[h] >= generation[r.env.key] /\ <<r.env.to, h>> \in kept'
    <2>1. generation[r.env.key] \in Nat
      BY <1>2 DEF GroupsInv, GroupsShape
    <2> QED BY <1>1, <1>2, <2>1
  <1> QED BY <1>1, <1>3, <1>4, <1>5, Handled

LEMMA UnwrapInv == ASSUME GroupsInv, NEW r \in wire, Unwrap(r) PROVE GroupsInv'
  <1> DEFINE next == [r EXCEPT !.step = "unwrapping"]
  <1>1. /\ wire' = (wire \ {r}) \cup {next}
        /\ UNCHANGED <<rowVars, readRow, todo, task, pass, sending, issued, spent, enveloped, ackedKeys, memberVars>>
    BY DEF Unwrap
  <1>2. next \in KeyRequest /\ next.by = r.by /\ next.env = r.env
    BY Elements DEF GroupsInv, KeyRequest
  <1> HIDE DEF next
  <1>3. GroupsShape'
    BY <1>1, <1>2 DEF GroupsInv, GroupsShape, rowVars, keyVars, memberVars
  <1>4. Working' /\ Refusals' /\ Lists'
    BY <1>1 DEF GroupsInv, Working, Refusals, Lists, rowVars, keyVars, memberVars
  <1>5. Asking'
    BY <1>1, <1>2 DEF GroupsInv, Asking
  <1>6. Entitled'
    BY <1>1, <1>2, SameEntitlements DEF GroupsInv, Entitled, rowVars, keyVars, memberVars
  <1>7. Answered' /\ Once'
    BY <1>1, AnsweredSame, OnceSame DEF rowVars, keyVars
  <1> QED BY <1>3, <1>4, <1>5, <1>6, <1>7 DEF GroupsInv

LEMMA OpkLostInv == ASSUME GroupsInv, NEW m \in Members, OpkLost(m) PROVE GroupsInv'
  <1>1. /\ spent' = [spent EXCEPT !.opk = @ + 1]
        /\ UNCHANGED <<rowVars, readRow, todo, task, pass, sending, wire, issued, enveloped, ackedKeys, stored, kept, refused>>
    BY DEF OpkLost, Event, Spend
  <1>2. spent' \in Counters
    BY <1>1 DEF GroupsInv, GroupsShape, Counters
  <1>3. GroupsShape' /\ Working' /\ Asking'
    BY <1>1, <1>2 DEF GroupsInv, GroupsShape, Working, Asking, rowVars, keyVars
  <1>4. Entitled' /\ Refusals' /\ Lists'
    BY <1>1, <1>2, SameEntitlements DEF GroupsInv, Entitled, Refusals, Lists, rowVars, keyVars
  <1>5. Answered' /\ Once'
    BY <1>1 DEF GroupsInv, Answered, HasHad, AckedHad, rowVars, keyVars, Once, OneEnvelopePerGeneration
  <1> QED BY <1>3, <1>4, <1>5 DEF GroupsInv

-----------------------------------------------------------------------------

LEMMA GroupsNextInv == ASSUME GroupsInv, [GroupsNext]_groupVars PROVE GroupsInv'
  <1>1. CASE UNCHANGED groupVars
    BY <1>1 DEF groupVars, Entitlements, GroupsInv, GroupsShape, Working, Asking, Entitled, Answered, HasHad,
                AckedHad, Refusals, Lists, Once,
                OneEnvelopePerGeneration
  <1>2. CASE ReadForRefresh \/ WriteBack \/ Tick \/ TickAgain \/ TickEnds \/ Reload
    BY <1>2, ReadForRefreshInv, WriteBackInv, TickInv, TickAgainInv, TickEndsInv,
       ReloadInv
  <1>3. CASE \/ \E s \in Senders : Unanswered(s)
             \/ \E g \in KeyIds : Delivered(g)
             \/ \E m \in Members, g \in KeyIds : DistributeTo(g, m)
    BY <1>3, UnansweredInv, DeliveredInv, DistributeToInv
  <1>4. ASSUME NEW m \in Members,
               Remove(m) \/ Rotate(m) \/ RotateEnds(m) \/ Resend(m) \/ Rewrap(m) \/ CannotSend(m) \/ Retried(m) \/ OpkLost(m)
        PROVE  GroupsInv'
    BY <1>4, RemoveInv, RotateInv, RotateEndsInv, ResendInv, RewrapInv, CannotSendInv, RetriedInv, OpkLostInv
  <1>5. ASSUME NEW r \in wire, Duplicate(r) \/ RejectOpk(r) \/ Unwrap(r) \/ StoreKey(r)
        PROVE  GroupsInv'
    BY <1>5, DuplicateInv, RejectOpkInv, UnwrapInv, StoreKeyInv
  <1> QED BY <1>1, <1>2, <1>3, <1>4, <1>5 DEF GroupsNext

LEMMA GroupsInductive == GroupsSpec => []GroupsInv
  BY GroupsInitInv, GroupsNextInv, PTL DEF GroupsSpec

(* No member that the user removed stores a key made after that            *)
(* (removeMember in useGroups.ts, rotateGroupKey in groups.ts), whatever   *)
(* the queue or a distribution still holds for it, unless a save of an     *)
(* older group has put it back on the list.                                *)
THEOREM RemovedStayOut == GroupsSpec => []RemovedLearnsNoNewKey
  <1>1. GroupsInv => RemovedLearnsNoNewKey
    BY DEF GroupsInv, Entitled, Entitlements, RemovedLearnsNoNewKey
  <1> QED BY <1>1, GroupsInductive, PTL

(* A key that the creator counts as delivered (processDeliveryQueue in     *)
(* groups.ts) was stored by the member, it or one made later, as long as   *)
(* later keys have later generations.                                      *)
THEOREM CountedMeansStored == GroupsSpec => []CountedKeysWereStored
  <1>1. GroupsInv => CountedKeysWereStored
    <2> SUFFICES ASSUME GroupsInv, GenerationsIncrease, NEW key \in ackedKeys
                 PROVE  \E j \in KeyIds : j >= key[2] /\ <<key[1], j>> \in kept
      BY DEF CountedKeysWereStored
    <2>1. PICK j \in KeyIds : generation[j] >= generation[key[2]] /\ <<key[1], j>> \in kept
      BY DEF GroupsInv, Answered, AckedHad, HasHad
    <2>2. key \in Entitlements /\ <<key[1], j>> \in Entitlements
      BY <2>1 DEF GroupsInv, Entitled
    <2>3. key[2] \in KeyIds /\ j \in 0..newest /\ key[2] \in 0..newest
      BY <2>2 DEF Entitlements, KeyIds, GroupsInv, GroupsShape
    <2>4. generation[j] \in Nat /\ generation[key[2]] \in Nat
      BY <2>1, <2>3 DEF GroupsInv, GroupsShape
    <2>5. ~(j < key[2])
      BY <2>1, <2>3, <2>4 DEF GenerationsIncrease
    <2> QED BY <2>1, <2>3, <2>5
  <1> QED BY <1>1, GroupsInductive, PTL

(* A second envelope for a member and a key is made only after the         *)
(* member reported that the pre-key of an earlier one is missing.          *)
THEOREM NoNeedlessRewrap == GroupsSpec => []OneEnvelopePerGeneration
  <1>1. GroupsInv => OneEnvelopePerGeneration
    BY DEF GroupsInv, Once
  <1> QED BY <1>1, GroupsInductive, PTL

(* Every row of the queue and every send is of the one kind the code       *)
(* writes, and what is being sent is what its pass or its distribution has *)
(* still to do.                                                            *)
THEOREM GroupsTypeCorrect == GroupsSpec => []GroupsTypeOK
  <1>1. GroupsInv => GroupsTypeOK
    <2> SUFFICES ASSUME GroupsInv PROVE GroupsTypeOK
      OBVIOUS
    <2>1. ASSUME NEW s \in Senders, sending[s] # NoOne
          PROVE  /\ sending[s] \in Send
                 /\ s = Queue => sending[s].env.to \in pass.left
                 /\ s # Queue => sending[s].env.key = s /\ sending[s].env.to \in todo[s]
      BY <2>1, Elements DEF GroupsInv, Working, Senders
    <2>2. pass.at \in {"idle", "first", "second"} /\ pass.snapshot \in [Members -> Task \cup {NoOne}]
      BY DEF GroupsInv, GroupsShape, Run
    <2> QED BY <2>1, <2>2 DEF GroupsInv, GroupsShape, Working, GroupsTypeOK
  <1> QED BY <1>1, GroupsInitInv, GroupsNextInv, PTL DEF GroupsSpec
=============================================================================
