--------------------------- MODULE SendLockProofs ---------------------------
(***************************************************************************)
(* Mutual exclusion, first-come-first-served service and the map           *)
(* discipline of withSendLock, for any number of calls, destinations and   *)
(* keys.  The argument: the calls in use under a key form a queue linked   *)
(* by `previous`, whose last member is the map entry, and a call's         *)
(* predecessor leaves only after everything in front of it has left.       *)
(* Being first is what FifoLock asks of a call that is served, so the      *)
(* chain of promises implements that lock.                                 *)
(***************************************************************************)
EXTENDS SendLock, TLAPS

(* The tickets of the calls that entered are positive, distinct and were   *)
(* drawn from `entered`.                                                   *)
TicketsDistinct ==
  /\ \A c \in Calls : Active(c) => ticket[c] \in 1..entered
  /\ \A c, d \in Calls :
       Active(c) /\ Active(d) /\ ticket[c] = ticket[d] => c = d

(* The map entry of a key is its last call in use; a key in use has one.   *)
TailIsLast ==
  /\ \A k \in Keys : tail[k] # NoCall => Active(tail[k]) /\ KeyOf(tail[k]) = k
  /\ \A c \in Calls :
       Active(c) => /\ tail[KeyOf(c)] # NoCall
                    /\ ticket[c] <= ticket[tail[KeyOf(c)]]

(* A call that does not wait for a promise any more is the first in its    *)
(* queue; one that waits comes right behind the call it waits for.         *)
QueueOrder ==
  /\ \A c, d \in Calls :
       /\ pc[c] = "running" \/ (pc[c] = "waiting" /\ Resolved(previous[c]))
       /\ Active(d) /\ KeyOf(c) = KeyOf(d)
       => ticket[c] <= ticket[d]
  /\ \A c, d \in Calls :
       /\ pc[c] = "waiting" /\ ~Resolved(previous[c])
       /\ Active(d) /\ KeyOf(c) = KeyOf(d) /\ ticket[d] < ticket[c]
       => ticket[d] <= ticket[previous[c]]
  /\ \A c \in Calls :
       pc[c] = "waiting" /\ ~Resolved(previous[c])
         => /\ Active(previous[c])
            /\ KeyOf(previous[c]) = KeyOf(c)
            /\ ticket[previous[c]] < ticket[c]

IInv == TypeOK /\ TicketsDistinct /\ TailIsLast /\ QueueOrder

LEMMA KeyOfType == \A c \in Calls : KeyOf(c) \in Keys
  BY CallsAssumption DEF KeyOf, Keys, Kinds

LEMMA InitIInv == Init => IInv
  BY KeyOfType, CallsAssumption
     DEF Init, IInv, TypeOK, TicketsDistinct, TailIsLast, QueueOrder, Active, Resolved

LEMMA EnterIInv == ASSUME IInv, NEW c \in Calls, Enter(c) PROVE IInv'
  <1> USE KeyOfType, CallsAssumption
  <1> DEFINE k == KeyOf(c)
  <1>1. TypeOK'
    BY DEF Enter, IInv, TypeOK
  <1>2. /\ \A d \in Calls : ticket[d]' = IF d = c THEN entered + 1 ELSE ticket[d]
        /\ \A d \in Calls : pc[d]' = IF d = c THEN "waiting" ELSE pc[d]
        /\ \A d \in Calls : previous[d]' = IF d = c THEN tail[k] ELSE previous[d]
        /\ \A j \in Keys : tail[j]' = IF j = k THEN c ELSE tail[j]
        /\ pc[c] = "idle" /\ entered' = entered + 1
        /\ \A d \in Calls : KeyOf(d)' = KeyOf(d)
    BY DEF Enter, IInv, TypeOK, KeyOf
  <1>3. \A d \in Calls : Active(d)' <=> (Active(d) \/ d = c)
    BY <1>2 DEF Active
  <1>4. ~Active(c)
    BY <1>2 DEF Active
  <1>5. \A d \in Calls : Active(d) => ticket[d] \in 1..entered
    BY DEF IInv, TicketsDistinct
  <1>6. TicketsDistinct'
    BY <1>2, <1>3, <1>4, <1>5 DEF IInv, TypeOK, TicketsDistinct
  <1>7. TailIsLast'
    <2>1. \A d \in Calls : Active(d) => ticket[d] <= entered
      BY <1>5 DEF IInv, TypeOK
    <2>2. \A j \in Keys :
            tail[j]' # NoCall => Active(tail[j])' /\ KeyOf(tail[j])' = j
      <3> TAKE j \in Keys
      <3>1. CASE j = k
        BY <3>1, <1>2, <1>3 DEF KeyOf
      <3>2. CASE j # k
        BY <3>2, <1>2, <1>3 DEF IInv, TypeOK, TailIsLast, KeyOf
      <3> QED BY <3>1, <3>2
    <2>3. \A d \in Calls :
            Active(d)' => /\ tail[KeyOf(d)]' # NoCall
                          /\ ticket[d]' <= ticket[tail[KeyOf(d)]]'
      <3> TAKE d \in Calls
      <3> HAVE Active(d)'
      <3>1. CASE KeyOf(d) = k
        BY <3>1, <1>2, <1>3, <2>1 DEF IInv, TypeOK, KeyOf
      <3>2. CASE KeyOf(d) # k
        <4>1. d # c /\ Active(d) /\ tail[KeyOf(d)]' = tail[KeyOf(d)]
          BY <3>2, <1>2, <1>3 DEF KeyOf
        <4>2. tail[KeyOf(d)] \in Calls /\ Active(tail[KeyOf(d)])
          BY <4>1 DEF IInv, TypeOK, TailIsLast
        <4> QED BY <4>1, <4>2, <1>2, <1>4 DEF IInv, TailIsLast
      <3> QED BY <3>1, <3>2
    <2> QED BY <2>2, <2>3 DEF TailIsLast
  <1>8. QueueOrder'
    <2>1. \A d \in Calls : Active(d) => ticket[d] < entered + 1
      BY <1>5 DEF IInv, TypeOK
    <2>2. \A d \in Calls : d # c /\ pc[d] = "waiting"
            => (Resolved(previous[d])' <=> Resolved(previous[d]))
      BY <1>2 DEF IInv, TypeOK, Resolved
    <2>3. tail[k] # NoCall => /\ Active(tail[k]) /\ KeyOf(tail[k]) = k
                              /\ tail[k] # c /\ tail[k] \in Calls
      BY <1>4 DEF IInv, TypeOK, TailIsLast
    <2>4. Resolved(previous[c])' <=> tail[k] = NoCall
      BY <1>2, <2>3 DEF Resolved, Active
    <2>5. tail[k] = NoCall => \A d \in Calls : ~(Active(d) /\ KeyOf(d) = k)
      BY DEF IInv, TailIsLast
    <2>6. ASSUME NEW d \in Calls, NEW e \in Calls,
                 pc[d]' = "running" \/ (pc[d]' = "waiting" /\ Resolved(previous[d])'),
                 Active(e)', KeyOf(d)' = KeyOf(e)'
          PROVE  ticket[d]' <= ticket[e]'
      <3>1. CASE d = c
        BY <3>1, <2>6, <1>2, <1>3, <2>4, <2>5 DEF IInv, TypeOK
      <3>2. CASE d # c /\ e = c
        BY <3>2, <2>6, <1>2, <1>3, <2>1 DEF IInv, TypeOK, Active
      <3>3. CASE d # c /\ e # c
        BY <3>3, <2>6, <1>2, <1>3, <2>2 DEF IInv, TypeOK, QueueOrder
      <3> QED BY <3>1, <3>2, <3>3
    <2>7. ASSUME NEW d \in Calls, NEW e \in Calls,
                 pc[d]' = "waiting", ~Resolved(previous[d])',
                 Active(e)', KeyOf(d)' = KeyOf(e)', ticket[e]' < ticket[d]'
          PROVE  ticket[e]' <= ticket[previous[d]]'
      <3>1. CASE d = c
        <4>1. e # c /\ Active(e) /\ KeyOf(e) = k
          BY <3>1, <2>7, <1>2, <1>3 DEF IInv, TypeOK
        <4> QED BY <3>1, <4>1, <2>3, <2>4, <2>7, <1>2 DEF IInv, TailIsLast
      <3>2. CASE d # c
        <4>1. pc[d] = "waiting" /\ ~Resolved(previous[d]) /\ previous[d]' = previous[d]
          BY <3>2, <2>7, <2>2, <1>2
        <4>2. previous[d] \in Calls /\ Active(previous[d]) /\ previous[d] # c
          BY <4>1, <1>4 DEF IInv, TypeOK, QueueOrder, Resolved
        <4>3. e # c
          BY <3>2, <2>7, <4>1, <1>2, <2>1 DEF IInv, TypeOK, Active
        <4> QED BY <3>2, <2>7, <4>1, <4>2, <4>3, <1>2, <1>3 DEF IInv, QueueOrder
      <3> QED BY <3>1, <3>2
    <2>8. ASSUME NEW d \in Calls, pc[d]' = "waiting", ~Resolved(previous[d])'
          PROVE  /\ Active(previous[d])'
                 /\ KeyOf(previous[d])' = KeyOf(d)'
                 /\ ticket[previous[d]]' < ticket[d]'
      <3>1. CASE d = c
        BY <3>1, <2>8, <1>2, <1>3, <2>1, <2>3, <2>4 DEF KeyOf
      <3>2. CASE d # c
        <4>1. pc[d] = "waiting" /\ ~Resolved(previous[d]) /\ previous[d]' = previous[d]
          BY <3>2, <2>8, <2>2, <1>2
        <4>2. previous[d] \in Calls /\ Active(previous[d]) /\ previous[d] # c
          BY <4>1, <1>4 DEF IInv, TypeOK, QueueOrder, Resolved
        <4> QED BY <3>2, <4>1, <4>2, <1>2, <1>3 DEF IInv, QueueOrder, KeyOf
      <3> QED BY <3>1, <3>2
    <2> QED BY <2>6, <2>7, <2>8, Zenon DEF QueueOrder
  <1> QED BY <1>1, <1>6, <1>7, <1>8 DEF IInv

LEMMA RunIInv == ASSUME IInv, NEW c \in Calls, Run(c) PROVE IInv'
  <1> USE KeyOfType, CallsAssumption
  <1>1. TypeOK'
    BY DEF Run, IInv, TypeOK
  <1>2. /\ \A d \in Calls : pc[d]' = IF d = c THEN "running" ELSE pc[d]
        /\ pc[c] = "waiting" /\ Resolved(previous[c])
        /\ UNCHANGED <<tail, previous, ticket, entered>>
        /\ \A d \in Calls : KeyOf(d)' = KeyOf(d)
    BY DEF Run, IInv, TypeOK, KeyOf
  <1>3. \A d \in Calls : Active(d)' <=> Active(d)
    BY <1>2 DEF Active
  <1>4. \A d \in Calls : Resolved(previous[d])' <=> Resolved(previous[d])
    BY <1>2 DEF IInv, TypeOK, Resolved
  <1>5. TicketsDistinct'
    BY <1>2, <1>3 DEF IInv, TicketsDistinct
  <1>6. TailIsLast'
    BY <1>2, <1>3 DEF IInv, TypeOK, TailIsLast, KeyOf
  <1>7. QueueOrder'
    <2>1. \A d \in Calls : pc[d]' = "waiting" <=> d # c /\ pc[d] = "waiting"
      BY <1>2
    <2>2. \A d \in Calls : ~Resolved(previous[d]) => previous[d] \in Calls
      BY DEF IInv, TypeOK, Resolved
    <2> QED BY <1>2, <1>3, <1>4, <2>1, <2>2 DEF IInv, QueueOrder, KeyOf
  <1> QED BY <1>1, <1>5, <1>6, <1>7 DEF IInv

LEMMA LeaveIInv == ASSUME IInv, NEW c \in Calls, Leave(c) PROVE IInv'
  <1> USE KeyOfType, CallsAssumption
  <1> DEFINE k == KeyOf(c)
  <1>1. TypeOK'
    BY DEF Leave, IInv, TypeOK
  <1>2. /\ \A d \in Calls : pc[d]' = IF d = c THEN "done" ELSE pc[d]
        /\ \A j \in Keys : tail[j]' = IF j = k /\ tail[k] = c THEN NoCall ELSE tail[j]
        /\ pc[c] = "running"
        /\ UNCHANGED <<previous, ticket, entered>>
        /\ \A d \in Calls : KeyOf(d)' = KeyOf(d)
    BY DEF Leave, IInv, TypeOK, KeyOf
  <1>3. \A d \in Calls : Active(d)' <=> Active(d) /\ d # c
    BY <1>2 DEF Active
  (* The leaving call is the first in its queue. *)
  <1>4. \A d \in Calls : d # c /\ Active(d) /\ KeyOf(d) = k => ticket[c] < ticket[d]
    <2>1. Active(c) /\ \A d \in Calls : ticket[d] \in Nat
      BY <1>2 DEF Active, IInv, TypeOK
    <2> QED BY <1>2, <2>1 DEF IInv, QueueOrder, TicketsDistinct
  <1>5. TicketsDistinct'
    BY <1>2, <1>3 DEF IInv, TicketsDistinct
  <1>6. TailIsLast'
    <2>1. \A j \in Keys :
            tail[j]' # NoCall => Active(tail[j])' /\ KeyOf(tail[j])' = j
      BY <1>2, <1>3 DEF IInv, TypeOK, TailIsLast, KeyOf
    <2>2. \A d \in Calls :
            Active(d)' => /\ tail[KeyOf(d)]' # NoCall
                          /\ ticket[d]' <= ticket[tail[KeyOf(d)]]'
      <3> TAKE d \in Calls
      <3> HAVE Active(d)'
      <3>1. Active(d) /\ d # c /\ tail[KeyOf(d)] # NoCall
            /\ ticket[d] <= ticket[tail[KeyOf(d)]]
        BY <1>3 DEF IInv, TailIsLast
      <3>2. tail[KeyOf(d)]' = tail[KeyOf(d)]
        <4>1. CASE KeyOf(d) = k
          <5>1. tail[k] # c
            BY <4>1, <3>1, <1>4 DEF IInv, TypeOK
          <5> QED BY <4>1, <5>1, <1>2
        <4>2. CASE KeyOf(d) # k
          BY <4>2, <1>2
        <4> QED BY <4>1, <4>2
      <3> QED BY <3>1, <3>2, <1>2
    <2> QED BY <2>1, <2>2 DEF TailIsLast
  <1>7. QueueOrder'
    <2>1. \A d \in Calls : pc[d] = "waiting"
            => (Resolved(previous[d])' <=> Resolved(previous[d]) \/ previous[d] = c)
      BY <1>2 DEF IInv, TypeOK, Resolved
    <2>2. \A d \in Calls : d # c => pc[d]' = pc[d]
      BY <1>2
    <2>3. ASSUME NEW d \in Calls, NEW e \in Calls,
                 pc[d]' = "running" \/ (pc[d]' = "waiting" /\ Resolved(previous[d])'),
                 Active(e)', KeyOf(d)' = KeyOf(e)'
          PROVE  ticket[d]' <= ticket[e]'
      <3>1. d # c /\ e # c /\ Active(e) /\ KeyOf(d) = KeyOf(e)
        BY <2>3, <1>2, <1>3
      <3>2. CASE pc[d] = "running" \/ (pc[d] = "waiting" /\ Resolved(previous[d]))
        BY <3>1, <3>2, <1>2 DEF IInv, QueueOrder
      <3>3. CASE pc[d] = "waiting" /\ ~Resolved(previous[d]) /\ previous[d] = c
        <4>1. KeyOf(e) = k
          BY <3>1, <3>3 DEF IInv, QueueOrder
        <4>2. ticket[c] < ticket[e]
          BY <4>1, <3>1, <1>4
        <4>3. ~(ticket[e] < ticket[d])
          BY <3>1, <3>3, <4>2 DEF IInv, TypeOK, QueueOrder
        <4> QED BY <4>3, <1>2 DEF IInv, TypeOK
      <3> QED BY <3>1, <3>2, <3>3, <2>3, <2>2, <2>1
    <2>4. ASSUME NEW d \in Calls, NEW e \in Calls,
                 pc[d]' = "waiting", ~Resolved(previous[d])',
                 Active(e)', KeyOf(d)' = KeyOf(e)', ticket[e]' < ticket[d]'
          PROVE  ticket[e]' <= ticket[previous[d]]'
      <3>1. d # c /\ pc[d] = "waiting" /\ ~Resolved(previous[d])
        BY <2>4, <2>1, <2>2, <1>2
      <3> QED BY <3>1, <2>4, <1>2, <1>3 DEF IInv, QueueOrder
    <2>5. ASSUME NEW d \in Calls, pc[d]' = "waiting", ~Resolved(previous[d])'
          PROVE  /\ Active(previous[d])'
                 /\ KeyOf(previous[d])' = KeyOf(d)'
                 /\ ticket[previous[d]]' < ticket[d]'
      <3>1. d # c /\ pc[d] = "waiting" /\ ~Resolved(previous[d]) /\ previous[d] # c
        BY <2>5, <2>1, <2>2, <1>2
      <3>2. previous[d] \in Calls
        BY <3>1 DEF IInv, TypeOK, Resolved
      <3> QED BY <3>1, <3>2, <1>2, <1>3 DEF IInv, QueueOrder, KeyOf
    <2> QED BY <2>3, <2>4, <2>5, Zenon DEF QueueOrder
  <1> QED BY <1>1, <1>5, <1>6, <1>7 DEF IInv

LEMMA NextIInv == IInv /\ [Next]_vars => IInv'
  <1> SUFFICES ASSUME IInv, [Next]_vars PROVE IInv'
    OBVIOUS
  <1>1. CASE UNCHANGED vars
    <2>1. \A c \in Calls : KeyOf(c)' = KeyOf(c)
      BY DEF KeyOf
    <2> QED BY <1>1, <2>1
      DEF vars, IInv, TypeOK, TicketsDistinct, TailIsLast, QueueOrder, Active, Resolved, KeyOf
  <1>2. CASE Next
    BY <1>2, EnterIInv, RunIInv, LeaveIInv DEF Next
  <1> QED BY <1>1, <1>2

LEMMA Inductive == Spec => []IInv
  BY InitIInv, NextIInv, PTL DEF Spec

(* The lock's state stays well typed. *)
THEOREM TypeCorrect == Spec => []TypeOK
  <1>1. IInv => TypeOK
    BY DEF IInv
  <1> QED BY <1>1, Inductive, PTL

(* Functions under one key are served strictly in the order of the calls. *)
THEOREM Fifo == Spec => []ServedInOrder
  <1>1. IInv => ServedInOrder
    BY DEF IInv, QueueOrder, ServedInOrder
  <1> QED BY <1>1, Inductive, PTL

(* Two functions never run at once under one key: each would have to be    *)
(* the first in the same queue.                                            *)
THEOREM Exclusion == Spec => []MutualExclusion
  <1>1. IInv => MutualExclusion
    <2> SUFFICES ASSUME IInv, NEW c \in Calls, NEW d \in Calls,
                        pc[c] = "running", pc[d] = "running", KeyOf(c) = KeyOf(d)
                 PROVE  c = d
      BY DEF MutualExclusion
    <2>1. Active(c) /\ Active(d)
      BY DEF Active
    <2>2. ticket[c] <= ticket[d] /\ ticket[d] <= ticket[c]
      BY <2>1 DEF IInv, QueueOrder
    <2>3. ticket[c] = ticket[d]
      BY <2>2 DEF IInv, TypeOK
    <2> QED BY <2>1, <2>3 DEF IInv, TicketsDistinct
  <1> QED BY <1>1, Inductive, PTL

(* The map has an entry for exactly the keys in use. *)
THEOREM MapDiscipline == Spec => []EntryIffInUse
  <1>1. IInv => EntryIffInUse
    BY KeyOfType DEF IInv, TypeOK, TailIsLast, EntryIffInUse
  <1> QED BY <1>1, Inductive, PTL

LEMMA InitRefines == Init => Lock!Init
  BY DEF Init, Lock!Init

(* One action per step: only Run needs the invariant, for the guard of     *)
(* Serve.                                                                  *)
LEMMA StepRefines == IInv /\ [Next]_vars => [Lock!Next]_Lock!vars
  <1> SUFFICES ASSUME IInv, [Next]_vars PROVE [Lock!Next]_Lock!vars
    OBVIOUS
  <1>1. CASE UNCHANGED vars
    BY <1>1 DEF vars, Lock!vars
  <1>2. ASSUME NEW c \in Calls, Enter(c) PROVE Lock!Next
    <2>1. Lock!Arrive(c)
      BY <1>2 DEF Enter, Lock!Arrive
    <2> QED BY <2>1 DEF Lock!Next
  <1>3. ASSUME NEW c \in Calls, Run(c) PROVE Lock!Next
    <2>1. Lock!FirstInQueue(c)
      <3> SUFFICES ASSUME NEW d \in Calls, Active(d), KeyOf(d) = KeyOf(c)
                   PROVE  ticket[c] <= ticket[d]
        BY DEF Lock!FirstInQueue, Lock!InQueue, Active
      <3> QED BY <1>3 DEF IInv, QueueOrder, Run
    <2>2. Lock!Serve(c)
      BY <1>3, <2>1 DEF Run, Lock!Serve
    <2> QED BY <2>2 DEF Lock!Next
  <1>4. ASSUME NEW c \in Calls, Leave(c) PROVE Lock!Next
    <2>1. Lock!Finish(c)
      BY <1>4 DEF Leave, Lock!Finish
    <2> QED BY <2>1 DEF Lock!Next
  <1> QED BY <1>1, <1>2, <1>3, <1>4 DEF Next

(* The promise chain of withSendLock implements the first-come-first-served *)
(* lock, for any number of calls and keys.                                 *)
THEOREM Refinement == Spec => ImplementsLock
  <1>1. Lock!Init /\ [][Lock!Next]_Lock!vars => ImplementsLock
    BY DEF ImplementsLock, Lock!Spec
  <1> QED BY <1>1, InitRefines, StepRefines, Inductive, PTL DEF Spec

(* What "one destination on one node" (send-lock.ts) needs: if the call    *)
(* sites that dial a destination agreed on its key, no two set-ups towards *)
(* it would overlap.  The keys of the code's three kinds of call differ.   *)
THEOREM OneNamePerDestination ==
  ASSUME \A c, d \in Calls : DestOf[c] = DestOf[d] => KindOf[c] = KindOf[d]
  PROVE  Spec => []OneSetupPerDestination
  <1>1. MutualExclusion => OneSetupPerDestination
    BY DEF MutualExclusion, OneSetupPerDestination, KeyOf
  <1> QED BY <1>1, Exclusion, PTL
=============================================================================
