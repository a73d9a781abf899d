------------------------------ MODULE FifoLock ------------------------------
(***************************************************************************)
(* What withSendLock (packages/core/src/send-lock.ts) promises its callers *)
(* and nothing of how it keeps the promise: a lock per key that serves the *)
(* callers of a key one at a time in the order of their arrival.  There is *)
(* no map of promises and no chain here, only numbered places in a queue.  *)
(***************************************************************************)
EXTENDS Integers

CONSTANTS
  Calls,     \* callers
  Key        \* the key each of them locks

VARIABLES
  status,    \* "idle", "waiting", "running" or "done"
  place,     \* a caller's number in the order of arrival
  arrivals   \* how many have arrived

vars == <<status, place, arrivals>>

InQueue(c) == status[c] \in {"waiting", "running"}

FirstInQueue(c) ==
  \A d \in Calls : InQueue(d) /\ Key[d] = Key[c] => place[c] <= place[d]

Init ==
  /\ status = [c \in Calls |-> "idle"]
  /\ place = [c \in Calls |-> 0]
  /\ arrivals = 0

Arrive(c) ==
  /\ status[c] = "idle"
  /\ status' = [status EXCEPT ![c] = "waiting"]
  /\ arrivals' = arrivals + 1
  /\ place' = [place EXCEPT ![c] = arrivals + 1]

Serve(c) ==
  /\ status[c] = "waiting"
  /\ FirstInQueue(c)
  /\ status' = [status EXCEPT ![c] = "running"]
  /\ UNCHANGED <<place, arrivals>>

Finish(c) ==
  /\ status[c] = "running"
  /\ status' = [status EXCEPT ![c] = "done"]
  /\ UNCHANGED <<place, arrivals>>

Next == \E c \in Calls : Arrive(c) \/ Serve(c) \/ Finish(c)

Spec == Init /\ [][Next]_vars
=============================================================================
