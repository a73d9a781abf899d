------------------------------ MODULE MCDelivery -------------------------------
(***************************************************************************)
(* A small instance of Delivery: two messages in one session, or one       *)
(* message in two.                                                         *)
(***************************************************************************)
EXTENDS Delivery

First == CHOOSE m \in Msgs : TRUE

Given == {m \in Msgs : out[m].pc # "idle"}

(* Bounds of the exploration: the messages are alike, so one of them is    *)
(* sent first; the other is sent only in the first session; and it ends    *)
(* where Alice would need a session more.                                  *)
Explored ==
  /\ Given = {} \/ First \in Given
  /\ nextS <= 2 \/ Given \subseteq {First}
  /\ ~OutOfSessions
=============================================================================
