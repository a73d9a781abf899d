-------------------------------- MODULE Courier --------------------------------
(***************************************************************************)
(* What message delivery (sendMessage, the inbound handlers and the        *)
(* receipts of packages/app/src/hooks/useKant.ts) promises, and nothing of *)
(* how: there is no session, no queue and no network here.  A message that *)
(* was sent is in the sender's care until the receiver has it, is shown to *)
(* the receiver once, and is confirmed only after that.  A receiver who    *)
(* has blocked the sender refuses what comes, which is confirmed too.  A   *)
(* restart of the sender's device may drop a message.                      *)
(***************************************************************************)
EXTENDS Integers

CONSTANT
  Msgs       \* messages

VARIABLES
  given,     \* messages the user has sent
  caring,    \* those the device will send (again)
  shown,     \* how often the receiver was shown each
  blocked,   \* the receiver wants nothing from the sender
  refused,   \* messages the receiver was not shown, having blocked the sender
  confirmed, \* those the sender sees as delivered
  lapsed     \* the sender's device was restarted

vars == <<given, caring, shown, blocked, refused, confirmed, lapsed>>

Init ==
  /\ given = {} /\ caring = {} /\ confirmed = {} /\ lapsed = FALSE
  /\ shown = [m \in Msgs |-> 0] /\ blocked = FALSE /\ refused = {}

Submit(m) ==
  /\ m \notin given
  /\ given' = given \cup {m} /\ caring' = caring \cup {m}
  /\ UNCHANGED <<shown, blocked, refused, confirmed, lapsed>>

(* One frame may bring several messages, when it opens what was buffered.  *)
Deliver(ms) ==
  /\ ~blocked /\ \A m \in ms : m \in given /\ shown[m] = 0
  /\ shown' = [m \in Msgs |-> IF m \in ms THEN shown[m] + 1 ELSE shown[m]]
  /\ UNCHANGED <<given, caring, blocked, refused, confirmed, lapsed>>

(* The same, when the receiver has blocked the sender.                     *)
Refuse(ms) ==
  /\ blocked /\ \A m \in ms : m \in given /\ shown[m] = 0
  /\ refused' = refused \cup ms
  /\ UNCHANGED <<given, caring, shown, blocked, confirmed, lapsed>>

Choose ==
  /\ blocked' = ~blocked
  /\ UNCHANGED <<given, caring, shown, refused, confirmed, lapsed>>

(* Word that the receiver has the message ends the care for it, but it may *)
(* come while the message is still being written and recorded.             *)
Confirm(m) ==
  /\ shown[m] > 0 \/ m \in refused
  /\ confirmed' \in {confirmed, confirmed \cup {m}}
  /\ caring' \in {caring, caring \ {m}}
  /\ UNCHANGED <<given, shown, blocked, refused, lapsed>>

(* Messages are taken up again, confirmed or not.                          *)
Resume(ms) ==
  /\ ms \subseteq given
  /\ caring' = caring \cup ms /\ confirmed' = confirmed \ ms
  /\ UNCHANGED <<given, shown, blocked, refused, lapsed>>

Lapse ==
  /\ caring' \subseteq caring /\ lapsed' = TRUE
  /\ UNCHANGED <<given, shown, blocked, refused, confirmed>>

Next ==
  \/ \E m \in Msgs : Submit(m) \/ Confirm(m)
  \/ \E ms \in SUBSET Msgs : Deliver(ms) \/ Refuse(ms) \/ Resume(ms)
  \/ Choose \/ Lapse

Spec == Init /\ [][Next]_vars

-----------------------------------------------------------------------------
(* A message is shown at most once, confirmed only when it was shown or    *)
(* refused, and in the care of the sender's device until then or until the *)
(* device was restarted.                                                   *)
Kept ==
  /\ \A m \in Msgs : shown[m] <= 1
  /\ \A m \in confirmed : shown[m] = 1 \/ m \in refused
  /\ ~lapsed => \A m \in given : shown[m] = 1 \/ m \in refused \/ m \in caring
=============================================================================
