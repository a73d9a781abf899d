---------------------------- MODULE Conversation ----------------------------
(***************************************************************************)
(* One message of a direct conversation after it was written: its author   *)
(* edits it, reacts to it and deletes it, and each change travels as a     *)
(* control message of its own until a receipt for it comes back            *)
(* (packages/core/src/messages.ts; editMessage, reactToMessage,            *)
(* deleteMessage, sendControl, flushPendingPlaintext, reclaimUnacked and   *)
(* the inbound handlers in the app's useKant.ts).                          *)
(*                                                                         *)
(* Frames may be lost, repeated and reordered; a session reset makes the   *)
(* frames of the old session unreadable.  An older build understands some  *)
(* kinds of changes only, the peer may have blocked the author, and a      *)
(* write to a store may fail.  Reading a conversation and writing it back  *)
(* is one step here.  How a text is known: 0 is the original, n the n-th   *)
(* edit.                                                                   *)
(***************************************************************************)
EXTENDS Integers, FiniteSets

CONSTANTS
  MaxEdits,      \* bound: edits the author makes
  MaxReactions,  \* bound: reactions the author sets
  MaxSessions,   \* bound: sessions after the first
  MaxSetbacks,   \* bound: times the peer loses its memory of received ids, it blocks the
                 \* author, or a write to a store fails
  Builds,        \* the sets of changes the peer's build, as far as known, applies
  NoOp           \* no change waiting for a receipt

ASSUME ConvAssumption ==
  /\ NoOp \notin Int /\ MaxEdits \in Nat
  /\ Builds \subseteq SUBSET {"edit", "react", "del"}

VARIABLES
  mine,      \* the author's stored row
  held,      \* pendingPlaintextRef: the message as it waits to be sent
  theirs,    \* the peer's stored row
  frames,    \* everything ever handed to the network
  opened,    \* frames whose ratchet key the peer has used
  seen,      \* receivedMessageIdsRef of the peer
  receipts,  \* ids the peer has acknowledged
  stopped,   \* ids the author no longer sends: confirmed or withdrawn
  session,   \* the session both ratchets are in
  caps,      \* the kinds of changes the author's contact record says the peer applies
  blocked,   \* the peer's contact record of the author
  ops,       \* how many changes were made
  counted,   \* the counters behind the bounds
  hasty,     \* history: a change was made before the previous was settled
  knownSent, \* history: the message was deleted after its receipt
  missed,    \* history: what was settled although it was not stored (see below)
  applied    \* history: edits the peer has applied

convVars == <<mine, held, theirs, frames, opened, seen, receipts, stopped, session,
              caps, blocked, ops, counted, hasty, knownSent, missed, applied>>

Gone == -1       \* the text of a tombstone
Message == 0     \* the id of the message itself; changes have ids from 1

(* "text": the message was acknowledged without being stored; "edit",      *)
(* "react", "del": the last change of this kind that was settled was not   *)
(* applied; "own": the author's row does not have a change that was made.  *)
Missable == {"text", "edit", "react", "del", "own"}

Frame(id, s, kind, value) == [id |-> id, session |-> s, kind |-> kind, value |-> value]

Unsynced == mine.edit # NoOp \/ mine.react # NoOp \/ mine.del # NoOp

ConvTypeOK ==
  /\ mine.text \in Gone..MaxEdits /\ theirs.text \in Gone..MaxEdits
  /\ mine.status \in {"waiting", "sent", "delivered"}
  /\ {mine.edit, mine.react, mine.del} \subseteq (1..ops) \cup {NoOp}
  /\ mine.deleted => mine.text = Gone /\ mine.edit = NoOp /\ mine.react = NoOp
  /\ held.at \in {"held", "flushing", "dropped", "flushed", "released"}
  /\ \A f \in frames : f.id \in 0..ops /\ f.session \in 0..session
  /\ opened \subseteq frames
  /\ caps \subseteq {"edit", "react", "del"} /\ missed \subseteq Missable
  /\ seen \cup receipts \cup stopped \subseteq 0..ops

ConvInit ==
  /\ mine = [text |-> 0, status |-> "waiting", deleted |-> FALSE, reaction |-> 0,
             edit |-> NoOp, react |-> NoOp, del |-> NoOp]
  /\ held = [at |-> "held", text |-> 0, taken |-> 0, known |-> FALSE]
  /\ theirs = [stored |-> FALSE, text |-> Gone, deleted |-> FALSE, reaction |-> 0]
  /\ frames = {} /\ opened = {} /\ seen = {} /\ receipts = {} /\ stopped = {}
  /\ caps \in Builds /\ blocked = FALSE
  /\ session = 0 /\ ops = 0
  /\ counted = [edit |-> 0, react |-> 0, setback |-> 0]
  /\ hasty = FALSE /\ knownSent = FALSE /\ missed = {} /\ applied = {}

-----------------------------------------------------------------------------
(* The author's device.                                                    *)

(* addContactCaps: what the peer's presence or a change of its own tells   *)
(* of its build; nothing is ever taken back.                               *)
Learn(build) ==
  /\ ~(build \subseteq caps)
  /\ caps' = caps \cup build
  /\ UNCHANGED <<mine, held, theirs, frames, opened, seen, receipts, stopped, session, blocked, ops,
                 counted, hasty, knownSent, missed, applied>>

(* outboundPlaintext: a build that does not know edits gets the new text   *)
(* as a message of its own, other changes mean nothing to such a build.    *)
Outgoing(f) ==
  IF f.kind \in caps THEN {f} ELSE IF f.kind = "edit" THEN {[f EXCEPT !.kind = "note"]} ELSE {}

Pointless(kind) == kind \in {"react", "del"} \ caps

(* flushPendingPlaintext takes the entry; encrypting and sending follow    *)
(* after awaits, with the text it took.  A receipt or a deletion may drop  *)
(* the entry meanwhile, which does not stop the loop.                      *)
TakeHeld ==
  /\ held.at = "held"
  /\ held' = [held EXCEPT !.at = "flushing", !.taken = held.text]
  /\ UNCHANGED <<mine, theirs, frames, opened, seen, receipts, stopped, session, caps, blocked, ops,
                 counted, hasty, knownSent, missed, applied>>

Flushing == held.at \in {"flushing", "dropped"}

(* The message is sent and saved with that text, unless it is a tombstone  *)
(* by now.                                                                 *)
FlushHeld ==
  /\ Flushing
  /\ held' = [held EXCEPT !.at = IF @ = "flushing" THEN "flushed" ELSE "released", !.known = TRUE]
  /\ frames' = frames \cup {Frame(Message, session, "text", held.taken)}
  /\ mine' = IF mine.deleted THEN [mine EXCEPT !.status = "sent"]
             ELSE [mine EXCEPT !.status = "sent", !.text = held.taken]
  /\ stopped' = stopped \ {Message}
  /\ UNCHANGED <<theirs, opened, seen, receipts, session, caps, blocked, ops, counted, hasty,
                 knownSent, missed, applied>>

(* Nothing is under way that this change could cross.                      *)
Settled ==
  /\ ~Unsynced
  /\ held.at = "released" \/ (held.at = "held" /\ ~held.known)

(* The author's row as it is recorded, or, when that write fails (which    *)
(* the handlers ignore), as it was.                                        *)
Recorded(row, count) ==
  \/ mine' = row /\ counted' = count /\ UNCHANGED missed
  \/ /\ count.setback < MaxSetbacks
     /\ mine' = mine /\ counted' = [count EXCEPT !.setback = @ + 1] /\ missed' = missed \cup {"own"}

(* editMessage: a message still held is only changed in place.             *)
EditHeld ==
  /\ held.at \in {"held", "flushing"} /\ ~mine.deleted
  /\ counted.edit < MaxEdits
  /\ Recorded([mine EXCEPT !.text = counted.edit + 1], [counted EXCEPT !.edit = @ + 1])
  /\ held' = [held EXCEPT !.text = counted.edit + 1]
  /\ hasty' = (hasty \/ ~Settled)
  /\ UNCHANGED <<theirs, frames, opened, seen, receipts, stopped, session, caps, blocked, ops,
                 knownSent, applied>>

(* A change with an id of its own: sendControl sends it, or settles it at  *)
(* once for a peer that could not apply it (markOpSynced).  An edit or a   *)
(* deletion that could not be recorded is sent all the same, a reaction is *)
(* not.  Without a session the change is held for the next one: what the   *)
(* peer can apply is as good as sent and not there yet.                    *)
Change(kind, value, row, count) ==
  /\ ops' = ops + 1
  /\ \/ /\ kind \notin caps /\ Recorded(row, count) /\ UNCHANGED frames
     \/ /\ ~Pointless(kind)
        /\ Recorded(row, count)
        /\ kind = "react" => mine' = row
        /\ frames' = frames \cup Outgoing(Frame(ops + 1, session, kind, value))
     \/ /\ Pointless(kind)
        /\ mine' = [row EXCEPT ![kind] = NoOp] /\ counted' = count
        /\ missed' = missed \cup {kind}
        /\ UNCHANGED frames

Edit ==
  /\ held.at \notin {"held", "flushing"} /\ ~mine.deleted
  /\ counted.edit < MaxEdits
  /\ Change("edit", counted.edit + 1, [mine EXCEPT !.text = counted.edit + 1, !.edit = ops + 1],
            [counted EXCEPT !.edit = @ + 1])
  /\ hasty' = (hasty \/ ~Settled)
  /\ UNCHANGED <<held, theirs, opened, seen, receipts, stopped, session, caps, blocked, knownSent,
                 applied>>

(* reactToMessage: a reaction always travels by itself.                    *)
React ==
  /\ ~mine.deleted
  /\ counted.react < MaxReactions
  /\ Change("react", counted.react + 1,
            [mine EXCEPT !.reaction = counted.react + 1, !.react = ops + 1],
            [counted EXCEPT !.react = @ + 1])
  /\ hasty' = (hasty \/ ~Settled \/ held.at = "held")
  /\ UNCHANGED <<held, theirs, opened, seen, receipts, stopped, session, caps, blocked, knownSent,
                 applied>>

Dropped == IF Flushing THEN "dropped" ELSE "released"

(* The row of a message deleted for everyone: a tombstone whose only       *)
(* unsynced change is the deletion.                                        *)
Tombstone ==
  [mine EXCEPT !.text = Gone, !.deleted = TRUE, !.reaction = 0,
               !.edit = NoOp, !.react = NoOp, !.del = ops + 1]

(* A plausible bug: the deletion is not recorded as an unsynced change.    *)
DeleteUnrecorded ==
  /\ ~mine.deleted
  /\ Change("del", Gone, [Tombstone EXCEPT !.del = NoOp], counted)
  /\ held' = [held EXCEPT !.at = Dropped]
  /\ stopped' = stopped \cup {Message}
  /\ knownSent' = (mine.status = "delivered")
  /\ hasty' = (hasty \/ ~Settled \/ held.at = "held")
  /\ UNCHANGED <<theirs, opened, seen, receipts, session, caps, blocked, applied>>

(* deleteMessage for everyone: what waits is dropped.                      *)
Delete ==
  /\ ~mine.deleted
  /\ Change("del", Gone, Tombstone, counted)
  /\ held' = [held EXCEPT !.at = Dropped]
  /\ stopped' = stopped \cup {Message}
  /\ knownSent' = (mine.status = "delivered")
  /\ hasty' = (hasty \/ ~Settled \/ held.at = "held")
  /\ UNCHANGED <<theirs, opened, seen, receipts, session, caps, blocked, applied>>

(* The current state of the row, as the changes the peer has not           *)
(* acknowledged (reclaimUnacked).                                          *)
Rebuilt(s) ==
  UNION {Outgoing(f) : f \in
    {g \in {Frame(mine.edit, s, "edit", mine.text), Frame(mine.del, s, "del", Gone),
            Frame(mine.react, s, "react", mine.reaction)} : g.id # NoOp}}

(* A new session: what has no receipt is sent under it again, a held       *)
(* message as it waits; what the peer could not apply is settled.          *)
Reset ==
  /\ session < MaxSessions /\ ~Flushing
  /\ session' = session + 1
  /\ held' = IF held.at \in {"held", "flushed"} THEN [held EXCEPT !.at = "held"]
             ELSE IF mine.status # "delivered" /\ ~mine.deleted
               THEN [held EXCEPT !.at = "held", !.text = mine.text] ELSE held
  /\ frames' = frames \cup Rebuilt(session + 1)
  /\ mine' = [mine EXCEPT !.react = IF Pointless("react") THEN NoOp ELSE @,
                          !.del = IF Pointless("del") THEN NoOp ELSE @]
  /\ missed' = missed \cup {k \in {"react", "del"} : Pointless(k) /\ mine[k] # NoOp}
  /\ UNCHANGED <<theirs, opened, seen, receipts, stopped, caps, blocked, ops, counted, hasty,
                 knownSent, applied>>

(* receiptHandler: setMessageStatus for the message, markOpSynced for a    *)
(* change; the held entry is released.                                     *)
GetReceipt(id) ==
  /\ id \in receipts \ stopped
  /\ stopped' = stopped \cup {id}
  /\ mine' = IF id = Message THEN [mine EXCEPT !.status = "delivered"]
             ELSE [mine EXCEPT !.edit = IF @ = id THEN NoOp ELSE @,
                               !.react = IF @ = id THEN NoOp ELSE @,
                               !.del = IF @ = id THEN NoOp ELSE @]
  /\ held' = IF id = Message THEN [held EXCEPT !.at = Dropped] ELSE held
  /\ UNCHANGED <<theirs, frames, opened, seen, receipts, session, caps, blocked, ops, counted, hasty,
                 knownSent, missed, applied>>

-----------------------------------------------------------------------------
(* The peer's device; its frames are handled one after another.            *)

Known(id) == id \in seen \/ (id = Message /\ theirs.stored)

(* A copy of something received: acknowledged again, not opened.           *)
AckAgain(f) ==
  /\ f \in frames /\ Known(f.id)
  /\ receipts' = receipts \cup {f.id} /\ seen' = seen \cup {f.id}
  /\ UNCHANGED <<mine, held, theirs, frames, opened, stopped, session, caps, blocked, ops, counted,
                 hasty, knownSent, missed, applied>>

(* A plausible bug: an edit does not look for a tombstone.                 *)
ChangedTombstone(f) ==
  CASE f.kind = "text" -> [theirs EXCEPT !.stored = TRUE, !.text = f.value]
    [] f.kind # "text" /\ (~theirs.stored \/ f.kind = "note") -> theirs
    [] f.kind = "edit" /\ theirs.stored -> [theirs EXCEPT !.text = f.value, !.deleted = FALSE]
    [] f.kind = "react" /\ theirs.stored -> [theirs EXCEPT !.reaction = f.value]
    [] f.kind = "del" /\ theirs.stored -> [theirs EXCEPT !.text = Gone, !.deleted = TRUE, !.reaction = 0]

(* Stored rows after a change: the row decides, an unknown or deleted      *)
(* message is left alone, as it is by a correction, a message of its own.  *)
Changed(f) ==
  CASE f.kind = "text" -> [theirs EXCEPT !.stored = TRUE, !.text = f.value]
    [] f.kind # "text" /\ (~theirs.stored \/ theirs.deleted \/ f.kind = "note") -> theirs
    [] f.kind = "edit" /\ theirs.stored /\ ~theirs.deleted -> [theirs EXCEPT !.text = f.value]
    [] f.kind = "react" /\ theirs.stored /\ ~theirs.deleted -> [theirs EXCEPT !.reaction = f.value]
    [] f.kind = "del" /\ theirs.stored /\ ~theirs.deleted ->
         [theirs EXCEPT !.text = Gone, !.deleted = TRUE, !.reaction = 0]

(* What is missed when f is settled without being stored.                  *)
Missing(f) == IF f.kind = "note" THEN "edit" ELSE f.kind

Acknowledged(f) == receipts' = receipts \cup {f.id} /\ seen' = seen \cup {f.id}

(* A frame of this session is opened once.                                 *)
Opens(f) ==
  /\ f \in frames \ opened /\ ~Known(f.id) /\ f.session = session
  /\ opened' = opened \cup {f}
  /\ UNCHANGED <<mine, held, frames, stopped, session, caps, blocked, ops, hasty, knownSent>>

(* It is applied and acknowledged, also when the row refused it.           *)
Open(f) ==
  /\ Opens(f) /\ ~blocked
  /\ Acknowledged(f)
  /\ theirs' = Changed(f)
  /\ missed' = IF f.kind = "note" THEN missed \cup {"edit"}
               ELSE IF theirs.stored /\ ~theirs.deleted THEN missed \ {f.kind} ELSE missed
  /\ applied' = IF f.kind = "edit" /\ theirs' # theirs THEN applied \cup {f.value} ELSE applied
  /\ UNCHANGED counted

(* What a blocked contact sends is acknowledged and not stored.            *)
OpenBlocked(f) ==
  /\ Opens(f) /\ blocked
  /\ Acknowledged(f)
  /\ missed' = missed \cup {Missing(f)}
  /\ UNCHANGED <<theirs, counted, applied>>

(* A change whose write fails is acknowledged: applyInbound* only take     *)
(* note of it.  (A message whose write fails is not: the handler leaves,   *)
(* as if the frame had been lost.)                                         *)
OpenFails(f) ==
  /\ Opens(f) /\ ~blocked /\ f.kind \in {"edit", "react", "del"}
  /\ counted.setback < MaxSetbacks
  /\ counted' = [counted EXCEPT !.setback = @ + 1]
  /\ Acknowledged(f)
  /\ missed' = missed \cup {f.kind}
  /\ UNCHANGED <<theirs, applied>>

(* The peer's user blocks the author, and takes it back.                   *)
Block ==
  /\ ~blocked /\ counted.setback < MaxSetbacks
  /\ blocked' = TRUE /\ counted' = [counted EXCEPT !.setback = @ + 1]
  /\ UNCHANGED <<mine, held, theirs, frames, opened, seen, receipts, stopped, session, caps, ops,
                 hasty, knownSent, missed, applied>>

Unblock ==
  /\ blocked /\ blocked' = FALSE
  /\ UNCHANGED <<mine, held, theirs, frames, opened, seen, receipts, stopped, session, caps, ops,
                 counted, hasty, knownSent, missed, applied>>

(* The peer's app restarts, or ten minutes pass: what was on its way then  *)
(* is lost or there, and only what the author still sends comes later.     *)
ForgetSeen ==
  /\ counted.setback < MaxSetbacks /\ seen # {}
  /\ counted' = [counted EXCEPT !.setback = @ + 1]
  /\ seen' = {}
  /\ frames' = {f \in frames : f.id \notin stopped}
  /\ opened' = opened \cap frames'
  /\ receipts' = receipts \cap stopped
  /\ UNCHANGED <<mine, held, theirs, stopped, session, caps, blocked, ops, hasty, knownSent, missed,
                 applied>>

ConvNext ==
  \/ TakeHeld \/ FlushHeld \/ EditHeld \/ Edit \/ React \/ Delete \/ Reset \/ ForgetSeen
  \/ Block \/ Unblock \/ \E build \in Builds : Learn(build)
  \/ \E id \in 0..ops : GetReceipt(id)
  \/ \E f \in frames : AckAgain(f) \/ Open(f) \/ OpenBlocked(f) \/ OpenFails(f)

ConvSpec == ConvInit /\ [][ConvNext]_convVars

-----------------------------------------------------------------------------

(* A user who makes each change after the previous one has been confirmed  *)
(* sees, once it is confirmed too, the same message on both devices,       *)
(* through resets, lost memory and repeated frames: "the peer's copy       *)
(* converges even across a reconnect" (useKant.ts, editMessage).  This is  *)
(* said of a message that both devices stored, and of each part of it (the *)
(* text, the reaction, the tombstone) unless the last change of that part  *)
(* was settled without being applied: while the peer had blocked the       *)
(* author, by a build that does not know such changes, or when the write   *)
(* failed, which the acknowledgement does not tell.                        *)
SettledCopiesAgree ==
  ~hasty /\ Settled /\ held.at = "released" /\ theirs.stored /\ missed \cap {"text", "own"} = {} =>
    \/ "del" \in missed
    \/ /\ theirs.deleted = mine.deleted
       /\ mine.deleted \/ "edit" \notin missed => theirs.text = mine.text
       /\ mine.deleted \/ "react" \notin missed => theirs.reaction = mine.reaction

(* A message deleted after the peer confirmed it is a tombstone on the     *)
(* peer's device once the deletion is settled, however hastily it was      *)
(* edited before and whatever of that arrives later; unless the peer did   *)
(* not store the message or did not apply the deletion (see missed).       *)
ConfirmedDeletionHolds ==
  knownSent /\ mine.del = NoOp /\ missed \cap {"text", "del", "own"} = {} =>
    theirs.deleted /\ theirs.text = Gone

(* "Edits can arrive out of order after a retry; the newest one wins"      *)
(* (messages.ts): of the edits that have been applied the peer shows the   *)
(* newest.                                                                 *)
NewestEditWins ==
  theirs.deleted \/ \A e \in applied : e <= theirs.text
=============================================================================
