--------------------------- MODULE ConversationProofs ---------------------------
(***************************************************************************)
(* One message on the author's device and on the peer's, for any number of *)
(* edits, reactions, sessions and setbacks: once everything the author     *)
(* changed is settled, both show the same but for what the peer did not    *)
(* apply, and a confirmed deletion stays.                                  *)
(*                                                                         *)
(* ConvFrames are lost, repeated, opened late and rebuilt from the row when    *)
(* the session is replaced, so the argument is about what a frame that can *)
(* still be opened does.  A confirmed change cannot be opened again: the   *)
(* peer knows its id or the frame is no longer on its way                  *)
(* (ConfirmedChanges).  A deletion withdraws the other changes and only    *)
(* leaves a tombstone (Deleting); that holds however hastily the author    *)
(* changes the message.                                                    *)
(* An author who waits for each confirmation has one change on its way at  *)
(* a time (OneChange), whose frames carry the row as it is, so what the    *)
(* peer has opened is what the author has, or it is missed (Agreeing); for *)
(* the same reason such an author's edits are applied in the order they    *)
(* were made.                                                              *)
(***************************************************************************)
EXTENDS Conversation, TLAPS

Changes == {"edit", "react", "del"}
Kinds == {"text", "edit", "note", "react", "del"}
Row == [text : Int, status : {"waiting", "sent", "delivered"}, deleted : BOOLEAN, reaction : Int,
        edit : Nat \cup {NoOp}, react : Nat \cup {NoOp}, del : Nat \cup {NoOp}]
Held == [at : {"held", "flushing", "dropped", "flushed", "released"}, text : Int, taken : Int,
         known : BOOLEAN]
Copy == [stored : BOOLEAN, text : Int, deleted : BOOLEAN, reaction : Int]
ConvCounts == [edit : Nat, react : Nat, setback : Nat]
ConvFrames == [id : Nat, session : Nat, kind : Kinds, value : Int]

ConvShape ==
  /\ mine \in Row /\ held \in Held /\ theirs \in Copy
  /\ frames \subseteq ConvFrames
  /\ session \in Nat /\ ops \in Nat /\ counted \in ConvCounts
  /\ caps \subseteq Changes /\ missed \subseteq Missable

(* An id is given once, to one change, and sent to who can apply it.       *)
Named ==
  /\ {mine.edit, mine.react, mine.del} \subseteq (1..ops) \cup {NoOp}
  /\ seen \cup receipts \cup stopped \subseteq 0..ops
  /\ \A f \in frames :
       /\ f.id <= ops /\ (f.kind = "text" <=> f.id = Message)
       /\ f.id = mine.edit => f.kind \in {"edit", "note"}
       /\ f.id = mine.react => f.kind = "react"
       /\ f.id = mine.del => f.kind = "del"
       /\ f.kind \in {"react", "del"} => f.kind \in caps

(* The changes a row still waits for are different ones.                  *)
Apart ==
  /\ mine.edit = NoOp \/ (mine.edit # mine.react /\ mine.edit # mine.del)
  /\ mine.react = NoOp \/ mine.react # mine.del

(* The peer stores what was sent, acknowledges what it stores or misses,   *)
(* and keeps a tombstone.                                                  *)
There == theirs.stored \/ "text" \in missed
Stored ==
  /\ Message \in seen \cup receipts => There
  /\ mine.status = "delivered" => There
  /\ (\E f \in frames : f.id = Message) \/ theirs.stored => held.known
  /\ theirs.deleted => theirs.stored /\ theirs.text = Gone /\ theirs.reaction = 0
  /\ ~theirs.stored => theirs.reaction = 0

(* What has been confirmed cannot be opened again: the peer still knows    *)
(* it, or the frame is no longer on its way.                               *)
ConfirmedChanges ==
  /\ \A id \in receipts : id # Message => id \in seen \cup stopped
  /\ \A f \in frames : f.id \in stopped /\ f.id # Message => f.id \in seen
  /\ \A id \in stopped : id # mine.edit /\ id # mine.react /\ id # mine.del

(* The deletion of a message the peer has.                                 *)
Deleting ==
  /\ mine.deleted => mine.text = Gone /\ mine.reaction = 0 /\ mine.edit = NoOp /\ mine.react = NoOp
  /\ mine.del # NoOp => mine.deleted
  /\ knownSent => (mine.deleted \/ "own" \in missed) /\ There
  /\ knownSent /\ mine.del \in seen \cup receipts =>
       theirs.deleted \/ missed \cap {"text", "del", "own"} # {}
  /\ ConfirmedDeletionHolds

(* Without haste, both rows stored: the message as it waits is the row's,  *)
(* changes are made to a message the peer has, one at a time, and frames   *)
(* carry the state.                                                        *)
Orderly == ~hasty /\ "text" \notin missed /\ "own" \notin missed
Waiting ==
  /\ mine.deleted => held.at = "released"
  /\ held.at \in {"held", "flushing", "flushed"} => held.text = mine.text
  /\ held.at \in {"flushing", "dropped"} => held.taken = mine.text
  /\ held.at \in {"dropped", "released"} => theirs.stored
  /\ ~theirs.stored => ops = 0 /\ mine.reaction = 0 /\ \A f \in frames : f.value = mine.text
OneChange ==
  /\ \A f \in frames : f.id # Message /\ f.id \notin stopped => f.id \in {mine.edit, mine.react, mine.del}
  /\ mine.edit # NoOp => mine.react = NoOp /\ mine.del = NoOp
  /\ mine.react # NoOp => mine.del = NoOp
  /\ \A f \in frames :
       /\ f.id = mine.edit => f.value = mine.text
       /\ f.id = mine.react => f.value = mine.reaction

(* What is settled, or has been seen by the peer, is the same there or     *)
(* missed.                                                                 *)
Reached(id) == id = NoOp \/ id \in seen \cup receipts
Agreeing ==
  /\ theirs.deleted \/ "del" \in missed => mine.deleted
  /\ theirs.stored =>
       /\ ~mine.deleted /\ Reached(mine.edit) => theirs.text = mine.text \/ "edit" \in missed
       /\ ~mine.deleted /\ Reached(mine.react) => theirs.reaction = mine.reaction \/ "react" \in missed
       /\ mine.deleted /\ Reached(mine.del) => theirs.deleted \/ "del" \in missed

ConvInv ==
  /\ ConvShape /\ Named /\ Apart /\ Stored /\ ConfirmedChanges /\ Deleting
  /\ Orderly => Waiting /\ OneChange /\ Agreeing

-----------------------------------------------------------------------------

LEMMA ConvInitInv == ConvInit => ConvInv
  <1> SUFFICES ASSUME ConvInit PROVE ConvInv
    OBVIOUS
  <1> USE ConvAssumption DEF ConvInit
  <1>1. ConvShape
    <2>1. mine \in Row
      BY DEF Row
    <2>2. held \in Held
      BY DEF Held
    <2>3. theirs \in Copy
      BY DEF Copy, Gone
    <2>4. counted \in ConvCounts
      BY DEF ConvCounts
    <2>5. caps \subseteq Changes
      BY DEF Changes
    <2> QED BY <2>1, <2>2, <2>3, <2>4, <2>5 DEF ConvShape
  <1>2. Named /\ Apart /\ Stored /\ ConfirmedChanges
    BY DEF Named, Apart, Stored, ConfirmedChanges, Message
  <1>3. Deleting
    BY DEF Deleting, ConfirmedDeletionHolds
  <1>4. Waiting /\ OneChange /\ Agreeing
    BY DEF Waiting, OneChange, Agreeing
  <1> QED BY <1>1, <1>2, <1>3, <1>4 DEF ConvInv

(* A step that hands nothing to the network and leaves rows and receipts.  *)
LEMMA OnlyHeld ==
  ASSUME ConvInv, held' \in Held, held.known => held'.known, Orderly => Waiting',
         caps \subseteq caps', caps' \subseteq Changes, counted' \in ConvCounts,
         UNCHANGED <<mine, theirs, frames, opened, seen, receipts, stopped, session, ops,
                     hasty, knownSent, missed>>
  PROVE  ConvInv'
  <1>1. ConvShape' /\ Named' /\ Apart' /\ ConfirmedChanges'
    BY DEF ConvInv, ConvShape, Named, Apart, ConfirmedChanges
  <1>2. Stored'
    BY DEF ConvInv, Stored, There
  <1>3. Deleting'
    BY DEF ConvInv, Deleting, ConfirmedDeletionHolds, There
  <1>4. Orderly' => OneChange' /\ Agreeing' /\ Orderly
    BY DEF ConvInv, Orderly, OneChange, Agreeing, Reached
  <1> QED BY <1>1, <1>2, <1>3, <1>4 DEF ConvInv

LEMMA TakeHeldInv == ASSUME ConvInv, TakeHeld PROVE ConvInv'
  <1>1. /\ held.at = "held" /\ held' = [held EXCEPT !.at = "flushing", !.taken = held.text]
        /\ UNCHANGED <<mine, theirs, frames, opened, seen, receipts, stopped, session, caps, ops,
                       counted, hasty, knownSent, missed>>
    BY DEF TakeHeld
  <1>2. /\ held' \in Held /\ held'.at = "flushing" /\ held'.text = held.text
        /\ held'.taken = held.text /\ held'.known = held.known
    BY <1>1 DEF ConvInv, ConvShape, Held
  <1>3. Orderly => Waiting'
    BY <1>1, <1>2 DEF ConvInv, Waiting
  <1>4. caps \subseteq Changes /\ counted \in ConvCounts
    BY DEF ConvInv, ConvShape
  <1> QED BY <1>1, <1>2, <1>3, <1>4, OnlyHeld

(* What the peer's build applies and whom its user blocks is no part of    *)
(* either row.                                                             *)
LEMMA AsideInv ==
  ASSUME ConvInv, Block \/ Unblock \/ \E build \in Builds : Learn(build)
  PROVE  ConvInv'
  <1>1. /\ caps \subseteq caps' /\ caps' \subseteq Changes /\ counted' \in ConvCounts
        /\ UNCHANGED <<mine, held, theirs, frames, opened, seen, receipts, stopped, session, ops,
                       hasty, knownSent, missed>>
    <2>1. CASE Block
      BY <2>1 DEF Block, ConvInv, ConvShape, ConvCounts
    <2>2. CASE Unblock
      BY <2>2 DEF Unblock, ConvInv, ConvShape
    <2>3. ASSUME NEW build \in Builds, Learn(build)
          PROVE  /\ caps \subseteq caps' /\ caps' \subseteq Changes /\ counted' \in ConvCounts
                 /\ UNCHANGED <<mine, held, theirs, frames, opened, seen, receipts, stopped, session,
                                ops, hasty, knownSent, missed>>
      BY <2>3, ConvAssumption DEF Learn, ConvInv, ConvShape, Changes
    <2> QED BY <2>1, <2>2, <2>3
  <1>2. held' \in Held /\ (held.known => held'.known)
    BY <1>1 DEF ConvInv, ConvShape
  <1>3. Orderly => Waiting'
    BY <1>1 DEF ConvInv, Waiting
  <1> QED BY <1>1, <1>2, <1>3, OnlyHeld

(* The message is sent with the text it had when it was taken.             *)
LEMMA FlushHeldInv == ASSUME ConvInv, FlushHeld PROVE ConvInv'
  <1> DEFINE sent == Frame(Message, session, "text", held.taken)
  <1>1. /\ held.at \in {"flushing", "dropped"}
        /\ held' = [held EXCEPT !.at = IF @ = "flushing" THEN "flushed" ELSE "released", !.known = TRUE]
        /\ frames' = frames \cup {sent} /\ stopped' = stopped \ {Message}
        /\ mine' = IF mine.deleted THEN [mine EXCEPT !.status = "sent"]
                   ELSE [mine EXCEPT !.status = "sent", !.text = held.taken]
        /\ UNCHANGED <<theirs, opened, seen, receipts, session, caps, ops, counted, hasty, knownSent,
                       missed>>
    BY DEF FlushHeld, Flushing
  <1>2. /\ held' \in Held /\ held'.known /\ held'.text = held.text /\ held'.taken = held.taken
        /\ held.at = "flushing" => held'.at = "flushed"
        /\ held.at = "dropped" => held'.at = "released"
    BY <1>1 DEF ConvInv, ConvShape, Held
  <1>3. /\ mine' \in Row /\ mine'.status = "sent" /\ mine'.deleted = mine.deleted
        /\ mine'.reaction = mine.reaction
        /\ mine'.edit = mine.edit /\ mine'.react = mine.react /\ mine'.del = mine.del
        /\ mine'.text = IF mine.deleted THEN mine.text ELSE held.taken
    BY <1>1 DEF ConvInv, ConvShape, Held, Row
  <1>4. /\ sent \in ConvFrames
        /\ sent.id = Message /\ sent.kind = "text" /\ sent.value = held.taken
    BY DEF ConvInv, ConvShape, Held, Frame, Message, Kinds, ConvFrames
  <1> HIDE DEF sent
  <1>5. ConvShape'
    BY <1>1, <1>2, <1>3, <1>4 DEF ConvInv, ConvShape
  <1>6. mine.edit # Message /\ mine.react # Message /\ mine.del # Message
    BY ConvAssumption DEF ConvInv, Named, Message
  <1>7. Named'
    BY <1>1, <1>3, <1>4, <1>6 DEF ConvInv, Named, ConvShape, Message
  <1>8. Stored' /\ ConfirmedChanges'
    BY <1>1, <1>2, <1>3, <1>4 DEF ConvInv, Stored, ConfirmedChanges, There
  <1>9. Deleting' /\ Apart'
    BY <1>1, <1>3 DEF ConvInv, Apart, Deleting, ConfirmedDeletionHolds, There
  <1>10. ASSUME Orderly' PROVE Waiting' /\ OneChange' /\ Agreeing'
    <2>1. Waiting /\ OneChange /\ Agreeing /\ ~mine.deleted
      BY <1>1, <1>10 DEF ConvInv, Waiting, Orderly
    <2>2. mine'.text = mine.text /\ held.taken = mine.text
      BY <1>1, <1>3, <2>1 DEF Waiting
    <2>3. Waiting'
      BY <1>1, <1>2, <1>3, <1>4, <2>1, <2>2 DEF Waiting
    <2>4. OneChange'
      BY <1>1, <1>3, <1>4, <1>6, <2>1, <2>2 DEF OneChange, Message
    <2>5. Agreeing'
      BY <1>1, <1>3, <2>1, <2>2 DEF Agreeing, Reached
    <2> QED BY <2>3, <2>4, <2>5
  <1> QED BY <1>5, <1>7, <1>8, <1>9, <1>10 DEF ConvInv

(* A record of the author's that is written, or is not.                    *)
LEMMA RecordedIs ==
  ASSUME ConvInv, NEW row, NEW count \in ConvCounts, Recorded(row, count)
  PROVE  /\ counted' \in ConvCounts /\ missed \subseteq missed' /\ missed' \subseteq Missable
         /\ counted'.edit = count.edit
         /\ \/ mine' = row /\ missed' = missed
            \/ mine' = mine /\ "own" \in missed'
  BY DEF Recorded, ConvCounts, ConvInv, ConvShape, Missable

(* A message that has not left the device is changed in place.             *)
LEMMA EditHeldInv == ASSUME ConvInv, EditHeld PROVE ConvInv'
  <1> DEFINE n == counted.edit + 1
             row == [mine EXCEPT !.text = n]
             count == [counted EXCEPT !.edit = @ + 1]
  <1>1. /\ held.at \in {"held", "flushing"} /\ ~mine.deleted
        /\ Recorded(row, count) /\ held' = [held EXCEPT !.text = n]
        /\ UNCHANGED <<theirs, frames, opened, seen, receipts, stopped, session, caps, ops, knownSent>>
    BY DEF EditHeld
  <1>2. ~hasty' => ~hasty /\ Settled
    BY DEF EditHeld
  <1>3. n \in Int /\ count \in ConvCounts /\ row \in Row /\ mine \in Row
    BY DEF ConvInv, ConvShape, ConvCounts, Row
  <1>4. /\ counted' \in ConvCounts /\ missed \subseteq missed' /\ missed' \subseteq Missable
        /\ \/ mine' = row /\ missed' = missed
           \/ mine' = mine /\ "own" \in missed'
    BY <1>1, <1>3, RecordedIs
  <1>5. /\ mine' \in Row /\ mine'.status = mine.status
        /\ mine'.deleted = mine.deleted /\ mine'.reaction = mine.reaction
        /\ mine'.edit = mine.edit /\ mine'.react = mine.react /\ mine'.del = mine.del
        /\ "own" \notin missed' => mine'.text = n /\ missed' = missed
    BY <1>3, <1>4 DEF Row
  <1>6. held' \in Held /\ held'.text = n /\ held'.at = held.at /\ held'.known = held.known
    BY <1>1, <1>3 DEF ConvInv, ConvShape, Held
  <1> HIDE DEF n, row, count
  <1>7. ConvShape' /\ Named' /\ ConfirmedChanges'
    BY <1>1, <1>4, <1>5, <1>6 DEF ConvInv, ConvShape, Named, ConfirmedChanges
  <1>8. Stored'
    BY <1>1, <1>4, <1>5, <1>6 DEF ConvInv, Stored, There
  <1>9. Deleting' /\ Apart'
    BY <1>1, <1>4, <1>5 DEF ConvInv, Apart, Deleting, ConfirmedDeletionHolds, There
  <1>10. ASSUME Orderly' PROVE Waiting' /\ OneChange' /\ Agreeing'
    <2>1. Waiting /\ OneChange /\ Agreeing /\ held.at = "held" /\ ~held.known
          /\ mine'.text = n /\ missed' = missed
      BY <1>1, <1>2, <1>5, <1>10 DEF ConvInv, Settled, Orderly
    <2>2. ~theirs.stored /\ ops = 0 /\ \A f \in frames : f.id # Message
      BY <2>1 DEF ConvInv, Stored, Waiting
    <2>3. frames = {}
      BY <2>2 DEF ConvInv, ConvShape, Named, Message, ConvFrames
    <2> QED BY <1>1, <1>5, <1>6, <2>1, <2>2, <2>3 DEF Waiting, OneChange, Agreeing
  <1> QED BY <1>7, <1>8, <1>9, <1>10 DEF ConvInv

SentAs(kind) == IF kind = "edit" THEN {"edit", "note"} ELSE {kind}

(* What is handed to the network has the id and the value of the change.   *)
LEMMA OutgoingIs ==
  ASSUME ConvInv, NEW id \in Nat, NEW s \in Nat, NEW kind \in Changes, NEW value \in Int,
         NEW f \in Outgoing(Frame(id, s, kind, value))
  PROVE  /\ f \in ConvFrames /\ f.id = id /\ f.session = s /\ f.value = value /\ f.kind # "text"
         /\ f.kind \in SentAs(kind)
         /\ f.kind \in {"react", "del"} => f.kind \in caps
  <1> DEFINE g == Frame(id, s, kind, value)
  <1>1. g \in ConvFrames /\ g.id = id /\ g.session = s /\ g.value = value /\ g.kind = kind
    BY DEF Frame, ConvFrames, Kinds, Changes
  <1>2. \/ f = g /\ kind \in caps
        \/ f = [g EXCEPT !.kind = "note"] /\ kind = "edit"
    <2>1. f \in Outgoing(g)
      OBVIOUS
    <2> HIDE DEF g
    <2> QED BY <1>1, <2>1 DEF Outgoing
  <1> HIDE DEF g
  <1> QED BY <1>1, <1>2 DEF ConvFrames, Kinds, Changes, SentAs

(* A change: its id is new, its frames carry it, and it is recorded as     *)
(* unsynced, or settled at once and missed, or not recorded.               *)
Made(kind, value, row, count) ==
  /\ ops' = ops + 1 /\ counted' \in ConvCounts /\ counted'.edit = count.edit
  /\ missed \subseteq missed' /\ missed' \subseteq Missable
  /\ \E new : /\ frames' = frames \cup new
              /\ \A f \in new :
                   /\ f \in ConvFrames /\ f.id = ops + 1 /\ f.session = session
                   /\ f.value = value /\ f.kind # "text"
                   /\ f.kind \in SentAs(kind)
                   /\ f.kind \in {"react", "del"} => f.kind \in caps
  /\ \/ mine' = row /\ missed' = missed
     \/ mine' = mine /\ "own" \in missed'
     \/ /\ mine' = [row EXCEPT ![kind] = NoOp] /\ kind \in {"react", "del"}
        /\ missed' = missed \cup {kind} /\ frames' = frames

LEMMA ChangeIs ==
  ASSUME ConvInv, NEW kind \in Changes, NEW value \in Int, NEW row \in Row, NEW count \in ConvCounts,
         Change(kind, value, row, count)
  PROVE  Made(kind, value, row, count)
  <1> USE DEF Made
  <1>1. ops \in Nat /\ session \in Nat /\ missed \subseteq Missable /\ ops + 1 \in Nat
    BY DEF ConvInv, ConvShape
  <1>2. CASE Recorded(row, count) /\ UNCHANGED frames /\ ops' = ops + 1
    <2> DEFINE none == {}
    <2>1. frames' = frames \cup none /\ \A f \in none : FALSE
      BY <1>2
    <2> HIDE DEF none
    <2> QED BY <1>2, <2>1, RecordedIs
  <1>3. CASE /\ Recorded(row, count) /\ ops' = ops + 1
             /\ frames' = frames \cup Outgoing(Frame(ops + 1, session, kind, value))
    <2>1. \A f \in Outgoing(Frame(ops + 1, session, kind, value)) :
            /\ f \in ConvFrames /\ f.id = ops + 1 /\ f.session = session
            /\ f.value = value /\ f.kind # "text"
            /\ f.kind \in SentAs(kind)
            /\ f.kind \in {"react", "del"} => f.kind \in caps
      BY <1>1, OutgoingIs
    <2> QED BY <1>3, <2>1, RecordedIs
  <1>4. CASE /\ Pointless(kind) /\ ops' = ops + 1 /\ UNCHANGED frames
             /\ mine' = [row EXCEPT ![kind] = NoOp] /\ counted' = count
             /\ missed' = missed \cup {kind}
    <2> DEFINE none == {}
    <2>1. frames' = frames \cup none /\ \A f \in none : FALSE
      BY <1>4
    <2> HIDE DEF none
    <2>2. kind \in {"react", "del"} /\ kind \in Missable
      BY <1>4 DEF Pointless, Missable
    <2> QED BY <1>1, <1>4, <2>1, <2>2
  <1> QED BY <1>2, <1>3, <1>4 DEF Change

(* An id that is new.                                                      *)
LEMMA NewId ==
  ASSUME ConvInv
  PROVE  /\ ops \in Nat /\ ops + 1 \in Nat /\ ops + 1 # Message /\ ops + 1 # NoOp
         /\ ops + 1 \notin seen \cup receipts \cup stopped
         /\ mine.edit # ops + 1 /\ mine.react # ops + 1 /\ mine.del # ops + 1
         /\ \A g \in frames : g.id \in 0..ops
         /\ NoOp \notin seen \cup receipts \cup stopped
  <1>1. ops \in Nat /\ frames \subseteq ConvFrames
    BY DEF ConvInv, ConvShape
  <1>2. ops + 1 \in Nat /\ ops + 1 # Message /\ ops + 1 # NoOp /\ ops + 1 \notin 0..ops /\ NoOp \notin 0..ops
    BY <1>1, ConvAssumption DEF Message
  <1>3. ops + 1 \notin seen \cup receipts \cup stopped /\ NoOp \notin seen \cup receipts \cup stopped
    BY <1>2 DEF ConvInv, Named
  <1>4. mine.edit # ops + 1 /\ mine.react # ops + 1 /\ mine.del # ops + 1
    BY <1>1, <1>2 DEF ConvInv, Named
  <1>5. \A g \in frames : g.id \in 0..ops
    BY <1>1 DEF ConvInv, Named, ConvFrames
  <1> QED BY <1>1, <1>2, <1>3, <1>4, <1>5

(* What holds in whatever haste after a change of some kind.               *)
LEMMA ChangeKeeps ==
  ASSUME ConvInv, NEW kind \in Changes, NEW new, frames' = frames \cup new,
         \A f \in new : /\ f \in ConvFrames /\ f.id = ops + 1 /\ f.kind # "text"
                        /\ f.kind \in SentAs(kind)
                        /\ f.kind \in {"react", "del"} => f.kind \in caps,
         ops' = ops + 1, counted' \in ConvCounts, missed \subseteq missed', missed' \subseteq Missable,
         mine' \in Row, mine'.status = mine.status,
         mine'.edit \in {mine.edit, NoOp} \/ (kind = "edit" /\ mine'.edit = ops + 1),
         mine'.react \in {mine.react, NoOp} \/ (kind = "react" /\ mine'.react = ops + 1),
         mine'.del \in {mine.del, NoOp} \/ (kind = "del" /\ mine'.del = ops + 1),
         held' \in Held, held'.known = held.known, stopped' \in {stopped, stopped \cup {Message}},
         UNCHANGED <<theirs, seen, receipts, session, caps>>
  PROVE  ConvShape' /\ Named' /\ Apart' /\ Stored' /\ ConfirmedChanges'
  <1>1. /\ ops \in Nat /\ ops + 1 \in Nat /\ ops + 1 # Message /\ ops + 1 # NoOp
        /\ ops + 1 \notin seen \cup receipts \cup stopped
        /\ mine.edit # ops + 1 /\ mine.react # ops + 1 /\ mine.del # ops + 1
        /\ \A g \in frames : g.id \in 0..ops
        /\ NoOp \notin seen \cup receipts \cup stopped
    BY NewId
  <1>2. NoOp # Message /\ mine.edit # Message /\ mine.react # Message /\ mine.del # Message
    BY ConvAssumption DEF ConvInv, Named, Message
  <1>3. ConvShape'
    BY <1>1 DEF ConvInv, ConvShape
  <1>4. Named'
    <2>1. {mine'.edit, mine'.react, mine'.del} \subseteq (1..ops') \cup {NoOp}
      BY <1>1 DEF ConvInv, Named
    <2>2. (seen \cup receipts \cup stopped)' \subseteq 0..ops'
      BY <1>1 DEF ConvInv, Named, Message
    <2>3. ASSUME NEW f \in frames
          PROVE  /\ f.id <= ops' /\ (f.kind = "text" <=> f.id = Message)
                 /\ f.id = mine'.edit => f.kind \in {"edit", "note"}
                 /\ f.id = mine'.react => f.kind = "react"
                 /\ f.id = mine'.del => f.kind = "del"
                 /\ f.kind \in {"react", "del"} => f.kind \in caps'
      <3>1. f.id \in 0..ops /\ f.id # NoOp /\ f.id # ops + 1
        BY <1>1, ConvAssumption
      <3>2. /\ f.id = mine'.edit => f.id = mine.edit
            /\ f.id = mine'.react => f.id = mine.react
            /\ f.id = mine'.del => f.id = mine.del
        BY <3>1
      <3> QED BY <1>1, <3>1, <3>2 DEF ConvInv, Named
    <2>4. ASSUME NEW f \in new
          PROVE  /\ f.id <= ops' /\ (f.kind = "text" <=> f.id = Message)
                 /\ f.id = mine'.edit => f.kind \in {"edit", "note"}
                 /\ f.id = mine'.react => f.kind = "react"
                 /\ f.id = mine'.del => f.kind = "del"
                 /\ f.kind \in {"react", "del"} => f.kind \in caps'
      <3>1. f.id = ops + 1 /\ f.id # mine.edit /\ f.id # mine.react /\ f.id # mine.del /\ f.id # NoOp
        BY <1>1
      <3> QED BY <1>1, <3>1 DEF SentAs
    <2> QED BY <2>1, <2>2, <2>3, <2>4 DEF Named
  <1>5. Apart'
    BY <1>1 DEF ConvInv, Apart
  <1>6. Stored'
    <2>1. \A f \in new : f.id # Message
      BY <1>1
    <2> QED BY <2>1 DEF ConvInv, Stored, There
  <1>7. ConfirmedChanges'
    <2>1. \A f \in new : f.id \notin stopped'
      BY <1>1
    <2>2. \A id \in stopped' : id # mine'.edit /\ id # mine'.react /\ id # mine'.del
      BY <1>1, <1>2 DEF ConvInv, ConfirmedChanges
    <2> QED BY <2>1, <2>2 DEF ConvInv, ConfirmedChanges
  <1> QED BY <1>3, <1>4, <1>5, <1>6, <1>7

(* The rows the three handlers record.                                     *)
LEMMA EditedRow ==
  ASSUME ConvInv, NEW n \in Int, NEW row, row = [mine EXCEPT !.text = n, !.edit = ops + 1]
  PROVE  /\ row \in Row
         /\ row.text = n /\ row.status = mine.status /\ row.deleted = mine.deleted
         /\ row.reaction = mine.reaction /\ row.edit = ops + 1
         /\ row.react = mine.react /\ row.del = mine.del
  <1>1. mine \in Row /\ ops + 1 \in Nat
    BY NewId DEF ConvInv, ConvShape
  <1> QED BY <1>1 DEF Row

LEMMA ReactedRow ==
  ASSUME ConvInv, NEW n \in Int, NEW row, row = [mine EXCEPT !.reaction = n, !.react = ops + 1]
  PROVE  /\ row \in Row
         /\ row.text = mine.text /\ row.status = mine.status /\ row.deleted = mine.deleted
         /\ row.reaction = n /\ row.edit = mine.edit
         /\ row.react = ops + 1 /\ row.del = mine.del
  <1>1. mine \in Row /\ ops + 1 \in Nat
    BY NewId DEF ConvInv, ConvShape
  <1> QED BY <1>1 DEF Row

LEMMA TombstoneRow ==
  ASSUME ConvInv
  PROVE  /\ Tombstone \in Row
         /\ Tombstone.text = Gone /\ Tombstone.status = mine.status /\ Tombstone.deleted
         /\ Tombstone.reaction = 0 /\ Tombstone.edit = NoOp /\ Tombstone.react = NoOp
         /\ Tombstone.del = ops + 1
  <1>1. mine \in Row /\ ops + 1 \in Nat /\ Gone \in Int
    BY NewId DEF ConvInv, ConvShape, Gone
  <1>2. PICK row : row = [mine EXCEPT !.text = Gone, !.deleted = TRUE, !.reaction = 0,
                                      !.edit = NoOp, !.react = NoOp, !.del = ops + 1]
    OBVIOUS
  <1>3. row = [text |-> Gone, status |-> mine.status, deleted |-> TRUE, reaction |-> 0,
               edit |-> NoOp, react |-> NoOp, del |-> ops + 1]
    BY <1>1, <1>2 DEF Row
  <1>4. mine.status \in {"waiting", "sent", "delivered"}
    BY <1>1 DEF Row
  <1>5. Tombstone = row
    BY <1>2 DEF Tombstone
  <1> QED BY <1>1, <1>3, <1>4, <1>5 DEF Row

LEMMA EditInv == ASSUME ConvInv, Edit PROVE ConvInv'
  <1> DEFINE n == counted.edit + 1
             row == [mine EXCEPT !.text = n, !.edit = ops + 1]
             count == [counted EXCEPT !.edit = @ + 1]
  <1>1. /\ held.at \notin {"held", "flushing"} /\ ~mine.deleted
        /\ Change("edit", n, row, count)
        /\ UNCHANGED <<held, theirs, opened, seen, receipts, stopped, session, caps, knownSent>>
    BY DEF Edit
  <1>2. ~hasty' => ~hasty /\ Settled
    BY DEF Edit
  <1>3. /\ ops \in Nat /\ ops + 1 \in Nat /\ ops + 1 # Message /\ ops + 1 # NoOp
        /\ ops + 1 \notin seen \cup receipts \cup stopped
        /\ mine.edit # ops + 1 /\ mine.react # ops + 1 /\ mine.del # ops + 1
        /\ \A g \in frames : g.id \in 0..ops
    BY NewId
  <1>4. n \in Int /\ count \in ConvCounts /\ mine \in Row
    BY DEF ConvInv, ConvShape, ConvCounts
  <1>5. /\ row \in Row
        /\ row.text = n /\ row.status = mine.status /\ row.deleted = mine.deleted
        /\ row.reaction = mine.reaction /\ row.edit = ops + 1
        /\ row.react = mine.react /\ row.del = mine.del
    BY <1>4, EditedRow
  <1> HIDE DEF n, row, count
  <1>6. /\ ops' = ops + 1 /\ counted' \in ConvCounts
        /\ missed \subseteq missed' /\ missed' \subseteq Missable
        /\ \E new : /\ frames' = frames \cup new
                    /\ \A f \in new :
                         /\ f \in ConvFrames /\ f.id = ops + 1 /\ f.session = session
                         /\ f.value = n /\ f.kind # "text"
                         /\ f.kind \in SentAs("edit")
                         /\ f.kind \in {"react", "del"} => f.kind \in caps
        /\ \/ mine' = row /\ missed' = missed
           \/ mine' = mine /\ "own" \in missed'
           \/ /\ mine' = [row EXCEPT !["edit"] = NoOp] /\ "edit" \in {"react", "del"}
              /\ missed' = missed \cup {"edit"} /\ frames' = frames
    <2>1. "edit" \in Changes
      BY DEF Changes
    <2>2. Made("edit", n, row, count)
      BY <1>1, <1>4, <1>5, <2>1, ChangeIs
    <2> QED BY <2>2 DEF Made
  <1>7. PICK new : /\ frames' = frames \cup new
                   /\ \A f \in new :
                        /\ f \in ConvFrames /\ f.id = ops + 1 /\ f.value = n /\ f.kind # "text"
                        /\ f.kind \in SentAs("edit")
                        /\ f.kind \in {"react", "del"} => f.kind \in caps
    BY <1>6
  <1>8. /\ mine' \in Row /\ mine'.status = mine.status /\ mine'.deleted = mine.deleted
        /\ mine'.edit \in {mine.edit, ops + 1} /\ mine'.react = mine.react /\ mine'.del = mine.del
        /\ mine'.reaction = mine.reaction
        /\ "own" \notin missed' => mine'.text = n /\ mine'.edit = ops + 1 /\ missed' = missed
    BY <1>4, <1>5, <1>6
  <1>9. ConvShape' /\ Named' /\ Apart' /\ Stored' /\ ConfirmedChanges'
    <2>1. held' \in Held /\ held'.known = held.known /\ "edit" \in Changes
      BY <1>1 DEF ConvInv, ConvShape, Changes
    <2> QED BY <1>1, <1>6, <1>7, <1>8, <2>1, ChangeKeeps
  <1>10. Deleting'
    BY <1>1, <1>6, <1>8 DEF ConvInv, Deleting, ConfirmedDeletionHolds, There
  <1>11. ASSUME Orderly' PROVE Waiting' /\ OneChange' /\ Agreeing'
    <2>1. /\ Waiting /\ OneChange /\ Agreeing /\ held.at = "released" /\ theirs.stored
          /\ mine.edit = NoOp /\ mine.react = NoOp /\ mine.del = NoOp
          /\ mine'.text = n /\ mine'.edit = ops + 1 /\ missed' = missed
      BY <1>1, <1>2, <1>6, <1>8, <1>11 DEF ConvInv, Orderly, Settled, Unsynced, Waiting
    <2>2. Waiting'
      BY <1>1, <1>8, <2>1 DEF Waiting
    <2>3. OneChange'
      BY <1>1, <1>3, <1>7, <1>8, <2>1, ConvAssumption DEF OneChange, ConvInv, Named
    <2>4. Agreeing'
      BY <1>1, <1>3, <1>8, <2>1 DEF Agreeing, Reached
    <2> QED BY <2>2, <2>3, <2>4
  <1> QED BY <1>9, <1>10, <1>11 DEF ConvInv

LEMMA ReactInv == ASSUME ConvInv, React PROVE ConvInv'
  <1> DEFINE n == counted.react + 1
             row == [mine EXCEPT !.reaction = n, !.react = ops + 1]
             settled == [row EXCEPT !["react"] = NoOp]
             count == [counted EXCEPT !.react = @ + 1]
  <1>1. /\ ~mine.deleted /\ Change("react", n, row, count)
        /\ UNCHANGED <<held, theirs, opened, seen, receipts, stopped, session, caps, knownSent>>
    BY DEF React
  <1>2. ~hasty' => ~hasty /\ Settled /\ held.at # "held"
    BY DEF React
  <1>3. /\ ops \in Nat /\ ops + 1 \in Nat /\ ops + 1 # Message /\ ops + 1 # NoOp
        /\ ops + 1 \notin seen \cup receipts \cup stopped
        /\ mine.edit # ops + 1 /\ mine.react # ops + 1 /\ mine.del # ops + 1
        /\ \A g \in frames : g.id \in 0..ops
    BY NewId
  <1>4. n \in Int /\ count \in ConvCounts /\ mine \in Row
    BY DEF ConvInv, ConvShape, ConvCounts
  <1>5. /\ row \in Row
        /\ row.text = mine.text /\ row.status = mine.status /\ row.deleted = mine.deleted
        /\ row.reaction = n /\ row.edit = mine.edit
        /\ row.react = ops + 1 /\ row.del = mine.del
    BY <1>4, ReactedRow
  <1> HIDE DEF n, row, count
  <1>6. /\ settled \in Row
        /\ settled.text = row.text /\ settled.status = row.status /\ settled.deleted = row.deleted
        /\ settled.reaction = row.reaction /\ settled.edit = row.edit
        /\ settled.react = NoOp /\ settled.del = row.del
    BY <1>5 DEF Row
  <1>7. /\ ops' = ops + 1 /\ counted' \in ConvCounts
        /\ missed \subseteq missed' /\ missed' \subseteq Missable
        /\ \E new : /\ frames' = frames \cup new
                    /\ \A f \in new :
                         /\ f \in ConvFrames /\ f.id = ops + 1 /\ f.session = session
                         /\ f.value = n /\ f.kind # "text"
                         /\ f.kind \in SentAs("react")
                         /\ f.kind \in {"react", "del"} => f.kind \in caps
        /\ \/ mine' = row /\ missed' = missed
           \/ mine' = mine /\ "own" \in missed'
           \/ mine' = settled /\ missed' = missed \cup {"react"} /\ frames' = frames
    <2>1. "react" \in Changes
      BY DEF Changes
    <2>2. Made("react", n, row, count)
      BY <1>1, <1>4, <1>5, <2>1, ChangeIs
    <2> QED BY <2>2 DEF Made
  <1> HIDE DEF settled
  <1>8. PICK new : /\ frames' = frames \cup new
                   /\ \A f \in new :
                        /\ f \in ConvFrames /\ f.id = ops + 1 /\ f.value = n /\ f.kind # "text"
                        /\ f.kind \in SentAs("react")
                        /\ f.kind \in {"react", "del"} => f.kind \in caps
    BY <1>7
  <1>9. /\ mine' \in Row /\ mine'.status = mine.status /\ mine'.deleted = mine.deleted
        /\ mine'.edit = mine.edit /\ mine'.react \in {mine.react, NoOp, ops + 1}
        /\ mine'.del = mine.del /\ mine'.text = mine.text
        /\ "own" \notin missed' =>
             /\ mine'.reaction = n
             /\ missed' \in {missed, missed \cup {"react"}}
             /\ \/ mine'.react = ops + 1
                \/ mine'.react = NoOp /\ "react" \in missed' /\ frames' = frames
    BY <1>4, <1>5, <1>6, <1>7
  <1>10. ConvShape' /\ Named' /\ Apart' /\ Stored' /\ ConfirmedChanges'
    <2>1. held' \in Held /\ held'.known = held.known /\ "react" \in Changes
      BY <1>1 DEF ConvInv, ConvShape, Changes
    <2> QED BY <1>1, <1>7, <1>8, <1>9, <2>1, ChangeKeeps
  <1>11. Deleting'
    <2>1. mine'.reaction = mine.reaction \/ ~mine'.deleted
      BY <1>1, <1>9
    <2> QED BY <1>1, <1>7, <1>9, <2>1 DEF ConvInv, Deleting, ConfirmedDeletionHolds, There
  <1>12. ASSUME Orderly' PROVE Waiting' /\ OneChange' /\ Agreeing'
    <2>1. /\ Waiting /\ OneChange /\ Agreeing /\ held.at = "released" /\ theirs.stored
          /\ mine.edit = NoOp /\ mine.react = NoOp /\ mine.del = NoOp
          /\ mine'.reaction = n /\ missed' \in {missed, missed \cup {"react"}}
          /\ \/ mine'.react = ops + 1
             \/ mine'.react = NoOp /\ "react" \in missed' /\ frames' = frames
      BY <1>1, <1>2, <1>7, <1>9, <1>12 DEF ConvInv, Orderly, Settled, Unsynced, Waiting
    <2>2. Waiting'
      BY <1>1, <1>9, <2>1 DEF Waiting
    <2>3. OneChange'
      <3>2. CASE mine'.react = ops + 1
        BY <1>1, <1>3, <1>8, <1>9, <2>1, <3>2, ConvAssumption DEF OneChange, ConvInv, Named
      <3>3. CASE mine'.react = NoOp /\ frames' = frames
        BY <1>1, <1>3, <1>9, <2>1, <3>3, ConvAssumption DEF OneChange, ConvInv, Named
      <3> QED BY <2>1, <3>2, <3>3
    <2>4. Agreeing'
      BY <1>1, <1>3, <1>9, <2>1 DEF Agreeing, Reached
    <2> QED BY <2>2, <2>3, <2>4
  <1> QED BY <1>10, <1>11, <1>12 DEF ConvInv

(* A tombstone has no other change than the deletion.                      *)
LEMMA DeleteInv == ASSUME ConvInv, Delete PROVE ConvInv'
  <1> DEFINE settled == [Tombstone EXCEPT !["del"] = NoOp]
  <1>1. /\ ~mine.deleted /\ Change("del", Gone, Tombstone, counted)
        /\ held' = [held EXCEPT !.at = Dropped]
        /\ stopped' = stopped \cup {Message}
        /\ UNCHANGED <<theirs, opened, seen, receipts, session, caps>>
    BY DEF Delete
  <1>2. ~hasty' => ~hasty /\ Settled /\ held.at # "held"
    BY DEF Delete
  <1>3. knownSent' => mine.status = "delivered"
    BY DEF Delete
  <1>4. /\ ops \in Nat /\ ops + 1 \in Nat /\ ops + 1 # Message /\ ops + 1 # NoOp
        /\ ops + 1 \notin seen \cup receipts \cup stopped
        /\ mine.edit # ops + 1 /\ mine.react # ops + 1 /\ mine.del # ops + 1
        /\ \A g \in frames : g.id \in 0..ops
        /\ NoOp \notin seen \cup receipts \cup stopped
    BY NewId
  <1>5. mine \in Row /\ counted \in ConvCounts /\ Gone \in Int
    BY DEF ConvInv, ConvShape, Gone
  <1>6. /\ Tombstone \in Row
        /\ Tombstone.text = Gone /\ Tombstone.status = mine.status /\ Tombstone.deleted
        /\ Tombstone.reaction = 0 /\ Tombstone.edit = NoOp /\ Tombstone.react = NoOp
        /\ Tombstone.del = ops + 1
    BY TombstoneRow
  <1>7. /\ settled \in Row
        /\ settled.text = Gone /\ settled.status = mine.status /\ settled.deleted
        /\ settled.reaction = 0 /\ settled.edit = NoOp /\ settled.react = NoOp
        /\ settled.del = NoOp
    BY <1>6 DEF Row
  <1>8. /\ ops' = ops + 1 /\ counted' \in ConvCounts
        /\ missed \subseteq missed' /\ missed' \subseteq Missable
        /\ \E new : /\ frames' = frames \cup new
                    /\ \A f \in new :
                         /\ f \in ConvFrames /\ f.id = ops + 1 /\ f.session = session
                         /\ f.value = Gone /\ f.kind # "text"
                         /\ f.kind \in SentAs("del")
                         /\ f.kind \in {"react", "del"} => f.kind \in caps
        /\ \/ mine' = Tombstone /\ missed' = missed
           \/ mine' = mine /\ "own" \in missed'
           \/ mine' = settled /\ missed' = missed \cup {"del"} /\ frames' = frames
    <2>1. "del" \in Changes
      BY DEF Changes
    <2>2. Made("del", Gone, Tombstone, counted)
      BY <1>1, <1>5, <1>6, <2>1, ChangeIs
    <2> QED BY <2>2 DEF Made
  <1> HIDE DEF settled
  <1>9. PICK new : /\ frames' = frames \cup new
                   /\ \A f \in new :
                        /\ f \in ConvFrames /\ f.id = ops + 1 /\ f.value = Gone /\ f.kind # "text"
                        /\ f.kind \in SentAs("del")
                        /\ f.kind \in {"react", "del"} => f.kind \in caps
    BY <1>8
  <1>10. /\ mine' \in Row /\ mine'.status = mine.status
         /\ \/ mine' = mine /\ "own" \in missed'
            \/ /\ mine'.text = Gone /\ mine'.deleted /\ mine'.reaction = 0
               /\ mine'.edit = NoOp /\ mine'.react = NoOp
               /\ \/ mine'.del = ops + 1 /\ missed' = missed
                  \/ mine'.del = NoOp /\ missed' = missed \cup {"del"} /\ frames' = frames
    BY <1>5, <1>6, <1>7, <1>8
  <1>11. /\ held' \in Held /\ held'.text = held.text /\ held'.known = held.known
         /\ Settled /\ held.at # "held" => held'.at = "released"
    BY <1>1 DEF ConvInv, ConvShape, Held, Dropped, Flushing, Settled
  <1>12. ConvShape' /\ Named' /\ Apart' /\ Stored' /\ ConfirmedChanges'
    <2>1. "del" \in Changes
      BY DEF Changes
    <2> QED BY <1>1, <1>8, <1>9, <1>10, <1>11, <2>1, ChangeKeeps
  <1>13. Deleting'
    <2>1. knownSent' => There
      BY <1>3 DEF ConvInv, Stored
    <2>2. CASE mine' = mine /\ "own" \in missed'
      BY <1>1, <1>8, <2>1, <2>2 DEF ConvInv, Deleting, ConfirmedDeletionHolds, There
    <2>3. CASE ~(mine' = mine /\ "own" \in missed')
      BY <1>1, <1>4, <1>8, <1>10, <2>1, <2>3 DEF ConvInv, Deleting, ConfirmedDeletionHolds, There
    <2> QED BY <2>2, <2>3
  <1>14. ASSUME Orderly' PROVE Waiting' /\ OneChange' /\ Agreeing'
    <2>1. /\ Waiting /\ OneChange /\ Agreeing /\ held'.at = "released" /\ theirs.stored
          /\ mine.edit = NoOp /\ mine.react = NoOp /\ mine.del = NoOp
      BY <1>1, <1>2, <1>8, <1>11, <1>14 DEF ConvInv, Orderly, Settled, Unsynced, Waiting
    <2>2. /\ mine'.text = Gone /\ mine'.deleted /\ mine'.reaction = 0
          /\ mine'.edit = NoOp /\ mine'.react = NoOp
          /\ \/ mine'.del = ops + 1 /\ missed' = missed
             \/ mine'.del = NoOp /\ missed' = missed \cup {"del"} /\ frames' = frames
      BY <1>10, <1>14 DEF Orderly
    <2>3. Waiting'
      BY <1>1, <1>11, <2>1, <2>2 DEF Waiting
    <2>4. OneChange'
      BY <1>1, <1>4, <1>9, <2>1, <2>2, ConvAssumption DEF OneChange, ConvInv, Named
    <2>5. Agreeing'
      BY <1>1, <1>4, <2>1, <2>2 DEF Agreeing, Reached
    <2> QED BY <2>3, <2>4, <2>5
  <1> QED BY <1>12, <1>13, <1>14 DEF ConvInv

(* What is sent again has the ids it had, and says how the row is now.     *)
LEMMA RebuiltAre ==
  ASSUME ConvInv, NEW s \in Nat, NEW f \in Rebuilt(s)
  PROVE  /\ f \in ConvFrames /\ f.session = s /\ f.id \in 1..ops /\ f.kind # "text"
         /\ f.kind \in {"react", "del"} => f.kind \in caps
         /\ \/ f.id = mine.edit /\ f.kind \in {"edit", "note"} /\ f.value = mine.text
            \/ f.id = mine.react /\ f.kind = "react" /\ f.value = mine.reaction
            \/ f.id = mine.del /\ f.kind = "del" /\ f.value = Gone
  <1>1. \/ mine.edit # NoOp /\ f \in Outgoing(Frame(mine.edit, s, "edit", mine.text))
        \/ mine.react # NoOp /\ f \in Outgoing(Frame(mine.react, s, "react", mine.reaction))
        \/ mine.del # NoOp /\ f \in Outgoing(Frame(mine.del, s, "del", Gone))
    BY DEF Rebuilt, Frame
  <1>2. mine.text \in Int /\ mine.reaction \in Int /\ Gone \in Int /\ ops \in Nat
    BY DEF ConvInv, ConvShape, Row, Gone
  <1>3. /\ mine.edit # NoOp => mine.edit \in 1..ops /\ mine.edit \in Nat
        /\ mine.react # NoOp => mine.react \in 1..ops /\ mine.react \in Nat
        /\ mine.del # NoOp => mine.del \in 1..ops /\ mine.del \in Nat
    BY <1>2 DEF ConvInv, Named
  <1>4. "edit" \in Changes /\ "react" \in Changes /\ "del" \in Changes
    BY DEF Changes
  <1>5. CASE mine.edit # NoOp /\ f \in Outgoing(Frame(mine.edit, s, "edit", mine.text))
    <2>1. /\ f \in ConvFrames /\ f.id = mine.edit /\ f.session = s /\ f.value = mine.text
          /\ f.kind # "text" /\ f.kind \in SentAs("edit")
          /\ f.kind \in {"react", "del"} => f.kind \in caps
      BY <1>2, <1>3, <1>4, <1>5, OutgoingIs
    <2> QED BY <1>3, <1>5, <2>1 DEF SentAs
  <1>6. CASE mine.react # NoOp /\ f \in Outgoing(Frame(mine.react, s, "react", mine.reaction))
    <2>1. /\ f \in ConvFrames /\ f.id = mine.react /\ f.session = s /\ f.value = mine.reaction
          /\ f.kind # "text" /\ f.kind \in SentAs("react")
          /\ f.kind \in {"react", "del"} => f.kind \in caps
      BY <1>2, <1>3, <1>4, <1>6, OutgoingIs
    <2> QED BY <1>3, <1>6, <2>1 DEF SentAs
  <1>7. CASE mine.del # NoOp /\ f \in Outgoing(Frame(mine.del, s, "del", Gone))
    <2>1. /\ f \in ConvFrames /\ f.id = mine.del /\ f.session = s /\ f.value = Gone
          /\ f.kind # "text" /\ f.kind \in SentAs("del")
          /\ f.kind \in {"react", "del"} => f.kind \in caps
      BY <1>2, <1>3, <1>4, <1>7, OutgoingIs
    <2> QED BY <1>3, <1>7, <2>1 DEF SentAs
  <1> QED BY <1>1, <1>5, <1>6, <1>7

LEMMA ResetInv == ASSUME ConvInv, Reset PROVE ConvInv'
  <1>1. /\ ~Flushing /\ session' = session + 1
        /\ \/ held.at \in {"held", "flushed"} /\ held' = [held EXCEPT !.at = "held"]
           \/ /\ held.at \notin {"held", "flushed"} /\ mine.status # "delivered" /\ ~mine.deleted
              /\ held' = [held EXCEPT !.at = "held", !.text = mine.text]
           \/ held' = held
        /\ frames' = frames \cup Rebuilt(session + 1)
        /\ mine' = [mine EXCEPT !.react = IF Pointless("react") THEN NoOp ELSE @,
                                !.del = IF Pointless("del") THEN NoOp ELSE @]
        /\ missed' = missed \cup {k \in {"react", "del"} : Pointless(k) /\ mine[k] # NoOp}
        /\ UNCHANGED <<theirs, opened, seen, receipts, stopped, caps, ops, counted, hasty, knownSent>>
    BY DEF Reset
  <1>2. session + 1 \in Nat /\ ops \in Nat /\ mine.text \in Int /\ mine \in Row
    BY DEF ConvInv, ConvShape, Row
  <1>3. \A f \in Rebuilt(session + 1) :
          /\ f \in ConvFrames /\ f.id \in 1..ops /\ f.kind # "text"
          /\ f.kind \in {"react", "del"} => f.kind \in caps
          /\ \/ f.id = mine.edit /\ f.kind \in {"edit", "note"} /\ f.value = mine.text
             \/ f.id = mine.react /\ f.kind = "react" /\ f.value = mine.reaction
             \/ f.id = mine.del /\ f.kind = "del" /\ f.value = Gone
    BY <1>2, RebuiltAre
  <1>4. held' \in Held /\ held'.known = held.known
    BY <1>1, <1>2 DEF ConvInv, ConvShape, Held
  <1>5. /\ mine' \in Row /\ mine'.text = mine.text /\ mine'.status = mine.status
        /\ mine'.deleted = mine.deleted /\ mine'.reaction = mine.reaction /\ mine'.edit = mine.edit
        /\ \/ mine'.react = mine.react
           \/ mine'.react = NoOp /\ "react" \notin caps /\ "react" \in missed'
        /\ \/ mine'.del = mine.del
           \/ mine'.del = NoOp /\ "del" \notin caps /\ "del" \in missed'
        /\ missed \subseteq missed' /\ missed' \subseteq missed \cup {"react", "del"}
        /\ "del" \in missed' => "del" \in missed \/ mine.del # NoOp
    BY <1>1, <1>2 DEF Row, Pointless
  <1>6. ConvShape'
    BY <1>1, <1>2, <1>3, <1>4, <1>5 DEF ConvInv, ConvShape, Missable
  <1>7. /\ mine.edit # mine.react \/ mine.edit = NoOp
        /\ mine.edit # mine.del \/ mine.edit = NoOp
        /\ mine.react # mine.del \/ mine.react = NoOp
    BY DEF ConvInv, Apart
  <1>8. \A f \in frames : f.id # NoOp
    BY ConvAssumption DEF ConvInv, ConvShape, ConvFrames
  <1>9. Named'
    <2>1. \A f \in Rebuilt(session + 1) :
            /\ f.id <= ops /\ f.id # Message /\ f.kind # "text" /\ f.id # NoOp
            /\ f.id = mine.edit => f.kind \in {"edit", "note"}
            /\ f.id = mine.react => f.kind = "react"
            /\ f.id = mine.del => f.kind = "del"
            /\ f.kind \in {"react", "del"} => f.kind \in caps
      <3> SUFFICES ASSUME NEW f \in Rebuilt(session + 1)
                   PROVE  /\ f.id <= ops /\ f.id # Message /\ f.kind # "text" /\ f.id # NoOp
                          /\ f.id = mine.edit => f.kind \in {"edit", "note"}
                          /\ f.id = mine.react => f.kind = "react"
                          /\ f.id = mine.del => f.kind = "del"
                          /\ f.kind \in {"react", "del"} => f.kind \in caps
        OBVIOUS
      <3>1. f.id \in 1..ops /\ f.id # NoOp
        BY <1>3, ConvAssumption
      <3> QED BY <1>2, <1>3, <1>7, <3>1 DEF Message
    <2>2. {mine'.edit, mine'.react, mine'.del} \subseteq {mine.edit, mine.react, mine.del, NoOp}
      BY <1>5
    <2> QED BY <1>1, <1>5, <1>8, <2>1, <2>2 DEF ConvInv, Named
  <1>10. Stored'
    <2>1. \A f \in Rebuilt(session + 1) : f.id # Message
      BY <1>2, <1>3 DEF Message
    <2> QED BY <1>1, <1>4, <1>5, <2>1 DEF ConvInv, Stored, There
  <1>11. ConfirmedChanges'
    <2>1. \A f \in Rebuilt(session + 1) : f.id \notin stopped
      BY <1>3 DEF ConvInv, ConfirmedChanges
    <2>2. NoOp \notin stopped
      BY NewId
    <2> QED BY <1>1, <1>5, <2>1, <2>2 DEF ConvInv, ConfirmedChanges
  <1>12. Apart'
    BY <1>5 DEF ConvInv, Apart
  <1>13. Deleting'
    <2>1. NoOp \notin seen \cup receipts
      BY NewId
    <2> QED BY <1>1, <1>5, <2>1 DEF ConvInv, Deleting, ConfirmedDeletionHolds, There
  <1>14. ASSUME Orderly' PROVE Waiting' /\ OneChange' /\ Agreeing'
    <2>1. Waiting /\ OneChange /\ Agreeing
      BY <1>1, <1>5, <1>14 DEF ConvInv, Orderly
    <2>2. held.at # "flushing" /\ held.at # "dropped" /\ held.at \in {"held", "flushed", "released"}
      BY <1>1 DEF ConvInv, ConvShape, Held, Flushing
    <2>3. \/ held'.at = "held" /\ held'.text = mine.text /\ ~mine.deleted
          \/ held' = held
      <3>1. CASE held.at \in {"held", "flushed"} /\ held' = [held EXCEPT !.at = "held"]
        BY <2>1, <3>1 DEF ConvInv, ConvShape, Held, Waiting
      <3>2. CASE ~mine.deleted /\ held' = [held EXCEPT !.at = "held", !.text = mine.text]
        BY <3>2 DEF ConvInv, ConvShape, Held
      <3> QED BY <1>1, <3>1, <3>2
    <2>4. ~theirs.stored => Rebuilt(session + 1) = {}
      BY <1>3, <2>1 DEF Waiting
    <2>5. Waiting'
      BY <1>1, <1>5, <2>1, <2>3, <2>4 DEF Waiting
    <2>6. \A f \in Rebuilt(session + 1) :
            /\ f.id # NoOp
            /\ f.id = mine.edit => f.value = mine.text
            /\ f.id = mine.react => f.value = mine.reaction
      <3> SUFFICES ASSUME NEW f \in Rebuilt(session + 1)
                   PROVE  /\ f.id # NoOp
                          /\ f.id = mine.edit => f.value = mine.text
                          /\ f.id = mine.react => f.value = mine.reaction
        OBVIOUS
      <3>1. f.id # NoOp
        BY <1>3, ConvAssumption
      <3> QED BY <1>3, <1>7, <3>1
    <2>7. \A f \in frames \cup Rebuilt(session + 1) :
            f.id # Message /\ f.id \notin stopped => f.id \in {mine'.edit, mine'.react, mine'.del}
      <3> SUFFICES ASSUME NEW f \in frames \cup Rebuilt(session + 1),
                          f.id # Message, f.id \notin stopped
                   PROVE  f.id \in {mine'.edit, mine'.react, mine'.del}
        OBVIOUS
      <3>1. f.id \in {mine.edit, mine.react, mine.del}
        BY <1>3, <2>1 DEF OneChange
      <3>2. /\ f.id = mine.react => "react" \in caps
            /\ f.id = mine.del => "del" \in caps
        <4>1. CASE f \in frames
          BY <4>1 DEF ConvInv, Named
        <4>2. CASE f \in Rebuilt(session + 1)
          <5>1. f.id # NoOp
            BY <2>6, <4>2
          <5> QED BY <1>3, <1>7, <4>2, <5>1
        <4> QED BY <4>1, <4>2
      <3> QED BY <1>5, <3>1, <3>2
    <2>8. OneChange'
      BY <1>1, <1>5, <1>8, <2>1, <2>6, <2>7 DEF OneChange
    <2>9. Agreeing'
      <3>1. mine.del # NoOp => mine.deleted
        BY DEF ConvInv, Deleting
      <3> QED BY <1>1, <1>5, <2>1, <3>1 DEF Agreeing, Reached
    <2> QED BY <2>5, <2>8, <2>9
  <1> QED BY <1>6, <1>9, <1>10, <1>11, <1>12, <1>13, <1>14 DEF ConvInv

(* What is acknowledged has been opened by the peer.                       *)
LEMMA GetReceiptInv == ASSUME ConvInv, NEW id \in 0..ops, GetReceipt(id) PROVE ConvInv'
  <1>1. /\ id \in receipts /\ id \notin stopped /\ stopped' = stopped \cup {id}
        /\ \/ id = Message /\ mine' = [mine EXCEPT !.status = "delivered"]
           \/ /\ id # Message
              /\ mine' = [mine EXCEPT !.edit = IF @ = id THEN NoOp ELSE @,
                                      !.react = IF @ = id THEN NoOp ELSE @,
                                      !.del = IF @ = id THEN NoOp ELSE @]
        /\ held' = IF id = Message THEN [held EXCEPT !.at = Dropped] ELSE held
        /\ UNCHANGED <<theirs, frames, opened, seen, receipts, session, caps, ops, counted, hasty,
                       knownSent, missed>>
    BY DEF GetReceipt
  <1>2. mine \in Row
    BY DEF ConvInv, ConvShape
  <1>3. id # NoOp /\ Message # NoOp /\ mine.edit # Message /\ mine.react # Message /\ mine.del # Message
    BY ConvAssumption DEF ConvInv, Named, Message
  <1>4. /\ mine' \in Row /\ mine'.text = mine.text /\ mine'.deleted = mine.deleted
        /\ mine'.reaction = mine.reaction
        /\ id # Message => mine'.status = mine.status
        /\ mine'.edit = IF mine.edit = id THEN NoOp ELSE mine.edit
        /\ mine'.react = IF mine.react = id THEN NoOp ELSE mine.react
        /\ mine'.del = IF mine.del = id THEN NoOp ELSE mine.del
    <2>1. CASE id = Message
      BY <1>1, <1>2, <1>3, <2>1 DEF Row
    <2>2. CASE id # Message
      BY <1>1, <1>2, <2>2 DEF Row
    <2> QED BY <2>1, <2>2
  <1>5. /\ held' \in Held /\ held'.known = held.known /\ held'.text = held.text /\ held'.taken = held.taken
        /\ id # Message => held' = held
        /\ id = Message => held'.at \in {"dropped", "released"}
        /\ held'.at = "dropped" => held.at \in {"flushing", "dropped"}
    BY <1>1 DEF ConvInv, ConvShape, Held, Dropped, Flushing
  <1>6. ConvShape'
    BY <1>1, <1>4, <1>5 DEF ConvInv, ConvShape
  <1>7. Named'
    BY <1>1, <1>3, <1>4, ConvAssumption DEF ConvInv, ConvShape, Named, ConvFrames
  <1>8. Stored'
    BY <1>1, <1>4, <1>5 DEF ConvInv, Stored, There
  <1>9. ConfirmedChanges'
    <2>1. NoOp \notin stopped'
      BY <1>1, <1>3, NewId
    <2>2. id # Message => id \in seen
      BY <1>1 DEF ConvInv, ConfirmedChanges
    <2> QED BY <1>1, <1>4, <2>1, <2>2 DEF ConvInv, ConfirmedChanges
  <1>10. Apart'
    BY <1>4 DEF ConvInv, Apart
  <1>11. Deleting'
    <2>1. theirs.deleted => theirs.text = Gone
      BY DEF ConvInv, Stored
    <2>2. NoOp \notin seen \cup receipts
      BY NewId
    <2> QED BY <1>1, <1>4, <2>1, <2>2 DEF ConvInv, Deleting, ConfirmedDeletionHolds, There
  <1>12. ASSUME Orderly' PROVE Waiting' /\ OneChange' /\ Agreeing'
    <2>1. Waiting /\ OneChange /\ Agreeing /\ "text" \notin missed
      BY <1>1, <1>12 DEF ConvInv, Orderly
    <2>2. Message \in receipts => theirs.stored
      BY <2>1 DEF ConvInv, Stored, There
    <2>3. Waiting'
      BY <1>1, <1>4, <1>5, <2>1, <2>2 DEF Waiting
    <2>4. \A f \in frames : f.id # NoOp
      BY ConvAssumption DEF ConvInv, ConvShape, ConvFrames
    <2>5. OneChange'
      BY <1>1, <1>4, <2>1, <2>4 DEF OneChange
    <2>6. Agreeing'
      <3>1. /\ Reached(mine.edit)' => Reached(mine.edit)
            /\ Reached(mine.react)' => Reached(mine.react)
            /\ Reached(mine.del)' => Reached(mine.del)
        BY <1>1, <1>4 DEF Reached
      <3> QED BY <1>1, <1>4, <2>1, <3>1 DEF Agreeing
    <2> QED BY <2>3, <2>5, <2>6
  <1> QED BY <1>6, <1>7, <1>8, <1>9, <1>10, <1>11, <1>12 DEF ConvInv

(* Something known is acknowledged again.                                  *)
LEMMA AckAgainInv == ASSUME ConvInv, NEW f \in frames, AckAgain(f) PROVE ConvInv'
  <1>1. /\ f.id \in seen \/ (f.id = Message /\ theirs.stored)
        /\ receipts' = receipts \cup {f.id} /\ seen' = seen \cup {f.id}
        /\ UNCHANGED <<mine, held, theirs, frames, opened, stopped, session, caps, ops, counted, hasty,
                       knownSent, missed>>
    BY DEF AckAgain, Known
  <1>2. ConvShape' /\ Apart'
    BY <1>1 DEF ConvInv, ConvShape, Apart
  <1>3. Named'
    BY <1>1 DEF ConvInv, ConvShape, Named, ConvFrames
  <1>4. Stored' /\ ConfirmedChanges'
    BY <1>1 DEF ConvInv, Stored, ConfirmedChanges, There
  <1>5. mine.edit # Message /\ mine.react # Message /\ mine.del # Message
    BY ConvAssumption DEF ConvInv, Named, Message
  <1>6. Deleting'
    BY <1>1, <1>5 DEF ConvInv, Deleting, ConfirmedDeletionHolds, There
  <1>7. Orderly' => Waiting' /\ OneChange' /\ Agreeing'
    BY <1>1, <1>5 DEF ConvInv, Orderly, Waiting, OneChange, Agreeing, Reached
  <1> QED BY <1>2, <1>3, <1>4, <1>6, <1>7 DEF ConvInv

(* What a frame does to the peer's row.                                    *)
LEMMA ChangedIs ==
  ASSUME ConvInv, NEW f \in frames
  PROVE  /\ f.kind = "text" => Changed(f) = [theirs EXCEPT !.stored = TRUE, !.text = f.value]
         /\ f.kind # "text" /\ (~theirs.stored \/ theirs.deleted \/ f.kind = "note") => Changed(f) = theirs
         /\ f.kind = "edit" /\ theirs.stored /\ ~theirs.deleted =>
              Changed(f) = [theirs EXCEPT !.text = f.value]
         /\ f.kind = "react" /\ theirs.stored /\ ~theirs.deleted =>
              Changed(f) = [theirs EXCEPT !.reaction = f.value]
         /\ f.kind = "del" /\ theirs.stored /\ ~theirs.deleted =>
              Changed(f) = [theirs EXCEPT !.text = Gone, !.deleted = TRUE, !.reaction = 0]
         /\ f.kind \in Kinds /\ f.value \in Int /\ f.id \in Nat
  <1>1. f.kind \in {"text", "edit", "note", "react", "del"} /\ f.value \in Int /\ f.id \in Nat
    BY DEF ConvInv, ConvShape, Kinds, ConvFrames
  <1>2. CASE f.kind = "text"
    BY <1>1, <1>2 DEF Changed, Kinds
  <1>3. CASE f.kind # "text" /\ (~theirs.stored \/ theirs.deleted \/ f.kind = "note")
    BY <1>1, <1>3 DEF Changed, Kinds
  <1>4. CASE f.kind = "edit" /\ theirs.stored /\ ~theirs.deleted
    BY <1>1, <1>4 DEF Changed, Kinds
  <1>5. CASE f.kind = "react" /\ theirs.stored /\ ~theirs.deleted
    BY <1>1, <1>5 DEF Changed, Kinds
  <1>6. CASE f.kind = "del" /\ theirs.stored /\ ~theirs.deleted
    BY <1>1, <1>6 DEF Changed, Kinds
  <1> QED BY <1>1, <1>2, <1>3, <1>4, <1>5, <1>6

(* The fields of a changed row.                                            *)
LEMMA ChangedFields ==
  ASSUME ConvInv, NEW f \in frames, NEW row, row = Changed(f)
  PROVE  /\ row \in Copy
         /\ f.kind = "text" =>
              row.stored /\ row.text = f.value /\ row.deleted = theirs.deleted /\ row.reaction = theirs.reaction
         /\ f.kind # "text" => row.stored = theirs.stored
         /\ f.kind # "text" /\ (~theirs.stored \/ theirs.deleted \/ f.kind = "note") => row = theirs
         /\ f.kind = "edit" /\ theirs.stored /\ ~theirs.deleted =>
              row.text = f.value /\ row.deleted = theirs.deleted /\ row.reaction = theirs.reaction
         /\ f.kind = "react" /\ theirs.stored /\ ~theirs.deleted =>
              row.text = theirs.text /\ row.deleted = theirs.deleted /\ row.reaction = f.value
         /\ f.kind = "del" /\ theirs.stored /\ ~theirs.deleted =>
              row.text = Gone /\ row.deleted /\ row.reaction = 0
  <1>1. theirs \in Copy /\ f.kind \in Kinds /\ f.value \in Int /\ Gone \in Int /\ 0 \in Int
    <2>1. theirs \in Copy /\ f.kind \in Kinds /\ f.value \in Int
      BY ChangedIs DEF ConvInv, ConvShape
    <2> QED BY <2>1 DEF Gone
  <1>2. CASE f.kind = "text"
    <2>1. row = [theirs EXCEPT !.stored = TRUE, !.text = f.value]
      BY <1>2, ChangedIs
    <2>2. row = [stored |-> TRUE, text |-> f.value, deleted |-> theirs.deleted, reaction |-> theirs.reaction]
      BY <1>1, <2>1 DEF Copy
    <2>3. theirs.deleted \in BOOLEAN /\ theirs.reaction \in Int
      BY <1>1 DEF Copy
    <2>4. row \in Copy
      BY <1>1, <2>2, <2>3 DEF Copy
    <2> QED BY <1>2, <2>2, <2>4
  <1>3. CASE f.kind # "text" /\ (~theirs.stored \/ theirs.deleted \/ f.kind = "note")
    <2>1. row = theirs
      BY <1>3, ChangedIs
    <2> QED BY <1>1, <1>3, <2>1
  <1>4. CASE f.kind = "edit" /\ theirs.stored /\ ~theirs.deleted
    <2>1. row = [theirs EXCEPT !.text = f.value]
      BY <1>4, ChangedIs
    <2> QED BY <1>1, <1>4, <2>1 DEF Copy
  <1>5. CASE f.kind = "react" /\ theirs.stored /\ ~theirs.deleted
    <2>1. row = [theirs EXCEPT !.reaction = f.value]
      BY <1>5, ChangedIs
    <2> QED BY <1>1, <1>5, <2>1 DEF Copy
  <1>6. CASE f.kind = "del" /\ theirs.stored /\ ~theirs.deleted
    <2>1. row = [theirs EXCEPT !.text = Gone, !.deleted = TRUE, !.reaction = 0]
      BY <1>6, ChangedIs
    <2>2. row = [stored |-> theirs.stored, text |-> Gone, deleted |-> TRUE, reaction |-> 0]
      BY <1>1, <2>1 DEF Copy
    <2>3. theirs.stored \in BOOLEAN
      BY <1>1 DEF Copy
    <2>4. row \in Copy
      BY <1>1, <2>2, <2>3 DEF Copy
    <2> QED BY <1>6, <2>2, <2>4
  <1> QED BY <1>1, <1>2, <1>3, <1>4, <1>5, <1>6 DEF Kinds

(* A frame that can be opened: the message itself, or a change that waits  *)
(* for its receipt.                                                        *)
LEMMA OpenedIs ==
  ASSUME ConvInv, NEW f \in frames, Opens(f)
  PROVE  /\ f.id \notin seen /\ ~(f.id = Message /\ theirs.stored)
         /\ UNCHANGED <<mine, held, frames, stopped, session, caps, ops, hasty, knownSent>>
         /\ f.kind \in Kinds /\ f.id \in 0..ops /\ f.id # NoOp /\ (f.kind = "text" <=> f.id = Message)
         /\ f.id = mine.edit => f.kind \in {"edit", "note"}
         /\ f.id = mine.react => f.kind = "react"
         /\ f.id = mine.del => f.kind = "del"
         /\ mine.edit # Message /\ mine.react # Message /\ mine.del # Message
         /\ Orderly => \/ ~theirs.stored /\ f.kind = "text"
                       \/ theirs.stored /\ f.kind # "text" /\ f.id \in {mine.edit, mine.react, mine.del}
  <1>1. /\ f.id \notin seen /\ ~(f.id = Message /\ theirs.stored)
        /\ UNCHANGED <<mine, held, frames, stopped, session, caps, ops, hasty, knownSent>>
    BY DEF Opens, Known
  <1>2. /\ f.kind \in Kinds /\ f.id \in 0..ops /\ f.id # NoOp /\ (f.kind = "text" <=> f.id = Message)
        /\ f.id = mine.edit => f.kind \in {"edit", "note"}
        /\ f.id = mine.react => f.kind = "react"
        /\ f.id = mine.del => f.kind = "del"
    BY ConvAssumption DEF ConvInv, ConvShape, Named, ConvFrames
  <1>3. mine.edit # Message /\ mine.react # Message /\ mine.del # Message
    BY ConvAssumption DEF ConvInv, Named, Message
  <1>4. ASSUME Orderly, ~theirs.stored PROVE f.kind = "text"
    BY <1>2, <1>4 DEF ConvInv, Waiting, Message
  <1>5. ASSUME Orderly, theirs.stored
        PROVE  f.kind # "text" /\ f.id \in {mine.edit, mine.react, mine.del}
    <2>1. f.id # Message /\ f.id \notin stopped
      BY <1>1, <1>5 DEF ConvInv, ConfirmedChanges
    <2> QED BY <1>2, <1>5, <2>1 DEF ConvInv, OneChange
  <1>6. theirs.stored \in BOOLEAN
    BY DEF ConvInv, ConvShape, Copy
  <1> QED BY <1>1, <1>2, <1>3, <1>4, <1>5, <1>6

(* The peer opens the message itself, or the change that waits for its     *)
(* receipt: anything older it would know, or it is no longer on its way.   *)
LEMMA OpenInv == ASSUME ConvInv, NEW f \in frames, Open(f) PROVE ConvInv'
  <1>1. /\ Opens(f)
        /\ seen' = seen \cup {f.id} /\ receipts' = receipts \cup {f.id}
        /\ theirs' = Changed(f) /\ counted' = counted
        /\ missed' = IF f.kind = "note" THEN missed \cup {"edit"}
                     ELSE IF theirs.stored /\ ~theirs.deleted THEN missed \ {f.kind} ELSE missed
    BY DEF Open, Acknowledged
  <1>2. /\ theirs' \in Copy
        /\ f.kind = "text" =>
             theirs'.stored /\ theirs'.text = f.value /\ theirs'.deleted = theirs.deleted
               /\ theirs'.reaction = theirs.reaction
        /\ f.kind # "text" => theirs'.stored = theirs.stored
        /\ f.kind # "text" /\ (~theirs.stored \/ theirs.deleted \/ f.kind = "note") => theirs' = theirs
        /\ f.kind = "edit" /\ theirs.stored /\ ~theirs.deleted =>
             theirs'.text = f.value /\ theirs'.deleted = theirs.deleted /\ theirs'.reaction = theirs.reaction
        /\ f.kind = "react" /\ theirs.stored /\ ~theirs.deleted =>
             theirs'.text = theirs.text /\ theirs'.deleted = theirs.deleted /\ theirs'.reaction = f.value
        /\ f.kind = "del" /\ theirs.stored /\ ~theirs.deleted =>
             theirs'.text = Gone /\ theirs'.deleted /\ theirs'.reaction = 0
    BY <1>1, ChangedFields
  <1>3. /\ f.id \notin seen /\ ~(f.id = Message /\ theirs.stored)
        /\ UNCHANGED <<mine, held, frames, stopped, session, caps, ops, hasty, knownSent>>
        /\ f.kind \in Kinds /\ f.id \in 0..ops /\ f.id # NoOp /\ (f.kind = "text" <=> f.id = Message)
        /\ f.id = mine.edit => f.kind \in {"edit", "note"}
        /\ f.id = mine.react => f.kind = "react"
        /\ f.id = mine.del => f.kind = "del"
        /\ mine.edit # Message /\ mine.react # Message /\ mine.del # Message
        /\ Orderly => \/ ~theirs.stored /\ f.kind = "text"
                      \/ theirs.stored /\ f.kind # "text" /\ f.id \in {mine.edit, mine.react, mine.del}
    BY <1>1, OpenedIs
  <1>4. /\ missed' \subseteq missed \cup {"edit"}
        /\ \A k \in missed : k \in missed' \/ (k = f.kind /\ theirs.stored /\ ~theirs.deleted)
    BY <1>1
  <1>5. f.kind = "text" => ~theirs.stored /\ ~theirs.deleted
    BY <1>3 DEF ConvInv, Stored
  <1>6. /\ "text" \in missed' <=> "text" \in missed
        /\ "own" \in missed' <=> "own" \in missed
        /\ "del" \in missed' => "del" \in missed
        /\ "del" \in missed => "del" \in missed' \/ theirs'.deleted
    BY <1>1, <1>2, <1>3, <1>4, <1>5 DEF Kinds
  <1>7. missed' \subseteq Missable
    BY <1>4 DEF ConvInv, ConvShape, Missable
  <1>8. ConvShape' /\ Named' /\ Apart' /\ ConfirmedChanges'
    BY <1>1, <1>2, <1>3, <1>7 DEF ConvInv, ConvShape, Named, Apart, ConfirmedChanges
  <1>9. theirs.stored => theirs'.stored
    BY <1>2
  <1>10. theirs.deleted => theirs' = theirs
    BY <1>2, <1>5
  <1>11. Stored'
    <2>1. f.id = Message => theirs'.stored /\ held.known
      BY <1>2, <1>3 DEF ConvInv, Stored
    <2>2. theirs'.deleted => theirs'.stored /\ theirs'.text = Gone /\ theirs'.reaction = 0
      BY <1>2, <1>3, <1>5, <1>10 DEF ConvInv, Stored, Kinds
    <2>3. ~theirs'.stored => theirs' = theirs
      BY <1>2
    <2>4. theirs'.stored => theirs.stored \/ f.id = Message
      BY <1>2, <1>3
    <2>5. There => There'
      BY <1>6, <1>9 DEF There
    <2> QED BY <1>1, <1>3, <1>9, <2>1, <2>2, <2>3, <2>4, <2>5 DEF ConvInv, Stored, There
  <1>12. f.id = mine.del /\ theirs.stored => theirs'.deleted
    BY <1>2, <1>3
  <1>13. Deleting'
    <2>1. There => There'
      BY <1>6, <1>9 DEF There
    <2>2. theirs'.deleted => theirs'.text = Gone
      BY <1>11 DEF Stored
    <2> QED BY <1>1, <1>3, <1>6, <1>9, <1>10, <1>12, <2>1, <2>2
            DEF ConvInv, Deleting, ConfirmedDeletionHolds, There
  <1>14. ASSUME Orderly' PROVE Waiting' /\ OneChange' /\ Agreeing'
    <2>1. Orderly /\ Waiting /\ OneChange /\ Agreeing
      BY <1>3, <1>6, <1>14 DEF ConvInv, Orderly
    <2>2. Waiting'
      BY <1>3, <1>9, <2>1 DEF Waiting
    <2>3. OneChange'
      BY <1>3, <2>1 DEF OneChange
    <2>4. CASE ~theirs.stored
      <3>1. /\ ops = 0 /\ mine.reaction = 0 /\ f.value = mine.text /\ f.kind = "text"
            /\ mine.edit = NoOp /\ mine.react = NoOp /\ mine.del = NoOp
        BY <1>3, <2>1, <2>4 DEF Waiting, ConvInv, Named
      <3>2. ~mine.deleted /\ ~theirs.deleted /\ theirs.reaction = 0
        BY <2>1, <2>4 DEF Waiting, ConvInv, Stored
      <3> QED BY <1>1, <1>2, <1>3, <1>6, <2>1, <2>2, <2>3, <3>1, <3>2 DEF Agreeing
    <2>5. CASE theirs.stored
      <3>1. f.kind # "text" /\ f.id \in {mine.edit, mine.react, mine.del}
        BY <1>3, <2>1, <2>5
      <3>2. CASE f.id = mine.edit
        <4>1. /\ mine.edit # NoOp /\ mine.react = NoOp /\ mine.del = NoOp /\ f.value = mine.text
              /\ f.kind \in {"edit", "note"} /\ ~mine.deleted
          BY <1>3, <2>1, <3>2 DEF OneChange, ConvInv, Deleting
        <4>2. /\ ~theirs.deleted /\ "del" \notin missed
              /\ theirs.reaction = mine.reaction \/ "react" \in missed
          BY <2>1, <2>5, <4>1 DEF Agreeing, Reached
        <4>3. CASE f.kind = "edit"
          BY <1>1, <1>2, <1>3, <1>6, <2>2, <2>3, <2>5, <4>1, <4>2, <4>3 DEF Agreeing
        <4>4. CASE f.kind = "note"
          BY <1>1, <1>2, <1>3, <1>6, <2>2, <2>3, <2>5, <4>1, <4>2, <4>4 DEF Agreeing
        <4> QED BY <4>1, <4>3, <4>4
      <3>3. CASE f.id = mine.react
        <4>1. /\ mine.edit = NoOp /\ mine.react # NoOp /\ mine.del = NoOp /\ f.value = mine.reaction
              /\ f.kind = "react" /\ ~mine.deleted
          BY <1>3, <2>1, <3>3 DEF OneChange, ConvInv, Deleting
        <4>2. /\ ~theirs.deleted /\ "del" \notin missed
              /\ theirs.text = mine.text \/ "edit" \in missed
          BY <2>1, <2>5, <4>1 DEF Agreeing, Reached
        <4> QED BY <1>1, <1>2, <1>3, <1>6, <2>2, <2>3, <2>5, <4>1, <4>2 DEF Agreeing
      <3>4. CASE f.id = mine.del
        <4>1. mine.del # NoOp /\ mine.deleted
          BY <1>3, <3>4 DEF ConvInv, Deleting
        <4> QED BY <1>3, <1>12, <2>2, <2>3, <2>5, <3>4, <4>1 DEF Agreeing
      <3> QED BY <3>1, <3>2, <3>3, <3>4
    <2> QED BY <2>4, <2>5
  <1> QED BY <1>8, <1>11, <1>13, <1>14 DEF ConvInv

(* What is acknowledged without being stored is missed.                    *)
LEMMA MissedInv ==
  ASSUME ConvInv, NEW f \in frames, Opens(f), Acknowledged(f), counted' \in ConvCounts,
         missed' = missed \cup {Missing(f)}, UNCHANGED theirs
  PROVE  ConvInv'
  <1>1. seen' = seen \cup {f.id} /\ receipts' = receipts \cup {f.id}
    BY DEF Acknowledged
  <1>2. /\ f.id \notin seen /\ ~(f.id = Message /\ theirs.stored)
        /\ UNCHANGED <<mine, held, frames, stopped, session, caps, ops, hasty, knownSent>>
        /\ f.kind \in Kinds /\ f.id \in 0..ops /\ f.id # NoOp /\ (f.kind = "text" <=> f.id = Message)
        /\ f.id = mine.edit => f.kind \in {"edit", "note"}
        /\ f.id = mine.react => f.kind = "react"
        /\ f.id = mine.del => f.kind = "del"
        /\ mine.edit # Message /\ mine.react # Message /\ mine.del # Message
        /\ Orderly => \/ ~theirs.stored /\ f.kind = "text"
                      \/ theirs.stored /\ f.kind # "text" /\ f.id \in {mine.edit, mine.react, mine.del}
    BY OpenedIs
  <1>3. /\ f.kind = "text" => "text" \in missed'
        /\ f.kind \in {"edit", "note"} => missed' = missed \cup {"edit"}
        /\ f.kind = "react" => missed' = missed \cup {"react"}
        /\ f.kind = "del" => missed' = missed \cup {"del"}
        /\ missed \subseteq missed' /\ missed' \subseteq Missable
    BY <1>2 DEF Missing, Kinds, ConvInv, ConvShape, Missable
  <1>4. ConvShape' /\ Named' /\ Apart' /\ ConfirmedChanges'
    BY <1>1, <1>2, <1>3 DEF ConvInv, ConvShape, Named, Apart, ConfirmedChanges
  <1>5. Stored'
    BY <1>1, <1>2, <1>3 DEF ConvInv, Stored, There
  <1>6. Deleting'
    BY <1>1, <1>2, <1>3 DEF ConvInv, Deleting, ConfirmedDeletionHolds, There
  <1>7. ASSUME Orderly' PROVE Waiting' /\ OneChange' /\ Agreeing'
    <2>1. Orderly /\ Waiting /\ OneChange /\ Agreeing /\ f.kind # "text" /\ theirs.stored
          /\ f.id \in {mine.edit, mine.react, mine.del}
      BY <1>2, <1>3, <1>7 DEF ConvInv, Orderly
    <2>2. Waiting' /\ OneChange'
      BY <1>2, <2>1 DEF Waiting, OneChange
    <2>3. f.kind = "del" => mine.deleted
      BY <1>2, <2>1 DEF ConvInv, Deleting
    <2>4. f.kind \in {"edit", "note", "react", "del"}
      BY <1>2, <2>1 DEF Kinds
    <2>5. Agreeing'
      <3>1. /\ Reached(mine.edit)' => Reached(mine.edit) \/ f.id = mine.edit
            /\ Reached(mine.react)' => Reached(mine.react) \/ f.id = mine.react
            /\ Reached(mine.del)' => Reached(mine.del) \/ f.id = mine.del
        BY <1>1, <1>2 DEF Reached
      <3> QED BY <1>1, <1>2, <1>3, <2>1, <2>3, <2>4, <3>1 DEF Agreeing
    <2> QED BY <2>2, <2>5
  <1> QED BY <1>4, <1>5, <1>6, <1>7 DEF ConvInv

LEMMA OpenUnstoredInv ==
  ASSUME ConvInv, NEW f \in frames, OpenBlocked(f) \/ OpenFails(f) PROVE ConvInv'
  <1>1. counted \in ConvCounts
    BY DEF ConvInv, ConvShape
  <1>2. CASE OpenBlocked(f)
    BY <1>1, <1>2, MissedInv DEF OpenBlocked
  <1>3. CASE OpenFails(f)
    <2>1. counted' \in ConvCounts
      BY <1>1, <1>3 DEF OpenFails, ConvCounts
    <2>2. Missing(f) = f.kind
      BY <1>3 DEF OpenFails, Missing
    <2> QED BY <1>3, <2>1, <2>2, MissedInv DEF OpenFails
  <1> QED BY <1>2, <1>3

(* What the peer forgets is not on its way any more, if it was confirmed.  *)
LEMMA ForgetSeenInv == ASSUME ConvInv, ForgetSeen PROVE ConvInv'
  <1>1. /\ counted' = [counted EXCEPT !.setback = @ + 1] /\ seen' = {}
        /\ frames' = {f \in frames : f.id \notin stopped}
        /\ receipts' = receipts \cap stopped
        /\ UNCHANGED <<mine, held, theirs, stopped, session, caps, ops, hasty, knownSent, missed>>
    BY DEF ForgetSeen
  <1>2. counted' \in ConvCounts
    BY <1>1 DEF ConvInv, ConvShape, ConvCounts
  <1>3. ConvShape' /\ Named' /\ Apart'
    BY <1>1, <1>2 DEF ConvInv, ConvShape, Named, Apart
  <1>4. Stored' /\ ConfirmedChanges'
    BY <1>1 DEF ConvInv, Stored, ConfirmedChanges, There
  <1>5. Deleting'
    BY <1>1 DEF ConvInv, Deleting, ConfirmedDeletionHolds, There
  <1>6. Orderly' => Waiting' /\ OneChange' /\ Agreeing'
    BY <1>1 DEF ConvInv, Orderly, Waiting, OneChange, Agreeing, Reached
  <1> QED BY <1>3, <1>4, <1>5, <1>6 DEF ConvInv

LEMMA ConvNextInv == ASSUME ConvInv, [ConvNext]_convVars PROVE ConvInv'
  <1>1. CASE UNCHANGED convVars
    <2>1. /\ ConvShape' /\ Named' /\ Apart' /\ Stored' /\ ConfirmedChanges' /\ Deleting'
      BY <1>1 DEF convVars, ConvInv, ConvShape, Named, Apart, Stored, ConfirmedChanges, Deleting,
                  ConfirmedDeletionHolds, There
    <2>2. Orderly' => Waiting' /\ OneChange' /\ Agreeing'
      BY <1>1 DEF convVars, ConvInv, Orderly, Waiting, OneChange, Agreeing, Reached
    <2> QED BY <2>1, <2>2 DEF ConvInv
  <1>2. CASE TakeHeld \/ FlushHeld \/ EditHeld \/ Edit \/ React \/ Delete \/ Reset \/ ForgetSeen
    BY <1>2, TakeHeldInv, FlushHeldInv, EditHeldInv, EditInv, ReactInv, DeleteInv, ResetInv, ForgetSeenInv
  <1>3. CASE Block \/ Unblock \/ \E build \in Builds : Learn(build)
    BY <1>3, AsideInv
  <1>4. ASSUME NEW id \in 0..ops, GetReceipt(id) PROVE ConvInv'
    BY <1>4, GetReceiptInv
  <1>5. ASSUME NEW f \in frames, AckAgain(f) \/ Open(f) \/ OpenBlocked(f) \/ OpenFails(f)
        PROVE  ConvInv'
    BY <1>5, AckAgainInv, OpenInv, OpenUnstoredInv
  <1> QED BY <1>1, <1>2, <1>3, <1>4, <1>5 DEF ConvNext

LEMMA ConvInductive == ConvSpec => []ConvInv
  BY ConvInitInv, ConvNextInv, PTL DEF ConvSpec

(* Whoever changes a message only after the previous change was confirmed  *)
(* (editMessage, reactToMessage, deleteMessage in useKant.ts) sees the     *)
(* same message on both devices once the last one is settled, but for what *)
(* was acknowledged or settled without being applied (missed).             *)
THEOREM CopiesAgree == ConvSpec => []SettledCopiesAgree
  <1>1. ConvInv => SettledCopiesAgree
    <2> SUFFICES ASSUME ConvInv, Settled, theirs.stored, Orderly, "del" \notin missed
                 PROVE  /\ theirs.deleted = mine.deleted
                        /\ mine.deleted \/ "edit" \notin missed => theirs.text = mine.text
                        /\ mine.deleted \/ "react" \notin missed => theirs.reaction = mine.reaction
      BY DEF SettledCopiesAgree, Orderly
    <2>1. mine.edit = NoOp /\ mine.react = NoOp /\ mine.del = NoOp
      BY DEF Settled, Unsynced
    <2>2. theirs.deleted \in BOOLEAN /\ mine.deleted \in BOOLEAN
      BY DEF ConvInv, ConvShape, Copy, Row
    <2>3. Agreeing
      BY DEF ConvInv
    <2>4. theirs.deleted = mine.deleted
      BY <2>1, <2>2, <2>3 DEF Agreeing, Reached
    <2>5. CASE mine.deleted
      BY <2>4, <2>5 DEF ConvInv, Stored, Deleting
    <2>6. CASE ~mine.deleted
      BY <2>1, <2>3, <2>4, <2>6 DEF Agreeing, Reached
    <2> QED BY <2>5, <2>6
  <1> QED BY <1>1, ConvInductive, PTL

(* A settled deletion of a message that had been confirmed holds, in       *)
(* whatever haste it was changed before (the tombstone of messages.ts),    *)
(* unless it was acknowledged or settled without being applied (missed).   *)
THEOREM DeletionsHold == ConvSpec => []ConfirmedDeletionHolds
  <1>1. ConvInv => ConfirmedDeletionHolds
    BY DEF ConvInv, Deleting
  <1> QED BY <1>1, ConvInductive, PTL

-----------------------------------------------------------------------------
(* The order of edits.                                                     *)

(* Then the peer has applied edits the author made, to a message  *)
(* it has, and of these it shows the newest.                               *)
EditsRise ==
  /\ applied \subseteq 0..counted.edit
  /\ applied # {} => theirs.stored
  /\ ~mine.deleted => mine.text = counted.edit
  /\ NewestEditWins

(* The edit that is opened is the one that waits for its receipt, the last *)
(* that was made.                                                          *)
LEMMA OpenedIsNewest ==
  ASSUME ConvInv, Orderly, EditsRise, NEW f \in frames, Open(f), f.kind = "edit"
  PROVE  f.value = counted.edit
  <1>1. /\ f.id \in {mine.edit, mine.react, mine.del} /\ f.id # NoOp
        /\ f.id = mine.react => f.kind = "react"
        /\ f.id = mine.del => f.kind = "del"
    BY OpenedIs DEF Open
  <1>2. f.id = mine.edit /\ mine.edit # NoOp
    BY <1>1
  <1>3. ~mine.deleted /\ f.value = mine.text
    BY <1>2 DEF ConvInv, Deleting, OneChange
  <1> QED BY <1>3 DEF EditsRise

LEMMA OpenRises ==
  ASSUME ConvInv, Orderly, EditsRise, NEW f \in frames, Open(f) PROVE EditsRise'
  <1>1. /\ theirs' = Changed(f) /\ mine' = mine /\ counted' = counted
        /\ applied' = IF f.kind = "edit" /\ theirs' # theirs THEN applied \cup {f.value} ELSE applied
        /\ f.kind \in Kinds /\ counted.edit \in Nat /\ theirs.stored \in BOOLEAN
        /\ theirs.text \in Int /\ (f.kind = "text" => ~theirs.stored)
    <2>1. f.kind \in Kinds /\ UNCHANGED mine /\ (f.kind = "text" => ~theirs.stored)
      BY OpenedIs DEF Open
    <2> QED BY <2>1 DEF Open, ConvInv, ConvShape, ConvCounts, Copy
  <1>2. /\ f.kind = "text" => theirs'.stored
        /\ f.kind # "text" => theirs'.stored = theirs.stored
        /\ f.kind # "text" /\ (~theirs.stored \/ theirs.deleted \/ f.kind = "note") => theirs' = theirs
        /\ f.kind = "edit" /\ theirs.stored /\ ~theirs.deleted => theirs'.text = f.value
        /\ f.kind = "react" /\ theirs.stored /\ ~theirs.deleted =>
             theirs'.text = theirs.text /\ theirs'.deleted = theirs.deleted
        /\ f.kind = "del" /\ theirs.stored /\ ~theirs.deleted => theirs'.deleted
    BY <1>1, ChangedFields, Zenon
  <1>3. CASE theirs' = theirs
    BY <1>1, <1>3 DEF EditsRise, NewestEditWins
  <1>4. CASE theirs' # theirs /\ f.kind = "edit"
    <2>1. f.value = counted.edit
      BY <1>4, OpenedIsNewest
    <2>2. theirs.stored /\ theirs'.stored /\ theirs'.text = counted.edit
      BY <1>2, <1>4, <2>1
    <2>3. applied' = applied \cup {counted.edit} /\ \A e \in applied' : e \in 0..counted.edit
      BY <1>1, <1>4, <2>1 DEF EditsRise
    <2>4. \A e \in applied' : e <= theirs'.text
      BY <1>1, <2>2, <2>3
    <2> QED BY <1>1, <2>2, <2>3, <2>4 DEF EditsRise, NewestEditWins
  <1>5. CASE theirs' # theirs /\ f.kind = "text"
    BY <1>1, <1>2, <1>5 DEF EditsRise, NewestEditWins
  <1>6. CASE theirs' # theirs /\ f.kind \in {"react", "del"}
    BY <1>1, <1>2, <1>6 DEF EditsRise, NewestEditWins
  <1> QED BY <1>1, <1>2, <1>3, <1>4, <1>5, <1>6 DEF Kinds

(* The author's steps leave the peer's message alone and count the edits.  *)
LEMMA OthersRise ==
  ASSUME ConvInv, EditsRise, UNCHANGED <<theirs, applied>>,
         counted'.edit \in Nat, counted'.edit >= counted.edit,
         ~mine'.deleted => mine'.text = counted'.edit
  PROVE  EditsRise'
  <1>1. counted.edit \in Nat
    BY DEF ConvInv, ConvShape, ConvCounts
  <1> QED BY <1>1 DEF EditsRise, NewestEditWins

LEMMA NextRises ==
  ASSUME ConvInv, Orderly => EditsRise, [ConvNext]_convVars, Orderly'
  PROVE  EditsRise'
  <1>1. /\ mine \in Row /\ held \in Held /\ counted \in ConvCounts
        /\ counted.edit \in Nat /\ mine.deleted \in BOOLEAN
    BY DEF ConvInv, ConvShape, Row, ConvCounts
  <1>2. CASE \/ TakeHeld \/ Reset \/ Block \/ Unblock \/ \E build \in Builds : Learn(build)
             \/ \E f \in frames : AckAgain(f) \/ OpenBlocked(f) \/ OpenFails(f)
             \/ ForgetSeen \/ UNCHANGED convVars
    <2>1. /\ UNCHANGED <<theirs, applied, hasty>> /\ missed \subseteq missed'
          /\ counted'.edit = counted.edit
          /\ mine'.text = mine.text /\ mine'.deleted = mine.deleted
      <3>1. CASE \/ TakeHeld \/ Unblock \/ (\E build \in Builds : Learn(build))
                 \/ (\E f \in frames : AckAgain(f)) \/ UNCHANGED convVars
        BY <3>1 DEF TakeHeld, Unblock, Learn, AckAgain, convVars
      <3>2. CASE Reset
        BY <1>1, <3>2 DEF Reset, Row
      <3>3. CASE Block \/ ForgetSeen
        BY <1>1, <3>3 DEF Block, ForgetSeen, ConvCounts
      <3>4. ASSUME NEW f \in frames, OpenBlocked(f) \/ OpenFails(f)
            PROVE  /\ UNCHANGED <<theirs, applied, hasty, mine>> /\ missed \subseteq missed'
                   /\ counted'.edit = counted.edit
        BY <1>1, <3>4 DEF OpenBlocked, OpenFails, Opens, ConvCounts
      <3> QED BY <1>2, <3>1, <3>2, <3>3, <3>4
    <2>2. Orderly
      BY <2>1 DEF Orderly
    <2> QED BY <1>1, <2>1, <2>2, OthersRise DEF EditsRise
  <1>3. CASE FlushHeld
    <2>1. /\ UNCHANGED <<theirs, applied, counted, hasty, missed>> /\ Orderly
          /\ held.taken = mine.text
      BY <1>3 DEF FlushHeld, Flushing, ConvInv, Waiting, Orderly
    <2>2. mine'.text = mine.text /\ mine'.deleted = mine.deleted
      BY <1>1, <1>3, <2>1 DEF FlushHeld, Row
    <2> QED BY <1>1, <2>1, <2>2, OthersRise DEF EditsRise
  <1>4. CASE EditHeld
    <2> DEFINE row == [mine EXCEPT !.text = counted.edit + 1]
               count == [counted EXCEPT !.edit = @ + 1]
    <2>1. /\ UNCHANGED <<theirs, applied>> /\ ~hasty /\ Recorded(row, count)
      BY <1>4 DEF EditHeld, Orderly
    <2>2. row.text = counted.edit + 1 /\ count.edit = counted.edit + 1 /\ count \in ConvCounts
      BY <1>1 DEF Row, ConvCounts
    <2> HIDE DEF row, count
    <2>3. mine' = row /\ missed' = missed /\ counted'.edit = count.edit
      BY <2>1, <2>2, RecordedIs DEF Orderly
    <2>4. Orderly
      BY <2>1, <2>3 DEF Orderly
    <2> QED BY <1>1, <2>1, <2>2, <2>3, <2>4, OthersRise
  <1>5. CASE Edit
    <2> DEFINE row == [mine EXCEPT !.text = counted.edit + 1, !.edit = ops + 1]
               count == [counted EXCEPT !.edit = @ + 1]
               n == counted.edit + 1
    <2>1. /\ UNCHANGED <<theirs, applied>> /\ ~hasty /\ Change("edit", n, row, count)
      BY <1>5 DEF Edit, Orderly
    <2>2. count.edit = n /\ count \in ConvCounts /\ n \in Nat /\ n \in Int /\ n >= counted.edit
      BY <1>1 DEF ConvCounts
    <2>3. /\ row \in Row
          /\ row.text = n /\ row.status = mine.status /\ row.deleted = mine.deleted
          /\ row.reaction = mine.reaction /\ row.edit = ops + 1
          /\ row.react = mine.react /\ row.del = mine.del
      BY <2>2, EditedRow
    <2> HIDE DEF row, count, n
    <2>4. Made("edit", n, row, count)
      BY <2>1, <2>2, <2>3, ChangeIs DEF Changes
    <2>5. mine' = row /\ missed' = missed /\ counted'.edit = count.edit
      BY <2>4 DEF Made, Orderly
    <2>6. Orderly
      BY <2>1, <2>5 DEF Orderly
    <2> QED BY <1>1, <2>1, <2>2, <2>3, <2>5, <2>6, OthersRise
  <1>6. CASE React
    <2> DEFINE row == [mine EXCEPT !.reaction = counted.react + 1, !.react = ops + 1]
               count == [counted EXCEPT !.react = @ + 1]
               n == counted.react + 1
    <2>1. /\ UNCHANGED <<theirs, applied>> /\ ~hasty /\ Change("react", n, row, count)
      BY <1>6 DEF React, Orderly
    <2>2. count.edit = counted.edit /\ count \in ConvCounts /\ n \in Nat /\ n \in Int
      BY <1>1 DEF ConvCounts
    <2>3. /\ row \in Row
          /\ row.text = mine.text /\ row.status = mine.status /\ row.deleted = mine.deleted
          /\ row.reaction = n /\ row.edit = mine.edit
          /\ row.react = ops + 1 /\ row.del = mine.del
      BY <2>2, ReactedRow
    <2>4. [row EXCEPT !["react"] = NoOp].text = row.text
          /\ [row EXCEPT !["react"] = NoOp].deleted = row.deleted
      BY <2>3 DEF Row
    <2> HIDE DEF row, count, n
    <2>5. Made("react", n, row, count)
      BY <2>1, <2>2, <2>3, ChangeIs DEF Changes
    <2>6. /\ mine'.text = mine.text /\ mine'.deleted = mine.deleted
          /\ missed \subseteq missed' /\ counted'.edit = counted.edit
      BY <2>2, <2>3, <2>4, <2>5 DEF Made
    <2>7. Orderly
      BY <2>1, <2>6 DEF Orderly
    <2> QED BY <1>1, <2>1, <2>6, <2>7, OthersRise DEF EditsRise
  <1>7. CASE Delete
    <2>1. UNCHANGED <<theirs, applied>> /\ ~hasty /\ Change("del", Gone, Tombstone, counted)
      BY <1>7 DEF Delete, Orderly
    <2>2. Tombstone \in Row /\ Tombstone.deleted /\ Gone \in Int
      BY TombstoneRow DEF Gone
    <2>3. [Tombstone EXCEPT !["del"] = NoOp].deleted
      BY <2>2 DEF Row
    <2>4. Made("del", Gone, Tombstone, counted)
      BY <1>1, <2>1, <2>2, ChangeIs DEF Changes
    <2>5. mine'.deleted /\ missed \subseteq missed' /\ counted'.edit = counted.edit
      BY <2>2, <2>3, <2>4 DEF Made, Orderly
    <2>6. Orderly
      BY <2>1, <2>5 DEF Orderly
    <2> QED BY <1>1, <2>1, <2>5, <2>6, OthersRise
  <1>8. ASSUME NEW id \in 0..ops, GetReceipt(id) PROVE EditsRise'
    <2>1. /\ UNCHANGED <<theirs, applied, counted, hasty, missed>>
          /\ mine'.text = mine.text /\ mine'.deleted = mine.deleted
      BY <1>1, <1>8 DEF GetReceipt, Row
    <2> QED BY <1>1, <2>1, OthersRise DEF EditsRise, Orderly
  <1>9. ASSUME NEW f \in frames, Open(f) PROVE EditsRise'
    <2>1. hasty' = hasty /\ f.kind \in Kinds
      BY <1>9, OpenedIs DEF Open
    <2>2. Orderly
      <3>1. \A k \in missed : k \in missed' \/ (k = f.kind /\ theirs.stored /\ ~theirs.deleted)
        BY <1>9 DEF Open
      <3>2. f.kind # "own" /\ (f.kind = "text" => ~theirs.stored)
        BY <1>9, OpenedIs DEF Open, Kinds
      <3> QED BY <2>1, <3>1, <3>2 DEF Orderly
    <2> QED BY <1>9, <2>2, OpenRises
  <1> QED BY <1>2, <1>3, <1>4, <1>5, <1>6, <1>7, <1>8, <1>9 DEF ConvNext

(* What "the newest one wins" (messages.ts) needs: of edits that each      *)
(* waited for the receipt of the previous change, to a message that both   *)
(* devices stored, the peer shows the newest it has applied, through       *)
(* resets, lost memory, blocking and repeated frames.  Only edits that     *)
(* overtake each other are applied in the wrong order.                     *)
THEOREM UnhurriedEditsKeepOrder ==
  ConvSpec => [](~hasty /\ "text" \notin missed /\ "own" \notin missed => NewestEditWins)
  <1>1. ConvInit => EditsRise
    BY DEF ConvInit, EditsRise, NewestEditWins
  <1>2. ConvInv /\ (Orderly => EditsRise) /\ [ConvNext]_convVars => (Orderly => EditsRise)'
    BY NextRises
  <1>3. ConvInit => (Orderly => EditsRise)
    BY <1>1
  <1>4. (Orderly => EditsRise) =>
          (~hasty /\ "text" \notin missed /\ "own" \notin missed => NewestEditWins)
    BY DEF EditsRise, Orderly
  <1> QED BY <1>2, <1>3, <1>4, ConvInductive, PTL DEF ConvSpec

-----------------------------------------------------------------------------
(* The exact types of a conversation.                                      *)

(* A text is the original, an edit the author made or a tombstone.         *)
Texts == Gone..MaxEdits

TextsKnown ==
  /\ counted.edit <= MaxEdits
  /\ {mine.text, held.text, held.taken, theirs.text} \subseteq Texts
  /\ \A f \in frames : f.session <= session /\ (f.kind # "react" => f.value \in Texts)
  /\ opened \subseteq frames

ConvTypes == ConvInv /\ TextsKnown

LEMMA TextNumbers == Gone \in Texts /\ \A n \in Nat : n <= MaxEdits => n \in Texts
  BY ConvAssumption DEF Texts, Gone

LEMMA ConvInitTypes == ConvInit => ConvTypes
  BY ConvInitInv, TextNumbers, ConvAssumption DEF ConvInit, ConvTypes, TextsKnown

(* What the rows of the two devices can become by the receiver's steps.    *)
LEMMA OpenTexts == ASSUME ConvTypes, NEW f \in frames, Open(f) PROVE theirs'.text \in Texts
  <1>1. f.kind \in Kinds /\ theirs \in Copy /\ theirs.text \in Texts
        /\ (f.kind # "react" => f.value \in Texts)
    BY ChangedIs DEF ConvTypes, ConvInv, ConvShape, TextsKnown
  <1>2. theirs' = Changed(f) /\ ConvInv
    BY DEF Open, ConvTypes
  <1>3. /\ f.kind = "text" => theirs'.text = f.value
        /\ f.kind # "text" /\ (~theirs.stored \/ theirs.deleted \/ f.kind = "note") => theirs' = theirs
        /\ f.kind = "edit" /\ theirs.stored /\ ~theirs.deleted => theirs'.text = f.value
        /\ f.kind = "react" /\ theirs.stored /\ ~theirs.deleted => theirs'.text = theirs.text
        /\ f.kind = "del" /\ theirs.stored /\ ~theirs.deleted => theirs'.text = Gone
    BY <1>2, ChangedFields
  <1>4. theirs.stored \in BOOLEAN /\ theirs.deleted \in BOOLEAN
    BY <1>1 DEF Copy
  <1> QED BY <1>1, <1>3, <1>4, TextNumbers DEF Kinds

LEMMA ConvNextTexts == ASSUME ConvTypes, [ConvNext]_convVars PROVE TextsKnown'
  <1>1. /\ mine \in Row /\ held \in Held /\ theirs \in Copy /\ session \in Nat
        /\ counted \in ConvCounts /\ ConvInv /\ TextsKnown /\ counted.edit \in Nat
    BY DEF ConvTypes, ConvInv, ConvShape, ConvCounts
  <1> USE TextNumbers
  <1>2. CASE TakeHeld
    BY <1>1, <1>2 DEF TakeHeld, TextsKnown, Held
  <1>3. CASE FlushHeld
    <2>1. Frame(Message, session, "text", held.taken).session <= session
          /\ Frame(Message, session, "text", held.taken).value = held.taken
      BY <1>1 DEF Frame
    <2>2. /\ mine'.text \in {mine.text, held.taken} /\ held'.text = held.text
          /\ held'.taken = held.taken
      BY <1>1, <1>3 DEF FlushHeld, Row, Held
    <2> QED BY <1>1, <1>3, <2>1, <2>2 DEF FlushHeld, TextsKnown
  <1>4. CASE EditHeld
    <2> DEFINE row == [mine EXCEPT !.text = counted.edit + 1]
               count == [counted EXCEPT !.edit = @ + 1]
    <2>1. Recorded(row, count) /\ counted.edit < MaxEdits /\ held' = [held EXCEPT !.text = counted.edit + 1]
          /\ UNCHANGED <<theirs, frames, opened, session>>
      BY <1>4 DEF EditHeld
    <2>2. row.text = counted.edit + 1 /\ count.edit = counted.edit + 1 /\ count \in ConvCounts
      BY <1>1 DEF Row, ConvCounts
    <2> HIDE DEF row, count
    <2>3. (mine' = row \/ mine' = mine) /\ counted'.edit = counted.edit + 1
      BY <1>1, <2>1, <2>2, RecordedIs
    <2>4. counted'.edit <= MaxEdits /\ counted.edit + 1 \in Texts
      BY <1>1, <2>1, <2>3, ConvAssumption
    <2>5. held'.text = counted.edit + 1 /\ held'.taken = held.taken
      BY <1>1, <2>1 DEF Held
    <2> QED BY <1>1, <2>1, <2>2, <2>3, <2>4, <2>5 DEF TextsKnown
  <1>5. CASE Edit
    <2> DEFINE row == [mine EXCEPT !.text = counted.edit + 1, !.edit = ops + 1]
               count == [counted EXCEPT !.edit = @ + 1]
               n == counted.edit + 1
    <2>1. /\ Change("edit", n, row, count) /\ counted.edit < MaxEdits
          /\ UNCHANGED <<held, theirs, opened, session>>
      BY <1>5 DEF Edit
    <2>2. count.edit = n /\ count \in ConvCounts /\ n \in Nat /\ n \in Int /\ n <= MaxEdits
      BY <1>1, <2>1, ConvAssumption DEF ConvCounts
    <2>3. /\ row \in Row
          /\ row.text = n /\ row.status = mine.status /\ row.deleted = mine.deleted
          /\ row.reaction = mine.reaction /\ row.edit = ops + 1
          /\ row.react = mine.react /\ row.del = mine.del
      BY <1>1, <2>2, EditedRow
    <2> HIDE DEF row, count, n
    <2>4. Made("edit", n, row, count)
      BY <1>1, <2>1, <2>2, <2>3, ChangeIs DEF Changes
    <2>5. /\ mine'.text \in {mine.text, n} /\ counted'.edit = n
          /\ \A f \in frames' : f \in frames \/ (f.value = n /\ f.session = session)
          /\ frames \subseteq frames'
      BY <2>2, <2>3, <2>4 DEF Made
    <2> QED BY <1>1, <2>1, <2>2, <2>5 DEF TextsKnown
  <1>6. CASE React
    <2> DEFINE row == [mine EXCEPT !.reaction = counted.react + 1, !.react = ops + 1]
               count == [counted EXCEPT !.react = @ + 1]
               n == counted.react + 1
    <2>1. /\ Change("react", n, row, count) /\ UNCHANGED <<held, theirs, opened, session>>
      BY <1>6 DEF React
    <2>2. count.edit = counted.edit /\ count \in ConvCounts /\ n \in Nat /\ n \in Int
      BY <1>1 DEF ConvCounts
    <2>3. /\ row \in Row
          /\ row.text = mine.text /\ row.status = mine.status /\ row.deleted = mine.deleted
          /\ row.reaction = n /\ row.edit = mine.edit
          /\ row.react = ops + 1 /\ row.del = mine.del
      BY <1>1, <2>2, ReactedRow
    <2>4. [row EXCEPT !["react"] = NoOp].text = row.text
      BY <2>3 DEF Row
    <2> HIDE DEF row, count, n
    <2>5. Made("react", n, row, count)
      BY <1>1, <2>1, <2>2, <2>3, ChangeIs DEF Changes
    <2>6. /\ mine'.text = mine.text /\ counted'.edit = counted.edit
          /\ \A f \in frames' : f \in frames \/ (f.kind = "react" /\ f.session = session)
          /\ frames \subseteq frames'
      BY <2>2, <2>3, <2>4, <2>5 DEF Made, SentAs
    <2> QED BY <1>1, <2>1, <2>6 DEF TextsKnown
  <1>7. CASE Delete
    <2>1. /\ Change("del", Gone, Tombstone, counted) /\ held' = [held EXCEPT !.at = Dropped]
          /\ UNCHANGED <<theirs, opened, session>>
      BY <1>7 DEF Delete
    <2>2. Tombstone \in Row /\ Tombstone.text = Gone /\ Gone \in Int
      BY <1>1, TombstoneRow DEF Gone
    <2>3. [Tombstone EXCEPT !["del"] = NoOp].text = Gone
      BY <2>2 DEF Row
    <2>4. Made("del", Gone, Tombstone, counted)
      BY <1>1, <2>1, <2>2, ChangeIs DEF Changes
    <2>5. /\ mine'.text \in {mine.text, Gone} /\ counted'.edit = counted.edit
          /\ \A f \in frames' : f \in frames \/ (f.value = Gone /\ f.session = session)
          /\ frames \subseteq frames'
      BY <2>2, <2>3, <2>4 DEF Made
    <2>6. held'.text = held.text /\ held'.taken = held.taken
      BY <1>1, <2>1 DEF Held
    <2> QED BY <1>1, <2>1, <2>5, <2>6 DEF TextsKnown
  <1>8. CASE Reset
    <2>1. \A f \in Rebuilt(session + 1) :
            f.session = session + 1 /\ (f.kind # "react" => f.value \in {mine.text, Gone})
      BY <1>1, RebuiltAre
    <2>2. held'.text \in {held.text, mine.text} /\ held'.taken = held.taken /\ mine'.text = mine.text
      BY <1>1, <1>8 DEF Reset, Held, Row
    <2>3. /\ session' = session + 1 /\ frames' = frames \cup Rebuilt(session + 1)
          /\ UNCHANGED <<theirs, counted, opened>>
      BY <1>8 DEF Reset
    <2>4. \A f \in frames' : f.session <= session' /\ (f.kind # "react" => f.value \in Texts)
      <3>1. ASSUME NEW f \in frames PROVE f.session <= session'
        BY <1>1, <2>3 DEF ConvInv, ConvShape, TextsKnown, ConvFrames
      <3> QED BY <1>1, <2>1, <2>3, <3>1 DEF TextsKnown
    <2> QED BY <1>1, <2>2, <2>3, <2>4 DEF TextsKnown
  <1>9. ASSUME NEW id \in 0..ops, GetReceipt(id) PROVE TextsKnown'
    <2>1. mine'.text = mine.text /\ held'.text = held.text /\ held'.taken = held.taken
      BY <1>1, <1>9 DEF GetReceipt, Row, Held
    <2> QED BY <1>1, <1>9, <2>1 DEF GetReceipt, TextsKnown
  <1>10. ASSUME NEW f \in frames, AckAgain(f) PROVE TextsKnown'
    BY <1>1, <1>10 DEF AckAgain, TextsKnown
  <1>11. ASSUME NEW f \in frames, Open(f) PROVE TextsKnown'
    <2>1. theirs'.text \in Texts
      BY <1>11, OpenTexts
    <2> QED BY <1>1, <1>11, <2>1 DEF Open, Opens, TextsKnown
  <1>12. ASSUME NEW f \in frames, OpenBlocked(f) \/ OpenFails(f) PROVE TextsKnown'
    <2>1. counted'.edit = counted.edit
      BY <1>1, <1>12 DEF OpenBlocked, OpenFails, ConvCounts
    <2> QED BY <1>1, <1>12, <2>1 DEF OpenBlocked, OpenFails, Opens, TextsKnown
  <1>13. CASE Block \/ Unblock \/ (\E build \in Builds : Learn(build)) \/ ForgetSeen
    <2>1. counted'.edit = counted.edit
      BY <1>1, <1>13 DEF Block, Unblock, Learn, ForgetSeen, ConvCounts
    <2> QED BY <1>1, <1>13, <2>1 DEF Block, Unblock, Learn, ForgetSeen, TextsKnown
  <1>14. CASE UNCHANGED convVars
    BY <1>1, <1>14 DEF convVars, TextsKnown
  <1> QED
    BY <1>2, <1>3, <1>4, <1>5, <1>6, <1>7, <1>8, <1>9, <1>10, <1>11, <1>12, <1>13, <1>14 DEF ConvNext

(* Both rows and every frame hold a text the author wrote or a tombstone,  *)
(* a row waits for changes that were made, a tombstone for none but its    *)
(* deletion, and no session or id is known before it exists (messages.ts). *)
THEOREM ConvTypeCorrect == ConvSpec => []ConvTypeOK
  <1>1. ASSUME ConvTypes, [ConvNext]_convVars PROVE ConvTypes'
    BY <1>1, ConvNextInv, ConvNextTexts DEF ConvTypes
  <1>2. ASSUME ConvTypes PROVE ConvTypeOK
    <2>1. /\ mine \in Row /\ held \in Held /\ session \in Nat /\ ops \in Nat
          /\ frames \subseteq ConvFrames
          /\ caps \subseteq {"edit", "react", "del"} /\ missed \subseteq Missable
      BY <1>2 DEF ConvTypes, ConvInv, ConvShape, Changes
    <2>2. \A f \in frames : f.id \in 0..ops /\ f.session \in 0..session
      BY <1>2, <2>1 DEF ConvTypes, ConvInv, Named, TextsKnown, ConvFrames
    <2>3. /\ mine.text \in Gone..MaxEdits /\ theirs.text \in Gone..MaxEdits
          /\ opened \subseteq frames
      BY <1>2 DEF ConvTypes, TextsKnown, Texts
    <2>4. /\ mine.status \in {"waiting", "sent", "delivered"}
          /\ held.at \in {"held", "flushing", "dropped", "flushed", "released"}
      BY <2>1 DEF Row, Held
    <2>5. /\ {mine.edit, mine.react, mine.del} \subseteq (1..ops) \cup {NoOp}
          /\ seen \cup receipts \cup stopped \subseteq 0..ops
          /\ mine.deleted => mine.text = Gone /\ mine.edit = NoOp /\ mine.react = NoOp
      BY <1>2 DEF ConvTypes, ConvInv, Named, Deleting
    <2> QED BY <2>1, <2>2, <2>3, <2>4, <2>5 DEF ConvTypeOK
  <1> QED BY <1>1, <1>2, ConvInitTypes, PTL DEF ConvSpec
=============================================================================
