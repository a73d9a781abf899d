----------------------------- MODULE TransferProofs -----------------------------
(***************************************************************************)
(* What is proved of the two ways bulk data moves over a stream of its     *)
(* own: files between contacts (Files), for any number of transfers, peers *)
(* and chunks and any limits, and an account between devices (Transfer),   *)
(* for any number of records, any window and any number of calls, reloads  *)
(* and messages received meanwhile.                                        *)
(*                                                                         *)
(* Files.  The receiver's counters are the transfers that run, within both *)
(* limits: a step takes one slot, gives one back or touches none.  A file  *)
(* shown as delivered was stored: `stored' is on its way only if it was.   *)
(* The two ends never both wait: until the stream is cut, what was sent    *)
(* and not received is in the pipe, and a sender that waits will read.     *)
(*                                                                         *)
(* Transfer.  The argument follows one move.  A line is open only while    *)
(* the old device is in a move, so what the new device says on it belongs  *)
(* to that move; a new call takes both lines afresh, and is refused while  *)
(* the new device is busy.  The records are read after the call, so what   *)
(* arrives is not older than what the old device had then.  `Done' is only *)
(* said of a whole account, and a whole account has an identity, after     *)
(* which no screen of the new device clears the stores.                    *)
(***************************************************************************)
EXTENDS Files, Transfer, FiniteSetTheorems, SequenceTheorems, TLAPS

(* Files: what every argument needs.                                       *)

Peers == {PeerOf[t] : t \in Transfers}
Frames == [kind : Answers \cup {"chunk"}, through : Int]
SenderStates == {"idle", "asking", "sending", "draining", "confirming", "sent", "delivered", "failed"}
ReceiverStates == {"idle", "deciding", "receiving", "storing", "over"}
Holders == {t \in Transfers : Holding(t)}
HoldersOf(p) == {t \in Holders : PeerOf[t] = p}

(* As much of the types as the arguments need.                             *)
FilesShape ==
  /\ sender \in [Transfers -> SenderStates] /\ receiver \in [Transfers -> ReceiverStates]
  /\ got \in [Transfers -> Int] /\ back \in [Transfers -> Seq(Frames)]
  /\ perPeer \in [Peers -> Nat] /\ total \in Nat

(* What may be done to a queue of frames keeps the kind of its frames.     *)
LEMMA Pieces ==
  ASSUME NEW S, NEW s \in Seq(S)
  PROVE  /\ s # << >> => Head(s) \in S /\ Tail(s) \in Seq(S)
         /\ \A e \in S : Append(s, e) \in Seq(S)
         /\ \A n \in 0..Len(s) : SubSeq(s, 1, n) \in Seq(S)
  <1>1. s # << >> => Head(s) \in S /\ Tail(s) \in Seq(S)
    BY HeadTailProperties
  <1>2. ASSUME NEW n \in 0..Len(s) PROVE SubSeq(s, 1, n) \in Seq(S)
    <2>1. \A k \in 1..n : s[k] \in S
      BY ElementOfSeq
    <2> QED BY <2>1, SubSeqProperties
  <1> QED BY <1>1, <1>2, AppendProperties

LEMMA Widened == ASSUME NEW S, NEW T, S \subseteq T PROVE Seq(S) \subseteq Seq(T)
  OBVIOUS

LEMMA AnswerShape == (\A k \in Answers : Answer(k) \in Frames) /\ \A n \in Int : ChunkAck(n) \in Frames
  BY DEF Answer, ChunkAck, Frames, Answers

(* What a side reads, is sent or loses leaves a sequence of frames.        *)
LEMMA FramesKept ==
  ASSUME NEW s \in Seq(Frames)
  PROVE  /\ s # << >> => Head(s) \in Frames /\ Tail(s) \in Seq(Frames)
         /\ \A f \in Frames : Append(s, f) \in Seq(Frames)
         /\ \A n \in 0..Len(s) : SubSeq(s, 1, n) \in Seq(Frames)
  <1>1. s # << >> => Head(s) \in Frames /\ Tail(s) \in Seq(Frames)
    BY HeadTailProperties
  <1>2. \A f \in Frames : Append(s, f) \in Seq(Frames)
    BY AppendProperties
  <1>3. ASSUME NEW n \in 0..Len(s) PROVE SubSeq(s, 1, n) \in Seq(Frames)
    <2>1. \A i \in 1..n : s[i] \in Frames
      BY ElementOfSeq, LenProperties
    <2> QED
      BY <2>1, LenProperties, SubSeqProperties
  <1> QED
    BY <1>1, <1>2, <1>3

LEMMA ReplyShape ==
  ASSUME FilesShape, NEW t \in Transfers, NEW f \in Frames, Reply(t, f)
  PROVE  back' \in [Transfers -> Seq(Frames)]
  BY FramesKept DEF FilesShape, Reply

LEMMA RefuseShape ==
  ASSUME FilesShape, NEW t \in Transfers, NEW k \in Answers, Refuse(t, k)
  PROVE  back' \in [Transfers -> Seq(Frames)] /\ receiver' \in [Transfers -> ReceiverStates]
  BY ReplyShape, AnswerShape DEF FilesShape, Refuse, End, ReceiverStates

LEMMA ReleaseShape ==
  ASSUME FilesShape, NEW t \in Transfers, Release(t)
  PROVE  perPeer' \in [Peers -> Nat] /\ total' \in Nat
  BY DEF FilesShape, Release, Peers

LEMMA TailShape ==
  ASSUME FilesShape, NEW t \in Transfers, back[t] # << >>, back' = [back EXCEPT ![t] = Tail(@)]
  PROVE  back' \in [Transfers -> Seq(Frames)]
  BY FramesKept DEF FilesShape

LEMMA FilesNextShape == ASSUME FilesShape, [FilesNext]_fileVars PROVE FilesShape'
  <1> USE DEF SenderStates, ReceiverStates
  <1>1. ASSUME NEW t \in Transfers, Announce(t) PROVE FilesShape'
    BY <1>1 DEF FilesShape, Announce
  <1>2. ASSUME NEW t \in Transfers, ReadResponse(t) PROVE FilesShape'
    BY <1>2, TailShape DEF FilesShape, ReadResponse, GiveUp
  <1>3. ASSUME NEW t \in Transfers, SendChunk(t) PROVE FilesShape'
    BY <1>3 DEF FilesShape, SendChunk, AfterChunk, GiveUp
  <1>4. ASSUME NEW t \in Transfers, ReadAcks(t) PROVE FilesShape'
    BY <1>4, TailShape DEF FilesShape, ReadAcks, GiveUp
  <1>5. ASSUME NEW t \in Transfers, Confirmed(t) PROVE FilesShape'
    BY <1>5, TailShape DEF FilesShape, Confirmed, GiveUp
  <1>6. ASSUME NEW t \in Transfers, SenderReadFails(t) PROVE FilesShape'
    BY <1>6 DEF FilesShape, SenderReadFails, GiveUp
  <1>7. ASSUME NEW t \in Transfers, KeepOwnCopy(t) PROVE FilesShape'
    BY <1>7 DEF FilesShape, KeepOwnCopy
  <1>8. ASSUME NEW t \in Transfers, ReadMeta(t) PROVE FilesShape'
    BY <1>8, RefuseShape DEF FilesShape, ReadMeta, Answers
  <1>9. ASSUME NEW t \in Transfers, Declined(t) PROVE FilesShape'
    BY <1>9, RefuseShape DEF FilesShape, Declined, Answers
  <1>10. ASSUME NEW t \in Transfers, Accept(t) PROVE FilesShape'
    <2>1. back' \in [Transfers -> Seq(Frames)] /\ receiver' \in [Transfers -> ReceiverStates]
      BY <1>10, RefuseShape, ReplyShape, AnswerShape DEF FilesShape, Accept, End, Answers
    <2>2. perPeer' \in [Peers -> Nat] /\ total' \in Nat
      <3>1. PeerOf[t] \in Peers
        BY DEF Peers
      <3>2. CASE UNCHANGED <<perPeer, total>>
        BY <3>2 DEF FilesShape
      <3>3. CASE Acquire(t)
        BY <3>1, <3>3 DEF FilesShape, Acquire
      <3> QED
        BY <1>10, <3>2, <3>3 DEF Accept
    <2> QED
      BY <1>10, <2>1, <2>2 DEF FilesShape, Accept
  <1>11. ASSUME NEW t \in Transfers, ReceiveChunk(t) PROVE FilesShape'
    <2>1. got[t] + 1 \in Int /\ got' \in [Transfers -> Int]
      BY <1>11 DEF FilesShape, ReceiveChunk
    <2>2. back' \in [Transfers -> Seq(Frames)]
      BY <1>11, <2>1, ReplyShape, AnswerShape DEF FilesShape, ReceiveChunk
    <2>3. perPeer' \in [Peers -> Nat] /\ total' \in Nat
      BY <1>11, ReleaseShape DEF FilesShape, ReceiveChunk
    <2> QED
      BY <1>11, <2>1, <2>2, <2>3 DEF FilesShape, ReceiveChunk, End
  <1>12. ASSUME NEW t \in Transfers, Complete(t) PROVE FilesShape'
    BY <1>12, RefuseShape, ReleaseShape DEF FilesShape, Complete, Answers
  <1>13. ASSUME NEW t \in Transfers, StoreFails(t) PROVE FilesShape'
    BY <1>13, RefuseShape, ReleaseShape DEF FilesShape, StoreFails, Answers
  <1>14. ASSUME NEW t \in Transfers, ReceiverFails(t) PROVE FilesShape'
    BY <1>14, ReleaseShape DEF FilesShape, ReceiverFails, End
  <1>15. ASSUME NEW t \in Transfers, Cut(t) PROVE FilesShape'
    BY <1>15, FramesKept DEF FilesShape, Cut
  <1>16. CASE LoseIdentity \/ UNCHANGED fileVars
    BY <1>16 DEF FilesShape, LoseIdentity, fileVars
  <1> QED
    BY <1>1, <1>2, <1>3, <1>4, <1>5, <1>6, <1>7, <1>8, <1>9, <1>10, <1>11, <1>12, <1>13,
       <1>14, <1>15, <1>16 DEF FilesNext

LEMMA FilesInitShape == FilesInit => FilesShape
  BY EmptySeq DEF FilesInit, FilesShape, Peers, SenderStates, ReceiverStates

-----------------------------------------------------------------------------
(* Slots.  A step takes one for a transfer, gives one back or touches none.*)

Takes(t) == t \notin Holders /\ Holders' = Holders \cup {t} /\ ~AtCapacity(PeerOf[t]) /\ Acquire(t)
Gives(t) == t \in Holders /\ Holders' = Holders \ {t} /\ Release(t)
Leaves == Holders' = Holders /\ UNCHANGED <<perPeer, total>>

LEMMA SlotStep ==
  ASSUME FilesShape, [FilesNext]_fileVars
  PROVE  Leaves \/ \E t \in Transfers : Takes(t) \/ Gives(t)
  <1> USE DEF ReceiverStates, SenderStates
  <1>1. ASSUME UNCHANGED <<receiver, perPeer, total>> PROVE Leaves
    BY <1>1 DEF Leaves, Holders, Holding
  <1>2. ASSUME NEW t \in Transfers,
               ReadMeta(t) \/ Declined(t)
        PROVE  Leaves
    BY <1>2 DEF ReadMeta, Declined, Refuse, End, Leaves, Holders, Holding, FilesShape
  <1>3. ASSUME NEW t \in Transfers, Accept(t) PROVE Leaves \/ Takes(t)
    BY <1>3 DEF Accept, Refuse, End, Leaves, Takes, Holders, Holding, FilesShape
  <1>4. ASSUME NEW t \in Transfers, ReceiveChunk(t) PROVE Leaves \/ Gives(t)
    BY <1>4 DEF ReceiveChunk, End, Leaves, Gives, Holders, Holding, FilesShape
  <1>5. ASSUME NEW t \in Transfers, Complete(t) \/ StoreFails(t) \/ ReceiverFails(t) PROVE Gives(t)
    BY <1>5 DEF Complete, StoreFails, ReceiverFails, Refuse, End, Gives, Holders, Holding, FilesShape
  <1>6. ASSUME NEW t \in Transfers,
               \/ Announce(t) \/ ReadResponse(t) \/ SendChunk(t) \/ ReadAcks(t)
               \/ Confirmed(t) \/ SenderReadFails(t) \/ KeepOwnCopy(t) \/ Cut(t)
        PROVE  Leaves
    BY <1>1, <1>6 DEF Announce, ReadResponse, SendChunk, ReadAcks, Confirmed, SenderReadFails,
                      KeepOwnCopy, Cut
  <1>7. LoseIdentity \/ UNCHANGED fileVars => Leaves
    BY <1>1 DEF LoseIdentity, fileVars
  <1> QED
    BY <1>2, <1>3, <1>4, <1>5, <1>6, <1>7 DEF FilesNext

(* The property in the words of the proof.                                 *)
SlotsRight ==
  /\ total = Cardinality(Holders) /\ total <= MaxTotal
  /\ \A p \in Peers : perPeer[p] = Cardinality(HoldersOf(p)) /\ perPeer[p] <= MaxPerPeer

SlotsInv == FilesShape /\ IsFiniteSet(Holders) /\ SlotsRight

LEMMA SlotsSame == ASSUME FilesShape, SlotsRight PROVE SlotsMatchTransfers
  <1>1. DOMAIN perPeer = Peers
    BY DEF FilesShape
  <1>2. \A p : HoldersOf(p) = {t \in Transfers : PeerOf[t] = p /\ Holding(t)}
    BY DEF HoldersOf, Holders
  <1> QED
    BY <1>1, <1>2 DEF SlotsRight, SlotsMatchTransfers, Holders

LEMMA PeerHeldFinite == ASSUME IsFiniteSet(Holders), NEW p PROVE IsFiniteSet(HoldersOf(p))
  BY FS_Subset DEF HoldersOf

LEMMA TakesRight ==
  ASSUME FilesShape, IsFiniteSet(Holders), SlotsRight, NEW t \in Transfers, Takes(t)
  PROVE  IsFiniteSet(Holders') /\ SlotsRight'
  <1>1. IsFiniteSet(Holders') /\ Cardinality(Holders') = Cardinality(Holders) + 1
    BY FS_AddElement DEF Takes
  <1>2. total' = Cardinality(Holders') /\ total' <= MaxTotal
    BY <1>1, FilesAssumption DEF Takes, AtCapacity, Acquire, FilesShape, SlotsRight
  <1>3. ASSUME NEW p \in Peers
        PROVE  perPeer'[p] = Cardinality(HoldersOf(p)') /\ perPeer'[p] <= MaxPerPeer
    <2>1. perPeer[p] = Cardinality(HoldersOf(p)) /\ perPeer[p] <= MaxPerPeer
      BY DEF SlotsRight
    <2>2. CASE p = PeerOf[t]
      <3>1. HoldersOf(p)' = HoldersOf(p) \cup {t} /\ t \notin HoldersOf(p)
        BY <2>2 DEF HoldersOf, Takes
      <3>2. Cardinality(HoldersOf(p)') = Cardinality(HoldersOf(p)) + 1
        BY <3>1, PeerHeldFinite, FS_AddElement
      <3>3. perPeer'[p] = perPeer[p] + 1 /\ perPeer[p] < MaxPerPeer
        BY <2>1, <2>2, FilesAssumption DEF Takes, AtCapacity, Acquire, FilesShape
      <3> QED
        BY <2>1, <3>2, <3>3, FilesAssumption DEF FilesShape
    <2>3. CASE p # PeerOf[t]
      BY <2>1, <2>3 DEF HoldersOf, Takes, Acquire, FilesShape
    <2> QED
      BY <2>2, <2>3
  <1> QED
    BY <1>1, <1>2, <1>3 DEF SlotsRight

LEMMA GivesRight ==
  ASSUME FilesShape, IsFiniteSet(Holders), SlotsRight, NEW t \in Transfers, Gives(t)
  PROVE  IsFiniteSet(Holders') /\ SlotsRight'
  <1>1. /\ IsFiniteSet(Holders') /\ Cardinality(Holders') = Cardinality(Holders) - 1
        /\ Cardinality(Holders') \in Nat
    BY FS_RemoveElement, FS_CardinalityType DEF Gives
  <1>2. total' = Cardinality(Holders') /\ total' <= MaxTotal
    BY <1>1, FilesAssumption DEF Gives, Release, FilesShape, SlotsRight
  <1>3. ASSUME NEW p \in Peers
        PROVE  perPeer'[p] = Cardinality(HoldersOf(p)') /\ perPeer'[p] <= MaxPerPeer
    <2>1. perPeer[p] = Cardinality(HoldersOf(p)) /\ perPeer[p] <= MaxPerPeer
      BY DEF SlotsRight
    <2>2. CASE p = PeerOf[t]
      <3>1. HoldersOf(p)' = HoldersOf(p) \ {t} /\ t \in HoldersOf(p)
        BY <2>2 DEF HoldersOf, Gives
      <3>2. /\ Cardinality(HoldersOf(p)') = Cardinality(HoldersOf(p)) - 1
            /\ Cardinality(HoldersOf(p)') \in Nat
        BY <3>1, PeerHeldFinite, FS_RemoveElement, FS_CardinalityType
      <3>3. perPeer'[p] = IF perPeer[p] > 0 THEN perPeer[p] - 1 ELSE 0
        BY <2>2 DEF Gives, Release, FilesShape
      <3> QED
        BY <2>1, <3>2, <3>3, FilesAssumption DEF FilesShape
    <2>3. CASE p # PeerOf[t]
      BY <2>1, <2>3 DEF HoldersOf, Gives, Release, FilesShape
    <2> QED
      BY <2>2, <2>3
  <1> QED
    BY <1>1, <1>2, <1>3 DEF SlotsRight

LEMMA FilesNextSlots == SlotsInv /\ [FilesNext]_fileVars => SlotsInv'
  <1> SUFFICES ASSUME SlotsInv, [FilesNext]_fileVars PROVE SlotsInv'
    OBVIOUS
  <1>1. FilesShape /\ FilesShape' /\ IsFiniteSet(Holders) /\ SlotsRight
    BY FilesNextShape DEF SlotsInv
  <1>2. CASE Leaves
    <2>1. \A p : HoldersOf(p)' = HoldersOf(p)
      BY <1>2 DEF HoldersOf, Leaves
    <2> QED
      BY <1>1, <1>2, <2>1 DEF SlotsInv, SlotsRight, Leaves
  <1>3. ASSUME NEW t \in Transfers, Takes(t) \/ Gives(t) PROVE SlotsInv'
    BY <1>1, <1>3, TakesRight, GivesRight DEF SlotsInv
  <1> QED
    BY <1>1, <1>2, <1>3, SlotStep

LEMMA FilesInitSlots == FilesInit => SlotsInv
  <1> SUFFICES ASSUME FilesInit PROVE SlotsInv
    OBVIOUS
  <1>1. Holders = {} /\ \A p : HoldersOf(p) = {}
    BY DEF FilesInit, Holders, HoldersOf, Holding
  <1>2. SlotsRight
    <2>1. Cardinality(Holders) = 0 /\ \A p : Cardinality(HoldersOf(p)) = 0
      BY <1>1, FS_EmptySet
    <2>2. total = 0 /\ \A p \in Peers : perPeer[p] = 0
      BY DEF FilesInit, Peers
    <2> QED
      BY <2>1, <2>2, FilesAssumption DEF SlotsRight
  <1> QED
    BY <1>1, <1>2, FilesInitShape, FS_EmptySet DEF SlotsInv

(* For any number of transfers and any limits, the receiver's counters are *)
(* the transfers that hold a slot, and stay within the limits.             *)
THEOREM SlotsAreRight == FilesSpec => []SlotsMatchTransfers
  <1>1. SlotsInv => SlotsMatchTransfers
    BY SlotsSame DEF SlotsInv
  <1> QED
    BY <1>1, FilesInitSlots, FilesNextSlots, PTL DEF FilesSpec

-----------------------------------------------------------------------------
(* Stored files.  `stored' is under way only for a file that is stored, or *)
(* dropped on purpose.                                                     *)

Kept(t) == t \in saved \cup Blocked \cup dropped
Grow == saved \subseteq saved' /\ dropped \subseteq dropped'
StoredIsTrue(t) == \A n \in 1..Len(back[t]) : back[t][n].kind = "stored" => Kept(t)

StoredInv == FilesShape /\ DeliveredFileStored /\ \A t \in Transfers : StoredIsTrue(t)

(* A sequence that was shortened or extended tells nothing new.            *)
LEMMA ToldBefore ==
  ASSUME NEW s \in Seq(Frames), NEW r \in Seq(Frames),
         \/ s # << >> /\ r = Tail(s)
         \/ \E f \in Frames : f.kind # "stored" /\ r = Append(s, f)
         \/ \E n \in 0..Len(s) : r = SubSeq(s, 1, n),
         NEW n \in 1..Len(r), r[n].kind = "stored"
  PROVE  \E m \in 1..Len(s) : s[m].kind = "stored"
  <1>0. Len(s) \in Nat /\ Len(r) \in Nat
    BY LenProperties
  <1>1. CASE s # << >> /\ r = Tail(s)
    <2>1. Len(r) = Len(s) - 1 /\ r[n] = s[n + 1]
      BY <1>1, HeadTailProperties
    <2> QED
      BY <1>0, <2>1
  <1>2. CASE \E f \in Frames : f.kind # "stored" /\ r = Append(s, f)
    <2>1. PICK f \in Frames : f.kind # "stored" /\ r = Append(s, f)
      BY <1>2
    <2>2. /\ Len(r) = Len(s) + 1 /\ r[Len(s) + 1] = f
          /\ \A i \in 1..Len(s) : r[i] = s[i]
      BY <2>1, AppendProperties
    <2>3. n \in 1..Len(s)
      BY <1>0, <2>1, <2>2
    <2> QED
      BY <2>2, <2>3
  <1>3. CASE \E k \in 0..Len(s) : r = SubSeq(s, 1, k)
    <2>1. PICK k \in 0..Len(s) : r = SubSeq(s, 1, k)
      BY <1>3
    <2>2. \A i \in 1..k : s[i] \in Frames
      BY <1>0, ElementOfSeq
    <2>3. Len(r) = k /\ \A i \in 1..k : r[i] = s[i]
      <3>1. /\ Len(SubSeq(s, 1, k)) = IF 1 <= k THEN k - 1 + 1 ELSE 0
            /\ \A i \in 1..k - 1 + 1 : SubSeq(s, 1, k)[i] = s[1 + i - 1]
        BY <1>0, <2>2, SubSeqProperties
      <3> QED
        BY <1>0, <2>1, <3>1
    <2> QED
      BY <1>0, <2>3
  <1> QED
    BY <1>1, <1>2, <1>3

(* What a step may do to one transfer's answers.                           *)
Told(t) ==
  \/ back'[t] = back[t]
  \/ back[t] # << >> /\ back'[t] = Tail(back[t])
  \/ \E f \in Frames : f.kind # "stored" /\ back'[t] = Append(back[t], f)
  \/ \E n \in 0..Len(back[t]) : back'[t] = SubSeq(back[t], 1, n)

LEMMA AnswersStayTrue ==
  ASSUME StoredInv, FilesShape', Grow, NEW t \in Transfers, Told(t) \/ Kept(t)'
  PROVE  StoredIsTrue(t)'
  <1>1. Kept(t) => Kept(t)'
    BY DEF Kept, Grow
  <1>2. CASE Kept(t)'
    BY <1>2 DEF StoredIsTrue
  <1>3. CASE Told(t)
    <2>1. back[t] \in Seq(Frames) /\ back'[t] \in Seq(Frames)
      BY DEF StoredInv, FilesShape
    <2>2. ASSUME NEW n \in 1..Len(back'[t]), back'[t][n].kind = "stored"
          PROVE  \E m \in 1..Len(back[t]) : back[t][m].kind = "stored"
      <3>1. CASE back'[t] = back[t]
        BY <2>2, <3>1
      <3>2. CASE back'[t] # back[t]
        BY <1>3, <2>1, <2>2, <3>2, ToldBefore DEF Told
      <3> QED
        BY <3>1, <3>2
    <2> QED
      BY <1>1, <2>2 DEF StoredIsTrue, StoredInv
  <1> QED
    BY <1>2, <1>3

(* A sender becomes `sent' only on an answer that says so.                 *)
DeliveredStep ==
  \A t \in Transfers :
    sender'[t] \in {"sent", "delivered"} =>
      \/ sender[t] \in {"sent", "delivered"}
      \/ back[t] # << >> /\ Head(back[t]).kind = "stored"

LEMMA StoredStep ==
  ASSUME FilesShape, FilesShape', [FilesNext]_fileVars
  PROVE  /\ Grow /\ DeliveredStep
         /\ \A t \in Transfers : Told(t) \/ Kept(t)'
  <1> USE DEF SenderStates, ReceiverStates
  <1> DEFINE Good == /\ Grow /\ DeliveredStep
                     /\ \A t \in Transfers : Told(t) \/ Kept(t)'
  <1>g. ASSUME UNCHANGED <<saved, dropped>> PROVE Grow
    BY <1>g DEF Grow
  <1>a. ASSUME UNCHANGED sender PROVE DeliveredStep
    BY <1>a DEF DeliveredStep
  <1>b. ASSUME UNCHANGED back PROVE \A t \in Transfers : Told(t)
    BY <1>b DEF Told
  <1>c. ASSUME NEW t \in Transfers, back[t] # << >>, back' = [back EXCEPT ![t] = Tail(@)]
        PROVE  \A u \in Transfers : Told(u)
    BY <1>c DEF Told, FilesShape
  <1>d. ASSUME NEW t \in Transfers, NEW f \in Frames, f.kind # "stored", Reply(t, f)
        PROVE  \A u \in Transfers : Told(u)
    BY <1>d DEF Told, FilesShape, Reply
  <1>e. \A k \in Answers : Answer(k).kind = k
    BY DEF Answer
  <1>1. ASSUME NEW t \in Transfers, Announce(t) \/ SendChunk(t) \/ SenderReadFails(t) PROVE Good
    BY <1>1, <1>b, <1>g DEF Announce, SendChunk, SenderReadFails, GiveUp, AfterChunk, DeliveredStep, FilesShape
  <1>2. ASSUME NEW t \in Transfers, KeepOwnCopy(t) PROVE Good
    BY <1>2, <1>b, <1>g DEF KeepOwnCopy, DeliveredStep, FilesShape
  <1>3. ASSUME NEW t \in Transfers, ReadResponse(t) \/ ReadAcks(t) \/ Confirmed(t) PROVE Good
    <2>1. back[t] # << >> /\ back' = [back EXCEPT ![t] = Tail(@)] /\ UNCHANGED <<saved, dropped>>
      BY <1>3 DEF ReadResponse, ReadAcks, Confirmed
    <2>2. DeliveredStep
      BY <1>3 DEF ReadResponse, ReadAcks, Confirmed, GiveUp, DeliveredStep, FilesShape
    <2> QED
      BY <2>1, <2>2, <1>c, <1>g
  <1>4. ASSUME NEW t \in Transfers, ReadMeta(t) \/ Declined(t) \/ Accept(t) PROVE Good
    <2>1. UNCHANGED <<sender, saved, dropped>>
      BY <1>4 DEF ReadMeta, Declined, Accept
    <2>2. \/ UNCHANGED back
          \/ Reply(t, Answer("reject")) \/ Reply(t, Answer("accept"))
      BY <1>4 DEF ReadMeta, Declined, Accept, Refuse
    <2>3. \A u \in Transfers : Told(u)
      BY <2>2, <1>b, <1>d, <1>e, AnswerShape DEF Answers
    <2> QED
      BY <2>1, <2>3, <1>a, <1>g
  <1>5. ASSUME NEW t \in Transfers, ReceiveChunk(t) PROVE Good
    <2>1. UNCHANGED <<sender, saved, dropped>> /\ got[t] + 1 \in Int
      BY <1>5 DEF ReceiveChunk, FilesShape
    <2>2. UNCHANGED back \/ Reply(t, ChunkAck(got[t] + 1))
      BY <1>5 DEF ReceiveChunk
    <2>3. \A n \in Int : ChunkAck(n).kind # "stored"
      BY DEF ChunkAck
    <2>4. \A u \in Transfers : Told(u)
      BY <2>1, <2>2, <2>3, <1>b, <1>d, AnswerShape
    <2> QED
      BY <2>1, <2>4, <1>a, <1>g
  <1>6. ASSUME NEW t \in Transfers, Complete(t) PROVE Good
    <2>1. UNCHANGED sender /\ Grow /\ Kept(t)'
      BY <1>6 DEF Complete, Kept, Grow
    <2>2. \A u \in Transfers : u # t => Told(u)
      BY <1>6 DEF Complete, Refuse, Reply, Told, FilesShape
    <2> QED
      BY <2>1, <2>2, <1>a
  <1>7. ASSUME NEW t \in Transfers, StoreFails(t) PROVE Good
    <2>1. UNCHANGED sender /\ Grow
      BY <1>7 DEF StoreFails, Grow
    <2>2. UNCHANGED back \/ Reply(t, Answer("refused"))
      BY <1>7 DEF StoreFails, Refuse
    <2>3. \A u \in Transfers : Told(u)
      BY <2>2, <1>b, <1>d, <1>e, AnswerShape DEF Answers
    <2> QED
      BY <2>1, <2>3, <1>a
  <1>8. ASSUME NEW t \in Transfers, ReceiverFails(t) PROVE Good
    BY <1>8, <1>a, <1>b, <1>g DEF ReceiverFails
  <1>9. ASSUME NEW t \in Transfers, Cut(t) PROVE Good
    <2>1. \A u \in Transfers : Told(u)
      BY <1>9 DEF Cut, Told, FilesShape
    <2> QED
      BY <1>9, <2>1, <1>a, <1>g DEF Cut
  <1>10. CASE LoseIdentity \/ UNCHANGED fileVars
    BY <1>10, <1>a, <1>b, <1>g DEF LoseIdentity, fileVars
  <1> QED
    BY <1>1, <1>2, <1>3, <1>4, <1>5, <1>6, <1>7, <1>8, <1>9, <1>10 DEF FilesNext

LEMMA FilesNextStored == StoredInv /\ [FilesNext]_fileVars => StoredInv'
  <1> SUFFICES ASSUME StoredInv, [FilesNext]_fileVars PROVE StoredInv'
    OBVIOUS
  <1>1. FilesShape /\ FilesShape'
    BY FilesNextShape DEF StoredInv
  <1>2. /\ Grow /\ DeliveredStep
        /\ \A t \in Transfers : Told(t) \/ Kept(t)'
    BY <1>1, StoredStep
  <1>3. \A t \in Transfers : StoredIsTrue(t)'
    BY <1>1, <1>2, AnswersStayTrue
  <1>4. ASSUME NEW t \in Transfers, sender'[t] \in {"sent", "delivered"}
        PROVE  t \in saved' \cup Blocked \cup dropped'
    <2>1. CASE sender[t] \in {"sent", "delivered"}
      BY <1>2, <2>1 DEF Grow, StoredInv, DeliveredFileStored
    <2>2. CASE back[t] # << >> /\ Head(back[t]).kind = "stored"
      <3>1. back[t] \in Seq(Frames)
        BY <1>1 DEF FilesShape
      <3>2. 1 \in 1..Len(back[t]) /\ Head(back[t]) = back[t][1]
        BY <2>2, <3>1, EmptySeq
      <3> QED
        BY <1>2, <2>2, <3>2 DEF Grow, StoredInv, StoredIsTrue, Kept
    <2> QED
      BY <1>2, <1>4, <2>1, <2>2 DEF DeliveredStep
  <1> QED
    BY <1>1, <1>3, <1>4 DEF StoredInv, DeliveredFileStored

LEMMA FilesInitStored == FilesInit => StoredInv
  <1> SUFFICES ASSUME FilesInit PROVE StoredInv
    OBVIOUS
  <1>1. \A t \in Transfers : back[t] = << >> /\ sender[t] = "idle"
    BY DEF FilesInit
  <1> QED
    BY <1>1, FilesInitShape, EmptySeq DEF StoredInv, StoredIsTrue, DeliveredFileStored

(* Whatever breaks, times out or is refused, a file that the sender shows  *)
(* as delivered was stored, or its receiver dropped it: it had blocked the *)
(* sender or had no identity any more (onComplete in useKant.ts).          *)
THEOREM DeliveredMeansFileStored == FilesSpec => []DeliveredFileStored
  <1>1. StoredInv => DeliveredFileStored
    BY DEF StoredInv
  <1> QED
    BY <1>1, FilesInitStored, FilesNextStored, PTL DEF FilesSpec

-----------------------------------------------------------------------------
(* The window.  Until the stream is cut or closed, what was sent and not   *)
(* received is in the pipe.  A sender that drains either has chunks under  *)
(* way or the acknowledgement of its last one; one that waits for the last *)
(* word has sent everything, which a receiver that still reads has not got.*)

Counts ==
  /\ sent \in [Transfers -> Nat] /\ got \in [Transfers -> Nat]
  /\ pipe \in [Transfers -> Nat] /\ since \in [Transfers -> Nat]
  /\ stream \in [Transfers -> {"none", "open", "closed"}]

(* How far the two ends are.                                               *)
Progress(t) ==
  /\ sender[t] = "idle" <=> stream[t] = "none"
  /\ sender[t] = "idle" => receiver[t] = "idle" /\ back[t] = << >>
  /\ sender[t] \in {"idle", "asking"} => sent[t] = 0 /\ since[t] = 0
  /\ sent[t] <= Chunks
  /\ sender[t] = "sending" => sent[t] < Chunks
  /\ sender[t] = "draining" => t \in Acking
  /\ sender[t] = "confirming" => sent[t] = Chunks
  /\ receiver[t] \in {"idle", "deciding", "receiving"} => got[t] < Chunks

UnderWay(t) ==
  /\ pipe[t] + got[t] <= sent[t]
  /\ stream[t] = "open" => pipe[t] + got[t] = sent[t]
  /\ \A n \in 1..Len(back[t]) : back[t][n].kind = "chunk" => back[t][n].through <= got[t]
  /\ t \in Acking => pipe[t] <= since[t] /\ since[t] <= Window
                       /\ (sender[t] = "sending" => since[t] < Window)

(* What a sender that waits will read.                                     *)
WillRead(t) ==
  stream[t] = "open" =>
    /\ receiver[t] \in {"idle", "deciding"} => sender[t] = "asking" /\ back[t] = << >>
    /\ receiver[t] = "receiving" /\ sender[t] = "asking" => back[t] # << >>
    /\ receiver[t] = "receiving" /\ sender[t] = "draining" /\ got[t] = sent[t] =>
         back[t] # << >> /\ back[t][Len(back[t])] = ChunkAck(sent[t])

Going(t) == Progress(t) /\ UnderWay(t) /\ WillRead(t)
WindowInv == FilesShape /\ Counts /\ \A t \in Transfers : Going(t)

(* A step is about one transfer.                                           *)
Others(t) ==
  \A u \in Transfers : u # t =>
    /\ sender'[u] = sender[u] /\ receiver'[u] = receiver[u] /\ stream'[u] = stream[u]
    /\ sent'[u] = sent[u] /\ got'[u] = got[u] /\ pipe'[u] = pipe[u] /\ since'[u] = since[u]
    /\ back'[u] = back[u]

LEMMA OneTransfer ==
  ASSUME WindowInv, FilesShape', Counts', NEW t \in Transfers, Others(t), Going(t)'
  PROVE  WindowInv'
  <1>1. ASSUME NEW u \in Transfers, u # t PROVE Going(u)'
    BY <1>1 DEF WindowInv, Others, Going, Progress, UnderWay, WillRead
  <1> QED
    BY <1>1 DEF WindowInv

(* One transfer, with the types of what it is made of.                     *)
LEMMA OneGoing ==
  ASSUME WindowInv, NEW t \in Transfers
  PROVE  /\ Progress(t) /\ UnderWay(t) /\ WillRead(t)
         /\ sent[t] \in Nat /\ got[t] \in Nat /\ pipe[t] \in Nat /\ since[t] \in Nat
         /\ stream[t] \in {"none", "open", "closed"}
         /\ sender[t] \in SenderStates /\ receiver[t] \in ReceiverStates
         /\ back[t] \in Seq(Frames) /\ Len(back[t]) \in Nat
         /\ Chunks \in Nat \ {0} /\ Window \in Nat \ {0}
  <1>1. back[t] \in Seq(Frames)
    BY DEF WindowInv, FilesShape
  <1>2. Len(back[t]) \in Nat
    BY <1>1, LenProperties
  <1> QED
    BY <1>1, <1>2, FilesAssumption DEF WindowInv, FilesShape, Counts, Going

(* Reading leaves the rest, with the last frame unless it was that one.    *)
LEMMA Popped ==
  ASSUME NEW s \in Seq(Frames), s # << >>
  PROVE  /\ Len(s) \in Nat \ {0} /\ Head(s) = s[1] /\ Head(s) \in Frames
         /\ Len(Tail(s)) = Len(s) - 1 /\ \A n \in 1..(Len(s) - 1) : Tail(s)[n] = s[n + 1]
         /\ Tail(s) = << >> => Len(s) = 1
         /\ Tail(s) # << >> => Tail(s)[Len(Tail(s))] = s[Len(s)]
  <1>1. /\ Len(s) \in Nat \ {0} /\ Head(s) = s[1] /\ Head(s) \in Frames
        /\ Len(Tail(s)) = Len(s) - 1 /\ \A n \in 1..(Len(s) - 1) : Tail(s)[n] = s[n + 1]
        /\ Tail(s) \in Seq(Frames)
    BY HeadTailProperties, LenProperties, EmptySeq
  <1>2. ASSUME Tail(s) = << >> PROVE Len(s) = 1
    <2> DEFINE rest == Tail(s)
               m == Len(s)
               n == Len(rest)
    <2>1. n = 0
      BY <1>2, EmptySeq
    <2>2. m \in Nat /\ n = m - 1
      BY <1>1
    <2> HIDE DEF n, m
    <2>3. m = 1
      BY <2>1, <2>2
    <2> QED
      BY <2>3 DEF m
  <1>3. Tail(s) # << >> => Tail(s)[Len(Tail(s))] = s[Len(s)]
    <2>1. Tail(s) # << >> => Len(Tail(s)) # 0
      BY <1>1, EmptySeq
    <2> QED
      BY <1>1, <2>1
  <1> QED
    BY <1>1, <1>2, <1>3

LEMMA Pushed ==
  ASSUME NEW s \in Seq(Frames), NEW f \in Frames
  PROVE  /\ Append(s, f) # << >> /\ Len(Append(s, f)) = Len(s) + 1
         /\ Append(s, f)[Len(s) + 1] = f /\ \A n \in 1..Len(s) : Append(s, f)[n] = s[n]
  <1>1. /\ Append(s, f) \in Seq(Frames) /\ Len(Append(s, f)) = Len(s) + 1 /\ Len(s) \in Nat
        /\ Append(s, f)[Len(s) + 1] = f /\ \A n \in 1..Len(s) : Append(s, f)[n] = s[n]
    BY AppendProperties, LenProperties
  <1> QED
    BY <1>1, EmptySeq

(* What a sequence says of the chunks that were received stays true when   *)
(* it is shortened, when more is received, and of what is appended.        *)
LEMMA TailTells ==
  ASSUME NEW s \in Seq(Frames), s # << >>, NEW g,
         \A n \in 1..Len(s) : s[n].kind = "chunk" => s[n].through <= g
  PROVE  \A n \in 1..Len(Tail(s)) : Tail(s)[n].kind = "chunk" => Tail(s)[n].through <= g
  <1>1. /\ Len(s) \in Nat \ {0} /\ Len(Tail(s)) = Len(s) - 1
        /\ \A n \in 1..(Len(s) - 1) : Tail(s)[n] = s[n + 1]
    BY Popped
  <1> QED
    BY <1>1

LEMMA AppendTells ==
  ASSUME NEW s \in Seq(Frames), NEW f \in Frames, NEW g,
         f.kind = "chunk" => f.through <= g,
         \A n \in 1..Len(s) : s[n].kind = "chunk" => s[n].through <= g
  PROVE  \A n \in 1..Len(Append(s, f)) :
           Append(s, f)[n].kind = "chunk" => Append(s, f)[n].through <= g
  <1>1. Len(s) \in Nat
    BY LenProperties
  <1>2. /\ Len(Append(s, f)) = Len(s) + 1 /\ Append(s, f)[Len(s) + 1] = f
        /\ \A n \in 1..Len(s) : Append(s, f)[n] = s[n]
    BY Pushed
  <1>3. ASSUME NEW n \in 1..(Len(s) + 1) PROVE n \in 1..Len(s) \/ n = Len(s) + 1
    BY <1>1
  <1> QED
    BY <1>2, <1>3

LEMMA HigherTells ==
  ASSUME NEW s \in Seq(Frames), NEW g \in Int,
         \A n \in 1..Len(s) : s[n].kind = "chunk" => s[n].through <= g
  PROVE  \A n \in 1..Len(s) : s[n].kind = "chunk" => s[n].through <= g + 1
  <1>1. \A n \in 1..Len(s) : s[n] \in Frames
    BY LenProperties, ElementOfSeq
  <1> QED
    BY <1>1 DEF Frames

LEMMA PrefixTells ==
  ASSUME NEW s \in Seq(Frames), NEW m \in 0..Len(s), NEW g,
         \A n \in 1..Len(s) : s[n].kind = "chunk" => s[n].through <= g
  PROVE  \A n \in 1..Len(SubSeq(s, 1, m)) :
           SubSeq(s, 1, m)[n].kind = "chunk" => SubSeq(s, 1, m)[n].through <= g
  <1>1. Len(s) \in Nat /\ \A i \in 1..m : s[i] \in Frames
    BY LenProperties, ElementOfSeq
  <1>2. /\ Len(SubSeq(s, 1, m)) = IF 1 <= m THEN m - 1 + 1 ELSE 0
        /\ \A i \in 1..m - 1 + 1 : SubSeq(s, 1, m)[i] = s[1 + i - 1]
    BY <1>1, SubSeqProperties
  <1> QED
    BY <1>1, <1>2

LEMMA FilesInitWindow == FilesInit => WindowInv
  <1> SUFFICES ASSUME FilesInit PROVE WindowInv
    OBVIOUS
  <1>1. Counts
    BY DEF FilesInit, Counts
  <1>2. ASSUME NEW t \in Transfers PROVE Going(t)
    <2>1. Len(back[t]) = 0
      BY EmptySeq DEF FilesInit
    <2> QED
      BY <2>1, FilesAssumption DEF FilesInit, Going, Progress, UnderWay, WillRead
  <1> QED
    BY <1>1, <1>2, FilesInitShape DEF WindowInv

-----------------------------------------------------------------------------
(* The sender.                                                             *)

(* Whoever closes the stream, or finds it closed, leaves nobody to wait.   *)
LEMMA StreamClosed ==
  ASSUME WindowInv, FilesShape', NEW t \in Transfers, Others(t), stream[t] # "none",
         stream' = [stream EXCEPT ![t] = "closed"],
         sender'[t] \in {sender[t], "failed", "sent", "delivered"},
         receiver'[t] \in {receiver[t], "over"},
         UNCHANGED <<sent, since>>,
         pipe' \in [Transfers -> Nat], got' \in [Transfers -> Nat],
         pipe'[t] <= pipe[t], pipe'[t] + got'[t] <= sent[t], got'[t] >= got[t],
         receiver'[t] = "over" \/ got'[t] = got[t],
         \A n \in 1..Len(back'[t]) : back'[t][n].kind = "chunk" => back'[t][n].through <= got[t]
  PROVE  WindowInv'
  <1>1. /\ Progress(t) /\ UnderWay(t) /\ sent[t] \in Nat /\ got[t] \in Nat /\ pipe[t] \in Nat
        /\ since[t] \in Nat /\ Window \in Nat
    BY OneGoing
  <1>2. Counts' /\ stream'[t] = "closed" /\ pipe'[t] \in Nat /\ got'[t] \in Nat
    BY DEF WindowInv, Counts
  <1>3. Progress(t)'
    BY <1>1, <1>2 DEF Progress
  <1>4. back'[t] \in Seq(Frames)
    BY DEF FilesShape
  <1>5. \A n \in 1..Len(back'[t]) : back'[t][n].kind = "chunk" => back'[t][n].through <= got'[t]
    <2>1. ASSUME NEW n \in 1..Len(back'[t]), back'[t][n].kind = "chunk"
          PROVE  back'[t][n].through <= got'[t]
      <3>1. back'[t][n] \in Frames
        BY <1>4, LenProperties, ElementOfSeq
      <3>2. back'[t][n].through \in Int
        BY <3>1 DEF Frames
      <3> QED
        BY <1>1, <1>2, <2>1, <3>2
    <2> QED
      BY <2>1
  <1>6. UnderWay(t)' /\ WillRead(t)'
    BY <1>1, <1>2, <1>5 DEF UnderWay, WillRead
  <1> QED
    BY <1>2, <1>3, <1>6, OneTransfer DEF Going

(* The same when no chunk is read or lost.                                 *)
LEMMA StreamEnds ==
  ASSUME WindowInv, FilesShape', NEW t \in Transfers, Others(t), stream[t] # "none",
         stream' = [stream EXCEPT ![t] = "closed"],
         sender'[t] \in {sender[t], "failed", "sent", "delivered"},
         receiver'[t] \in {receiver[t], "over"},
         sent' = sent, since' = since, pipe' = pipe, got' = got,
         \A n \in 1..Len(back'[t]) : back'[t][n].kind = "chunk" => back'[t][n].through <= got[t]
  PROVE  WindowInv'
  <1>1. UnderWay(t) /\ pipe[t] \in Nat /\ got[t] \in Nat
    BY OneGoing
  <1>2. /\ pipe' \in [Transfers -> Nat] /\ got' \in [Transfers -> Nat]
        /\ pipe'[t] = pipe[t] /\ got'[t] = got[t]
    BY DEF WindowInv, Counts
  <1>3. pipe'[t] <= pipe[t] /\ got'[t] >= got[t] /\ pipe'[t] + got'[t] <= sent[t]
    BY <1>1, <1>2 DEF UnderWay
  <1> QED
    BY <1>2, <1>3, StreamClosed, Zenon

LEMMA AnnounceWindow ==
  ASSUME WindowInv, FilesShape', NEW t \in Transfers, Announce(t) PROVE WindowInv'
  <1>1. /\ sender[t] = "idle" /\ sender' = [sender EXCEPT ![t] = "asking"]
        /\ stream' = [stream EXCEPT ![t] = "open"]
        /\ UNCHANGED <<sent, since, acked, pipe, back, receiver, got>>
    BY DEF Announce
  <1>2. /\ Progress(t) /\ UnderWay(t) /\ sent[t] \in Nat /\ got[t] \in Nat /\ pipe[t] \in Nat
    BY OneGoing
  <1>3. Counts' /\ Others(t) /\ sender'[t] = "asking" /\ stream'[t] = "open"
    BY <1>1 DEF WindowInv, FilesShape, Counts, Others
  <1>4. sent[t] = 0 /\ got[t] = 0 /\ pipe[t] = 0 /\ receiver[t] = "idle" /\ back[t] = << >>
    BY <1>1, <1>2 DEF Progress, UnderWay
  <1>5. Going(t)'
    BY <1>1, <1>2, <1>3, <1>4 DEF Going, Progress, UnderWay, WillRead
  <1> QED
    BY <1>3, <1>5, OneTransfer

LEMMA ReadResponseWindow ==
  ASSUME WindowInv, FilesShape', NEW t \in Transfers, ReadResponse(t) PROVE WindowInv'
  <1>1. /\ sender[t] = "asking" /\ back[t] # << >> /\ back' = [back EXCEPT ![t] = Tail(@)]
        /\ \/ sender' = [sender EXCEPT ![t] = "sending"] /\ UNCHANGED stream
           \/ GiveUp(t)
        /\ UNCHANGED <<sent, since, acked, pipe, receiver, got>>
    BY DEF ReadResponse
  <1>2. /\ Progress(t) /\ UnderWay(t) /\ WillRead(t) /\ sent[t] \in Nat /\ got[t] \in Nat
        /\ pipe[t] \in Nat /\ since[t] \in Nat /\ back[t] \in Seq(Frames)
        /\ Chunks \in Nat \ {0} /\ Window \in Nat \ {0}
    BY OneGoing
  <1>3. back'[t] = Tail(back[t])
    BY <1>1 DEF WindowInv, FilesShape
  <1>4. \A n \in 1..Len(back'[t]) : back'[t][n].kind = "chunk" => back'[t][n].through <= got[t]
    BY <1>1, <1>2, <1>3, TailTells DEF UnderWay
  <1>5. CASE sender' = [sender EXCEPT ![t] = "sending"] /\ UNCHANGED stream
    <2>1. Counts' /\ Others(t) /\ sender'[t] = "sending"
      BY <1>1, <1>5 DEF WindowInv, FilesShape, Counts, Others
    <2>2. Progress(t)'
      BY <1>1, <1>2, <1>5, <2>1 DEF Progress
    <2>3. UnderWay(t)' /\ WillRead(t)'
      BY <1>1, <1>2, <1>4, <1>5, <2>1 DEF Progress, UnderWay, WillRead
    <2> QED
      BY <2>1, <2>2, <2>3, OneTransfer DEF Going
  <1>6. CASE GiveUp(t)
    <2>1. Others(t) /\ sender'[t] = "failed" /\ stream[t] # "none"
      BY <1>1, <1>2, <1>6 DEF WindowInv, FilesShape, Counts, Others, GiveUp, Progress
    <2>2. /\ stream' = [stream EXCEPT ![t] = "closed"]
          /\ sent' = sent /\ since' = since /\ pipe' = pipe /\ got' = got
          /\ sender'[t] \in {sender[t], "failed", "sent", "delivered"}
          /\ receiver'[t] \in {receiver[t], "over"}
      BY <1>1, <1>6, <2>1 DEF GiveUp
    <2> QED
      BY <1>4, <2>1, <2>2, StreamEnds, Zenon
  <1> QED
    BY <1>1, <1>5, <1>6

LEMMA SendChunkWindow ==
  ASSUME WindowInv, FilesShape', NEW t \in Transfers, SendChunk(t) PROVE WindowInv'
  <1>1. /\ sender[t] = "sending"
        /\ \/ /\ stream[t] = "open" /\ UNCHANGED stream
              /\ sent' = [sent EXCEPT ![t] = @ + 1] /\ pipe' = [pipe EXCEPT ![t] = @ + 1]
              /\ since' = [since EXCEPT ![t] = IF @ < Window THEN @ + 1 ELSE @]
              /\ sender' = [sender EXCEPT ![t] = AfterChunk(t, sent[t] + 1, since[t] + 1)]
           \/ GiveUp(t) /\ UNCHANGED <<sent, pipe, since>>
        /\ UNCHANGED <<back, receiver, got>>
    BY DEF SendChunk
  <1>2. /\ Progress(t) /\ UnderWay(t) /\ WillRead(t) /\ sent[t] \in Nat /\ got[t] \in Nat
        /\ pipe[t] \in Nat /\ since[t] \in Nat /\ Chunks \in Nat \ {0} /\ Window \in Nat \ {0}
    BY OneGoing
  <1>3. CASE GiveUp(t) /\ UNCHANGED <<sent, pipe, since>>
    <2>1. Others(t) /\ sender'[t] = "failed" /\ stream[t] # "none"
      BY <1>1, <1>2, <1>3 DEF WindowInv, FilesShape, Counts, Others, GiveUp, Progress
    <2>2. /\ stream' = [stream EXCEPT ![t] = "closed"]
          /\ sent' = sent /\ since' = since /\ pipe' = pipe /\ got' = got
          /\ sender'[t] \in {sender[t], "failed", "sent", "delivered"}
          /\ receiver'[t] \in {receiver[t], "over"}
      BY <1>1, <1>3, <2>1 DEF GiveUp
    <2>3. \A n \in 1..Len(back'[t]) : back'[t][n].kind = "chunk" => back'[t][n].through <= got[t]
      BY <1>1, <1>2 DEF UnderWay
    <2> QED
      BY <2>1, <2>2, <2>3, StreamEnds, Zenon
  <1>4. CASE /\ stream[t] = "open" /\ UNCHANGED stream
             /\ sent' = [sent EXCEPT ![t] = @ + 1] /\ pipe' = [pipe EXCEPT ![t] = @ + 1]
             /\ since' = [since EXCEPT ![t] = IF @ < Window THEN @ + 1 ELSE @]
             /\ sender' = [sender EXCEPT ![t] = AfterChunk(t, sent[t] + 1, since[t] + 1)]
    <2>1. /\ Counts' /\ Others(t) /\ sent'[t] = sent[t] + 1 /\ pipe'[t] = pipe[t] + 1
          /\ since'[t] = IF since[t] < Window THEN since[t] + 1 ELSE since[t]
          /\ sender'[t] = AfterChunk(t, sent[t] + 1, since[t] + 1)
      BY <1>1, <1>4 DEF WindowInv, FilesShape, Counts, Others
    <2>2. \/ sender'[t] = "draining" /\ t \in Acking
          \/ sender'[t] = "confirming" /\ sent'[t] = Chunks
          \/ sender'[t] = "sending" /\ sent'[t] # Chunks /\ (t \in Acking => ~(since[t] + 1 >= Window))
      BY <2>1 DEF AfterChunk
    <2>3. Progress(t)'
      BY <1>1, <1>2, <1>4, <2>1, <2>2 DEF Progress
    <2>4. UnderWay(t)'
      <3>1. back' = back /\ got' = got /\ stream' = stream
        BY <1>1, <1>4
      <3>2. pipe'[t] + got'[t] = pipe[t] + got[t] + 1
        BY <1>2, <2>1, <3>1
      <3>3. /\ pipe'[t] + got'[t] <= sent'[t]
            /\ stream'[t] = "open" => pipe'[t] + got'[t] = sent'[t]
        BY <1>2, <2>1, <3>1, <3>2 DEF UnderWay
      <3>4. \A n \in 1..Len(back'[t]) : back'[t][n].kind = "chunk" => back'[t][n].through <= got'[t]
        BY <1>2, <3>1 DEF UnderWay
      <3>5. t \in Acking => pipe[t] <= since[t] /\ since[t] < Window
        BY <1>1, <1>2 DEF UnderWay
      <3>6. t \in Acking => /\ pipe'[t] <= since'[t] /\ since'[t] <= Window
                            /\ sender'[t] = "sending" => since'[t] < Window
        BY <1>2, <2>1, <2>2, <3>5
      <3> QED
        BY <3>3, <3>4, <3>6 DEF UnderWay
    <2>5. receiver[t] \notin {"idle", "deciding"}
      BY <1>1, <1>2, <1>4 DEF WillRead
    <2>6. got[t] # sent'[t]
      BY <1>2, <1>4, <2>1 DEF UnderWay
    <2>7. WillRead(t)'
      BY <1>1, <2>2, <2>5, <2>6 DEF WillRead
    <2> QED
      BY <2>1, <2>3, <2>4, <2>7, OneTransfer DEF Going
  <1> QED
    BY <1>1, <1>3, <1>4

(* The last acknowledgement covers everything that was sent.               *)
LEMMA ReadAcksWindow ==
  ASSUME WindowInv, FilesShape', NEW t \in Transfers, ReadAcks(t) PROVE WindowInv'
  <1> DEFINE ack == Head(back[t])
             covered == ack.through = sent[t]
  <1>1. /\ sender[t] = "draining" /\ back[t] # << >> /\ back' = [back EXCEPT ![t] = Tail(@)]
        /\ \/ GiveUp(t) /\ UNCHANGED since
           \/ /\ ack.kind = "chunk" /\ UNCHANGED stream
              /\ since' = [since EXCEPT ![t] = IF covered THEN 0 ELSE @]
              /\ sender' = [sender EXCEPT ![t] =
                   IF ~covered THEN "draining"
                   ELSE IF sent[t] = Chunks THEN "confirming" ELSE "sending"]
        /\ UNCHANGED <<sent, pipe, receiver, got>>
    BY DEF ReadAcks
  <1>2. /\ Progress(t) /\ UnderWay(t) /\ WillRead(t) /\ sent[t] \in Nat /\ got[t] \in Nat
        /\ pipe[t] \in Nat /\ since[t] \in Nat /\ back[t] \in Seq(Frames)
        /\ Chunks \in Nat \ {0} /\ Window \in Nat \ {0}
    BY OneGoing
  <1>3. back'[t] = Tail(back[t])
    BY <1>1 DEF WindowInv, FilesShape
  <1>4. \A n \in 1..Len(back'[t]) : back'[t][n].kind = "chunk" => back'[t][n].through <= got[t]
    BY <1>1, <1>2, <1>3, TailTells DEF UnderWay
  <1>5. CASE GiveUp(t) /\ UNCHANGED since
    <2>1. Others(t) /\ sender'[t] = "failed" /\ stream[t] # "none"
      BY <1>1, <1>2, <1>5 DEF WindowInv, FilesShape, Counts, Others, GiveUp, Progress
    <2>2. /\ stream' = [stream EXCEPT ![t] = "closed"]
          /\ sent' = sent /\ since' = since /\ pipe' = pipe /\ got' = got
          /\ sender'[t] \in {sender[t], "failed", "sent", "delivered"}
          /\ receiver'[t] \in {receiver[t], "over"}
      BY <1>1, <1>5, <2>1 DEF GiveUp
    <2> QED
      BY <1>4, <2>1, <2>2, StreamEnds, Zenon
  <1>6. CASE /\ ack.kind = "chunk" /\ UNCHANGED stream
             /\ since' = [since EXCEPT ![t] = IF covered THEN 0 ELSE @]
             /\ sender' = [sender EXCEPT ![t] =
                  IF ~covered THEN "draining"
                  ELSE IF sent[t] = Chunks THEN "confirming" ELSE "sending"]
    <2>1. /\ Counts' /\ Others(t) /\ since'[t] = IF covered THEN 0 ELSE since[t]
          /\ sender'[t] = IF ~covered THEN "draining"
                          ELSE IF sent[t] = Chunks THEN "confirming" ELSE "sending"
      BY <1>1, <1>6 DEF WindowInv, FilesShape, Counts, Others
    <2>2. /\ Len(back[t]) \in Nat \ {0} /\ ack = back[t][1] /\ ack \in Frames
          /\ Tail(back[t]) = << >> => Len(back[t]) = 1
          /\ Tail(back[t]) # << >> => Tail(back[t])[Len(Tail(back[t]))] = back[t][Len(back[t])]
      BY <1>1, <1>2, Popped
    <2>3. ack.through \in Int /\ ack.through <= got[t]
      BY <1>2, <1>6, <2>2 DEF UnderWay, Frames
    <2>4. covered => pipe[t] = 0
      BY <1>2, <2>3 DEF UnderWay
    <2> HIDE DEF ack
    <2>5. Progress(t)'
      BY <1>1, <1>2, <1>6, <2>1 DEF Progress
    <2>6. UnderWay(t)'
      BY <1>1, <1>2, <1>4, <1>6, <2>1, <2>4 DEF UnderWay
    <2>7. ASSUME stream[t] = "open" PROVE WillRead(t)'
      <3>1. receiver[t] \notin {"idle", "deciding"}
        BY <1>1, <1>2, <2>7 DEF WillRead
      <3>2. ASSUME receiver[t] = "receiving", ~covered, got[t] = sent[t]
            PROVE  back'[t] # << >> /\ back'[t][Len(back'[t])] = ChunkAck(sent[t])
        <4>1. back[t][Len(back[t])] = ChunkAck(sent[t])
          BY <1>1, <1>2, <2>7, <3>2 DEF WillRead
        <4>2. Len(back[t]) # 1
          BY <2>2, <3>2, <4>1 DEF ChunkAck
        <4> QED
          BY <1>3, <2>2, <4>1, <4>2
      <3> QED
        BY <1>1, <2>1, <3>1, <3>2 DEF WillRead
    <2>8. WillRead(t)'
      BY <1>6, <2>7 DEF WillRead
    <2> QED
      BY <2>1, <2>5, <2>6, <2>8, OneTransfer DEF Going
  <1> QED
    BY <1>1, <1>5, <1>6

LEMMA SenderEndsWindow ==
  ASSUME WindowInv, FilesShape', NEW t \in Transfers, Confirmed(t) \/ SenderReadFails(t)
  PROVE  WindowInv'
  <1>1. /\ sender[t] \in {"asking", "draining", "confirming"}
        /\ sender' = [sender EXCEPT ![t] = "sent"] \/ sender' = [sender EXCEPT ![t] = "failed"]
        /\ stream' = [stream EXCEPT ![t] = "closed"]
        /\ back' = back \/ (back[t] # << >> /\ back' = [back EXCEPT ![t] = Tail(@)])
        /\ UNCHANGED <<sent, since, pipe, receiver, got>>
    BY DEF Confirmed, SenderReadFails, Reading, GiveUp
  <1>2. Progress(t) /\ UnderWay(t) /\ back[t] \in Seq(Frames)
    BY OneGoing
  <1>3. /\ Others(t) /\ sender'[t] \in {"failed", "sent"} /\ stream[t] # "none"
        /\ back'[t] = back[t] \/ (back[t] # << >> /\ back'[t] = Tail(back[t]))
    BY <1>1, <1>2 DEF WindowInv, FilesShape, Counts, Others, Progress
  <1>4. \A n \in 1..Len(back'[t]) : back'[t][n].kind = "chunk" => back'[t][n].through <= got[t]
    <2>1. CASE back'[t] = back[t]
      BY <1>2, <2>1 DEF UnderWay
    <2>2. CASE back[t] # << >> /\ back'[t] = Tail(back[t])
      BY <1>2, <2>2, TailTells DEF UnderWay
    <2> QED
      BY <1>3, <2>1, <2>2
  <1>5. /\ stream' = [stream EXCEPT ![t] = "closed"]
        /\ sent' = sent /\ since' = since /\ pipe' = pipe /\ got' = got
        /\ sender'[t] \in {sender[t], "failed", "sent", "delivered"}
        /\ receiver'[t] \in {receiver[t], "over"}
    BY <1>1, <1>3
  <1> QED
    BY <1>3, <1>4, <1>5, StreamEnds, Zenon

LEMMA KeepOwnCopyWindow ==
  ASSUME WindowInv, FilesShape', NEW t \in Transfers, KeepOwnCopy(t) PROVE WindowInv'
  <1>1. /\ sender[t] = "sent"
        /\ sender' = [sender EXCEPT ![t] = "delivered"] \/ sender' = [sender EXCEPT ![t] = "failed"]
        /\ UNCHANGED <<sent, since, pipe, back, stream, receiver, got>>
    BY DEF KeepOwnCopy
  <1>2. Progress(t) /\ UnderWay(t) /\ WillRead(t)
    BY OneGoing
  <1>3. Counts' /\ Others(t) /\ sender'[t] \in {"delivered", "failed"}
    BY <1>1 DEF WindowInv, FilesShape, Counts, Others
  <1>4. Progress(t)' /\ UnderWay(t)' /\ WillRead(t)'
    BY <1>1, <1>2, <1>3 DEF Progress, UnderWay, WillRead
  <1> QED
    BY <1>3, <1>4, OneTransfer DEF Going

-----------------------------------------------------------------------------
(* The receiver.                                                           *)

(* A refusal, or the last word, is no acknowledgement of a chunk.          *)
LEMMA RefuseWindow ==
  ASSUME WindowInv, FilesShape', NEW t \in Transfers, NEW k \in Answers, Refuse(t, k),
         receiver[t] # "idle" \/ stream[t] # "none",
         UNCHANGED <<sender, sent, since, pipe, got>>
  PROVE  WindowInv'
  <1>1. /\ Progress(t) /\ UnderWay(t) /\ back[t] \in Seq(Frames) /\ pipe[t] \in Nat /\ got[t] \in Nat
    BY OneGoing
  <1>2. /\ stream' = [stream EXCEPT ![t] = "closed"] /\ Others(t) /\ receiver'[t] = "over"
        /\ back'[t] = back[t] \/ back'[t] = Append(back[t], Answer(k))
    BY DEF Refuse, End, Reply, Others, WindowInv, FilesShape, Counts
  <1>3. stream[t] # "none"
    BY <1>1 DEF Progress
  <1>4. \A n \in 1..Len(back'[t]) : back'[t][n].kind = "chunk" => back'[t][n].through <= got[t]
    <2>1. CASE back'[t] = back[t]
      BY <1>1, <2>1 DEF UnderWay
    <2>2. CASE back'[t] = Append(back[t], Answer(k))
      <3>1. Answer(k) \in Frames /\ Answer(k).kind # "chunk"
        BY AnswerShape DEF Answer, Answers
      <3> QED
        BY <1>1, <2>2, <3>1, AppendTells DEF UnderWay
    <2> QED
      BY <1>2, <2>1, <2>2
  <1>5. /\ stream' = [stream EXCEPT ![t] = "closed"]
        /\ sent' = sent /\ since' = since /\ pipe' = pipe /\ got' = got
        /\ sender'[t] \in {sender[t], "failed", "sent", "delivered"}
        /\ receiver'[t] \in {receiver[t], "over"}
    BY <1>2
  <1> QED
    BY <1>2, <1>3, <1>4, <1>5, StreamEnds, Zenon

LEMMA ReadMetaWindow ==
  ASSUME WindowInv, FilesShape', NEW t \in Transfers, ReadMeta(t) PROVE WindowInv'
  <1>1. CASE Refuse(t, "reject")
    BY <1>1, RefuseWindow DEF ReadMeta, Answers
  <1>2. CASE receiver' = [receiver EXCEPT ![t] = "deciding"] /\ UNCHANGED <<back, stream>>
    <2>1. Progress(t) /\ UnderWay(t) /\ WillRead(t)
      BY OneGoing
    <2>2. /\ receiver[t] = "idle" /\ stream[t] # "none"
          /\ UNCHANGED <<sender, sent, since, pipe, got>>
      BY DEF ReadMeta
    <2>3. Counts' /\ Others(t) /\ receiver'[t] = "deciding"
      BY <1>2, <2>2 DEF WindowInv, FilesShape, Counts, Others
    <2>4. Progress(t)' /\ UnderWay(t)' /\ WillRead(t)'
      BY <1>2, <2>1, <2>2, <2>3 DEF Progress, UnderWay, WillRead
    <2> QED
      BY <2>3, <2>4, OneTransfer DEF Going
  <1> QED
    BY <1>1, <1>2 DEF ReadMeta

LEMMA AcceptWindow ==
  ASSUME WindowInv, FilesShape', NEW t \in Transfers, Accept(t) PROVE WindowInv'
  <1>1. receiver[t] = "deciding" /\ UNCHANGED <<sender, sent, since, pipe, got>>
    BY DEF Accept
  <1>2. /\ Progress(t) /\ UnderWay(t) /\ WillRead(t) /\ back[t] \in Seq(Frames)
        /\ pipe[t] \in Nat /\ got[t] \in Nat
    BY OneGoing
  <1>3. CASE Refuse(t, "reject")
    BY <1>1, <1>3, RefuseWindow DEF Answers
  <1>4. CASE /\ stream[t] = "open" /\ receiver' = [receiver EXCEPT ![t] = "receiving"]
             /\ Reply(t, Answer("accept")) /\ UNCHANGED stream
    <2>1. /\ Counts' /\ Others(t) /\ receiver'[t] = "receiving"
          /\ back'[t] = Append(back[t], Answer("accept"))
      BY <1>1, <1>4 DEF WindowInv, FilesShape, Counts, Others, Reply
    <2>2. Answer("accept") \in Frames /\ Answer("accept").kind # "chunk"
      BY AnswerShape DEF Answer, Answers
    <2>3. /\ back'[t] # << >>
          /\ \A n \in 1..Len(back'[t]) : back'[t][n].kind = "chunk" => back'[t][n].through <= got[t]
      BY <1>2, <2>1, <2>2, AppendTells, Pushed DEF UnderWay
    <2>4. sender[t] = "asking"
      BY <1>1, <1>2, <1>4 DEF WillRead
    <2>5. Progress(t)' /\ UnderWay(t)' /\ WillRead(t)'
      BY <1>1, <1>2, <1>4, <2>1, <2>3, <2>4 DEF Progress, UnderWay, WillRead
    <2> QED
      BY <2>1, <2>5, OneTransfer DEF Going
  <1>5. CASE End(t) /\ UNCHANGED back
    <2>1. stream[t] # "none"
      BY <1>1, <1>2 DEF Progress
    <2>2. Others(t) /\ receiver'[t] = "over"
      BY <1>1, <1>5 DEF End, Others, WindowInv, FilesShape, Counts
    <2>3. /\ stream' = [stream EXCEPT ![t] = "closed"]
          /\ sent' = sent /\ since' = since /\ pipe' = pipe /\ got' = got
          /\ sender'[t] \in {sender[t], "failed", "sent", "delivered"}
          /\ receiver'[t] \in {receiver[t], "over"}
      BY <1>1, <1>5, <2>2 DEF End
    <2>4. \A n \in 1..Len(back'[t]) : back'[t][n].kind = "chunk" => back'[t][n].through <= got[t]
      BY <1>2, <1>5 DEF UnderWay
    <2> QED
      BY <2>1, <2>2, <2>3, <2>4, StreamEnds, Zenon
  <1> QED
    BY <1>3, <1>4, <1>5 DEF Accept

LEMMA ReceiveChunkWindow ==
  ASSUME WindowInv, FilesShape', NEW t \in Transfers, ReceiveChunk(t) PROVE WindowInv'
  <1>1. /\ receiver[t] = "receiving" /\ pipe[t] > 0
        /\ pipe' = [pipe EXCEPT ![t] = @ - 1] /\ got' = [got EXCEPT ![t] = @ + 1]
        /\ UNCHANGED <<sender, sent, since>>
    BY DEF ReceiveChunk
  <1>2. /\ Progress(t) /\ UnderWay(t) /\ WillRead(t) /\ back[t] \in Seq(Frames)
        /\ pipe[t] \in Nat /\ got[t] \in Nat /\ sent[t] \in Nat /\ since[t] \in Nat
        /\ Chunks \in Nat \ {0} /\ Window \in Nat \ {0} /\ Len(back[t]) \in Nat
    BY OneGoing
  <1>3. /\ pipe'[t] = pipe[t] - 1 /\ got'[t] = got[t] + 1 /\ pipe'[t] \in Nat /\ got'[t] \in Nat
        /\ pipe' \in [Transfers -> Nat] /\ got' \in [Transfers -> Nat]
    BY <1>1, <1>2 DEF WindowInv, Counts
  <1>4. /\ pipe'[t] + got'[t] = pipe[t] + got[t]
        /\ pipe'[t] <= pipe[t] /\ got'[t] >= got[t]
    <2>1. /\ pipe[t] \in Int /\ got[t] \in Int
          /\ pipe'[t] = pipe[t] - 1 /\ got'[t] = got[t] + 1
      BY <1>2, <1>3
    <2>2. /\ (pipe[t] - 1) + (got[t] + 1) = pipe[t] + got[t]
          /\ pipe[t] - 1 <= pipe[t] /\ got[t] + 1 >= got[t]
      BY <2>1
    <2> QED
      BY <2>1, <2>2, Zenon
  <1>5. CASE End(t) /\ UNCHANGED back
    <2>1. stream[t] # "none"
      BY <1>1, <1>2 DEF Progress
    <2>2. Others(t) /\ receiver'[t] = "over"
      BY <1>1, <1>5 DEF End, Others, WindowInv, FilesShape, Counts
    <2>3. /\ stream' = [stream EXCEPT ![t] = "closed"] /\ UNCHANGED <<sent, since>>
          /\ sender'[t] \in {sender[t], "failed", "sent", "delivered"}
          /\ receiver'[t] \in {receiver[t], "over"}
          /\ receiver'[t] = "over" \/ got'[t] = got[t]
      BY <1>1, <1>5, <2>2 DEF End
    <2>4. pipe'[t] <= pipe[t] /\ pipe'[t] + got'[t] <= sent[t] /\ got'[t] >= got[t]
      <3>1. pipe[t] + got[t] <= sent[t]
        BY <1>2 DEF UnderWay
      <3> QED
        BY <1>4, <3>1
    <2>5. \A n \in 1..Len(back'[t]) : back'[t][n].kind = "chunk" => back'[t][n].through <= got[t]
      BY <1>2, <1>5 DEF UnderWay
    <2> QED
      BY <1>3, <2>1, <2>2, <2>3, <2>4, <2>5, StreamClosed, Zenon
  <1>6. CASE /\ receiver' = [receiver EXCEPT ![t] =
                  IF got[t] + 1 = Chunks THEN "storing" ELSE "receiving"]
             /\ IF t \in Acking THEN Reply(t, ChunkAck(got[t] + 1)) ELSE UNCHANGED back
             /\ UNCHANGED stream
    <2>1. /\ Counts' /\ Others(t)
          /\ receiver'[t] = IF got[t] + 1 = Chunks THEN "storing" ELSE "receiving"
          /\ back'[t] = IF t \in Acking THEN Append(back[t], ChunkAck(got[t] + 1)) ELSE back[t]
      BY <1>1, <1>3, <1>6 DEF WindowInv, FilesShape, Counts, Others, Reply
    <2>2. /\ ChunkAck(got[t] + 1) \in Frames /\ ChunkAck(got[t] + 1).through = got[t] + 1
      BY <1>2, AnswerShape DEF ChunkAck
    <2>3. \A n \in 1..Len(back'[t]) : back'[t][n].kind = "chunk" => back'[t][n].through <= got'[t]
      <3>1. \A n \in 1..Len(back[t]) : back[t][n].kind = "chunk" => back[t][n].through <= got[t] + 1
        <4>1. \A n \in 1..Len(back[t]) : back[t][n].kind = "chunk" => back[t][n].through <= got[t]
          BY <1>2 DEF UnderWay
        <4>2. got[t] \in Int
          BY <1>2
        <4> QED
          BY <1>2, <4>1, <4>2, HigherTells, Zenon
      <3>2. CASE t \in Acking
        <4>1. ChunkAck(got[t] + 1).kind = "chunk" => ChunkAck(got[t] + 1).through <= got[t] + 1
          BY <1>2, <2>2
        <4>2. \A n \in 1..Len(Append(back[t], ChunkAck(got[t] + 1))) :
                Append(back[t], ChunkAck(got[t] + 1))[n].kind = "chunk" =>
                  Append(back[t], ChunkAck(got[t] + 1))[n].through <= got[t] + 1
          BY <1>2, <2>2, <3>1, <4>1, AppendTells, Zenon
        <4> QED
          BY <1>3, <2>1, <3>2, <4>2
      <3>3. CASE t \notin Acking
        BY <1>3, <2>1, <3>1, <3>3
      <3> QED
        BY <3>2, <3>3
    <2>4. Progress(t)'
      BY <1>1, <1>2, <1>3, <1>6, <2>1 DEF Progress
    <2>5. UnderWay(t)'
      <3>1. stream' = stream /\ sender' = sender /\ since' = since /\ sent' = sent
        BY <1>1, <1>6
      <3>2. /\ pipe'[t] + got'[t] <= sent'[t]
            /\ stream'[t] = "open" => pipe'[t] + got'[t] = sent'[t]
        BY <1>2, <1>4, <3>1 DEF UnderWay
      <3>3. t \in Acking => /\ pipe'[t] <= since'[t] /\ since'[t] <= Window
                            /\ sender'[t] = "sending" => since'[t] < Window
        BY <1>2, <1>3, <1>4, <3>1 DEF UnderWay
      <3> QED
        BY <2>3, <3>2, <3>3 DEF UnderWay
    <2>6. sender[t] # "asking"
      BY <1>1, <1>2 DEF Progress, UnderWay
    <2>7. sender[t] = "draining" /\ got'[t] = sent[t] =>
            back'[t] # << >> /\ back'[t][Len(back'[t])] = ChunkAck(sent[t])
      <3>1. ASSUME sender[t] = "draining", got'[t] = sent[t]
            PROVE  back'[t] # << >> /\ back'[t][Len(back'[t])] = ChunkAck(sent[t])
        <4>1. t \in Acking
          BY <1>2, <3>1 DEF Progress
        <4>2. back'[t] = Append(back[t], ChunkAck(sent[t])) /\ ChunkAck(sent[t]) \in Frames
          BY <1>3, <2>1, <2>2, <3>1, <4>1
        <4>3. /\ Append(back[t], ChunkAck(sent[t])) # << >>
              /\ Len(Append(back[t], ChunkAck(sent[t]))) = Len(back[t]) + 1
              /\ Append(back[t], ChunkAck(sent[t]))[Len(back[t]) + 1] = ChunkAck(sent[t])
          BY <1>2, <4>2, Pushed, Zenon
        <4> QED
          BY <4>2, <4>3, Zenon
      <3> QED
        BY <3>1
    <2>8. WillRead(t)'
      BY <1>1, <1>2, <1>6, <2>1, <2>6, <2>7 DEF WillRead
    <2> QED
      BY <2>1, <2>4, <2>5, <2>8, OneTransfer DEF Going
  <1> QED
    BY <1>5, <1>6 DEF ReceiveChunk

LEMMA ReceiverEndsWindow ==
  ASSUME WindowInv, FilesShape', NEW t \in Transfers,
         Declined(t) \/ Complete(t) \/ StoreFails(t) \/ ReceiverFails(t)
  PROVE  WindowInv'
  <1>1. CASE Declined(t)
    BY <1>1, RefuseWindow DEF Declined, Answers
  <1>2. CASE Complete(t)
    BY <1>2, RefuseWindow DEF Complete, Answers
  <1>3. CASE StoreFails(t)
    BY <1>3, RefuseWindow DEF StoreFails, Answers
  <1>4. CASE ReceiverFails(t)
    <2>1. receiver[t] = "receiving" /\ End(t) /\ UNCHANGED <<sender, sent, since, pipe, back, got>>
      BY <1>4 DEF ReceiverFails
    <2>2. Progress(t) /\ UnderWay(t) /\ pipe[t] \in Nat /\ got[t] \in Nat
      BY OneGoing
    <2>3. stream[t] # "none" /\ Others(t) /\ receiver'[t] = "over"
      BY <2>1, <2>2 DEF End, Others, WindowInv, FilesShape, Counts, Progress
    <2>4. /\ stream' = [stream EXCEPT ![t] = "closed"]
          /\ sent' = sent /\ since' = since /\ pipe' = pipe /\ got' = got
          /\ sender'[t] \in {sender[t], "failed", "sent", "delivered"}
          /\ receiver'[t] \in {receiver[t], "over"}
      BY <2>1, <2>3 DEF End
    <2>5. \A n \in 1..Len(back'[t]) : back'[t][n].kind = "chunk" => back'[t][n].through <= got[t]
      BY <2>1, <2>2 DEF UnderWay
    <2> QED
      BY <2>3, <2>4, <2>5, StreamEnds, Zenon
  <1> QED
    BY <1>1, <1>2, <1>3, <1>4

LEMMA CutWindow ==
  ASSUME WindowInv, FilesShape', NEW t \in Transfers, Cut(t) PROVE WindowInv'
  <1>1. /\ stream[t] # "none" /\ stream' = [stream EXCEPT ![t] = "closed"]
        /\ UNCHANGED <<sender, sent, since, receiver, got>>
    BY DEF Cut
  <1>2. PICK n \in 0..pipe[t] : pipe' = [pipe EXCEPT ![t] = n]
    BY DEF Cut
  <1>3. PICK m \in 0..Len(back[t]) : back' = [back EXCEPT ![t] = SubSeq(@, 1, m)]
    BY DEF Cut
  <1>4. UnderWay(t) /\ pipe[t] \in Nat /\ got[t] \in Nat /\ sent[t] \in Nat /\ back[t] \in Seq(Frames)
    BY OneGoing
  <1>5. /\ Others(t) /\ pipe'[t] = n /\ n \in Nat /\ n <= pipe[t] /\ pipe' \in [Transfers -> Nat]
        /\ back'[t] = SubSeq(back[t], 1, m)
    BY <1>1, <1>2, <1>3, <1>4 DEF Others, WindowInv, FilesShape, Counts
  <1>6. \A i \in 1..Len(back'[t]) : back'[t][i].kind = "chunk" => back'[t][i].through <= got[t]
    BY <1>4, <1>5, PrefixTells DEF UnderWay
  <1>7. /\ pipe'[t] <= pipe[t] /\ pipe'[t] + got'[t] <= sent[t] /\ got'[t] >= got[t]
        /\ got' \in [Transfers -> Nat] /\ got'[t] = got[t]
    BY <1>1, <1>4, <1>5 DEF UnderWay, WindowInv, Counts
  <1>8. /\ sender'[t] \in {sender[t], "failed", "sent", "delivered"}
        /\ receiver'[t] \in {receiver[t], "over"}
        /\ UNCHANGED <<sent, since>>
    BY <1>1
  <1> QED
    BY <1>1, <1>5, <1>6, <1>7, <1>8, StreamClosed, Zenon

LEMMA FilesNextWindow == WindowInv /\ [FilesNext]_fileVars => WindowInv'
  <1> SUFFICES ASSUME WindowInv, [FilesNext]_fileVars PROVE WindowInv'
    OBVIOUS
  <1>1. FilesShape'
    BY FilesNextShape DEF WindowInv
  <1>2. CASE LoseIdentity \/ UNCHANGED fileVars
    BY <1>1, <1>2 DEF LoseIdentity, fileVars, WindowInv, Counts, Going, Progress, UnderWay, WillRead
  <1>3. ASSUME NEW t \in Transfers,
               \/ Announce(t) \/ ReadResponse(t) \/ SendChunk(t) \/ ReadAcks(t) \/ Confirmed(t)
               \/ SenderReadFails(t) \/ KeepOwnCopy(t)
        PROVE  WindowInv'
    BY <1>1, <1>3, AnnounceWindow, ReadResponseWindow, SendChunkWindow, ReadAcksWindow,
       SenderEndsWindow, KeepOwnCopyWindow
  <1>4. ASSUME NEW t \in Transfers,
               \/ ReadMeta(t) \/ Declined(t) \/ Accept(t) \/ ReceiveChunk(t) \/ Complete(t)
               \/ StoreFails(t) \/ ReceiverFails(t) \/ Cut(t)
        PROVE  WindowInv'
    BY <1>1, <1>4, ReadMetaWindow, AcceptWindow, ReceiveChunkWindow, ReceiverEndsWindow, CutWindow
  <1> QED
    BY <1>2, <1>3, <1>4 DEF FilesNext

(* Whatever window the sender uses and whoever acknowledges, the two ends  *)
(* never both wait, and no more than a window is under way.                *)
THEOREM WindowsMove == FilesSpec => []WindowKeepsMoving
  <1>1. WindowInv => WindowKeepsMoving
    <2> SUFFICES ASSUME WindowInv, NEW t \in Transfers
                 PROVE  /\ stream[t] = "open" /\ Reading(t) /\ back[t] = << >>
                             /\ receiver[t] = "receiving" => pipe[t] > 0
                        /\ t \in Acking => pipe[t] <= Window
      BY DEF WindowKeepsMoving
    <2>1. /\ Progress(t) /\ UnderWay(t) /\ WillRead(t) /\ sent[t] \in Nat /\ got[t] \in Nat
          /\ pipe[t] \in Nat /\ since[t] \in Nat /\ Chunks \in Nat \ {0} /\ Window \in Nat \ {0}
      BY OneGoing
    <2>2. t \in Acking => pipe[t] <= Window
      BY <2>1 DEF UnderWay
    <2>3. ASSUME stream[t] = "open", Reading(t), back[t] = << >>, receiver[t] = "receiving"
          PROVE  got[t] < sent[t] \/ got[t] > sent[t]
      BY <2>1, <2>3 DEF Reading, Progress, WillRead
    <2> QED
      BY <2>1, <2>2, <2>3 DEF UnderWay
  <1> QED
    BY <1>1, FilesInitWindow, FilesNextWindow, PTL DEF FilesSpec


-----------------------------------------------------------------------------
(* The exact types of a transfer.                                          *)

(* What a receiver ever writes.                                            *)
Written == {Answer(k) : k \in Answers} \cup {ChunkAck(n) : n \in 1..Chunks}

FilesExact ==
  /\ since \in [Transfers -> 0..Window] /\ acked \in [Transfers -> 0..Chunks]
  /\ back \in [Transfers -> Seq(Written)]
  /\ saved \subseteq Transfers /\ dropped \subseteq Transfers /\ identity \in BOOLEAN

FilesTypes == WindowInv /\ SlotsInv /\ FilesExact

LEMMA FilesNumbers ==
  /\ Chunks \in Nat /\ Chunks > 0 /\ Window \in Nat /\ Window > 0
  /\ MaxPerPeer \in Nat /\ MaxTotal \in Nat
  BY FilesAssumption

LEMMA WrittenThrough == \A f \in Written : f.through \in 0..Chunks
  BY FilesNumbers DEF Written, Answer, ChunkAck

LEMMA RefuseWrites ==
  ASSUME FilesExact, NEW t \in Transfers, NEW k \in Answers, Refuse(t, k)
  PROVE  back' \in [Transfers -> Seq(Written)]
  <1>1. Append(back[t], Answer(k)) \in Seq(Written)
    BY Pieces DEF FilesExact, Written
  <1> QED BY <1>1 DEF Refuse, Reply, FilesExact

(* The sender.                                                             *)
LEMMA SenderExact ==
  ASSUME FilesExact, NEW t \in Transfers,
         \/ Announce(t) \/ ReadResponse(t) \/ SendChunk(t) \/ ReadAcks(t) \/ Confirmed(t)
         \/ SenderReadFails(t) \/ KeepOwnCopy(t)
  PROVE  FilesExact'
  <1>1. back[t] # << >> => Head(back[t]) \in Written /\ Tail(back[t]) \in Seq(Written)
    BY Pieces DEF FilesExact
  <1>2. CASE Announce(t) \/ SenderReadFails(t) \/ KeepOwnCopy(t)
    BY <1>2 DEF Announce, SenderReadFails, KeepOwnCopy, FilesExact
  <1>3. CASE ReadResponse(t) \/ Confirmed(t)
    BY <1>1, <1>3 DEF ReadResponse, Confirmed, FilesExact
  <1>4. CASE SendChunk(t)
    <2>1. since[t] \in 0..Window
      BY DEF FilesExact
    <2>2. (IF since[t] < Window THEN since[t] + 1 ELSE since[t]) \in 0..Window
      BY <2>1, FilesNumbers
    <2>3. since' \in [Transfers -> 0..Window]
      BY <1>4, <2>2 DEF SendChunk, FilesExact
    <2> QED BY <1>4, <2>3 DEF SendChunk, FilesExact
  <1>5. CASE ReadAcks(t)
    <2>1. back' = [back EXCEPT ![t] = Tail(@)] /\ UNCHANGED <<saved, dropped, identity>>
      BY <1>5 DEF ReadAcks
    <2>2. Head(back[t]).through \in 0..Chunks
      BY <1>1, <1>5, WrittenThrough DEF ReadAcks
    <2>3. acked' \in [Transfers -> 0..Chunks] /\ since' \in [Transfers -> 0..Window]
      <3>1. 0 \in 0..Window /\ since[t] \in 0..Window
        BY FilesNumbers DEF FilesExact
      <3>2. acked' = acked \/ acked' = [acked EXCEPT ![t] = Head(back[t]).through]
        BY <1>5 DEF ReadAcks
      <3>3. \/ since' = since
            \/ \E covered : since' = [since EXCEPT ![t] = IF covered THEN 0 ELSE @]
        BY <1>5 DEF ReadAcks
      <3> QED BY <2>2, <3>1, <3>2, <3>3 DEF FilesExact
    <2>4. back' \in [Transfers -> Seq(Written)]
      BY <1>1, <1>5, <2>1 DEF ReadAcks, FilesExact
    <2> QED BY <2>1, <2>3, <2>4 DEF FilesExact
  <1> QED BY <1>2, <1>3, <1>4, <1>5

(* The receiver and the network.                                           *)
LEMMA ReceiverExact ==
  ASSUME WindowInv, FilesExact, NEW t \in Transfers,
         \/ ReadMeta(t) \/ Declined(t) \/ Accept(t) \/ ReceiveChunk(t) \/ Complete(t)
         \/ StoreFails(t) \/ ReceiverFails(t) \/ Cut(t)
  PROVE  FilesExact'
  <1>1. /\ UNCHANGED <<since, acked>> /\ identity' \in BOOLEAN
        /\ saved' \subseteq Transfers /\ dropped' \subseteq Transfers
    BY DEF ReadMeta, Declined, Accept, ReceiveChunk, Complete, StoreFails, ReceiverFails, Cut,
           FilesExact
  <1>2. SUFFICES back' \in [Transfers -> Seq(Written)]
    BY <1>1 DEF FilesExact
  <1>3. back \in [Transfers -> Seq(Written)]
    BY DEF FilesExact
  <1>4. {"accept", "reject", "stored", "refused"} = Answers
    BY DEF Answers
  <1>5. CASE ReadMeta(t) \/ Declined(t) \/ Complete(t) \/ StoreFails(t) \/ ReceiverFails(t)
    BY <1>3, <1>4, <1>5, RefuseWrites DEF ReadMeta, Declined, Complete, StoreFails, ReceiverFails
  <1>6. CASE Accept(t)
    <2>1. Append(back[t], Answer("accept")) \in Seq(Written)
      BY <1>3, <1>4, Pieces DEF Written
    <2> QED BY <1>3, <1>4, <1>6, <2>1, RefuseWrites DEF Accept, Reply
  <1>7. CASE ReceiveChunk(t)
    <2>1. got[t] + 1 \in 1..Chunks
      BY <1>7, OneGoing DEF ReceiveChunk, Progress
    <2>2. Append(back[t], ChunkAck(got[t] + 1)) \in Seq(Written)
      BY <1>3, <2>1, Pieces DEF Written
    <2> QED BY <1>3, <1>7, <2>2 DEF ReceiveChunk, Reply
  <1>8. CASE Cut(t)
    <2>1. PICK n \in 0..Len(back[t]) : back' = [back EXCEPT ![t] = SubSeq(@, 1, n)]
      BY <1>8 DEF Cut
    <2>2. SubSeq(back[t], 1, n) \in Seq(Written)
      BY <1>3, Pieces
    <2> QED BY <1>3, <2>1, <2>2
  <1> QED BY <1>5, <1>6, <1>7, <1>8

LEMMA FilesNextTypes == FilesTypes /\ [FilesNext]_fileVars => FilesTypes'
  <1> SUFFICES ASSUME FilesTypes, [FilesNext]_fileVars PROVE FilesExact'
    BY FilesNextWindow, FilesNextSlots DEF FilesTypes
  <1>1. CASE LoseIdentity \/ UNCHANGED fileVars
    BY <1>1 DEF LoseIdentity, fileVars, FilesTypes, FilesExact
  <1>2. CASE FilesNext /\ ~LoseIdentity
    BY <1>2, SenderExact, ReceiverExact DEF FilesNext, FilesTypes
  <1> QED BY <1>1, <1>2

LEMMA FilesInitTypes == FilesInit => FilesTypes
  BY FilesInitWindow, FilesInitSlots, FilesNumbers, EmptySeq DEF FilesInit, FilesTypes, FilesExact

(* Every counter of a transfer stays within its size, its window and the   *)
(* limits of the receiver, and only answers and acknowledgements of chunks *)
(* that exist travel back.                                                 *)
THEOREM FilesTypeCorrect == FilesSpec => []FilesTypeOK
  <1>1. FilesTypes => FilesTypeOK
    <2> SUFFICES ASSUME FilesTypes PROVE FilesTypeOK
      OBVIOUS
    <2>1. ASSUME NEW t \in Transfers
          PROVE  sent[t] \in 0..Chunks /\ got[t] \in 0..Chunks /\ pipe[t] \in 0..Chunks
      BY OneGoing DEF FilesTypes, Progress, UnderWay
    <2>2. \A t \in Transfers : \A n \in DOMAIN back[t] : back[t][n] \in Written
      BY ElementOfSeq, LenProperties DEF FilesTypes, FilesExact
    <2>3. total \in 0..MaxTotal /\ perPeer \in [Peers -> 0..MaxPerPeer]
      BY FilesNumbers DEF FilesTypes, SlotsInv, SlotsRight, FilesShape
    <2>4. /\ sent \in [Transfers -> 0..Chunks] /\ got \in [Transfers -> 0..Chunks]
          /\ pipe \in [Transfers -> 0..Chunks]
      BY <2>1 DEF FilesTypes, WindowInv, Counts
    <2> QED
      BY <2>2, <2>3, <2>4
      DEF FilesTypes, FilesTypeOK, FilesExact, WindowInv, FilesShape, Counts, Written, Peers,
          SenderStates, ReceiverStates
  <1> QED BY <1>1, FilesInitTypes, FilesNextTypes, PTL DEF FilesSpec


-----------------------------------------------------------------------------
(* Transfer: moving an account to another device.                         *)

(* A move of the old device is under way.                                  *)
Active == mover \in {"calling", "sending", "draining", "ending"}

WireFrame ==
  [t : {"hello", "ready", "data", "ack", "end", "done", "failed", "decline"}, i : Nat, v : Nat]

(* What the old device has sent: a record of that move or a later change   *)
(* of it, and an end only after the last one.                              *)
OutgoingFrames ==
  {f \in WireFrame :
     /\ f.t = "data" => f.i < Records /\ (Active => f.v >= atCall[f.i + 1])
     /\ f.t = "end" => f.i = Records}

(* The account is on the new device, where no screen would erase it.       *)
Arrived ==
  /\ \A r \in All : received[r] # Absent /\ received[r] >= atCall[r]
  /\ screen \in {"finished", "over"}

(* What the new device has said: `done' in this move means arrived.        *)
Incoming == {f \in WireFrame : f.t = "done" /\ Active => Arrived}

Shape ==
  /\ have \in [All -> Nat] /\ atCall \in [All -> Nat]
  /\ \A r \in All : have[r] >= atCall[r]
  /\ received \in [All -> Nat \cup {Absent}]
  /\ out \in 0..Records /\ expected \in 0..Records

Wires ==
  /\ toNew \in Seq(OutgoingFrames) /\ toOld \in Seq(Incoming)
  /\ line = "open" => Active

(* The restore: the records taken are there, each as it was at the call or *)
(* later.                                                                  *)
Restoring ==
  /\ screen = "asking" /\ caller = "old" => expected = 0
  /\ screen = "restoring" =>
       /\ caller = "old"
       /\ \A r \in 1..expected : received[r] # Absent /\ (Active => received[r] >= atCall[r])

Moved ==
  /\ mover = "moved" => Arrived
  /\ old = "erased" => mover = "moved"

TransferInv == Shape /\ Wires /\ Restoring /\ Moved /\ NoHalfAccount

-----------------------------------------------------------------------------

LEMMA Typed ==
  /\ Records \in Nat /\ Records >= 1 /\ Identity \in All /\ AckWindow \in Nat /\ AckWindow >= 1
  /\ Absent \notin Nat /\ All = 1..Records
  BY TransferAssumption DEF All

LEMMA Words ==
  \A t \in {"hello", "ready", "data", "ack", "end", "done", "failed", "decline"} :
    \A i, v \in Nat :
      /\ MoveFrame(t, i, v) \in WireFrame
      /\ MoveFrame(t, i, v).t = t /\ MoveFrame(t, i, v).i = i /\ MoveFrame(t, i, v).v = v
  BY DEF MoveFrame, WireFrame

LEMMA InitTransferInv == TransferInit => TransferInv
  BY Typed DEF TransferInit, TransferInv, Shape, Wires, Restoring, Moved, NoHalfAccount, Nothing,
               Active, Whole

(* What the steps of the old device, and the network, leave as it is.      *)
LEMMA OldKept ==
  ASSUME TransferInv, UNCHANGED <<newVars, atCall>>, Active' => Active,
         have' \in [All -> Nat], \A r \in All : have'[r] >= have[r], out' \in 0..Records,
         toNew' \in Seq(OutgoingFrames), toOld' \in Seq(Incoming), line' = "open" => Active',
         mover' = "moved" => Arrived, old' = "erased" => mover' = "moved"
  PROVE  TransferInv'
  <1>1. (Arrived => Arrived') /\ NoHalfAccount'
    BY DEF Arrived, newVars, TransferInv, NoHalfAccount, Whole
  <1>2. OutgoingFrames \subseteq OutgoingFrames' /\ Incoming \subseteq Incoming'
    BY <1>1 DEF OutgoingFrames, Incoming
  <1>3. Wires'
    BY <1>2, Widened DEF Wires
  <1>4. Shape'
    BY DEF TransferInv, Shape, newVars
  <1>5. Restoring'
    BY DEF TransferInv, Restoring, newVars
  <1>6. Moved'
    BY <1>1 DEF Moved
  <1> QED BY <1>1, <1>3, <1>4, <1>5, <1>6 DEF TransferInv

(* What the steps of the new device leave as it is.                        *)
LEMMA NewKept ==
  ASSUME TransferInv, UNCHANGED oldVars, received' \in [All -> Nat \cup {Absent}],
         expected' \in 0..Records, Arrived => Arrived', toNew' \in Seq(OutgoingFrames),
         toOld' \in Seq(Incoming'), line' = "open" => line = "open", Restoring', NoHalfAccount'
  PROVE  TransferInv'
  <1>1. OutgoingFrames \subseteq OutgoingFrames' /\ (Active => Active') /\ (Active' => Active)
    BY DEF OutgoingFrames, Active, oldVars
  <1>2. Wires'
    BY <1>1, Widened DEF TransferInv, Wires
  <1>3. Shape' /\ Moved'
    BY DEF TransferInv, Shape, Moved, oldVars
  <1> QED BY <1>2, <1>3 DEF TransferInv

(* What the new device has said stays said, unless it is word of the end.  *)
LEMMA Saying ==
  ASSUME TransferInv, UNCHANGED oldVars, Arrived => Arrived'
  PROVE  /\ toOld \in Seq(Incoming')
         /\ \A t \in {"ready", "failed", "decline"} : Says(t) \in Incoming'
         /\ \A i \in Nat : MoveFrame("ack", i, 0) \in Incoming'
         /\ Arrived' => Says("done") \in Incoming'
  <1>1. Incoming \subseteq Incoming'
    BY DEF Incoming, Active, oldVars
  <1>2. \A t \in {"ready", "failed", "decline"} : Says(t) \in Incoming'
    BY Words DEF Says, Incoming
  <1>3. \A i \in Nat : MoveFrame("ack", i, 0) \in Incoming'
    BY Words DEF Incoming
  <1>4. Arrived' => Says("done") \in Incoming'
    BY Words DEF Says, Incoming
  <1> QED BY <1>1, <1>2, <1>3, <1>4, Widened DEF TransferInv, Wires

LEMMA LastSaid ==
  ASSUME toOld \in Seq(Incoming'), NEW t, Says(t) \in Incoming', SayLast(t)
  PROVE  toOld' \in Seq(Incoming') /\ line' # "open"
  <1>1. Append(toOld, Says(t)) \in Seq(Incoming')
    BY Pieces
  <1> QED BY <1>1 DEF SayLast

-----------------------------------------------------------------------------
(* The old device.                                                         *)

LEMMA ReceiveInv == ASSUME TransferInv, Receive PROVE TransferInv'
  <1>1. PICK r \in All : have' = [have EXCEPT ![r] = @ + 1]
    BY DEF Receive
  <1>2. have' \in [All -> Nat] /\ \A q \in All : have'[q] >= have[q]
    BY <1>1 DEF TransferInv, Shape
  <1>3. UNCHANGED <<newVars, atCall, old, mover, out, toNew, toOld, line>>
    BY DEF Receive
  <1>4. Active' = Active
    BY <1>3 DEF Active
  <1> QED BY <1>2, <1>3, <1>4, OldKept DEF TransferInv, Shape, Wires, Moved

(* A call is a move of its own: both lines are empty, and the new device   *)
(* is not restoring.                                                       *)
LEMMA CallInv == ASSUME TransferInv, Call PROVE TransferInv'
  <1>1. /\ old = "using" /\ mover \in {"idle", "failed"} /\ atCall' = have
        /\ UNCHANGED <<old, have, newVars>>
        /\ \/ caller = "old" /\ mover' = "failed" /\ UNCHANGED <<out, unacked, line, toNew, toOld>>
           \/ /\ caller # "old" /\ mover' = "calling" /\ out' = 0 /\ line' = "open"
              /\ toNew' = <<Says("hello")>> /\ toOld' = << >>
    BY DEF Call
  <1>2. Shape'
    BY <1>1, Typed DEF TransferInv, Shape, newVars
  <1>3. NoHalfAccount' /\ Moved'
    BY <1>1 DEF TransferInv, NoHalfAccount, Whole, Moved, newVars
  <1>4. CASE caller = "old"
    <2>1. ~Active /\ ~Active' /\ UNCHANGED <<line, toNew, toOld>>
      BY <1>1, <1>4 DEF Active
    <2>2. OutgoingFrames \subseteq OutgoingFrames' /\ Incoming \subseteq Incoming'
      BY <2>1 DEF OutgoingFrames, Incoming
    <2>3. Wires'
      BY <2>1, <2>2, Widened DEF TransferInv, Wires
    <2>4. Restoring'
      BY <1>1, <2>1 DEF TransferInv, Restoring, newVars
    <2> QED BY <1>2, <1>3, <2>3, <2>4 DEF TransferInv
  <1>5. CASE caller # "old"
    <2>1. Active' /\ toNew' = <<Says("hello")>> /\ toOld' = << >>
      BY <1>1, <1>5 DEF Active
    <2>2. Says("hello") \in OutgoingFrames'
      BY Words DEF Says, OutgoingFrames
    <2>3. Wires'
      BY <2>1, <2>2 DEF Wires
    <2>4. Restoring'
      BY <1>1, <1>5 DEF TransferInv, Restoring, newVars
    <2> QED BY <1>2, <1>3, <2>3, <2>4 DEF TransferInv
  <1> QED BY <1>4, <1>5

LEMMA ReadReplyInv == ASSUME TransferInv, ReadReply PROVE TransferInv'
  <1>1. /\ mover = "calling" /\ toOld # << >> /\ toOld' = Tail(toOld)
        /\ UNCHANGED <<newVars, atCall, old, have, out, toNew>>
        /\ \/ mover' = "sending" /\ line' = line
           \/ mover' = "failed" /\ line' = "closed"
    BY DEF ReadReply, MoveFails
  <1>2. toOld' \in Seq(Incoming)
    BY <1>1, Pieces DEF TransferInv, Wires
  <1>3. Active /\ (line' = "open" => Active')
    BY <1>1 DEF Active
  <1> QED BY <1>1, <1>2, <1>3, OldKept DEF TransferInv, Shape, Wires, Moved

(* The record is read now, after the call.                                 *)
LEMMA SendPieceInv == ASSUME TransferInv, SendPiece PROVE TransferInv'
  <1>1. /\ mover = "sending" /\ out < Records
        /\ UNCHANGED <<newVars, atCall, old, have, toOld>>
        /\ \/ /\ toNew' = Append(toNew, MoveFrame("data", out, have[out + 1])) /\ out' = out + 1
              /\ mover' \in {"draining", "sending"} /\ line' = line
           \/ mover' = "failed" /\ line' = "closed" /\ UNCHANGED <<toNew, out>>
    BY DEF SendPiece, MoveFails
  <1>2. out \in Nat /\ out + 1 \in All /\ have[out + 1] \in Nat /\ have[out + 1] >= atCall[out + 1]
    BY <1>1, Typed DEF TransferInv, Shape
  <1>3. MoveFrame("data", out, have[out + 1]) \in OutgoingFrames
    <2>1. out \in Nat /\ have[out + 1] \in Nat
      BY <1>2
    <2>2. /\ MoveFrame("data", out, have[out + 1]) \in WireFrame
          /\ MoveFrame("data", out, have[out + 1]).t = "data"
          /\ MoveFrame("data", out, have[out + 1]).i = out
          /\ MoveFrame("data", out, have[out + 1]).v = have[out + 1]
      BY <2>1 DEF MoveFrame, WireFrame
    <2> QED BY <1>1, <1>2, <2>2 DEF OutgoingFrames
  <1>4. toNew' \in Seq(OutgoingFrames)
    BY <1>1, <1>3, Pieces DEF TransferInv, Wires
  <1>5. Active /\ (line' = "open" => Active')
    BY <1>1 DEF Active
  <1>6. out' \in 0..Records
    <2>1. out \in 0..Records /\ out + 1 \in 0..Records
      BY <1>1, <1>2, Typed DEF TransferInv, Shape
    <2>2. out' = out \/ out' = out + 1
      BY <1>1
    <2> QED BY <2>1, <2>2
  <1> QED BY <1>1, <1>4, <1>5, <1>6, OldKept DEF TransferInv, Shape, Wires, Moved

LEMMA ReadPieceAckInv == ASSUME TransferInv, ReadPieceAck PROVE TransferInv'
  <1>1. /\ mover = "draining" /\ toOld # << >> /\ toOld' = Tail(toOld)
        /\ UNCHANGED <<newVars, atCall, old, have, out, toNew>>
        /\ \/ mover' = "sending" /\ line' = line
           \/ mover' = "failed" /\ line' = "closed"
    BY DEF ReadPieceAck, MoveFails
  <1>2. toOld' \in Seq(Incoming)
    BY <1>1, Pieces DEF TransferInv, Wires
  <1>3. Active /\ (line' = "open" => Active')
    BY <1>1 DEF Active
  <1> QED BY <1>1, <1>2, <1>3, OldKept DEF TransferInv, Shape, Wires, Moved

LEMMA SendEndInv == ASSUME TransferInv, SendEnd PROVE TransferInv'
  <1>1. /\ mover = "sending" /\ out = Records
        /\ UNCHANGED <<newVars, atCall, old, have, out, toOld>>
        /\ \/ mover' = "ending" /\ toNew' = Append(toNew, MoveFrame("end", out, 0)) /\ line' = line
           \/ mover' = "failed" /\ line' = "closed" /\ toNew' = toNew
    BY DEF SendEnd, MoveFails
  <1>2. MoveFrame("end", out, 0) \in OutgoingFrames
    BY <1>1, Words, Typed DEF OutgoingFrames
  <1>3. toNew' \in Seq(OutgoingFrames)
    BY <1>1, <1>2, Pieces DEF TransferInv, Wires
  <1>4. Active /\ (line' = "open" => Active')
    BY <1>1 DEF Active
  <1> QED BY <1>1, <1>3, <1>4, OldKept DEF TransferInv, Shape, Wires, Moved

(* The `done' that the old device reads is of its present move.            *)
LEMMA ReadDoneInv == ASSUME TransferInv, ReadDone PROVE TransferInv'
  <1>1. /\ mover = "ending" /\ toOld # << >> /\ toOld' = Tail(toOld)
        /\ UNCHANGED <<newVars, atCall, old, have, out, toNew>>
        /\ \/ mover' = mover /\ line' = line
           \/ Head(toOld).t = "done" /\ mover' = "moved" /\ line' = "closed"
           \/ mover' = "failed" /\ line' = "closed"
    BY DEF ReadDone, MoveFails
  <1>2. Active /\ (line' = "open" => Active')
    BY <1>1 DEF Active
  <1>3. Head(toOld) \in Incoming /\ toOld' \in Seq(Incoming)
    BY <1>1, Pieces DEF TransferInv, Wires
  <1>4. mover' = "moved" => Arrived
    BY <1>1, <1>2, <1>3 DEF Incoming
  <1>5. old # "erased"
    BY <1>1 DEF TransferInv, Moved
  <1> QED BY <1>1, <1>2, <1>3, <1>4, <1>5, OldKept DEF TransferInv, Shape, Wires

LEMMA OldGivesUpInv == ASSUME TransferInv, OldGivesUp PROVE TransferInv'
  <1>1. /\ mover \in {"calling", "draining", "ending"} /\ mover' = "failed" /\ line' = "closed"
        /\ UNCHANGED <<newVars, atCall, old, have, out, toNew, toOld>>
    BY DEF OldGivesUp, MoveFails
  <1>2. Active /\ old # "erased"
    BY <1>1 DEF Active, TransferInv, Moved
  <1> QED BY <1>1, <1>2, OldKept DEF TransferInv, Shape, Wires

LEMMA EraseInv == ASSUME TransferInv, Erase PROVE TransferInv'
  <1>1. /\ mover = "moved"
        /\ UNCHANGED <<newVars, atCall, have, mover, out, toNew, toOld, line>>
    BY DEF Erase
  <1>2. Active' = Active
    BY <1>1 DEF Active
  <1> QED BY <1>1, <1>2, OldKept DEF TransferInv, Shape, Wires, Moved

LEMMA OldReloadsInv == ASSUME TransferInv, OldReloads PROVE TransferInv'
  <1>1. /\ old = "using" /\ mover' = "idle" /\ line' = "closed"
        /\ UNCHANGED <<newVars, atCall, old, have, out, toNew, toOld>>
    BY DEF OldReloads
  <1>2. ~Active'
    BY <1>1 DEF Active
  <1> QED BY <1>1, <1>2, OldKept DEF TransferInv, Shape, Wires

(* Each side still gets a prefix.                                          *)
LEMMA BreakInv == ASSUME TransferInv, Break PROVE TransferInv'
  <1>1. /\ line' = "closed" /\ UNCHANGED <<oldVars, newVars>>
        /\ \E n \in 0..Len(toNew) : toNew' = SubSeq(toNew, 1, n)
        /\ \E n \in 0..Len(toOld) : toOld' = SubSeq(toOld, 1, n)
    BY DEF Break
  <1>2. toNew' \in Seq(OutgoingFrames) /\ toOld' \in Seq(Incoming)
    BY <1>1, Pieces DEF TransferInv, Wires
  <1>3. Active' = Active
    BY <1>1 DEF Active, oldVars
  <1> QED BY <1>1, <1>2, <1>3, OldKept DEF TransferInv, Shape, Moved, oldVars

-----------------------------------------------------------------------------
(* The new device.                                                         *)

LEMMA TakeCallInv == ASSUME TransferInv, TakeCall PROVE TransferInv'
  <1>1. /\ toNew # << >> /\ toNew' = Tail(toNew) /\ UNCHANGED <<oldVars, received, cutShort>>
        /\ \/ /\ screen = "listening" /\ screen' = "asking" /\ expected' = 0
              /\ UNCHANGED <<toOld, line>>
           \/ SayLast("decline") /\ UNCHANGED <<screen, caller, expected>>
    BY DEF TakeCall
  <1>2. Arrived => Arrived'
    BY <1>1 DEF Arrived, oldVars
  <1>3. toNew' \in Seq(OutgoingFrames)
    BY <1>1, Pieces DEF TransferInv, Wires
  <1>4. toOld' \in Seq(Incoming') /\ (line' = "open" => line = "open")
    BY <1>1, <1>2, Saying, LastSaid
  <1>5. expected' \in 0..Records /\ received' \in [All -> Nat \cup {Absent}]
    BY <1>1, Typed DEF TransferInv, Shape
  <1>6. Restoring'
    BY <1>1 DEF TransferInv, Restoring, Active, oldVars
  <1>7. NoHalfAccount'
    BY <1>1 DEF TransferInv, NoHalfAccount, Whole
  <1> QED BY <1>1, <1>2, <1>3, <1>4, <1>5, <1>6, <1>7, NewKept

(* Steps that change neither the records nor the lines.                    *)
LEMMA ScreenOnly ==
  ASSUME TransferInv, UNCHANGED <<oldVars, toNew, toOld, expected, received>>,
         line' = "open" => line = "open",
         Arrived => screen' \in {"finished", "over"}, screen' # "restoring",
         screen' = "asking" /\ caller' = "old" => screen = "asking" /\ caller = "old",
         ~cutShort' => ~cutShort /\ screen # "restoring"
  PROVE  TransferInv'
  <1>1. Arrived => Arrived'
    BY DEF Arrived, oldVars
  <1>2. Restoring' /\ NoHalfAccount'
    BY DEF TransferInv, Restoring, NoHalfAccount, Whole
  <1>3. toOld' \in Seq(Incoming')
    BY <1>1, Saying
  <1> QED BY <1>1, <1>2, <1>3, NewKept DEF TransferInv, Shape, Wires

LEMMA StrangerCallsInv == ASSUME TransferInv, StrangerCalls PROVE TransferInv'
  BY ScreenOnly DEF StrangerCalls, Arrived

LEMMA MakeIdentityInv == ASSUME TransferInv, MakeIdentity PROVE TransferInv'
  BY ScreenOnly DEF MakeIdentity, Arrived

LEMMA NewReloadsInv == ASSUME TransferInv, NewReloads PROVE TransferInv'
  BY ScreenOnly DEF NewReloads

LEMMA DeclineInv == ASSUME TransferInv, Decline PROVE TransferInv'
  <1>1. /\ screen = "asking" /\ screen' = "listening"
        /\ UNCHANGED <<oldVars, toNew, expected, received, cutShort>>
        /\ SayLast("decline") \/ UNCHANGED <<toOld, line>>
    BY DEF Decline
  <1>2. ~Arrived /\ Restoring' /\ NoHalfAccount'
    BY <1>1 DEF Arrived, Restoring, TransferInv, NoHalfAccount, Whole
  <1>3. toOld' \in Seq(Incoming') /\ (line' = "open" => line = "open")
    BY <1>1, <1>2, Saying, LastSaid
  <1> QED BY <1>1, <1>2, <1>3, NewKept DEF TransferInv, Shape, Wires

(* A new code is shown only where there is no identity, so no account.     *)
LEMMA ListenInv == ASSUME TransferInv, Listen PROVE TransferInv'
  <1>1. /\ screen \in {"finished", "over"} /\ received[Identity] = Absent /\ screen' = "listening"
        /\ toNew' = << >> /\ line' = "closed"
        /\ UNCHANGED <<oldVars, toOld, expected, received, cutShort>>
    BY DEF Listen
  <1>2. ~Arrived /\ Restoring' /\ NoHalfAccount'
    BY <1>1, Typed DEF Arrived, Restoring, TransferInv, NoHalfAccount, Whole
  <1>3. toOld' \in Seq(Incoming') /\ toNew' \in Seq(OutgoingFrames)
    BY <1>1, <1>2, Saying
  <1> QED BY <1>1, <1>2, <1>3, NewKept DEF TransferInv, Shape

(* Every way to abort clears the stores, which hold no account that has    *)
(* arrived, or is known to have failed in that.                            *)
LEMMA AbortInv ==
  ASSUME TransferInv, UNCHANGED <<oldVars, expected>>, screen \in {"asking", "restoring"},
         screen' = "finished", \E left \in SUBSET All : Clear(left), toNew' \in Seq(OutgoingFrames),
         SayLast("failed")
           \/ (line' = "closed" /\ toOld' = toOld \o <<Says("ready"), Says("failed")>>)
  PROVE  TransferInv'
  <1>1. PICK left \in SUBSET All : Clear(left)
    OBVIOUS
  <1>2. received' \in [All -> Nat \cup {Absent}]
    BY <1>1 DEF Clear, TransferInv, Shape
  <1>3. ~cutShort' => received' = Nothing
    BY <1>1 DEF Clear, Nothing
  <1>4. ~Arrived /\ Restoring' /\ NoHalfAccount'
    BY <1>3 DEF Arrived, Restoring, NoHalfAccount
  <1>5. /\ toOld \in Seq(Incoming') /\ Says("ready") \in Incoming' /\ Says("failed") \in Incoming'
    BY <1>4, Saying
  <1>6. toOld \o <<Says("ready"), Says("failed")>> \in Seq(Incoming')
    BY <1>5, ConcatProperties
  <1>7. toOld' \in Seq(Incoming') /\ line' # "open"
    BY <1>5, <1>6, LastSaid
  <1> QED BY <1>2, <1>4, <1>7, NewKept DEF TransferInv, Shape

LEMMA ConfirmInv == ASSUME TransferInv, Confirm PROVE TransferInv'
  <1>1. /\ screen = "asking" /\ caller = "old" /\ UNCHANGED <<oldVars, toNew, expected>>
    BY DEF Confirm
  <1>2. CASE /\ screen' = "listening" /\ caller' = "nobody"
             /\ UNCHANGED <<toOld, line, received, other, cutShort>>
    BY <1>1, <1>2, ScreenOnly DEF Arrived
  <1>3. CASE /\ screen' = "finished" /\ line' = "closed"
             /\ \E left \in SUBSET All : Clear(left)
             /\ toOld' = toOld \o <<Says("ready"), Says("failed")>>
    BY <1>1, <1>3, AbortInv DEF TransferInv, Wires
  <1>4. CASE /\ screen' = "restoring" /\ received' = Nothing
             /\ toOld' = Append(toOld, Says("ready"))
             /\ UNCHANGED <<line, caller, other, cutShort>>
    <2>1. /\ screen' = "restoring" /\ received' = Nothing /\ line' = line /\ caller' = caller
          /\ toOld' = Append(toOld, Says("ready"))
      BY <1>4
    <2>2. ~Arrived /\ NoHalfAccount'
      BY <1>1, <2>1 DEF Arrived, NoHalfAccount
    <2>3. expected' = 0 /\ Restoring'
      BY <1>1, <2>1 DEF TransferInv, Restoring
    <2>4. toOld \in Seq(Incoming') /\ Says("ready") \in Incoming'
      BY <1>1, <2>2, Saying
    <2>5. toOld' \in Seq(Incoming')
      BY <2>1, <2>4, Pieces
    <2>6. received' \in [All -> Nat \cup {Absent}]
      BY <2>1 DEF Nothing
    <2> QED BY <1>1, <2>1, <2>2, <2>3, <2>5, <2>6, NewKept DEF TransferInv, Shape, Wires
  <1> QED BY <1>2, <1>3, <1>4 DEF Confirm

LEMMA TakePieceInv == ASSUME TransferInv, TakePiece PROVE TransferInv'
  <1> DEFINE piece == Head(toNew)
             owed == (expected + 1) % AckWindow = 0
  <1>1. /\ screen = "restoring" /\ toNew # << >> /\ piece.t = "data" /\ toNew' = Tail(toNew)
        /\ UNCHANGED oldVars
        /\ \/ Abort /\ expected' = expected
           \/ /\ piece.i = expected /\ received' = [received EXCEPT ![expected + 1] = piece.v]
              /\ expected' = expected + 1
              /\ toOld' = IF owed THEN Append(toOld, MoveFrame("ack", expected, 0)) ELSE toOld
              /\ UNCHANGED <<screen, caller, line>>
    BY DEF TakePiece
  <1>2. piece \in OutgoingFrames /\ toNew' \in Seq(OutgoingFrames)
    BY <1>1, Pieces DEF TransferInv, Wires
  <1>3. CASE Abort /\ expected' = expected
    BY <1>1, <1>2, <1>3, AbortInv DEF Abort
  <1>4. CASE /\ piece.i = expected /\ received' = [received EXCEPT ![expected + 1] = piece.v]
             /\ expected' = expected + 1
             /\ toOld' = IF owed THEN Append(toOld, MoveFrame("ack", expected, 0)) ELSE toOld
             /\ UNCHANGED <<screen, caller, line>>
    <2> HIDE DEF owed
    <2>1. /\ expected \in Nat /\ expected < Records /\ piece.v \in Nat
          /\ Active => piece.v >= atCall[expected + 1]
      <3> HIDE DEF piece
      <3>1. piece.t = "data" /\ piece \in OutgoingFrames
        BY <1>1, <1>2
      <3>2. /\ piece \in WireFrame /\ piece.i < Records
            /\ Active => piece.v >= atCall[piece.i + 1]
        BY <3>1 DEF OutgoingFrames
      <3> QED BY <1>4, <3>2 DEF WireFrame
    <2>2. expected + 1 \in All /\ expected' \in 0..Records
      BY <1>4, <2>1, Typed
    <2>3. received' \in [All -> Nat \cup {Absent}]
      BY <1>4, <2>1, <2>2 DEF TransferInv, Shape
    <2>4. ~Arrived /\ NoHalfAccount'
      BY <1>1, <1>4 DEF Arrived, NoHalfAccount
    <2>5. Restoring'
      <3>1. caller' = "old" /\ screen' = "restoring" /\ Active' = Active /\ atCall' = atCall
        BY <1>1, <1>4 DEF TransferInv, Restoring, Active, oldVars
      <3>2. ASSUME NEW r \in 1..expected'
            PROVE  received'[r] # Absent /\ (Active => received'[r] >= atCall[r])
        <4>1. CASE r = expected + 1
          BY <1>4, <2>1, <2>2, <4>1, Typed DEF TransferInv, Shape
        <4>2. CASE r # expected + 1
          <5>1. r \in 1..expected
            BY <1>4, <2>1, <4>2
          <5> QED BY <1>1, <1>4, <4>2, <5>1 DEF TransferInv, Restoring, Shape
        <4> QED BY <4>1, <4>2
      <3> QED BY <3>1, <3>2 DEF Restoring
    <2>6. toOld \in Seq(Incoming') /\ MoveFrame("ack", expected, 0) \in Incoming'
      BY <1>1, <2>1, <2>4, Saying
    <2>7. toOld' \in Seq(Incoming')
      BY <1>4, <2>6, Pieces
    <2> QED BY <1>1, <1>2, <1>4, <2>2, <2>3, <2>4, <2>5, <2>7, NewKept
  <1> QED BY <1>1, <1>3, <1>4

(* The end counts every record, and the line is that of the move.          *)
LEMMA TakeEndInv == ASSUME TransferInv, TakeEnd PROVE TransferInv'
  <1>1. /\ screen = "restoring" /\ toNew # << >> /\ Head(toNew).t = "end" /\ toNew' = Tail(toNew)
        /\ UNCHANGED <<oldVars, expected>>
        /\ \/ Abort
           \/ /\ Head(toNew).i = expected /\ line = "open" /\ screen' = "finished"
              /\ SayLast("done") /\ received' = received
    BY DEF TakeEnd
  <1>2. Head(toNew) \in OutgoingFrames /\ toNew' \in Seq(OutgoingFrames)
    BY <1>1, Pieces DEF TransferInv, Wires
  <1>3. CASE Abort
    BY <1>1, <1>2, <1>3, AbortInv DEF Abort
  <1>4. CASE /\ Head(toNew).i = expected /\ line = "open" /\ screen' = "finished"
             /\ SayLast("done") /\ received' = received
    <2>1. expected = Records /\ Active
      BY <1>1, <1>2, <1>4 DEF OutgoingFrames, TransferInv, Wires
    <2>2. \A r \in All : received[r] # Absent /\ received[r] >= atCall[r]
      BY <1>1, <2>1, Typed DEF TransferInv, Restoring
    <2>3. Arrived'
      BY <1>1, <1>4, <2>2 DEF Arrived, oldVars
    <2>4. Restoring' /\ NoHalfAccount'
      BY <2>2, <1>4 DEF Restoring, NoHalfAccount, Whole
    <2>5. toOld \in Seq(Incoming') /\ Says("done") \in Incoming'
      BY <1>1, <2>3, Saying
    <2>6. toOld' \in Seq(Incoming') /\ line' # "open"
      BY <1>4, <2>5, LastSaid
    <2> QED BY <1>1, <1>2, <1>4, <2>3, <2>4, <2>6, NewKept DEF TransferInv, Shape
  <1> QED BY <1>1, <1>3, <1>4

LEMMA NewGivesUpInv == ASSUME TransferInv, NewGivesUp PROVE TransferInv'
  BY AbortInv DEF NewGivesUp, Abort, TransferInv, Wires

-----------------------------------------------------------------------------

LEMMA TransferNextInv == ASSUME TransferInv, [TransferNext]_transferVars PROVE TransferInv'
  <1>1. CASE UNCHANGED transferVars
    <2>1. UNCHANGED <<newVars, oldVars, toNew, toOld, line>>
      BY <1>1 DEF transferVars, newVars, oldVars
    <2>2. Active' = Active
      BY <2>1 DEF Active, oldVars
    <2> QED BY <2>1, <2>2, OldKept DEF TransferInv, Shape, Wires, Moved, oldVars
  <1>2. CASE \/ Receive \/ Call \/ ReadReply \/ SendPiece \/ ReadPieceAck \/ SendEnd \/ ReadDone
             \/ OldGivesUp \/ Erase \/ OldReloads
    BY <1>2, ReceiveInv, CallInv, ReadReplyInv, SendPieceInv, ReadPieceAckInv, SendEndInv,
       ReadDoneInv, OldGivesUpInv, EraseInv, OldReloadsInv
  <1>3. CASE \/ TakeCall \/ StrangerCalls \/ Decline \/ Confirm \/ TakePiece \/ TakeEnd
             \/ NewGivesUp \/ MakeIdentity \/ NewReloads \/ Listen \/ Break
    BY <1>3, TakeCallInv, StrangerCallsInv, DeclineInv, ConfirmInv, TakePieceInv, TakeEndInv,
       NewGivesUpInv, MakeIdentityInv, NewReloadsInv, ListenInv, BreakInv
  <1> QED BY <1>1, <1>2, <1>3 DEF TransferNext

LEMMA TransferInductive == TransferSpec => []TransferInv
  BY InitTransferInv, TransferNextInv, PTL DEF TransferSpec

(* When the old device erases itself (finishMove in useKant.ts), the new   *)
(* one has every record, as it was at the call or later, and keeps it,     *)
(* whatever was broken off, reloaded, called again or received meanwhile.  *)
THEOREM MovedAccountSurvives == TransferSpec => []AccountSurvives
  <1>1. TransferInv => AccountSurvives
    BY DEF TransferInv, Moved, Arrived, AccountSurvives
  <1> QED BY <1>1, TransferInductive, PTL

(* A device holds a whole account or nothing, except while it restores and *)
(* after a reload in the middle of it or a failure to clear the stores     *)
(* (BundleRestorer in bundle.ts).                                          *)
THEOREM NeverHalfAnAccount == TransferSpec => []NoHalfAccount
  <1>1. TransferInv => NoHalfAccount
    BY DEF TransferInv
  <1> QED BY <1>1, TransferInductive, PTL
-----------------------------------------------------------------------------
(* The exact types of a move.                                              *)

(* A record changes only when a message arrives, so no record, sent or     *)
(* held, has a number above the messages counted.                          *)
Numbered == {f \in WireFrame : f.v \in 0..MaxChanges}

OldExact ==
  /\ old \in {"using", "erased"}
  /\ mover \in {"idle", "calling", "sending", "draining", "ending", "moved", "failed"}
  /\ unacked \in 0..AckWindow /\ (mover = "sending" => unacked < AckWindow)
  /\ mover = "calling" => unacked = 0

Counted ==
  /\ tally \in [calls : Nat, changes : 0..MaxChanges, reloads : Nat]
  /\ have \in [All -> 0..MaxChanges] /\ \A r \in All : have[r] <= tally.changes

NewExact ==
  /\ screen \in {"listening", "asking", "restoring", "finished", "over"}
  /\ caller \in {"nobody", "old", "stranger"} /\ other \in BOOLEAN
  /\ received \in [All -> 0..MaxChanges \cup {Absent}]

LineExact == line \in {"none", "open", "closed"} /\ toNew \in Seq(Numbered)

TransferTypes == TransferInv /\ OldExact /\ Counted /\ NewExact /\ LineExact

LEMMA InitTransferTypes == TransferInit => TransferTypes
  <1> SUFFICES ASSUME TransferInit PROVE TransferTypes
    OBVIOUS
  <1>1. Counted
    BY TransferAssumption DEF TransferInit, Counted
  <1>2. OldExact /\ LineExact
    BY Typed DEF TransferInit, OldExact, LineExact
  <1>3. NewExact
    BY DEF TransferInit, NewExact, Nothing
  <1> QED BY <1>1, <1>2, <1>3, InitTransferInv DEF TransferTypes

(* A message that arrives is counted with the record it changes.           *)
LEMMA ReceiveTypes == ASSUME Counted, Receive PROVE Counted'
  <1>1. PICK r \in All : have' = [have EXCEPT ![r] = @ + 1]
    BY DEF Receive
  <1>2. /\ tally' = [tally EXCEPT !.changes = @ + 1] /\ tally.changes < MaxChanges
        /\ tally.changes \in 0..MaxChanges /\ MaxChanges \in Nat
    BY TransferAssumption DEF Receive, Counted
  <1>3. /\ tally' \in [calls : Nat, changes : 0..MaxChanges, reloads : Nat]
        /\ tally'.changes = tally.changes + 1
    BY <1>2 DEF Counted
  <1>4. ASSUME NEW q \in All
        PROVE  have'[q] \in 0..MaxChanges /\ have'[q] <= tally'.changes
    BY <1>1, <1>2, <1>3 DEF Counted
  <1>5. have' \in [All -> 0..MaxChanges]
    BY <1>1, <1>4 DEF Counted
  <1> QED BY <1>3, <1>4, <1>5 DEF Counted

LEMMA CountersKept == ASSUME Counted, [TransferNext]_transferVars PROVE Counted'
  <1>1. CASE Receive
    BY <1>1, ReceiveTypes
  <1>2. CASE Call
    BY <1>2 DEF Call, Counted
  <1>3. CASE OldReloads
    BY <1>3 DEF OldReloads, Counted
  <1>4. CASE NewReloads
    BY <1>4 DEF NewReloads, Counted, oldVars
  <1>5. CASE \/ ReadReply \/ SendPiece \/ ReadPieceAck \/ SendEnd \/ ReadDone \/ OldGivesUp \/ Erase
             \/ TakeCall \/ StrangerCalls \/ Decline \/ Confirm \/ TakePiece \/ TakeEnd \/ NewGivesUp
             \/ MakeIdentity \/ Listen \/ Break \/ UNCHANGED transferVars
    <2>1. UNCHANGED <<have, tally>>
      BY <1>5
      DEF ReadReply, SendPiece, ReadPieceAck, SendEnd, ReadDone, OldGivesUp, Erase, TakeCall,
          StrangerCalls, Decline, Confirm, TakePiece, TakeEnd, NewGivesUp, MakeIdentity, Listen,
          Break, oldVars, transferVars
    <2> QED BY <2>1 DEF Counted
  <1> QED BY <1>1, <1>2, <1>3, <1>4, <1>5 DEF TransferNext

(* The pieces sent since the last acknowledgement are at most a window.    *)
LEMMA OldExactKept == ASSUME OldExact, [TransferNext]_transferVars PROVE OldExact'
  <1>1. CASE Call
    BY <1>1, Typed DEF Call, OldExact
  <1>2. CASE ReadReply
    BY <1>2, Typed DEF ReadReply, MoveFails, OldExact
  <1>3. CASE SendPiece
    BY <1>3, Typed DEF SendPiece, MoveFails, OldExact
  <1>4. CASE ReadPieceAck
    BY <1>4, Typed DEF ReadPieceAck, MoveFails, OldExact
  <1>5. CASE SendEnd \/ ReadDone \/ OldGivesUp \/ Erase \/ OldReloads
    BY <1>5 DEF SendEnd, ReadDone, OldGivesUp, Erase, OldReloads, MoveFails, OldExact
  <1>6. CASE \/ Receive \/ TakeCall \/ StrangerCalls \/ Decline \/ Confirm \/ TakePiece \/ TakeEnd
             \/ NewGivesUp \/ MakeIdentity \/ NewReloads \/ Listen \/ Break \/ UNCHANGED transferVars
    <2>1. UNCHANGED <<old, mover, unacked>>
      BY <1>6
      DEF Receive, TakeCall, StrangerCalls, Decline, Confirm, TakePiece, TakeEnd, NewGivesUp,
          MakeIdentity, NewReloads, Listen, Break, oldVars, transferVars
    <2> QED BY <2>1 DEF OldExact
  <1> QED BY <1>1, <1>2, <1>3, <1>4, <1>5, <1>6 DEF TransferNext

LEMMA LineKept ==
  ASSUME TransferTypes, [TransferNext]_transferVars
  PROVE  LineExact'
  <1>1. /\ \A n \in Nat : MoveFrame("end", n, 0) \in Numbered
        /\ \A n \in Nat, v \in 0..MaxChanges : MoveFrame("data", n, v) \in Numbered
        /\ Says("hello") \in Numbered
    BY TransferAssumption DEF MoveFrame, Says, WireFrame, Numbered
  <1>2. CASE Call
    <2>1. <<Says("hello")>> \in Seq(Numbered)
      BY <1>1
    <2>2. \/ toNew' = <<Says("hello")>> /\ line' = "open"
          \/ UNCHANGED <<toNew, line>>
      BY <1>2 DEF Call
    <2> QED BY <2>1, <2>2 DEF TransferTypes, LineExact
  <1>3. CASE SendPiece
    <2>1. out \in Nat /\ out + 1 \in All /\ have[out + 1] \in 0..MaxChanges
      BY <1>3, Typed DEF SendPiece, TransferTypes, TransferInv, Shape, Counted
    <2>2. Append(toNew, MoveFrame("data", out, have[out + 1])) \in Seq(Numbered)
      BY <1>1, <2>1, Pieces DEF TransferTypes, LineExact
    <2> QED BY <1>3, <2>2 DEF SendPiece, MoveFails, TransferTypes, LineExact
  <1>4. CASE SendEnd
    <2>1. Append(toNew, MoveFrame("end", out, 0)) \in Seq(Numbered)
      BY <1>1, Pieces DEF TransferTypes, LineExact, TransferInv, Shape
    <2> QED BY <1>4, <2>1 DEF SendEnd, MoveFails, TransferTypes, LineExact
  <1>5. CASE TakeCall \/ TakePiece \/ TakeEnd
    <2>1. toNew # << >> /\ toNew' = Tail(toNew)
      BY <1>5 DEF TakeCall, TakePiece, TakeEnd
    <2>2. line' \in {line, "closed"}
      BY <1>5 DEF TakeCall, TakePiece, TakeEnd, Abort, SayLast
    <2> QED BY <2>1, <2>2, Pieces DEF TransferTypes, LineExact
  <1>6. CASE Break
    BY <1>6, Pieces DEF Break, TransferTypes, LineExact
  <1>7. CASE Listen
    BY <1>7 DEF Listen, LineExact
  <1>8. CASE \/ Receive \/ ReadReply \/ ReadPieceAck \/ ReadDone \/ OldGivesUp \/ Erase \/ OldReloads
             \/ StrangerCalls \/ Decline \/ Confirm \/ NewGivesUp \/ MakeIdentity \/ NewReloads
             \/ UNCHANGED transferVars
    <2>1. toNew' = toNew /\ line' \in {line, "closed"}
      BY <1>8
      DEF Receive, ReadReply, ReadPieceAck, ReadDone, OldGivesUp, Erase, OldReloads, MoveFails,
          StrangerCalls, Decline, Confirm, NewGivesUp, Abort, SayLast, MakeIdentity, NewReloads,
          transferVars
    <2> QED BY <2>1 DEF TransferTypes, LineExact
  <1> QED BY <1>2, <1>3, <1>4, <1>5, <1>6, <1>7, <1>8 DEF TransferNext

LEMMA NewExactKept ==
  ASSUME TransferTypes, [TransferNext]_transferVars
  PROVE  NewExact'
  <1>1. Nothing \in [All -> 0..MaxChanges \cup {Absent}]
    BY DEF Nothing
  <1>9. ASSUME NEW left \in SUBSET All, Clear(left)
        PROVE  other' \in BOOLEAN /\ received' \in [All -> 0..MaxChanges \cup {Absent}]
    BY <1>9 DEF Clear, TransferTypes, NewExact
  <1>2. ASSUME Abort PROVE NewExact'
    BY <1>2, <1>9 DEF Abort, NewExact
  <1>3. CASE TakePiece
    <2>1. CASE Abort
      BY <1>2, <2>1
    <2>2. CASE ~Abort
      <3>1. /\ toNew # << >> /\ UNCHANGED <<screen, caller, other>>
            /\ received' = [received EXCEPT ![expected + 1] = Head(toNew).v]
        BY <1>3, <2>2 DEF TakePiece
      <3>2. Head(toNew).v \in 0..MaxChanges
        BY <3>1, Pieces DEF TransferTypes, LineExact, Numbered
      <3>3. received' \in [All -> 0..MaxChanges \cup {Absent}]
        BY <3>1, <3>2 DEF TransferTypes, NewExact
      <3> QED BY <3>1, <3>3 DEF TransferTypes, NewExact
    <2> QED BY <2>1, <2>2
  <1>4. CASE TakeEnd \/ NewGivesUp
    BY <1>2, <1>4 DEF TakeEnd, NewGivesUp, TransferTypes, NewExact
  <1>5. CASE TakeCall \/ StrangerCalls \/ Decline
    BY <1>5 DEF TakeCall, StrangerCalls, Decline, TransferTypes, NewExact
  <1>6. CASE Confirm
    BY <1>1, <1>6, <1>9 DEF Confirm, TransferTypes, NewExact
  <1>7. CASE MakeIdentity \/ NewReloads \/ Listen
    BY <1>7 DEF MakeIdentity, NewReloads, Listen, TransferTypes, NewExact
  <1>8. CASE \/ Receive \/ Call \/ ReadReply \/ SendPiece \/ ReadPieceAck \/ SendEnd \/ ReadDone
             \/ OldGivesUp \/ Erase \/ OldReloads \/ Break \/ UNCHANGED transferVars
    <2>1. UNCHANGED <<screen, caller, other, received>>
      BY <1>8
      DEF Receive, Call, ReadReply, SendPiece, ReadPieceAck, SendEnd, ReadDone, OldGivesUp, Erase,
          OldReloads, Break, newVars, transferVars
    <2> QED BY <2>1 DEF TransferTypes, NewExact
  <1> QED BY <1>3, <1>4, <1>5, <1>6, <1>7, <1>8 DEF TransferNext

(* Every field of the two devices and of their line keeps its type: what   *)
(* was sent since the last acknowledgement never exceeds ACK_WINDOW, and   *)
(* the pieces written are within the account's records (transfer.ts).      *)
THEOREM TransferTypeCorrect == TransferSpec => []TransferTypeOK
  <1>1. ASSUME TransferTypes, [TransferNext]_transferVars PROVE TransferTypes'
    BY <1>1, TransferNextInv, CountersKept, OldExactKept, LineKept, NewExactKept DEF TransferTypes
  <1>2. TransferTypes => TransferTypeOK
    BY DEF TransferTypes, TransferTypeOK, TransferInv, Shape, OldExact, Counted, NewExact, LineExact
  <1> QED BY <1>1, <1>2, InitTransferTypes, PTL DEF TransferSpec
=============================================================================
