--------------------------- MODULE DeliveryProofs ---------------------------
(***************************************************************************)
(* Type correctness, the three safety properties of Delivery.tla and its   *)
(* refinement of Courier.tla, for any number of messages, sessions, faults *)
(* and restarts, whatever may throw and whatever may be lost.              *)
(*                                                                         *)
(* A receipt exists only for a message that was stored, or that Bob's user *)
(* refused by blocking Alice (DeliveredMeansStored).  A receipt takes a    *)
(* message out of Alice's care only by making it delivered; every other    *)
(* step that takes it from one place puts it in another, provided that     *)
(* what is being encrypted has a session to be queued under                *)
(* (`SendsUnderSession`).                                                  *)
(* The refinement needs one fact more: a message that was not sent is in   *)
(* no queue, frame or buffer and was not refused (`NothingUnsent`), so     *)
(* that what Bob is shown is what Alice sent.                              *)
(***************************************************************************)
EXTENDS Delivery, FiniteSetTheorems, TLAPS

(* A message that is being written has a session.                          *)
SendsUnderSession ==
  \A m \in Msgs : out[m].pc \in {"enc", "written"} => out[m].s # 0

(* Bob was shown what he has stored, once, and nothing else.               *)
ShownIsStored ==
  \A m \in Msgs : shown[m] = IF m \in stored THEN 1 ELSE 0

(* What Bob's device takes for a repetition came before.                   *)
KnownCame == known \subseteq stored \cup Refused

IInv ==
  /\ TypeOK /\ SendsUnderSession /\ ShownIsStored /\ KnownCame
  /\ DeliveredMeansStored /\ NeverForgotten

-----------------------------------------------------------------------------
(* Frames.                                                                 *)

LEMMA Bounds ==
  /\ MaxSessions \in Nat /\ MaxFaults \in Nat /\ MaxNudges \in Nat
  /\ IsFiniteSet(Msgs)
  BY DeliveryAssumption

LEMMA Numbers == 0 \in 0..MaxSessions /\ Sess \subseteq 0..MaxSessions
  BY Bounds DEF Sess

LEMMA FrameTypes ==
  /\ \A s \in Sess : InitFrame(s) \in Frames /\ BootFrame(s) \in Frames
  /\ \A m \in Msgs : AckFrame(m) \in Frames
  /\ \A m \in Msgs, s \in Sess : MsgFrame(m, s) \in Frames
  /\ ResetFrame \in Frames
  /\ MsgFrames \subseteq Frames
  /\ \A f \in MsgFrames : f.m \in Msgs /\ f.s \in Sess
  BY DEF Frames, MsgFrames, MsgFrame

(* No other frame is a receipt, and a receipt is for one message.          *)
LEMMA ReceiptsDiffer ==
  ASSUME NEW m \in Msgs
  PROVE  /\ \A s \in Sess : AckFrame(m) # InitFrame(s) /\ AckFrame(m) # BootFrame(s)
         /\ \A k \in Msgs, s \in Sess : AckFrame(m) # MsgFrame(k, s)
         /\ AckFrame(m) \notin MsgFrames
         /\ AckFrame(m) # ResetFrame
         /\ \A k \in Msgs : AckFrame(m) = AckFrame(k) => m = k
  <1>1. AckFrame(m).kind = "ack" /\ ResetFrame.kind = "reset"
    BY DEF AckFrame, ResetFrame
  <1>2. \A s \in Sess : InitFrame(s).kind = "init" /\ BootFrame(s).kind = "boot"
    BY DEF InitFrame, BootFrame
  <1>3. \A k \in Msgs, s \in Sess : MsgFrame(k, s).kind = "msg"
    BY DEF MsgFrame
  <1>4. \A k \in Msgs : AckFrame(k).m = k
    BY DEF AckFrame
  <1>5. \A f \in MsgFrames : f.kind = "msg"
    BY <1>3 DEF MsgFrames
  <1> QED BY <1>1, <1>2, <1>3, <1>4, <1>5


(* What the pieces of the actions do to the types.                         *)

LEMMA TransmitTypes ==
  ASSUME EnvTypes, NEW point, NEW o \in Outcomes(point), NEW f \in Frames,
         NEW rest \in SUBSET Frames, Transmit(o, f, rest)
  PROVE  net' \subseteq Frames /\ faults' \in 0..MaxFaults /\ net' \subseteq rest \cup {f}
  BY Bounds DEF EnvTypes, Outcomes, Transmit, CanFail

LEMMA PersistTypes ==
  ASSUME SessTypes, NEW p \in Party, NEW s \in 0..MaxSessions, Persist(p, s)
  PROVE  disk' \in [Party -> 0..MaxSessions]
  BY DEF SessTypes, Persist

LEMMA StartTypes ==
  ASSUME SessTypes, Start
  PROVE  /\ run' \in [Sess -> {"none", "fetch", "set", "init", "boot", "flush"}]
         /\ inFlight' \in BOOLEAN /\ nextS' \in 1..(MaxSessions + 1)
  <1>1. CASE nextS <= MaxSessions
    <2>1. nextS \in Sess /\ nextS + 1 \in 1..(MaxSessions + 1)
      BY <1>1, Bounds DEF SessTypes, Sess
    <2> QED BY <1>1, <2>1 DEF SessTypes, Start
  <1>2. CASE ~(nextS <= MaxSessions)
    BY <1>2 DEF SessTypes, Start
  <1> QED BY <1>1, <1>2

LEMMA DropFlushedTypes ==
  ASSUME OutTypes, DropFlushed
  PROVE  flushed' \subseteq Msgs /\ loop' \in [Sess -> Loop]
  BY DEF OutTypes, DropFlushed, Loop

LEMMA EndRunTypes ==
  ASSUME SessTypes, NEW s \in Sess, EndRun(s)
  PROVE  /\ run' \in [Sess -> {"none", "fetch", "set", "init", "boot", "flush"}]
         /\ inFlight' \in BOOLEAN
  BY DEF SessTypes, EndRun

LEMMA ShowTypes ==
  ASSUME BobTypes, NEW ms \in SUBSET Msgs, Show(ms)
  PROVE  stored' \subseteq Msgs /\ shown' \in [Msgs -> 0..2]
  BY DEF BobTypes, Show

LEMMA TakeTypes ==
  ASSUME BobTypes, NEW ms \in SUBSET Msgs, NEW s \in Sess, Take(ms, s)
  PROVE  /\ stored' \subseteq Msgs /\ shown' \in [Msgs -> 0..2]
         /\ refused' \subseteq MsgFrames /\ known' \subseteq Msgs
  <1>1. CASE blocked
    <2>1. {MsgFrame(m, s) : m \in ms} \subseteq MsgFrames
      BY DEF MsgFrames
    <2> QED BY <1>1, <2>1 DEF Take, BobTypes
  <1>2. CASE ~blocked
    BY <1>2, ShowTypes DEF Take, BobTypes
  <1> QED BY <1>1, <1>2

LEMMA AcknowledgeTypes ==
  ASSUME EnvTypes, NEW ms \in SUBSET Msgs, NEW rest \in SUBSET Frames, Acknowledge(ms, rest)
  PROVE  net' \subseteq Frames /\ faults' \in 0..MaxFaults
  <1>1. PICK lost \in SUBSET ms : /\ lost = {} \/ faults + nudges + Cardinality(lost) <= MaxFaults
                                 /\ faults' = faults + Cardinality(lost)
                                 /\ net' = rest \cup {AckFrame(m) : m \in ms \ lost}
    BY DEF Acknowledge
  <1>2. Cardinality(lost) \in Nat /\ Cardinality({}) = 0
    BY Bounds, FS_Subset, FS_CardinalityType, FS_EmptySet
  <1>3. faults' \in 0..MaxFaults
    <2>1. CASE lost = {}
      BY <1>1, <1>2, <2>1 DEF EnvTypes
    <2>2. CASE faults + nudges + Cardinality(lost) <= MaxFaults
      BY <1>1, <1>2, <2>2, Bounds DEF EnvTypes
    <2> QED BY <1>1, <2>1, <2>2
  <1>4. net' \subseteq Frames
    BY <1>1, FrameTypes DEF EnvTypes
  <1> QED BY <1>3, <1>4

LEMMA UndecryptableTypes ==
  ASSUME TypeOK, NEW f \in Frames, NEW rest \in SUBSET Frames, Undecryptable(f, rest)
  PROVE  /\ SessTypes'
         /\ buffer' \subseteq Frames /\ net' \subseteq Frames /\ faults' \in 0..MaxFaults
  <1> USE DEF TypeOK, SessTypes, BobTypes, EnvTypes
  <1>1. CASE cool["bob"]
    BY <1>1 DEF Undecryptable, sessVars
  <1>2. CASE ~cool["bob"]
    <2>1. PICK o \in Outcomes("reset") : Transmit(o, ResetFrame, rest)
      BY <1>2 DEF Undecryptable
    <2>2. net' \subseteq Frames /\ faults' \in 0..MaxFaults
      BY <2>1, FrameTypes, TransmitTypes
    <2>3. buffer' \in {buffer, buffer \cup {f}}
      BY <1>2 DEF Undecryptable
    <2>4. buffer' \subseteq Frames
      BY <2>3
    <2>5. /\ cool' = [cool EXCEPT !["bob"] = TRUE] /\ rat' = [rat EXCEPT !["bob"] = 0]
          /\ UNCHANGED <<disk, run, inFlight, nextS>>
      BY <1>2 DEF Undecryptable
    <2>6. rat' \in [Party -> 0..MaxSessions] /\ cool' \in [Party -> BOOLEAN]
      BY <2>5, Bounds DEF Party
    <2> QED BY <2>2, <2>4, <2>5, <2>6
  <1> QED BY <1>1, <1>2

LEMMA NudgeTypes ==
  ASSUME TypeOK, Nudge
  PROVE  nudges' \in 0..MaxNudges /\ disk' \in [Party -> 0..MaxSessions]
  <1>1. 0 \in 0..MaxSessions
    BY Numbers
  <1> QED BY <1>1, Bounds DEF Nudge, CanNudge, TypeOK, SessTypes, EnvTypes

(* The actions that leave the sessions, the outgoing messages or Bob alone *)
LEMMA SameTypes ==
  ASSUME TypeOK
  PROVE  /\ UNCHANGED sessVars => SessTypes'
         /\ UNCHANGED outVars => OutTypes'
         /\ UNCHANGED bobVars => BobTypes'
         /\ UNCHANGED <<net, faults, envVars>> => EnvTypes'
  BY DEF TypeOK, SessTypes, OutTypes, BobTypes, EnvTypes, sessVars, outVars, bobVars, envVars

-----------------------------------------------------------------------------
(* Type correctness, action by action.                                     *)

LEMMA InitTypes == Init => TypeOK /\ SendsUnderSession
  <1> SUFFICES ASSUME Init PROVE TypeOK /\ SendsUnderSession
    OBVIOUS
  <1>1. SessTypes
    <2>1. 0 \in 0..MaxSessions /\ 1 \in 1..(MaxSessions + 1)
      BY Bounds
    <2> QED BY <2>1 DEF Init, SessTypes
  <1>2. Fresh \in Row /\ NoLoop \in Loop
    BY Bounds DEF Fresh, Row, NoLoop, Loop
  <1>3. OutTypes
    BY <1>2 DEF Init, OutTypes
  <1>4. BobTypes /\ EnvTypes
    <2>1. 0 \in 0..MaxFaults /\ 0 \in 0..MaxNudges /\ 0 \in 0..2
      BY Bounds
    <2> QED BY <2>1 DEF Init, BobTypes, EnvTypes
  <1>5. SendsUnderSession
    BY DEF Init, SendsUnderSession, Fresh
  <1> QED BY <1>1, <1>3, <1>4, <1>5 DEF TypeOK

LEMMA SendTypes == ASSUME TypeOK, NEW m \in Msgs, Send(m) PROVE TypeOK'
  <1>1. SessTypes' /\ BobTypes' /\ EnvTypes'
    BY SameTypes DEF Send
  <1>2. CASE rat["alice"] = 0
    <2>1. out' = [out EXCEPT ![m].pc = "done", ![m].status = "open"] /\ held' = held \cup {m}
      BY <1>2 DEF Send
    <2>2. out \in [Msgs -> Row] /\ held \subseteq Msgs
      BY DEF TypeOK, OutTypes
    <2>3. [out[m] EXCEPT !.pc = "done", !.status = "open"] \in Row
      BY <2>2 DEF Row
    <2>4. out' \in [Msgs -> Row] /\ held' \subseteq Msgs
      BY <2>1, <2>2, <2>3
    <2>5. loop' \in [Sess -> Loop]
      BY <1>2 DEF Send, TypeOK, OutTypes, Loop
    <2> QED BY <1>1, <2>4, <2>5 DEF Send, TypeOK, OutTypes
  <1>3. CASE rat["alice"] # 0
    <2>1. rat["alice"] \in 0..MaxSessions
      BY DEF TypeOK, SessTypes, Party
    <2>2. out' \in [Msgs -> Row]
      BY <1>3, <2>1 DEF Send, TypeOK, OutTypes, Row
    <2> QED BY <1>1, <1>3, <2>2 DEF Send, TypeOK, OutTypes
  <1> QED BY <1>2, <1>3

LEMMA EncryptTypes ==
  ASSUME TypeOK, SendsUnderSession, NEW m \in Msgs, Encrypt(m) PROVE TypeOK'
  <1>1. SessTypes' /\ BobTypes'
    BY SameTypes DEF Encrypt, OutOnly
  <1>2. PICK o \in Outcomes("send") :
          /\ Transmit(o, MsgFrame(m, out[m].s), net)
          /\ out' = [out EXCEPT ![m] = IF o = "throws"
                       THEN [@ EXCEPT !.pc = "done", !.s = 0, !.status = "open", !.queue = out[m].s]
                       ELSE [@ EXCEPT !.pc = "written"]]
    BY DEF Encrypt
  <1>3. out' \in [Msgs -> Row]
    <2>1. CASE o = "throws"
      <3>1. out \in [Msgs -> Row] /\ 0 \in 0..MaxSessions
        BY Numbers DEF TypeOK, OutTypes
      <3>2. out[m].s \in 0..MaxSessions
        BY <3>1 DEF Row
      <3>3. [out[m] EXCEPT !.pc = "done", !.s = 0, !.status = "open", !.queue = out[m].s] \in Row
        BY <3>1, <3>2 DEF Row
      <3> QED BY <1>2, <2>1, <3>1, <3>3
    <2>2. CASE o # "throws"
      BY <1>2, <2>2 DEF TypeOK, OutTypes, Row
    <2> QED BY <2>1, <2>2
  <1>4. OutTypes'
    BY <1>3 DEF Encrypt, OutOnly, TypeOK, OutTypes
  <1>5. out[m].s \in Sess
    BY Bounds DEF Encrypt, SendsUnderSession, TypeOK, OutTypes, Row, Sess
  <1>6. EnvTypes'
    BY <1>2, <1>5, FrameTypes, TransmitTypes DEF Encrypt, OutOnly, envVars, TypeOK, EnvTypes
  <1> QED BY <1>1, <1>4, <1>6 DEF TypeOK

LEMMA AfterWriteTypes == ASSUME TypeOK, NEW m \in Msgs, AfterWrite(m) PROVE TypeOK'
  <1>1. SessTypes' /\ BobTypes' /\ EnvTypes'
    BY SameTypes DEF AfterWrite, OutOnly
  <1>2. out' \in [Msgs -> Row]
    <2> DEFINE r == [out[m] EXCEPT !.pc = "done", !.s = 0, !.timer = out[m].s, !.status = "open"]
    <2>1. r \in Row
      BY Numbers DEF TypeOK, OutTypes, Row
    <2>2. out' = [out EXCEPT ![m] = r]
      BY DEF AfterWrite, TypeOK, OutTypes
    <2> QED BY <2>1, <2>2 DEF TypeOK, OutTypes
  <1>3. OutTypes'
    BY <1>2 DEF AfterWrite, OutOnly, TypeOK, OutTypes
  <1> QED BY <1>1, <1>3 DEF TypeOK

LEMMA TimerTypes == ASSUME TypeOK, NEW m \in Msgs, Timer(m) PROVE TypeOK'
  <1>1. SessTypes' /\ BobTypes' /\ EnvTypes'
    BY SameTypes DEF Timer, OutOnly
  <1>2. OutTypes'
    BY Bounds DEF Timer, OutOnly, TypeOK, OutTypes, Row
  <1> QED BY <1>1, <1>2 DEF TypeOK

(* The frame of a queued message.                                          *)
LEMMA QueuedFrame ==
  ASSUME TypeOK, NEW m \in Msgs, out[m].queue # 0
  PROVE  MsgFrame(m, out[m].queue) \in Frames
  <1>1. out[m].queue \in Sess
    BY Bounds DEF TypeOK, OutTypes, Row, Sess
  <1> QED BY <1>1, FrameTypes

LEMMA QueueSendTypes == ASSUME TypeOK, NEW m \in Msgs, QueueSend(m) PROVE TypeOK'
  <1>1. SessTypes' /\ OutTypes' /\ BobTypes'
    BY SameTypes DEF QueueSend, OutOnly, outVars
  <1>2. EnvTypes'
    BY QueuedFrame, TransmitTypes DEF QueueSend, OutOnly, envVars, TypeOK, EnvTypes
  <1> QED BY <1>1, <1>2 DEF TypeOK

LEMMA RetryMessageTypes == ASSUME TypeOK, NEW m \in Msgs, RetryMessage(m) PROVE TypeOK'
  <1>1. SessTypes' /\ BobTypes'
    BY SameTypes, NudgeTypes DEF RetryMessage, TypeOK, SessTypes
  <1>2. PICK o \in Outcomes("queue") :
          /\ Transmit(o, MsgFrame(m, out[m].queue), net)
          /\ out' = IF o = "throws" THEN out ELSE [out EXCEPT ![m].timer = out[m].queue]
    BY DEF RetryMessage
  <1>3. OutTypes'
    BY <1>2 DEF RetryMessage, TypeOK, OutTypes, Row
  <1>4. nudges' \in 0..MaxNudges
    BY NudgeTypes DEF RetryMessage
  <1>5. EnvTypes'
    BY <1>2, <1>4, QueuedFrame, TransmitTypes DEF RetryMessage, TypeOK, EnvTypes
  <1> QED BY <1>1, <1>3, <1>5 DEF TypeOK

LEMMA ReceiptTypes == ASSUME TypeOK, NEW m \in Msgs, Receipt(m) PROVE TypeOK'
  <1>1. SessTypes' /\ BobTypes'
    BY SameTypes DEF Receipt
  <1>2. out' \in [Msgs -> Row]
    <2> DEFINE r == [out[m] EXCEPT !.timer = 0, !.queue = 0,
                       !.status = IF @ = "none" THEN @ ELSE "delivered"]
    <2>1. r \in Row
      <3>1. out[m] \in Row /\ 0 \in 0..MaxSessions
        BY Numbers DEF TypeOK, OutTypes
      <3>2. CASE out[m].status = "none"
        BY <3>1, <3>2 DEF Row
      <3>3. CASE out[m].status # "none"
        BY <3>1, <3>3 DEF Row
      <3> QED BY <3>2, <3>3
    <2>2. out' = [out EXCEPT ![m] = r]
      BY DEF Receipt, TypeOK, OutTypes
    <2> QED BY <2>1, <2>2 DEF TypeOK, OutTypes
  <1>3. OutTypes' /\ EnvTypes'
    BY <1>2 DEF Receipt, envVars, TypeOK, OutTypes, EnvTypes
  <1> QED BY <1>1, <1>3 DEF TypeOK

LEMMA TryAutoTypes == ASSUME TypeOK, TryAuto PROVE TypeOK'
  <1>1. OutTypes' /\ BobTypes' /\ EnvTypes'
    BY SameTypes DEF TryAuto
  <1>2. SessTypes'
    BY StartTypes DEF TryAuto, TypeOK, SessTypes
  <1> QED BY <1>1, <1>2 DEF TypeOK

LEMMA FetchedTypes == ASSUME TypeOK, NEW s \in Sess, Fetched(s) PROVE TypeOK'
  <1>1. BobTypes'
    BY SameTypes DEF Fetched
  <1>2. s \in 0..MaxSessions /\ "alice" \in Party
    BY Bounds DEF Sess, Party
  <1>3. CASE faults' = faults + 1 /\ CanFail /\ EndRun(s)
             /\ UNCHANGED <<rat, disk, flushed, loop>>
    BY <1>1, <1>3, EndRunTypes, Bounds
       DEF Fetched, CanFail, envVars, TypeOK, SessTypes, OutTypes, EnvTypes
  <1>4. CASE EndRun(s) /\ UNCHANGED <<rat, disk, flushed, loop, faults>>
    BY <1>1, <1>4, EndRunTypes DEF Fetched, envVars, TypeOK, SessTypes, OutTypes, EnvTypes
  <1>5. CASE /\ rat' = [rat EXCEPT !["alice"] = s] /\ Persist("alice", s)
             /\ run' = [run EXCEPT ![s] = "set"] /\ DropFlushed
             /\ UNCHANGED <<inFlight, faults>>
    <2>1. disk' \in [Party -> 0..MaxSessions]
      BY <1>2, <1>5, PersistTypes DEF TypeOK
    <2>2. SessTypes'
      BY <1>2, <1>5, <2>1 DEF Fetched, TypeOK, SessTypes
    <2>3. OutTypes' /\ EnvTypes'
      BY <1>5, DropFlushedTypes DEF Fetched, envVars, TypeOK, OutTypes, EnvTypes
    <2> QED BY <1>1, <2>2, <2>3 DEF TypeOK
  <1> QED BY <1>3, <1>4, <1>5 DEF Fetched

(* Leaving the queue and the timer.                                        *)
LEMMA ReclaimedRow ==
  ASSUME NEW r \in Row
  PROVE  [r EXCEPT !.queue = 0, !.timer = 0] \in Row
  BY Numbers DEF Row

LEMMA ReclaimTypes == ASSUME TypeOK, NEW s \in Sess, Reclaim(s) PROVE TypeOK'
  <1>1. BobTypes' /\ EnvTypes'
    BY SameTypes DEF Reclaim
  <1>2. SessTypes'
    BY DEF Reclaim, TypeOK, SessTypes
  <1>3. CASE Unacked = {}
    BY <1>1, <1>2, <1>3, SameTypes DEF Reclaim, TypeOK
  <1>4. CASE Unacked # {}
    <2>1. out' \in [Msgs -> Row]
      BY <1>4, ReclaimedRow DEF Reclaim, TypeOK, OutTypes
    <2>2. OutTypes'
      BY <1>4, <2>1, DropFlushedTypes DEF Reclaim, Unacked, TypeOK, OutTypes
    <2> QED BY <1>1, <1>2, <2>2 DEF TypeOK
  <1> QED BY <1>3, <1>4

LEMMA InitWriteTypes == ASSUME TypeOK, NEW s \in Sess, InitWrite(s) PROVE TypeOK'
  <1>1. OutTypes' /\ BobTypes'
    BY SameTypes DEF InitWrite
  <1>2. PICK o \in Outcomes("init") :
          /\ Transmit(o, InitFrame(s), net)
          /\ IF o = "throws" THEN EndRun(s)
             ELSE run' = [run EXCEPT ![s] = "boot"] /\ UNCHANGED inFlight
    BY DEF InitWrite
  <1>3. SessTypes'
    BY <1>2, EndRunTypes DEF InitWrite, TypeOK, SessTypes
  <1>4. EnvTypes'
    BY <1>2, TransmitTypes, FrameTypes DEF InitWrite, envVars, TypeOK, EnvTypes
  <1> QED BY <1>1, <1>3, <1>4 DEF TypeOK

LEMMA BootWriteTypes == ASSUME TypeOK, NEW s \in Sess, BootWrite(s) PROVE TypeOK'
  <1>1. BobTypes'
    BY SameTypes DEF BootWrite
  <1>2. PICK o \in Outcomes("boot") :
          /\ Transmit(o, BootFrame(s), net)
          /\ IF o = "throws" \/ held = {} THEN EndRun(s) /\ UNCHANGED loop
             ELSE /\ run' = [run EXCEPT ![s] = "flush"]
                  /\ loop' = [loop EXCEPT ![s] = [NoLoop EXCEPT !.todo = held, !.attached = TRUE]]
                  /\ UNCHANGED inFlight
    BY DEF BootWrite
  <1>3. SessTypes'
    BY <1>2, EndRunTypes DEF BootWrite, TypeOK, SessTypes
  <1>4. EnvTypes'
    BY <1>2, TransmitTypes, FrameTypes DEF BootWrite, envVars, TypeOK, EnvTypes
  <1>5. [NoLoop EXCEPT !.todo = held, !.attached = TRUE] \in Loop
    BY DEF TypeOK, OutTypes, NoLoop, Loop
  <1>6. OutTypes'
    BY <1>2, <1>5 DEF BootWrite, TypeOK, OutTypes
  <1> QED BY <1>1, <1>3, <1>4, <1>6 DEF TypeOK

LEMMA FlushOneTypes ==
  ASSUME TypeOK, NEW s \in Sess, NEW m \in Msgs, FlushOne(s, m) PROVE TypeOK'
  <1>1. BobTypes'
    BY SameTypes DEF FlushOne
  <1>2. SessTypes'
    BY EndRunTypes DEF FlushOne, TypeOK, SessTypes
  <1>3. loop' \in [Sess -> Loop]
    <2>1. NoLoop \in Loop /\ [loop[s] EXCEPT !.todo = @ \ {m}] \in Loop
      BY DEF TypeOK, OutTypes, NoLoop, Loop
    <2>2. \/ loop' = [loop EXCEPT ![s] = NoLoop]
          \/ loop' = [loop EXCEPT ![s] = [loop[s] EXCEPT !.todo = @ \ {m}]]
      BY DEF FlushOne, TypeOK, OutTypes
    <2> QED BY <2>1, <2>2 DEF TypeOK, OutTypes
  <1>4. CASE UNCHANGED <<out, flushed, net, faults>>
    BY <1>1, <1>2, <1>3, <1>4 DEF FlushOne, envVars, TypeOK, OutTypes, EnvTypes
  <1>5. ASSUME NEW o \in Outcomes("flush"), Transmit(o, MsgFrame(m, s), net),
               \/ UNCHANGED <<out, flushed>>
               \/ /\ out' = [out EXCEPT ![m].status = "open", ![m].timer = s]
                  /\ flushed' \in {flushed, flushed \cup {m}}
        PROVE  TypeOK'
    <2>1. [out[m] EXCEPT !.status = "open", !.timer = s] \in Row
      <3>1. out[m] \in Row /\ s \in 0..MaxSessions
        BY Numbers DEF TypeOK, OutTypes
      <3> QED BY <3>1 DEF Row
    <2>2. \/ UNCHANGED out
          \/ out' = [out EXCEPT ![m] = [out[m] EXCEPT !.status = "open", !.timer = s]]
      BY <1>5 DEF TypeOK, OutTypes
    <2>3. OutTypes'
      BY <1>3, <1>5, <2>1, <2>2 DEF FlushOne, TypeOK, OutTypes
    <2>4. EnvTypes'
      BY <1>5, TransmitTypes, FrameTypes DEF FlushOne, envVars, TypeOK, EnvTypes
    <2> QED BY <1>1, <1>2, <2>3, <2>4 DEF TypeOK
  <1> QED BY <1>4, <1>5 DEF FlushOne

LEMMA MsgArrivesTypes == ASSUME TypeOK, NEW f \in MsgFrames, MsgArrives(f) PROVE TypeOK'
  <1>1. OutTypes'
    BY SameTypes DEF MsgArrives
  <1>2. net \ {f} \subseteq Frames /\ f \in Frames /\ f.m \in Msgs
    BY FrameTypes DEF TypeOK, EnvTypes
  <1>3. CASE /\ Take({f.m} \ (stored \cup known), f.s) /\ Acknowledge({f.m}, net \ {f})
             /\ UNCHANGED <<sessVars, buffer>>
    <2>1. BobTypes'
      <3>1. f.s \in Sess /\ {f.m} \ (stored \cup known) \in SUBSET Msgs
        BY <1>2, FrameTypes
      <3> QED BY <1>3, <3>1, TakeTypes DEF MsgArrives, TypeOK, BobTypes
    <2>2. EnvTypes'
      BY <1>2, <1>3, AcknowledgeTypes DEF MsgArrives, envVars, TypeOK, EnvTypes
    <2> QED BY <1>1, <1>3, <2>1, <2>2, SameTypes DEF TypeOK
  <1>4. CASE Undecryptable(f, net \ {f}) /\ UNCHANGED <<stored, shown, refused, known>>
    BY <1>1, <1>2, <1>4, UndecryptableTypes DEF MsgArrives, envVars, TypeOK, BobTypes, EnvTypes
  <1> QED BY <1>3, <1>4 DEF MsgArrives

LEMMA BootArrivesTypes == ASSUME TypeOK, NEW s \in Sess, BootArrives(s) PROVE TypeOK'
  <1>1. OutTypes'
    BY SameTypes DEF BootArrives
  <1>2. net \ {BootFrame(s)} \subseteq Frames /\ BootFrame(s) \in Frames
    BY FrameTypes DEF TypeOK, EnvTypes
  <1>3. CASE net' = net \ {BootFrame(s)} /\ UNCHANGED <<sessVars, buffer, faults>>
    BY <1>1, <1>2, <1>3, SameTypes DEF BootArrives, envVars, TypeOK, BobTypes, EnvTypes
  <1>4. CASE Undecryptable(BootFrame(s), net \ {BootFrame(s)})
    BY <1>1, <1>2, <1>4, UndecryptableTypes DEF BootArrives, envVars, TypeOK, BobTypes, EnvTypes
  <1> QED BY <1>3, <1>4 DEF BootArrives

LEMMA InitArrivesTypes == ASSUME TypeOK, NEW s \in Sess, InitArrives(s) PROVE TypeOK'
  <1>1. OutTypes'
    BY SameTypes DEF InitArrives
  <1>2. s \in 0..MaxSessions /\ "bob" \in Party
    BY Bounds DEF Sess, Party
  <1>3. disk' \in [Party -> 0..MaxSessions]
    BY <1>2, PersistTypes DEF InitArrives, TypeOK
  <1>4. SessTypes'
    BY <1>2, <1>3 DEF InitArrives, TypeOK, SessTypes
  <1>5. Opened(s) \subseteq Msgs /\ net \ {InitFrame(s)} \subseteq Frames
    BY DEF Opened, TypeOK, EnvTypes
  <1>6. BobTypes'
    BY <1>5, TakeTypes DEF InitArrives, TypeOK, BobTypes
  <1>7. EnvTypes'
    BY <1>5, AcknowledgeTypes DEF InitArrives, envVars, TypeOK, EnvTypes
  <1> QED BY <1>1, <1>4, <1>6, <1>7 DEF TypeOK

LEMMA ResetArrivesTypes == ASSUME TypeOK, ResetArrives PROVE TypeOK'
  <1>1. BobTypes'
    BY SameTypes DEF ResetArrives
  <1>2. EnvTypes'
    BY DEF ResetArrives, envVars, TypeOK, EnvTypes
  <1>3. CASE cool["alice"]
    BY <1>1, <1>2, <1>3, SameTypes DEF ResetArrives, TypeOK, OutTypes
  <1>4. CASE ~cool["alice"]
    <2>1. /\ cool' = [cool EXCEPT !["alice"] = TRUE] /\ rat' = [rat EXCEPT !["alice"] = 0]
          /\ DropFlushed /\ Start
      BY <1>4 DEF ResetArrives
    <2>2. rat' \in [Party -> 0..MaxSessions] /\ cool' \in [Party -> BOOLEAN]
      BY <2>1, Numbers DEF TypeOK, SessTypes
    <2>3. SessTypes'
      BY <2>1, <2>2, StartTypes DEF ResetArrives, TypeOK, SessTypes
    <2>4. OutTypes'
      BY <2>1, DropFlushedTypes DEF ResetArrives, TypeOK, OutTypes
    <2> QED BY <1>1, <1>2, <2>3, <2>4 DEF TypeOK
  <1> QED BY <1>3, <1>4

LEMMA CoolEndTypes == ASSUME TypeOK, NEW p \in Party, CoolEnd(p) PROVE TypeOK'
  <1>1. OutTypes' /\ BobTypes' /\ EnvTypes'
    BY SameTypes DEF CoolEnd
  <1>2. SessTypes'
    BY DEF CoolEnd, TypeOK, SessTypes
  <1> QED BY <1>1, <1>2 DEF TypeOK

LEMMA ReloadTypes ==
  ASSUME TypeOK, NEW p \in Party, Reload(p)
  PROVE  /\ rat' \in [Party -> 0..MaxSessions] /\ disk' \in [Party -> 0..MaxSessions]
         /\ cool' \in [Party -> BOOLEAN] /\ nextS' \in 1..(MaxSessions + 1)
         /\ stored' \subseteq Msgs /\ shown' \in [Msgs -> 0..2] /\ net' \subseteq Frames
         /\ faults' \in 0..MaxFaults /\ nudges' \in 0..MaxNudges
         /\ blocked' \in BOOLEAN /\ refused' \subseteq MsgFrames
  <1>1. disk[p] \in 0..MaxSessions /\ 0 \in 0..MaxSessions
    BY Bounds DEF TypeOK, SessTypes
  <1>2. rat' \in [Party -> 0..MaxSessions] /\ disk' \in [Party -> 0..MaxSessions]
    BY <1>1, NudgeTypes DEF Reload, TypeOK, SessTypes
  <1>3. cool' \in [Party -> BOOLEAN] /\ nextS' \in 1..(MaxSessions + 1)
    BY DEF Reload, TypeOK, SessTypes
  <1>4. nudges' \in 0..MaxNudges
    BY NudgeTypes DEF Reload
  <1> QED BY <1>2, <1>3, <1>4 DEF Reload, TypeOK, BobTypes, EnvTypes

LEMMA RestartBobTypes == ASSUME TypeOK, RestartBob PROVE TypeOK'
  <1>1. "bob" \in Party
    BY DEF Party
  <1>2. OutTypes'
    BY SameTypes DEF RestartBob
  <1> QED BY <1>1, <1>2, ReloadTypes DEF RestartBob, TypeOK, SessTypes, BobTypes, EnvTypes

LEMMA RestartAliceTypes == ASSUME TypeOK, RestartAlice PROVE TypeOK'
  <1>1. "alice" \in Party
    BY DEF Party
  <1>2. SessTypes' /\ BobTypes' /\ EnvTypes'
    BY <1>1, ReloadTypes DEF RestartAlice, TypeOK, SessTypes, BobTypes, EnvTypes
  <1>3. ASSUME NEW m \in Msgs
        PROVE  [out[m] EXCEPT !.timer = 0, !.pc = IF @ = "idle" THEN @ ELSE "done", !.s = 0] \in Row
    <2>1. out[m] \in Row
      BY DEF TypeOK, OutTypes
    <2>2. CASE out[m].pc = "idle"
      BY <2>1, <2>2, Numbers DEF Row
    <2>3. CASE out[m].pc # "idle"
      BY <2>1, <2>3, Numbers DEF Row
    <2> QED BY <2>2, <2>3
  <1>4. NoLoop \in Loop
    BY DEF NoLoop, Loop
  <1>5. OutTypes'
    BY <1>3, <1>4 DEF RestartAlice, OutTypes
  <1> QED BY <1>2, <1>5 DEF TypeOK

LEMMA BlockTypes ==
  ASSUME TypeOK, Block \/ Unblock \/ \E m \in Msgs : Forget(m) PROVE TypeOK'
  <1>1. OutTypes'
    BY SameTypes DEF Block, Unblock, Forget
  <1>2. SessTypes'
    BY SameTypes, NudgeTypes DEF Block, Unblock, Forget, TypeOK, SessTypes
  <1>3. BobTypes'
    BY DEF Block, Unblock, Forget, TypeOK, BobTypes
  <1>4. EnvTypes'
    BY NudgeTypes DEF Block, Unblock, Forget, envVars, TypeOK, EnvTypes
  <1> QED BY <1>1, <1>2, <1>3, <1>4 DEF TypeOK

LEMMA TypeStep == TypeOK /\ SendsUnderSession /\ [Next]_vars => TypeOK'
  <1> SUFFICES ASSUME TypeOK, SendsUnderSession, [Next]_vars PROVE TypeOK'
    OBVIOUS
  <1>1. CASE UNCHANGED vars
    BY <1>1, SameTypes DEF vars, sessVars, outVars, bobVars, envVars, TypeOK
  <1>2. ASSUME NEW m \in Msgs,
               \/ Send(m) \/ Encrypt(m) \/ AfterWrite(m) \/ Timer(m) \/ QueueSend(m)
               \/ RetryMessage(m) \/ Receipt(m)
        PROVE  TypeOK'
    BY <1>2, SendTypes, EncryptTypes, AfterWriteTypes, TimerTypes, QueueSendTypes,
       RetryMessageTypes, ReceiptTypes
  <1>3. CASE TryAuto
    BY <1>3, TryAutoTypes
  <1>4. ASSUME NEW s \in Sess,
               \/ Fetched(s) \/ Reclaim(s) \/ InitWrite(s) \/ BootWrite(s)
               \/ \E m \in Msgs : FlushOne(s, m)
               \/ BootArrives(s) \/ InitArrives(s)
        PROVE  TypeOK'
    BY <1>4, FetchedTypes, ReclaimTypes, InitWriteTypes, BootWriteTypes, FlushOneTypes,
       BootArrivesTypes, InitArrivesTypes
  <1>5. ASSUME NEW f \in MsgFrames, MsgArrives(f) PROVE TypeOK'
    BY <1>5, MsgArrivesTypes
  <1>6. CASE ResetArrives
    BY <1>6, ResetArrivesTypes
  <1>7. ASSUME NEW p \in Party, CoolEnd(p) PROVE TypeOK'
    BY <1>7, CoolEndTypes
  <1>8. CASE RestartBob \/ RestartAlice
    BY <1>8, RestartBobTypes, RestartAliceTypes
  <1>9. CASE Block \/ Unblock \/ \E m \in Msgs : Forget(m)
    BY <1>9, BlockTypes
  <1> QED BY <1>1, <1>2, <1>3, <1>4, <1>5, <1>6, <1>7, <1>8, <1>9 DEF Next

-----------------------------------------------------------------------------
(* What a step does to the outgoing messages.                              *)

Touch(m) ==
  \/ Send(m) \/ Encrypt(m) \/ AfterWrite(m) \/ Timer(m) \/ RetryMessage(m) \/ Receipt(m)
  \/ \E s \in Sess : FlushOne(s, m)

(* A step that is not about a message, a new session or Alice's restart    *)
(* changes no row, and no step but these takes anything out of `held`.     *)
LEMMA StepCases ==
  ASSUME [Next]_vars
  PROVE  \/ \E m \in Msgs : Touch(m)
         \/ \E s \in Sess : Reclaim(s)
         \/ RestartAlice
         \/ UNCHANGED <<out, held, lapse>>
  <1> SUFFICES ASSUME ~UNCHANGED <<out, held, lapse>>
               PROVE  \/ \E m \in Msgs : Touch(m)
                      \/ \E s \in Sess : Reclaim(s)
                      \/ RestartAlice
    OBVIOUS
  <1> USE DEF outVars, envVars
  <1>1. Next
    BY DEF vars
  <1>2. \A m \in Msgs : ~QueueSend(m)
    BY DEF QueueSend, OutOnly
  <1>3. ~TryAuto /\ ~ResetArrives /\ ~RestartBob
    BY DEF TryAuto, ResetArrives, RestartBob
  <1>4. \A s \in Sess : /\ ~Fetched(s) /\ ~InitWrite(s) /\ ~BootWrite(s)
                        /\ ~BootArrives(s) /\ ~InitArrives(s)
    BY DEF Fetched, InitWrite, BootWrite, BootArrives, InitArrives
  <1>5. \A f \in MsgFrames : ~MsgArrives(f)
    BY DEF MsgArrives
  <1>6. \A p \in Party : ~CoolEnd(p)
    BY DEF CoolEnd
  <1>7. ~Block /\ ~Unblock /\ \A m \in Msgs : ~Forget(m)
    BY DEF Block, Unblock, Forget
  <1> QED BY <1>1, <1>2, <1>3, <1>4, <1>5, <1>6, <1>7 DEF Next, Touch

(* A step about one message leaves the others as they are.                 *)
LEMMA TouchesOne ==
  ASSUME TypeOK, NEW m \in Msgs, Touch(m), NEW k \in Msgs, k # m
  PROVE  /\ out'[k] = out[k] /\ (k \in held => k \in held')
         /\ lapse' = lapse
  BY DEF Touch, Send, Encrypt, AfterWrite, Timer, RetryMessage, Receipt, FlushOne, OutOnly,
     envVars, TypeOK, OutTypes

(* Reclaiming takes a message out of the queue only to hold it.            *)
LEMMA ReclaimedFields ==
  ASSUME TypeOK, NEW s \in Sess, Reclaim(s), NEW m \in Msgs
  PROVE  /\ out'[m].pc = out[m].pc /\ out'[m].s = out[m].s /\ out'[m].status = out[m].status
         /\ m \in held' \/ (out'[m] = out[m] /\ m \notin held)
         /\ held \subseteq held'
  <1>1. out[m] \in Row
    BY DEF TypeOK, OutTypes
  <1>2. /\ \/ out'[m] = out[m]
           \/ out'[m] = [out[m] EXCEPT !.queue = 0, !.timer = 0]
        /\ m \in held' \/ (out'[m] = out[m] /\ m \notin held)
        /\ held \subseteq held'
    BY DEF Reclaim, Unacked, outVars, TypeOK, OutTypes
  <1> QED BY <1>1, <1>2 DEF Row

LEMMA SendsStep ==
  ASSUME TypeOK, SendsUnderSession, [Next]_vars PROVE SendsUnderSession'
  <1>1. CASE UNCHANGED <<out, held, lapse>>
    BY <1>1 DEF SendsUnderSession
  <1>2. CASE RestartAlice
    BY <1>2 DEF RestartAlice, SendsUnderSession, TypeOK, OutTypes, Row
  <1>3. ASSUME NEW s \in Sess, Reclaim(s) PROVE SendsUnderSession'
    BY <1>3, ReclaimedFields DEF SendsUnderSession
  <1>4. ASSUME NEW m \in Msgs, Touch(m) PROVE SendsUnderSession'
    <2>1. out'[m].pc \in {"enc", "written"} => out'[m].s # 0
      <3> USE DEF SendsUnderSession, TypeOK, OutTypes, Row
      <3>1. CASE Send(m)
        BY <3>1 DEF Send
      <3>2. CASE Encrypt(m)
        BY <3>2 DEF Encrypt
      <3>3. CASE AfterWrite(m) \/ Timer(m) \/ RetryMessage(m) \/ Receipt(m)
        BY <3>3 DEF AfterWrite, Timer, RetryMessage, Receipt
      <3>4. CASE \E s \in Sess : FlushOne(s, m)
        BY <3>4 DEF FlushOne
      <3> QED BY <1>4, <3>1, <3>2, <3>3, <3>4 DEF Touch
    <2> QED BY <1>4, <2>1, TouchesOne DEF SendsUnderSession
  <1> QED BY <1>1, <1>2, <1>3, <1>4, StepCases

-----------------------------------------------------------------------------
(* Receipts.                                                               *)

LEMMA TransmitReceipts ==
  ASSUME NEW m \in Msgs, NEW f, f # AckFrame(m), NEW o, NEW rest, Transmit(o, f, rest),
         AckFrame(m) \in net'
  PROVE  AckFrame(m) \in rest
  BY DEF Transmit

LEMMA AcknowledgeReceipts ==
  ASSUME NEW m \in Msgs, NEW ms \in SUBSET Msgs, NEW rest, Acknowledge(ms, rest),
         AckFrame(m) \in net'
  PROVE  AckFrame(m) \in rest \/ m \in ms
  BY ReceiptsDiffer DEF Acknowledge

LEMMA UndecryptableReceipts ==
  ASSUME NEW m \in Msgs, NEW f, NEW rest, Undecryptable(f, rest), AckFrame(m) \in net'
  PROVE  AckFrame(m) \in rest
  BY ReceiptsDiffer, TransmitReceipts DEF Undecryptable

(* What is stored stays stored, what was refused stays refused, and a      *)
(* receipt that was not on its way is for one of these.                    *)
NoFalseReceipt ==
  /\ stored \cup Refused \subseteq (stored \cup Refused)'
  /\ known' \subseteq known \cup (stored \cup Refused)'
  /\ \A m \in Msgs : AckFrame(m) \in net' => AckFrame(m) \in net \/ m \in (stored \cup Refused)'

(* What is opened is stored or refused.                                    *)
LEMMA TakenOnes ==
  ASSUME TypeOK, NEW ms \in SUBSET Msgs, NEW s \in Sess, Take(ms, s)
  PROVE  /\ (stored \cup Refused)' = stored \cup Refused \cup ms
         /\ known' \subseteq known \cup ms
  <1>1. CASE blocked
    <2>1. /\ stored' = stored /\ refused' = refused \cup {MsgFrame(m, s) : m \in ms}
          /\ known' = known \cup ms
      BY <1>1 DEF Take
    <2>2. \A m \in ms : MsgFrame(m, s).m = m
      BY DEF MsgFrame
    <2>3. Refused' = Refused \cup ms
      BY <2>1, <2>2 DEF Refused
    <2> QED BY <2>1, <2>3
  <1>2. CASE ~blocked
    BY <1>2 DEF Take, Show, Refused
  <1> QED BY <1>1, <1>2

(* A step that shows and refuses nothing.                                  *)
LEMMA NothingTaken ==
  ASSUME UNCHANGED <<stored, refused>>, known' \subseteq known,
         \A m \in Msgs : AckFrame(m) \in net' => AckFrame(m) \in net
  PROVE  NoFalseReceipt
  BY DEF NoFalseReceipt, Refused

LEMMA ReceiptStep ==
  ASSUME TypeOK, SendsUnderSession, KnownCame, [Next]_vars PROVE NoFalseReceipt
  <1> USE NothingTaken DEF bobVars
  <1>1. CASE UNCHANGED vars
    BY <1>1 DEF vars
  <1>2. ASSUME NEW m \in Msgs, Send(m) \/ AfterWrite(m) \/ Timer(m) PROVE NoFalseReceipt
    BY <1>2 DEF Send, AfterWrite, Timer, OutOnly
  <1>3. ASSUME NEW m \in Msgs, Receipt(m) PROVE NoFalseReceipt
    BY <1>3 DEF Receipt
  <1>4. ASSUME NEW m \in Msgs, Encrypt(m) PROVE NoFalseReceipt
    <2>1. MsgFrame(m, out[m].s) \in MsgFrames
      BY <1>4, Bounds DEF Encrypt, SendsUnderSession, TypeOK, OutTypes, Row, Sess, MsgFrames
    <2> QED BY <1>4, <2>1, ReceiptsDiffer, TransmitReceipts DEF Encrypt, OutOnly
  <1>5. ASSUME NEW m \in Msgs, QueueSend(m) \/ RetryMessage(m) PROVE NoFalseReceipt
    <2>1. out[m].queue \in Sess
      BY <1>5, Bounds DEF QueueSend, RetryMessage, TypeOK, OutTypes, Row, Sess
    <2>2. MsgFrame(m, out[m].queue) \in MsgFrames
      BY <2>1 DEF MsgFrames
    <2> QED BY <1>5, <2>2, ReceiptsDiffer, TransmitReceipts DEF QueueSend, RetryMessage, OutOnly
  <1>6. CASE TryAuto
    BY <1>6 DEF TryAuto
  <1>7. ASSUME NEW s \in Sess, Fetched(s) \/ Reclaim(s) PROVE NoFalseReceipt
    BY <1>7 DEF Fetched, Reclaim
  <1>8. ASSUME NEW s \in Sess, InitWrite(s) \/ BootWrite(s) PROVE NoFalseReceipt
    BY <1>8, ReceiptsDiffer, TransmitReceipts DEF InitWrite, BootWrite
  <1>9. ASSUME NEW s \in Sess, NEW m \in Msgs, FlushOne(s, m) PROVE NoFalseReceipt
    BY <1>9, ReceiptsDiffer, TransmitReceipts DEF FlushOne
  <1>10. ASSUME NEW s \in Sess, BootArrives(s) PROVE NoFalseReceipt
    BY <1>10, UndecryptableReceipts DEF BootArrives
  <1>11. ASSUME NEW s \in Sess, InitArrives(s) PROVE NoFalseReceipt
    <2>1. Opened(s) \in SUBSET Msgs /\ Opened(s) \ stored \in SUBSET Msgs
      BY DEF Opened
    <2>2. /\ (stored \cup Refused)' = stored \cup Refused \cup (Opened(s) \ stored)
          /\ known' \subseteq known \cup (Opened(s) \ stored)
      BY <1>11, <2>1, TakenOnes, Zenon DEF InitArrives
    <2>3. \A m \in Msgs : AckFrame(m) \in net' => AckFrame(m) \in net \/ m \in Opened(s)
      BY <1>11, <2>1, AcknowledgeReceipts DEF InitArrives
    <2> QED BY <2>2, <2>3 DEF NoFalseReceipt
  <1>12. ASSUME NEW f \in MsgFrames, MsgArrives(f) PROVE NoFalseReceipt
    <2> DEFINE ms == {f.m} \ (stored \cup known)
    <2>1. {f.m} \in SUBSET Msgs /\ ms \in SUBSET Msgs /\ f.s \in Sess
      BY FrameTypes
    <2>2. CASE Undecryptable(f, net \ {f}) /\ UNCHANGED <<stored, shown, refused, known>>
      BY <2>2, UndecryptableReceipts
    <2>3. CASE Take(ms, f.s) /\ Acknowledge({f.m}, net \ {f})
      <3>1. /\ (stored \cup Refused)' = stored \cup Refused \cup ms
            /\ known' \subseteq known \cup ms
        BY <2>1, <2>3, TakenOnes, Zenon
      <3>2. \A m \in Msgs : AckFrame(m) \in net' => AckFrame(m) \in net \/ m = f.m
        BY <2>1, <2>3, AcknowledgeReceipts
      <3>3. f.m \in (stored \cup Refused)'
        BY <3>1 DEF KnownCame
      <3> QED BY <3>1, <3>2, <3>3 DEF NoFalseReceipt
    <2> QED BY <1>12, <2>2, <2>3 DEF MsgArrives
  <1>13. CASE ResetArrives
    BY <1>13 DEF ResetArrives
  <1>14. ASSUME NEW p \in Party, CoolEnd(p) PROVE NoFalseReceipt
    BY <1>14 DEF CoolEnd
  <1>15. CASE RestartBob \/ RestartAlice
    BY <1>15 DEF RestartBob, RestartAlice, Reload
  <1>16. CASE Block \/ Unblock \/ \E m \in Msgs : Forget(m)
    BY <1>16 DEF Block, Unblock, Forget
  <1> QED BY <1>1, <1>2, <1>3, <1>4, <1>5, <1>6, <1>7, <1>8, <1>9, <1>10, <1>11, <1>12,
             <1>13, <1>14, <1>15, <1>16 DEF Next

LEMMA KnownStep ==
  ASSUME TypeOK, SendsUnderSession, KnownCame, [Next]_vars PROVE KnownCame'
  BY ReceiptStep DEF NoFalseReceipt, KnownCame

(* Only a receipt makes a message delivered.                               *)
LEMMA DeliveredStep ==
  ASSUME TypeOK, SendsUnderSession, KnownCame, DeliveredMeansStored, [Next]_vars
  PROVE  DeliveredMeansStored'
  <1> SUFFICES ASSUME NEW m \in Msgs, out'[m].status = "delivered"
               PROVE  out[m].status = "delivered" \/ AckFrame(m) \in net
    BY ReceiptStep DEF NoFalseReceipt, DeliveredMeansStored
  <1>1. CASE UNCHANGED <<out, held, lapse>>
    BY <1>1
  <1>2. CASE RestartAlice
    BY <1>2 DEF RestartAlice, TypeOK, OutTypes, Row
  <1>3. ASSUME NEW s \in Sess, Reclaim(s) PROVE out[m].status = "delivered"
    BY <1>3, ReclaimedFields
  <1>4. ASSUME NEW k \in Msgs, Touch(k), k # m PROVE out[m].status = "delivered"
    BY <1>4, TouchesOne
  <1>5. ASSUME Touch(m) PROVE out[m].status = "delivered" \/ AckFrame(m) \in net
    <2> USE DEF TypeOK, OutTypes, Row
    <2>1. CASE Send(m) \/ AfterWrite(m) \/ Timer(m) \/ RetryMessage(m)
      BY <2>1 DEF Send, AfterWrite, Timer, RetryMessage
    <2>2. CASE Encrypt(m)
      BY <2>2 DEF Encrypt
    <2>3. CASE Receipt(m)
      BY <2>3 DEF Receipt
    <2>4. CASE \E s \in Sess : FlushOne(s, m)
      BY <2>4 DEF FlushOne
    <2> QED BY <1>5, <2>1, <2>2, <2>3, <2>4 DEF Touch
  <1> QED BY <1>1, <1>2, <1>3, <1>4, <1>5, StepCases

-----------------------------------------------------------------------------
(* What is shown and refused.                                              *)

(* Only a message that arrives or a session that opens buffered ones shows *)
(* Bob anything, or is refused.                                            *)
LEMMA OnlyArrivalsShow ==
  ASSUME [Next]_vars, ~UNCHANGED <<stored, shown, refused>>
  PROVE  \/ \E f \in MsgFrames : MsgArrives(f)
         \/ \E s \in Sess : InitArrives(s)
  <1> USE DEF bobVars
  <1>1. Next
    BY DEF vars
  <1>2. ASSUME NEW m \in Msgs
        PROVE  /\ ~Send(m) /\ ~Encrypt(m) /\ ~AfterWrite(m) /\ ~Timer(m) /\ ~QueueSend(m)
               /\ ~RetryMessage(m) /\ ~Receipt(m) /\ ~Forget(m)
    BY DEF Send, Encrypt, AfterWrite, Timer, QueueSend, RetryMessage, Receipt, OutOnly, Forget
  <1>3. ~TryAuto /\ ~ResetArrives /\ ~Block /\ ~Unblock /\ \A p \in Party : ~CoolEnd(p)
    BY DEF TryAuto, ResetArrives, Block, Unblock, CoolEnd
  <1>4. ASSUME NEW s \in Sess
        PROVE  /\ ~Fetched(s) /\ ~Reclaim(s) /\ ~InitWrite(s) /\ ~BootWrite(s)
               /\ ~BootArrives(s) /\ \A m \in Msgs : ~FlushOne(s, m)
    BY DEF Fetched, Reclaim, InitWrite, BootWrite, BootArrives, FlushOne
  <1>5. ~RestartBob /\ ~RestartAlice
    BY DEF RestartBob, RestartAlice, Reload
  <1> QED BY <1>1, <1>2, <1>3, <1>4, <1>5 DEF Next

(* What is stored stays stored.                                            *)
LEMMA StoredStays == ASSUME [Next]_vars PROVE stored \subseteq stored'
  <1>1. \A ms, s : Take(ms, s) => stored \subseteq stored'
    BY DEF Take, Show
  <1> QED BY <1>1, OnlyArrivalsShow DEF MsgArrives, InitArrives

-----------------------------------------------------------------------------
(* No message falls between two places.                                    *)

LEMMA NeverForgottenStep ==
  ASSUME TypeOK, SendsUnderSession, KnownCame, NeverForgotten, [Next]_vars
  PROVE  NeverForgotten'
  <1> SUFFICES ASSUME ~lapse', NEW m \in Msgs, out'[m].status = "open", m \notin stored'
               PROVE  Somewhere(m)'
    BY DEF NeverForgotten
  <1>1. m \notin stored
    BY StoredStays
  <1>2. ASSUME out[m].status = "open", ~lapse PROVE Somewhere(m)
    BY <1>1, <1>2 DEF NeverForgotten
  <1>3. CASE UNCHANGED <<out, held, lapse>>
    BY <1>2, <1>3 DEF Somewhere
  <1>4. CASE RestartAlice
    BY <1>4 DEF RestartAlice
  <1>5. ASSUME NEW s \in Sess, Reclaim(s) PROVE Somewhere(m)'
    <2>1. lapse' = lapse
      BY <1>5 DEF Reclaim, envVars
    <2> QED BY <1>2, <1>5, <2>1, ReclaimedFields DEF Somewhere
  <1>6. ASSUME NEW k \in Msgs, Touch(k), k # m PROVE Somewhere(m)'
    BY <1>2, <1>6, TouchesOne DEF Somewhere
  <1>7. ASSUME Touch(m) PROVE Somewhere(m)'
    <2> USE DEF Somewhere, TypeOK, OutTypes, Row
    <2>1. CASE Send(m)
      BY <2>1 DEF Send
    <2>2. CASE Encrypt(m)
      BY <2>2 DEF Encrypt, SendsUnderSession
    <2>3. CASE AfterWrite(m)
      BY <2>3 DEF AfterWrite, SendsUnderSession
    <2>4. CASE Timer(m)
      BY <2>4 DEF Timer
    <2>5. CASE RetryMessage(m)
      BY <2>5 DEF RetryMessage
    <2>6. CASE Receipt(m)
      BY <2>6 DEF Receipt
    <2>7. CASE \E s \in Sess : FlushOne(s, m)
      BY <1>2, <2>7, Bounds DEF FlushOne, Sess, envVars
    <2> QED BY <1>7, <2>1, <2>2, <2>3, <2>4, <2>5, <2>6, <2>7 DEF Touch
  <1> QED BY <1>3, <1>4, <1>5, <1>6, <1>7, StepCases

-----------------------------------------------------------------------------
(* Shown once.                                                             *)

LEMMA ShowOnce ==
  ASSUME TypeOK, ShownIsStored, NEW ms \in SUBSET (Msgs \ stored), NEW s, Take(ms, s)
  PROVE  ShownIsStored'
  BY DEF Take, Show, ShownIsStored, TypeOK, BobTypes

LEMMA ShownStep ==
  ASSUME TypeOK, ShownIsStored, [Next]_vars PROVE ShownIsStored'
  <1>1. CASE UNCHANGED <<stored, shown>>
    BY <1>1 DEF ShownIsStored
  <1>2. ASSUME NEW f \in MsgFrames, MsgArrives(f) PROVE ShownIsStored'
    <2>1. {f.m} \ (stored \cup known) \in SUBSET (Msgs \ stored)
      BY FrameTypes
    <2> QED BY <1>1, <1>2, <2>1, ShowOnce DEF MsgArrives
  <1>3. ASSUME NEW s \in Sess, InitArrives(s) PROVE ShownIsStored'
    <2>1. Opened(s) \ stored \in SUBSET (Msgs \ stored)
      BY DEF Opened
    <2> QED BY <1>3, <2>1, ShowOnce DEF InitArrives
  <1> QED BY <1>1, <1>2, <1>3, OnlyArrivalsShow

-----------------------------------------------------------------------------
(* The theorems.                                                           *)

LEMMA InitIInv == Init => IInv
  <1>1. Init => DeliveredMeansStored /\ NeverForgotten /\ ShownIsStored /\ KnownCame
    BY DEF Init, Fresh, DeliveredMeansStored, NeverForgotten, ShownIsStored, KnownCame
  <1> QED BY <1>1, InitTypes DEF IInv

LEMMA StepIInv == IInv /\ [Next]_vars => IInv'
  BY TypeStep, SendsStep, ShownStep, KnownStep, DeliveredStep, NeverForgottenStep DEF IInv

(* Whatever fails or is lost, every variable of the two devices keeps its  *)
(* type, and no frame is ever made without a session.                      *)
THEOREM TypeCorrect == Spec => []TypeOK
  BY InitIInv, StepIInv, PTL DEF Spec, IInv

(* A message Alice shows as delivered is in Bob's store, whatever was      *)
(* lost, repeated or sent again under another session, unless Bob's device *)
(* opened it while he had Alice blocked: the receipts of useKant.ts are    *)
(* true.                                                                   *)
THEOREM ReceiptsAreTrue == Spec => []DeliveredMeansStored
  BY InitIInv, StepIInv, PTL DEF Spec, IInv

(* While Alice's device keeps running, every message Bob lacks is held, in *)
(* the queue, under an ACK timer or being written, for any number of       *)
(* sessions, messages, failing writes and lost frames.                     *)
THEOREM NothingForgotten == Spec => []NeverForgotten
  BY InitIInv, StepIInv, PTL DEF Spec, IInv

(* Bob's user sees a message once, however often it is delivered.          *)
THEOREM NoDuplicates == Spec => []ShownOnce
  <1>1. IInv => ShownOnce
    BY DEF IInv, ShownIsStored, ShownOnce
  <1> QED BY <1>1, InitIInv, StepIInv, PTL DEF Spec

-----------------------------------------------------------------------------
(* Nothing is under way of a message that was not sent.                    *)

Quiet(m) ==
  /\ out[m].queue = 0 /\ out[m].timer = 0 /\ out[m].status = "none"
  /\ m \notin held /\ m \notin stored \cup Refused
  /\ \A s \in Sess : m \notin loop[s].todo
  /\ \A s \in Sess : MsgFrame(m, s) \notin net \cup buffer

NothingUnsent == \A m \in Msgs : out[m].pc = "idle" => Quiet(m)

MailInv == IInv /\ NothingUnsent

(* A message frame is no other frame, and names one message and session.   *)
LEMMA MessagesDiffer ==
  ASSUME NEW m \in Msgs, NEW s \in Sess
  PROVE  /\ \A t \in Sess : MsgFrame(m, s) # InitFrame(t) /\ MsgFrame(m, s) # BootFrame(t)
         /\ \A k \in Msgs : MsgFrame(m, s) # AckFrame(k)
         /\ MsgFrame(m, s) # ResetFrame
         /\ \A k \in Msgs, t \in Sess : MsgFrame(m, s) = MsgFrame(k, t) => m = k /\ s = t
         /\ MsgFrame(m, s).m = m
  <1>1. MsgFrame(m, s).kind = "msg" /\ ResetFrame.kind = "reset"
    BY DEF MsgFrame, ResetFrame
  <1>2. \A t \in Sess : InitFrame(t).kind = "init" /\ BootFrame(t).kind = "boot"
    BY DEF InitFrame, BootFrame
  <1>3. \A k \in Msgs : AckFrame(k).kind = "ack"
    BY DEF AckFrame
  <1>4. \A k \in Msgs, t \in Sess : MsgFrame(k, t).m = k /\ MsgFrame(k, t).s = t
    BY DEF MsgFrame
  <1> QED BY <1>1, <1>2, <1>3, <1>4

(* What was sent is never unsent.                                          *)
LEMMA SentStays ==
  ASSUME TypeOK, [Next]_vars, NEW m \in Msgs, out'[m].pc = "idle" PROVE out[m].pc = "idle"
  <1>1. CASE UNCHANGED <<out, held, lapse>>
    BY <1>1
  <1>2. CASE RestartAlice
    BY <1>2 DEF RestartAlice, TypeOK, OutTypes, Row
  <1>3. ASSUME NEW s \in Sess, Reclaim(s) PROVE out[m].pc = "idle"
    BY <1>3, ReclaimedFields
  <1>4. ASSUME NEW k \in Msgs, Touch(k), k # m PROVE out[m].pc = "idle"
    BY <1>4, TouchesOne
  <1>5. ASSUME Touch(m) PROVE out[m].pc = "idle"
    <2> USE DEF TypeOK, OutTypes, Row
    <2>1. CASE Send(m) \/ Timer(m) \/ RetryMessage(m) \/ Receipt(m)
      BY <2>1 DEF Send, Timer, RetryMessage, Receipt
    <2>2. CASE Encrypt(m)
      <3>1. PICK o \in Outcomes("send") :
              out' = [out EXCEPT ![m] = IF o = "throws"
                        THEN [@ EXCEPT !.pc = "done", !.s = 0, !.status = "open", !.queue = out[m].s]
                        ELSE [@ EXCEPT !.pc = "written"]]
        BY <2>2 DEF Encrypt
      <3>2. out'[m].pc \in {"done", "written"}
        BY <3>1
      <3> QED BY <1>5, <3>2
    <2>3. CASE AfterWrite(m)
      BY <2>3 DEF AfterWrite
    <2>4. CASE \E s \in Sess : FlushOne(s, m)
      BY <2>4 DEF FlushOne
    <2> QED BY <1>5, <2>1, <2>2, <2>3, <2>4 DEF Touch
  <1> QED BY <1>1, <1>2, <1>3, <1>4, <1>5, StepCases

(* The pieces of the steps that change the network make no message.        *)
LEMMA TransmitMessages ==
  ASSUME NEW m \in Msgs, NEW s \in Sess, NEW f, f # MsgFrame(m, s), NEW o, NEW rest,
         Transmit(o, f, rest), MsgFrame(m, s) \in net'
  PROVE  MsgFrame(m, s) \in rest
  BY DEF Transmit

LEMMA AcknowledgeMessages ==
  ASSUME NEW m \in Msgs, NEW s \in Sess, NEW ms \in SUBSET Msgs, NEW rest,
         Acknowledge(ms, rest), MsgFrame(m, s) \in net'
  PROVE  MsgFrame(m, s) \in rest
  BY MessagesDiffer DEF Acknowledge

LEMMA UndecryptableMessages ==
  ASSUME NEW m \in Msgs, NEW s \in Sess, NEW f, NEW rest, Undecryptable(f, rest)
  PROVE  /\ MsgFrame(m, s) \in net' => MsgFrame(m, s) \in rest
         /\ MsgFrame(m, s) \in buffer' => MsgFrame(m, s) \in buffer \/ MsgFrame(m, s) = f
  <1>1. net' = rest \/ \E o : Transmit(o, ResetFrame, rest)
    BY DEF Undecryptable
  <1>2. buffer' = buffer \/ buffer' = buffer \cup {f}
    BY DEF Undecryptable
  <1>3. MsgFrame(m, s) \in net' => MsgFrame(m, s) \in rest
    BY <1>1, MessagesDiffer, TransmitMessages
  <1> QED BY <1>2, <1>3

(* A message that stays unsent keeps its row, and no receipt is for it.    *)
LEMMA UnsentRow ==
  ASSUME MailInv, [Next]_vars, NEW m \in Msgs, out'[m].pc = "idle"
  PROVE  /\ Quiet(m) /\ AckFrame(m) \notin net /\ ~Touch(m)
         /\ out'[m].queue = 0 /\ out'[m].timer = 0 /\ out'[m].status = "none"
         /\ m \notin held'
  <1>1. out[m].pc = "idle" /\ Quiet(m)
    BY SentStays DEF MailInv, IInv, NothingUnsent
  <1>2. AckFrame(m) \notin net
    BY <1>1 DEF MailInv, IInv, DeliveredMeansStored, Quiet
  <1>3. out \in [Msgs -> Row] /\ out[m] \in Row
    BY DEF MailInv, IInv, TypeOK, OutTypes
  <1>4. ~Touch(m)
    <2>1. ~Send(m)
      BY <1>3 DEF Send, Row
    <2>2. ~Encrypt(m) /\ ~AfterWrite(m)
      BY <1>1 DEF Encrypt, AfterWrite
    <2>3. ~Timer(m) /\ ~RetryMessage(m) /\ ~Receipt(m)
      BY <1>1, <1>2 DEF Timer, RetryMessage, Receipt, Quiet
    <2>4. \A s \in Sess : ~FlushOne(s, m)
      BY <1>1 DEF FlushOne, Quiet
    <2> QED BY <2>1, <2>2, <2>3, <2>4 DEF Touch
  <1>5. CASE UNCHANGED <<out, held, lapse>>
    BY <1>1, <1>2, <1>4, <1>5 DEF Quiet
  <1>6. CASE RestartAlice
    BY <1>1, <1>2, <1>3, <1>4, <1>6 DEF RestartAlice, Quiet, Row
  <1>7. ASSUME NEW s \in Sess, Reclaim(s) PROVE out'[m] = out[m] /\ m \notin held'
    BY <1>1, <1>3, <1>7 DEF Reclaim, Unacked, outVars, Quiet
  <1>8. ASSUME NEW k \in Msgs, Touch(k), k # m PROVE out'[m] = out[m] /\ m \notin held'
    <2>1. out'[m] = out[m]
      BY <1>8, TouchesOne DEF MailInv, IInv
    <2>2. held' \subseteq held \cup {k}
      BY <1>8 DEF Touch, Send, Encrypt, AfterWrite, Timer, RetryMessage, Receipt, FlushOne, OutOnly
    <2> QED BY <1>1, <1>8, <2>1, <2>2 DEF Quiet
  <1> QED BY <1>1, <1>2, <1>4, <1>5, <1>6, <1>7, <1>8, StepCases DEF Quiet

(* No loop is given a message that is neither held nor just sent.          *)
LEMMA UnsentLoops ==
  ASSUME MailInv, [Next]_vars, NEW m \in Msgs, out'[m].pc = "idle", NEW s \in Sess
  PROVE  m \notin loop'[s].todo
  <1>1. /\ Quiet(m) /\ ~Touch(m) /\ m \notin held /\ m \notin loop[s].todo
        /\ loop \in [Sess -> Loop]
    BY UnsentRow DEF MailInv, IInv, TypeOK, OutTypes, Quiet
  <1> USE <1>1 DEF Loop
  <1>2. ASSUME DropFlushed PROVE m \notin loop'[s].todo
    BY <1>2 DEF DropFlushed
  <1>3. ASSUME NEW k \in Msgs, Send(k) PROVE m \notin loop'[s].todo
    <2>1. k # m
      BY <1>3 DEF Touch
    <2> QED BY <1>3, <2>1 DEF Send
  <1>4. ASSUME NEW t \in Sess, BootWrite(t) PROVE m \notin loop'[s].todo
    BY <1>4 DEF BootWrite, NoLoop
  <1>5. ASSUME NEW t \in Sess, NEW k \in Msgs, FlushOne(t, k) PROVE m \notin loop'[s].todo
    BY <1>5 DEF FlushOne, NoLoop
  <1>6. CASE RestartAlice
    BY <1>6 DEF RestartAlice, NoLoop
  <1>7. CASE ResetArrives \/ \E t \in Sess : Fetched(t) \/ Reclaim(t)
    BY <1>2, <1>7 DEF ResetArrives, Fetched, Reclaim, outVars
  <1>8. ASSUME NEW k \in Msgs,
               \/ Encrypt(k) \/ AfterWrite(k) \/ Timer(k) \/ QueueSend(k) \/ RetryMessage(k)
               \/ Receipt(k)
        PROVE  loop' = loop
    BY <1>8 DEF Encrypt, AfterWrite, Timer, QueueSend, RetryMessage, Receipt, OutOnly
  <1>9. ASSUME NEW t \in Sess, InitWrite(t) \/ BootArrives(t) \/ InitArrives(t)
        PROVE  loop' = loop
    BY <1>9 DEF InitWrite, BootArrives, InitArrives, outVars
  <1>10. ASSUME NEW f \in MsgFrames, MsgArrives(f) PROVE loop' = loop
    BY <1>10 DEF MsgArrives, outVars
  <1>11. CASE \/ TryAuto \/ RestartBob \/ \E p \in Party : CoolEnd(p)
              \/ Block \/ Unblock \/ \E k \in Msgs : Forget(k)
    BY <1>11 DEF TryAuto, RestartBob, CoolEnd, Block, Unblock, Forget, outVars
  <1>12. CASE UNCHANGED vars
    BY <1>12 DEF vars
  <1> QED
    BY <1>3, <1>4, <1>5, <1>6, <1>7, <1>8, <1>9, <1>10, <1>11, <1>12 DEF Next

SameTaken == UNCHANGED <<stored, refused>>

(* No frame of it is made, kept or opened.                                 *)
LEMMA UnsentFrames ==
  ASSUME MailInv, [Next]_vars, NEW m \in Msgs, out'[m].pc = "idle"
  PROVE  /\ \A s \in Sess : MsgFrame(m, s) \notin net' \cup buffer'
         /\ m \notin (stored \cup Refused)'
  <1>1. /\ Quiet(m) /\ ~Touch(m) /\ m \notin stored \cup Refused /\ out[m].queue = 0
        /\ \A s \in Sess : MsgFrame(m, s) \notin net /\ MsgFrame(m, s) \notin buffer
        /\ \A s \in Sess : m \notin loop[s].todo
    BY UnsentRow DEF Quiet
  <1>2. ASSUME SameTaken, buffer' = buffer, net' \subseteq net
        PROVE  /\ \A s \in Sess : MsgFrame(m, s) \notin net' \cup buffer'
               /\ m \notin (stored \cup Refused)'
    BY <1>1, <1>2 DEF SameTaken, Refused
  <1>3. ASSUME NEW k \in Msgs, Send(k) \/ AfterWrite(k) \/ Timer(k) \/ Receipt(k)
        PROVE  SameTaken /\ buffer' = buffer /\ net' \subseteq net
    BY <1>3 DEF Send, AfterWrite, Timer, Receipt, OutOnly, bobVars, SameTaken
  <1>4. ASSUME NEW k \in Msgs, k # m, NEW t \in Sess, NEW o, Transmit(o, MsgFrame(k, t), net)
        PROVE  \A s \in Sess : MsgFrame(m, s) \notin net'
    BY <1>1, <1>4, MessagesDiffer, TransmitMessages
  <1>5. ASSUME NEW k \in Msgs, Encrypt(k) \/ QueueSend(k) \/ RetryMessage(k)
        PROVE  /\ SameTaken /\ buffer' = buffer
               /\ \A s \in Sess : MsgFrame(m, s) \notin net'
    <2>1. k # m
      BY <1>1, <1>5 DEF Touch, QueueSend
    <2>2. Encrypt(k) => out[k].s \in Sess
      BY Bounds DEF Encrypt, MailInv, IInv, SendsUnderSession, TypeOK, OutTypes, Row, Sess
    <2>3. QueueSend(k) \/ RetryMessage(k) => out[k].queue \in Sess
      BY Bounds DEF QueueSend, RetryMessage, MailInv, IInv, TypeOK, OutTypes, Row, Sess
    <2>4. /\ Encrypt(k) => \E o : Transmit(o, MsgFrame(k, out[k].s), net)
          /\ QueueSend(k) \/ RetryMessage(k) => \E o : Transmit(o, MsgFrame(k, out[k].queue), net)
      BY DEF Encrypt, QueueSend, RetryMessage
    <2>5. \A s \in Sess : MsgFrame(m, s) \notin net'
      BY <1>4, <1>5, <2>1, <2>2, <2>3, <2>4
    <2> QED BY <1>5, <2>5 DEF Encrypt, QueueSend, RetryMessage, OutOnly, bobVars, SameTaken
  <1>6. ASSUME NEW t \in Sess, NEW k \in Msgs, FlushOne(t, k)
        PROVE  /\ SameTaken /\ buffer' = buffer
               /\ \A s \in Sess : MsgFrame(m, s) \notin net'
    <2>1. k # m
      BY <1>1, <1>6 DEF FlushOne
    <2>2. net' = net \/ \E o : Transmit(o, MsgFrame(k, t), net)
      BY <1>6 DEF FlushOne
    <2> QED BY <1>1, <1>4, <1>6, <2>1, <2>2 DEF FlushOne, bobVars, SameTaken
  <1>7. ASSUME NEW t \in Sess, InitWrite(t) \/ BootWrite(t)
        PROVE  /\ SameTaken /\ buffer' = buffer
               /\ \A s \in Sess : MsgFrame(m, s) \notin net'
    <2>1. \E o : Transmit(o, InitFrame(t), net) \/ Transmit(o, BootFrame(t), net)
      BY <1>7 DEF InitWrite, BootWrite
    <2> QED BY <1>1, <1>7, <2>1, MessagesDiffer, TransmitMessages DEF InitWrite, BootWrite, bobVars, SameTaken
  <1>8. ASSUME NEW t \in Sess, BootArrives(t)
        PROVE  /\ \A s \in Sess : MsgFrame(m, s) \notin net' \cup buffer'
               /\ m \notin (stored \cup Refused)'
    <2>1. m \notin (stored \cup Refused)'
      BY <1>1, <1>8 DEF BootArrives, Refused
    <2>2. CASE rat["bob"] = t
      BY <1>1, <1>8, <2>1, <2>2 DEF BootArrives, sessVars
    <2>3. CASE Undecryptable(BootFrame(t), net \ {BootFrame(t)})
      BY <1>1, <2>1, <2>3, MessagesDiffer, UndecryptableMessages
    <2> QED BY <1>8, <2>2, <2>3 DEF BootArrives
  <1>9. ASSUME NEW t \in Sess, InitArrives(t)
        PROVE  /\ \A s \in Sess : MsgFrame(m, s) \notin net' \cup buffer'
               /\ m \notin (stored \cup Refused)'
    <2>1. Opened(t) \subseteq Msgs /\ m \notin Opened(t)
      BY <1>1 DEF Opened
    <2>2. /\ Take(Opened(t) \ stored, t) /\ buffer' = {}
          /\ Acknowledge(Opened(t), net \ {InitFrame(t)})
      BY <1>9 DEF InitArrives
    <2>3. \A s \in Sess : MsgFrame(m, s) \notin net'
      BY <1>1, <2>1, <2>2, AcknowledgeMessages
    <2>4. (stored \cup Refused)' = stored \cup Refused \cup (Opened(t) \ stored)
      <3>1. Opened(t) \ stored \in SUBSET Msgs /\ TypeOK
        BY <2>1 DEF MailInv, IInv
      <3> QED BY <2>2, <3>1, TakenOnes, Zenon
    <2> QED BY <1>1, <2>1, <2>2, <2>3, <2>4
  <1>10. ASSUME NEW f \in MsgFrames, MsgArrives(f)
         PROVE  /\ \A s \in Sess : MsgFrame(m, s) \notin net' \cup buffer'
                /\ m \notin (stored \cup Refused)'
    <2>1. PICK k \in Msgs, t \in Sess : f = MsgFrame(k, t)
      BY DEF MsgFrames
    <2>2. f \in net /\ f.m = k
      BY <1>10, <2>1, MessagesDiffer DEF MsgArrives
    <2>3. k # m
      BY <1>1, <2>1, <2>2
    <2>4. CASE /\ Acknowledge({f.m}, net \ {f}) /\ Take({f.m} \ (stored \cup known), f.s)
               /\ buffer' = buffer
      <3>1. {f.m} \subseteq Msgs /\ m \notin (stored \cup Refused)'
        <4>1. {f.m} \ (stored \cup known) \in SUBSET Msgs /\ f.s \in Sess /\ TypeOK
          BY <2>2, FrameTypes DEF MailInv, IInv
        <4>2. (stored \cup Refused)' = stored \cup Refused \cup ({f.m} \ (stored \cup known))
          BY <2>4, <4>1, TakenOnes, Zenon
        <4> QED BY <1>1, <2>2, <2>3, <4>2
      <3>2. \A s \in Sess : MsgFrame(m, s) \notin net'
        BY <1>1, <2>4, <3>1, AcknowledgeMessages
      <3> QED BY <1>1, <2>4, <3>1, <3>2
    <2>5. CASE Undecryptable(f, net \ {f}) /\ SameTaken
      <3>1. \A s \in Sess : MsgFrame(m, s) # f
        BY <1>1, <2>2
      <3> QED BY <1>1, <2>5, <3>1, UndecryptableMessages DEF SameTaken, Refused
    <2> QED BY <1>10, <2>4, <2>5 DEF MsgArrives, SameTaken
  <1>11. CASE ResetArrives
    BY <1>2, <1>11 DEF ResetArrives, bobVars, SameTaken
  <1>12. ASSUME NEW t \in Sess, Fetched(t) \/ Reclaim(t)
         PROVE  SameTaken /\ buffer' = buffer /\ net' \subseteq net
    BY <1>12 DEF Fetched, Reclaim, bobVars, SameTaken
  <1>13. CASE TryAuto \/ \E p \in Party : CoolEnd(p)
    BY <1>2, <1>13 DEF TryAuto, CoolEnd, bobVars, SameTaken
  <1>14. CASE RestartBob \/ RestartAlice
    BY <1>1, <1>14 DEF RestartBob, RestartAlice, Reload, Refused
  <1>15. CASE UNCHANGED vars
    BY <1>2, <1>15 DEF vars, SameTaken
  <1>16. CASE Block \/ Unblock \/ \E k \in Msgs : Forget(k)
    BY <1>2, <1>16 DEF Block, Unblock, Forget, SameTaken
  <1>17. SameTaken => m \notin (stored \cup Refused)'
    BY <1>1 DEF SameTaken, Refused
  <1> QED
    BY <1>1, <1>2, <1>3, <1>5, <1>6, <1>7, <1>8, <1>9, <1>10, <1>11, <1>12, <1>13, <1>14, <1>15,
       <1>16, <1>17 DEF Next

LEMMA InitMailInv == Init => MailInv
  BY InitIInv DEF MailInv, NothingUnsent, Quiet, Refused, Init, Fresh, NoLoop

LEMMA StepMailInv == MailInv /\ [Next]_vars => MailInv'
  <1> SUFFICES ASSUME MailInv, [Next]_vars PROVE MailInv'
    OBVIOUS
  <1>1. ASSUME NEW m \in Msgs, out'[m].pc = "idle" PROVE Quiet(m)'
    BY <1>1, UnsentRow, UnsentLoops, UnsentFrames DEF Quiet
  <1> QED BY <1>1, StepIInv DEF MailInv, NothingUnsent
-----------------------------------------------------------------------------
(* The delivery implements the courier.                                    *)

SentOnes == {m \in Msgs : out[m].pc # "idle"}
InCare == {m \in Msgs : Somewhere(m)}
Delivered == {m \in Msgs : out[m].status = "delivered"}

(* What only Bob's side and Alice's restart change.                        *)
Apart == UNCHANGED <<shown, blocked, refused, lapse>>

LEMMA InitMail == Init => Mail!Init
  BY DEF Init, Fresh, Somewhere, Refused, Mail!Init

(* Messages already sent that are taken up again.                          *)
LEMMA ResumeStep ==
  ASSUME NEW ms \in SUBSET SentOnes, SentOnes' = SentOnes, Apart,
         InCare' = InCare \cup ms, Delivered' = Delivered \ ms
  PROVE  Mail!Next
  <1>1. ms \in SUBSET Msgs /\ Mail!Resume(ms)
    BY DEF SentOnes, InCare, Delivered, Apart, Refused, Mail!Resume
  <1> QED BY <1>1 DEF Mail!Next

LEMMA QuietStep ==
  ASSUME SentOnes' = SentOnes, InCare' = InCare, Delivered' = Delivered,
         Apart
  PROVE  UNCHANGED Mail!vars
  BY DEF SentOnes, InCare, Delivered, Apart, Refused, Mail!vars

(* A step about one message leaves the others where they are.              *)
LEMMA OthersSame ==
  ASSUME TypeOK, NEW m \in Msgs, Touch(m)
  PROVE  /\ \A k \in Msgs : k # m => /\ k \in SentOnes' <=> k \in SentOnes
                                     /\ k \in InCare' <=> k \in InCare
                                     /\ k \in Delivered' <=> k \in Delivered
         /\ Apart
  <1>1. ASSUME NEW k \in Msgs, k # m PROVE out'[k] = out[k] /\ (k \in held' <=> k \in held)
    <2>1. out'[k] = out[k]
      BY <1>1, TouchesOne
    <2>2. k \in held' <=> k \in held
      BY <1>1
      DEF Touch, Send, Encrypt, AfterWrite, Timer, RetryMessage, Receipt, FlushOne, OutOnly
    <2> QED BY <2>1, <2>2
  <1>2. Apart
    BY DEF Touch, Send, Encrypt, AfterWrite, Timer, RetryMessage, Receipt, FlushOne, OutOnly,
           bobVars, envVars, Apart
  <1> QED BY <1>1, <1>2 DEF SentOnes, InCare, Delivered, Somewhere

(* Hence such a step is known from what it does to that message.           *)
LEMMA ResumeOne ==
  ASSUME TypeOK, NEW m \in Msgs, Touch(m), m \in SentOnes, m \in SentOnes', m \in InCare',
         m \notin Delivered'
  PROVE  Mail!Next
  <1>1. /\ SentOnes' = SentOnes /\ InCare' = InCare \cup {m} /\ Delivered' = Delivered \ {m}
        /\ Apart
    BY OthersSame DEF SentOnes, InCare, Delivered
  <1>2. {m} \in SUBSET SentOnes
    OBVIOUS
  <1> QED BY <1>1, <1>2, ResumeStep, Zenon

LEMMA QuietOne ==
  ASSUME TypeOK, NEW m \in Msgs, Touch(m), m \in SentOnes' <=> m \in SentOnes,
         m \in InCare' <=> m \in InCare, m \in Delivered' <=> m \in Delivered
  PROVE  UNCHANGED Mail!vars
  <1>1. /\ SentOnes' = SentOnes /\ InCare' = InCare /\ Delivered' = Delivered
        /\ Apart
    BY OthersSame DEF SentOnes, InCare, Delivered
  <1> QED BY <1>1, QuietStep

LEMMA SendMails ==
  ASSUME MailInv, NEW m \in Msgs, Send(m) PROVE Mail!Next
  <1>1. TypeOK /\ Touch(m) /\ out \in [Msgs -> Row] /\ out[m].pc = "idle"
    BY DEF MailInv, IInv, TypeOK, OutTypes, Touch, Send
  <1>2. out[m].status = "none"
    BY <1>1 DEF MailInv, NothingUnsent, Quiet
  <1>3. out'[m].pc # "idle" /\ out'[m].status # "delivered" /\ Somewhere(m)'
    BY <1>1, <1>2 DEF Send, Somewhere, Row
  <1>4. /\ m \notin SentOnes /\ SentOnes' = SentOnes \cup {m} /\ InCare' = InCare \cup {m}
        /\ Delivered' = Delivered /\ Apart
    BY <1>1, <1>2, <1>3, OthersSame DEF SentOnes, InCare, Delivered
  <1>5. Mail!Submit(m)
    BY <1>4 DEF SentOnes, InCare, Delivered, Apart, Refused, Mail!Submit
  <1> QED BY <1>5 DEF Mail!Next

LEMMA EncryptMails ==
  ASSUME MailInv, NEW m \in Msgs, Encrypt(m) PROVE [Mail!Next]_Mail!vars
  <1>1. TypeOK /\ Touch(m) /\ out \in [Msgs -> Row] /\ out[m].pc = "enc" /\ out[m].s # 0
    BY DEF MailInv, IInv, TypeOK, OutTypes, Touch, Encrypt, SendsUnderSession
  <1>2. \/ /\ out'[m].pc = "done" /\ out'[m].status = "open" /\ out'[m].queue = out[m].s
        \/ out'[m].pc = "written" /\ out'[m].status = out[m].status
    BY <1>1 DEF Encrypt, Row
  <1>3. m \in SentOnes /\ m \in SentOnes' /\ m \in InCare /\ m \in InCare'
    BY <1>1, <1>2 DEF SentOnes, InCare, Somewhere
  <1>4. m \notin Delivered' \/ (m \in Delivered' <=> m \in Delivered)
    BY <1>2 DEF Delivered
  <1> QED BY <1>1, <1>3, <1>4, ResumeOne, QuietOne

(* The other steps of a message that was sent leave it in care.            *)
LEMMA SentMails ==
  ASSUME MailInv, NEW m \in Msgs,
         AfterWrite(m) \/ Timer(m) \/ RetryMessage(m) \/ \E s \in Sess : FlushOne(s, m)
  PROVE  [Mail!Next]_Mail!vars
  <1>1. TypeOK /\ Touch(m) /\ out \in [Msgs -> Row] /\ SendsUnderSession
    BY DEF MailInv, IInv, TypeOK, OutTypes, Touch
  <1>2. CASE AfterWrite(m)
    <2>1. m \in SentOnes /\ m \in SentOnes' /\ m \in InCare' /\ m \notin Delivered'
      BY <1>1, <1>2
      DEF AfterWrite, SentOnes, InCare, Delivered, Somewhere, Row, SendsUnderSession
    <2> QED BY <1>1, <2>1, ResumeOne
  <1>3. CASE Timer(m)
    <2>1. /\ m \in SentOnes' <=> m \in SentOnes
          /\ m \in InCare' <=> m \in InCare
          /\ m \in Delivered' <=> m \in Delivered
      BY <1>1, <1>3 DEF Timer, SentOnes, InCare, Delivered, Somewhere, Row
    <2> QED BY <1>1, <2>1, QuietOne
  <1>4. CASE RetryMessage(m)
    <2>1. /\ out[m].queue # 0 /\ out'[m].queue = out[m].queue /\ out'[m].pc = out[m].pc
          /\ out'[m].status = out[m].status
      BY <1>1, <1>4 DEF RetryMessage, Row
    <2> QED BY <1>1, <2>1, QuietOne DEF SentOnes, InCare, Delivered, Somewhere
  <1>5. ASSUME NEW s \in Sess, FlushOne(s, m) PROVE [Mail!Next]_Mail!vars
    <2>1. m \in SentOnes
      BY <1>5 DEF FlushOne, MailInv, NothingUnsent, Quiet, SentOnes
    <2>2. s # 0 /\ held' = held
      BY <1>5, Bounds DEF FlushOne, Sess
    <2>3. \/ out' = out
          \/ out' = [out EXCEPT ![m].status = "open", ![m].timer = s]
      BY <1>5 DEF FlushOne
    <2>4. CASE out' = out
      BY <1>1, <2>2, <2>4, QuietOne DEF SentOnes, InCare, Delivered, Somewhere
    <2>5. CASE out' = [out EXCEPT ![m].status = "open", ![m].timer = s]
      <3>1. out'[m].pc = out[m].pc /\ out'[m].status = "open" /\ out'[m].timer = s
        BY <1>1, <2>5 DEF Row
      <3>2. m \in SentOnes' /\ m \in InCare' /\ m \notin Delivered'
        BY <2>1, <2>2, <3>1 DEF SentOnes, InCare, Delivered, Somewhere
      <3> QED BY <1>1, <2>1, <3>2, ResumeOne
    <2> QED BY <2>3, <2>4, <2>5
  <1> QED BY <1>2, <1>3, <1>4, <1>5

(* A receipt is for a message that was shown or refused.                   *)
LEMMA ReceiptMails ==
  ASSUME MailInv, NEW m \in Msgs, Receipt(m) PROVE Mail!Next
  <1>1. TypeOK /\ Touch(m) /\ out \in [Msgs -> Row] /\ m \in stored \cup Refused
    BY DEF MailInv, IInv, TypeOK, OutTypes, Touch, Receipt, DeliveredMeansStored
  <1>2. shown[m] > 0 \/ m \in Refused
    BY <1>1 DEF MailInv, IInv, ShownIsStored
  <1>3. /\ out'[m].pc = out[m].pc /\ out'[m].queue = 0 /\ out'[m].timer = 0 /\ m \notin held'
        /\ out'[m].status = IF out[m].status = "none" THEN "none" ELSE "delivered"
    BY <1>1 DEF Receipt, Row
  <1>4. /\ SentOnes' = SentOnes /\ Apart
        /\ InCare' \in {InCare, InCare \ {m}}
    <2>1. m \in SentOnes' <=> m \in SentOnes
      BY <1>3 DEF SentOnes
    <2>2. CASE out[m].pc \in {"enc", "written"}
      <3>1. m \in InCare /\ m \in InCare'
        BY <1>3, <2>2 DEF InCare, Somewhere
      <3> QED BY <1>1, <2>1, <3>1, OthersSame DEF SentOnes, InCare
    <2>3. CASE out[m].pc \notin {"enc", "written"}
      <3>1. m \notin InCare'
        BY <1>3, <2>3 DEF InCare, Somewhere
      <3> QED BY <1>1, <2>1, <3>1, OthersSame DEF SentOnes, InCare
    <2> QED BY <2>2, <2>3
  <1>5. Delivered' \in {Delivered, Delivered \cup {m}}
    <2>1. m \in Delivered' \/ (m \notin Delivered' /\ m \notin Delivered)
      BY <1>3 DEF Delivered
    <2> QED BY <1>1, <2>1, OthersSame DEF Delivered
  <1>6. Mail!Confirm(m)
    BY <1>2, <1>4, <1>5 DEF SentOnes, InCare, Delivered, Apart, Refused, Mail!Confirm
  <1> QED BY <1>6 DEF Mail!Next

(* A new session takes up again what was sent and not confirmed.           *)
LEMMA ReclaimMails ==
  ASSUME MailInv, NEW s \in Sess, Reclaim(s) PROVE Mail!Next
  <1>1. TypeOK /\ out \in [Msgs -> Row]
    BY DEF MailInv, IInv, TypeOK, OutTypes
  <1>2. Unacked \in SUBSET SentOnes
    BY DEF Unacked, SentOnes, MailInv, NothingUnsent, Quiet
  <1>3. ASSUME NEW m \in Msgs
        PROVE  /\ m \in SentOnes' <=> m \in SentOnes
               /\ m \in Delivered' <=> m \in Delivered
               /\ m \in Unacked => m \in InCare' /\ m \notin Delivered
               /\ m \notin Unacked => (m \in InCare' <=> m \in InCare)
    <2>1. /\ out'[m].pc = out[m].pc /\ out'[m].status = out[m].status
      BY <1>1, ReclaimedFields
    <2>2. m \in Unacked => m \in held' /\ out[m].status = "open"
      BY DEF Reclaim, Unacked
    <2>3. m \notin Unacked => out'[m] = out[m] /\ (m \in held' <=> m \in held)
      BY <1>1 DEF Reclaim, outVars
    <2> QED BY <2>1, <2>2, <2>3 DEF SentOnes, InCare, Delivered, Somewhere
  <1>4. Apart
    BY DEF Reclaim, bobVars, envVars, Apart
  <1>5. /\ SentOnes' = SentOnes /\ InCare' = InCare \cup Unacked
        /\ Delivered' = Delivered \ Unacked
    BY <1>2, <1>3 DEF SentOnes, InCare, Delivered
  <1> QED BY <1>2, <1>4, <1>5, ResumeStep

LEMMA RestartMails ==
  ASSUME MailInv, RestartAlice PROVE Mail!Next
  <1>1. out \in [Msgs -> Row]
    BY DEF MailInv, IInv, TypeOK, OutTypes
  <1>2. ASSUME NEW m \in Msgs
        PROVE  /\ m \in SentOnes' <=> m \in SentOnes
               /\ m \in Delivered' <=> m \in Delivered
               /\ m \in InCare' => m \in InCare
    <2>1. /\ out'[m].pc \notin {"enc", "written"} /\ out'[m].timer = 0
          /\ out'[m].pc = "idle" <=> out[m].pc = "idle"
          /\ out'[m].queue = out[m].queue /\ out'[m].status = out[m].status /\ m \notin held'
      BY <1>1 DEF RestartAlice, Row
    <2> QED BY <2>1 DEF SentOnes, InCare, Delivered, Somewhere
  <1>3. SentOnes' = SentOnes /\ Delivered' = Delivered /\ InCare' \subseteq InCare
    BY <1>2 DEF SentOnes, InCare, Delivered
  <1>4. UNCHANGED <<shown, blocked, refused>> /\ lapse' = TRUE
    BY DEF RestartAlice, Reload
  <1>5. Mail!Lapse
    BY <1>3, <1>4 DEF SentOnes, InCare, Delivered, Refused, Mail!Lapse
  <1> QED BY <1>5 DEF Mail!Next

(* Bob is shown messages that were sent and that he was not shown before,  *)
(* or refuses them.                                                        *)
LEMMA TakeMails ==
  ASSUME MailInv, NEW ms \in SUBSET (SentOnes \ stored), NEW s \in Sess, Take(ms, s),
         UNCHANGED <<out, held, blocked, lapse>>
  PROVE  Mail!Next
  <1>1. ms \in SUBSET Msgs /\ \A m \in ms : m \in SentOnes /\ shown[m] = 0
    BY DEF SentOnes, MailInv, IInv, ShownIsStored
  <1>2. SentOnes' = SentOnes /\ InCare' = InCare /\ Delivered' = Delivered
    BY DEF SentOnes, InCare, Delivered, Somewhere
  <1>3. CASE ~blocked
    <2>1. /\ shown' = [m \in Msgs |-> IF m \in ms THEN shown[m] + 1 ELSE shown[m]]
          /\ refused' = refused
      BY <1>1, <1>3 DEF Take, Show
    <2>2. Mail!Deliver(ms)
      BY <1>1, <1>2, <1>3, <2>1 DEF SentOnes, InCare, Delivered, Refused, Mail!Deliver
    <2> QED BY <1>1, <2>2 DEF Mail!Next
  <1>4. CASE blocked
    <2>1. shown' = shown /\ refused' = refused \cup {MsgFrame(m, s) : m \in ms}
      BY <1>4 DEF Take
    <2>2. \A m \in ms : MsgFrame(m, s).m = m
      BY DEF MsgFrame
    <2>3. Refused' = Refused \cup ms
      BY <2>1, <2>2 DEF Refused
    <2>4. Mail!Refuse(ms)
      BY <1>1, <1>2, <1>4, <2>1, <2>3 DEF SentOnes, InCare, Delivered, Mail!Refuse
    <2> QED BY <1>1, <2>4 DEF Mail!Next
  <1> QED BY <1>3, <1>4

(* No other step of Bob's changes what the courier is about, but the one   *)
(* by which his user blocks Alice or no longer does.                       *)
LEMMA OnlyUserBlocks ==
  ASSUME [Next]_vars, blocked' # blocked
  PROVE  UNCHANGED <<out, held, shown, refused, lapse>> /\ blocked' = ~blocked
  <1> USE DEF bobVars
  <1>1. Next
    BY DEF vars
  <1>2. ASSUME NEW m \in Msgs
        PROVE  /\ ~Send(m) /\ ~Encrypt(m) /\ ~AfterWrite(m) /\ ~Timer(m) /\ ~QueueSend(m)
               /\ ~RetryMessage(m) /\ ~Receipt(m) /\ ~Forget(m)
    BY DEF Send, Encrypt, AfterWrite, Timer, QueueSend, RetryMessage, Receipt, OutOnly, Forget
  <1>3. ~TryAuto /\ ~ResetArrives /\ \A p \in Party : ~CoolEnd(p)
    BY DEF TryAuto, ResetArrives, CoolEnd
  <1>4. ASSUME NEW s \in Sess
        PROVE  /\ ~Fetched(s) /\ ~Reclaim(s) /\ ~InitWrite(s) /\ ~BootWrite(s)
               /\ ~BootArrives(s) /\ ~InitArrives(s) /\ \A m \in Msgs : ~FlushOne(s, m)
    BY DEF Fetched, Reclaim, InitWrite, BootWrite, BootArrives, InitArrives, FlushOne
  <1>5. ~RestartBob /\ ~RestartAlice
    BY DEF RestartBob, RestartAlice, Reload
  <1>6. \A f \in MsgFrames : ~MsgArrives(f)
    BY DEF MsgArrives
  <1>7. Block \/ Unblock
    BY <1>1, <1>2, <1>3, <1>4, <1>5, <1>6 DEF Next
  <1> QED BY <1>7 DEF Block, Unblock, outVars, envVars

LEMMA ArrivalMails ==
  ASSUME MailInv, [Next]_vars, UNCHANGED <<out, held, lapse>> PROVE [Mail!Next]_Mail!vars
  <1>1. CASE Apart
    BY <1>1, QuietStep DEF Apart, SentOnes, InCare, Delivered, Somewhere
  <1>2. CASE blocked' # blocked
    <2>1. UNCHANGED <<shown, refused, lapse>> /\ blocked' = ~blocked
      BY <1>2, OnlyUserBlocks
    <2>2. SentOnes' = SentOnes /\ InCare' = InCare /\ Delivered' = Delivered
      BY DEF SentOnes, InCare, Delivered, Somewhere
    <2>3. Mail!Choose
      BY <2>1, <2>2 DEF SentOnes, InCare, Delivered, Refused, Mail!Choose
    <2> QED BY <2>3 DEF Mail!Next
  <1>3. ASSUME blocked' = blocked, NEW f \in MsgFrames, MsgArrives(f)
        PROVE  [Mail!Next]_Mail!vars
    <2>1. PICK k \in Msgs, t \in Sess : f = MsgFrame(k, t)
      BY DEF MsgFrames
    <2>2. f \in net /\ f.m = k /\ f.s \in Sess
      BY <1>3, <2>1, MessagesDiffer, FrameTypes DEF MsgArrives
    <2>3. k \in SentOnes
      BY <2>1, <2>2 DEF MailInv, NothingUnsent, Quiet, SentOnes
    <2>4. {f.m} \ (stored \cup known) \in SUBSET (SentOnes \ stored)
      BY <2>2, <2>3
    <2> QED BY <1>1, <1>3, <2>2, <2>4, TakeMails DEF MsgArrives, Apart
  <1>4. ASSUME blocked' = blocked, NEW s \in Sess, InitArrives(s) PROVE Mail!Next
    <2>1. Opened(s) \ stored \in SUBSET (SentOnes \ stored)
      BY DEF Opened, MailInv, NothingUnsent, Quiet, SentOnes
    <2> QED BY <1>4, <2>1, TakeMails DEF InitArrives
  <1> QED BY <1>1, <1>2, <1>3, <1>4, OnlyArrivalsShow DEF Apart

LEMMA StepMail == MailInv /\ [Next]_vars => [Mail!Next]_Mail!vars
  <1> SUFFICES ASSUME MailInv, [Next]_vars PROVE [Mail!Next]_Mail!vars
    OBVIOUS
  <1>1. CASE UNCHANGED <<out, held, lapse>>
    BY <1>1, ArrivalMails
  <1>2. CASE RestartAlice
    BY <1>2, RestartMails
  <1>3. ASSUME NEW s \in Sess, Reclaim(s) PROVE Mail!Next
    BY <1>3, ReclaimMails
  <1>4. ASSUME NEW m \in Msgs, Touch(m) PROVE [Mail!Next]_Mail!vars
    BY <1>4, SendMails, EncryptMails, SentMails, ReceiptMails DEF Touch
  <1> QED BY <1>1, <1>2, <1>3, <1>4, StepCases

(* The sessions, queues, timers and buffers of useKant.ts implement the    *)
(* courier, for any number of messages, sessions and faults: every step is *)
(* one of the courier's or none, so nothing is shown that was not sent,    *)
(* and nothing is shown, only confirmed, while Bob has Alice blocked.      *)
THEOREM Refinement == Spec => ImplementsCourier
  <1>1. Mail!Init /\ [][Mail!Next]_Mail!vars => ImplementsCourier
    BY DEF ImplementsCourier, Mail!Spec
  <1>2. Spec => []MailInv
    BY InitMailInv, StepMailInv, PTL DEF Spec
  <1> QED BY <1>1, <1>2, InitMail, StepMail, PTL DEF Spec

(* What the courier promises, whatever implements it with these variables: *)
(* a message is shown once, confirmed only then or when it was refused,    *)
(* and in care until then.                                                 *)
MailKept == shown \in [Msgs -> Nat] /\ Mail!Kept

LEMMA CourierInit == Mail!Init => MailKept
  BY DEF Mail!Init, MailKept, Mail!Kept

LEMMA CourierStep == MailKept /\ [Mail!Next]_Mail!vars => MailKept'
  <1> SUFFICES ASSUME MailKept, [Mail!Next]_Mail!vars PROVE MailKept'
    OBVIOUS
  <1>1. /\ shown \in [Msgs -> Nat] /\ \A m \in Msgs : shown[m] <= 1
        /\ \A m \in Delivered : shown[m] = 1 \/ m \in Refused
        /\ ~lapse => \A m \in SentOnes : shown[m] = 1 \/ m \in Refused \/ m \in InCare
    BY DEF MailKept, Mail!Kept, SentOnes, InCare, Delivered
  <1>2. /\ shown' \in [Msgs -> Nat] /\ \A m \in Msgs : shown'[m] <= 1
        /\ \A m \in Delivered' : shown'[m] = 1 \/ m \in Refused'
        /\ ~lapse' => \A m \in SentOnes' : shown'[m] = 1 \/ m \in Refused' \/ m \in InCare'
        => MailKept'
    BY DEF MailKept, Mail!Kept, SentOnes, InCare, Delivered
  <1>3. SentOnes \subseteq Msgs /\ Delivered \subseteq Msgs
    BY DEF SentOnes, Delivered
  <1>4. CASE UNCHANGED Mail!vars
    <2>1. SentOnes' = SentOnes /\ InCare' = InCare /\ Delivered' = Delivered
          /\ UNCHANGED <<shown, Refused, lapse>>
      BY <1>4 DEF Mail!vars, SentOnes, InCare, Delivered
    <2> QED BY <1>1, <1>2, <2>1
  <1>5. ASSUME NEW m \in Msgs, Mail!Submit(m)
        PROVE  /\ SentOnes' = SentOnes \cup {m} /\ InCare' = InCare \cup {m}
               /\ Delivered' = Delivered /\ UNCHANGED <<shown, Refused, lapse>>
    BY <1>5 DEF Mail!Submit, SentOnes, InCare, Delivered
  <1>6. ASSUME NEW m \in Msgs, Mail!Confirm(m)
        PROVE  /\ SentOnes' = SentOnes /\ InCare' \in {InCare, InCare \ {m}} /\ (shown[m] > 0 \/ m \in Refused)
               /\ Delivered' \in {Delivered, Delivered \cup {m}} /\ UNCHANGED <<shown, Refused, lapse>>
    BY <1>6 DEF Mail!Confirm, SentOnes, InCare, Delivered
  <1>7. ASSUME NEW ms \in SUBSET Msgs, Mail!Resume(ms)
        PROVE  /\ SentOnes' = SentOnes /\ InCare' = InCare \cup ms
               /\ Delivered' = Delivered \ ms /\ UNCHANGED <<shown, Refused, lapse>>
    BY <1>7 DEF Mail!Resume, SentOnes, InCare, Delivered
  <1>8. ASSUME NEW ms \in SUBSET Msgs, Mail!Deliver(ms)
        PROVE  /\ SentOnes' = SentOnes /\ InCare' = InCare /\ Delivered' = Delivered
               /\ UNCHANGED <<Refused, lapse>> /\ \A m \in ms : shown[m] = 0
               /\ shown' = [m \in Msgs |-> IF m \in ms THEN shown[m] + 1 ELSE shown[m]]
    BY <1>8 DEF Mail!Deliver, SentOnes, InCare, Delivered
  <1>9. ASSUME Mail!Lapse
        PROVE  Delivered' = Delivered /\ UNCHANGED <<shown, Refused>> /\ lapse' = TRUE
    BY <1>9 DEF Mail!Lapse, Delivered
  <1>10. (\E m \in Msgs : Mail!Submit(m) \/ Mail!Confirm(m))
         \/ (\E ms \in SUBSET Msgs : Mail!Deliver(ms) \/ Mail!Refuse(ms) \/ Mail!Resume(ms))
         \/ Mail!Choose \/ Mail!Lapse \/ UNCHANGED Mail!vars
    BY DEF Mail!Next
  <1>11. ASSUME NEW m \in Msgs, Mail!Submit(m) \/ Mail!Confirm(m) PROVE MailKept'
    BY <1>1, <1>2, <1>3, <1>5, <1>6, <1>11
  <1>12. ASSUME NEW ms \in SUBSET Msgs, Mail!Resume(ms) PROVE MailKept'
    BY <1>1, <1>2, <1>3, <1>7, <1>12
  <1>13. ASSUME NEW ms \in SUBSET Msgs, Mail!Deliver(ms) PROVE MailKept'
    BY <1>1, <1>2, <1>3, <1>8, <1>13
  <1>14. CASE Mail!Lapse
    BY <1>1, <1>2, <1>3, <1>9, <1>14
  <1>15. ASSUME NEW ms \in SUBSET Msgs, Mail!Refuse(ms) PROVE MailKept'
    <2>1. /\ SentOnes' = SentOnes /\ InCare' = InCare /\ Delivered' = Delivered
          /\ Refused' = Refused \cup ms /\ UNCHANGED <<shown, lapse>>
      BY <1>15 DEF Mail!Refuse, SentOnes, InCare, Delivered
    <2> QED BY <1>1, <1>2, <2>1
  <1>16. CASE Mail!Choose
    <2>1. /\ SentOnes' = SentOnes /\ InCare' = InCare /\ Delivered' = Delivered
          /\ UNCHANGED <<shown, Refused, lapse>>
      BY <1>16 DEF Mail!Choose, SentOnes, InCare, Delivered
    <2> QED BY <1>1, <1>2, <2>1
  <1> QED BY <1>4, <1>10, <1>11, <1>12, <1>13, <1>14, <1>15, <1>16

(* The courier's steps alone keep its promises, without anything that      *)
(* useKant.ts adds: the abstract specification is as strong as the three   *)
(* invariants of the delivery that are about messages.                     *)
THEOREM CourierKeeps == ImplementsCourier => []Mail!Kept
  <1>1. MailKept => Mail!Kept
    BY DEF MailKept
  <1>2. ImplementsCourier => Mail!Init /\ [][Mail!Next]_Mail!vars
    BY DEF ImplementsCourier, Mail!Spec
  <1> QED BY <1>1, <1>2, CourierInit, CourierStep, PTL
=============================================================================
