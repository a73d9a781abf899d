--------------------------------- MODULE Files ---------------------------------
(***************************************************************************)
(* File transfers towards one receiver (packages/core/src/files.ts and     *)
(* their use in the app's useKant.ts).  Each transfer runs over a stream   *)
(* of its own: the sender announces the file, the receiver takes a slot    *)
(* and accepts, chunks follow in windows that cumulative acknowledgements  *)
(* open, and a last acknowledgement says that the file was stored.         *)
(*                                                                         *)
(* A stream keeps its order and loses nothing until it is cut; what is     *)
(* under way then may be lost, while what was read already stays readable. *)
(* Every read gives up after five minutes, here at any time at which there *)
(* is nothing to read.  Transfers whose senders are one device and one     *)
(* address follow each other (SendLock); those here are independent.       *)
(***************************************************************************)
EXTENDS Integers, Sequences, FiniteSets

CONSTANTS
  Transfers,
  PeerOf,        \* the remote peer of each transfer
  Chunks,        \* chunks of a file
  Window,        \* DEFAULT_CHUNK_WINDOW
  MaxPerPeer,    \* DEFAULT_MAX_CONCURRENT_PER_PEER
  MaxTotal,      \* DEFAULT_MAX_CONCURRENT_TOTAL
  Acking,        \* transfers whose two ends both know chunk acknowledgements
  Blocked        \* transfers whose sender the receiver has blocked

ASSUME FilesAssumption ==
  /\ Chunks \in Nat \ {0} /\ Window \in Nat \ {0}
  /\ MaxPerPeer \in Nat \ {0} /\ MaxTotal \in Nat \ {0}
  /\ Acking \subseteq Transfers /\ Blocked \subseteq Transfers
  /\ DOMAIN PeerOf = Transfers

VARIABLES
  sender,    \* where sendFileUnlocked and sendFileMessage are
  sent,      \* chunks sent
  since,     \* sentSinceAck
  acked,     \* chunks the sender knows to be received
  pipe,      \* chunks on their way
  back,      \* what the receiver sent and the sender has not read yet
  stream,    \* "none", "open" or "closed"
  receiver,  \* where the handler is
  got,       \* chunks received
  perPeer,   \* perPeerCounts
  total,     \* totalActive
  saved,     \* transfers whose file the receiver has stored
  identity,  \* identityRef of the receiver's app is set
  dropped    \* history: files that were complete when it was not

fileVars == <<sender, sent, since, acked, pipe, back, stream, receiver, got, perPeer, total, saved,
              identity, dropped>>

Answer(kind) == [kind |-> kind, through |-> 0]
ChunkAck(n) == [kind |-> "chunk", through |-> n]
Answers == {"accept", "reject", "stored", "refused"}

FilesTypeOK ==
  /\ sender \in [Transfers -> {"idle", "asking", "sending", "draining", "confirming",
                               "sent", "delivered", "failed"}]
  /\ sent \in [Transfers -> 0..Chunks] /\ got \in [Transfers -> 0..Chunks]
  /\ acked \in [Transfers -> 0..Chunks] /\ since \in [Transfers -> 0..Window]
  /\ pipe \in [Transfers -> 0..Chunks]
  /\ \A t \in Transfers : \A n \in DOMAIN back[t] :
       back[t][n] \in {Answer(k) : k \in Answers} \cup {ChunkAck(k) : k \in 1..Chunks}
  /\ stream \in [Transfers -> {"none", "open", "closed"}]
  /\ receiver \in [Transfers -> {"idle", "deciding", "receiving", "storing", "over"}]
  /\ perPeer \in [{PeerOf[t] : t \in Transfers} -> 0..MaxPerPeer]
  /\ total \in 0..MaxTotal
  /\ saved \subseteq Transfers /\ dropped \subseteq Transfers /\ identity \in BOOLEAN

FilesInit ==
  /\ sender = [t \in Transfers |-> "idle"] /\ receiver = [t \in Transfers |-> "idle"]
  /\ sent = [t \in Transfers |-> 0] /\ got = [t \in Transfers |-> 0]
  /\ acked = [t \in Transfers |-> 0] /\ since = [t \in Transfers |-> 0]
  /\ pipe = [t \in Transfers |-> 0] /\ back = [t \in Transfers |-> << >>]
  /\ stream = [t \in Transfers |-> "none"]
  /\ perPeer = [p \in {PeerOf[t] : t \in Transfers} |-> 0] /\ total = 0
  /\ saved = {} /\ identity = TRUE /\ dropped = {}

-----------------------------------------------------------------------------
(* The sender.                                                             *)

(* A stream is opened and the announcement sent.                           *)
Announce(t) ==
  /\ sender[t] = "idle"
  /\ sender' = [sender EXCEPT ![t] = "asking"]
  /\ stream' = [stream EXCEPT ![t] = "open"]
  /\ UNCHANGED <<sent, since, acked, pipe, back, receiver, got, perPeer, total,
                 saved, identity, dropped>>

(* The sender stops with an error and closes its stream.                   *)
GiveUp(t) ==
  /\ sender' = [sender EXCEPT ![t] = "failed"]
  /\ stream' = [stream EXCEPT ![t] = "closed"]

Reading(t) == sender[t] \in {"asking", "draining", "confirming"}

ReadResponse(t) ==
  /\ sender[t] = "asking" /\ back[t] # << >>
  /\ back' = [back EXCEPT ![t] = Tail(@)]
  /\ IF Head(back[t]).kind = "accept"
       THEN sender' = [sender EXCEPT ![t] = "sending"] /\ UNCHANGED stream
       ELSE GiveUp(t)
  /\ UNCHANGED <<sent, since, acked, pipe, receiver, got, perPeer, total,
                 saved, identity, dropped>>

(* A plausible bug: a sender waits for acknowledgements that were not offered.*)
AfterChunkIgnoringAccept(t, n, run) ==
  IF run >= Window \/ n = Chunks THEN "draining" ELSE "sending"

(* After a window, and after the last chunk, the acknowledgements are read *)
(* before anything else is sent.                                           *)
AfterChunk(t, n, run) ==
  IF t \in Acking /\ (run >= Window \/ n = Chunks) THEN "draining"
  ELSE IF n = Chunks THEN "confirming" ELSE "sending"

SendChunk(t) ==
  /\ sender[t] = "sending"
  /\ IF stream[t] = "open"
       THEN /\ sent' = [sent EXCEPT ![t] = @ + 1]
            /\ pipe' = [pipe EXCEPT ![t] = @ + 1]
            /\ since' = [since EXCEPT ![t] = IF @ < Window THEN @ + 1 ELSE @]
            /\ sender' = [sender EXCEPT ![t] = AfterChunk(t, sent[t] + 1, since[t] + 1)]
            /\ UNCHANGED stream
       ELSE GiveUp(t) /\ UNCHANGED <<sent, pipe, since>>
  /\ UNCHANGED <<acked, back, receiver, got, perPeer, total, saved, identity, dropped>>

(* Acknowledgements are read until they cover everything sent.             *)
ReadAcks(t) ==
  /\ sender[t] = "draining" /\ back[t] # << >>
  /\ back' = [back EXCEPT ![t] = Tail(@)]
  /\ LET ack == Head(back[t])
         covered == ack.through = sent[t]
     IN IF ack.kind # "chunk"
          THEN GiveUp(t) /\ UNCHANGED <<acked, since>>
          ELSE /\ acked' = [acked EXCEPT ![t] = ack.through]
               /\ since' = [since EXCEPT ![t] = IF covered THEN 0 ELSE @]
               /\ sender' = [sender EXCEPT ![t] =
                    IF ~covered THEN "draining"
                    ELSE IF sent[t] = Chunks THEN "confirming" ELSE "sending"]
               /\ UNCHANGED stream
  /\ UNCHANGED <<sent, pipe, receiver, got, perPeer, total, saved, identity, dropped>>

Confirmed(t) ==
  /\ sender[t] = "confirming" /\ back[t] # << >>
  /\ back' = [back EXCEPT ![t] = Tail(@)]
  /\ IF Head(back[t]).kind = "stored"
       THEN /\ sender' = [sender EXCEPT ![t] = "sent"]
            /\ stream' = [stream EXCEPT ![t] = "closed"]
       ELSE GiveUp(t)
  /\ UNCHANGED <<sent, since, acked, pipe, receiver, got, perPeer, total,
                 saved, identity, dropped>>

(* The read ended without a message: the stream is closed or five minutes  *)
(* are over.                                                               *)
SenderReadFails(t) ==
  /\ Reading(t) /\ back[t] = << >>
  /\ GiveUp(t)
  /\ UNCHANGED <<sent, since, acked, pipe, back, receiver, got, perPeer, total,
                 saved, identity, dropped>>

(* sendFileMessage stores its own copy and marks the message delivered, or *)
(* the copy cannot be stored and it is marked failed.                      *)
KeepOwnCopy(t) ==
  /\ sender[t] = "sent"
  /\ \E outcome \in {"delivered", "failed"} : sender' = [sender EXCEPT ![t] = outcome]
  /\ UNCHANGED <<sent, since, acked, pipe, back, stream, receiver, got, perPeer, total,
                 saved, identity, dropped>>

-----------------------------------------------------------------------------
(* The receiver: one run of the protocol handler for each stream.          *)

AtCapacity(p) == total >= MaxTotal \/ perPeer[p] >= MaxPerPeer

Reply(t, answer) == back' = [back EXCEPT ![t] = Append(@, answer)]

(* The handler ends and closes the stream.                                 *)
End(t) ==
  /\ receiver' = [receiver EXCEPT ![t] = "over"]
  /\ stream' = [stream EXCEPT ![t] = "closed"]

(* The handler's finally: an acquired slot is given back.                  *)
Release(t) ==
  /\ perPeer' = [perPeer EXCEPT ![PeerOf[t]] = IF @ > 0 THEN @ - 1 ELSE 0]
  /\ total' = IF total > 0 THEN total - 1 ELSE 0

(* Frames still in the pipe are read by nobody any more.                   *)
Refuse(t, kind) ==
  /\ IF stream[t] = "open" THEN Reply(t, Answer(kind)) ELSE UNCHANGED back
  /\ End(t)

(* The capacity is looked at before the application is asked.              *)
ReadMeta(t) ==
  /\ receiver[t] = "idle" /\ stream[t] # "none"
  /\ IF AtCapacity(PeerOf[t])
       THEN Refuse(t, "reject")
       ELSE receiver' = [receiver EXCEPT ![t] = "deciding"] /\ UNCHANGED <<back, stream>>
  /\ UNCHANGED <<sender, sent, since, acked, pipe, got, perPeer, total,
                 saved, identity, dropped>>

Declined(t) ==
  /\ receiver[t] = "deciding"
  /\ Refuse(t, "reject")
  /\ UNCHANGED <<sender, sent, since, acked, pipe, got, perPeer, total,
                 saved, identity, dropped>>

Acquire(t) ==
  /\ perPeer' = [perPeer EXCEPT ![PeerOf[t]] = @ + 1]
  /\ total' = total + 1

(* A plausible bug: the capacity is looked at only before the question.    *)
AcceptUnchecked(t) ==
  /\ receiver[t] = "deciding"
  /\ IF stream[t] = "open"
         THEN /\ Acquire(t)
              /\ receiver' = [receiver EXCEPT ![t] = "receiving"]
              /\ Reply(t, Answer("accept")) /\ UNCHANGED stream
         ELSE End(t) /\ UNCHANGED <<back, perPeer, total>>
  /\ UNCHANGED <<sender, sent, since, acked, pipe, got, saved, identity, dropped>>

(* The application accepted: the slot is taken only if one is still free.  *)
(* An accept that cannot be sent gives it back.                            *)
Accept(t) ==
  /\ receiver[t] = "deciding"
  /\ IF AtCapacity(PeerOf[t])
       THEN Refuse(t, "reject") /\ UNCHANGED <<perPeer, total>>
       ELSE IF stream[t] = "open"
         THEN /\ Acquire(t)
              /\ receiver' = [receiver EXCEPT ![t] = "receiving"]
              /\ Reply(t, Answer("accept")) /\ UNCHANGED stream
         ELSE End(t) /\ UNCHANGED <<back, perPeer, total>>
  /\ UNCHANGED <<sender, sent, since, acked, pipe, got, saved, identity, dropped>>

(* A chunk is decrypted and acknowledged; the acknowledgement of a closed  *)
(* stream cannot be sent.                                                  *)
ReceiveChunk(t) ==
  /\ receiver[t] = "receiving" /\ pipe[t] > 0
  /\ pipe' = [pipe EXCEPT ![t] = @ - 1]
  /\ got' = [got EXCEPT ![t] = @ + 1]
  /\ IF t \in Acking /\ stream[t] # "open"
       THEN End(t) /\ Release(t) /\ UNCHANGED back
       ELSE /\ receiver' = [receiver EXCEPT ![t] =
                 IF got[t] + 1 = Chunks THEN "storing" ELSE "receiving"]
            /\ IF t \in Acking THEN Reply(t, ChunkAck(got[t] + 1)) ELSE UNCHANGED back
            /\ UNCHANGED <<stream, perPeer, total>>
  /\ UNCHANGED <<sender, sent, since, acked, saved, identity, dropped>>

(* A plausible bug: the file is confirmed before it is stored.             *)
CompleteUnawaited(t) ==
  /\ receiver[t] = "storing"
  /\ (saved' = saved \cup {t} \/ saved' = saved)
  /\ Refuse(t, "stored") /\ Release(t)
  /\ UNCHANGED <<sender, sent, since, acked, pipe, got, identity, dropped>>

(* onComplete stores the file, or drops it silently when its sender is     *)
(* blocked or the app has no identity any more; then the last              *)
(* acknowledgement follows.                                                *)
Complete(t) ==
  /\ receiver[t] = "storing"
  /\ saved' = IF identity /\ t \notin Blocked THEN saved \cup {t} ELSE saved
  /\ dropped' = IF identity THEN dropped ELSE dropped \cup {t}
  /\ Refuse(t, "stored") /\ Release(t)
  /\ UNCHANGED <<sender, sent, since, acked, pipe, got, identity>>

(* The hash does not match, or onComplete throws, possibly after the file  *)
(* itself was stored.                                                      *)
StoreFails(t) ==
  /\ receiver[t] = "storing"
  /\ saved' \in {saved, saved \cup {t}}
  /\ Refuse(t, "refused") /\ Release(t)
  /\ UNCHANGED <<sender, sent, since, acked, pipe, got, identity, dropped>>

(* The receiver's app is locked or erased.  It stops its node first, which *)
(* cuts the streams unless that fails, and then forgets the identity.      *)
LoseIdentity ==
  /\ identity /\ identity' = FALSE
  /\ UNCHANGED <<sender, sent, since, acked, pipe, back, stream, receiver, got, perPeer, total,
                 saved, dropped>>

(* A plausible bug: the slot is kept when a transfer fails.                *)
ReceiverFailsHolding(t) ==
  /\ receiver[t] = "receiving"
  /\ End(t)
  /\ UNCHANGED <<sender, sent, since, acked, pipe, back, got, perPeer, total,
                 saved, identity, dropped>>

(* Reading fails, the sealed key or a chunk does not open, or a callback   *)
(* throws.                                                                 *)
ReceiverFails(t) ==
  /\ receiver[t] = "receiving"
  /\ End(t) /\ Release(t)
  /\ UNCHANGED <<sender, sent, since, acked, pipe, back, got, saved, identity, dropped>>

(* The connection breaks: of what is under way each side still gets a      *)
(* prefix, also of what was sent just before one side closed the stream.   *)
Cut(t) ==
  /\ stream[t] # "none"
  /\ stream' = [stream EXCEPT ![t] = "closed"]
  /\ \E n \in 0..pipe[t] : pipe' = [pipe EXCEPT ![t] = n]
  /\ \E n \in 0..Len(back[t]) : back' = [back EXCEPT ![t] = SubSeq(@, 1, n)]
  /\ UNCHANGED <<sender, sent, since, acked, receiver, got, perPeer, total,
                 saved, identity, dropped>>

FilesNext ==
  \/ LoseIdentity
  \/ \E t \in Transfers :
       \/ Announce(t) \/ ReadResponse(t) \/ SendChunk(t) \/ ReadAcks(t) \/ Confirmed(t)
       \/ SenderReadFails(t) \/ KeepOwnCopy(t)
       \/ ReadMeta(t) \/ Declined(t) \/ Accept(t) \/ ReceiveChunk(t) \/ Complete(t)
       \/ StoreFails(t) \/ ReceiverFails(t) \/ Cut(t)

FilesSpec == FilesInit /\ [][FilesNext]_fileVars

-----------------------------------------------------------------------------
(* A message shown as delivered has its file in the receiver's store (the  *)
(* comment in sendFileMessage relies on it), unless the receiver dropped   *)
(* it: it had blocked the sender, or had no identity when the file was     *)
(* complete.                                                               *)
DeliveredFileStored ==
  \A t \in Transfers : sender[t] \in {"sent", "delivered"} => t \in saved \cup Blocked \cup dropped

Holding(t) == receiver[t] \in {"receiving", "storing"}

(* The two counters are exactly the transfers that run, within both        *)
(* limits: whatever ends a transfer gives its slot back, once, and two     *)
(* that were let through the first check do not both get the last slot.    *)
SlotsMatchTransfers ==
  /\ total = Cardinality({t \in Transfers : Holding(t)}) /\ total <= MaxTotal
  /\ \A p \in DOMAIN perPeer :
       /\ perPeer[p] = Cardinality({t \in Transfers : PeerOf[t] = p /\ Holding(t)})
       /\ perPeer[p] <= MaxPerPeer

(* While a stream is up the two ends never both wait for the other's next  *)
(* frame (they would until the five minutes are over), and an acknowledged *)
(* transfer has at most one window of chunks under way.                    *)
WindowKeepsMoving ==
  \A t \in Transfers :
    /\ stream[t] = "open" /\ Reading(t) /\ back[t] = << >> /\ receiver[t] = "receiving"
         => pipe[t] > 0
    /\ t \in Acking => pipe[t] <= Window
=============================================================================
