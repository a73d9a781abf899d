------------------------------ MODULE Delivery ------------------------------
(***************************************************************************)
(* The delivery of messages to someone who has not added the sender        *)
(* (packages/app/src/hooks/useKant.ts with packages/core/src/queue.ts).    *)
(* Alice sends, and is the one who can start a session; Bob accepts what   *)
(* she starts and can only ask her to start another.                       *)
(*                                                                         *)
(* A session is a number; it stands for the ratchet both parties derive    *)
(* from one x3dh-init.  A ciphertext names the session it was made under   *)
(* and opens only while Bob's ratchet is the one of that session           *)
(* (Ratchet.tla has what goes on inside one).  Frames arrive in any order; *)
(* a write may throw, or complete and be lost.  Bob handles the frames of  *)
(* one peer one at a time (serializeInbound).                              *)
(***************************************************************************)
EXTENDS Integers, FiniteSets

CONSTANTS
  Msgs,         \* messages Alice's user sends
  MayThrow,     \* the writes that may throw
  MayLose,      \* the frames that may be lost
  MaxSessions, MaxFaults, MaxNudges   \* bounds of the exploration

Points == {"fetch", "init", "boot", "flush", "send", "queue", "reset", "ack"}

ASSUME DeliveryAssumption ==
  /\ IsFiniteSet(Msgs)
  /\ {MaxSessions, MaxFaults, MaxNudges} \subseteq Nat
  /\ MayThrow \subseteq Points /\ MayLose \subseteq Points

VARIABLES
  \* Alice's session
  rat,        \* ratchetMapRef of each party: the session, 0 for none
  disk,       \* the stored ratchet of each party; nothing ever deletes it
  cool,       \* lastResyncRef of each party: a resync within the cooldown
  run,        \* runs of tryAutoSession, by the session they would make
  inFlight,   \* sessionInFlightRef
  nextS,      \* the session the next run would make
  \* Alice's outgoing messages
  out,        \* per message: send step and its session, stored status, queue row, timer
  held,       \* pendingPlaintextRef
  flushed,    \* flushedPendingRef
  loop,       \* runs of flushPendingPlaintext, by the session they encrypt with
  \* Bob, and the world
  buffer,     \* pendingCiphertextRef
  stored,     \* messages in Bob's store
  shown,      \* history: how often a message was shown to Bob
  blocked,    \* Bob's contact row of Alice
  refused,    \* frames opened while blocked: neither shown nor stored, their key is spent
  known,      \* receivedMessageIdsRef, for the messages that are not stored
  net,        \* frames on their way
  faults,
  nudges,     \* how often a device restarted, Bob blocked Alice or "Retry now" was pressed
  lapse       \* history: Alice restarted

sessVars == <<rat, disk, cool, run, inFlight, nextS>>
outVars == <<out, held, flushed, loop>>
bobVars == <<buffer, stored, shown, blocked, refused, known>>
envVars == <<nudges, lapse>>
vars == <<rat, disk, cool, run, inFlight, nextS, out, held, flushed, loop,
          buffer, stored, shown, blocked, refused, known, net, faults, nudges, lapse>>

Party == {"alice", "bob"}
Sess == 1..MaxSessions

InitFrame(s) == [kind |-> "init", s |-> s]
BootFrame(s) == [kind |-> "boot", s |-> s]
MsgFrame(m, s) == [kind |-> "msg", m |-> m, s |-> s]
AckFrame(m) == [kind |-> "ack", m |-> m]
ResetFrame == [kind |-> "reset"]

MsgFrames == {MsgFrame(m, s) : m \in Msgs, s \in Sess}
Frames == {InitFrame(s) : s \in Sess} \cup {BootFrame(s) : s \in Sess} \cup MsgFrames
          \cup {AckFrame(m) : m \in Msgs} \cup {ResetFrame}

NoLoop == [todo |-> {}, attached |-> FALSE, skip |-> {}]
Fresh == [pc |-> "idle", s |-> 0, queue |-> 0, timer |-> 0, status |-> "none"]

Row == [pc : {"idle", "enc", "written", "done"}, s : 0..MaxSessions,
        queue : 0..MaxSessions, timer : 0..MaxSessions,
        status : {"none", "open", "delivered"}]
Loop == [todo : SUBSET Msgs, attached : BOOLEAN, skip : SUBSET Msgs]

SessTypes ==
  /\ rat \in [Party -> 0..MaxSessions] /\ disk \in [Party -> 0..MaxSessions]
  /\ cool \in [Party -> BOOLEAN]
  /\ run \in [Sess -> {"none", "fetch", "set", "init", "boot", "flush"}]
  /\ inFlight \in BOOLEAN /\ nextS \in 1..(MaxSessions + 1)

OutTypes ==
  /\ out \in [Msgs -> Row]
  /\ held \subseteq Msgs /\ flushed \subseteq Msgs
  /\ loop \in [Sess -> Loop]

BobTypes ==
  /\ buffer \subseteq Frames /\ stored \subseteq Msgs /\ shown \in [Msgs -> 0..2]
  /\ blocked \in BOOLEAN /\ refused \subseteq MsgFrames /\ known \subseteq Msgs

EnvTypes ==
  /\ net \subseteq Frames
  /\ faults \in 0..MaxFaults /\ nudges \in 0..MaxNudges /\ lapse \in BOOLEAN

TypeOK == SessTypes /\ OutTypes /\ BobTypes /\ EnvTypes

Init ==
  /\ rat = [p \in Party |-> 0] /\ disk = rat /\ cool = [p \in Party |-> FALSE]
  /\ run = [s \in Sess |-> "none"] /\ inFlight = FALSE /\ nextS = 1
  /\ out = [m \in Msgs |-> Fresh]
  /\ held = {} /\ flushed = {} /\ loop = [s \in Sess |-> NoLoop]
  /\ buffer = {} /\ stored = {} /\ shown = [m \in Msgs |-> 0]
  /\ blocked = FALSE /\ refused = {} /\ known = {}
  /\ net = {} /\ faults = 0 /\ nudges = 0 /\ lapse = FALSE

-----------------------------------------------------------------------------
(* Writing a frame: it arrives some time, or is lost, or the write throws. *)

(* Bounds: one budget for faults and for restarts and retries by hand.     *)
CanFail == faults + nudges < MaxFaults
CanNudge == nudges < MaxNudges /\ CanFail

Outcomes(point) ==
  {"arrives"} \cup IF ~CanFail THEN {}
                   ELSE {x \in {"lost"} : point \in MayLose}
                        \cup {x \in {"throws"} : point \in MayThrow}

Transmit(o, f, rest) ==
  /\ net' = IF o = "arrives" THEN rest \cup {f} ELSE rest
  /\ faults' = IF o = "arrives" THEN faults ELSE faults + 1

(* persistRatchet.  What no restart is left to read is not tracked.        *)
Persist(p, s) ==
  disk' = IF CanNudge THEN [disk EXCEPT ![p] = s] ELSE disk

Nudge ==
  /\ CanNudge
  /\ nudges' = nudges + 1
  /\ disk' = IF nudges' < MaxNudges THEN disk ELSE [p \in Party |-> 0]

-----------------------------------------------------------------------------
(* tryAutoSession.                                                         *)

(* Its head, called when the ratchet is gone and the lock is free.         *)
Start ==
  IF nextS <= MaxSessions
  THEN /\ run' = [run EXCEPT ![nextS] = "fetch"]
       /\ nextS' = nextS + 1
       /\ inFlight' = TRUE
  ELSE inFlight' = FALSE /\ UNCHANGED <<run, nextS>>

(* Presence, a directory refresh, a retry timer, a held message, "retry".  *)
TryAuto ==
  /\ rat["alice"] = 0 /\ ~inFlight /\ nextS <= MaxSessions
  /\ Start
  /\ UNCHANGED <<rat, disk, cool, outVars, bobVars, net, faults, envVars>>

EndRun(s) == run' = [run EXCEPT ![s] = "none"] /\ inFlight' = FALSE

(* flushedPendingRef.delete: a loop that is under way keeps its own set.   *)
DropFlushed ==
  /\ flushed' = {}
  /\ loop' = [s \in Sess |->
       IF loop[s].attached
       THEN [loop[s] EXCEPT !.attached = FALSE, !.skip = flushed]
       ELSE loop[s]]

(* A mutant: the session installed is not the one the init announces.      *)
FetchedWrongSession(s) ==
  /\ run[s] = "fetch" /\ rat["alice"] = 0
  /\ rat' = [rat EXCEPT !["alice"] = nextS]
  /\ Persist("alice", nextS)
  /\ run' = [run EXCEPT ![s] = "set"]
  /\ DropFlushed
  /\ UNCHANGED <<inFlight, cool, nextS, out, held, bobVars, net, faults, envVars>>

(* The pre-key bundle is here, or the fetch failed, or another ratchet was *)
(* set meanwhile.                                                          *)
Fetched(s) ==
  /\ run[s] = "fetch"
  /\ \/ /\ "fetch" \in MayThrow /\ CanFail
        /\ faults' = faults + 1
        /\ EndRun(s)
        /\ UNCHANGED <<rat, disk, flushed, loop>>
     \/ /\ rat["alice"] # 0
        /\ EndRun(s)
        /\ UNCHANGED <<rat, disk, flushed, loop, faults>>
     \/ /\ rat["alice"] = 0
        /\ rat' = [rat EXCEPT !["alice"] = s]
        /\ Persist("alice", s)
        /\ run' = [run EXCEPT ![s] = "set"]
        /\ DropFlushed
        /\ UNCHANGED <<inFlight, faults>>
  /\ UNCHANGED <<cool, nextS, out, held, bobVars, net, envVars>>

Unacked == {m \in Msgs : out[m].status = "open"} \ held

(* A mutant: the queue is emptied, the messages are not held again.        *)
ReclaimForgets(s) ==
  /\ run[s] = "set"
  /\ run' = [run EXCEPT ![s] = "init"]
  /\ out' = [m \in Msgs |-> IF m \in Unacked
               THEN [out[m] EXCEPT !.queue = 0, !.timer = 0] ELSE out[m]]
  /\ UNCHANGED <<rat, disk, cool, inFlight, nextS, held, flushed, loop, bobVars, net, faults,
                 envVars>>

(* reclaimUnacked: what was sent under an old session and never            *)
(* acknowledged leaves the queue and is held again.                        *)
Reclaim(s) ==
  /\ run[s] = "set"
  /\ run' = [run EXCEPT ![s] = "init"]
  /\ IF Unacked = {} THEN UNCHANGED outVars
     ELSE /\ out' = [m \in Msgs |-> IF m \in Unacked
                       THEN [out[m] EXCEPT !.queue = 0, !.timer = 0] ELSE out[m]]
          /\ held' = held \cup Unacked
          /\ DropFlushed
  /\ UNCHANGED <<rat, disk, cool, inFlight, nextS, bobVars, net, faults, envVars>>

InitWrite(s) ==
  /\ run[s] = "init"
  /\ \E o \in Outcomes("init") :
       /\ Transmit(o, InitFrame(s), net)
       /\ IF o = "throws" THEN EndRun(s)
          ELSE run' = [run EXCEPT ![s] = "boot"] /\ UNCHANGED inFlight
  /\ UNCHANGED <<rat, disk, cool, nextS, outVars, bobVars, envVars>>

(* The bootstrap frame, after which Alice flushes what she holds.          *)
BootWrite(s) ==
  /\ run[s] = "boot"
  /\ \E o \in Outcomes("boot") :
       /\ Transmit(o, BootFrame(s), net)
       /\ IF o = "throws" \/ held = {} THEN EndRun(s) /\ UNCHANGED loop
          ELSE /\ run' = [run EXCEPT ![s] = "flush"]
               /\ loop' = [loop EXCEPT ![s] = [NoLoop EXCEPT !.todo = held, !.attached = TRUE]]
               /\ UNCHANGED inFlight
  /\ UNCHANGED <<rat, disk, cool, nextS, out, held, flushed, bobVars, envVars>>

(* One message of the flushPendingPlaintext loop.  It stays held until its *)
(* receipt; one whose write throws is left to a later flush.  The last one *)
(* ends the run that started the loop.                                     *)
FlushOne(s, m) ==
  /\ m \in loop[s].todo
  /\ IF loop[s].todo # {m}
     THEN loop' = [loop EXCEPT ![s].todo = @ \ {m}] /\ UNCHANGED <<run, inFlight>>
     ELSE /\ loop' = [loop EXCEPT ![s] = NoLoop]
          /\ IF run[s] = "flush" THEN EndRun(s) ELSE UNCHANGED <<run, inFlight>>
  /\ IF m \in (IF loop[s].attached THEN flushed ELSE loop[s].skip)
     THEN UNCHANGED <<out, flushed, net, faults>>
     ELSE \E o \in Outcomes("flush") :
            /\ Transmit(o, MsgFrame(m, s), net)
            /\ IF o = "throws" THEN UNCHANGED <<out, flushed>>
               ELSE /\ out' = [out EXCEPT ![m].status = "open", ![m].timer = s]
                    /\ flushed' = IF loop[s].attached THEN flushed \cup {m} ELSE flushed
  /\ UNCHANGED <<rat, disk, cool, nextS, held, bobVars, envVars>>

-----------------------------------------------------------------------------
(* Alice's sendMessage, its ACK timer, the queue and the receipts.         *)

(* Without a ratchet the message is held.                                  *)
Send(m) ==
  /\ out[m].pc = "idle"
  /\ IF rat["alice"] = 0
     THEN /\ out' = [out EXCEPT ![m].pc = "done", ![m].status = "open"]
          /\ held' = held \cup {m}
          /\ \E seen \in SUBSET {s \in Sess : loop[s].todo # {}} :
               loop' = [s \in Sess |-> IF s \in seen
                          THEN [loop[s] EXCEPT !.todo = @ \cup {m}] ELSE loop[s]]
     ELSE /\ out' = [out EXCEPT ![m].pc = "enc", ![m].s = rat["alice"]]
          /\ UNCHANGED <<held, loop>>
  /\ UNCHANGED <<flushed, sessVars, bobVars, net, faults, envVars>>

OutOnly == UNCHANGED <<held, flushed, loop, sessVars, bobVars, envVars>>

(* After the lookup: encrypt with the ratchet picked at the start, write.  *)
(* If the write throws, queue the ciphertext.                              *)
Encrypt(m) ==
  /\ out[m].pc = "enc"
  /\ \E o \in Outcomes("send") :
       /\ Transmit(o, MsgFrame(m, out[m].s), net)
       /\ out' = [out EXCEPT ![m] = IF o = "throws"
                    THEN [@ EXCEPT !.pc = "done", !.s = 0, !.status = "open", !.queue = out[m].s]
                    ELSE [@ EXCEPT !.pc = "written"]]
  /\ OutOnly

(* The write completed: start the ACK timer and save the message as sent,  *)
(* whatever happened to it meanwhile.                                      *)
AfterWrite(m) ==
  /\ out[m].pc = "written"
  /\ out' = [out EXCEPT ![m].pc = "done", ![m].s = 0, ![m].timer = out[m].s,
                        ![m].status = "open"]
  /\ OutOnly /\ UNCHANGED <<net, faults>>

(* 15 s without a receipt: the exact ciphertext goes to the queue.         *)
Timer(m) ==
  /\ out[m].timer # 0
  /\ out' = [out EXCEPT ![m].queue = out[m].timer, ![m].timer = 0]
  /\ OutOnly /\ UNCHANGED <<net, faults>>

(* startQueueRetry or presence: only a receipt removes the row.            *)
QueueSend(m) ==
  /\ out[m].queue # 0 /\ MsgFrame(m, out[m].queue) \notin net
  /\ \E o \in Outcomes("queue") : Transmit(o, MsgFrame(m, out[m].queue), net)
  /\ OutOnly /\ UNCHANGED out

(* "Retry now" on a queued message also starts its ACK timer again.        *)
RetryMessage(m) ==
  /\ out[m].queue # 0 /\ Nudge
  /\ \E o \in Outcomes("queue") :
       /\ Transmit(o, MsgFrame(m, out[m].queue), net)
       /\ out' = IF o = "throws" THEN out ELSE [out EXCEPT ![m].timer = out[m].queue]
  /\ UNCHANGED <<rat, cool, run, inFlight, nextS, held, flushed, loop, bobVars, lapse>>

(* A mutant: the receipt of one message clears everything that is held.    *)
ReceiptClearsHeld(m) ==
  /\ AckFrame(m) \in net
  /\ net' = net \ {AckFrame(m)}
  /\ out' = [out EXCEPT ![m].timer = 0, ![m].queue = 0,
                        ![m].status = IF @ = "none" THEN @ ELSE "delivered"]
  /\ held' = {} /\ flushed' = flushed \ {m}
  /\ UNCHANGED <<loop, sessVars, bobVars, faults, envVars>>

(* receiptHandler.                                                         *)
Receipt(m) ==
  /\ AckFrame(m) \in net
  /\ net' = net \ {AckFrame(m)}
  /\ out' = [out EXCEPT ![m].timer = 0, ![m].queue = 0,
                        ![m].status = IF @ = "none" THEN @ ELSE "delivered"]
  /\ held' = held \ {m}
  /\ flushed' = flushed \ {m}
  /\ UNCHANGED <<loop, sessVars, bobVars, faults, envVars>>

-----------------------------------------------------------------------------
(* Bob.                                                                    *)

Show(ms) ==
  /\ stored' = stored \cup ms
  /\ shown' = [m \in Msgs |-> IF m \in ms /\ shown[m] < 2 THEN shown[m] + 1 ELSE shown[m]]

(* What becomes of the messages that session s opened: from a blocked      *)
(* contact they are dropped, and will be known when they come again.       *)
Take(ms, s) ==
  IF blocked
  THEN /\ refused' = refused \cup {MsgFrame(m, s) : m \in ms}
       /\ known' = known \cup ms
       /\ UNCHANGED <<stored, shown>>
  ELSE Show(ms) /\ known' = known \ ms /\ UNCHANGED refused

(* A ciphertext opens once, under the session it was made for.             *)
Opens(f) == rat["bob"] = f.s /\ f \notin refused

(* Acknowledge the messages in `ms`; some of the receipts may be lost.     *)
Acknowledge(ms, rest) ==
  \E lost \in IF "ack" \in MayLose THEN SUBSET ms ELSE {{}} :
    /\ lost = {} \/ faults + nudges + Cardinality(lost) <= MaxFaults
    /\ faults' = faults + Cardinality(lost)
    /\ net' = rest \cup {AckFrame(m) : m \in ms \ lost}

(* A mutant: Bob buffers the frame and waits for Alice.                    *)
UndecryptableAsksNobody(f, rest) ==
  /\ net' = rest
  /\ IF cool["bob"] THEN UNCHANGED <<sessVars, buffer>>
     ELSE /\ buffer' = buffer \cup {f}
          /\ cool' = [cool EXCEPT !["bob"] = TRUE]
          /\ rat' = [rat EXCEPT !["bob"] = 0]
          /\ UNCHANGED <<disk, run, inFlight, nextS>>
  /\ UNCHANGED faults

(* A ciphertext that does not open.  Once per cooldown: keep it, unless a  *)
(* buffered one has its message number, drop the ratchet and ask Alice for *)
(* a new session.                                                          *)
Undecryptable(f, rest) ==
  IF cool["bob"] THEN net' = rest /\ UNCHANGED <<sessVars, buffer, faults>>
  ELSE /\ \E keep \in (IF buffer = {} THEN {TRUE} ELSE BOOLEAN) :
            buffer' = IF keep THEN buffer \cup {f} ELSE buffer
       /\ cool' = [cool EXCEPT !["bob"] = TRUE]
       /\ rat' = [rat EXCEPT !["bob"] = 0]
       /\ \E o \in Outcomes("reset") : Transmit(o, ResetFrame, rest)
       /\ UNCHANGED <<disk, run, inFlight, nextS>>

(* A mutant: the receipt is sent before the message is opened.             *)
MsgAckedUnopened(f) ==
  /\ f \in net
  /\ Show({f.m} \cap (IF Opens(f) THEN Msgs \ stored ELSE {}))
  /\ Acknowledge({f.m}, net \ {f})
  /\ UNCHANGED <<sessVars, buffer, blocked, refused, known, outVars, envVars>>

(* A mutant: a message that opens is shown without looking it up.          *)
MsgShownUnchecked(f) ==
  /\ f \in net
  /\ IF Opens(f)
     THEN /\ Take({f.m}, f.s)
          /\ Acknowledge({f.m}, net \ {f})
          /\ UNCHANGED <<sessVars, buffer>>
     ELSE Undecryptable(f, net \ {f}) /\ UNCHANGED <<stored, shown, refused, known>>
  /\ UNCHANGED <<blocked, outVars, envVars>>

(* An encrypted message.  One that is known or stored is only acknowledged *)
(* again; one from a blocked contact is acknowledged, and dropped.         *)
MsgArrives(f) ==
  /\ f \in net
  /\ IF f.m \in stored \cup known \/ Opens(f)
     THEN /\ Take({f.m} \ (stored \cup known), f.s)
          /\ Acknowledge({f.m}, net \ {f})
          /\ UNCHANGED <<sessVars, buffer>>
     ELSE Undecryptable(f, net \ {f}) /\ UNCHANGED <<stored, shown, refused, known>>
  /\ UNCHANGED <<blocked, outVars, envVars>>

BootArrives(s) ==
  /\ BootFrame(s) \in net
  /\ IF rat["bob"] = s
     THEN net' = net \ {BootFrame(s)} /\ UNCHANGED <<sessVars, buffer, faults>>
     ELSE Undecryptable(BootFrame(s), net \ {BootFrame(s)})
  /\ UNCHANGED <<stored, shown, blocked, refused, known, outVars, envVars>>

(* The buffered messages that session s opens.                             *)
Opened(s) == {m \in Msgs : MsgFrame(m, s) \in buffer}

(* x3dh-init: accept, whoever it is from, and try what was buffered.       *)
InitArrives(s) ==
  /\ InitFrame(s) \in net
  /\ rat' = [rat EXCEPT !["bob"] = s]
  /\ Persist("bob", s)
  /\ Take(Opened(s) \ stored, s)
  /\ Acknowledge(Opened(s), net \ {InitFrame(s)})
  /\ buffer' = {}
  /\ UNCHANGED <<cool, run, inFlight, nextS, blocked, outVars, envVars>>

(* x3dh-reset, at Alice: once per cooldown she rebuilds.                   *)
ResetArrives ==
  /\ ResetFrame \in net
  /\ net' = net \ {ResetFrame}
  /\ IF cool["alice"] THEN UNCHANGED <<sessVars, flushed, loop>>
     ELSE /\ cool' = [cool EXCEPT !["alice"] = TRUE]
          /\ rat' = [rat EXCEPT !["alice"] = 0]
          /\ DropFlushed
          /\ Start
  /\ UNCHANGED <<disk, out, held, bobVars, faults, envVars>>

-----------------------------------------------------------------------------
(* The environment.                                                        *)

CoolEnd(p) ==
  /\ cool[p]
  /\ cool' = [cool EXCEPT ![p] = FALSE]
  /\ UNCHANGED <<rat, disk, run, inFlight, nextS, outVars, bobVars, net, faults, envVars>>

(* The stored ratchet is loaded, even one that was dropped from memory.    *)
Reload(p) ==
  /\ Nudge
  /\ rat' = [rat EXCEPT ![p] = disk[p]]
  /\ cool' = [cool EXCEPT ![p] = FALSE]
  /\ UNCHANGED <<nextS, stored, shown, blocked, refused, net, faults>>

RestartBob ==
  /\ Reload("bob")
  /\ buffer' = {} /\ known' = {}
  /\ UNCHANGED <<run, inFlight, outVars, lapse>>

(* What is held, the ACK timers and everything under way are lost; the     *)
(* stored messages and the queue are not.                                  *)
RestartAlice ==
  /\ Reload("alice")
  /\ lapse' = TRUE
  /\ run' = [s \in Sess |-> "none"] /\ inFlight' = FALSE
  /\ out' = [m \in Msgs |-> [out[m] EXCEPT !.timer = 0,
                               !.pc = IF @ = "idle" THEN @ ELSE "done", !.s = 0]]
  /\ held' = {} /\ flushed' = {} /\ loop' = [s \in Sess |-> NoLoop]
  /\ UNCHANGED <<buffer, known>>

(* blockContact, from Bob's user.                                          *)
Block ==
  /\ ~blocked /\ Nudge
  /\ blocked' = TRUE
  /\ UNCHANGED <<rat, cool, run, inFlight, nextS, outVars, buffer, stored, shown, refused, known, net, faults, lapse>>

Unblock ==
  /\ blocked
  /\ blocked' = FALSE
  /\ UNCHANGED <<sessVars, outVars, buffer, stored, shown, refused, known, net, faults, envVars>>

(* Ten minutes after a message came, or 2048 messages later.               *)
Forget(m) ==
  /\ m \in known
  /\ known' = known \ {m}
  /\ UNCHANGED <<sessVars, outVars, buffer, stored, shown, blocked, refused, net, faults, envVars>>

Next ==
  \/ \E m \in Msgs : Send(m) \/ Encrypt(m) \/ AfterWrite(m) \/ Timer(m) \/ QueueSend(m)
                     \/ RetryMessage(m) \/ Receipt(m)
  \/ TryAuto
  \/ \E s \in Sess : \/ Fetched(s) \/ Reclaim(s) \/ InitWrite(s) \/ BootWrite(s)
                     \/ \E m \in Msgs : FlushOne(s, m)
                     \/ BootArrives(s) \/ InitArrives(s)
  \/ \E f \in MsgFrames : MsgArrives(f)
  \/ ResetArrives
  \/ \E p \in Party : CoolEnd(p)
  \/ RestartBob \/ RestartAlice
  \/ Block \/ Unblock \/ \E m \in Msgs : Forget(m)

Spec == Init /\ [][Next]_vars

(* What a handler or a user's action has begun goes on.                    *)
Continue ==
  \/ \E m \in Msgs : Encrypt(m) \/ AfterWrite(m)
  \/ \E s \in Sess : \/ Fetched(s) \/ Reclaim(s) \/ InitWrite(s) \/ BootWrite(s)
                     \/ \E m \in Msgs : FlushOne(s, m)

(* The network delivers what it does not lose, timers fire, and both       *)
(* devices are on now and then; nobody has to send or to restart.          *)
Fairness ==
  /\ WF_vars(Continue)
  /\ \A m \in Msgs : WF_vars(Timer(m)) /\ WF_vars(QueueSend(m))
  /\ WF_vars(TryAuto)
  /\ WF_vars(\E s \in Sess : InitArrives(s))
  /\ \A f \in MsgFrames : WF_vars(MsgArrives(f))
  /\ WF_vars(ResetArrives)
  /\ \A p \in Party : WF_vars(CoolEnd(p))

FairSpec == Spec /\ Fairness

-----------------------------------------------------------------------------
(* Properties.                                                             *)

(* Messages that came while Bob's user had Alice blocked.                  *)
Refused == {f.m : f \in refused}

(* What a receipt says is true: a message Alice shows as delivered, or     *)
(* whose receipt is on its way, is in Bob's store, however often it was    *)
(* sent, under however many sessions, and whichever copy was acknowledged  *)
(* (useKant.ts, the encrypted-message and x3dh-init handlers).  Only what  *)
(* Bob could read and dropped because he had blocked Alice is confirmed    *)
(* without being stored.                                                   *)
DeliveredMeansStored ==
  \A m \in Msgs : out[m].status = "delivered" \/ AckFrame(m) \in net => m \in stored \cup Refused

Somewhere(m) ==
  \/ m \in held \/ out[m].queue # 0 \/ out[m].timer # 0
  \/ out[m].pc \in {"enc", "written"}

(* While Alice's device runs, a message Bob does not have is always in the *)
(* care of something that will send it again: held in memory, in the       *)
(* queue, or under an ACK timer.  It moves between these as sessions are   *)
(* replaced (reclaimUnacked, flushPendingPlaintext, the ACK timer) and may *)
(* never fall between two of them.                                         *)
NeverForgotten ==
  ~lapse => \A m \in Msgs : out[m].status = "open" /\ m \notin stored => Somewhere(m)

(* Bob's user sees each message once, although the same message arrives    *)
(* again under other sessions, from the queue and from the buffer, and may *)
(* have been dropped before.                                               *)
ShownOnce == \A m \in Msgs : shown[m] <= 1

(* Sessions, resyncs, buffers, queues and timers together implement a      *)
(* courier: nothing is shown that was not sent, nothing twice, nothing is  *)
(* confirmed before it is shown or, from a blocked sender, refused, and no *)
(* step of Alice's device but its restart or a true receipt gives up a     *)
(* message (useKant.ts).                                                   *)
Mail == INSTANCE Courier WITH
          given <- {m \in Msgs : out[m].pc # "idle"},
          caring <- {m \in Msgs : Somewhere(m)},
          confirmed <- {m \in Msgs : out[m].status = "delivered"},
          refused <- Refused,
          lapsed <- lapse

(* The delivery behaves as Courier prescribes.                             *)
ImplementsCourier == Mail!Spec

(* A bound of the exploration: another session would be needed.            *)
OutOfSessions ==
  rat["alice"] = 0 /\ nextS > MaxSessions /\ \A s \in Sess : run[s] = "none"

(* What Alice sends gets to Bob, although a session setup, a message or    *)
(* the request for a new session may be lost and Bob may drop his ratchet, *)
(* provided Alice's device keeps running and Bob has not blocked her: the  *)
(* queue, the resync and the reclaiming of unacknowledged messages         *)
(* together always recover.                                                *)
GetsThrough ==
  \A m \in Msgs : out[m].pc # "idle" ~> m \in stored \cup Refused \/ lapse \/ OutOfSessions

(* README.md: "If the other person is offline, *your* device holds the     *)
(* message and delivers it when they're back."                             *)
DeliversWhenBack ==
  \A m \in Msgs : m \in held ~> m \in stored \/ OutOfSessions
=============================================================================
