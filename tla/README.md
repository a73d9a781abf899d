# Kant in TLA+

Kant is an end-to-end encrypted messenger without a message server: two devices
talk over libp2p circuits, relays only introduce them to each other, and
everything a server would do - holding what cannot be delivered yet, trying
again, noticing that a session broke - happens on the two devices. This
directory models that behaviour in TLA+, checks it with TLC on small instances
and proves every safety property it checks with TLAPS for instances of any size.

The source is TypeScript under `src/packages`; line numbers below and in
`PROJECT.json` ("map") refer to it. `useKant` stands for
`packages/app/src/hooks/useKant.ts`, other names for files of
`packages/core/src`.

## 1. The system

Everything in a client runs on one event loop. What makes it concurrent is
`await`: between two awaits of a handler any other handler, timer or user action
may run, and every database operation is a transaction of its own. Devices crash
and are put to sleep; frames are lost when a circuit dies; a write may throw, or
succeed and still never arrive.

| Component | State | Operations | Talks to | What is hard |
|---|---|---|---|---|
| Send lock (`send-lock.ts`) | one map of promises per node | `withSendLock` | called by groups, files, prekey, onion, index | a caller arriving while another leaves; functions that throw or never settle; the key is chosen by the caller |
| Pre-keys (`prekey.ts`) | signed pre-key (current, previous), pool of one-time pre-keys, one replenish run | rotate, replenish, reserve, burn, fetch | handlers of x3dh-init (`useKant`) and of group keys (`groups.ts`) burn what they use | separate transactions, snapshots, restarts, retries of the same message |
| Double ratchet (`ratchet.ts`) | root, two chains, counters, store of skipped keys | encrypt, decrypt | delivery, groups | lost, repeated, reordered messages; limits of the store |
| Ratchet persistence (`ratchetStore.ts`) | one encrypted row per contact | save, load, delete (never called) | delivery | a crash between a step and its write |
| Message delivery (`useKant`, `queue.ts`) | ratchet per contact, session lock, held messages, flushed set, ACK timers, persistent queue, buffer of undecryptable frames, resync cooldown | send, start a session, reclaim, flush, retry, receipt, decrypt, resync, restart | the peer, through frames; conversation store | nearly every await is a race; loss, duplicates, restarts of either side |
| Conversation store (`messages.ts`) | one row per conversation | save, edit, react, delete, mark | delivery, UI | every operation reads the row and later writes it whole, in two transactions |
| Groups (`groups.ts`, `useGroups.ts`) | group rows with a key generation, delivery tasks | create, rotate, deliver, acknowledge, receive | prekey, send lock, members | generations out of order, acknowledgements lost, tasks and groups written back from old reads |
| Files (`files.ts`) | per-stream window, counts per peer | send, receive | peer | window and acknowledgements, limits, timeouts, a stream that breaks after the file was stored |
| Device transfer (`transfer.ts`) | one session with a short authentication string | offer, accept, stream, finish | the other device | who erases when |
| Relay (`packages/relay`) | registry, nonces, push subscriptions, reservations | register, look up, sweep, wake | clients, push proxy, other relays | capacity, expiry, replay windows |
| Federation (`relay/src/federation*.ts`, the `/lookup` handler) | peers, tunnels and their counters | look up at a peer, tunnel to it | other relays, clients that moved | entries of two relays of different age, awaits between a check and its use |
| Onion routing, discovery, reachability, Tor | connections | choose hops, dial | libp2p | network I/O |
| Identity, contacts, envelope, licence, bundle, db | single records | create, encode, decode | - | - |
| Push proxy, voice, CLI, desktop, UI, site, admin | tokens, views | forward, render | - | - |

What makes each correct, in the components with an ordering of their own:

* **Send lock**: one function at a time per key, in the order of the calls; a
  failure strands nobody; the map does not leak.
* **Pre-keys**: a one-time pre-key goes to one peer; what was handed out can
  still be used when the answer comes; the store stays bounded.
* **Ratchet**: a message opens once; what was not read stays readable within
  the limits; used keys are gone; no key encrypts two messages.
* **Delivery**: a receipt is true, unless the receiver has blocked the sender; a
  message nobody confirmed is always in somebody's care; it is shown once; it
  gets through.
* **Conversation**: both devices end up with the same message, as far as the
  changes were applied before they were settled; a deletion that was confirmed
  stays one.
* **Groups**: a removed member gets no later key and has not the current one;
  what counts as delivered was stored; a lost answer costs no second pre-key.
* **Files**: what is shown as delivered is stored; the two ends never both wait;
  slots are given back.
* **Device transfer**: the account is never on no device; an interrupted restore
  leaves nothing.
* **Relay**: a signed request takes effect once; an identity stays listed while
  it is in use; the registry stays within its limits.
* **Federation**: a device that moved is found where it is; tunnels are counted
  right.

`PROJECT.json` lists the hazards of this code, line by line ("hazards"), and the
properties aimed at each; those without a property say why.

## 2. Modules

    SendLock  <- SendLockProofs     MCSendLock
       implements FifoLock
    Prekeys   <- PrekeysProofs      MCPrekeys
    Ratchet   <- RatchetProofs
    Delivery  <- DeliveryProofs     MCDelivery
       implements Courier
    Groups, Conversation, Files, Transfer, Relay, Federation, Tunnels  <-  MCParts
    Groups    <- GroupsProofs       Files, Transfer  <- TransferProofs
    Conversation <- ConversationProofs
    MCParts, Relay, Federation, Tunnels  <- PartsProofs

Each models one component; `*Proofs` hold its theorems and `MC*` give constants
values for TLC. `Delivery` uses sessions as numbers, `Ratchet` is what happens
inside one of them. `Conversation` takes over where `Delivery` ends: what happens
to a message after it was written. `MCParts` puts seven parts that share no state
into one run: a behaviour of it is a behaviour of one of them, in which the others
keep their initial states. `PartsProofs` proves that it is a behaviour of every
part by itself (`PartsImplemented`).

### SendLock

A *call* is one invocation of `withSendLock`. `tail` is the map from keys to the
promise of the latest caller, `previous` the promise a call awaits, `pc` where it
stands. `Enter` is the synchronous head of the function (lines 13-20), `Run` the
resumption after `await previous`, `Leave` its `finally` block, whether the
function succeeded or threw. `Hanging` is a set of calls whose function never
settles (a fetch without a time limit): the code has no timeout there.
`KeyOf` is what the call sites pass: the member's public key (`groups.ts`),
`file:` plus the address (`files.ts`), the circuit address (the rest).

### FifoLock

What the lock promises, without promises: per key a queue of callers. `Arrive`
puts a call at the end, `Serve` lets the first one run, `Finish` takes it out.
`SendLock` implements it (`Lock == INSTANCE FifoLock WITH ...`): the queue of a
key is read off the chain of promises, the callers that have not left in the
order in which they came. `ImplementsLock` is checked, and proved for any number
of calls (`Refinement`).

### Prekeys

`spkCurrent`, `spkPrevious` are the two rows of the signed pre-key; a rotation is three steps (`ReadSpk`, `ArchiveSpk`,
`CreateSpk`) because the code has three transactions. `opks` and `reservedAt`
are the pool. `rep` is the one replenish run there can be: `Snapshot` computes
what to delete and how many keys to add, `DropExpired` and `Fill` do it one
transaction at a time, so reservations, burns and a crash fall between them.
`bundle[r]` is what request `r` was served. An initiation reaches either the
session handler (`SessionInit`, which burns at once) or the group-key handler
(`GroupRead`, `GroupUnwrap`, `GroupBurn`), which burns only after the key was
unwrapped, and may arrive a second time.

### Ratchet

Keys are names: a DH key is a number, a chain is a pair of them, a message key is
a chain and an index. That two names differ stands for what the cryptography
promises; deriving keys is left out. Everything else is kept: `skipMessageKeys`
with its limit, `commitSkipped` with expiry and eviction of the oldest, the DH
step with its three counters, and the rule that nothing is committed when a
message is refused. The network is a set of messages that may arrive in any
order, again, or never. The store is the sequence of its entries in the order of
their insertion, as the `Map` of the code; `StoredFor` are the entries that a
message's id names (one at most), `Only` what a deletion leaves, in its order.

### Delivery

Alice sends to Bob, who has not added her, so only she starts sessions: Bob
accepts (`x3dh-init`) or asks for another one (`x3dh-reset`). A session is a
number, a ciphertext names the one it was made under and opens when Bob's
ratchet is that one.

| Code | Model |
|---|---|
| `ratchetMapRef`, the rows of `ratchetStore` | `rat`, `disk` |
| `sessionInFlightRef`, running `tryAutoSession`s | `inFlight`, `run` |
| `pendingPlaintextRef`, `flushedPendingRef`, running flush loops | `held`, `flushed`, `loop` |
| `deliveryPendingRef` (15 s timers), the queue's rows | `out[m].timer`, `out[m].queue` |
| `pendingCiphertextRef`, `lastResyncRef` | `buffer`, `cool` |
| the conversation store of Bob | `stored` (`shown` counts what he saw) |
| Bob's contact record of Alice | `blocked`; `refused` are the frames opened under it |
| `receivedMessageIdsRef`, for what is not stored | `known` |

`tryAutoSession` is cut at its awaits: `Start`/`TryAuto` (take the lock, fetch
the bundle), `Fetched` (set the ratchet unless one was set meanwhile), `Reclaim`,
`InitWrite`, `BootWrite`, and one `FlushOne` per held message. `sendMessage` is
`Send`, `Encrypt`, `AfterWrite`: the ratchet is picked in the first, used in the
second. A flush loop keeps the session it started with and, after
`flushedPendingRef.delete`, a set of its own (`DropFlushed`), because it holds
references.

A contact may be blocked. Its messages are decrypted, acknowledged, and neither
shown nor stored (`useKant.ts:1678-1690`, and `1410-1446` for the buffer):
`Take` is this branch, `Block` and `Unblock` are Bob's user, who does so at any
moment, and `Forget` is the ten minutes after which Bob's device no longer knows
such a message. A receipt may therefore be untrue of a message that came while
Alice was blocked; `DeliveredMeansStored` speaks of the others by name
(`stored \cup Refused`), and so does `GetsThrough`, which is a promise to a sender
who is not blocked.

Abstractions, all named in the module: a store write is atomic with the step it
belongs to; the write of one flushed message and the start of its timer are one
step; messages typed while loops run may or may not be seen by them; receipts of
bootstrap frames, `pollCircuit` and control messages (edits, reactions,
deletions) are left out; the awaits inside `reclaimUnacked` are one step.

### Courier

What delivery promises, without sessions, queues or a network: a message is
given (`Submit`), shown once to the other side (`Deliver`; one frame may open a
buffer of several), and confirmed only after that (`Confirm`). A receiver who has
blocked the sender (`Choose`) refuses what comes (`Refuse`), which is confirmed
too. Until a message is shown or refused it stays in the sender's care; only a restart of the sender's device (`Lapse`)
may drop it, and what is held again (`Resume`) loses its confirmation. `Delivery`
implements it (`Mail == INSTANCE Courier WITH ...`): a message is in care when it
is held, queued, under a timer or being written, and confirmed when its status is
`delivered`. `ImplementsCourier` is checked, and proved for any number of
messages, sessions and faults (`Refinement`).

### Groups

The creator's side of one group and its members. `row` is the stored group,
`shown` the object the user interface has of it, `task[m]` the row of
`delivery_queue` that a member has. A key is a name, 0 for that of the new group
and one more for each rotation; `generation[k]` is the number the code gives it,
which two keys may share. A distribution wraps a key for a member and sends it
(`DistributeTo`, `Delivered`); what is not answered becomes a task. A pass of the
queue works on `pass.snapshot`, the tasks read at its start, and per task does
`Resend`, `Rewrap` (the member reported a missing pre-key, or the group has
another generation) or `CannotSend`, then deletes the row or writes `Retried`.

`Remove`, `Rotate`, `RotateEnds` are `removeMember`: it takes the member off the
object the user interface passes, saves that, fetches bundles, rotates the key of
the same object, distributes it, and only then gives the rotated group to the
user interface. Removals of several members may overlap. `ReadForRefresh` and
`WriteBack` are an address refresh, which writes back the whole group it read.
Every save is `Save`, and may bring back a member the user has removed
(`relisted`). `createNewGroup` writes back what it read as well
(`useGroups.ts:643-680`), which is the same step as a refresh.

A member's handler answers `Duplicate` for a generation it has (`Has`),
`RejectOpk`, or unwraps and stores (`Unwrap`, `StoreKey`). Of two handlers that
overlap the one that saves last may put the older key in place of the newer one:
`stored` follows that, `kept` is everything a member ever stored. `kept`,
`ackedKeys`, `removed`, `removedAt`, `relisted`, `enveloped` and `refused` are
history.

Abstracted: clocks (a task may be due or not), one task per member (a distribution
reuses the row), one address refresh at a time and one removal of the same member
at a time, passes that do not overlap, reading and putting a task as one step; a
database error in the middle of a removal, which leaves what a reload leaves.
Nothing in the user interface calls `removeMember` yet. Group messages, read
receipts and presence are left out.

### Conversation

One message, on its author's device (`mine`, with the unsynced changes, and
`held`, the copy that waits to be sent) and on the peer's (`theirs`). Each
`Edit`, `React` and `Delete` saves the change as unsynced and sends a frame;
`GetReceipt` clears the change whose operation it names; `Reset` is
`reclaimUnacked` under a new session, which sends again what is unsynced
(`Rebuilt`). `TakeHeld`/`FlushHeld` are a step of the flush loop, which has read
the text before it sends it: an edit in between (`EditHeld`) changes the held
copy only. The peer's `Open` decrypts once per ratchet key, applies (`Changed`)
and acknowledges; `Known` messages are acknowledged again; `ForgetSeen` is a
restart that empties the set of seen ids.

Not everything that is settled was applied, and `missed` keeps record of it:

* `OpenBlocked`: what a blocked author sends is acknowledged and dropped
  (`useKant.ts:1681-1690`).
* `OpenFails`: `applyInbound*` swallow a failed write, and the change is
  acknowledged (2731, 2744, 2766). A message whose write fails is not
  acknowledged; that is a frame that does not arrive.
* `caps` is what the author's device knows of the peer's build (`Learn`). A peer
  that knows no edits gets a correction, a message of its own (`"note"`); other
  changes are settled without being sent (`Outgoing`, `Pointless`; 996-1003,
  1084-1089, 2535-2539).
* `Recorded`: the author's own row may fail to be written, which the handlers
  ignore; an edit or deletion is sent all the same.

The properties name these cases and hold in all others.

Abstracted: a conversation is read and written back in one step; a frame is
handed to the network at once; no session is reset while a flush loop runs; the
author's writes when a message is flushed and when a receipt comes succeed; a
change to a peer of the present build that is made without a session counts as
sent and not there yet, one that is neither held nor recorded is not followed.

### Files

A transfer is a stream with a sender and a receiver. `Announce`, `ReadResponse`,
`SendChunk` with its decision `AfterChunk` (go on, wait for the window, wait for
the end), `ReadAcks`, `Confirmed` on one side; `ReadMeta` (first capacity
check), `Acquire` and `Accept`, `ReceiveChunk`, `Complete` on the other, with
every way out through `End`. Every read may fail: the stream is cut, or five
minutes pass with nothing to read. `KeepOwnCopy` is the sender's own store, whose
failure does not matter to the receiver. Peers that know no chunk acknowledgement
(outside `Acking`) run without a window, and a blocked sender's file is dropped
and acknowledged (`Blocked`). The receiver's app may lose its identity at any time
(`LoseIdentity`: locking stops the node, which cuts the streams unless that fails,
and then forgets the identity): a file that completes after that is acknowledged
as stored and is not (`useKant.ts:1951`; `dropped`).

### Transfer

`old`, `have`, `mover`, `out` belong to the old device, `screen`, `expected`,
`received` to the new one, two queues of frames to the stream between. The old
device calls, the user compares codes and confirms or declines, the records
follow with an acknowledgement per window, `end`, `done`, and after three seconds
the erase. Either device may be reloaded at any time, the stream may break,
somebody else may call first, another window may make an identity on the new
device, and the old device goes on receiving messages (`Receive` changes a
record that may have been copied already). Breaking off a restore clears the
stores as far as that succeeds (`Clear`; `bundle.ts:242-246` swallow the errors),
so any of the records may be left; `cutShort` says so.

### Relay

`Register` is the whole handler: freshness, replay, admission (a live
connection), the cap of one device's keys, the capacity; it writes the ephemeral
key and the identity beside it. `Minute` is the clock together with the sweep, which
runs every minute in the code too, and `Disconnect` drops the ephemeral entries
of a device. A request carries the time of a clock off by up to `Skew` and may
arrive again at any later minute. Devices are honest; that the PeerID belongs to
the signing key, which the admission checks, is built in.

### Federation and Tunnels

Time is in units of ten seconds, the tick of the client's heartbeat.
`RegisterHome` is a heartbeat that registers, `Pass` the clock, `Move` another
relay chosen by the user, `NoticeReservation` and `LoseReservation` the relay's
view of reservations, which lags. `LookUp` answers from the own registry or asks
the peer (`AsksPeer`) and keeps its half of the answer while it waits;
`PeerAnswers` chooses with `Pick`, `PeerFails` falls back. A relay outside
`Reporting` is an older one that sends no ages.

`Tunnels` is `handleUpgrade`: `AskTunnel` up to the await of the signature,
`OpenTunnel` or `RejectTunnel` after it, `CloseTunnel` the first of the events
that end a tunnel. What throws after the counters were raised leaves them raised
for good (outcome `"broken"`). A "token" is a request: two may carry the same
token, as its nonce is looked up before the signature is awaited.

## 3. Runs

| Run | Module, cfg | Question | Result |
|---|---|---|---|
| `sendlock` | MCSendLock, SendLock.cfg | five calls to two destinations, one hanging: is the lock a fair mutex per key, and a FIFO lock? | holds |
| `sendlock_dest` | MCSendLock, SendLockDest.cfg | does it serialize stream set-up per destination, as its comment says? | violated |
| `prekeys` | MCPrekeys, Prekeys.cfg | two requests, a replay, a crash, pool 2, cap 3, time 5: are keys served once, kept while needed, and bounded? | holds |
| `prekeys_init` | MCPrekeys, PrekeysInit.cfg | does an initiation made with the previous signed pre-key complete? | violated |
| `prekeys_race` | MCPrekeys, PrekeysRace.cfg | is a signed pre-key that was served kept for a period? | violated |
| `ratchet` | Ratchet, Ratchet.cfg | up to five messages each way, skip limit and store of 2 | holds |
| `delivery` | MCDelivery, Delivery.cfg | safety, and a courier: one message in two sessions or two in one, and one thing that goes wrong: a write that throws, a restart, a manual retry, or a recipient who blocks the sender | holds |
| `delivery_live` | Delivery, DeliveryLive.cfg | does the message get through when one frame is lost? | holds |
| `delivery_stuck` | Delivery, DeliveryStuck.cfg | does a held message go out after a write that threw? | violated |
| `parts` | MCParts, Parts.cfg | the safety of Groups, Conversation, Files, Transfer, Relay, Federation and Tunnels, each in an instance of its own (below) | holds |
| `conversation_edits` | Conversation, ConversationEdits.cfg | of two edits that arrive out of order, does the newest win? | violated |
| `groups_relist` | Groups, GroupsRelist.cfg | is a member, once removed, without the key the group uses? | violated |

What `parts` checks:

| Part | Properties |
|---|---|
| Groups | `RemovedLearnsNoNewKey`: no member stores a key made after the user removed it, unless a save of an older group object had put it back on the list. `CountedKeysWereStored`: what left the queue as delivered, the member once stored, it or a later key, as long as later keys have later generations; that it has the newest key in the end is not said (see `StoreKey`). `OneEnvelopePerGeneration`: a second envelope is made only after a missing pre-key was reported. |
| Conversation | `SettledCopiesAgree`: of a user who waits for each confirmation, both copies are equal once the last change is settled, but for parts whose last change is `missed`. `ConfirmedDeletionHolds`: a settled deletion of a confirmed message is a tombstone for good, unless it is `missed`. |
| Files | `DeliveredFileStored`: a file shown as delivered was stored, or its receiver had blocked the sender or had no identity any more; `SlotsMatchTransfers`: the counters are the transfers that run, within both limits; `WindowKeepsMoving`: the two ends never both wait while the stream is up. |
| Transfer | `AccountSurvives`: the old device is erased only if the new one holds every record, and keeps it. `NoHalfAccount`: an interrupted restore leaves nothing, unless the device was reloaded in it or a store could not be cleared. |
| Relay | `AcceptedOnce`: a signed request is accepted once, but for the one instant the property names; `IdentityListed`: an identity stays listed for its time to live; `RegistryBounded`. |
| Federation | `MovedDeviceFound`: a device that has registered at one relay for the fresh window is found there from both, if the peer answers. |
| Tunnels | `TunnelsCounted`: the counters are the tunnels that are open or broke while they were set up, within both limits. |

Deadlock is not checked: each bounded exploration ends when everything was sent
and handled.

**Bounds.** *SendLock*: five calls give two waiters behind one holder for a key
and a second key; the theorems hold for any number. *Prekeys*: the pool (2) and
cap (3) are small enough that the pool runs dry and that reserved keys push the
store against the cap; time 5 covers a rotation (age 1) and an expiry (age 2)
after a snapshot; two requests suffice because every property relates at most
two, and one-use and the bound are proved for any number. *Ratchet*: five
messages each way make several DH steps possible, so messages of a chain two steps old
meet a store of two keys. *Delivery*: two sessions are what replacing one
needs, with one message; two messages in one session show what they share: the
held list, the flush loop and the receipts. `Explored` in `MCDelivery` is that
choice, and it ends a behaviour where Alice would need a third session
(`OutOfSessions`), because from there on it is the bound, and not the code, that
stops her. What other messages do to the buffer is kept as a choice (`keep` in
`Undecryptable`). In the safety run a lost frame is one that does not arrive, so
only throwing costs a fault there. Faults, restarts, retries by hand and blocking
share one budget (`CanFail`): the run takes one of them at any point, and the
theorems of `DeliveryProofs` hold for any number of each together.
The bounds on time, faults, nudges and sessions are guards of the actions.

*Groups*: two members, both of whom can be removed, so that a second rotation
meets what the first has left; two retries, so that a task can reach the cap; two
passes, so that one follows a rotation; at most one each of a timeout, a lost
pre-key, a stale refresh and a reload, and three events in all, removals among
them. *Conversation*: one each of an edit, a reaction, a reset and a setback (lost
ids, a block, a failed write) beside the deletion, of the last three two in one
behaviour (`ConvBound`; all three together pass too, in five minutes more); a peer
of the present build or of one that knows no change at all, which the author may
learn late. Two edits are checked in `conversation_edits`. Frames are a set, so
that each may be lost, repeated or late. *Files*: two transfers of one peer for one slot, three chunks in
windows of two, so that the last window is partial; one of the transfers knows no
acknowledgements and is of a blocked sender. *Transfer*: three records, the
identity in the middle, a window of two; two calls, two changes, one reload.
*Relay*: two devices with two ephemeral keys each, two keys per device (the
identity and one more), three entries in all, so that the cap and the capacity
both bite; three minutes with time to live two; a skew of one minute and
nonces of two, the ratio in the code; two requests. *Federation*: two moves, so
that a device may come back; a fresh window of three units and heartbeats of
two, as in the code (30 s and 20 s); a time to live of five units, over the fresh
window and short enough that entries expire. *Tunnels*: three requests of two
clients for two tunnels, one per client.

**Fairness.** *SendLock*: the event loop resumes a call whose predecessor left,
and a function that settles does settle; hanging ones are excluded from
fairness. *Delivery*: weak fairness of timers, of the retry loop, of the steps
of a handler, of the arrival of a frame, and of the end of a cooldown; each is
a `setTimeout`, a resumed promise or a network that delivers what it does not
lose. Nothing assumes that a user sends, that anybody presses "retry" or that a
device restarts; receipts need no fairness either. The seven parts state no
fairness: their properties are safety properties; that two ends of a file
transfer never wait for each other is stated as one (`WindowKeepsMoving`).

## 4. What disagrees with the repository's own words

1. **One set-up per destination** (`OneSetupPerDestination`). `send-lock.ts:7`
   promises one stream set-up per destination; its callers use three different
   keys for one destination.
2. **In-flight initiations** (`InFlightInitCompletes`). `prekey.ts:59` keeps
   the previous signed pre-key so that initiations under way can complete; the
   handlers only ever use the current one.
3. **Concurrent rotation** (`ServedSpkRetained`). Two callers that find the
   signed pre-key expired both rotate, and the second erases the key the first
   has just served.
4. **Held for ever** (`DeliversWhenBack`). When writing `x3dh-init`, the
   bootstrap frame or a held message throws, `tryAutoSession` leaves the ratchet
   set. Its own retry returns at once because there is a ratchet, and so does
   "Retry now": what is held stays held until the peer resets the session or
   the app is restarted (which forgets the held list). `DeliveryStuck.cfg`
   allows the first of these writes to throw; with `"boot"` or `"flush"` in
   `MayThrow` the property fails as well.
5. **The newest edit wins** (`NewestEditWins`). `messages.ts:200` says that of
   edits that arrive out of order the newest wins; an inbound edit is dated by
   its arrival (`useKant.ts:2762`), so the one that arrives last wins.
6. **A removed member has the current key** (`RotationLocksOut`). `groups.ts:9`
   says that on removal the key is rotated and distributed to the remaining
   members. An address refresh that read the groups before the removal writes the
   old group back after the rotation (`useGroups.ts:447-456`, or 351-357 for the
   retry tick): the removed member is listed again and the group uses the key it
   holds; the rotation after that hands it the new one. `RemovedLearnsNoNewKey`
   holds of the members that no save has relisted.

Met while modelling, and left to the text because no property of a run is about
them:

* `BundleRestorer.begin` "refuses to run over an existing identity"
  (`bundle.ts:177`), but the refusal ends in `startIncomingMove`'s
  `restorer?.abort()` (`transfer.ts:255`), and `abort` clears every store, the
  existing identity's too (`bundle.ts:244`). `Transfer` models it so (`Confirm`
  then `Abort`): the identity made meanwhile on the new device is gone.
* The old device stays connected during a move; what it receives after a record
  was read is not sent again, and is erased with it. `AccountSurvives` therefore
  speaks of the records as they were at the call, while the sheet says that
  everything moves (`TransferSheets.tsx:121`).
* Between the new device's `done` and the erase lie three seconds
  (`TransferSheets.tsx:108`); a reload in them, or a `done` that is lost, leaves
  the account on two devices.
* A reload in the middle of a restore leaves half an account (`cutShort`), and so
  does a store that cannot be cleared.
* "Generation counter - incremented on every key rotation" (`groups.ts:89`):
  `rotateGroupKey` counts from the group object it is given, and the user
  interface gets the rotated one only after the distribution
  (`useGroups.ts:1102`). A member removed meanwhile gets the group another key
  with the same generation, and who has the first one answers `duplicate` to the
  second (`groups.ts:848`), which the creator counts as delivered. `Groups` shows
  it (`GenerationsIncrease` fails after two removals); the property
  `CountedKeysWereStored` is said of the behaviours in which it does not happen.
* The acknowledgement of a change says that it was received, not that it was
  applied: a blocked author, a failed write and a peer of an older build leave the
  two copies different for good (`missed` in `Conversation`).
* A file that completes after the receiver's app was locked is shown as delivered
  (`useKant.ts:1951`).
* A queued group key that fails is written back from the row read at the start
  of the attempt (`groups.ts:550`); a newer task put there by a rotation
  meanwhile is overwritten, and that member waits for the next rotation.
* A change to a message the peer has not got is ignored there and acknowledged
  (`useKant.ts:2745`).
* The client registers every 20 s (`useKant.ts:1904`), the relay's comments say
  every 10 s (`federation.ts:108`); `Federation` takes the code's number.

## 5. Proofs

TLAPS checks every theorem below for all values of the constants allowed by the
modules' `ASSUME`s (which TLC evaluates in the runs).

* `SendLockProofs`: `TypeCorrect`, `Fifo`, `Exclusion`, `MapDiscipline`. The
  property "no two functions run under one key" is not inductive. The
  strengthening says what the chain of promises means: the callers of a key that
  have not left form a queue in the order of arrival, each awaits the one before
  it, and the map points at the last. First in, first out is part of it, and
  exclusion follows. `Refinement` rests on the same invariant: an arrival
  appends to the queue, a departure removes its head. `OneNamePerDestination` is
  about the promise that `sendlock_dest` finds broken: it would hold if the calls
  that dial a destination agreed on its key, so the three keys are all that is
  wrong.
* `PrekeysProofs`: `TypeCorrect`, `OneUsePerPreKey`, `StoreIsBounded`. One use
  needs that every key that was served has a number already drawn (`Numbered`)
  and, as long as it is stored, is marked (`ServedMarked`). The bound needs a
  budget: what the replenish run still has to add fits, whatever was deleted
  after its snapshot, because only this run adds (`Budget`). The same budget
  shows that the number of keys to add is never negative, which is part of type
  correctness. `HandedOutOpksStay`, `FailedUnwrapsKeepOpks` and `ServedSpksStay`
  rest on a second invariant over the first (`KeptInv`): the key of a bundle whose
  initiation is still to come, or did not unwrap, is in the store, and what the
  replenish run has marked for deletion was reserved longer ago than its life
  time (`Reservations`); a bundle's signed pre-key is the current one, or the
  previous one if the bundle is from before the current one, or the bundle is
  older than a period (`Traced`), where a rotation that is alone is still about
  the row it has read (`Rotation`).
* `RatchetProofs`: `RatchetTypeCorrect`, `NoReplay`, `ForwardSecrecy`,
  `NothingElseIsLost`, `OldestGoFirst`, `KeysAreFresh`, all from one invariant
  (`RatchetInv`), for any number of messages and any limits. Key pairs of the
  two parties alternate, so they are counted (`Epoch`); a root is the sequence of
  the Diffie-Hellman outputs of the epochs up to its own (`Root`), and a message
  key is an epoch and a place in its chain (`ChainAt`). Two parties are never
  more than one epoch apart (`OnCourse`, `InStep`), and a message carries the
  key of its place and the length of the chain before it (`Written`,
  `Counted`). What a party can still open is then arithmetic on places: a place
  that was *passed* has its key in the store, was opened, or was forgotten
  (`Stored`, `Opened`, `Missed`, `Lost`), and the store is ordered by epoch and
  place and by age (`InOrder`), so that expiry and eviction both take its first
  entries.
* `DeliveryProofs`: `TypeCorrect`, `ReceiptsAreTrue`, `NothingForgotten`,
  `NoDuplicates`, for any number of messages, sessions, faults and restarts, any
  set of writes that may throw and of frames that may be lost, and whenever Bob
  blocks Alice. The invariants support each other: a receipt exists only for a
  message that was stored or refused (`DeliveredMeansStored`, for which what Bob
  knows by its id must be one of these too, `KnownCame`), so a receipt never takes
  a message that Bob lacks and did not refuse out of Alice's care; everything else moves a message from one place to another,
  provided that what is being encrypted has a session to be queued under
  (`SendsUnderSession`), without which not even type correctness is inductive.
  `ShownOnce` becomes inductive as "shown once if stored, never if not"
  (`ShownIsStored`). `Refinement`: every step is a step of the courier or leaves
  all that it knows unchanged. It needs one more invariant, that nothing is under
  way of a message that was not sent, in a queue, a loop, a frame or a buffer
  (`NothingUnsent`); the steps that only send, arrive or wait are told apart from
  those that show (`OnlyArrivalsShow`) or touch Alice's record of one message
  (`Touch`, `TouchesOne`). `CourierKeeps` is what follows of the courier alone.
* `GroupsProofs`: `RemovedStayOut`, `CountedMeansStored`, `NoNeedlessRewrap`,
  for any number of members, removals (overlapping or not), retries, passes,
  timeouts, refreshes and reloads. Everything that may hand over a key - running
  distributions, tasks, the snapshot of a pass, a request on its way - is about a
  member that was not removed before the key was made, or was relisted
  (`Entitled`); a removed member that the row lists is relisted, and no group
  object names a key that is not made yet (`Lists`). A request that
  will be answered is the one its sender waits for, hence an answer is about the
  envelope that was sent (`Asking`, `Answered`). A member that answers
  `duplicate` has stored a key of that generation or a later one (`HasHad`,
  `AckedHad`); that this is the key itself or one made later is what
  `GenerationsIncrease` adds in `CountedMeansStored`. A distribution makes one
  envelope per member, and the queue makes another only with a bundle fetched
  after a refusal (`Once`, `Refusals`). `GroupsTypeCorrect` adds the exact types.
* `ConversationProofs`: `CopiesAgree`, `DeletionsHold`, `ConvTypeCorrect`,
  `UnhurriedEditsKeepOrder`. Frames are repeated,
  late and rebuilt under a new session, so the invariant is about what a frame
  that can still be opened would do: a confirmed change cannot be opened again,
  as the peer knows its id or the frame is no longer on its way (`ConfirmedChanges`);
  once a message is deleted no other change of it is waiting, and the peer's tombstone is never
  undone (`Deleting`). That holds for any author. One who waits for each
  confirmation has one change on its way at a time, whose frames carry the row
  as it is (`OneChange`), so a change the peer has seen is what the author has,
  unless it is `missed` (`Agreeing`). Both are said of an author who waits and whose
  message both devices have stored (`Orderly`). Of such an author an edit that can still be opened is the last one
  that was made (`OpenedIsNewest`), so the newest wins after all: the promise that
  `conversation_edits` finds broken fails only for edits that overtake each other.
* `TransferProofs`, about `Files` and `Transfer`. `SlotsAreRight`: every step
  takes a slot for one transfer, gives one back or touches none (`SlotStep`), so
  the set of holders stays finite and the counters stay its cardinalities: no
  slot leaks and none is given back twice. `DeliveredMeansFileStored`: a
  `stored` frame is under way only if the file was stored or dropped or its sender
  is blocked (`StoredIsTrue`), and a sender reaches `delivered` only by such a
  frame. `WindowsMove`: until the stream is cut or closed, what was sent and not
  received is in the pipe (`UnderWay`); a sender that drains either has chunks
  under way or the acknowledgement of its last one, one that waits for an answer
  has its accept (`WillRead`). The deadlock freedom of the two ends is this
  safety property; that a transfer ends needs fairness and is not claimed.
  `MovedAccountSurvives`, `NeverHalfAnAccount`: the argument follows one move. A
  line is open only while the old device is in a move, so what arrives belongs to
  it (`Wires`); records are read after the call, so they are not older than they
  were then (`OutgoingFrames`); `done` is only said of a whole account, which has an
  identity, and no screen of the new device clears the stores of an identity
  (`Arrived`, `Restoring`). `FilesTypeCorrect` and `TransferTypeCorrect` are the
  exact types; that of a move needs what a line can carry at each step of it
  (`Numbered`, `LineExact`).
* `PartsProofs`, about `Relay`, `Federation` and `Tunnels`, and about the parts
  together.
  `RequestsRegisterOnce`, `IdentitiesStay`, `RegistryStaysBounded`: a nonce is
  kept `NonceTtl` after its acceptance (`NonceKept`); by then the request is no
  longer fresh, because `NonceTtl >= 2 * Skew`, but for the last instant of one
  that came as early as the skew allows (`AcceptedOnce` names it). The identity's
  entry is as old as the last registration that named an ephemeral key
  (`ListedThen`). The cap leaves room for the keys of the request
  (`CapLeavesRoom`), for which a share of two keys is the least (`MaxKeys >= 2`).
  `SettledDevicesAreFound`: a device that has been at one relay for the fresh
  window has an entry there not older than a heartbeat, and any other entry is at
  least as old as the window (`RelaysKnow`); a lookup that waits for the peer keeps
  its half of the answer, which stays true for as long as the device stays
  (`Asked`). It holds for two relays and any periods with
  `Heartbeat < Fresh <= Ttl`, which those of the code satisfy.
  `TunnelsStayCounted`: the set of open and broken tunnels is finite by induction, because
  it grows by one tunnel at a time, and both counters are its cardinalities; the
  limits are read after the signature check.

  `RelayTypeCorrect`, `FedTypeCorrect`, `TunnelsTypeCorrect` are their types.
  `PartsImplemented`: the parts have no variable in common, and a step of the
  whole is a step of one part that leaves the others alone (`OnePartMoves`), so
  the whole implements the specification of every part. What is proved of a part
  therefore holds of the whole: the types (`PartsTypeCorrect`, the `TypeOK` of the
  run `parts`) and the fifteen safety properties (`PartsKeepPromises`).

With these, every invariant and both refinements of the passing runs are proved.
Only model-checked is what needs fairness, which the provers do not handle:
`WaiterRuns` and `GetsThrough`. The violations are TLC's; for two of them a
theorem names the condition under which the broken promise would hold
(`OneNamePerDestination`, `UnhurriedEditsKeepOrder`), `ServedSpksStay` does so
for a third, `RemovedStayOut` for what is left of a fourth. The bounds on time, faults, retries and sessions are constants of
the modules, and the theorems hold for every value of them. The assumptions only
relate the code's own
constants (`RelayAssumption`, `FederationAssumption`, `FilesAssumption`), say that
a "nothing" is no value, or that a bound is a number (`ConvAssumption`,
`TransferAssumption`).

No induction theorem of the library can be applied (they take an operator as a
parameter). Where a recursive definition has to be reasoned about - `Only`, in
`Ratchet` - the proof uses the well-foundedness of the naturals instead: the set
of lengths at which the claim fails has no least element, hence is empty
(`NoLeast`).

## 6. Not modelled, and the plan

Not modelled for good: cryptographic arithmetic and wire formats (their
guarantees are assumed by naming keys), dialling and libp2p, rendering, audio,
packaging, web pages. Most of the lines of the repository are of this kind.

Not modelled for now, in the order of their weight:

1. **Two contacts that both start sessions**: the tiebreak in `tryAutoSession`
   and in the x3dh-init handler, the awaits inside `reclaimUnacked`, a ratchet
   one step behind after a crash.
2. **Separate reads and writes** of a conversation row (`messages.ts:124`): the
   model takes each pair as one step.
3. **Push**: subscriptions and wake-ups of the relay with their cooldown, and the
   push proxy's tokens.
4. **Group messages**: fan-out, read receipts, presence.
5. **Health checks** of federated relays, which may finish out of order.
6. **Proofs**: whatever the models above add; abstract specifications of the
   parts, as `FifoLock` and `Courier` are of the lock and of delivery.

## 7. Running

    tlc -workers 2 -config Delivery.cfg MCDelivery.tla
    tlapm PrekeysProofs.tla

The largest run (`delivery`) has 2.2 million states and takes under four minutes,
`parts` 1.6 million and about two; `delivery_live` has fewer and takes about three
minutes, for its temporal property.
