------------------------------ MODULE Ratchet ------------------------------
(***************************************************************************)
(* The double ratchet of one session (packages/core/src/ratchet.ts) over a *)
(* network that loses, reorders and repeats messages.                      *)
(*                                                                         *)
(* Keys are symbolic.  A root key is the sequence of Diffie-Hellman        *)
(* outputs mixed into it, an output the set of the two key pairs it is     *)
(* made from; a chain key is the root it was derived under and the number  *)
(* of steps since.  A ciphertext opens under exactly the key that made it: *)
(* that is the AEAD.                                                       *)
(***************************************************************************)
EXTENDS Integers, Sequences, FiniteSets, SequencesExt

CONSTANTS
  MaxSkip,     \* RATCHET_LIMITS.maxSkip
  MaxStored,   \* RATCHET_LIMITS.maxStoredSkipped
  MaxAge,      \* RATCHET_LIMITS.maxSkippedAgeMs, in ticks
  MaxMsgs,     \* bound: messages a party sends
  MaxTime      \* bound: the clock

ASSUME RatchetAssumption ==
  {MaxSkip, MaxStored, MaxAge, MaxMsgs, MaxTime} \subseteq Nat

VARIABLES
  state,       \* the RatchetState of each party
  sent,        \* every message ever sent
  got,         \* history: the messages each party has decrypted
  forgotten,   \* history: skipped keys a party evicted or let expire
  now

vars == <<state, sent, got, forgotten, now>>

Party == {"alice", "bob"}
Peer(p) == IF p = "alice" THEN "bob" ELSE "alice"

KeyPair(p, i) == <<p, i>>
DH(k1, k2) == {k1, k2}

(* The chain key a receiver starts its sending side with: 32 zero bytes.   *)
ZeroChain == [root |-> <<{}>>, pos |-> 0]

(* What X3DH left the two parties: initSenderRatchet makes the first DH    *)
(* step against the responder's signed pre-key, initReceiverRatchet uses   *)
(* that pre-key as its first key pair.                                     *)
Spk == KeyPair("bob", 0)

SenderRatchet ==
  LET root == <<DH(KeyPair("alice", 1), Spk)>>
  IN [root |-> root,
      send |-> [root |-> root, pos |-> 0], recv |-> [root |-> <<>>, pos |-> 0],
      pair |-> 1, peer |-> Spk, ns |-> 0, nr |-> 0, pn |-> 0, skipped |-> <<>>]

ReceiverRatchet ==
  [root |-> <<>>, send |-> ZeroChain, recv |-> [root |-> <<>>, pos |-> 0],
   pair |-> 0, peer |-> Spk, ns |-> 0, nr |-> 0, pn |-> 0, skipped |-> <<>>]

Init ==
  /\ state = [p \in Party |-> IF p = "alice" THEN SenderRatchet ELSE ReceiverRatchet]
  /\ sent = {}
  /\ got = [p \in Party |-> {}]
  /\ forgotten = [p \in Party |-> {}]
  /\ now = 0

-----------------------------------------------------------------------------
(* Sending.                                                                *)

Next1(chain) == [chain EXCEPT !.pos = @ + 1]

Message(p) ==
  LET s == state[p]
  IN [from |-> p, dh |-> KeyPair(p, s.pair), n |-> s.ns, pn |-> s.pn,
      key |-> s.send]

(* A plausible bug: the sending chain key is not replaced.                 *)
EncryptKeepsChain(p) ==
  /\ state[p].send # ZeroChain
  /\ Cardinality({m \in sent : m.from = p}) < MaxMsgs
  /\ sent' = sent \cup {Message(p)}
  /\ state' = [state EXCEPT ![p].ns = @ + 1]
  /\ UNCHANGED <<got, forgotten, now>>

(* ratchetEncrypt: refused on the zero chain.                              *)
Encrypt(p) ==
  /\ state[p].send # ZeroChain
  /\ Cardinality({m \in sent : m.from = p}) < MaxMsgs
  /\ sent' = sent \cup {Message(p)}
  /\ state' = [state EXCEPT ![p].send = Next1(@), ![p].ns = @ + 1]
  /\ UNCHANGED <<got, forgotten, now>>

-----------------------------------------------------------------------------
(* Receiving: operators on a RatchetState record s.                        *)

(* skipMessageKeys refuses a jump longer than MaxSkip.                     *)
TooFar(s, until) == until - s.nr > MaxSkip

(* The keys it records on the way to `until`, and the chain there.         *)
SkippedTo(s, until) ==
  [i \in 1..(until - s.nr) |->
     [dh |-> s.peer, n |-> s.nr + i - 1, at |-> now,
      key |-> [s.recv EXCEPT !.pos = @ + i - 1]]]

Skip(s, until) ==
  IF until <= s.nr THEN s
  ELSE [s EXCEPT !.recv.pos = @ + (until - s.nr), !.nr = until,
                 !.skipped = @ \o SkippedTo(s, until)]

(* A plausible bug: the length of the chain that ends is not remembered.   *)
DhStepKeepsPn(s, p, dh) ==
  LET root1 == Append(s.root, DH(KeyPair(p, s.pair), dh))
      root2 == Append(root1, DH(KeyPair(p, s.pair + 1), dh))
  IN [s EXCEPT !.root = root2,
               !.recv = [root |-> root1, pos |-> 0],
               !.send = [root |-> root2, pos |-> 0],
               !.pair = @ + 1, !.peer = dh, !.ns = 0, !.nr = 0]

(* dhRatchetStep: a receiving chain from our old pair, a new pair, a       *)
(* sending chain from the new one.                                         *)
DhStep(s, p, dh) ==
  LET root1 == Append(s.root, DH(KeyPair(p, s.pair), dh))
      root2 == Append(root1, DH(KeyPair(p, s.pair + 1), dh))
  IN [s EXCEPT !.root = root2,
               !.recv = [root |-> root1, pos |-> 0],
               !.send = [root |-> root2, pos |-> 0],
               !.pair = @ + 1, !.peer = dh, !.pn = s.ns, !.ns = 0, !.nr = 0]

(* The entry that a message's id names; ids are unique.                    *)
StoredFor(s, m) == {e \in ToSet(s.skipped) : e.dh = m.dh /\ e.n = m.n}

(* What is left of a store in its order, that of the insertions.           *)
Only(store, entries) ==
  LET left[i \in 0..Len(store)] ==
        IF i = 0 THEN <<>>
        ELSE IF store[i] \in entries THEN Append(left[i - 1], store[i]) ELSE left[i - 1]
  IN left[Len(store)]

WithoutStored(s, m) == Only(s.skipped, ToSet(s.skipped) \ StoredFor(s, m))

(* commitSkipped: drop what is too old, then the oldest beyond MaxStored.  *)
Young(store) == Only(store, {e \in ToSet(store) : e.at >= now - MaxAge})

(* Plausible bugs: the count bound is forgotten; the newest keys go.       *)
CommitUnbounded(store) == Young(store)

CommitEvictsNewest(store) ==
  SubSeq(Young(store), 1, IF Len(Young(store)) > MaxStored THEN MaxStored
                          ELSE Len(Young(store)))

Commit(store) ==
  LET extra == Len(Young(store)) - MaxStored
  IN IF extra > 0 THEN SubSeq(Young(store), extra + 1, Len(Young(store)))
     ELSE Young(store)

(* The snapshot on which a message that has no stored key is tried.        *)
Snapshot(s, p, m) ==
  IF m.dh = s.peer THEN Skip(s, m.n)
  ELSE Skip(DhStep(Skip(s, m.pn), p, m.dh), m.n)

(* The guards on the way: no jump too long, no position already passed.    *)
Refused(s, p, m) ==
  IF m.dh = s.peer THEN m.n < s.nr \/ TooFar(s, m.n)
  ELSE TooFar(s, m.pn) \/ m.n > MaxSkip

(* Whether ratchetDecrypt returns the plaintext of m to p, and the state   *)
(* it commits; when it throws the state stays as it was.                   *)
Decrypts(p, m) ==
  LET s == state[p]
  IN IF StoredFor(s, m) # {} THEN \E e \in StoredFor(s, m) : e.key = m.key
     ELSE ~Refused(s, p, m) /\ Snapshot(s, p, m).recv = m.key

(* Plausible bugs: a stored key survives its use; the chain is not moved   *)
(* past the key just used.                                                 *)
AfterKeepsChain(p, m) ==
  LET s == state[p]
  IN IF StoredFor(s, m) # {}
     THEN [s EXCEPT !.skipped = WithoutStored(s, m)]
     ELSE [Snapshot(s, p, m) EXCEPT !.nr = @ + 1]

AfterKeepsUsedKey(p, m) ==
  LET s == state[p]
      t == Snapshot(s, p, m)
  IN IF StoredFor(s, m) # {} THEN s
     ELSE [t EXCEPT !.recv = Next1(@), !.nr = @ + 1]

After(p, m) ==
  LET s == state[p]
      t == Snapshot(s, p, m)
  IN IF StoredFor(s, m) # {}
     THEN [s EXCEPT !.skipped = WithoutStored(s, m)]
     ELSE [t EXCEPT !.recv = Next1(@), !.nr = @ + 1]

Ids(store) == {<<e.dh, e.n>> : e \in ToSet(store)}

(* Any message sent to p arrives, for the first time or again.             *)
Decrypt(p, m) ==
  /\ m.from = Peer(p)
  /\ Decrypts(p, m)
  /\ LET kept == Commit(After(p, m).skipped)
     IN /\ state' = [state EXCEPT ![p] = [After(p, m) EXCEPT !.skipped = kept]]
        /\ forgotten' = [forgotten EXCEPT
                           ![p] = @ \cup (Ids(After(p, m).skipped) \ Ids(kept))]
  /\ got' = [got EXCEPT ![p] = @ \cup {m}]
  /\ UNCHANGED <<sent, now>>

Tick == now < MaxTime /\ now' = now + 1 /\ UNCHANGED <<state, sent, got, forgotten>>

Next ==
  \/ \E p \in Party : Encrypt(p) \/ \E m \in sent : Decrypt(p, m)
  \/ Tick

Spec == Init /\ [][Next]_vars

-----------------------------------------------------------------------------

IsKeyPair(k) == k \in Party \X Nat
IsRoot(r) == \A i \in 1..Len(r) : \A k \in r[i] : IsKeyPair(k)
IsChain(c) == IsRoot(c.root) /\ c.pos \in Nat

TypeOK ==
  /\ \A p \in Party :
       LET s == state[p]
       IN /\ IsRoot(s.root) /\ IsChain(s.send) /\ IsChain(s.recv)
          /\ {s.pair, s.ns, s.nr, s.pn} \subseteq Nat
          /\ IsKeyPair(s.peer)
          /\ Len(s.skipped) <= MaxStored
          /\ \A e \in ToSet(s.skipped) :
               IsKeyPair(e.dh) /\ e.n \in Nat /\ IsChain(e.key) /\ e.at \in 0..now
          /\ got[p] \subseteq sent
  /\ \A m \in sent : m.from \in Party /\ IsKeyPair(m.dh) /\ {m.n, m.pn} \subseteq Nat
  /\ now \in 0..MaxTime

(* "Each key is deleted the moment it is used, so a replay cannot decrypt  *)
(* twice" (ratchet.ts): whatever was lost, late or repeated, a party never *)
(* again opens a message that it has opened.                               *)
ReplayRefused == \A p \in Party : \A m \in got[p] : ~Decrypts(p, m)

(* Forward secrecy: a party that has sent or opened a message holds        *)
(* neither its key nor the chain key from which it could be derived again. *)
UsedKeysErased ==
  \A p \in Party :
    LET s == state[p]
        Holds(key) ==
          \/ \E e \in ToSet(s.skipped) : e.key = key
          \/ \E c \in {s.recv, s.send} : c.root = key.root /\ c.pos <= key.pos
    IN \A m \in got[p] \cup {x \in sent : x.from = p} : ~Holds(m.key)

(* The length of the jump m makes its receiver take is within MaxSkip.     *)
WithinReach(p, m) ==
  LET s == state[p]
  IN IF m.dh = s.peer THEN ~TooFar(s, m.n)
     ELSE ~TooFar(s, m.pn) /\ m.n <= MaxSkip

(* A message not opened yet opens in the present state, whatever came      *)
(* before it, unless its key was evicted, has expired or lies too far      *)
(* ahead: loss, reordering and repetition cost no other message.           *)
UnreadStaysReadable ==
  \A p \in Party : \A m \in sent :
    m.from = Peer(p) /\ m \notin got[p] =>
      \/ Decrypts(p, m)
      \/ <<m.dh, m.n>> \in forgotten[p]
      \/ ~WithinReach(p, m)

(* Eviction takes the oldest keys: a key is forgotten for a newer one of   *)
(* its chain, or for its age, never the other way round.                   *)
OldestForgottenFirst ==
  \A p \in Party : \A e \in ToSet(state[p].skipped) :
    \A id \in forgotten[p] : id[1] = e.dh => id[2] < e.n

(* No two messages are ever encrypted under the same key.                  *)
MessageKeysDistinct == \A m, x \in sent : m.key = x.key => m = x
=============================================================================
