----------------------------- MODULE RatchetProofs -----------------------------
(***************************************************************************)
(* The double ratchet, for any number of messages, any order of arrival,   *)
(* any losses and repetitions, and any limits.  Key pairs are counted in   *)
(* the order in which their owners send under them; a party's root, chains *)
(* and store then follow from where it is in this order, and what it can   *)
(* open, has erased or has forgotten follows from its place in a chain.    *)
(***************************************************************************)
EXTENDS Ratchet, SequenceTheorems, WellFoundedInduction, TLAPS

-----------------------------------------------------------------------------
(* Only: an operator defined by recursion on a sequence.                   *)

(* Induction, in the form the provers can use: a set of numbers without a  *)
(* smallest element is empty.                                              *)
LEMMA NoLeast ==
  ASSUME NEW B \in SUBSET Nat, 0 \notin B, \A n \in Nat : n + 1 \in B => n \in B
  PROVE  B = {}
  <1>1. SUFFICES ASSUME B # {} PROVE FALSE
    OBVIOUS
  <1>2. PICK x \in B : \A y \in B : ~(<<y, x>> \in OpToRel(<, Nat))
    BY <1>1, NatLessThanWellFounded, WFMin
  <1>3. \A y \in B : ~(y < x)
    <2>1. \A y \in B : <<y, x>> \in Nat \X Nat
      OBVIOUS
    <2> QED
      BY <1>2, <2>1, Zenon DEF OpToRel
  <1>4. x \in Nat /\ x # 0
    BY Zenon
  <1>5. x - 1 \in Nat /\ (x - 1) + 1 = x /\ x - 1 < x
    BY <1>4, SMT
  <1> HIDE <1>2
  <1>6. x - 1 \in B
    BY <1>5, Zenon
  <1> QED
    BY <1>3, <1>5, <1>6, Zenon

(* The recursion that defines Only has a solution.                         *)
Left(f, s, T, n) ==
  f = [i \in 0..n |-> IF i = 0 THEN << >>
                      ELSE IF s[i] \in T THEN Append(f[i - 1], s[i]) ELSE f[i - 1]]

LEMMA LeftExists ==
  ASSUME NEW s, NEW T, NEW n \in Nat
  PROVE  \E f : Left(f, s, T, n)
  <1> DEFINE B == {k \in Nat : ~ \E f : Left(f, s, T, k)}
  <1>1. 0 \notin B
    <2>1. Left([i \in 0..0 |-> << >>], s, T, 0)
      BY DEF Left
    <2> QED
      BY <2>1
  <1>2. ASSUME NEW k \in Nat, k \notin B PROVE k + 1 \notin B
    <2>1. PICK f : Left(f, s, T, k)
      BY <1>2
    <2> DEFINE next == IF s[k + 1] \in T THEN Append(f[k], s[k + 1]) ELSE f[k]
               g == [i \in 0..(k + 1) |-> IF i <= k THEN f[i] ELSE next]
    <2>2. \A i \in 0..k : f[i] = IF i = 0 THEN << >>
                      ELSE IF s[i] \in T THEN Append(f[i - 1], s[i]) ELSE f[i - 1]
      BY <2>1 DEF Left
    <2>3. ASSUME NEW i \in 0..(k + 1)
          PROVE  g[i] = IF i = 0 THEN << >>
                        ELSE IF s[i] \in T THEN Append(g[i - 1], s[i]) ELSE g[i - 1]
      <3>1. CASE i = k + 1
        <4>1. g[i] = next /\ g[i - 1] = f[k] /\ i # 0
          BY <3>1
        <4> QED
          BY <3>1, <4>1
      <3>2. CASE i = 0
        BY <2>2, <3>2
      <3>3. CASE i \in 1..k
        <4>1. g[i] = f[i] /\ g[i - 1] = f[i - 1] /\ i \in 0..k /\ i # 0
          BY <3>3
        <4> QED
          BY <2>2, <4>1
      <3> QED
        BY <3>1, <3>2, <3>3
    <2>4. Left(g, s, T, k + 1)
      BY <2>3 DEF Left
    <2> QED
      BY <2>4
  <1>3. B = {}
    BY <1>1, <1>2, NoLeast
  <1> QED
    BY <1>3

LEMMA OnlyLeft ==
  ASSUME NEW X, NEW s \in Seq(X), NEW T
  PROVE  \E f : /\ f[0] = << >> /\ Only(s, T) = f[Len(s)]
               /\ \A i \in 1..Len(s) :
                    f[i] = IF s[i] \in T THEN Append(f[i - 1], s[i]) ELSE f[i - 1]
  <1> DEFINE left == CHOOSE f : Left(f, s, T, Len(s))
  <1>1. Len(s) \in Nat
    BY LenProperties
  <1>2. Left(left, s, T, Len(s))
    BY <1>1, LeftExists
  <1>3. Only(s, T) = left[Len(s)]
    BY DEF Only, Left
  <1> HIDE DEF left
  <1>4. left[0] = << >>
    BY <1>1, <1>2 DEF Left
  <1>5. ASSUME NEW i \in 1..Len(s)
        PROVE  left[i] = IF s[i] \in T THEN Append(left[i - 1], s[i]) ELSE left[i - 1]
    <2>1. i \in 0..Len(s) /\ i # 0
      BY <1>1
    <2> QED
      BY <1>2, <2>1 DEF Left
  <1> QED
    BY <1>3, <1>4, <1>5

(* What is left are the entries in question, in the order they had.        *)
Picks(h, t, s, n, T) ==
  /\ h \in [1..Len(t) -> 1..n]
  /\ \A i, j \in 1..Len(t) : i < j => h[i] < h[j]
  /\ \A i \in 1..Len(t) : t[i] = s[h[i]] /\ s[h[i]] \in T
  /\ \A k \in 1..n : s[k] \in T => \E i \in 1..Len(t) : h[i] = k

LEMMA PicksNext ==
  ASSUME NEW X, NEW s \in Seq(X), NEW T, NEW n \in Nat, n + 1 <= Len(s),
         NEW t \in Seq(X), NEW h, Picks(h, t, s, n, T),
         NEW u, u = IF s[n + 1] \in T THEN Append(t, s[n + 1]) ELSE t
  PROVE  u \in Seq(X) /\ \E g : Picks(g, u, s, n + 1, T)
  <1>1. Len(t) \in Nat /\ s[n + 1] \in X
    BY LenProperties, ElementOfSeq
  <1>2. CASE s[n + 1] \notin T
    <2>1. Picks(h, t, s, n + 1, T)
      BY <1>1, <1>2 DEF Picks
    <2> QED
      BY <1>2, <2>1
  <1>3. CASE s[n + 1] \in T
    <2> DEFINE g == [i \in 1..(Len(t) + 1) |-> IF i <= Len(t) THEN h[i] ELSE n + 1]
    <2>1. /\ u \in Seq(X) /\ Len(u) = Len(t) + 1 /\ u[Len(t) + 1] = s[n + 1]
          /\ \A i \in 1..Len(t) : u[i] = t[i]
      BY <1>1, <1>3, AppendProperties
    <2>2. g \in [1..Len(u) -> 1..(n + 1)]
      BY <1>1, <2>1 DEF Picks
    <2>3. ASSUME NEW i \in 1..Len(u), NEW j \in 1..Len(u), i < j PROVE g[i] < g[j]
      <3>1. /\ i \in 1..Len(t) /\ g[i] = h[i] /\ h[i] \in 1..n
            /\ g[j] = IF j <= Len(t) THEN h[j] ELSE n + 1
        BY <1>1, <2>1, <2>3 DEF Picks
      <3>2. CASE j <= Len(t)
        <4>1. j \in 1..Len(t) /\ h[i] < h[j]
          BY <1>1, <2>1, <2>3, <3>1, <3>2 DEF Picks
        <4> QED
          BY <3>1, <3>2, <4>1
      <3>3. CASE ~(j <= Len(t))
        BY <3>1, <3>3
      <3> QED
        BY <3>2, <3>3
    <2>4. \A i \in 1..Len(u) : u[i] = s[g[i]] /\ s[g[i]] \in T
      BY <1>1, <1>3, <2>1 DEF Picks
    <2>5. ASSUME NEW k \in 1..(n + 1), s[k] \in T PROVE \E i \in 1..Len(u) : g[i] = k
      <3>1. CASE k = n + 1
        <4>1. Len(t) + 1 \in 1..Len(u) /\ g[Len(t) + 1] = n + 1
          BY <1>1, <2>1
        <4> QED
          BY <3>1, <4>1
      <3>2. CASE k # n + 1
        <4>1. PICK i \in 1..Len(t) : h[i] = k
          BY <2>5, <3>2 DEF Picks
        <4>2. i \in 1..Len(u) /\ g[i] = k
          BY <1>1, <2>1, <4>1
        <4> QED
          BY <4>2
      <3> QED
        BY <3>1, <3>2
    <2>6. Picks(g, u, s, n + 1, T)
      BY <2>2, <2>3, <2>4, <2>5 DEF Picks
    <2> QED
      BY <2>1, <2>6
  <1> QED
    BY <1>2, <1>3

LEMMA OnlyPicks ==
  ASSUME NEW X, NEW s \in Seq(X), NEW T
  PROVE  Only(s, T) \in Seq(X) /\ \E h : Picks(h, Only(s, T), s, Len(s), T)
  <1>1. PICK f : /\ f[0] = << >> /\ Only(s, T) = f[Len(s)]
                 /\ \A i \in 1..Len(s) :
                      f[i] = IF s[i] \in T THEN Append(f[i - 1], s[i]) ELSE f[i - 1]
    BY OnlyLeft
  <1>2. Len(s) \in Nat
    BY LenProperties
  <1> DEFINE Good(n) == f[n] \in Seq(X) /\ \E h : Picks(h, f[n], s, n, T)
             B == {n \in Nat : n <= Len(s) /\ ~Good(n)}
  <1>3. 0 \notin B
    <2>1. Picks(<< >>, << >>, s, 0, T)
      BY DEF Picks
    <2> QED
      BY <1>1, <2>1, EmptySeq
  <1>4. ASSUME NEW n \in Nat, n \notin B PROVE n + 1 \notin B
    <2>1. SUFFICES ASSUME n + 1 <= Len(s) PROVE Good(n + 1)
      OBVIOUS
    <2>2. f[n] \in Seq(X) /\ \E h : Picks(h, f[n], s, n, T)
      BY <1>2, <1>4, <2>1
    <2>3. f[n + 1] = IF s[n + 1] \in T THEN Append(f[n], s[n + 1]) ELSE f[n]
      BY <1>1, <1>2, <2>1
    <2> QED
      BY <2>1, <2>2, <2>3, PicksNext
  <1>5. B = {}
    BY <1>3, <1>4, NoLeast
  <1>6. Good(Len(s))
    BY <1>2, <1>5
  <1> QED
    BY <1>1, <1>6

-----------------------------------------------------------------------------
(* Key pairs in the order in which their owners send under them: an epoch  *)
(* is a sending chain, and its root has one more Diffie-Hellman output     *)
(* than the root of the one before.                                        *)

KeyPairs == Party \X Nat
Epoch(k) == IF k[1] = "alice" THEN 2 * k[2] - 1 ELSE 2 * k[2]
Mixed(n) == {k \in KeyPairs : IF k[1] = "alice" THEN 2 * k[2] \in {n, n + 1}
                                                ELSE 2 * k[2] \in {n - 1, n}}
Root(n) == [i \in 1..n |-> Mixed(i)]
ChainAt(n, pos) == [root |-> Root(n), pos |-> pos]

(* The epoch in which a party with the state s sends.                      *)
Own(p, s) == Epoch(KeyPair(p, s.pair))

Roots == Seq(SUBSET KeyPairs)
Chains == [root : Roots, pos : Nat]
Entries == [dh : KeyPairs, n : Nat, at : Nat, key : Chains]
RatchetStates ==
  [root : Roots, send : Chains, recv : Chains, pair : Nat, peer : KeyPairs,
   ns : Nat, nr : Nat, pn : Nat, skipped : Seq(Entries)]
Messages == [from : Party, dh : KeyPairs, n : Nat, pn : Nat, key : Chains]

Shape ==
  /\ state \in [Party -> RatchetStates] /\ now \in 0..MaxTime
  /\ sent \subseteq Messages /\ got \in [Party -> SUBSET Messages]
  /\ forgotten \in [Party -> SUBSET (KeyPairs \X Nat)]

(* A party's chains hang from the roots of two epochs in succession, and   *)
(* its peer's key pair is that of the earlier one.                         *)
OnCourse(p, s) ==
  /\ Own(p, s) >= 0
  /\ s.root = Root(Own(p, s))
  /\ s.send = IF Own(p, s) = 0 THEN ZeroChain ELSE ChainAt(Own(p, s), s.ns)
  /\ s.recv = ChainAt(Own(p, s) - 1, s.nr)
  /\ Own(p, s) > 0 => s.peer[1] = Peer(p) /\ Epoch(s.peer) = Own(p, s) - 1
  /\ Own(p, s) = 0 => s.peer = Spk /\ s.nr = 0 /\ s.ns = 0
  /\ Own(p, s) <= 2 => s.pn = 0

(* Two parties are one epoch apart, and the receiver has not read further  *)
(* than the sender, in state u, has written.                               *)
InStep(p, s, u) ==
  /\ Own(Peer(p), u) \in {Own(p, s) - 1, Own(p, s) + 1}
  /\ Own(Peer(p), u) = Own(p, s) - 1 => s.nr <= u.ns

(* A message of a party in state s carries the key of its place.           *)
Written(m, s) ==
  /\ m.dh[1] = m.from /\ 1 <= Epoch(m.dh) /\ Epoch(m.dh) <= Own(m.from, s)
  /\ m.key = ChainAt(Epoch(m.dh), m.n)
  /\ Epoch(m.dh) <= 2 => m.pn = 0
  /\ m.dh[2] = s.pair => m.n < s.ns /\ m.pn = s.pn
  /\ m.dh[2] + 1 = s.pair => m.n < s.pn

(* What the later messages of a party say of the earlier ones.             *)
Counted(m, x) ==
  m.from = x.from =>
    /\ m.dh = x.dh => m.pn = x.pn
    /\ m.dh[2] + 1 = x.dh[2] => m.n < x.pn

(* A place in a chain that the receiver's own position is beyond.          *)
Passed(p, s, dh, n) ==
  \/ Epoch(dh) < Own(p, s) - 1
  \/ Epoch(dh) = Own(p, s) - 1 /\ n < s.nr

Before(e, f) == Epoch(e.dh) < Epoch(f.dh) \/ (e.dh = f.dh /\ e.n < f.n)
InOrder(store) ==
  \A i, j \in 1..Len(store) : i < j => Before(store[i], store[j]) /\ store[i].at <= store[j].at

(* A stored key is that of a place that was passed.                        *)
KeyOfPassed(p, s, e) ==
  /\ e.dh[1] = Peer(p) /\ 1 <= Epoch(e.dh) /\ Passed(p, s, e.dh, e.n)
  /\ e.key = ChainAt(Epoch(e.dh), e.n) /\ e.at <= now

HasKey(store, dh, n) == \E e \in ToSet(store) : e.dh = dh /\ e.n = n

Stored(p, s) == InOrder(s.skipped) /\ \A e \in ToSet(s.skipped) : KeyOfPassed(p, s, e)

Opened(p, s) ==
  \A m \in got[p] :
    m \in sent /\ m.from = Peer(p) /\ Passed(p, s, m.dh, m.n) /\ ~HasKey(s.skipped, m.dh, m.n)

Lost(p, s) ==
  \A id \in forgotten[p] :
    /\ Passed(p, s, id[1], id[2])
    /\ \A e \in ToSet(s.skipped) : id[1] = e.dh => id[2] < e.n

(* A passed message that was not opened has left its key.                  *)
Missed(p, s) ==
  \A m \in sent : m.from = Peer(p) /\ m \notin got[p] /\ Passed(p, s, m.dh, m.n) =>
    HasKey(s.skipped, m.dh, m.n) \/ <<m.dh, m.n>> \in forgotten[p]

Courses == \A p \in Party : OnCourse(p, state[p]) /\ InStep(p, state[p], state[Peer(p)])
Letters ==
  /\ \A m \in sent : Written(m, state[m.from])
  /\ \A m, x \in sent : Counted(m, x)
StoreOf(p) ==
  /\ Stored(p, state[p]) /\ Len(state[p].skipped) <= MaxStored
  /\ Opened(p, state[p]) /\ Lost(p, state[p]) /\ Missed(p, state[p])
Stores == \A p \in Party : StoreOf(p)

RatchetInv == Shape /\ Courses /\ Letters /\ Stores

-----------------------------------------------------------------------------
(* Epochs and roots.                                                       *)

LEMMA PeerFacts == \A p \in Party : Peer(p) \in Party /\ Peer(p) # p /\ Peer(Peer(p)) = p
  BY DEF Party, Peer

(* The peer's epochs are the odd ones or the even ones.                    *)
LEMMA EpochFacts ==
  /\ \A k \in KeyPairs : Epoch(k) \in Int /\ Epoch(k) >= -1
  /\ \A k, l \in KeyPairs : k[1] = l[1] =>
       /\ Epoch(k) = Epoch(l) <=> k = l
       /\ k[2] + 1 = l[2] <=> Epoch(k) + 2 = Epoch(l)
       /\ Epoch(k) + 1 # Epoch(l)
  /\ \A k, l \in KeyPairs : k[1] # l[1] => Epoch(k) # Epoch(l) /\ Epoch(k) # Epoch(l) + 2
  <1>1. \A k \in KeyPairs : k = <<k[1], k[2]>> /\ k[1] \in Party /\ k[2] \in Nat
    BY DEF KeyPairs
  <1>2. \A k \in KeyPairs :
          \/ k[1] = "alice" /\ Epoch(k) = 2 * k[2] - 1
          \/ k[1] = "bob" /\ Epoch(k) = 2 * k[2]
    BY <1>1 DEF Party, Epoch
  <1>3. \A k \in KeyPairs : Epoch(k) \in Int /\ Epoch(k) >= -1
    BY <1>1, <1>2
  <1>4. ASSUME NEW k \in KeyPairs, NEW l \in KeyPairs, k[1] = l[1]
        PROVE  /\ Epoch(k) = Epoch(l) <=> k = l
               /\ k[2] + 1 = l[2] <=> Epoch(k) + 2 = Epoch(l)
               /\ Epoch(k) + 1 # Epoch(l)
    <2>1. k[2] = l[2] <=> Epoch(k) = Epoch(l)
      BY <1>1, <1>2, <1>4
    <2>2. k[2] = l[2] => k = l
      BY <1>1, <1>4
    <2>3. k[2] + 1 = l[2] <=> Epoch(k) + 2 = Epoch(l)
      BY <1>1, <1>2, <1>4
    <2>4. Epoch(k) + 1 # Epoch(l)
      BY <1>1, <1>2, <1>4
    <2> QED
      BY <2>1, <2>2, <2>3, <2>4
  <1>5. ASSUME NEW k \in KeyPairs, NEW l \in KeyPairs, k[1] # l[1]
        PROVE  Epoch(k) # Epoch(l) /\ Epoch(k) # Epoch(l) + 2
    BY <1>1, <1>2, <1>5
  <1> QED
    BY <1>3, <1>4, <1>5

LEMMA OwnFacts ==
  ASSUME NEW p \in Party, NEW s, s.pair \in Nat
  PROVE  /\ KeyPair(p, s.pair) \in KeyPairs /\ Own(p, s) \in Int
         /\ KeyPair(p, s.pair + 1) \in KeyPairs
         /\ Epoch(KeyPair(p, s.pair + 1)) = Own(p, s) + 2
         /\ KeyPair(p, s.pair)[1] = p /\ KeyPair(p, s.pair)[2] = s.pair
  BY DEF KeyPairs, KeyPair, Own, Epoch

LEMMA RootFacts ==
  ASSUME NEW n \in Int
  PROVE  /\ Root(n) \in Roots /\ (n >= 0 => Len(Root(n)) = n) /\ (n < 0 => Len(Root(n)) = 0)
         /\ \A i \in 1..n : Root(n)[i] = Mixed(i)
  <1>1. \A i \in Int : Mixed(i) \in SUBSET KeyPairs
    BY DEF Mixed
  <1>2. CASE n >= 0
    <2>1. Root(n) \in [1..n -> SUBSET KeyPairs]
      BY <1>1 DEF Root
    <2>2. Root(n) \in Seq(SUBSET KeyPairs)
      BY <1>2, <2>1, SeqDef
    <2> QED
      BY <1>2, <2>1, <2>2, LenProperties DEF Roots, Root
  <1>3. CASE n < 0
    <2>1. Root(n) = << >>
      BY <1>3 DEF Root
    <2> QED
      BY <1>3, <2>1, EmptySeq DEF Roots
  <1> QED
    BY <1>2, <1>3

LEMMA RootInjective ==
  ASSUME NEW n \in Int, NEW k \in Int, n >= 1, Root(n) = Root(k)
  PROVE  n = k
  BY RootFacts

LEMMA RootNext ==
  ASSUME NEW n \in Nat
  PROVE  /\ Append(Root(n), Mixed(n + 1)) = Root(n + 1)
         /\ \A x \in SUBSET KeyPairs, k \in Int : Append(Root(n), x) = Root(k) => k = n + 1
  <1>1. Mixed(n + 1) \in SUBSET KeyPairs /\ Root(n) \in Seq(SUBSET KeyPairs) /\ Len(Root(n)) = n
    BY RootFacts DEF Mixed, Roots
  <1>2. Append(Root(n), Mixed(n + 1)) = Root(n + 1)
    <2>1. /\ Append(Root(n), Mixed(n + 1)) \in Seq(SUBSET KeyPairs)
          /\ Len(Append(Root(n), Mixed(n + 1))) = n + 1
          /\ \A i \in 1..n : Append(Root(n), Mixed(n + 1))[i] = Root(n)[i]
          /\ Append(Root(n), Mixed(n + 1))[n + 1] = Mixed(n + 1)
      BY <1>1, AppendProperties
    <2>2. /\ Root(n + 1) \in Seq(SUBSET KeyPairs) /\ Len(Root(n + 1)) = n + 1
          /\ \A i \in 1..(n + 1) : Root(n + 1)[i] = Mixed(i)
      BY RootFacts DEF Roots
    <2>3. \A i \in 1..n : Root(n)[i] = Mixed(i)
      BY RootFacts
    <2>4. \A i \in 1..(n + 1) : Append(Root(n), Mixed(n + 1))[i] = Root(n + 1)[i]
      BY <2>1, <2>2, <2>3
    <2> QED
      BY <2>1, <2>2, <2>4, SeqEqual
  <1>3. ASSUME NEW x \in SUBSET KeyPairs, NEW k \in Int, Append(Root(n), x) = Root(k)
        PROVE  k = n + 1
    <2>1. Len(Root(k)) = n + 1
      BY <1>1, <1>3, AppendProperties
    <2> QED
      BY <2>1, RootFacts
  <1> QED
    BY <1>2, <1>3

(* The output that opens an epoch is made from its own pair and the pair   *)
(* of the epoch before.                                                    *)
LEMMA MixedPair ==
  ASSUME NEW k \in KeyPairs, NEW l \in KeyPairs, k[1] # l[1], Epoch(l) = Epoch(k) + 1
  PROVE  Mixed(Epoch(l)) = {k, l}
  <1>1. \A x \in KeyPairs : x = <<x[1], x[2]>> /\ x[1] \in Party /\ x[2] \in Nat
    BY DEF KeyPairs
  <1>2. ASSUME NEW x \in Mixed(Epoch(l)) PROVE x \in {k, l}
    <2>1. x \in KeyPairs
      BY <1>2 DEF Mixed
    <2>2. CASE l[1] = "alice"
      <3>1. k[1] = "bob" /\ 2 * l[2] - 1 = 2 * k[2] + 1
        BY <1>1, <2>2 DEF Party, Epoch
      <3>2. \/ x[1] = "alice" /\ 2 * x[2] \in {2 * l[2] - 1, 2 * l[2]}
            \/ x[1] = "bob" /\ 2 * x[2] \in {2 * l[2] - 2, 2 * l[2] - 1}
        BY <1>1, <1>2, <2>1, <2>2 DEF Mixed, Party, Epoch
      <3>3. (x[1] = l[1] /\ x[2] = l[2]) \/ (x[1] = k[1] /\ x[2] = k[2])
        BY <1>1, <2>1, <2>2, <3>1, <3>2
      <3> QED
        BY <1>1, <2>1, <3>3
    <2>3. CASE l[1] = "bob"
      <3>1. k[1] = "alice" /\ 2 * l[2] = 2 * k[2] - 1 + 1
        BY <1>1, <2>3 DEF Party, Epoch
      <3>2. \/ x[1] = "alice" /\ 2 * x[2] \in {2 * l[2], 2 * l[2] + 1}
            \/ x[1] = "bob" /\ 2 * x[2] \in {2 * l[2] - 1, 2 * l[2]}
        BY <1>1, <1>2, <2>1, <2>3 DEF Mixed, Party, Epoch
      <3>3. (x[1] = l[1] /\ x[2] = l[2]) \/ (x[1] = k[1] /\ x[2] = k[2])
        BY <1>1, <2>1, <2>3, <3>1, <3>2
      <3> QED
        BY <1>1, <2>1, <3>3
    <2> QED
      BY <1>1, <2>2, <2>3 DEF Party
  <1>3. k \in Mixed(Epoch(l)) /\ l \in Mixed(Epoch(l))
    BY DEF Mixed, KeyPairs, Party, Epoch
  <1> QED
    BY <1>2, <1>3

(* The zero chain is under no root.                                        *)
LEMMA ZeroIsNoChain == \A n \in Int : Root(n) # ZeroChain.root
  <1> SUFFICES ASSUME NEW n \in Int, Root(n) = <<{}>> PROVE FALSE
    BY DEF ZeroChain
  <1>1. Len(<<{}>>) = 1 /\ <<{}>>[1] = {}
    OBVIOUS
  <1>2. n = 1
    <2>1. Len(Root(n)) = 1 /\ (n >= 0 => Len(Root(n)) = n) /\ (n < 0 => Len(Root(n)) = 0)
      BY <1>1, RootFacts
    <2> QED
      BY <2>1
  <1>3. Mixed(1) = {}
    BY <1>1, <1>2, RootFacts
  <1>4. <<"alice", 1>> \in Mixed(1)
    BY DEF Mixed, KeyPairs, Party
  <1> QED
    BY <1>3, <1>4

-----------------------------------------------------------------------------
(* Stores.                                                                 *)

LEMMA InStore ==
  ASSUME NEW X, NEW s \in Seq(X)
  PROVE  /\ \A x : x \in ToSet(s) <=> \E i \in 1..Len(s) : s[i] = x
         /\ \A i \in 1..Len(s) : s[i] \in X /\ s[i] \in ToSet(s)
         /\ ToSet(s) \subseteq X /\ Len(s) \in Nat
  BY LenProperties, ElementOfSeq DEF ToSet

LEMMA OnlyEntries ==
  ASSUME NEW X, NEW s \in Seq(X), NEW T
  PROVE  Only(s, T) \in Seq(X) /\ ToSet(Only(s, T)) = ToSet(s) \cap T
  <1> DEFINE t == Only(s, T)
  <1>1. t \in Seq(X) /\ \E h : Picks(h, t, s, Len(s), T)
    BY OnlyPicks
  <1>2. PICK h : Picks(h, t, s, Len(s), T)
    BY <1>1
  <1> HIDE DEF t
  <1>3. ASSUME NEW x \in ToSet(t) PROVE x \in ToSet(s) \cap T
    <2>1. PICK i \in 1..Len(t) : t[i] = x
      BY <1>1, <1>3, InStore
    <2>2. h[i] \in 1..Len(s) /\ x = s[h[i]] /\ s[h[i]] \in T
      BY <1>2, <2>1 DEF Picks
    <2> QED
      BY <2>2, InStore
  <1>4. ASSUME NEW x \in ToSet(s) \cap T PROVE x \in ToSet(t)
    <2>1. PICK k \in 1..Len(s) : s[k] = x
      BY <1>4, InStore
    <2>2. PICK i \in 1..Len(t) : h[i] = k
      BY <1>2, <1>4, <2>1 DEF Picks
    <2>3. t[i] = x
      BY <1>2, <2>1, <2>2 DEF Picks
    <2> QED
      BY <1>1, <2>2, <2>3, InStore
  <1>5. ToSet(t) = ToSet(s) \cap T
    BY <1>3, <1>4
  <1> QED
    BY <1>1, <1>5 DEF t

LEMMA OnlyInOrder ==
  ASSUME NEW s \in Seq(Entries), NEW T, InOrder(s)
  PROVE  InOrder(Only(s, T))
  <1> DEFINE t == Only(s, T)
  <1>1. PICK h : Picks(h, t, s, Len(s), T)
    BY OnlyPicks
  <1> HIDE DEF t
  <1>2. ASSUME NEW i \in 1..Len(t), NEW j \in 1..Len(t), i < j
        PROVE  Before(t[i], t[j]) /\ t[i].at <= t[j].at
    <2>1. h[i] \in 1..Len(s) /\ h[j] \in 1..Len(s) /\ h[i] < h[j]
      BY <1>1, <1>2 DEF Picks
    <2>2. t[i] = s[h[i]] /\ t[j] = s[h[j]]
      BY <1>1 DEF Picks
    <2> QED
      BY <2>1, <2>2 DEF InOrder
  <1> QED
    BY <1>2 DEF InOrder, t

(* What a commit drops are old keys: every key that it keeps is newer.     *)
LEMMA CommitStore ==
  ASSUME NEW store \in Seq(Entries), InOrder(store), now \in Nat
  PROVE  /\ Commit(store) \in Seq(Entries) /\ Len(Commit(store)) <= MaxStored
         /\ InOrder(Commit(store)) /\ ToSet(Commit(store)) \subseteq ToSet(store)
         /\ \A f \in ToSet(store) \ ToSet(Commit(store)), e \in ToSet(Commit(store)) :
              Before(f, e)
  <1> DEFINE Y == Young(store)
             T == {e \in ToSet(store) : e.at >= now - MaxAge}
             extra == Len(Y) - MaxStored
             kept == Commit(store)
  <1>0. MaxStored \in Nat /\ MaxAge \in Nat
    BY RatchetAssumption
  <1>1. Y \in Seq(Entries) /\ ToSet(Y) = ToSet(store) \cap T /\ InOrder(Y)
    BY OnlyEntries, OnlyInOrder DEF Young
  <1>2. ASSUME NEW f \in ToSet(store), f \notin ToSet(Y), NEW e \in ToSet(Y)
        PROVE  Before(f, e)
    <2>1. PICK i \in 1..Len(store) : store[i] = f
      BY <1>2, InStore
    <2>2. PICK j \in 1..Len(store) : store[j] = e
      BY <1>1, <1>2, InStore
    <2>3. ~(f.at >= now - MaxAge) /\ e.at >= now - MaxAge
      BY <1>1, <1>2
    <2>4. f.at \in Nat /\ e.at \in Nat
      <3>1. f \in Entries /\ e \in Entries
        BY <2>1, <2>2, InStore
      <3> QED
        BY <3>1 DEF Entries
    <2>5. ~(e.at <= f.at)
      BY <1>0, <2>3, <2>4
    <2>6. ~(j < i) /\ i # j
      BY <2>1, <2>2, <2>4, <2>5 DEF InOrder
    <2>7. i < j
      BY <2>6, InStore
    <2> QED
      BY <2>1, <2>2, <2>7 DEF InOrder
  <1>3. kept = IF extra > 0 THEN SubSeq(Y, extra + 1, Len(Y)) ELSE Y
    BY DEF Commit
  <1> HIDE DEF Y, T, kept
  <1>4. Len(Y) \in Nat
    BY <1>1, LenProperties
  <1>5. CASE ~(extra > 0)
    <2>1. kept = Y /\ Len(Y) <= MaxStored
      BY <1>0, <1>3, <1>4, <1>5
    <2> QED
      BY <1>1, <1>2, <2>1 DEF kept
  <1>6. CASE extra > 0
    <2>1. kept = SubSeq(Y, extra + 1, Len(Y)) /\ extra + 1 \in 1..(Len(Y) + 1)
      BY <1>0, <1>3, <1>4, <1>6
    <2>2. /\ kept \in Seq(Entries) /\ Len(kept) = MaxStored
          /\ \A i \in 1..MaxStored : kept[i] = Y[extra + i]
      <3>1. extra + 1 \in 1..(Len(Y) + 1) /\ Len(Y) \in extra..Len(Y)
        BY <1>0, <1>4, <2>1
      <3>2. /\ kept \in Seq(Entries) 
            /\ Len(kept) = IF extra + 1 <= Len(Y) THEN Len(Y) - (extra + 1) + 1 ELSE 0
            /\ \A i \in 1..(Len(Y) - (extra + 1) + 1) : kept[i] = Y[extra + 1 + i - 1]
        BY <1>1, <2>1, <3>1, SubSeqProperties, Z3
      <3> QED
        BY <1>0, <1>4, <3>1, <3>2
    <2>3. ASSUME NEW i \in 1..MaxStored PROVE extra + i \in 1..Len(Y)
      BY <1>0, <1>4, <1>6
    <2>4. ToSet(kept) \subseteq ToSet(Y)
      <3>1. ASSUME NEW x \in ToSet(kept) PROVE x \in ToSet(Y)
        <4>1. PICK i \in 1..MaxStored : kept[i] = x
          BY <2>2, <3>1, InStore
        <4>2. extra + i \in 1..Len(Y) /\ Y[extra + i] = x
          BY <2>2, <2>3, <4>1
        <4> QED
          BY <1>1, <4>2, InStore
      <3> QED
        BY <3>1
    <2>5. InOrder(kept)
      <3>1. ASSUME NEW i \in 1..MaxStored, NEW j \in 1..MaxStored, i < j
            PROVE  Before(kept[i], kept[j]) /\ kept[i].at <= kept[j].at
        <4>1. extra + i < extra + j
          BY <1>0, <1>4, <3>1
        <4> QED
          BY <1>1, <2>2, <2>3, <4>1 DEF InOrder
      <3> QED
        BY <2>2, <3>1 DEF InOrder
    <2>6. ASSUME NEW f \in ToSet(Y), f \notin ToSet(kept), NEW e \in ToSet(kept)
          PROVE  Before(f, e)
      <3>1. PICK i \in 1..Len(Y) : Y[i] = f
        BY <1>1, <2>6, InStore
      <3>2. PICK j \in 1..MaxStored : kept[j] = e
        BY <2>2, <2>6, InStore
      <3>3. ~(extra < i)
        <4>1. SUFFICES ASSUME extra < i PROVE FALSE
          OBVIOUS
        <4>2. i - extra \in 1..MaxStored /\ extra + (i - extra) = i
          BY <1>0, <1>4, <4>1
        <4>3. kept[i - extra] = f
          BY <2>2, <3>1, <4>2
        <4> QED
          BY <2>2, <2>6, <4>2, <4>3, InStore
      <3>4. extra + j \in 1..Len(Y) /\ i < extra + j /\ Y[extra + j] = e
        BY <1>0, <1>4, <2>2, <2>3, <3>2, <3>3
      <3> QED
        BY <1>1, <3>1, <3>4 DEF InOrder
    <2>7. ASSUME NEW f \in ToSet(store) \ ToSet(kept), NEW e \in ToSet(kept)
          PROVE  Before(f, e)
      BY <1>2, <2>4, <2>6
    <2>8. ToSet(kept) \subseteq ToSet(store) /\ Len(kept) <= MaxStored
      BY <1>0, <1>1, <2>2, <2>4
    <2> QED
      BY <2>2, <2>5, <2>7, <2>8 DEF kept
  <1> QED
    BY <1>5, <1>6

-----------------------------------------------------------------------------
(* The steps of a receiver.                                                *)

LEMMA SkippedStore ==
  ASSUME NEW s \in RatchetStates, NEW until \in Nat, until > s.nr, now \in Nat
  PROVE  LET more == SkippedTo(s, until)
         IN /\ more \in Seq(Entries) /\ Len(more) = until - s.nr
            /\ \A i \in 1..(until - s.nr) :
                 /\ more[i].dh = s.peer /\ more[i].n = s.nr + i - 1 /\ more[i].at = now
                 /\ more[i].key = [root |-> s.recv.root, pos |-> s.recv.pos + i - 1]
  <1> DEFINE more == SkippedTo(s, until)
             entry(i) == [dh |-> s.peer, n |-> s.nr + i - 1, at |-> now,
                          key |-> [s.recv EXCEPT !.pos = @ + i - 1]]
             len == until - s.nr
  <1>1. s.nr \in Nat /\ s.recv \in Chains /\ s.peer \in KeyPairs /\ len \in Nat
    BY DEF RatchetStates
  <1>2. more = [i \in 1..len |-> entry(i)]
    BY DEF SkippedTo
  <1>3. ASSUME NEW i \in 1..len
        PROVE  /\ entry(i) \in Entries
               /\ entry(i).key = [root |-> s.recv.root, pos |-> s.recv.pos + i - 1]
    <2>1. /\ s.recv.pos + i - 1 \in Nat /\ s.nr + i - 1 \in Nat
          /\ s.recv = [root |-> s.recv.root, pos |-> s.recv.pos] /\ s.recv.root \in Roots
      BY <1>1 DEF Chains
    <2>2. [s.recv EXCEPT !.pos = @ + i - 1] = [root |-> s.recv.root, pos |-> s.recv.pos + i - 1]
      BY <1>1 DEF Chains
    <2> QED
      BY <1>1, <2>1, <2>2 DEF Entries, Chains
  <1>4. more \in [1..len -> Entries]
    <2>1. \A i \in 1..len : entry(i) \in Entries
      BY <1>3
    <2> HIDE DEF entry, len, more
    <2> QED
      BY <1>2, <2>1
  <1>5. more \in Seq(Entries)
    BY <1>1, <1>4, SeqDef
  <1>6. Len(more) = len
    BY <1>1, <1>4, <1>5, LenProperties
  <1>7. \A i \in 1..len : more[i] = entry(i)
    BY <1>2
  <1>8. ASSUME NEW i \in 1..len
        PROVE  /\ more[i].dh = s.peer /\ more[i].n = s.nr + i - 1 /\ more[i].at = now
               /\ more[i].key = [root |-> s.recv.root, pos |-> s.recv.pos + i - 1]
    <2>1. more[i] = entry(i)
      BY <1>7
    <2>2. entry(i).dh = s.peer /\ entry(i).n = s.nr + i - 1 /\ entry(i).at = now
      OBVIOUS
    <2>3. entry(i).key = [root |-> s.recv.root, pos |-> s.recv.pos + i - 1]
      BY <1>3
    <2> HIDE DEF more, entry
    <2> QED
      BY <2>1, <2>2, <2>3
  <1> HIDE DEF more
  <1> QED
    BY <1>5, <1>6, <1>8 DEF more

LEMMA SkipFields ==
  ASSUME NEW s \in RatchetStates, NEW until \in Nat, now \in Nat
  PROVE  LET t == Skip(s, until)
         IN /\ t \in RatchetStates
            /\ t.root = s.root /\ t.send = s.send /\ t.pair = s.pair /\ t.peer = s.peer
            /\ t.ns = s.ns /\ t.pn = s.pn
            /\ until <= s.nr => t = s
            /\ until > s.nr =>
                 /\ t.nr = until
                 /\ t.recv = [root |-> s.recv.root, pos |-> s.recv.pos + (until - s.nr)]
                 /\ t.skipped = s.skipped \o SkippedTo(s, until)
  <1> DEFINE t == Skip(s, until)
  <1>1. s.nr \in Nat /\ s.recv \in Chains /\ s.skipped \in Seq(Entries)
    BY DEF RatchetStates
  <1>2. CASE until <= s.nr
    BY <1>1, <1>2 DEF Skip
  <1>3. CASE until > s.nr
    <2>1. s.skipped \o SkippedTo(s, until) \in Seq(Entries)
      BY <1>1, <1>3, SkippedStore, ConcatProperties
    <2>2. /\ [root |-> s.recv.root, pos |-> s.recv.pos + (until - s.nr)] \in Chains
          /\ [s.recv EXCEPT !.pos = @ + (until - s.nr)]
               = [root |-> s.recv.root, pos |-> s.recv.pos + (until - s.nr)]
      BY <1>1, <1>3 DEF Chains
    <2>3. t = [s EXCEPT !.recv = [s.recv EXCEPT !.pos = @ + (until - s.nr)], !.nr = until,
                        !.skipped = @ \o SkippedTo(s, until)]
      BY <1>1, <1>3 DEF Skip
    <2> DEFINE recv == [root |-> s.recv.root, pos |-> s.recv.pos + (until - s.nr)]
               skipped == s.skipped \o SkippedTo(s, until)
    <2>4. t = [s EXCEPT !.recv = recv, !.nr = until, !.skipped = skipped]
      BY <2>2, <2>3
    <2> HIDE DEF t, recv, skipped
    <2>5. /\ t \in RatchetStates /\ t.recv = recv /\ t.skipped = skipped /\ t.nr = until
          /\ t.root = s.root /\ t.send = s.send /\ t.pair = s.pair /\ t.peer = s.peer
          /\ t.ns = s.ns /\ t.pn = s.pn
      <3>1. recv \in Chains /\ skipped \in Seq(Entries)
        BY <2>1, <2>2 DEF recv, skipped
      <3> QED
        BY <2>4, <3>1 DEF RatchetStates
    <2>6. ~(until <= s.nr)
      BY <1>1, <1>3
    <2> QED
      BY <1>3, <2>5, <2>6 DEF t, recv, skipped
  <1> QED
    BY <1>1, <1>2, <1>3

(* The keys on the way to a position in the receiving chain are stored.    *)
LEMMA SkipStep ==
  ASSUME NEW p \in Party, NEW s \in RatchetStates, OnCourse(p, s), Stored(p, s),
         NEW until \in Nat, now \in Nat, until > s.nr => Own(p, s) >= 2
  PROVE  LET t == Skip(s, until)
         IN /\ OnCourse(p, t) /\ Stored(p, t)
            /\ t.nr \in {s.nr, until} /\ s.nr <= t.nr /\ until <= t.nr
            /\ ToSet(s.skipped) \subseteq ToSet(t.skipped)
            /\ \A e \in ToSet(t.skipped) \ ToSet(s.skipped) :
                 e.dh = s.peer /\ s.nr <= e.n /\ e.n < until
            /\ \A n \in Nat : s.nr <= n /\ n < until => HasKey(t.skipped, s.peer, n)
  <1> DEFINE t == Skip(s, until)
  <1>1. /\ s.nr \in Nat /\ s.peer \in KeyPairs /\ s.skipped \in Seq(Entries)
        /\ s.pair \in Nat /\ Own(p, s) \in Int
    BY OwnFacts DEF RatchetStates
  <1>2. CASE until <= s.nr
    <2>1. t = s
      BY <1>2, SkipFields
    <2> HIDE DEF t
    <2> QED
      BY <1>1, <1>2, <2>1 DEF t
  <1>3. CASE until > s.nr
    <2> DEFINE more == SkippedTo(s, until)
    <2>1. /\ more \in Seq(Entries) /\ Len(more) = until - s.nr
          /\ \A i \in 1..(until - s.nr) :
               /\ more[i].dh = s.peer /\ more[i].n = s.nr + i - 1 /\ more[i].at = now
               /\ more[i].key = [root |-> s.recv.root, pos |-> s.recv.pos + i - 1]
      BY <1>3, SkippedStore
    <2>2. /\ t.root = s.root /\ t.send = s.send /\ t.pair = s.pair /\ t.peer = s.peer
          /\ t.ns = s.ns /\ t.pn = s.pn /\ t.nr = until
          /\ t.recv = [root |-> s.recv.root, pos |-> s.recv.pos + (until - s.nr)]
          /\ t.skipped = s.skipped \o more
      BY <1>3, SkipFields
    <2> HIDE DEF t, more
    <2>3. Own(p, t) = Own(p, s)
      BY <2>2 DEF Own
    <2>4. s.recv.root = Root(Own(p, s) - 1) /\ s.recv.pos = s.nr
      BY DEF OnCourse, ChainAt
    <2>5. OnCourse(p, t)
      <3>1. t.recv = ChainAt(Own(p, s) - 1, t.nr)
        BY <1>1, <1>3, <2>2, <2>4 DEF ChainAt
      <3> QED
        BY <1>1, <1>3, <2>2, <2>3, <3>1 DEF OnCourse
    <2>6. s.peer[1] = Peer(p) /\ Epoch(s.peer) = Own(p, s) - 1 /\ Own(p, s) >= 2
      BY <1>1, <1>3 DEF OnCourse
    <2>7. /\ t.skipped \in Seq(Entries)
          /\ Len(t.skipped) = Len(s.skipped) + (until - s.nr)
          /\ \A i \in 1..Len(s.skipped) : t.skipped[i] = s.skipped[i]
          /\ \A i \in 1..(until - s.nr) : t.skipped[Len(s.skipped) + i] = more[i]
      <3>1. Len(s.skipped) \in Nat /\ until - s.nr \in Nat
        BY <1>1, <1>3, LenProperties
      <3>2. /\ t.skipped \in Seq(Entries)
            /\ Len(t.skipped) = Len(s.skipped) + Len(more)
            /\ \A i \in 1..(Len(s.skipped) + Len(more)) :
                 t.skipped[i] = IF i <= Len(s.skipped) THEN s.skipped[i]
                                ELSE more[i - Len(s.skipped)]
        <4> DEFINE old == s.skipped
        <4>1. old \in Seq(Entries) /\ more \in Seq(Entries) /\ t.skipped = old \o more
          BY <1>1, <2>1, <2>2
        <4> HIDE DEF old
        <4>2. /\ t.skipped \in Seq(Entries)
              /\ Len(t.skipped) = Len(old) + Len(more)
              /\ \A i \in 1..(Len(old) + Len(more)) :
                   t.skipped[i] = IF i <= Len(old) THEN old[i] ELSE more[i - Len(old)]
          <5>1. /\ old \o more \in Seq(Entries) /\ Len(old \o more) = Len(old) + Len(more)
                /\ \A i \in 1..(Len(old) + Len(more)) :
                     (old \o more)[i] = IF i <= Len(old) THEN old[i] ELSE more[i - Len(old)]
            BY <4>1, ConcatProperties, ZenonT(60)
          <5> QED
            BY <4>1, <5>1, Zenon
        <4> QED
          BY <4>2 DEF old
      <3>3. ASSUME NEW i \in 1..(until - s.nr)
            PROVE  t.skipped[Len(s.skipped) + i] = more[i]
        <4> DEFINE k == Len(s.skipped) + i
        <4>1. /\ k \in 1..(Len(s.skipped) + Len(more)) /\ ~(k <= Len(s.skipped))
              /\ k - Len(s.skipped) = i
          BY <2>1, <3>1
        <4> HIDE DEF k
        <4>2. t.skipped[k] = more[k - Len(s.skipped)]
          BY <3>2, <4>1, Zenon
        <4> QED
          BY <4>1, <4>2, Zenon DEF k
      <3>4. ASSUME NEW i \in 1..Len(s.skipped) PROVE t.skipped[i] = s.skipped[i]
        <4>1. i \in 1..(Len(s.skipped) + Len(more)) /\ i <= Len(s.skipped)
          BY <1>1, <2>1, <3>1
        <4> QED
          BY <3>2, <4>1
      <3> QED
        BY <2>1, <3>2, <3>3, <3>4
    <2>8. \A i \in 1..Len(t.skipped) :
            \/ i \in 1..Len(s.skipped)
            \/ \E j \in 1..(until - s.nr) : i = Len(s.skipped) + j
      <3>1. Len(s.skipped) \in Nat
        BY <1>1, LenProperties
      <3>2. ASSUME NEW i \in 1..Len(t.skipped), i \notin 1..Len(s.skipped)
            PROVE  \E j \in 1..(until - s.nr) : i = Len(s.skipped) + j
        <4>1. i - Len(s.skipped) \in 1..(until - s.nr) /\ i = Len(s.skipped) + (i - Len(s.skipped))
          BY <1>1, <2>7, <3>1, <3>2
        <4> QED
          BY <4>1
      <3> QED
        BY <3>2
    <2>9. ASSUME NEW e \in ToSet(s.skipped)
          PROVE  /\ e \in ToSet(t.skipped) /\ KeyOfPassed(p, t, e)
                 /\ \A j \in 1..(until - s.nr) : Before(e, more[j]) /\ e.at <= more[j].at
      <3>1. e \in Entries /\ \E i \in 1..Len(s.skipped) : s.skipped[i] = e
        BY <1>1, InStore
      <3>2. e \in ToSet(t.skipped)
        <4>1. PICK i \in 1..Len(s.skipped) : s.skipped[i] = e
          BY <3>1
        <4>2. i \in 1..Len(t.skipped) /\ t.skipped[i] = e
          <5>1. Len(s.skipped) \in Nat
            BY <1>1, LenProperties
          <5>2. /\ Len(t.skipped) = Len(s.skipped) + (until - s.nr)
                /\ t.skipped[i] = s.skipped[i]
            BY <2>7
          <5> QED
            BY <1>1, <1>3, <4>1, <5>1, <5>2
        <4> QED
          BY <2>7, <4>2, InStore
      <3>3. KeyOfPassed(p, s, e) /\ e.n \in Nat /\ e.dh \in KeyPairs
        BY <3>1 DEF Stored, Entries
      <3>4. KeyOfPassed(p, t, e)
        BY <1>1, <1>3, <2>2, <2>3, <3>3 DEF KeyOfPassed, Passed
      <3>5. ASSUME NEW j \in 1..(until - s.nr) PROVE Before(e, more[j]) /\ e.at <= more[j].at
        <4>1. more[j].dh = s.peer /\ more[j].n = s.nr + j - 1 /\ more[j].at = now
          BY <2>1
        <4>2. e.at <= now /\ e.dh[1] = s.peer[1] /\ Passed(p, s, e.dh, e.n)
          BY <2>6, <3>3 DEF KeyOfPassed
        <4>3. CASE Epoch(e.dh) < Own(p, s) - 1
          BY <2>6, <4>1, <4>2, <4>3 DEF Before
        <4>4. CASE Epoch(e.dh) = Own(p, s) - 1 /\ e.n < s.nr
          <5>1. e.dh = s.peer
            BY <1>1, <2>6, <3>3, <4>2, <4>4, EpochFacts
          <5>2. e.n < s.nr + j - 1
            BY <1>1, <3>3, <4>4
          <5> QED
            BY <4>1, <4>2, <5>1, <5>2 DEF Before
        <4> QED
          BY <4>2, <4>3, <4>4 DEF Passed
      <3> QED
        BY <3>2, <3>4, <3>5
    <2>10. ASSUME NEW j \in 1..(until - s.nr)
           PROVE  /\ more[j] \in ToSet(t.skipped) /\ KeyOfPassed(p, t, more[j])
                  /\ more[j].dh = s.peer /\ s.nr <= more[j].n /\ more[j].n < until
      <3>1. Len(s.skipped) \in Nat
        BY <1>1, LenProperties
      <3>2. Len(s.skipped) + j \in 1..Len(t.skipped) /\ t.skipped[Len(s.skipped) + j] = more[j]
        <4>1. /\ Len(t.skipped) = Len(s.skipped) + (until - s.nr)
              /\ t.skipped[Len(s.skipped) + j] = more[j]
          BY <2>7
        <4> QED
          BY <1>1, <1>3, <3>1, <4>1
      <3>3. more[j] \in ToSet(t.skipped)
        BY <2>7, <3>2, InStore
      <3>4. /\ more[j].dh = s.peer /\ more[j].n = s.nr + j - 1 /\ more[j].at = now
            /\ more[j].key = ChainAt(Own(p, s) - 1, s.nr + j - 1)
        BY <2>1, <2>4 DEF ChainAt
      <3>5. s.nr <= s.nr + j - 1 /\ s.nr + j - 1 < until
        BY <1>1
      <3>6. Passed(p, t, s.peer, s.nr + j - 1)
        BY <2>2, <2>3, <2>6, <3>5 DEF Passed
      <3>7. KeyOfPassed(p, t, more[j])
        <4>1. 1 <= Epoch(s.peer) /\ now <= now
          BY <1>1, <2>6
        <4> QED
          BY <2>6, <3>4, <3>6, <4>1 DEF KeyOfPassed
      <3> QED
        BY <3>3, <3>4, <3>5, <3>7
    <2>11. InOrder(t.skipped)
      <3>1. Len(s.skipped) \in Nat
        BY <1>1, LenProperties
      <3>2. ASSUME NEW i \in 1..Len(t.skipped), NEW j \in 1..Len(t.skipped), i < j
            PROVE  Before(t.skipped[i], t.skipped[j]) /\ t.skipped[i].at <= t.skipped[j].at
        <4>1. CASE j \in 1..Len(s.skipped)
          <5>1. i \in 1..Len(s.skipped)
            BY <3>1, <3>2, <4>1
          <5> QED
            BY <2>7, <3>2, <4>1, <5>1 DEF Stored, InOrder
        <4>2. CASE i \in 1..Len(s.skipped) /\ j \notin 1..Len(s.skipped)
          <5>1. PICK l \in 1..(until - s.nr) : j = Len(s.skipped) + l
            BY <2>8, <4>2
          <5>2. s.skipped[i] \in ToSet(s.skipped)
            BY <1>1, <4>2, InStore
          <5> QED
            BY <2>7, <2>9, <4>2, <5>1, <5>2
        <4>3. CASE i \notin 1..Len(s.skipped) /\ j \notin 1..Len(s.skipped)
          <5>1. PICK k \in 1..(until - s.nr) : i = Len(s.skipped) + k
            BY <2>8, <4>3
          <5>2. PICK l \in 1..(until - s.nr) : j = Len(s.skipped) + l
            BY <2>8, <4>3
          <5>3. t.skipped[i] = more[k] /\ t.skipped[j] = more[l]
            BY <2>7, <5>1, <5>2
          <5>4. more[k].n < more[l].n
            <6>1. k < l
              BY <1>1, <3>1, <3>2, <5>1, <5>2
            <6>2. more[k].n = s.nr + k - 1 /\ more[l].n = s.nr + l - 1
              BY <2>1
            <6> QED
              BY <1>1, <6>1, <6>2
          <5>5. more[k].dh = more[l].dh /\ more[k].at <= more[l].at
            <6>1. /\ more[k].dh = s.peer /\ more[k].at = now
                  /\ more[l].dh = s.peer /\ more[l].at = now
              BY <2>1
            <6> QED
              BY <6>1
          <5> QED
            BY <5>3, <5>4, <5>5 DEF Before
        <4> QED
          BY <4>1, <4>2, <4>3
      <3> QED
        BY <3>2 DEF InOrder
    <2>12. ASSUME NEW e \in ToSet(t.skipped)
           PROVE  e \in ToSet(s.skipped) \/ \E j \in 1..(until - s.nr) : e = more[j]
      <3>1. PICK i \in 1..Len(t.skipped) : t.skipped[i] = e
        BY <2>7, <2>12, InStore
      <3>2. CASE i \in 1..Len(s.skipped)
        BY <1>1, <2>7, <3>1, <3>2, InStore
      <3>3. CASE i \notin 1..Len(s.skipped)
        BY <2>7, <2>8, <3>1, <3>3
      <3> QED
        BY <3>2, <3>3
    <2>13. Stored(p, t)
      BY <2>9, <2>10, <2>11, <2>12 DEF Stored
    <2>14. ASSUME NEW n \in Nat, s.nr <= n, n < until PROVE HasKey(t.skipped, s.peer, n)
      <3>1. n - s.nr + 1 \in 1..(until - s.nr) /\ n = s.nr + (n - s.nr + 1) - 1
        BY <1>1, <2>14
      <3>2. more[n - s.nr + 1].n = n
        BY <2>1, <3>1
      <3> QED
        BY <2>10, <3>1, <3>2 DEF HasKey
    <2>15. /\ t.nr \in {s.nr, until} /\ s.nr <= t.nr /\ until <= t.nr
           /\ ToSet(s.skipped) \subseteq ToSet(t.skipped)
           /\ \A e \in ToSet(t.skipped) \ ToSet(s.skipped) :
                e.dh = s.peer /\ s.nr <= e.n /\ e.n < until
      <3>1. t.nr \in {s.nr, until} /\ s.nr <= t.nr /\ until <= t.nr
        BY <1>1, <1>3, <2>2
      <3> QED
        BY <2>9, <2>10, <2>12, <3>1
    <2> QED
      BY <2>5, <2>13, <2>14, <2>15 DEF t
  <1> QED
    BY <1>1, <1>2, <1>3

LEMMA DhStepFields ==
  ASSUME NEW p \in Party, NEW s \in RatchetStates, s.root = Root(Own(p, s)), Own(p, s) >= 0,
         NEW dh \in KeyPairs
  PROVE  LET t == DhStep(s, p, dh)
             root1 == Append(s.root, DH(KeyPair(p, s.pair), dh))
             root2 == Append(root1, DH(KeyPair(p, s.pair + 1), dh))
         IN /\ t \in RatchetStates
            /\ t.root = root2 /\ t.recv = [root |-> root1, pos |-> 0]
            /\ t.send = [root |-> root2, pos |-> 0]
            /\ t.pair = s.pair + 1 /\ t.peer = dh /\ t.pn = s.ns /\ t.ns = 0 /\ t.nr = 0
            /\ t.skipped = s.skipped
  <1> DEFINE t == DhStep(s, p, dh)
             root1 == Append(s.root, DH(KeyPair(p, s.pair), dh))
             root2 == Append(root1, DH(KeyPair(p, s.pair + 1), dh))
             recv == [root |-> root1, pos |-> 0]
             send == [root |-> root2, pos |-> 0]
  <1>1. s.pair \in Nat /\ s.ns \in Nat /\ s.root \in Roots
    BY DEF RatchetStates
  <1>2. /\ DH(KeyPair(p, s.pair), dh) \in SUBSET KeyPairs
        /\ DH(KeyPair(p, s.pair + 1), dh) \in SUBSET KeyPairs
    BY <1>1, OwnFacts DEF DH
  <1>3. root1 \in Roots
    BY <1>1, <1>2, AppendProperties DEF Roots
  <1>4. root2 \in Roots
    <2> HIDE DEF root1
    <2> QED
      BY <1>2, <1>3, AppendProperties DEF Roots
  <1>5. t = [s EXCEPT !.root = root2, !.recv = recv, !.send = send, !.pair = s.pair + 1,
                      !.peer = dh, !.pn = s.ns, !.ns = 0, !.nr = 0]
    BY DEF DhStep
  <1> HIDE DEF t, root1, root2
  <1>6. recv \in Chains /\ send \in Chains
    BY <1>3, <1>4 DEF Chains
  <1> HIDE DEF recv, send
  <1>7. /\ t \in RatchetStates
        /\ t.root = root2 /\ t.recv = recv /\ t.send = send
        /\ t.pair = s.pair + 1 /\ t.peer = dh /\ t.pn = s.ns /\ t.ns = 0 /\ t.nr = 0
        /\ t.skipped = s.skipped
    <2>1. t = [root |-> root2, send |-> send, recv |-> recv, pair |-> s.pair + 1, peer |-> dh,
               ns |-> 0, nr |-> 0, pn |-> s.ns, skipped |-> s.skipped]
      BY <1>5 DEF RatchetStates
    <2>2. s.skipped \in Seq(Entries) /\ s.pair + 1 \in Nat /\ 0 \in Nat
      BY <1>1 DEF RatchetStates
    <2> QED
      BY <1>1, <1>4, <1>6, <2>1, <2>2 DEF RatchetStates
  <1> QED
    BY <1>7 DEF t, root1, root2, recv, send

(* A Diffie-Hellman step on the key pair of the next epoch leads from one  *)
(* own epoch to the next.                                                  *)
LEMMA DhStepCourse ==
  ASSUME NEW p \in Party, NEW s \in RatchetStates, OnCourse(p, s), Stored(p, s),
         NEW dh \in KeyPairs, dh[1] = Peer(p), Epoch(dh) = Own(p, s) + 1
  PROVE  LET t == DhStep(s, p, dh)
         IN Own(p, t) = Own(p, s) + 2 /\ OnCourse(p, t) /\ Stored(p, t)
  <1> DEFINE t == DhStep(s, p, dh)
             root1 == Append(s.root, DH(KeyPair(p, s.pair), dh))
             root2 == Append(root1, DH(KeyPair(p, s.pair + 1), dh))
             own == Own(p, s)
  <1>1. /\ s.pair \in Nat /\ own \in Nat /\ s.root = Root(own)
        /\ KeyPair(p, s.pair) \in KeyPairs /\ KeyPair(p, s.pair + 1) \in KeyPairs
        /\ KeyPair(p, s.pair)[1] = p /\ KeyPair(p, s.pair + 1)[1] = p
        /\ Epoch(KeyPair(p, s.pair)) = own /\ Epoch(KeyPair(p, s.pair + 1)) = own + 2
        /\ Peer(p) # p
    BY OwnFacts, PeerFacts DEF RatchetStates, OnCourse, KeyPair, Own
  <1>2. /\ t \in RatchetStates
        /\ t.root = root2 /\ t.recv = [root |-> root1, pos |-> 0]
        /\ t.send = [root |-> root2, pos |-> 0]
        /\ t.pair = s.pair + 1 /\ t.peer = dh /\ t.pn = s.ns /\ t.ns = 0 /\ t.nr = 0
        /\ t.skipped = s.skipped
    <2>1. Own(p, s) >= 0 /\ s.root = Root(Own(p, s))
      BY DEF OnCourse
    <2> QED
      BY <2>1, DhStepFields, Zenon
  <1> HIDE DEF t, own
  <1>3. root1 = Root(own + 1)
    <2>1. DH(KeyPair(p, s.pair), dh) = Mixed(own + 1)
      <3>1. Mixed(Epoch(dh)) = {KeyPair(p, s.pair), dh}
        BY <1>1, MixedPair DEF own
      <3> QED
        BY <3>1 DEF DH, own
    <2> QED
      BY <1>1, <2>1, RootNext
  <1> HIDE DEF root1
  <1>4. root2 = Root(own + 2)
    <2>1. DH(KeyPair(p, s.pair + 1), dh) = Mixed(own + 2)
      <3>1. Mixed(own + 2) = {dh, KeyPair(p, s.pair + 1)}
        <4>1. Epoch(KeyPair(p, s.pair + 1)) = Epoch(dh) + 1
          BY <1>1 DEF own
        <4> QED
          BY <1>1, <4>1, MixedPair
      <3> QED
        BY <3>1 DEF DH
    <2>2. own + 1 \in Nat /\ own + 1 + 1 = own + 2
      BY <1>1
    <2> QED
      BY <1>3, <2>1, <2>2, RootNext
  <1> HIDE DEF root2
  <1>5. Own(p, t) = own + 2
    BY <1>1, <1>2 DEF Own
  <1>6. OnCourse(p, t)
    <2>1. t.recv = ChainAt(own + 1, t.nr) /\ t.send = ChainAt(own + 2, t.ns)
      BY <1>2, <1>3, <1>4 DEF ChainAt
    <2>2. own + 2 <= 2 => s.ns = 0
      BY <1>1 DEF OnCourse, own
    <2>3. own + 2 >= 0 /\ own + 2 # 0 /\ own + 2 - 1 = own + 1
      BY <1>1
    <2>4. t.peer[1] = Peer(p) /\ Epoch(t.peer) = own + 1
      BY <1>2 DEF own
    <2>5. t.root = Root(own + 2) /\ t.pn = s.ns
      BY <1>2, <1>4
    <2> QED
      BY <1>1, <1>5, <2>1, <2>2, <2>3, <2>4, <2>5 DEF OnCourse
  <1>7. Stored(p, t)
    <2>1. ASSUME NEW e \in ToSet(s.skipped) PROVE KeyOfPassed(p, t, e)
      <3>1. KeyOfPassed(p, s, e) /\ e.dh \in KeyPairs
        <4>1. e \in Entries
          BY InStore DEF RatchetStates
        <4> QED
          BY <4>1 DEF Stored, Entries
      <3>2. Epoch(e.dh) < own + 2 - 1
        BY <1>1, <3>1, EpochFacts DEF KeyOfPassed, Passed, own
      <3>3. Passed(p, t, e.dh, e.n)
        BY <1>1, <1>5, <3>2 DEF Passed
      <3> QED
        BY <3>1, <3>3 DEF KeyOfPassed
    <2> QED
      BY <1>2, <2>1 DEF Stored
  <1> QED
    BY <1>5, <1>6, <1>7 DEF own, t

(* Two messages of one place are one message.                              *)
LEMMA OneMessagePerPlace ==
  ASSUME Shape, Letters, NEW m \in sent, NEW x \in sent, m.from = x.from,
         m.dh = x.dh, m.n = x.n
  PROVE  m = x
  <1>1. m \in Messages /\ x \in Messages
    BY DEF Shape
  <1>2. m.key = x.key
    BY DEF Letters, Written
  <1>3. m.pn = x.pn
    BY DEF Letters, Counted
  <1> QED
    BY <1>1, <1>2, <1>3 DEF Messages

(* Opening the message at position n of the receiving chain.               *)
LEMMA ReadNext ==
  ASSUME NEW p \in Party, NEW t \in RatchetStates, OnCourse(p, t), Stored(p, t),
         NEW n \in Nat, t.nr <= n, Own(p, t) >= 2, now \in Nat
  PROVE  LET u == Skip(t, n)
             r == [u EXCEPT !.recv = Next1(@), !.nr = @ + 1]
         IN /\ r \in RatchetStates /\ OnCourse(p, r) /\ Stored(p, r)
            /\ r.nr = n + 1 /\ r.pair = t.pair /\ r.ns = t.ns /\ r.pn = t.pn
            /\ Own(p, r) = Own(p, t)
            /\ ToSet(t.skipped) \subseteq ToSet(r.skipped)
            /\ \A e \in ToSet(r.skipped) \ ToSet(t.skipped) :
                 e.dh = t.peer /\ t.nr <= e.n /\ e.n < n
            /\ \A k \in Nat : t.nr <= k /\ k < n => HasKey(r.skipped, t.peer, k)
  <1> DEFINE u == Skip(t, n)
             r == [u EXCEPT !.recv = Next1(@), !.nr = @ + 1]
  <1>1. t.nr \in Nat /\ t.pair \in Nat /\ Own(p, t) \in Int
    BY OwnFacts DEF RatchetStates
  <1>2. /\ OnCourse(p, u) /\ Stored(p, u) /\ u.nr = n
        /\ ToSet(t.skipped) \subseteq ToSet(u.skipped)
        /\ \A e \in ToSet(u.skipped) \ ToSet(t.skipped) :
             e.dh = t.peer /\ t.nr <= e.n /\ e.n < n
        /\ \A k \in Nat : t.nr <= k /\ k < n => HasKey(u.skipped, t.peer, k)
    <2>1. /\ OnCourse(p, u) /\ Stored(p, u)
          /\ u.nr \in {t.nr, n} /\ t.nr <= u.nr /\ n <= u.nr
          /\ ToSet(t.skipped) \subseteq ToSet(u.skipped)
          /\ \A e \in ToSet(u.skipped) \ ToSet(t.skipped) :
               e.dh = t.peer /\ t.nr <= e.n /\ e.n < n
          /\ \A k \in Nat : t.nr <= k /\ k < n => HasKey(u.skipped, t.peer, k)
      BY SkipStep
    <2> HIDE DEF u
    <2> QED
      BY <1>1, <2>1
  <1>3. /\ u \in RatchetStates /\ u.root = t.root /\ u.pair = t.pair /\ u.peer = t.peer
        /\ u.ns = t.ns /\ u.pn = t.pn
    BY SkipFields
  <1> HIDE DEF u
  <1>4. u.recv = ChainAt(Own(p, t) - 1, n) /\ Own(p, u) = Own(p, t)
    BY <1>2, <1>3 DEF OnCourse, Own
  <1>5. Next1(u.recv) = ChainAt(Own(p, t) - 1, n + 1) /\ Next1(u.recv) \in Chains
    <2>1. Next1(u.recv) = ChainAt(Own(p, t) - 1, n + 1)
      BY <1>4 DEF Next1, ChainAt
    <2>2. Root(Own(p, t) - 1) \in Roots
      BY <1>1, RootFacts
    <2> QED
      BY <2>1, <2>2 DEF ChainAt, Chains
  <1> DEFINE recv == Next1(u.recv)
  <1>6. r = [u EXCEPT !.recv = recv, !.nr = n + 1]
    BY <1>2
  <1> HIDE DEF r, recv
  <1>7. /\ r \in RatchetStates /\ r.recv = recv /\ r.nr = n + 1
        /\ r.root = u.root /\ r.send = u.send /\ r.pair = u.pair /\ r.peer = u.peer
        /\ r.ns = u.ns /\ r.pn = u.pn /\ r.skipped = u.skipped
    <2>1. recv \in Chains /\ n + 1 \in Nat
      BY <1>5 DEF recv
    <2> QED
      BY <1>3, <1>6, <2>1 DEF RatchetStates
  <1>8. Own(p, r) = Own(p, t)
    BY <1>4, <1>7 DEF Own
  <1>9. OnCourse(p, r)
    <2>1. r.recv = ChainAt(Own(p, t) - 1, r.nr)
      BY <1>5, <1>7 DEF recv
    <2>2. Own(p, t) # 0
      BY <1>1
    <2> QED
      BY <1>2, <1>4, <1>7, <1>8, <2>1, <2>2 DEF OnCourse
  <1>10. Stored(p, r)
    <2>1. ASSUME NEW e \in ToSet(u.skipped) PROVE KeyOfPassed(p, r, e)
      <3>1. KeyOfPassed(p, u, e) /\ e.n \in Nat
        <4>1. e \in Entries
          BY <1>3, InStore DEF RatchetStates
        <4> QED
          BY <1>2, <4>1 DEF Stored, Entries
      <3>2. Passed(p, r, e.dh, e.n)
        BY <1>2, <1>4, <1>7, <1>8, <3>1 DEF KeyOfPassed, Passed
      <3> QED
        BY <3>1, <3>2 DEF KeyOfPassed
    <2> QED
      BY <1>2, <1>7, <2>1 DEF Stored
  <1> QED
    BY <1>2, <1>3, <1>7, <1>8, <1>9, <1>10 DEF r, u

(* What opening the message m does to the ratchet of its receiver.         *)
Reads(p, m, s, r) ==
  /\ r \in RatchetStates /\ OnCourse(p, r) /\ Stored(p, r)
  /\ \A dh \in KeyPairs, n \in Nat : Passed(p, s, dh, n) => Passed(p, r, dh, n)
  /\ HasKey(s.skipped, m.dh, m.n) \/ ~Passed(p, s, m.dh, m.n)
  /\ Passed(p, r, m.dh, m.n) /\ ~HasKey(r.skipped, m.dh, m.n)
  /\ \A e \in ToSet(r.skipped) \ ToSet(s.skipped) : ~Passed(p, s, e.dh, e.n)
  /\ \A e \in ToSet(s.skipped) : e.dh # m.dh \/ e.n # m.n => e \in ToSet(r.skipped)
  /\ \A x \in sent : x.from = Peer(p) /\ Passed(p, r, x.dh, x.n) /\ ~Passed(p, s, x.dh, x.n) =>
       x = m \/ HasKey(r.skipped, x.dh, x.n)
  /\ InStep(p, r, state[Peer(p)]) /\ InStep(Peer(p), state[Peer(p)], r)
  /\ \/ r.pair = s.pair /\ r.ns = s.ns /\ r.pn = s.pn
     \/ r.pair = s.pair + 1 /\ r.ns = 0 /\ r.pn = s.ns

(* With a stored key.                                                      *)
LEMMA ReadStored ==
  ASSUME RatchetInv, NEW p \in Party, NEW m \in sent, m.from = Peer(p), Decrypts(p, m),
         StoredFor(state[p], m) # {}
  PROVE  Reads(p, m, state[p], After(p, m))
  <1> DEFINE s == state[p]
             T == ToSet(s.skipped) \ StoredFor(s, m)
             left == Only(s.skipped, T)
             r == After(p, m)
  <1>1. s \in RatchetStates /\ s.skipped \in Seq(Entries) /\ OnCourse(p, s) /\ Stored(p, s)
    BY DEF RatchetInv, Shape, RatchetStates, Courses, Stores, StoreOf
  <1>2. r = [s EXCEPT !.skipped = left]
    BY DEF After, WithoutStored
  <1>3. PICK e \in ToSet(s.skipped) : e.dh = m.dh /\ e.n = m.n
    BY DEF StoredFor
  <1>4. Passed(p, s, m.dh, m.n)
    BY <1>1, <1>3 DEF Stored, KeyOfPassed
  <1>5. /\ left \in Seq(Entries) /\ ToSet(left) = ToSet(s.skipped) \cap T
        /\ InOrder(left)
    BY <1>1, OnlyEntries, OnlyInOrder DEF Stored
  <1>6. /\ \A f \in ToSet(left) : f \in ToSet(s.skipped) /\ ~(f.dh = m.dh /\ f.n = m.n)
        /\ \A f \in ToSet(s.skipped) : f.dh # m.dh \/ f.n # m.n => f \in ToSet(left)
    BY <1>5 DEF StoredFor
  <1>7. /\ InStep(p, s, state[Peer(p)]) /\ InStep(Peer(p), state[Peer(p)], s)
    BY PeerFacts DEF RatchetInv, Courses
  <1> HIDE DEF s, T, left, r
  <1>8. /\ r \in RatchetStates /\ r.skipped = left
        /\ r.root = s.root /\ r.send = s.send /\ r.recv = s.recv /\ r.pair = s.pair
        /\ r.peer = s.peer /\ r.ns = s.ns /\ r.nr = s.nr /\ r.pn = s.pn
    BY <1>1, <1>2, <1>5 DEF RatchetStates
  <1>9. Own(p, r) = Own(p, s)
    BY <1>8 DEF Own
  <1>10. OnCourse(p, r)
    BY <1>1, <1>8, <1>9 DEF OnCourse
  <1>11. \A dh, n : Passed(p, s, dh, n) <=> Passed(p, r, dh, n)
    BY <1>8, <1>9 DEF Passed
  <1>12. Stored(p, r)
    BY <1>1, <1>5, <1>6, <1>8, <1>11 DEF Stored, KeyOfPassed
  <1>13. InStep(p, r, state[Peer(p)]) /\ InStep(Peer(p), state[Peer(p)], r)
    <2>1. Own(Peer(Peer(p)), r) = Own(Peer(Peer(p)), s)
      BY <1>9, PeerFacts
    <2> QED
      BY <1>7, <1>8, <1>9, <2>1 DEF InStep
  <1>14. ~HasKey(r.skipped, m.dh, m.n)
    BY <1>6, <1>8 DEF HasKey
  <1>15. Reads(p, m, s, r)
    BY <1>3, <1>4, <1>6, <1>8, <1>10, <1>11, <1>12, <1>13, <1>14 DEF Reads, HasKey
  <1> QED
    BY <1>15 DEF s, r

LEMMA Parties ==
  ASSUME RatchetInv, NEW p \in Party
  PROVE  /\ state[p] \in RatchetStates /\ OnCourse(p, state[p]) /\ Stored(p, state[p])
         /\ InStep(p, state[p], state[Peer(p)]) /\ InStep(Peer(p), state[Peer(p)], state[p])
         /\ state[p].pair \in Nat /\ state[p].nr \in Nat /\ state[p].ns \in Nat
         /\ state[p].pn \in Nat /\ state[p].peer \in KeyPairs
         /\ state[p].skipped \in Seq(Entries)
         /\ Own(p, state[p]) \in Nat /\ Epoch(KeyPair(p, state[p].pair)) = Own(p, state[p])
         /\ KeyPair(p, state[p].pair) \in KeyPairs /\ KeyPair(p, state[p].pair)[1] = p
         /\ now \in Nat
  <1>1. state[p] \in RatchetStates /\ OnCourse(p, state[p]) /\ Stored(p, state[p]) /\ now \in Nat
    BY RatchetAssumption DEF RatchetInv, Shape, Courses, Stores, StoreOf
  <1>2. InStep(p, state[p], state[Peer(p)]) /\ InStep(Peer(p), state[Peer(p)], state[p])
    BY PeerFacts DEF RatchetInv, Courses
  <1>3. /\ state[p].pair \in Nat /\ state[p].nr \in Nat /\ state[p].ns \in Nat
        /\ state[p].pn \in Nat /\ state[p].peer \in KeyPairs /\ state[p].skipped \in Seq(Entries)
    BY <1>1 DEF RatchetStates
  <1>4. Own(p, state[p]) \in Nat
    BY <1>1, <1>3, OwnFacts DEF OnCourse
  <1> QED
    BY <1>1, <1>2, <1>3, <1>4, OwnFacts DEF Own

LEMMA Arrival ==
  ASSUME RatchetInv, NEW p \in Party, NEW m \in sent, m.from = Peer(p)
  PROVE  LET q == Peer(p)
             own == Own(p, state[p])
             e == Epoch(m.dh)
         IN /\ m.dh \in KeyPairs /\ m.n \in Nat /\ m.pn \in Nat /\ m.key \in Chains
            /\ m.dh[1] = q /\ e \in Nat /\ 1 <= e /\ m.key = ChainAt(e, m.n)
            /\ e <= 2 => m.pn = 0
            /\ e < own - 1 \/ e = own - 1 \/ e = own + 1
            /\ e = own + 1 => Own(q, state[q]) = own + 1
            /\ e = Own(q, state[q]) => m.n < state[q].ns
            /\ e = own - 1 <=> own > 0 /\ m.dh = state[p].peer
            /\ m.dh = state[p].peer => own >= 2
  <1> DEFINE q == Peer(p)
             own == Own(p, state[p])
             e == Epoch(m.dh)
             s == state[p]
             u == state[q]
  <1>1. q \in Party /\ q # p
    BY PeerFacts
  <1>2. m \in Messages /\ Written(m, u)
    BY DEF RatchetInv, Shape, Letters
  <1>3. /\ m.dh \in KeyPairs /\ m.n \in Nat /\ m.pn \in Nat /\ m.key \in Chains
        /\ m.dh[1] = q /\ 1 <= e /\ e <= Own(q, u) /\ m.key = ChainAt(e, m.n)
        /\ e <= 2 => m.pn = 0
        /\ m.dh[2] = u.pair => m.n < u.ns
    BY <1>2 DEF Messages, Written
  <1>4. e \in Nat
    BY <1>3, EpochFacts
  <1>5. /\ own \in Nat /\ Own(q, u) \in Nat /\ Own(q, u) \in {own - 1, own + 1}
        /\ KeyPair(p, s.pair) \in KeyPairs /\ KeyPair(p, s.pair)[1] = p
        /\ Epoch(KeyPair(p, s.pair)) = own
        /\ KeyPair(q, u.pair) \in KeyPairs /\ KeyPair(q, u.pair)[1] = q
        /\ Epoch(KeyPair(q, u.pair)) = Own(q, u)
    BY <1>1, Parties DEF InStep
  <1>6. e # own
    BY <1>1, <1>3, <1>5, EpochFacts
  <1>7. e < own - 1 \/ e = own - 1 \/ e = own + 1
    BY <1>3, <1>4, <1>5, <1>6
  <1>8. e = own + 1 => Own(q, u) = own + 1
    BY <1>3, <1>4, <1>5
  <1>9. e = Own(q, u) => m.n < u.ns
    <2>1. e = Own(q, u) => m.dh = KeyPair(q, u.pair)
      BY <1>3, <1>5, EpochFacts
    <2> QED
      BY <1>3, <2>1 DEF KeyPair
  <1>10. own > 0 => s.peer \in KeyPairs /\ s.peer[1] = q /\ Epoch(s.peer) = own - 1
    BY Parties DEF OnCourse
  <1>11. e = own - 1 <=> own > 0 /\ m.dh = s.peer
    <2>1. e = own - 1 => own > 0
      BY <1>3, <1>4, <1>5
    <2> QED
      BY <1>3, <1>10, <2>1, EpochFacts
  <1>12. m.dh = s.peer => own >= 2
    <2>1. own = 0 => s.peer = Spk
      BY Parties DEF OnCourse
    <2>2. own = 0 => p = "bob"
      <3>1. p = "alice" => Epoch(KeyPair(p, s.pair)) = 2 * s.pair - 1
        BY DEF Epoch, KeyPair
      <3>2. s.pair \in Nat
        BY Parties
      <3>3. p = "alice" => own # 0
        BY <1>5, <3>1, <3>2
      <3> QED
        BY <3>3 DEF Party
    <2>3. own = 0 => m.dh # s.peer
      BY <1>1, <1>3, <2>1, <2>2 DEF Spk, KeyPair
    <2> QED
      BY <1>3, <1>4, <1>5, <1>10, <2>3
  <1> QED
    BY <1>3, <1>4, <1>7, <1>8, <1>9, <1>11, <1>12

(* Further on in the receiving chain.                                      *)
LEMMA ReadChain ==
  ASSUME RatchetInv, NEW p \in Party, NEW m \in sent, m.from = Peer(p), Decrypts(p, m),
         StoredFor(state[p], m) = {}, m.dh = state[p].peer
  PROVE  Reads(p, m, state[p], After(p, m))
  <1> DEFINE s == state[p]
             u == state[Peer(p)]
             r == After(p, m)
             own == Own(p, s)
  <1>1. /\ s \in RatchetStates /\ OnCourse(p, s) /\ Stored(p, s) /\ now \in Nat
        /\ s.nr \in Nat /\ s.peer \in KeyPairs /\ own \in Nat /\ s.skipped \in Seq(Entries)
        /\ InStep(p, s, u) /\ InStep(Peer(p), u, s) /\ Peer(Peer(p)) = p
    BY Parties, PeerFacts
  <1>2. /\ m.dh \in KeyPairs /\ m.n \in Nat /\ own >= 2 /\ Epoch(m.dh) = own - 1
        /\ m.dh[1] = Peer(p)
        /\ Epoch(m.dh) = Own(Peer(p), u) => m.n < u.ns
    BY <1>1, Arrival
  <1>3. ~(m.n < s.nr)
    BY DEF Decrypts, Refused
  <1>4. /\ r \in RatchetStates /\ OnCourse(p, r) /\ Stored(p, r)
        /\ r.nr = m.n + 1 /\ r.pair = s.pair /\ r.ns = s.ns /\ r.pn = s.pn
        /\ Own(p, r) = own
        /\ ToSet(s.skipped) \subseteq ToSet(r.skipped)
        /\ \A e \in ToSet(r.skipped) \ ToSet(s.skipped) :
             e.dh = s.peer /\ s.nr <= e.n /\ e.n < m.n
        /\ \A k \in Nat : s.nr <= k /\ k < m.n => HasKey(r.skipped, s.peer, k)
    <2> DEFINE t == Skip(s, m.n)
               rr == [t EXCEPT !.recv = Next1(@), !.nr = @ + 1]
    <2>1. r = rr
      BY DEF After, Snapshot
    <2>2. s.nr <= m.n
      BY <1>1, <1>2, <1>3
    <2>3. /\ rr \in RatchetStates /\ OnCourse(p, rr) /\ Stored(p, rr)
          /\ rr.nr = m.n + 1 /\ rr.pair = s.pair /\ rr.ns = s.ns /\ rr.pn = s.pn
          /\ Own(p, rr) = own
          /\ ToSet(s.skipped) \subseteq ToSet(rr.skipped)
          /\ \A e \in ToSet(rr.skipped) \ ToSet(s.skipped) :
               e.dh = s.peer /\ s.nr <= e.n /\ e.n < m.n
          /\ \A k \in Nat : s.nr <= k /\ k < m.n => HasKey(rr.skipped, s.peer, k)
      BY <1>1, <1>2, <2>2, ReadNext, Zenon
    <2> HIDE DEF r, rr
    <2> QED
      BY <2>1, <2>3
  <1>5. \A e \in ToSet(s.skipped) : ~(e.dh = m.dh /\ e.n = m.n)
    BY DEF StoredFor
  <1>6. /\ r.skipped \in Seq(Entries)
        /\ \A e \in ToSet(r.skipped) \cup ToSet(s.skipped) : e.n \in Nat /\ e.dh \in KeyPairs
    <2>1. r.skipped \in Seq(Entries)
      BY <1>4 DEF RatchetStates
    <2>2. \A e \in ToSet(r.skipped) \cup ToSet(s.skipped) : e \in Entries
      BY <1>1, <2>1, InStore
    <2> QED
      BY <2>1, <2>2 DEF Entries
  <1>7. m.dh = s.peer
    OBVIOUS
  <1> HIDE DEF s, u, r, own
  <1>8. \A dh \in KeyPairs, n \in Nat : Passed(p, s, dh, n) => Passed(p, r, dh, n)
    BY <1>1, <1>2, <1>3, <1>4 DEF Passed, own
  <1>9. Passed(p, r, m.dh, m.n) /\ ~Passed(p, s, m.dh, m.n)
    BY <1>1, <1>2, <1>3, <1>4 DEF Passed, own
  <1>10. ~HasKey(r.skipped, m.dh, m.n)
    <2>1. ASSUME NEW e \in ToSet(r.skipped) PROVE ~(e.dh = m.dh /\ e.n = m.n)
      BY <1>2, <1>4, <1>5, <1>6
    <2> QED
      BY <2>1 DEF HasKey
  <1>11. ASSUME NEW e \in ToSet(r.skipped) \ ToSet(s.skipped) PROVE ~Passed(p, s, e.dh, e.n)
    <2>1. e.dh = m.dh /\ s.nr <= e.n /\ e.n \in Nat
      BY <1>4, <1>6, <1>7
    <2> QED
      BY <1>1, <1>2, <2>1 DEF Passed, own
  <1>12. ASSUME NEW x \in sent, x.from = Peer(p), Passed(p, r, x.dh, x.n),
                ~Passed(p, s, x.dh, x.n)
         PROVE  x = m \/ HasKey(r.skipped, x.dh, x.n)
    <2>1. x.dh \in KeyPairs /\ x.n \in Nat /\ x.dh[1] = Peer(p) /\ Epoch(x.dh) \in Nat
      BY <1>12, Arrival
    <2>2. Epoch(x.dh) = own - 1 /\ s.nr <= x.n /\ x.n < m.n + 1
      BY <1>1, <1>2, <1>4, <1>12, <2>1 DEF Passed, own
    <2>3. x.dh = m.dh
      BY <1>2, <2>1, <2>2, EpochFacts
    <2>4. CASE x.n = m.n
      BY <1>12, <2>3, <2>4, OneMessagePerPlace DEF RatchetInv
    <2>5. CASE x.n # m.n
      <3>1. x.n < m.n
        BY <1>2, <2>1, <2>2, <2>5
      <3> QED
        BY <1>4, <1>7, <2>1, <2>2, <2>3, <3>1
    <2> QED
      BY <2>4, <2>5
  <1>13. InStep(p, r, u) /\ InStep(Peer(p), u, r)
    <2>1. Own(Peer(p), u) = own - 1 => r.nr <= u.ns
      <3>1. u.ns \in Nat
        BY Parties, PeerFacts DEF u
      <3> QED
        BY <1>2, <1>4, <3>1
    <2> QED
      BY <1>1, <1>4, <2>1 DEF InStep, own
  <1> QED
    BY <1>4, <1>8, <1>9, <1>10, <1>11, <1>12, <1>13 DEF Reads, s, u, r

(* The first message of a new sending chain.                               *)
LEMMA ReadStep ==
  ASSUME RatchetInv, NEW p \in Party, NEW m \in sent, m.from = Peer(p), Decrypts(p, m),
         StoredFor(state[p], m) = {}, m.dh # state[p].peer
  PROVE  Reads(p, m, state[p], After(p, m))
  <1> DEFINE s == state[p]
             u == state[Peer(p)]
             own == Own(p, s)
             t1 == Skip(s, m.pn)
             t2 == DhStep(t1, p, m.dh)
             t3 == Skip(t2, m.n)
             rr == [t3 EXCEPT !.recv = Next1(@), !.nr = @ + 1]
             r == After(p, m)
  <1>1. /\ s \in RatchetStates /\ OnCourse(p, s) /\ Stored(p, s) /\ now \in Nat
        /\ s.nr \in Nat /\ s.pair \in Nat /\ s.peer \in KeyPairs /\ own \in Nat
        /\ s.skipped \in Seq(Entries)
        /\ InStep(p, s, u) /\ InStep(Peer(p), u, s)
        /\ Peer(Peer(p)) = p /\ Peer(p) \in Party
    BY Parties, PeerFacts
  <1>2. /\ m.dh \in KeyPairs /\ m.n \in Nat /\ m.pn \in Nat /\ m.dh[1] = Peer(p)
        /\ Epoch(m.dh) \in Nat /\ m.key = ChainAt(Epoch(m.dh), m.n)
        /\ Epoch(m.dh) <= 2 => m.pn = 0
        /\ Epoch(m.dh) = own + 1 => Own(Peer(p), u) = own + 1
        /\ Epoch(m.dh) = Own(Peer(p), u) => m.n < u.ns
    BY Arrival
  <1>3. r = rr /\ t3.recv = m.key
    BY DEF After, Decrypts, Snapshot
  <1> HIDE DEF s, u, r
  <1>4. /\ t1 \in RatchetStates /\ t1.root = s.root /\ t1.pair = s.pair /\ t1.ns = s.ns
        /\ t1.peer = s.peer
    BY <1>1, <1>2, SkipFields, Zenon
  <1> HIDE DEF t1
  <1>5. Own(p, t1) = own
    BY <1>4 DEF Own
  <1>6. /\ t2 \in RatchetStates
        /\ t2.recv = [root |-> Append(t1.root, DH(KeyPair(p, t1.pair), m.dh)), pos |-> 0]
        /\ t2.pair = t1.pair + 1 /\ t2.peer = m.dh /\ t2.pn = t1.ns
        /\ t2.ns = 0 /\ t2.nr = 0 /\ t2.skipped = t1.skipped
    <2>1. t1.root = Root(Own(p, t1)) /\ Own(p, t1) >= 0
      BY <1>1, <1>4, <1>5 DEF OnCourse
    <2> QED
      BY <1>2, <1>4, <2>1, DhStepFields, ZenonT(60)
  <1>7. Epoch(m.dh) = own + 1
    <2> HIDE DEF t2
    <2>1. t3.recv.root = t2.recv.root
      <3>1. /\ m.n <= t2.nr => t3 = t2
            /\ m.n > t2.nr =>
                 t3.recv = [root |-> t2.recv.root, pos |-> t2.recv.pos + (m.n - t2.nr)]
        BY <1>1, <1>2, <1>6, SkipFields, Zenon
      <3> HIDE DEF t3
      <3> QED
        BY <1>2, <1>6, <3>1
    <2>2. Append(Root(own), DH(KeyPair(p, s.pair), m.dh)) = Root(Epoch(m.dh))
      <3>1. s.root = Root(own)
        BY <1>1 DEF OnCourse
      <3> HIDE DEF t3
      <3> QED
        BY <1>2, <1>3, <1>4, <1>6, <2>1, <3>1 DEF ChainAt
    <2>3. DH(KeyPair(p, s.pair), m.dh) \in SUBSET KeyPairs
      BY <1>1, <1>2, OwnFacts DEF DH
    <2> HIDE DEF own
    <2> QED
      <3>1. \A x \in SUBSET KeyPairs, k \in Int : Append(Root(own), x) = Root(k) => k = own + 1
        BY <1>1, RootNext, Zenon
      <3>2. Epoch(m.dh) \in Int
        BY <1>2
      <3> QED
        BY <2>2, <2>3, <3>1, <3>2, Zenon
  <1>8. /\ OnCourse(p, t1) /\ Stored(p, t1)
        /\ ToSet(s.skipped) \subseteq ToSet(t1.skipped)
        /\ \A e \in ToSet(t1.skipped) \ ToSet(s.skipped) :
             e.dh = s.peer /\ s.nr <= e.n /\ e.n < m.pn
        /\ \A k \in Nat : s.nr <= k /\ k < m.pn => HasKey(t1.skipped, s.peer, k)
    <2>1. m.pn > s.nr => own >= 2
      BY <1>1, <1>2, <1>7
    <2> QED
      BY <1>1, <1>2, <2>1, SkipStep, Zenon DEF t1
  <1>9. Own(p, t2) = own + 2 /\ OnCourse(p, t2) /\ Stored(p, t2)
    BY <1>2, <1>4, <1>5, <1>7, <1>8, DhStepCourse, Zenon
  <1> HIDE DEF t2
  <1>10. /\ rr \in RatchetStates /\ OnCourse(p, rr) /\ Stored(p, rr)
         /\ rr.nr = m.n + 1 /\ rr.pair = t2.pair /\ rr.ns = t2.ns /\ rr.pn = t2.pn
         /\ Own(p, rr) = Own(p, t2)
         /\ ToSet(t2.skipped) \subseteq ToSet(rr.skipped)
         /\ \A e \in ToSet(rr.skipped) \ ToSet(t2.skipped) :
              e.dh = t2.peer /\ t2.nr <= e.n /\ e.n < m.n
         /\ \A k \in Nat : t2.nr <= k /\ k < m.n => HasKey(rr.skipped, t2.peer, k)
    <2>1. t2.nr <= m.n /\ Own(p, t2) >= 2
      <3> HIDE DEF own
      <3> QED
        BY <1>1, <1>2, <1>6, <1>9
    <2> QED
      BY <1>1, <1>2, <1>6, <1>9, <2>1, ReadNext, Zenon
  <1> HIDE DEF rr, t3
  <1>11. /\ r \in RatchetStates /\ OnCourse(p, r) /\ Stored(p, r)
         /\ r.nr = m.n + 1 /\ r.pair = s.pair + 1 /\ r.ns = 0 /\ r.pn = s.ns
         /\ Own(p, r) = own + 2
         /\ ToSet(s.skipped) \subseteq ToSet(r.skipped)
         /\ \A e \in ToSet(r.skipped) \ ToSet(s.skipped) :
              \/ e.dh = s.peer /\ s.nr <= e.n
              \/ e.dh = m.dh /\ e.n < m.n
         /\ \A k \in Nat : s.nr <= k /\ k < m.pn => HasKey(r.skipped, s.peer, k)
         /\ \A k \in Nat : k < m.n => HasKey(r.skipped, m.dh, k)
    <2>1. /\ r \in RatchetStates /\ OnCourse(p, r) /\ Stored(p, r)
          /\ r.nr = m.n + 1 /\ r.pair = s.pair + 1 /\ r.ns = 0 /\ r.pn = s.ns
          /\ Own(p, r) = own + 2
      BY <1>3, <1>4, <1>6, <1>9, <1>10, Zenon
    <2>2. ToSet(t1.skipped) \subseteq ToSet(r.skipped)
      BY <1>3, <1>6, <1>10
    <2>3. ASSUME NEW e \in ToSet(r.skipped) \ ToSet(s.skipped)
          PROVE  \/ e.dh = s.peer /\ s.nr <= e.n
                 \/ e.dh = m.dh /\ e.n < m.n
      BY <1>3, <1>6, <1>8, <1>10, <2>3, Zenon
    <2>4. \A k \in Nat : s.nr <= k /\ k < m.pn => HasKey(r.skipped, s.peer, k)
      BY <1>8, <2>2 DEF HasKey
    <2>5. \A k \in Nat : k < m.n => HasKey(r.skipped, m.dh, k)
      <3>1. \A k \in Nat : 0 <= k
        OBVIOUS
      <3> QED
        BY <1>3, <1>6, <1>10, <3>1, Zenon
    <2> QED
      BY <1>8, <2>1, <2>2, <2>3, <2>4, <2>5
  <1>12. \A e \in ToSet(s.skipped) : ~(e.dh = m.dh /\ e.n = m.n)
    BY DEF StoredFor, s
  <1>13. m.dh # s.peer
    BY DEF s
  <1>14. own > 0 => s.peer[1] = Peer(p) /\ Epoch(s.peer) = own - 1
    BY <1>1 DEF OnCourse
  <1>15. own = 0 => s.nr = 0 /\ m.pn = 0
    BY <1>1, <1>2, <1>7 DEF OnCourse
  <1>16. \A e \in ToSet(r.skipped) : e.n \in Nat /\ e.dh \in KeyPairs
    <2>1. r.skipped \in Seq(Entries)
      BY <1>11 DEF RatchetStates
    <2>2. \A e \in ToSet(r.skipped) : e \in Entries
      BY <2>1, InStore
    <2> QED
      BY <2>2 DEF Entries
  <1> HIDE DEF own
  <1>17. ASSUME NEW dh \in KeyPairs, NEW n \in Nat, Passed(p, s, dh, n) PROVE Passed(p, r, dh, n)
    <2>1. Epoch(dh) \in Int
      BY EpochFacts
    <2> QED
      BY <1>1, <1>11, <1>17, <2>1 DEF Passed, own
  <1>18. Passed(p, r, m.dh, m.n) /\ ~Passed(p, s, m.dh, m.n)
    BY <1>1, <1>2, <1>7, <1>11 DEF Passed, own
  <1>19. ~HasKey(r.skipped, m.dh, m.n)
    <2>1. ASSUME NEW e \in ToSet(r.skipped) PROVE ~(e.dh = m.dh /\ e.n = m.n)
      BY <1>2, <1>11, <1>12, <1>13, <1>16
    <2> QED
      BY <2>1 DEF HasKey
  <1>20. ASSUME NEW e \in ToSet(r.skipped) \ ToSet(s.skipped) PROVE ~Passed(p, s, e.dh, e.n)
    <2>1. CASE e.dh = m.dh
      BY <1>1, <1>2, <1>7, <2>1 DEF Passed, own
    <2>2. CASE e.dh = s.peer /\ s.nr <= e.n
      <3>1. e.n \in Nat /\ Epoch(s.peer) >= own - 1
        <4>1. Epoch(s.peer) \in Int /\ Epoch(s.peer) >= -1
          BY <1>1, EpochFacts
        <4> QED
          BY <1>1, <1>14, <1>16, <4>1
      <3>2. Epoch(s.peer) \in Int
        BY <1>1, EpochFacts
      <3> QED
        BY <1>1, <2>2, <3>1, <3>2 DEF Passed, own
    <2> QED
      BY <1>11, <2>1, <2>2
  <1>21. ASSUME NEW x \in sent, x.from = Peer(p), Passed(p, r, x.dh, x.n),
                ~Passed(p, s, x.dh, x.n)
         PROVE  x = m \/ HasKey(r.skipped, x.dh, x.n)
    <2>1. /\ x.dh \in KeyPairs /\ x.n \in Nat /\ x.dh[1] = Peer(p) /\ Epoch(x.dh) \in Nat
          /\ Epoch(x.dh) < own - 1 \/ Epoch(x.dh) = own - 1 \/ Epoch(x.dh) = own + 1
          /\ Epoch(x.dh) = own - 1 => own > 0 /\ x.dh = s.peer
      BY <1>21, Arrival DEF s, own
    <2>2. CASE Epoch(x.dh) = own - 1
      <3>1. s.nr <= x.n
        BY <1>1, <1>21, <2>1, <2>2 DEF Passed, own
      <3>2. x.dh[2] + 1 = m.dh[2]
        <4>1. Epoch(x.dh) + 2 = Epoch(m.dh)
          BY <1>1, <1>7, <2>2
        <4> QED
          BY <1>2, <2>1, <4>1, EpochFacts
      <3>3. x.n < m.pn
        BY <1>21, <3>2 DEF RatchetInv, Letters, Counted
      <3> QED
        BY <1>11, <2>1, <2>2, <3>1, <3>3
    <2>3. CASE Epoch(x.dh) = own + 1
      <3>1. x.dh = m.dh
        BY <1>2, <1>7, <2>1, <2>3, EpochFacts
      <3>2. x.n < m.n + 1
        BY <1>1, <1>11, <1>21, <2>1, <2>3 DEF Passed
      <3>3. CASE x.n = m.n
        BY <1>21, <3>1, <3>3, OneMessagePerPlace DEF RatchetInv
      <3>4. CASE x.n # m.n
        <4>1. x.n < m.n
          BY <1>2, <2>1, <3>2, <3>4
        <4> QED
          BY <1>11, <2>1, <3>1, <4>1
      <3> QED
        BY <3>3, <3>4
    <2>4. CASE Epoch(x.dh) < own - 1
      BY <1>21, <2>4 DEF Passed, own
    <2> QED
      BY <2>1, <2>2, <2>3, <2>4
  <1>22. InStep(p, r, u) /\ InStep(Peer(p), u, r)
    <2>1. Own(Peer(p), u) = own + 1 /\ m.n < u.ns
      BY <1>2, <1>7
    <2>2. u.ns \in Nat
      BY <1>1, Parties DEF u
    <2> QED
      BY <1>1, <1>2, <1>11, <2>1, <2>2 DEF InStep
  <1> QED
    BY <1>11, <1>17, <1>18, <1>19, <1>20, <1>21, <1>22 DEF Reads, s, u, r

LEMMA OpeningReads ==
  ASSUME RatchetInv, NEW p \in Party, NEW m \in sent, m.from = Peer(p), Decrypts(p, m)
  PROVE  Reads(p, m, state[p], After(p, m))
  BY ReadStored, ReadChain, ReadStep

-----------------------------------------------------------------------------
(* The invariant.                                                          *)

LEMMA InitInv == Init => RatchetInv
  <1> SUFFICES ASSUME Init PROVE RatchetInv
    OBVIOUS
  <1> DEFINE s == SenderRatchet
             r == ReceiverRatchet
             root == <<DH(KeyPair("alice", 1), Spk)>>
  <1>1. /\ state["alice"] = s /\ state["bob"] = r /\ DOMAIN state = Party
        /\ sent = {} /\ now = 0
        /\ \A p \in Party : got[p] = {} /\ forgotten[p] = {}
    BY DEF Init, Party
  <1>2. /\ KeyPair("alice", 1) \in KeyPairs /\ Spk \in KeyPairs
        /\ Epoch(KeyPair("alice", 1)) = 1 /\ Epoch(Spk) = 0 /\ Epoch(KeyPair("bob", 0)) = 0
    BY DEF KeyPairs, KeyPair, Spk, Party, Epoch
  <1>3. Root(0) = << >> /\ Root(-1) = << >>
    BY DEF Root
  <1>4. root = Root(1) /\ root \in Roots
    <2>1. Mixed(1) = {Spk, KeyPair("alice", 1)}
      <3>1. Spk[1] # KeyPair("alice", 1)[1]
        BY DEF Spk, KeyPair
      <3> QED
        BY <1>2, <3>1, MixedPair
    <2>2. DH(KeyPair("alice", 1), Spk) = Mixed(1)
      BY <2>1 DEF DH
    <2>3. Append(Root(0), Mixed(1)) = Root(1)
      <3>1. Append(Root(0), Mixed(0 + 1)) = Root(0 + 1)
        BY RootNext
      <3> QED
        BY <3>1
    <2>4. Append(<< >>, Mixed(1)) = <<Mixed(1)>>
      OBVIOUS
    <2>5. Root(1) \in Roots
      BY RootFacts
    <2> QED
      BY <1>3, <2>2, <2>3, <2>4, <2>5
  <1> HIDE DEF root
  <1>5. << >> \in Roots /\ << >> \in Seq(Entries) /\ <<{}>> \in Roots
    <2>1. {} \in SUBSET KeyPairs
      OBVIOUS
    <2> QED
      BY <2>1, EmptySeq DEF Roots
  <1>6. s = [root |-> root, send |-> [root |-> root, pos |-> 0],
             recv |-> [root |-> << >>, pos |-> 0], pair |-> 1, peer |-> Spk,
             ns |-> 0, nr |-> 0, pn |-> 0, skipped |-> << >>]
    BY DEF SenderRatchet, root
  <1>7. r = [root |-> << >>, send |-> ZeroChain, recv |-> [root |-> << >>, pos |-> 0],
             pair |-> 0, peer |-> Spk, ns |-> 0, nr |-> 0, pn |-> 0, skipped |-> << >>]
    BY DEF ReceiverRatchet
  <1> HIDE DEF s, r
  <1>8. s \in RatchetStates
    BY <1>2, <1>4, <1>5, <1>6 DEF RatchetStates, Chains
  <1>9. r \in RatchetStates
    BY <1>2, <1>5, <1>7 DEF RatchetStates, Chains, ZeroChain
  <1>10. Own("alice", s) = 1 /\ Own("bob", r) = 0
    BY <1>2, <1>6, <1>7 DEF Own
  <1>11. OnCourse("alice", s)
    BY <1>2, <1>3, <1>4, <1>6, <1>10 DEF OnCourse, ChainAt, Peer, Spk, KeyPair
  <1>12. OnCourse("bob", r)
    BY <1>3, <1>7, <1>10 DEF OnCourse, ChainAt
  <1>13. InStep("alice", s, r) /\ InStep("bob", r, s)
    BY <1>6, <1>7, <1>10 DEF InStep, Peer
  <1>14. Shape
    <2>1. 0 \in 0..MaxTime
      BY RatchetAssumption
    <2>2. state \in [Party -> RatchetStates]
      BY <1>1, <1>8, <1>9 DEF Party, Init
    <2> QED
      BY <1>1, <2>1, <2>2 DEF Shape, Init
  <1>15. Courses
    BY <1>1, <1>11, <1>12, <1>13 DEF Courses, Party, Peer
  <1>16. Stores
    <2>1. ASSUME NEW p \in Party PROVE state[p].skipped = << >> /\ got[p] = {} /\ forgotten[p] = {}
      BY <1>1, <1>6, <1>7 DEF Party
    <2>2. ToSet(<< >>) = {} /\ Len(<< >>) = 0 /\ InOrder(<< >>) /\ 0 <= MaxStored
      BY RatchetAssumption DEF ToSet, InOrder
    <2> QED
      BY <1>1, <2>1, <2>2 DEF Stores, StoreOf, Stored, Opened, Lost, Missed
  <1> QED
    BY <1>1, <1>14, <1>15, <1>16 DEF RatchetInv, Letters

(* A party whose store, place and history do not change keeps its part of  *)
(* the invariant when what its peer sends meanwhile lies ahead.            *)
LEMMA SameStore ==
  ASSUME RatchetInv, NEW p \in Party, state'[p].skipped = state[p].skipped,
         \A dh, n : Passed(p, state'[p], dh, n) <=> Passed(p, state[p], dh, n),
         now' \in {now, now + 1}, got'[p] = got[p], forgotten'[p] = forgotten[p],
         sent \subseteq sent',
         \A x \in sent' \ sent : x.from # Peer(p) \/ ~Passed(p, state[p], x.dh, x.n)
  PROVE  StoreOf(p)'
  <1> DEFINE s == state[p]
             t == state'[p]
  <1>1. StoreOf(p) /\ now \in Nat /\ s.skipped \in Seq(Entries)
    BY Parties DEF RatchetInv, Stores
  <1> HIDE DEF s, t
  <1>2. t.skipped = s.skipped /\ \A dh, n : Passed(p, t, dh, n) <=> Passed(p, s, dh, n)
    BY DEF s, t
  <1>3. \A e \in ToSet(s.skipped) : KeyOfPassed(p, state[p], e)'
    <2>1. \A e \in ToSet(s.skipped) : e.at \in Nat
      <3>1. \A e \in ToSet(s.skipped) : e \in Entries
        BY <1>1, InStore
      <3> QED
        BY <3>1 DEF Entries
    <2> QED
      BY <1>1, <1>2, <2>1 DEF StoreOf, Stored, KeyOfPassed, s, t
  <1>4. Stored(p, state[p])'
    BY <1>1, <1>2, <1>3 DEF StoreOf, Stored, s, t
  <1>5. Len(t.skipped) <= MaxStored
    BY <1>1, <1>2 DEF StoreOf, s
  <1>6. Opened(p, state[p])'
    BY <1>1, <1>2 DEF StoreOf, Opened, s, t
  <1>7. Lost(p, state[p])'
    BY <1>1, <1>2 DEF StoreOf, Lost, s, t
  <1>8. Missed(p, state[p])'
    BY <1>1, <1>2 DEF StoreOf, Missed, s, t
  <1> QED
    BY <1>4, <1>5, <1>6, <1>7, <1>8 DEF StoreOf, t

LEMMA EncryptInv ==
  ASSUME RatchetInv, NEW p \in Party, Encrypt(p)
  PROVE  RatchetInv'
  <1> DEFINE s == state[p]
             q == Peer(p)
             u == state[q]
             own == Own(p, s)
             M == Message(p)
             r == [s EXCEPT !.send = Next1(@), !.ns = @ + 1]
  <1>1. /\ s \in RatchetStates /\ OnCourse(p, s) /\ s.ns \in Nat /\ s.pn \in Nat
        /\ s.pair \in Nat /\ own \in Nat
        /\ InStep(p, s, u) /\ InStep(q, u, s)
        /\ KeyPair(p, s.pair) \in KeyPairs /\ Epoch(KeyPair(p, s.pair)) = own
        /\ KeyPair(p, s.pair)[1] = p
        /\ q \in Party /\ q # p /\ Peer(q) = p
        /\ u \in RatchetStates /\ OnCourse(q, u) /\ u.nr \in Nat /\ Own(q, u) \in Nat
    BY Parties, PeerFacts
  <1>2. state' = [state EXCEPT ![p] = r] /\ sent' = sent \cup {M} /\ s.send # ZeroChain
        /\ got' = got /\ forgotten' = forgotten /\ now' = now
    BY DEF Encrypt
  <1>3. own >= 1 /\ s.send = ChainAt(own, s.ns)
    BY <1>1, <1>2 DEF OnCourse
  <1>4. Root(own) \in Roots
    BY <1>1, RootFacts
  <1>5. M = [from |-> p, dh |-> KeyPair(p, s.pair), n |-> s.ns, pn |-> s.pn,
             key |-> ChainAt(own, s.ns)]
    BY <1>3 DEF Message
  <1>6. M \in Messages
    BY <1>1, <1>4, <1>5 DEF Messages, Chains, ChainAt
  <1> DEFINE send == Next1(s.send)
  <1>7. send = ChainAt(own, s.ns + 1) /\ send \in Chains
    <2>1. send = ChainAt(own, s.ns + 1)
      BY <1>1, <1>3 DEF ChainAt, Next1
    <2> QED
      BY <1>1, <1>4, <2>1 DEF ChainAt, Chains
  <1>8. r = [s EXCEPT !.send = send, !.ns = s.ns + 1]
    OBVIOUS
  <1> HIDE DEF r, send, M
  <1>9. /\ r \in RatchetStates /\ r.send = send /\ r.ns = s.ns + 1
        /\ r.root = s.root /\ r.recv = s.recv /\ r.pair = s.pair /\ r.peer = s.peer
        /\ r.nr = s.nr /\ r.pn = s.pn /\ r.skipped = s.skipped
    <2>1. send \in Chains /\ s.ns + 1 \in Nat
      BY <1>1, <1>7
    <2> QED
      BY <1>1, <1>8, <2>1 DEF RatchetStates
  <1>10. Own(p, r) = own
    BY <1>9 DEF Own
  <1>11. state'[p] = r /\ state'[q] = u /\ state' \in [Party -> RatchetStates]
    BY <1>1, <1>2, <1>9 DEF RatchetInv, Shape
  <1>12. Party = {p, q}
    BY DEF Party, Peer
  <1>13. Shape'
    BY <1>2, <1>6, <1>11 DEF RatchetInv, Shape
  <1>14. Courses'
    <2>1. OnCourse(p, r)
      BY <1>1, <1>3, <1>7, <1>9, <1>10 DEF OnCourse
    <2>2. InStep(p, r, u)
      BY <1>1, <1>9, <1>10 DEF InStep
    <2>3. InStep(q, u, r)
      BY <1>1, <1>9, <1>10 DEF InStep
    <2> QED
      BY <1>1, <1>11, <1>12, <2>1, <2>2, <2>3 DEF Courses
  <1>15. ASSUME NEW x \in sent, x.from = p
         PROVE  /\ Written(x, r) /\ x.dh \in KeyPairs /\ x.dh[1] = p /\ Epoch(x.dh) <= own
                /\ x.dh[2] = s.pair => x.pn = s.pn
                /\ x.dh[2] + 1 = s.pair => x.n < s.pn
                /\ x.dh[2] # s.pair + 1
    <2>1. Written(x, s) /\ x \in Messages
      BY <1>15 DEF RatchetInv, Shape, Letters
    <2>2. x.dh \in KeyPairs /\ x.n \in Nat /\ x.dh[1] = p /\ Epoch(x.dh) <= own
      BY <1>15, <2>1 DEF Written, Messages
    <2>3. x.dh[2] # s.pair + 1
      <3>1. Epoch(x.dh) \in Int
        BY <2>2, EpochFacts
      <3>2. Epoch(x.dh) # own + 2
        BY <1>1, <2>2, <3>1
      <3>3. KeyPair(p, s.pair)[2] + 1 # x.dh[2]
        BY <1>1, <2>2, <3>2, EpochFacts
      <3> QED
        BY <3>3 DEF KeyPair
    <2>4. Written(x, r)
      BY <1>1, <1>9, <1>10, <1>15, <2>1, <2>2 DEF Written
    <2> QED
      BY <2>1, <2>2, <2>3, <2>4 DEF Written
  <1>16. M.from = p /\ M.dh = KeyPair(p, s.pair) /\ M.n = s.ns /\ M.pn = s.pn
         /\ M.dh[1] = p /\ M.dh[2] = s.pair /\ M.key = ChainAt(own, s.ns)
    BY <1>5 DEF KeyPair
  <1>17. Written(M, r)
    <2>1. own <= 2 => s.pn = 0
      BY <1>1 DEF OnCourse
    <2>2. Epoch(M.dh) = own
      BY <1>1, <1>16
    <2> QED
      BY <1>1, <1>3, <1>9, <1>10, <1>16, <2>1, <2>2 DEF Written
  <1>18. Letters'
    <2>1. ASSUME NEW x \in sent' PROVE Written(x, state'[x.from])
      <3>1. CASE x = M
        BY <1>11, <1>16, <1>17, <3>1
      <3>2. CASE x \in sent /\ x.from = p
        BY <1>11, <1>15, <3>2
      <3>3. CASE x \in sent /\ x.from # p
        <4>1. x.from = q
          BY <1>12, <3>3 DEF RatchetInv, Shape, Messages
        <4> QED
          BY <1>11, <3>3, <4>1 DEF RatchetInv, Letters
      <3> QED
        BY <1>2, <3>1, <3>2, <3>3
    <2>2. ASSUME NEW m \in sent', NEW x \in sent' PROVE Counted(m, x)
      <3>1. CASE m \in sent /\ x \in sent
        BY <3>1 DEF RatchetInv, Letters
      <3>2. CASE m = M /\ x = M
        BY <1>1, <1>16, <3>2 DEF Counted
      <3>3. CASE m = M /\ x \in sent
        BY <1>1, <1>15, <1>16, <3>3 DEF Counted
      <3>4. CASE m \in sent /\ x = M
        BY <1>1, <1>15, <1>16, <3>4 DEF Counted
      <3> QED
        BY <1>2, <3>1, <3>2, <3>3, <3>4
    <2> QED
      BY <2>1, <2>2 DEF Letters
  <1>19. Stores'
    <2>1. StoreOf(p)'
      <3>1. \A dh, n : Passed(p, state'[p], dh, n) <=> Passed(p, state[p], dh, n)
        BY <1>9, <1>10, <1>11 DEF Passed
      <3>2. \A x \in sent' \ sent : x.from # Peer(p)
        BY <1>1, <1>2, <1>16
      <3>3. state'[p].skipped = state[p].skipped
        BY <1>9, <1>11
      <3> QED
        BY <1>2, <3>1, <3>2, <3>3, SameStore
    <2>2. StoreOf(q)'
      <3>1. ~Passed(q, u, M.dh, M.n)
        BY <1>1, <1>16 DEF InStep, Passed
      <3>2. state'[q] = state[q]
        BY <1>11
      <3>3. \A x \in sent' \ sent : ~Passed(q, state[q], x.dh, x.n)
        BY <1>2, <3>1
      <3> QED
        BY <1>1, <1>2, <3>2, <3>3, SameStore
    <2> QED
      BY <1>12, <2>1, <2>2 DEF Stores
  <1> QED
    BY <1>13, <1>14, <1>18, <1>19 DEF RatchetInv

LEMMA DecryptInv ==
  ASSUME RatchetInv, NEW p \in Party, NEW m \in sent, Decrypt(p, m)
  PROVE  RatchetInv'
  <1> DEFINE s == state[p]
             q == Peer(p)
             u == state[q]
             own == Own(p, s)
             r == After(p, m)
             kept == Commit(r.skipped)
             t == [r EXCEPT !.skipped = kept]
             gone == Ids(r.skipped) \ Ids(kept)
  <1>1. /\ s \in RatchetStates /\ s.pair \in Nat /\ s.nr \in Nat /\ own \in Nat
        /\ s.skipped \in Seq(Entries) /\ now \in Nat
        /\ KeyPair(p, s.pair) \in KeyPairs /\ Epoch(KeyPair(p, s.pair)) = own
        /\ KeyPair(p, s.pair)[1] = p
        /\ q \in Party /\ q # p /\ Peer(q) = p
        /\ u \in RatchetStates /\ OnCourse(q, u)
    BY Parties, PeerFacts
  <1>2. /\ m.from = q /\ Decrypts(p, m)
        /\ state' = [state EXCEPT ![p] = t]
        /\ forgotten' = [forgotten EXCEPT ![p] = @ \cup gone]
        /\ got' = [got EXCEPT ![p] = @ \cup {m}] /\ sent' = sent /\ now' = now
    BY DEF Decrypt
  <1>3. Reads(p, m, s, r)
    BY <1>2, OpeningReads
  <1>4. r \in RatchetStates /\ r.skipped \in Seq(Entries) /\ OnCourse(p, r) /\ Stored(p, r)
    BY <1>3 DEF Reads, RatchetStates
  <1>5. /\ kept \in Seq(Entries) /\ Len(kept) <= MaxStored /\ InOrder(kept)
        /\ ToSet(kept) \subseteq ToSet(r.skipped)
        /\ \A f \in ToSet(r.skipped) \ ToSet(kept), e \in ToSet(kept) : Before(f, e)
    BY <1>1, <1>4, CommitStore DEF Stored
  <1>6. StoreOf(p) /\ m \in Messages /\ m.dh \in KeyPairs /\ m.n \in Nat
    BY DEF RatchetInv, Shape, Stores, Messages
  <1> HIDE DEF s, u, r, own, kept, t, gone
  <1>7. /\ t \in RatchetStates /\ t.skipped = kept
        /\ t.root = r.root /\ t.send = r.send /\ t.recv = r.recv /\ t.pair = r.pair
        /\ t.peer = r.peer /\ t.ns = r.ns /\ t.nr = r.nr /\ t.pn = r.pn
    BY <1>4, <1>5 DEF RatchetStates, t
  <1>8. Own(p, t) = Own(p, r) /\ \A dh, n : Passed(p, t, dh, n) <=> Passed(p, r, dh, n)
    BY <1>7 DEF Own, Passed
  <1>9. state'[p] = t /\ state'[q] = u /\ state' \in [Party -> RatchetStates]
    BY <1>1, <1>2, <1>7 DEF RatchetInv, Shape, u
  <1>10. Party = {p, q}
    BY DEF Party, Peer
  <1>11. /\ got'[p] = got[p] \cup {m} /\ got'[q] = got[q]
         /\ forgotten'[p] = forgotten[p] \cup gone /\ forgotten'[q] = forgotten[q]
    BY <1>1, <1>2 DEF RatchetInv, Shape
  <1>12. \A e \in ToSet(r.skipped) : e.dh \in KeyPairs /\ e.n \in Nat
    <2>1. \A e \in ToSet(r.skipped) : e \in Entries
      BY <1>4, InStore
    <2> QED
      BY <2>1 DEF Entries
  <1>13. Shape'
    <2>1. gone \subseteq KeyPairs \X Nat
      BY <1>12 DEF gone, Ids
    <2>2. forgotten' \in [Party -> SUBSET (KeyPairs \X Nat)]
      BY <1>2, <2>1 DEF RatchetInv, Shape
    <2>3. got' \in [Party -> SUBSET Messages]
      BY <1>2, <1>6 DEF RatchetInv, Shape
    <2> QED
      BY <1>2, <1>9, <2>2, <2>3 DEF RatchetInv, Shape
  <1>14. Courses'
    <2>1. OnCourse(p, t)
      BY <1>4, <1>7, <1>8 DEF OnCourse
    <2>2. InStep(p, r, u) /\ InStep(q, u, r)
      BY <1>3 DEF Reads, u
    <2>3. InStep(p, t, u) /\ InStep(q, u, t)
      BY <1>1, <1>7, <1>8, <2>2 DEF InStep
    <2> QED
      BY <1>1, <1>9, <1>10, <2>1, <2>3 DEF Courses
  <1>15. Letters'
    <2>1. ASSUME NEW x \in sent, x.from = p PROVE Written(x, t)
      <3>1. Written(x, s) /\ x \in Messages
        BY <2>1 DEF RatchetInv, Shape, Letters, s
      <3>2. x.dh \in KeyPairs /\ x.n \in Nat /\ x.dh[1] = p /\ Epoch(x.dh) <= own
        BY <2>1, <3>1 DEF Written, Messages, own
      <3>3. CASE r.pair = s.pair /\ r.ns = s.ns /\ r.pn = s.pn
        <4>1. Own(p, t) = Own(p, s)
          BY <1>8, <3>3 DEF Own
        <4> QED
          BY <1>7, <2>1, <3>1, <3>3, <4>1 DEF Written
      <3>4. CASE r.pair = s.pair + 1 /\ r.ns = 0 /\ r.pn = s.ns
        <4>1. Own(p, t) = own + 2
          <5>1. Own(p, r) = Own(p, s) + 2
            BY <1>1, <3>4, OwnFacts DEF Own
          <5> QED
            BY <1>8, <5>1 DEF own
        <4>2. Epoch(x.dh) \in Int
          BY <3>2, EpochFacts
        <4>3. x.dh[2] # s.pair + 1
          <5>1. KeyPair(p, s.pair)[2] + 1 # x.dh[2]
            <6>1. /\ KeyPair(p, s.pair) \in KeyPairs /\ KeyPair(p, s.pair)[1] = x.dh[1]
                  /\ Epoch(KeyPair(p, s.pair)) \in Int
              BY <1>1, <3>2, OwnFacts, EpochFacts
            <6>2. KeyPair(p, s.pair)[2] + 1 = x.dh[2]
                    => Epoch(KeyPair(p, s.pair)) + 2 = Epoch(x.dh)
              BY <3>2, <6>1, EpochFacts
            <6>3. Epoch(x.dh) <= Epoch(KeyPair(p, s.pair))
              BY <3>2 DEF own, Own
            <6> QED
              BY <4>2, <6>1, <6>2, <6>3
          <5> QED
            BY <5>1 DEF KeyPair
        <4>4. x.dh[2] \in Nat
          BY <3>2 DEF KeyPairs
        <4>5. x.dh[2] + 1 = t.pair => x.n < t.pn
          BY <1>1, <1>7, <3>1, <3>4, <4>4 DEF Written
        <4>6. Epoch(x.dh) <= own + 2
          BY <1>1, <3>2, <4>2
        <4> QED
          BY <1>7, <2>1, <3>1, <3>4, <4>1, <4>3, <4>5, <4>6 DEF Written
      <3> QED
        BY <1>3, <3>3, <3>4 DEF Reads
    <2>2. ASSUME NEW x \in sent, x.from # p PROVE x.from = q /\ Written(x, u)
      BY <1>10, <2>2 DEF RatchetInv, Shape, Messages, Letters, u
    <2>3. ASSUME NEW x \in sent' PROVE Written(x, state'[x.from])
      BY <1>2, <1>9, <2>1, <2>2, <2>3
    <2>4. \A x, y \in sent' : Counted(x, y)
      BY <1>2 DEF RatchetInv, Letters
    <2> QED
      BY <2>3, <2>4 DEF Letters
  <1>16. StoreOf(q)'
    <2>1. state'[q] = state[q]
      BY <1>9 DEF u
    <2> QED
      BY <1>1, <1>2, <1>11, <2>1, SameStore
  <1>17. Stored(p, state[p])' /\ Len(state'[p].skipped) <= MaxStored
    <2>1. \A e \in ToSet(kept) : KeyOfPassed(p, r, e)
      BY <1>4, <1>5 DEF Stored
    <2> QED
      BY <1>2, <1>5, <1>7, <1>8, <1>9, <2>1 DEF Stored, KeyOfPassed
  <1>18. Opened(p, state[p])'
    <2>1. ASSUME NEW x \in got[p]
          PROVE  /\ x \in sent /\ x.from = q /\ Passed(p, r, x.dh, x.n)
                 /\ ~HasKey(kept, x.dh, x.n)
      <3>1. x \in sent /\ x.from = q /\ Passed(p, s, x.dh, x.n) /\ ~HasKey(s.skipped, x.dh, x.n)
        BY <1>6, <2>1 DEF StoreOf, Opened, s
      <3>2. x.dh \in KeyPairs /\ x.n \in Nat
        BY <3>1 DEF RatchetInv, Shape, Messages
      <3>3. Passed(p, r, x.dh, x.n)
        BY <1>3, <3>1, <3>2 DEF Reads
      <3>4. ASSUME NEW e \in ToSet(kept), e.dh = x.dh, e.n = x.n PROVE FALSE
        <4>1. e \in ToSet(r.skipped)
          BY <1>5, <3>4
        <4>2. e \notin ToSet(s.skipped)
          BY <3>1, <3>4 DEF HasKey
        <4>3. ~Passed(p, s, e.dh, e.n)
          BY <1>3, <4>1, <4>2 DEF Reads
        <4> QED
          BY <3>1, <3>4, <4>3
      <3> QED
        BY <3>1, <3>3, <3>4 DEF HasKey
    <2>2. Passed(p, r, m.dh, m.n) /\ ~HasKey(kept, m.dh, m.n)
      BY <1>3, <1>5 DEF Reads, HasKey
    <2> QED
      BY <1>2, <1>7, <1>8, <1>9, <1>11, <2>1, <2>2 DEF Opened
  <1>19. Lost(p, state[p])'
    <2>1. ASSUME NEW id \in forgotten[p]
          PROVE  Passed(p, r, id[1], id[2]) /\ \A e \in ToSet(kept) : id[1] = e.dh => id[2] < e.n
      <3>1. /\ Passed(p, s, id[1], id[2])
            /\ \A e \in ToSet(s.skipped) : id[1] = e.dh => id[2] < e.n
        BY <1>6, <2>1 DEF StoreOf, Lost, s
      <3>2. id[1] \in KeyPairs /\ id[2] \in Nat
        BY <2>1 DEF RatchetInv, Shape
      <3>3. Passed(p, r, id[1], id[2])
        BY <1>3, <3>1, <3>2 DEF Reads
      <3>4. ASSUME NEW e \in ToSet(kept), id[1] = e.dh PROVE id[2] < e.n
        <4>1. e \in ToSet(r.skipped) /\ e.n \in Nat
          BY <1>5, <1>12, <3>4
        <4>2. CASE e \in ToSet(s.skipped)
          BY <3>1, <3>4, <4>2
        <4>3. CASE e \notin ToSet(s.skipped)
          <5>1. ~Passed(p, s, e.dh, e.n)
            BY <1>3, <4>1, <4>3 DEF Reads
          <5> QED
            BY <1>1, <3>1, <3>2, <3>4, <4>1, <5>1 DEF Passed
        <4> QED
          BY <4>2, <4>3
      <3> QED
        BY <3>3, <3>4
    <2>2. ASSUME NEW id \in gone
          PROVE  Passed(p, r, id[1], id[2]) /\ \A e \in ToSet(kept) : id[1] = e.dh => id[2] < e.n
      <3>1. PICK f \in ToSet(r.skipped) : id = <<f.dh, f.n>>
        BY <2>2 DEF gone, Ids
      <3>2. f \notin ToSet(kept)
        BY <2>2, <3>1 DEF gone, Ids
      <3>3. Passed(p, r, f.dh, f.n)
        BY <1>4, <3>1 DEF Stored, KeyOfPassed
      <3>4. ASSUME NEW e \in ToSet(kept), f.dh = e.dh PROVE f.n < e.n
        <4>1. Before(f, e)
          BY <1>5, <3>1, <3>2, <3>4
        <4>2. Epoch(e.dh) \in Int
          BY <1>5, <1>12, <3>4, EpochFacts
        <4> QED
          BY <3>4, <4>1, <4>2 DEF Before
      <3> QED
        BY <3>1, <3>3, <3>4
    <2> QED
      BY <1>7, <1>8, <1>9, <1>11, <2>1, <2>2 DEF Lost
  <1>20. Missed(p, state[p])'
    <2>1. ASSUME NEW x \in sent, x.from = q, x \notin got[p] \cup {m}, Passed(p, r, x.dh, x.n)
          PROVE  HasKey(kept, x.dh, x.n) \/ <<x.dh, x.n>> \in forgotten[p] \cup gone
      <3>1. HasKey(r.skipped, x.dh, x.n) \/ <<x.dh, x.n>> \in forgotten[p]
        <4>1. CASE Passed(p, s, x.dh, x.n)
          <5>1. HasKey(s.skipped, x.dh, x.n) \/ <<x.dh, x.n>> \in forgotten[p]
            BY <1>6, <2>1, <4>1 DEF StoreOf, Missed, s
          <5>2. x.dh # m.dh \/ x.n # m.n
            BY <1>2, <2>1, OneMessagePerPlace DEF RatchetInv
          <5> QED
            BY <1>3, <5>1, <5>2 DEF Reads, HasKey
        <4>2. CASE ~Passed(p, s, x.dh, x.n)
          BY <1>3, <2>1, <4>2 DEF Reads
        <4> QED
          BY <4>1, <4>2
      <3>2. ASSUME HasKey(r.skipped, x.dh, x.n), ~HasKey(kept, x.dh, x.n)
            PROVE  <<x.dh, x.n>> \in gone
        <4>1. PICK f \in ToSet(r.skipped) : f.dh = x.dh /\ f.n = x.n
          BY <3>2 DEF HasKey
        <4>2. <<x.dh, x.n>> \in Ids(r.skipped)
          BY <4>1 DEF Ids
        <4>3. <<x.dh, x.n>> \notin Ids(kept)
          BY <3>2 DEF Ids, HasKey
        <4> QED
          BY <4>2, <4>3 DEF gone
      <3> QED
        BY <3>1, <3>2
    <2> QED
      BY <1>2, <1>7, <1>8, <1>9, <1>11, <2>1 DEF Missed
  <1>21. Stores'
    <2>1. StoreOf(p)'
      BY <1>17, <1>18, <1>19, <1>20 DEF StoreOf
    <2> QED
      BY <1>10, <1>16, <2>1 DEF Stores
  <1> QED
    BY <1>13, <1>14, <1>15, <1>21 DEF RatchetInv

LEMMA TickInv ==
  ASSUME RatchetInv, Tick
  PROVE  RatchetInv'
  <1>1. /\ now' = now + 1 /\ now < MaxTime /\ state' = state /\ sent' = sent
        /\ got' = got /\ forgotten' = forgotten
    BY DEF Tick
  <1>2. Shape'
    BY <1>1, RatchetAssumption DEF RatchetInv, Shape
  <1>3. Courses' /\ Letters'
    BY <1>1 DEF RatchetInv, Courses, Letters
  <1>4. ASSUME NEW p \in Party PROVE StoreOf(p)'
    BY <1>1, SameStore
  <1> QED
    BY <1>2, <1>3, <1>4 DEF RatchetInv, Stores

LEMMA RatchetInductive == Spec => []RatchetInv
  <1>1. RatchetInv /\ [Next]_vars => RatchetInv'
    <2> SUFFICES ASSUME RatchetInv, [Next]_vars PROVE RatchetInv'
      OBVIOUS
    <2>1. CASE UNCHANGED vars
      BY <2>1 DEF vars, RatchetInv, Shape, Courses, Letters, Stores, StoreOf, Stored,
                  KeyOfPassed, Opened, Lost, Missed
    <2>2. ASSUME NEW p \in Party, Encrypt(p) PROVE RatchetInv'
      BY <2>2, EncryptInv
    <2>3. ASSUME NEW p \in Party, NEW m \in sent, Decrypt(p, m) PROVE RatchetInv'
      BY <2>3, DecryptInv
    <2>4. CASE Tick
      BY <2>4, TickInv
    <2> QED
      BY <2>1, <2>2, <2>3, <2>4 DEF Next
  <1> QED
    BY <1>1, InitInv, PTL DEF Spec

-----------------------------------------------------------------------------
(* The properties.                                                         *)

(* A key of a place names the place.                                       *)
LEMMA OneKeyPerPlace ==
  ASSUME NEW k \in KeyPairs, NEW l \in KeyPairs, NEW i, NEW j, 1 <= Epoch(k),
         ChainAt(Epoch(k), i) = ChainAt(Epoch(l), j)
  PROVE  k = l /\ i = j
  <1>1. Root(Epoch(k)) = Root(Epoch(l)) /\ i = j
    BY DEF ChainAt
  <1>2. Epoch(k) \in Int /\ Epoch(l) \in Int
    BY EpochFacts
  <1>3. Epoch(k) = Epoch(l)
    BY <1>1, <1>2, RootInjective
  <1> QED
    BY <1>1, <1>3, EpochFacts

LEMMA Typed == RatchetInv => TypeOK
  <1> SUFFICES ASSUME RatchetInv PROVE TypeOK
    OBVIOUS
  <1>1. \A k \in KeyPairs : IsKeyPair(k)
    BY DEF KeyPairs, IsKeyPair
  <1>2. ASSUME NEW r \in Roots PROVE IsRoot(r)
    <2>1. \A i \in 1..Len(r) : r[i] \in SUBSET KeyPairs
      BY ElementOfSeq DEF Roots
    <2> QED
      BY <1>1, <2>1 DEF IsRoot
  <1>3. \A c \in Chains : IsChain(c)
    BY <1>2 DEF Chains, IsChain
  <1>4. ASSUME NEW p \in Party
        PROVE  LET s == state[p]
               IN /\ IsRoot(s.root) /\ IsChain(s.send) /\ IsChain(s.recv)
                  /\ {s.pair, s.ns, s.nr, s.pn} \subseteq Nat
                  /\ IsKeyPair(s.peer)
                  /\ Len(s.skipped) <= MaxStored
                  /\ \A e \in ToSet(s.skipped) :
                       IsKeyPair(e.dh) /\ e.n \in Nat /\ IsChain(e.key) /\ e.at \in 0..now
                  /\ got[p] \subseteq sent
    <2> DEFINE s == state[p]
    <2>1. s \in RatchetStates /\ s.skipped \in Seq(Entries) /\ Stored(p, s) /\ now \in Nat
      BY Parties
    <2>2. Len(s.skipped) <= MaxStored /\ got[p] \subseteq sent
      BY DEF RatchetInv, Stores, StoreOf, Opened
    <2> HIDE DEF s
    <2>3. ASSUME NEW e \in ToSet(s.skipped)
          PROVE  IsKeyPair(e.dh) /\ e.n \in Nat /\ IsChain(e.key) /\ e.at \in 0..now
      <3>1. e \in Entries
        BY <2>1, InStore
      <3>2. e.at <= now
        BY <2>1 DEF Stored, KeyOfPassed
      <3> QED
        BY <1>1, <1>3, <2>1, <3>1, <3>2 DEF Entries
    <2>4. /\ IsRoot(s.root) /\ IsChain(s.send) /\ IsChain(s.recv)
          /\ {s.pair, s.ns, s.nr, s.pn} \subseteq Nat /\ IsKeyPair(s.peer)
      BY <1>1, <1>2, <1>3, <2>1 DEF RatchetStates
    <2> QED
      BY <2>2, <2>3, <2>4 DEF s
  <1>5. \A m \in sent : m.from \in Party /\ IsKeyPair(m.dh) /\ {m.n, m.pn} \subseteq Nat
    BY <1>1 DEF RatchetInv, Shape, Messages
  <1>6. now \in 0..MaxTime
    BY DEF RatchetInv, Shape
  <1> QED
    BY <1>4, <1>5, <1>6 DEF TypeOK

LEMMA Distinct == RatchetInv => MessageKeysDistinct
  <1> SUFFICES ASSUME RatchetInv, NEW m \in sent, NEW x \in sent, m.key = x.key
               PROVE  m = x
    BY DEF MessageKeysDistinct
  <1>1. /\ m.dh \in KeyPairs /\ m.dh[1] = m.from /\ 1 <= Epoch(m.dh)
        /\ m.key = ChainAt(Epoch(m.dh), m.n)
        /\ x.dh \in KeyPairs /\ x.dh[1] = x.from /\ x.key = ChainAt(Epoch(x.dh), x.n)
    BY DEF RatchetInv, Shape, Letters, Messages, Written
  <1>2. m.dh = x.dh /\ m.n = x.n
    <2>1. ChainAt(Epoch(m.dh), m.n) = ChainAt(Epoch(x.dh), x.n)
      BY <1>1
    <2> QED
      BY <1>1, <2>1, OneKeyPerPlace
  <1> QED
    BY <1>1, <1>2, OneMessagePerPlace DEF RatchetInv

LEMMA Refuses == RatchetInv => ReplayRefused
  <1> SUFFICES ASSUME RatchetInv, NEW p \in Party, NEW m \in got[p], Decrypts(p, m)
               PROVE  FALSE
    BY DEF ReplayRefused
  <1>1. /\ m \in sent /\ m.from = Peer(p)
        /\ Passed(p, state[p], m.dh, m.n) /\ ~HasKey(state[p].skipped, m.dh, m.n)
    BY DEF RatchetInv, Stores, StoreOf, Opened
  <1>2. Reads(p, m, state[p], After(p, m))
    BY <1>1, OpeningReads
  <1> QED
    BY <1>1, <1>2 DEF Reads

LEMMA Erases == RatchetInv => UsedKeysErased
  <1> SUFFICES ASSUME RatchetInv, NEW p \in Party,
                      NEW m \in got[p] \cup {x \in sent : x.from = p}
               PROVE  /\ \A e \in ToSet(state[p].skipped) : e.key # m.key
                      /\ \A c \in {state[p].recv, state[p].send} :
                           ~(c.root = m.key.root /\ c.pos <= m.key.pos)
    BY DEF UsedKeysErased
  <1> DEFINE s == state[p]
             own == Own(p, s)
  <1>1. /\ Stored(p, s) /\ OnCourse(p, s) /\ own \in Nat /\ s.nr \in Nat /\ s.ns \in Nat
        /\ KeyPair(p, s.pair) \in KeyPairs /\ KeyPair(p, s.pair)[1] = p
        /\ Epoch(KeyPair(p, s.pair)) = own /\ s.skipped \in Seq(Entries)
        /\ Peer(p) # p
    BY Parties, PeerFacts
  <1>2. m \in got[p] => m.from = Peer(p) /\ m \in sent /\ Passed(p, s, m.dh, m.n)
                        /\ ~HasKey(s.skipped, m.dh, m.n)
    BY DEF RatchetInv, Stores, StoreOf, Opened
  <1>3. /\ m.dh \in KeyPairs /\ m.n \in Nat /\ m.dh[1] = m.from /\ 1 <= Epoch(m.dh)
        /\ m.key = ChainAt(Epoch(m.dh), m.n) /\ Written(m, state[m.from])
    BY <1>2 DEF RatchetInv, Shape, Letters, Messages, Written
  <1> HIDE DEF s, own
  <1>4. Epoch(m.dh) \in Int /\ m.key.root = Root(Epoch(m.dh)) /\ m.key.pos = m.n
    BY <1>3, EpochFacts DEF ChainAt
  <1>5. \A n \in Int : Root(n) = m.key.root => n = Epoch(m.dh)
    BY <1>3, <1>4, RootInjective
  <1>6. ASSUME NEW e \in ToSet(s.skipped) PROVE e.key # m.key
    <2>1. e.dh \in KeyPairs
      <3>1. e \in Entries
        BY <1>1, InStore
      <3> QED
        BY <3>1 DEF Entries
    <2>2. e.dh[1] = Peer(p) /\ e.key = ChainAt(Epoch(e.dh), e.n)
      BY <1>1 DEF Stored, KeyOfPassed
    <2>3. e.key = m.key => m.dh = e.dh /\ m.n = e.n
      <3>1. e.key = m.key => ChainAt(Epoch(m.dh), m.n) = ChainAt(Epoch(e.dh), e.n)
        BY <1>3, <2>2
      <3> QED
        BY <1>3, <2>1, <3>1, OneKeyPerPlace
    <2> QED
      BY <1>1, <1>2, <1>3, <2>2, <2>3 DEF HasKey
  <1>7. ~(s.recv.root = m.key.root /\ s.recv.pos <= m.key.pos)
    <2>1. s.recv.root = Root(own - 1) /\ s.recv.pos = s.nr
      BY <1>1 DEF OnCourse, ChainAt, own
    <2>2. SUFFICES ASSUME Epoch(m.dh) = own - 1, s.nr <= m.n PROVE FALSE
      <3>1. own - 1 \in Int
        BY <1>1
      <3> QED
        BY <1>4, <1>5, <2>1, <3>1
    <2>3. CASE m \in got[p]
      BY <1>1, <1>2, <1>3, <2>2, <2>3 DEF Passed, own
    <2>4. CASE m.from = p
      <3>1. Epoch(m.dh) + 1 # Epoch(KeyPair(p, s.pair))
        BY <1>1, <1>3, <2>4, EpochFacts
      <3> QED
        BY <1>1, <2>2, <3>1
    <2> QED
      BY <2>3, <2>4
  <1>8. ~(s.send.root = m.key.root /\ s.send.pos <= m.key.pos)
    <2>1. CASE own = 0
      <3>1. s.send = ZeroChain
        BY <1>1, <2>1 DEF OnCourse, own
      <3> QED
        BY <1>4, <3>1, ZeroIsNoChain
    <2>2. CASE own # 0
      <3>1. s.send.root = Root(own) /\ s.send.pos = s.ns
        BY <1>1, <2>2 DEF OnCourse, ChainAt, own
      <3>2. SUFFICES ASSUME Epoch(m.dh) = own, s.ns <= m.n PROVE FALSE
        <4>1. own \in Int
          BY <1>1
        <4> QED
          BY <1>4, <1>5, <3>1, <4>1
      <3>3. CASE m \in got[p]
        BY <1>1, <1>2, <1>3, <3>2, <3>3, EpochFacts
      <3>4. CASE m.from = p
        <4>1. m.dh = KeyPair(p, s.pair)
          BY <1>1, <1>3, <3>2, <3>4, EpochFacts
        <4>2. m.dh[2] = s.pair
          BY <4>1 DEF KeyPair
        <4>3. m.n < s.ns
          BY <1>3, <3>4, <4>2 DEF Written, s
        <4> QED
          BY <1>1, <1>3, <3>2, <4>3
      <3> QED
        BY <3>3, <3>4
    <2> QED
      BY <2>1, <2>2
  <1> QED
    BY <1>6, <1>7, <1>8 DEF s

LEMMA Oldest == RatchetInv => OldestForgottenFirst
  BY DEF RatchetInv, Stores, StoreOf, Lost, OldestForgottenFirst

(* A message of the place ahead opens: in the receiving chain, or in the   *)
(* chain that the peer began with the epoch after ours.                    *)
LEMMA AheadOpens ==
  ASSUME RatchetInv, NEW p \in Party, NEW m \in sent, m.from = Peer(p),
         ~Passed(p, state[p], m.dh, m.n), WithinReach(p, m)
  PROVE  Decrypts(p, m)
  <1> DEFINE s == state[p]
             own == Own(p, s)
             t1 == Skip(s, m.pn)
             t2 == DhStep(t1, p, m.dh)
             t3 == Skip(t2, m.n)
  <1>1. /\ s \in RatchetStates /\ OnCourse(p, s) /\ Stored(p, s) /\ now \in Nat
        /\ s.nr \in Nat /\ own \in Nat /\ s.skipped \in Seq(Entries)
    BY Parties
  <1>2. /\ m.dh \in KeyPairs /\ m.n \in Nat /\ m.pn \in Nat /\ m.dh[1] = Peer(p)
        /\ Epoch(m.dh) \in Nat /\ m.key = ChainAt(Epoch(m.dh), m.n)
        /\ Epoch(m.dh) <= 2 => m.pn = 0
        /\ Epoch(m.dh) < own - 1 \/ Epoch(m.dh) = own - 1 \/ Epoch(m.dh) = own + 1
        /\ Epoch(m.dh) = own - 1 <=> own > 0 /\ m.dh = s.peer
        /\ m.dh = s.peer => own >= 2
    BY Arrival
  <1>3. StoredFor(s, m) = {}
    BY <1>1 DEF StoredFor, Stored, KeyOfPassed
  <1>4. CASE Epoch(m.dh) = own - 1
    <2>1. m.dh = s.peer /\ own >= 2
      BY <1>2, <1>4
    <2>2. s.nr <= m.n
      BY <1>1, <1>2, <1>4 DEF Passed
    <2>3. ~Refused(s, p, m)
      BY <1>1, <1>2, <2>1, <2>2 DEF Refused, WithinReach
    <2>4. Snapshot(s, p, m) = Skip(s, m.n)
      BY <2>1 DEF Snapshot
    <2> DEFINE t == Skip(s, m.n)
    <2>5. OnCourse(p, t) /\ t.nr \in {s.nr, m.n} /\ s.nr <= t.nr /\ m.n <= t.nr
      BY <1>1, <1>2, <2>1, SkipStep, Zenon
    <2>6. t.pair = s.pair
      BY <1>1, <1>2, SkipFields, Zenon
    <2> HIDE DEF t, s
    <2>7. t.nr = m.n /\ Own(p, t) = own
      BY <1>1, <1>2, <2>2, <2>5, <2>6 DEF Own
    <2>8. t.recv = m.key
      BY <1>2, <1>4, <2>5, <2>7 DEF OnCourse
    <2> QED
      BY <1>3, <2>3, <2>4, <2>8 DEF Decrypts, s, t
  <1>5. CASE Epoch(m.dh) = own + 1
    <2>1. m.dh # s.peer
      BY <1>1, <1>2, <1>5
    <2>2. ~Refused(s, p, m) /\ Snapshot(s, p, m) = t3
      <3>1. ~TooFar(s, m.pn) /\ m.n <= MaxSkip
        BY <2>1 DEF WithinReach
      <3>2. ~(m.n > MaxSkip)
        BY <1>2, <3>1, RatchetAssumption
      <3> QED
        BY <2>1, <3>1, <3>2 DEF Refused, Snapshot
    <2>3. t1 \in RatchetStates /\ t1.pair = s.pair
      BY <1>1, <1>2, SkipFields, Zenon
    <2>4. OnCourse(p, t1) /\ Stored(p, t1)
      <3>1. m.pn > s.nr => own >= 2
        BY <1>1, <1>2, <1>5
      <3> QED
        BY <1>1, <1>2, <3>1, SkipStep, Zenon
    <2> HIDE DEF t1, s
    <2>5. Own(p, t1) = own
      BY <2>3 DEF Own
    <2>6. Own(p, t2) = own + 2 /\ OnCourse(p, t2) /\ Stored(p, t2)
      BY <1>2, <1>5, <2>3, <2>4, <2>5, DhStepCourse, Zenon
    <2>7. t2 \in RatchetStates /\ t2.nr = 0
      <3>1. t1.root = Root(Own(p, t1)) /\ Own(p, t1) >= 0
        BY <2>4 DEF OnCourse
      <3> QED
        BY <1>2, <2>3, <3>1, DhStepFields, Zenon
    <2> HIDE DEF t2
    <2>8. OnCourse(p, t3) /\ t3.nr \in {t2.nr, m.n} /\ m.n <= t3.nr
      <3>1. Own(p, t2) >= 2
        <4> HIDE DEF own
        <4> QED
          BY <1>1, <2>6
      <3> QED
        BY <1>1, <1>2, <2>6, <2>7, <3>1, SkipStep, Zenon
    <2>9. t3.pair = t2.pair
      BY <1>1, <1>2, <2>7, SkipFields, Zenon
    <2> HIDE DEF t3, own
    <2>10. t3.nr = m.n /\ Own(p, t3) = own + 2
      BY <1>2, <2>6, <2>7, <2>8, <2>9 DEF Own
    <2>11. t3.recv = m.key
      <3>1. own + 2 - 1 = own + 1
        BY <1>1
      <3> QED
        <4>1. t3.recv = ChainAt(Own(p, t3) - 1, t3.nr)
          BY <2>8 DEF OnCourse
        <4>2. t3.recv = ChainAt(own + 1, m.n)
          BY <1>1, <2>10, <4>1
        <4> QED
          BY <1>2, <1>5, <4>2
    <2> QED
      BY <1>3, <2>2, <2>11 DEF Decrypts, s
  <1>6. CASE Epoch(m.dh) < own - 1
    BY <1>6 DEF Passed
  <1> QED
    BY <1>2, <1>4, <1>5, <1>6

LEMMA Readable == RatchetInv => UnreadStaysReadable
  <1> SUFFICES ASSUME RatchetInv, NEW p \in Party, NEW m \in sent, m.from = Peer(p),
                      m \notin got[p], <<m.dh, m.n>> \notin forgotten[p], WithinReach(p, m)
               PROVE  Decrypts(p, m)
    BY DEF UnreadStaysReadable
  <1>1. CASE Passed(p, state[p], m.dh, m.n)
    <2>1. PICK e \in ToSet(state[p].skipped) : e.dh = m.dh /\ e.n = m.n
      BY <1>1 DEF RatchetInv, Stores, StoreOf, Missed, HasKey
    <2>2. e.key = m.key
      <3>1. e.key = ChainAt(Epoch(e.dh), e.n)
        BY Parties DEF Stored, KeyOfPassed
      <3>2. m.key = ChainAt(Epoch(m.dh), m.n)
        BY Arrival
      <3> QED
        BY <2>1, <3>1, <3>2
    <2>3. e \in StoredFor(state[p], m)
      BY <2>1 DEF StoredFor
    <2> QED
      BY <2>2, <2>3 DEF Decrypts
  <1>2. CASE ~Passed(p, state[p], m.dh, m.n)
    BY <1>2, AheadOpens
  <1> QED
    BY <1>1, <1>2

(* Every variable keeps its type, and no store exceeds its limit.          *)
THEOREM RatchetTypeCorrect == Spec => []TypeOK
  BY RatchetInductive, Typed, PTL

(* ratchetDecrypt opens no message a second time, however often and in     *)
(* whatever order the network repeats what was sent.                       *)
THEOREM NoReplay == Spec => []ReplayRefused
  BY RatchetInductive, Refuses, PTL

(* A party holds no key, and no chain key that leads to the key, of a      *)
(* message that it has sent or opened: ratchet.ts deletes what it uses.    *)
THEOREM ForwardSecrecy == Spec => []UsedKeysErased
  BY RatchetInductive, Erases, PTL

(* Every message that was sent and not opened opens now, unless its key    *)
(* was evicted or has expired or it lies beyond the limit on jumps.        *)
THEOREM NothingElseIsLost == Spec => []UnreadStaysReadable
  BY RatchetInductive, Readable, PTL

(* commitSkipped forgets the keys of a chain from its beginning.           *)
THEOREM OldestGoFirst == Spec => []OldestForgottenFirst
  BY RatchetInductive, Oldest, PTL

(* No key encrypts two messages, for any number of messages and steps.     *)
THEOREM KeysAreFresh == Spec => []MessageKeysDistinct
  BY RatchetInductive, Distinct, PTL

=============================================================================
