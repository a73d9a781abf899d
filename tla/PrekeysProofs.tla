--------------------------- MODULE PrekeysProofs ---------------------------
(***************************************************************************)
(* Type correctness, one use per one-time pre-key, the bound on the store, *)
(* and that what a bundle carried is there when the initiation comes, for  *)
(* any number of requests and any pool size, cap and life times.           *)
(*                                                                         *)
(* One use: an OPK that was served is below nextOpk and, while stored,     *)
(* marked as reserved, so neither reserveOPK nor the replenish run can     *)
(* hand it out again.  The bound: only the single replenish run adds keys, *)
(* and what it still has to add always fits (`Budget`), whatever is        *)
(* reserved, burned or expired after its snapshot.  Kept pre-keys: an      *)
(* expired reservation is not that of a request whose own life time runs,  *)
(* and a rotation that is alone discards only an SPK whose bundles are a   *)
(* whole period old (`KeptInv`).                                           *)
(***************************************************************************)
EXTENDS Prekeys, FiniteSetTheorems, TLAPS

(* The OPKs in the store, and those served, have been generated.           *)
Numbered ==
  /\ opks \subseteq 1..(nextOpk - 1)
  /\ \A r \in Requests : bundle[r].opk < nextOpk

(* An OPK that was served is marked for as long as it is stored.           *)
ServedMarked ==
  \A r \in Requests : bundle[r].opk \in opks => reservedAt[bundle[r].opk] # 0

(* The keys the replenish run still has to add fit in the pool and, once   *)
(* it has deleted the expired ones, in the store.                          *)
Budget ==
  /\ Cardinality(Available) <= PoolSize
  /\ Cardinality(opks) <= MaxStored
  /\ rep.phase = "work" =>
       /\ Cardinality(Available) + rep.needed <= PoolSize
       /\ Cardinality(opks \ rep.doomed) + rep.needed <= MaxStored

IInv == TypeOK /\ Numbered /\ ServedMarked /\ OpkServedOnce /\ Budget

-----------------------------------------------------------------------------

LEMMA Bounds ==
  /\ {PoolSize, MaxStored, MaxOpks, MaxCrashes, MaxReplays} \subseteq Nat
  /\ 1 \in 1..MaxTime /\ 0 \in 0..MaxTime
  /\ 1 \in 1..(MaxOpks + 1) /\ 0 \in 0..MaxCrashes /\ 0 \in 0..MaxReplays
  BY PrekeysAssumption

LEMMA MinOfTwo ==
  ASSUME NEW a \in Int, NEW b \in Int
  PROVE  /\ Min({a, b}) \in {a, b}
         /\ Min({a, b}) <= a
         /\ Min({a, b}) <= b
  <1>1. \E x \in {a, b} : \A y \in {a, b} : x <= y
    OBVIOUS
  <1> QED BY <1>1 DEF Min

LEMMA StoreFinite ==
  /\ IsFiniteSet(OpkIds)
  /\ \A S \in SUBSET OpkIds : IsFiniteSet(S) /\ Cardinality(S) \in Nat
  <1>1. IsFiniteSet(OpkIds)
    BY FS_Interval, PrekeysAssumption DEF OpkIds
  <1> QED BY <1>1, FS_Subset, FS_CardinalityType

LEMMA Fewer ==
  ASSUME NEW S \in SUBSET OpkIds, NEW T \in SUBSET S
  PROVE  Cardinality(T) <= Cardinality(S)
  <1>1. IsFiniteSet(OpkIds)
    BY FS_Interval, PrekeysAssumption DEF OpkIds
  <1>2. IsFiniteSet(S)
    BY <1>1, FS_Subset
  <1> QED BY <1>2, FS_Subset

(* What the actions that take OPKs away, or mark them, do to the budget.   *)
LEMMA BudgetShrinks ==
  ASSUME IInv, opks' \subseteq opks, Available' \subseteq Available,
         \/ rep' = rep
         \/ rep' = Triggered
         \/ rep' = StartRep
  PROVE  Budget'
  <1>1. /\ opks \in SUBSET OpkIds /\ Available \in SUBSET OpkIds
        /\ rep.needed \in Nat
        /\ rep \in [phase : {"idle", "start", "work"}, doomed : SUBSET OpkIds,
                    needed : Nat]
    BY DEF IInv, TypeOK, Available
  <1>2. /\ Cardinality(Available') <= Cardinality(Available)
        /\ Cardinality(opks') <= Cardinality(opks)
        /\ Cardinality(opks' \ rep.doomed) <= Cardinality(opks \ rep.doomed)
    <2>1. opks' \ rep.doomed \in SUBSET (opks \ rep.doomed)
      OBVIOUS
    <2> QED BY <1>1, <2>1, Fewer
  <1>3. /\ Cardinality(Available) \in Nat /\ Cardinality(Available') \in Nat
        /\ Cardinality(opks) \in Nat /\ Cardinality(opks') \in Nat
        /\ Cardinality(opks \ rep.doomed) \in Nat
        /\ Cardinality(opks' \ rep.doomed) \in Nat
    BY <1>1, StoreFinite
  <1>4. rep'.phase = "work" => rep' = rep
    BY <1>1 DEF Triggered, StartRep
  <1>5. PoolSize \in Nat /\ MaxStored \in Nat
    BY PrekeysAssumption
  <1>6. /\ Cardinality(Available)' <= PoolSize
        /\ Cardinality(opks)' <= MaxStored
    BY <1>2, <1>3, <1>5 DEF IInv, Budget
  <1>7. ASSUME rep'.phase = "work"
        PROVE  /\ Cardinality(Available') + rep'.needed <= PoolSize
               /\ Cardinality(opks' \ rep'.doomed) + rep'.needed <= MaxStored
    BY <1>1, <1>2, <1>3, <1>4, <1>5, <1>7 DEF IInv, Budget
  <1> QED BY <1>6, <1>7 DEF Budget

-----------------------------------------------------------------------------

LEMMA InitIInv == Init => IInv
  <1> SUFFICES ASSUME Init PROVE IInv
    OBVIOUS
  <1>1. TypeOK
    BY Bounds DEF Init, TypeOK, SPK, NoSpk, StartRep, OpkIds, Outcomes
  <1>2. Numbered /\ ServedMarked /\ OpkServedOnce
    BY DEF Init, Numbered, ServedMarked, OpkServedOnce
  <1>3. Budget
    <2>1. opks = {} /\ Available = {} /\ rep.phase = "start"
      BY DEF Init, Available, StartRep
    <2> QED BY <2>1, FS_EmptySet, PrekeysAssumption DEF Budget
  <1> QED BY <1>1, <1>2, <1>3 DEF IInv

LEMMA TriggeredType ==
  ASSUME TypeOK
  PROVE  Triggered \in [phase : {"idle", "start", "work"},
                        doomed : SUBSET OpkIds, needed : Nat]
  BY DEF TypeOK, Triggered, StartRep

(* Steps that leave the OPK rows alone, or take rows away.                 *)
LEMMA RowsKept ==
  ASSUME IInv, TypeOK', UNCHANGED storeVars, rep' \in {rep, StartRep},
         \A r \in Requests : bundle'[r].opk = bundle[r].opk
  PROVE  IInv'
  <1>1. opks' = opks /\ Available' = Available
    BY DEF storeVars, Available
  <1>2. Budget'
    BY <1>1, BudgetShrinks
  <1>3. Numbered' /\ ServedMarked' /\ OpkServedOnce'
    BY <1>1 DEF IInv, storeVars, Numbered, ServedMarked, OpkServedOnce
  <1> QED BY <1>2, <1>3 DEF IInv

LEMMA RowDeleted ==
  ASSUME IInv, TypeOK', NEW k, Delete(k), nextOpk' = nextOpk, bundle' = bundle
  PROVE  /\ Numbered' /\ ServedMarked' /\ OpkServedOnce'
         /\ opks' \subseteq opks /\ Available' \subseteq Available
  <1>1. /\ opks' = opks \ {k}
        /\ \A o \in opks' : reservedAt'[o] = reservedAt[o]
    BY DEF Delete, IInv, TypeOK
  <1> QED BY <1>1 DEF IInv, Numbered, ServedMarked, OpkServedOnce, Available

LEMMA RowBurned ==
  ASSUME IInv, TypeOK', NEW k, Burn(k), nextOpk' = nextOpk, bundle' = bundle
  PROVE  IInv'
  <1>1. /\ Delete(k)
        /\ rep' = rep \/ rep' = Triggered
    BY DEF Burn
  <1>2. /\ Numbered' /\ ServedMarked' /\ OpkServedOnce'
        /\ opks' \subseteq opks /\ Available' \subseteq Available
    BY <1>1, RowDeleted
  <1>3. Budget'
    BY <1>1, <1>2, BudgetShrinks
  <1> QED BY <1>2, <1>3 DEF IInv

-----------------------------------------------------------------------------
(* The replenish run.                                                      *)

LEMMA SnapshotIInv == ASSUME IInv, Snapshot PROVE IInv'
  <1> DEFINE active == opks \ ExpiredNow
             a == PoolSize - Cardinality(Available)
             b == MaxStored - Cardinality(active)
             needed == Min({a, b})
  <1>1. /\ opks \in SUBSET OpkIds /\ Available \in SUBSET opks
        /\ active \in SUBSET opks /\ ExpiredNow \in SUBSET opks
    BY DEF IInv, TypeOK, Available, ExpiredNow
  <1>2. /\ Cardinality(Available) \in Nat /\ Cardinality(active) \in Nat
        /\ Cardinality(active) <= Cardinality(opks)
        /\ Cardinality(opks) \in Nat
    BY <1>1, StoreFinite, Fewer
  <1>3. a \in Nat /\ b \in Nat
    BY <1>2, PrekeysAssumption DEF IInv, Budget
  <1>4. needed \in Nat /\ needed <= a /\ needed <= b
    <2> HIDE DEF a, b
    <2>1. a \in Int /\ b \in Int
      BY <1>3
    <2>2. /\ needed \in {a, b} /\ needed <= a /\ needed <= b
      BY <2>1, MinOfTwo
    <2> QED BY <2>2, <1>3
  <1>5. \/ rep' = IdleRep
        \/ rep' = [phase |-> "work", doomed |-> ExpiredNow, needed |-> needed]
    BY DEF Snapshot
  <1>6. UNCHANGED <<storeVars, spkVars, boundVars, role, step, seen, bundle,
                    kind, saved>>
    BY DEF Snapshot
  <1> HIDE DEF needed
  <1>7. TypeOK'
    BY <1>1, <1>4, <1>5, <1>6
       DEF IInv, TypeOK, storeVars, spkVars, boundVars, IdleRep
  <1>8. Available' = Available /\ opks' = opks
    BY <1>6 DEF storeVars, Available
  <1>9. Budget'
    <2>1. CASE rep' = IdleRep
      BY <2>1, <1>8 DEF IInv, Budget, IdleRep
    <2>2. CASE rep' = [phase |-> "work", doomed |-> ExpiredNow, needed |-> needed]
      <3>1. Cardinality(Available) + needed <= PoolSize
        BY <1>2, <1>3, <1>4, PrekeysAssumption
      <3>2. Cardinality(active) + needed <= MaxStored
        BY <1>2, <1>3, <1>4, PrekeysAssumption
      <3> QED BY <2>2, <3>1, <3>2, <1>8 DEF IInv, Budget
    <2> QED BY <1>5, <2>1, <2>2
  <1>10. Numbered' /\ ServedMarked' /\ OpkServedOnce'
    BY <1>6 DEF IInv, storeVars, Numbered, ServedMarked, OpkServedOnce
  <1> QED BY <1>7, <1>9, <1>10 DEF IInv

LEMMA DropExpiredIInv == ASSUME IInv, DropExpired PROVE IInv'
  <1>1. PICK k \in rep.doomed :
          Delete(k) /\ rep' = Settled([rep EXCEPT !.doomed = @ \ {k}])
    BY DEF DropExpired
  <1>2. /\ rep.phase = "work"
        /\ UNCHANGED <<nextOpk, spkVars, boundVars, role, step, seen, bundle,
                       kind, saved>>
    BY DEF DropExpired
  <1>3. /\ rep \in [phase : {"idle", "start", "work"}, doomed : SUBSET OpkIds,
                     needed : Nat]
        /\ opks \in SUBSET OpkIds /\ Available \in SUBSET OpkIds
    BY DEF IInv, TypeOK, Available
  <1>4. \/ rep' = IdleRep
        \/ /\ rep'.phase = "work" /\ rep'.doomed = rep.doomed \ {k}
           /\ rep'.needed = rep.needed
           /\ rep' \in [phase : {"idle", "start", "work"}, doomed : SUBSET OpkIds,
                        needed : Nat]
    BY <1>1, <1>2, <1>3 DEF Settled
  <1>5. TypeOK'
    <2>1. opks' \subseteq OpkIds /\ reservedAt' \in [OpkIds -> 0..MaxTime]
      BY <1>1, PrekeysAssumption DEF Delete, IInv, TypeOK
    <2>2. rep' \in [phase : {"idle", "start", "work"}, doomed : SUBSET OpkIds,
                    needed : Nat]
      BY <1>4 DEF IdleRep
    <2> QED BY <2>1, <2>2, <1>2 DEF IInv, TypeOK, spkVars, boundVars
  <1>6. /\ Numbered' /\ ServedMarked' /\ OpkServedOnce'
        /\ opks' \subseteq opks /\ Available' \subseteq Available
    BY <1>1, <1>2, <1>5, RowDeleted
  <1>7. Budget'
    <2>1. /\ Cardinality(Available') <= Cardinality(Available)
          /\ Cardinality(opks') <= Cardinality(opks)
          /\ Cardinality(Available') \in Nat /\ Cardinality(Available) \in Nat
          /\ Cardinality(opks') \in Nat /\ Cardinality(opks) \in Nat
      BY <1>3, <1>6, Fewer, StoreFinite
    <2>2. opks' \ (rep.doomed \ {k}) = opks \ rep.doomed
      BY <1>1 DEF Delete
    <2>3. /\ Cardinality(Available') <= PoolSize
          /\ Cardinality(opks') <= MaxStored
      BY <2>1, PrekeysAssumption DEF IInv, Budget
    <2>4. CASE rep' = IdleRep
      BY <2>3, <2>4 DEF Budget, IdleRep
    <2>5. CASE rep' # IdleRep
      <3>1. /\ Cardinality(Available) + rep.needed <= PoolSize
            /\ Cardinality(opks \ rep.doomed) + rep.needed <= MaxStored
        BY <1>2 DEF IInv, Budget
      <3>2. Cardinality(Available') + rep.needed <= PoolSize
        BY <3>1, <2>1, <1>3, PrekeysAssumption
      <3>3. /\ rep'.phase = "work" /\ rep'.doomed = rep.doomed \ {k}
            /\ rep'.needed = rep.needed
        BY <1>4, <2>5
      <3> QED BY <3>1, <3>2, <3>3, <2>2, <2>3 DEF Budget
    <2> QED BY <2>4, <2>5
  <1> QED BY <1>5, <1>6, <1>7 DEF IInv

LEMMA FillIInv == ASSUME IInv, Fill PROVE IInv'
  <1>1. /\ rep.phase = "work" /\ rep.doomed = {} /\ rep.needed > 0
        /\ nextOpk <= MaxOpks /\ nextOpk' = nextOpk + 1
        /\ opks' = opks \cup {nextOpk}
        /\ rep' = Settled([rep EXCEPT !.needed = @ - 1])
        /\ UNCHANGED <<reservedAt, spkVars, boundVars, role, step, seen, bundle,
                       kind, saved>>
    BY DEF Fill
  <1>2. /\ rep \in [phase : {"idle", "start", "work"}, doomed : SUBSET OpkIds,
                     needed : Nat]
        /\ opks \in SUBSET OpkIds /\ Available \in SUBSET OpkIds
        /\ nextOpk \in 1..(MaxOpks + 1) /\ opks \subseteq 1..(nextOpk - 1)
    BY DEF IInv, TypeOK, Available, Numbered
  <1>3. nextOpk \in OpkIds /\ nextOpk + 1 \in 1..(MaxOpks + 1) /\ nextOpk \notin opks
    BY <1>1, <1>2, Bounds DEF OpkIds
  <1>4. \/ rep' = IdleRep
        \/ /\ rep'.phase = "work" /\ rep'.doomed = {}
           /\ rep'.needed = rep.needed - 1
           /\ rep' \in [phase : {"idle", "start", "work"}, doomed : SUBSET OpkIds,
                        needed : Nat]
    BY <1>1, <1>2 DEF Settled
  <1>5. TypeOK'
    <2>1. opks' \subseteq OpkIds /\ nextOpk' \in 1..(MaxOpks + 1)
      BY <1>1, <1>2, <1>3
    <2>2. rep' \in [phase : {"idle", "start", "work"}, doomed : SUBSET OpkIds,
                    needed : Nat]
      BY <1>4 DEF IdleRep
    <2> QED BY <2>1, <2>2, <1>1 DEF IInv, TypeOK, spkVars, boundVars
  <1>6. Numbered' /\ ServedMarked' /\ OpkServedOnce'
    <2>1. \A r \in Requests : bundle[r].opk # nextOpk /\ bundle[r].opk < nextOpk'
      <3> TAKE r \in Requests
      <3>1. bundle[r].opk \in Nat /\ bundle[r].opk < nextOpk
        BY DEF IInv, TypeOK, Numbered, OpkIds
      <3> QED BY <3>1, <1>1, <1>2
    <2>2. opks' \subseteq 1..(nextOpk' - 1)
      BY <1>1, <1>2
    <2> QED BY <2>1, <2>2, <1>1
            DEF IInv, Numbered, ServedMarked, OpkServedOnce
  <1>7. Budget'
    <2> DEFINE S == Cardinality(opks)  A == Cardinality(Available)
    <2>1. /\ IsFiniteSet(opks) /\ IsFiniteSet(Available) /\ S \in Nat /\ A \in Nat
      BY <1>2, StoreFinite
    <2>2. S + rep.needed <= MaxStored /\ A + rep.needed <= PoolSize
      <3>1. opks \ rep.doomed = opks
        BY <1>1
      <3> QED BY <1>1, <3>1 DEF IInv, Budget
    <2>3. Cardinality(opks') = S + 1
      BY <1>1, <1>3, <2>1, FS_AddElement
    <2>4. Cardinality(Available') \in Nat /\ Cardinality(Available') <= A + 1
      <3>1. /\ IsFiniteSet(Available \cup {nextOpk})
            /\ Cardinality(Available \cup {nextOpk}) <= A + 1
        <4>1. /\ IsFiniteSet(Available \cup {nextOpk})
              /\ Cardinality(Available \cup {nextOpk}) =
                   IF nextOpk \in Available THEN A ELSE A + 1
          BY <2>1, FS_AddElement
        <4> HIDE DEF A
        <4> QED BY <2>1, <4>1
      <3>2. Available' \in SUBSET (Available \cup {nextOpk})
        BY <1>1 DEF Available
      <3>3. /\ Cardinality(Available') <= Cardinality(Available \cup {nextOpk})
            /\ IsFiniteSet(Available')
        BY <3>1, <3>2, FS_Subset
      <3> QED BY <3>1, <3>3, <2>1, FS_CardinalityType
    <2>5. opks' \ {} = opks'
      OBVIOUS
    <2> HIDE DEF S, A
    <2>6. rep.needed \in Nat \ {0}
      BY <1>1, <1>2
    <2>7. /\ Cardinality(opks') <= MaxStored
          /\ Cardinality(Available') <= PoolSize
          /\ Cardinality(opks') + (rep.needed - 1) <= MaxStored
          /\ Cardinality(Available') + (rep.needed - 1) <= PoolSize
      BY <2>1, <2>2, <2>3, <2>4, <2>6, Bounds
    <2>8. CASE rep' = IdleRep
      BY <2>7, <2>8 DEF Budget, IdleRep
    <2>9. CASE rep'.doomed = {} /\ rep'.needed = rep.needed - 1
      BY <2>5, <2>7, <2>9 DEF Budget
    <2> QED BY <1>4, <2>8, <2>9
  <1> QED BY <1>5, <1>6, <1>7 DEF IInv

-----------------------------------------------------------------------------
(* getOrCreateSPK and the prekey handler.                                  *)

LEMMA FetchIInv == ASSUME IInv, NEW r \in Requests, Fetch(r) PROVE IInv'
  <1>1. TypeOK'
    BY DEF Fetch, StepTo, IInv, TypeOK, spkVars, storeVars, boundVars
  <1> QED BY <1>1, RowsKept DEF Fetch

LEMMA ReadSpkIInv == ASSUME IInv, NEW r \in Requests, ReadSpk(r) PROVE IInv'
  <1>1. now \in Nat
    BY DEF IInv, TypeOK
  <1>2. /\ bundle' \in [Requests -> [spk : Nat, opk : {0} \cup OpkIds, at : Nat]]
        /\ \A q \in Requests : bundle'[q].opk = bundle[q].opk
    BY <1>1 DEF ReadSpk, IInv, TypeOK
  <1>3. /\ step' \in [Requests -> {"idle", "read", "archive", "create", "opk",
                                   "unwrap", "burn"}]
        /\ seen' \in [Requests -> SPK]
    BY DEF ReadSpk, StepTo, IInv, TypeOK
  <1>4. overlapped' \in BOOLEAN
    BY DEF ReadSpk, IInv, TypeOK
  <1>5. TypeOK'
    BY <1>2, <1>3, <1>4 DEF ReadSpk, IInv, TypeOK, storeVars, boundVars
  <1> QED BY <1>2, <1>5, RowsKept DEF ReadSpk

LEMMA ArchiveSpkIInv == ASSUME IInv, NEW r \in Requests, ArchiveSpk(r) PROVE IInv'
  <1>1. TypeOK'
    BY DEF ArchiveSpk, StepTo, IInv, TypeOK, storeVars, boundVars
  <1> QED BY <1>1, RowsKept DEF ArchiveSpk

LEMMA CreateSpkIInv == ASSUME IInv, NEW r \in Requests, CreateSpk(r) PROVE IInv'
  <1>1. spkCurrent' \in SPK /\ nextSpk' \in Nat
    BY DEF CreateSpk, IInv, TypeOK, SPK
  <1>2. TypeOK'
    BY <1>1 DEF CreateSpk, StepTo, IInv, TypeOK, storeVars, boundVars
  <1> QED BY <1>2, RowsKept DEF CreateSpk

(* The served OPK was available, hence unmarked, hence never served before.*)
LEMMA ReserveIInv == ASSUME IInv, NEW r \in Requests, Reserve(r) PROVE IInv'
  <1>1. PICK k \in NextOpks :
          /\ bundle' = [bundle EXCEPT ![r].spk = seen[r].id, ![r].opk = k]
          /\ reservedAt' = [o \in OpkIds |-> IF o = k THEN now ELSE reservedAt[o]]
    BY DEF Reserve
  <1>2. /\ Finish(r, "held") /\ rep' = Triggered
        /\ UNCHANGED <<opks, nextOpk, spkVars, boundVars, kind, saved>>
    BY DEF Reserve
  <1>3. /\ opks \subseteq OpkIds /\ opks \subseteq 1..(nextOpk - 1)
        /\ nextOpk \in Nat \ {0} /\ 0 \notin OpkIds
        /\ now \in 1..MaxTime /\ now # 0 /\ now \in 0..MaxTime
    BY Bounds DEF IInv, TypeOK, Numbered, OpkIds
  <1>4. k = 0 \/ (k \in opks /\ reservedAt[k] = 0)
    BY <1>1 DEF NextOpks, Available
  <1>5. k \in {0} \cup OpkIds /\ k < nextOpk
    <2>1. CASE k = 0
      BY <2>1, <1>3
    <2>2. CASE k \in opks
      <3>1. k \in OpkIds /\ k \in 1..(nextOpk - 1)
        BY <2>2, <1>3
      <3> QED BY <3>1, <1>3
    <2> QED BY <1>4, <2>1, <2>2
  <1>6. \A q \in Requests :
          bundle'[q].opk = IF q = r THEN k ELSE bundle[q].opk
    BY <1>1 DEF IInv, TypeOK
  <1>7. \A o \in opks :
          reservedAt'[o] = IF o = k THEN now ELSE reservedAt[o]
    BY <1>1, <1>3
  <1>8. TypeOK'
    <2>1. seen[r].id \in Nat
      BY DEF IInv, TypeOK, SPK
    <2>2. bundle' \in [Requests -> [spk : Nat, opk : {0} \cup OpkIds, at : Nat]]
      <3>1. bundle \in [Requests -> [spk : Nat, opk : {0} \cup OpkIds, at : Nat]]
        BY DEF IInv, TypeOK
      <3>2. \A q \in Requests :
              bundle'[q] \in [spk : Nat, opk : {0} \cup OpkIds, at : Nat]
        BY <3>1, <2>1, <1>1, <1>5
      <3>3. bundle' = [q \in Requests |-> bundle'[q]]
        BY <3>1, <1>1
      <3> QED BY <3>2, <3>3
    <2>3. reservedAt' \in [OpkIds -> 0..MaxTime]
      BY <1>1, <1>3 DEF IInv, TypeOK
    <2>4. rep' \in [phase : {"idle", "start", "work"}, doomed : SUBSET OpkIds,
                    needed : Nat]
      BY <1>2, TriggeredType DEF IInv
    <2>5. /\ role' \in [Requests -> {"none", "serve", "held", "recv"} \cup Outcomes]
          /\ step' \in [Requests -> {"idle", "read", "archive", "create", "opk",
                                     "unwrap", "burn"}]
          /\ seen' \in [Requests -> SPK]
      BY <1>2 DEF Finish, StepTo, IInv, TypeOK, SPK, NoSpk
    <2> QED BY <2>2, <2>3, <2>4, <2>5, <1>2 DEF IInv, TypeOK, spkVars, boundVars
  <1>9. OpkServedOnce'
    <2>1. \A q \in Requests : k # 0 => bundle[q].opk # k
      BY <1>4 DEF IInv, ServedMarked
    <2> QED BY <2>1, <1>6 DEF IInv, OpkServedOnce
  <1>10. Numbered' /\ ServedMarked'
    BY <1>2, <1>3, <1>5, <1>6, <1>7 DEF IInv, Numbered, ServedMarked
  <1>11. Available' \subseteq Available
    BY <1>2, <1>3, <1>7 DEF Available
  <1>12. Budget'
    BY <1>2, <1>11, BudgetShrinks
  <1> QED BY <1>8, <1>9, <1>10, <1>12 DEF IInv

-----------------------------------------------------------------------------
(* The handlers of an initiation and the environment.                      *)

HandlerType ==
  /\ role \in [Requests -> {"none", "serve", "held", "recv"} \cup Outcomes]
  /\ step \in [Requests -> {"idle", "read", "archive", "create", "opk",
                            "unwrap", "burn"}]
  /\ seen \in [Requests -> SPK]

LEMMA FinishType ==
  ASSUME TypeOK, NEW r \in Requests, NEW o \in Outcomes, Finish(r, o)
  PROVE  HandlerType'
  BY DEF TypeOK, Finish, StepTo, HandlerType, SPK, NoSpk

LEMMA ContinueType ==
  ASSUME TypeOK, NEW r \in Requests, NEW s \in {"unwrap", "burn"}, Continue(r, s)
  PROVE  HandlerType'
  BY DEF TypeOK, Continue, StepTo, HandlerType

LEMMA BurnType ==
  ASSUME TypeOK, NEW k, Burn(k)
  PROVE  /\ opks' \subseteq OpkIds
         /\ reservedAt' \in [OpkIds -> 0..MaxTime]
         /\ rep' \in [phase : {"idle", "start", "work"}, doomed : SUBSET OpkIds,
                      needed : Nat]
  <1>1. /\ opks' \subseteq OpkIds
        /\ reservedAt' \in [OpkIds -> 0..MaxTime]
    BY Bounds DEF TypeOK, Burn, Delete
  <1>2. rep' = rep \/ rep' = Triggered
    BY DEF Burn
  <1> QED BY <1>1, <1>2, TriggeredType DEF TypeOK

LEMMA InitArrivesIInv ==
  ASSUME IInv, NEW r \in Requests, NEW k \in {"session", "group"},
         InitArrives(r, k)
  PROVE  IInv'
  <1>1. HandlerType'
    <2>1. CASE k = "group" /\ saved[r]
      BY <2>1, FinishType DEF InitArrives, IInv, Outcomes
    <2>2. CASE ~(k = "group" /\ saved[r])
      BY <2>2 DEF InitArrives, StepTo, IInv, TypeOK, HandlerType
    <2> QED BY <2>1, <2>2
  <1>2. TypeOK'
    BY <1>1 DEF InitArrives, IInv, TypeOK, HandlerType, spkVars, storeVars, boundVars
  <1> QED BY <1>2, RowsKept DEF InitArrives

LEMMA SessionInitIInv ==
  ASSUME IInv, NEW r \in Requests, SessionInit(r) PROVE IInv'
  <1>1. /\ Burn(bundle[r].opk)
        /\ UNCHANGED <<nextOpk, spkVars, boundVars, bundle, kind, saved>>
        /\ \E o \in Outcomes : Finish(r, o)
    BY DEF SessionInit, Outcomes
  <1>2. HandlerType'
    BY <1>1, FinishType DEF IInv
  <1>3. TypeOK'
    BY <1>1, <1>2, BurnType DEF IInv, TypeOK, HandlerType, spkVars, boundVars
  <1> QED BY <1>1, <1>3, RowBurned

LEMMA GroupReadIInv == ASSUME IInv, NEW r \in Requests, GroupRead(r) PROVE IInv'
  <1>1. HandlerType'
    BY FinishType, ContinueType DEF GroupRead, IInv, Outcomes
  <1>2. TypeOK'
    BY <1>1 DEF GroupRead, IInv, TypeOK, HandlerType, spkVars, storeVars, boundVars
  <1> QED BY <1>2, RowsKept DEF GroupRead

LEMMA GroupUnwrapIInv == ASSUME IInv, NEW r \in Requests, GroupUnwrap(r) PROVE IInv'
  <1>1. HandlerType'
    BY FinishType, ContinueType DEF GroupUnwrap, IInv, Outcomes
  <1>2. saved' \in [Requests -> BOOLEAN]
    BY DEF GroupUnwrap, IInv, TypeOK
  <1>3. TypeOK'
    BY <1>1, <1>2
       DEF GroupUnwrap, IInv, TypeOK, HandlerType, spkVars, storeVars, boundVars
  <1> QED BY <1>3, RowsKept DEF GroupUnwrap

LEMMA GroupBurnIInv == ASSUME IInv, NEW r \in Requests, GroupBurn(r) PROVE IInv'
  <1>1. /\ Burn(bundle[r].opk)
        /\ UNCHANGED <<nextOpk, spkVars, boundVars, bundle, kind, saved>>
        /\ Finish(r, "ok")
    BY DEF GroupBurn
  <1>2. HandlerType'
    BY <1>1, FinishType DEF IInv, Outcomes
  <1>3. TypeOK'
    BY <1>1, <1>2, BurnType DEF IInv, TypeOK, HandlerType, spkVars, boundVars
  <1> QED BY <1>1, <1>3, RowBurned

LEMMA ReplayIInv == ASSUME IInv, NEW r \in Requests, Replay(r) PROVE IInv'
  <1>1. TypeOK'
    BY Bounds DEF Replay, IInv, TypeOK, spkVars, storeVars
  <1> QED BY <1>1, RowsKept DEF Replay

LEMMA TickIInv == ASSUME IInv, Tick PROVE IInv'
  <1>1. TypeOK'
    BY PrekeysAssumption DEF Tick, IInv, TypeOK, spkVars, storeVars
  <1> QED BY <1>1, RowsKept DEF Tick

LEMMA CrashIInv == ASSUME IInv, Crash PROVE IInv'
  <1>1. HandlerType' /\ crashes' \in 0..MaxCrashes
    BY Bounds DEF Crash, IInv, TypeOK, HandlerType, Outcomes, SPK, NoSpk
  <1>2. TypeOK'
    BY <1>1 DEF Crash, IInv, TypeOK, HandlerType, StartRep, spkVars, storeVars
  <1> QED BY <1>2, RowsKept DEF Crash

LEMMA NextIInv == ASSUME IInv, [Next]_vars PROVE IInv'
  <1>1. CASE Next
    BY <1>1, SnapshotIInv, DropExpiredIInv, FillIInv, FetchIInv, ReadSpkIInv,
       ArchiveSpkIInv, CreateSpkIInv, ReserveIInv, InitArrivesIInv,
       SessionInitIInv, GroupReadIInv, GroupUnwrapIInv, GroupBurnIInv,
       ReplayIInv, TickIInv, CrashIInv
       DEF Next
  <1>2. CASE UNCHANGED vars
    BY <1>2 DEF vars, IInv, TypeOK, Numbered, ServedMarked, OpkServedOnce, Budget,
                Available
  <1> QED BY <1>1, <1>2

LEMMA Inductive == Spec => []IInv
  BY InitIInv, NextIInv, PTL DEF Spec

-----------------------------------------------------------------------------
(* The pre-keys of a bundle are there when they are needed.  A reservation *)
(* is at least as recent as the bundle it was made for, and only the       *)
(* request itself, or expiry, deletes its OPK.  An SPK is replaced when it *)
(* is a rotation period old: of two rotations that do not overlap the      *)
(* second comes a whole period after every bundle made with the SPK that   *)
(* it discards.                                                            *)

(* A request whose bundle was made carries the SPK of the bundle.          *)
Given(r) == bundle[r].spk # 0

(* Where a request is and what it has been given.                          *)
Served ==
  \A r \in Requests :
    /\ ~Given(r) => role[r] \in {"none", "serve", "lost"} /\ kind[r] = "none" /\ bundle[r].opk = 0
    /\ Given(r) => role[r] \notin {"none", "serve"}
    /\ saved[r] => kind[r] = "group"
    /\ step[r] \in {"unwrap", "burn"} => kind[r] = "group"
    /\ step[r] = "burn" => saved[r]
    /\ bundle[r].at <= now

(* Its one-time pre-key is held for it: the initiation is to come, or did  *)
(* not unwrap, and the reservation has not expired.                        *)
Owed(r) ==
  /\ bundle[r].opk # 0 /\ now - bundle[r].at < OpkTTL
  /\ kind[r] # "session" /\ ~saved[r]

Reservations ==
  /\ \A r \in Requests :
       /\ bundle[r].opk \in opks => reservedAt[bundle[r].opk] >= bundle[r].at
       /\ Owed(r) => bundle[r].opk \in opks
  /\ \A k \in rep.doomed \cap opks : reservedAt[k] # 0 /\ now - reservedAt[k] >= OpkTTL

(* The SPK rows, whether or not rotations overlap.                         *)
Rows ==
  /\ nextSpk >= 1 /\ spkCurrent.at <= now
  /\ spkCurrent.id = 0 => spkCurrent = NoSpk /\ \A r \in Requests : ~Given(r)
  /\ \A r \in Requests : step[r] = "opk" => seen[r].id # 0 /\ spkCurrent.id # 0

Fresh(spk) == spk # NoSpk /\ now - spk.at <= SpkMaxAge

(* Where a rotation that is alone stands.                                  *)
Rotation ==
  \A r \in Requests :
    /\ Rotating(r) => ~Fresh(spkCurrent) /\ \A q \in Requests : Rotating(q) => q = r
    /\ step[r] = "archive" => seen[r] = spkCurrent /\ spkCurrent # NoSpk
    /\ step[r] = "create" => spkCurrent = NoSpk \/ spkPrevious = spkCurrent
    /\ step[r] = "opk" => seen[r] = spkCurrent /\ Fresh(spkCurrent)

(* The SPK of a bundle is the current one, or the previous one of a bundle *)
(* made before the current one was, or a whole period has passed.          *)
Traced ==
  \A r \in Requests : Given(r) =>
    \/ bundle[r].spk = spkCurrent.id
    \/ bundle[r].spk = spkPrevious.id /\ bundle[r].at <= spkCurrent.at
    \/ now - bundle[r].at > SpkMaxAge

KeptInv == Served /\ Reservations /\ Rows /\ (~overlapped => Rotation /\ Traced)

LEMMA Typing ==
  ASSUME IInv
  PROVE  /\ now \in Nat /\ now >= 1 /\ spkCurrent \in SPK /\ spkPrevious \in SPK /\ nextSpk \in Nat
         /\ spkCurrent.at \in Nat /\ spkCurrent.id \in Nat
         /\ SpkMaxAge \in Nat /\ OpkTTL \in Nat /\ overlapped \in BOOLEAN
         /\ opks \subseteq OpkIds /\ 0 \notin OpkIds
         /\ \A k \in OpkIds : reservedAt[k] \in Nat
         /\ \A r \in Requests :
              /\ bundle[r].spk \in Nat /\ bundle[r].at \in Nat /\ bundle[r].opk \in Nat
              /\ seen[r] \in SPK
  <1>1. /\ now \in Nat /\ now >= 1 /\ spkCurrent \in SPK /\ spkPrevious \in SPK /\ nextSpk \in Nat
        /\ spkCurrent.at \in Nat /\ spkCurrent.id \in Nat
        /\ SpkMaxAge \in Nat /\ OpkTTL \in Nat /\ overlapped \in BOOLEAN
        /\ opks \subseteq OpkIds /\ 0 \notin OpkIds
    BY PrekeysAssumption DEF IInv, TypeOK, SPK, OpkIds
  <1>2. ASSUME NEW k \in OpkIds PROVE reservedAt[k] \in Nat
    <2>1. reservedAt[k] \in 0..MaxTime
      BY DEF IInv, TypeOK
    <2> QED BY <2>1
  <1>3. ASSUME NEW r \in Requests
        PROVE  /\ bundle[r].spk \in Nat /\ bundle[r].at \in Nat /\ bundle[r].opk \in Nat
               /\ seen[r] \in SPK
    <2>1. bundle[r] \in [spk : Nat, opk : {0} \cup OpkIds, at : Nat] /\ seen[r] \in SPK
      BY DEF IInv, TypeOK
    <2> QED BY <2>1 DEF OpkIds
  <1> QED BY <1>1, <1>2, <1>3

LEMMA InitKept == Init => KeptInv
  BY DEF Init, KeptInv, Served, Reservations, Rows, Rotation, Traced, Given, Owed, Rotating,
         NoSpk, StartRep

(* What only depends on the SPK rows and on the handlers that rotate them. *)
LEMMA SameRows ==
  ASSUME IInv, KeptInv, UNCHANGED <<spkVars, seen, step>>, now' = now,
         \A r \in Requests : bundle'[r] = bundle[r]
  PROVE  Rows' /\ (~overlapped' => Rotation' /\ Traced')
  BY DEF KeptInv, Rows, Rotation, Traced, Given, Rotating, Fresh, spkVars

LEMMA SnapshotKept == ASSUME IInv, KeptInv, Snapshot PROVE KeptInv'
  <1>1. /\ UNCHANGED <<storeVars, spkVars, boundVars, role, step, seen, bundle, kind, saved>>
        /\ rep'.doomed \subseteq ExpiredNow
    BY DEF Snapshot, IdleRep
  <1>2. Rows' /\ (~overlapped' => Rotation' /\ Traced')
    BY <1>1, SameRows DEF boundVars
  <1>3. Served'
    BY <1>1 DEF KeptInv, Served, Given, boundVars
  <1>4. Reservations'
    BY <1>1 DEF KeptInv, Reservations, Owed, ExpiredNow, boundVars, storeVars
  <1> QED BY <1>2, <1>3, <1>4 DEF KeptInv

(* An expired reservation is not that of an OPK that is owed.              *)
LEMMA DropExpiredKept == ASSUME IInv, IInv', KeptInv, DropExpired PROVE KeptInv'
  <1>1. PICK k \in rep.doomed : Delete(k) /\ rep' = Settled([rep EXCEPT !.doomed = @ \ {k}])
    BY DEF DropExpired
  <1>2. UNCHANGED <<nextOpk, spkVars, boundVars, role, step, seen, bundle, kind, saved>>
    BY DEF DropExpired
  <1>3. Rows' /\ (~overlapped' => Rotation' /\ Traced')
    BY <1>2, SameRows DEF boundVars
  <1>4. Served'
    BY <1>2 DEF KeptInv, Served, Given, boundVars
  <1>5. /\ opks' = opks \ {k} /\ \A o \in opks' : reservedAt'[o] = reservedAt[o]
        /\ rep'.doomed \subseteq rep.doomed
    BY <1>1, Typing DEF Delete, Settled, IdleRep
  <1>6. ASSUME NEW r \in Requests, Owed(r) PROVE bundle[r].opk # k
    <2>1. SUFFICES ASSUME bundle[r].opk = k PROVE FALSE
      OBVIOUS
    <2>2. k \in opks /\ reservedAt[k] >= bundle[r].at /\ now - reservedAt[k] >= OpkTTL
      BY <1>1, <1>6, <2>1 DEF KeptInv, Reservations
    <2>3. now - bundle[r].at < OpkTTL
      BY <1>6 DEF Owed
    <2>4. reservedAt[k] \in Nat
      BY <2>2, Typing
    <2> QED BY <2>2, <2>3, <2>4, Typing
  <1>7. Reservations'
    BY <1>2, <1>5, <1>6 DEF KeptInv, Reservations, Owed, boundVars
  <1> QED BY <1>3, <1>4, <1>7 DEF KeptInv

LEMMA FillKept == ASSUME IInv, IInv', KeptInv, Fill PROVE KeptInv'
  <1>1. /\ UNCHANGED <<reservedAt, spkVars, boundVars, role, step, seen, bundle, kind, saved>>
        /\ rep.doomed = {} /\ opks' = opks \cup {nextOpk}
        /\ rep' = Settled([rep EXCEPT !.needed = @ - 1])
    BY DEF Fill
  <1>2. Rows' /\ (~overlapped' => Rotation' /\ Traced')
    BY <1>1, SameRows DEF boundVars
  <1>3. Served'
    BY <1>1 DEF KeptInv, Served, Given, boundVars
  <1>4. rep'.doomed = {}
    BY <1>1 DEF Settled, IdleRep, IInv, TypeOK
  <1>5. \A r \in Requests : bundle[r].opk # nextOpk
    BY Typing DEF IInv, Numbered, TypeOK
  <1>6. Reservations'
    BY <1>1, <1>4, <1>5 DEF KeptInv, Reservations, Owed, boundVars
  <1> QED BY <1>2, <1>3, <1>6 DEF KeptInv

LEMMA FetchKept == ASSUME IInv, KeptInv, NEW r \in Requests, Fetch(r) PROVE KeptInv'
  <1>1. /\ role[r] = "none" /\ role' = [role EXCEPT ![r] = "serve"]
        /\ step' = [step EXCEPT ![r] = "read"]
        /\ UNCHANGED <<spkVars, storeVars, boundVars, rep, seen, bundle, kind, saved>>
    BY DEF Fetch, StepTo
  <1>2. \A q \in Requests :
          /\ role'[q] = IF q = r THEN "serve" ELSE role[q]
          /\ step'[q] = IF q = r THEN "read" ELSE step[q]
    BY <1>1 DEF IInv, TypeOK
  <1>3. Served'
    BY <1>1, <1>2 DEF KeptInv, Served, Given, boundVars
  <1>4. Reservations'
    BY <1>1 DEF KeptInv, Reservations, Owed, boundVars, storeVars
  <1>5. Rows'
    BY <1>1, <1>2 DEF KeptInv, Rows, Given, boundVars, spkVars
  <1>6. ~overlapped' => Rotation' /\ Traced'
    BY <1>1, <1>2 DEF KeptInv, Rotation, Traced, Given, Rotating, Fresh, boundVars, spkVars
  <1> QED BY <1>3, <1>4, <1>5, <1>6 DEF KeptInv

LEMMA ReadSpkKept == ASSUME IInv, IInv', KeptInv, NEW r \in Requests, ReadSpk(r) PROVE KeptInv'
  <1> DEFINE fresh == spkCurrent # NoSpk /\ now - spkCurrent.at <= SpkMaxAge
  <1>1. /\ step[r] = "read" /\ seen' = [seen EXCEPT ![r] = spkCurrent]
        /\ StepTo(r, IF fresh THEN "opk" ELSE IF spkCurrent = NoSpk THEN "create" ELSE "archive")
        /\ bundle' = IF role[r] = "serve" THEN [bundle EXCEPT ![r].at = now] ELSE bundle
        /\ overlapped' = (overlapped \/ (~fresh /\ \E q \in Requests : Rotating(q)))
        /\ UNCHANGED <<spkCurrent, spkPrevious, nextSpk, storeVars, boundVars, rep, role, kind, saved>>
    BY DEF ReadSpk
  <1>2. \A q \in Requests :
          /\ bundle'[q].spk = bundle[q].spk /\ bundle'[q].opk = bundle[q].opk
          /\ bundle'[q].at \in {now, bundle[q].at}
          /\ Given(q) => bundle'[q].at = bundle[q].at
    <2>1. role[r] = "serve" => ~Given(r)
      BY DEF KeptInv, Served
    <2> QED BY <1>1, <2>1 DEF IInv, TypeOK
  <1>3. \A q \in Requests : q # r => step'[q] = step[q] /\ seen'[q] = seen[q]
    BY <1>1 DEF StepTo, IInv, TypeOK
  <1>4. /\ seen'[r] = spkCurrent
        /\ \/ fresh /\ step'[r] = "opk"
           \/ ~fresh /\ spkCurrent = NoSpk /\ step'[r] = "create"
           \/ ~fresh /\ spkCurrent # NoSpk /\ step'[r] = "archive"
    BY <1>1 DEF StepTo, IInv, TypeOK
  <1>5. Served'
    <2>1. \A q \in Requests :
            /\ step'[q] = "burn" => step[q] = "burn"
            /\ step'[q] = "unwrap" => step[q] = "unwrap"
      BY <1>3, <1>4
    <2>2. now' = now /\ now <= now
      BY <1>1, Typing DEF boundVars
    <2> QED BY <1>1, <1>2, <2>1, <2>2 DEF KeptInv, Served, Given
  <1>6. Reservations'
    <2>1. \A q \in Requests : bundle[q].opk # 0 => bundle'[q].at = bundle[q].at
      BY <1>2 DEF KeptInv, Served
    <2> QED BY <1>1, <1>2, <2>1, Typing DEF KeptInv, Reservations, Owed, boundVars, storeVars
  <1>7. Rows'
    <2>1. fresh => spkCurrent.id # 0
      BY DEF KeptInv, Rows
    <2> QED BY <1>1, <1>2, <1>3, <1>4, <2>1 DEF KeptInv, Rows, Given, boundVars
  <1>8. ASSUME ~overlapped' PROVE Rotation' /\ Traced'
    <2>1. Rotation /\ Traced /\ (~fresh => \A q \in Requests : ~Rotating(q))
      BY <1>1, <1>8 DEF KeptInv
    <2>2. fresh => \A q \in Requests : ~Rotating(q)
      BY <2>1 DEF Rotation, Fresh
    <2>3. Rotation'
      BY <1>1, <1>3, <1>4, <2>1, <2>2 DEF Rotation, Rotating, Fresh, boundVars
    <2>4. Traced'
      BY <1>1, <1>2, <2>1 DEF Traced, Given, boundVars
    <2> QED BY <2>3, <2>4
  <1> QED BY <1>5, <1>6, <1>7, <1>8 DEF KeptInv

(* What a bundle lies behind when its SPK is discarded is a whole period.  *)
LEMMA ArchiveSpkKept ==
  ASSUME IInv, KeptInv, NEW r \in Requests, ArchiveSpk(r) PROVE KeptInv'
  <1>1. /\ step[r] = "archive" /\ spkPrevious' = seen[r] /\ step' = [step EXCEPT ![r] = "create"]
        /\ UNCHANGED <<spkCurrent, nextSpk, overlapped, storeVars, boundVars, rep, role, seen,
                       bundle, kind, saved>>
    BY DEF ArchiveSpk, StepTo
  <1>2. \A q \in Requests : step'[q] = IF q = r THEN "create" ELSE step[q]
    BY <1>1 DEF IInv, TypeOK
  <1>3. Served'
    BY <1>1, <1>2 DEF KeptInv, Served, Given, boundVars
  <1>4. Reservations'
    BY <1>1 DEF KeptInv, Reservations, Owed, boundVars, storeVars
  <1>5. Rows'
    BY <1>1, <1>2 DEF KeptInv, Rows, Given, boundVars
  <1>6. ASSUME ~overlapped' PROVE Rotation' /\ Traced'
    <2>1. Rotation /\ Traced
      BY <1>1, <1>6 DEF KeptInv
    <2>2. seen[r] = spkCurrent /\ spkCurrent # NoSpk /\ ~Fresh(spkCurrent) /\ Rotating(r)
      BY <1>1, <2>1 DEF Rotation, Rotating
    <2>3. \A q \in Requests : q # r => ~Rotating(q)
      BY <2>1, <2>2 DEF Rotation
    <2>4. Rotation'
      BY <1>1, <1>2, <2>1, <2>2, <2>3 DEF Rotation, Rotating, Fresh, boundVars
    <2>5. ASSUME NEW q \in Requests, Given(q)
          PROVE  bundle[q].spk = spkCurrent.id \/ now - bundle[q].at > SpkMaxAge
      <3>1. now - spkCurrent.at > SpkMaxAge
        BY <2>2, Typing DEF Fresh
      <3>2. bundle[q].at <= spkCurrent.at => now - bundle[q].at > SpkMaxAge
        BY <3>1, Typing
      <3> QED BY <2>1, <2>5, <3>2 DEF Traced
    <2>6. Traced'
      BY <1>1, <2>5 DEF Traced, Given, boundVars
    <2> QED BY <2>4, <2>6
  <1> QED BY <1>3, <1>4, <1>5, <1>6 DEF KeptInv

LEMMA CreateSpkKept ==
  ASSUME IInv, IInv', KeptInv, NEW r \in Requests, CreateSpk(r) PROVE KeptInv'
  <1>1. /\ step[r] = "create" /\ spkCurrent' = [id |-> nextSpk, at |-> now]
        /\ nextSpk' = nextSpk + 1 /\ seen' = [seen EXCEPT ![r] = spkCurrent']
        /\ step' = [step EXCEPT ![r] = "opk"]
        /\ UNCHANGED <<spkPrevious, overlapped, storeVars, boundVars, rep, role, bundle, kind, saved>>
    BY DEF CreateSpk, StepTo
  <1>2. \A q \in Requests :
          /\ step'[q] = IF q = r THEN "opk" ELSE step[q]
          /\ seen'[q] = IF q = r THEN spkCurrent' ELSE seen[q]
    BY <1>1 DEF IInv, TypeOK
  <1>3. /\ spkCurrent'.id = nextSpk /\ spkCurrent'.at = now /\ nextSpk >= 1
        /\ spkCurrent' # NoSpk /\ now - now <= SpkMaxAge /\ now <= now
    BY <1>1, Typing DEF KeptInv, Rows, NoSpk
  <1>4. Served'
    BY <1>1, <1>2 DEF KeptInv, Served, Given, boundVars
  <1>5. Reservations'
    BY <1>1 DEF KeptInv, Reservations, Owed, boundVars, storeVars
  <1>6. Rows'
    BY <1>1, <1>2, <1>3, Typing DEF KeptInv, Rows, boundVars
  <1>7. ASSUME ~overlapped' PROVE Rotation' /\ Traced'
    <2>1. Rotation /\ Traced
      BY <1>1, <1>7 DEF KeptInv
    <2>2. Rotating(r) /\ ~Fresh(spkCurrent) /\ (spkCurrent = NoSpk \/ spkPrevious = spkCurrent)
      BY <1>1, <2>1 DEF Rotation, Rotating
    <2>3. \A q \in Requests : q # r => ~Rotating(q) /\ step[q] # "opk"
      BY <2>1, <2>2 DEF Rotation
    <2>4. Rotation'
      BY <1>1, <1>2, <1>3, <2>3 DEF Rotation, Rotating, Fresh, boundVars
    <2>5. ASSUME NEW q \in Requests, Given(q)
          PROVE  \/ bundle[q].spk = spkPrevious.id /\ bundle[q].at <= now
                 \/ now - bundle[q].at > SpkMaxAge
      <3>1. spkCurrent # NoSpk
        BY <2>5 DEF KeptInv, Rows, NoSpk
      <3>2. bundle[q].at <= now
        BY DEF KeptInv, Served
      <3> QED BY <2>1, <2>2, <2>5, <3>1, <3>2 DEF Traced
    <2>6. Traced'
      BY <1>1, <1>3, <2>5 DEF Traced, Given, boundVars
    <2> QED BY <2>4, <2>6
  <1> QED BY <1>4, <1>5, <1>6, <1>7 DEF KeptInv

(* The OPK that a bundle takes is marked as of now, which is not earlier.  *)
LEMMA ReserveKept ==
  ASSUME IInv, IInv', KeptInv, NEW r \in Requests, Reserve(r) PROVE KeptInv'
  <1>1. PICK k \in NextOpks :
          /\ bundle' = [bundle EXCEPT ![r].spk = seen[r].id, ![r].opk = k]
          /\ reservedAt' = [o \in OpkIds |-> IF o = k THEN now ELSE reservedAt[o]]
    BY DEF Reserve
  <1>2. /\ role[r] = "serve" /\ step[r] = "opk" /\ rep' = Triggered
        /\ role' = [role EXCEPT ![r] = "held"] /\ step' = [step EXCEPT ![r] = "idle"]
        /\ seen' = [seen EXCEPT ![r] = NoSpk]
        /\ UNCHANGED <<opks, nextOpk, spkVars, boundVars, kind, saved>>
    BY DEF Reserve, Finish, StepTo
  <1>3. k = 0 \/ (k \in opks /\ reservedAt[k] = 0)
    BY <1>1 DEF NextOpks, Available
  <1>4. \A q \in Requests :
          /\ bundle'[q].at = bundle[q].at
          /\ bundle'[q].spk = IF q = r THEN seen[r].id ELSE bundle[q].spk
          /\ bundle'[q].opk = IF q = r THEN k ELSE bundle[q].opk
          /\ role'[q] = IF q = r THEN "held" ELSE role[q]
          /\ step'[q] = IF q = r THEN "idle" ELSE step[q]
          /\ seen'[q] = IF q = r THEN NoSpk ELSE seen[q]
    BY <1>1, <1>2 DEF IInv, TypeOK
  <1>5. seen[r].id # 0 /\ spkCurrent.id # 0 /\ bundle[r].at <= now
    BY <1>2 DEF KeptInv, Rows, Served
  <1>6. Served'
    BY <1>2, <1>4, <1>5 DEF KeptInv, Served, Given, boundVars
  <1>7. Reservations'
    <2>1. \A o \in opks : reservedAt'[o] = IF o = k THEN now ELSE reservedAt[o]
      BY <1>1, Typing
    <2>2. rep'.doomed \subseteq rep.doomed
      BY <1>2 DEF Triggered, StartRep
    <2>3. ASSUME NEW o \in rep'.doomed \cap opks
          PROVE  reservedAt'[o] # 0 /\ now - reservedAt'[o] >= OpkTTL
      <3>1. o \in opks /\ reservedAt[o] # 0 /\ now - reservedAt[o] >= OpkTTL
        BY <2>2 DEF KeptInv, Reservations
      <3>2. o # k
        BY <1>3, <3>1, Typing
      <3>3. reservedAt'[o] = reservedAt[o]
        BY <2>1, <3>1, <3>2
      <3> QED BY <3>1, <3>3
    <2>4. ASSUME NEW q \in Requests, bundle'[q].opk \in opks
          PROVE  reservedAt'[bundle'[q].opk] >= bundle'[q].at
      <3>1. CASE bundle'[q].opk = k
        <4>1. bundle'[q].at <= now
          BY <1>4 DEF KeptInv, Served
        <4>2. reservedAt'[k] = now
          BY <2>1, <2>4, <3>1
        <4> QED BY <3>1, <4>1, <4>2, <1>4, Typing
      <3>2. CASE bundle'[q].opk # k
        BY <1>4, <2>1, <2>4, <3>2 DEF KeptInv, Reservations
      <3> QED BY <3>1, <3>2
    <2>5. ASSUME NEW q \in Requests, bundle'[q].opk # 0, now - bundle'[q].at < OpkTTL,
                 kind[q] # "session", ~saved[q]
          PROVE  bundle'[q].opk \in opks
      <3>1. CASE q = r
        BY <1>3, <1>4, <2>5, <3>1
      <3>2. CASE q # r
        BY <1>4, <2>5, <3>2 DEF KeptInv, Reservations, Owed
      <3> QED BY <3>1, <3>2
    <2> QED BY <1>2, <2>3, <2>4, <2>5 DEF Reservations, Owed, boundVars
  <1>8. Rows'
    BY <1>2, <1>4, <1>5 DEF KeptInv, Rows, Given, spkVars, boundVars
  <1>9. ASSUME ~overlapped' PROVE Rotation' /\ Traced'
    <2>1. Rotation /\ Traced
      BY <1>2, <1>9 DEF KeptInv, spkVars
    <2>2. seen[r] = spkCurrent
      BY <1>2, <2>1 DEF Rotation
    <2>3. Rotation'
      BY <1>2, <1>4, <2>1 DEF Rotation, Rotating, Fresh, spkVars, boundVars
    <2>4. Traced'
      BY <1>2, <1>4, <2>1, <2>2 DEF Traced, Given, spkVars, boundVars
    <2> QED BY <2>3, <2>4
  <1> QED BY <1>6, <1>7, <1>8, <1>9 DEF KeptInv

(* The handlers of an initiation do not write SPK rows, and none of them   *)
(* goes back to a step that does.                                          *)
LEMMA SameHandlers ==
  ASSUME IInv, IInv', KeptInv, NEW r \in Requests, now' = now,
         UNCHANGED <<spkVars, bundle>>, step'[r] \in {"idle", "read", "unwrap", "burn"},
         \A q \in Requests : q # r => step'[q] = step[q] /\ seen'[q] = seen[q]
  PROVE  Rows' /\ (~overlapped' => Rotation' /\ Traced')
  <1>1. Rows'
    BY DEF KeptInv, Rows, Given, spkVars
  <1>2. ASSUME ~overlapped' PROVE Rotation' /\ Traced'
    <2>1. Rotation /\ Traced
      BY <1>2 DEF KeptInv, spkVars
    <2>2. Rotation'
      BY <2>1 DEF Rotation, Rotating, Fresh, spkVars
    <2>3. Traced'
      BY <2>1 DEF Traced, Given, spkVars
    <2> QED BY <2>2, <2>3
  <1> QED BY <1>1, <1>2

(* Where a handler leaves its request.                                     *)
LEMMA Left ==
  ASSUME IInv, NEW r \in Requests, NEW o, Finish(r, o)
  PROVE  \A q \in Requests :
           /\ role'[q] = IF q = r THEN o ELSE role[q]
           /\ step'[q] = IF q = r THEN "idle" ELSE step[q]
           /\ q # r => seen'[q] = seen[q]
  BY DEF Finish, StepTo, IInv, TypeOK

LEMMA Continued ==
  ASSUME IInv, NEW r \in Requests, NEW s, Continue(r, s)
  PROVE  \A q \in Requests :
           /\ role'[q] = role[q] /\ seen'[q] = seen[q]
           /\ step'[q] = IF q = r THEN s ELSE step[q]
  BY DEF Continue, StepTo, IInv, TypeOK

LEMMA InitArrivesKept ==
  ASSUME IInv, IInv', KeptInv, NEW r \in Requests, NEW k \in {"session", "group"},
         InitArrives(r, k)
  PROVE  KeptInv'
  <1>1. /\ role[r] = "held" /\ kind[r] \in {"none", k} /\ kind' = [kind EXCEPT ![r] = k]
        /\ UNCHANGED <<spkVars, storeVars, boundVars, rep, bundle, saved>>
    BY DEF InitArrives
  <1>2. /\ role'[r] \in {"ok", "recv"} /\ step'[r] \in {"idle", "read"}
        /\ \A q \in Requests :
             q # r => role'[q] = role[q] /\ step'[q] = step[q] /\ seen'[q] = seen[q]
    <2>1. CASE k = "group" /\ saved[r]
      BY <2>1, Left DEF InitArrives
    <2>2. CASE ~(k = "group" /\ saved[r])
      BY <2>2 DEF InitArrives, StepTo, IInv, TypeOK
    <2> QED BY <2>1, <2>2
  <1>3. \A q \in Requests : kind'[q] = IF q = r THEN k ELSE kind[q]
    BY <1>1 DEF IInv, TypeOK
  <1>4. Rows' /\ (~overlapped' => Rotation' /\ Traced')
    BY <1>1, <1>2, SameHandlers DEF boundVars
  <1>5. Served'
    BY <1>1, <1>2, <1>3 DEF KeptInv, Served, Given, boundVars
  <1>6. Reservations'
    BY <1>1, <1>3 DEF KeptInv, Reservations, Owed, boundVars, storeVars
  <1> QED BY <1>4, <1>5, <1>6 DEF KeptInv

(* A burn takes no OPK from another request.                               *)
LEMMA BurnKept ==
  ASSUME IInv, IInv', KeptInv, NEW r \in Requests, Burn(bundle[r].opk), ~Owed(r),
         UNCHANGED <<boundVars, bundle, kind, saved>>
  PROVE  Reservations'
  <1> DEFINE k == bundle[r].opk
  <1>1. /\ opks' = opks \ {k} /\ \A o \in opks' : reservedAt'[o] = reservedAt[o]
        /\ rep'.doomed \subseteq rep.doomed
    BY Typing DEF Burn, Delete, Triggered, StartRep
  <1>2. \A q \in Requests : Owed(q) => bundle[q].opk # k
    BY DEF IInv, OpkServedOnce, Owed
  <1> HIDE DEF k
  <1> QED BY <1>1, <1>2 DEF KeptInv, Reservations, Owed, boundVars

LEMMA SessionInitKept ==
  ASSUME IInv, IInv', KeptInv, NEW r \in Requests, SessionInit(r) PROVE KeptInv'
  <1>1. /\ role[r] = "recv" /\ kind[r] = "session" /\ Burn(bundle[r].opk)
        /\ UNCHANGED <<nextOpk, spkVars, boundVars, bundle, kind, saved>>
        /\ \E o \in {"noOpk", "mismatch", "ok"} : Finish(r, o)
    BY DEF SessionInit
  <1>2. PICK o \in {"noOpk", "mismatch", "ok"} : Finish(r, o)
    BY <1>1
  <1>3. \A q \in Requests :
          /\ role'[q] = IF q = r THEN o ELSE role[q]
          /\ step'[q] = IF q = r THEN "idle" ELSE step[q]
          /\ q # r => seen'[q] = seen[q]
    BY <1>2, Left
  <1>4. Rows' /\ (~overlapped' => Rotation' /\ Traced')
    BY <1>1, <1>3, SameHandlers DEF boundVars
  <1>5. Served'
    BY <1>1, <1>3 DEF KeptInv, Served, Given, boundVars
  <1>6. Reservations'
    BY <1>1, BurnKept DEF Owed
  <1> QED BY <1>4, <1>5, <1>6 DEF KeptInv

LEMMA GroupReadKept ==
  ASSUME IInv, IInv', KeptInv, NEW r \in Requests, GroupRead(r) PROVE KeptInv'
  <1>1. /\ role[r] = "recv" /\ kind[r] = "group" /\ (Finish(r, "noOpk") \/ Continue(r, "unwrap"))
        /\ UNCHANGED <<storeVars, rep, spkVars, boundVars, bundle, kind, saved>>
    BY DEF GroupRead
  <1>2. /\ role'[r] \in {"noOpk", "recv"} /\ step'[r] \in {"idle", "unwrap"}
        /\ \A q \in Requests :
             q # r => role'[q] = role[q] /\ step'[q] = step[q] /\ seen'[q] = seen[q]
    BY <1>1, Left, Continued
  <1>3. Rows' /\ (~overlapped' => Rotation' /\ Traced')
    BY <1>1, <1>2, SameHandlers DEF boundVars
  <1>4. Served'
    BY <1>1, <1>2 DEF KeptInv, Served, Given, boundVars
  <1>5. Reservations'
    BY <1>1 DEF KeptInv, Reservations, Owed, boundVars, storeVars
  <1> QED BY <1>3, <1>4, <1>5 DEF KeptInv

(* Only a request of the group handler unwraps.                            *)
LEMMA GroupUnwrapKept ==
  ASSUME IInv, IInv', KeptInv, NEW r \in Requests, GroupUnwrap(r) PROVE KeptInv'
  <1>1. /\ role[r] = "recv" /\ step[r] = "unwrap"
        /\ UNCHANGED <<storeVars, rep, spkVars, boundVars, bundle, kind>>
        /\ \/ Finish(r, "mismatch") /\ saved' = saved
           \/ Continue(r, "burn") /\ saved' = [saved EXCEPT ![r] = TRUE]
    BY DEF GroupUnwrap
  <1>2. /\ role'[r] \in {"mismatch", "recv"} /\ step'[r] \in {"idle", "burn"}
        /\ step'[r] = "burn" => saved'[r]
        /\ \A q \in Requests : saved[q] => saved'[q]
        /\ \A q \in Requests :
             q # r => /\ role'[q] = role[q] /\ step'[q] = step[q] /\ seen'[q] = seen[q]
                      /\ saved'[q] = saved[q]
    BY <1>1, Left, Continued DEF IInv, TypeOK
  <1>3. Rows' /\ (~overlapped' => Rotation' /\ Traced')
    BY <1>1, <1>2, SameHandlers DEF boundVars
  <1>4. kind[r] = "group"
    BY <1>1 DEF KeptInv, Served
  <1>5. Served'
    BY <1>1, <1>2, <1>4 DEF KeptInv, Served, Given, boundVars
  <1>6. Reservations'
    BY <1>1, <1>2 DEF KeptInv, Reservations, Owed, boundVars, storeVars
  <1> QED BY <1>3, <1>5, <1>6 DEF KeptInv

LEMMA GroupBurnKept ==
  ASSUME IInv, IInv', KeptInv, NEW r \in Requests, GroupBurn(r) PROVE KeptInv'
  <1>1. /\ role[r] = "recv" /\ step[r] = "burn" /\ Burn(bundle[r].opk) /\ Finish(r, "ok")
        /\ UNCHANGED <<nextOpk, spkVars, boundVars, bundle, kind, saved>>
    BY DEF GroupBurn
  <1>2. \A q \in Requests :
          /\ role'[q] = IF q = r THEN "ok" ELSE role[q]
          /\ step'[q] = IF q = r THEN "idle" ELSE step[q]
          /\ q # r => seen'[q] = seen[q]
    BY <1>1, Left
  <1>3. saved[r]
    BY <1>1 DEF KeptInv, Served
  <1>4. Rows' /\ (~overlapped' => Rotation' /\ Traced')
    BY <1>1, <1>2, SameHandlers DEF boundVars
  <1>5. Served'
    BY <1>1, <1>2 DEF KeptInv, Served, Given, boundVars
  <1>6. Reservations'
    BY <1>1, <1>3, BurnKept DEF Owed
  <1> QED BY <1>4, <1>5, <1>6 DEF KeptInv

LEMMA ReplayKept == ASSUME IInv, KeptInv, NEW r \in Requests, Replay(r) PROVE KeptInv'
  <1>1. /\ kind[r] = "group" /\ role' = [role EXCEPT ![r] = "held"]
        /\ UNCHANGED <<now, crashes, spkVars, storeVars, rep, step, seen, bundle, kind, saved>>
    BY DEF Replay
  <1>2. \A q \in Requests : role'[q] = IF q = r THEN "held" ELSE role[q]
    BY <1>1 DEF IInv, TypeOK
  <1>3. Rows' /\ (~overlapped' => Rotation' /\ Traced')
    BY <1>1, SameRows
  <1>4. Served'
    BY <1>1, <1>2 DEF KeptInv, Served, Given
  <1>5. Reservations'
    BY <1>1 DEF KeptInv, Reservations, Owed, storeVars
  <1> QED BY <1>3, <1>4, <1>5 DEF KeptInv

(* Time passes between rotations and replenish runs: what is owed or       *)
(* retained only becomes less.                                             *)
LEMMA TickKept == ASSUME IInv, IInv', KeptInv, Tick PROVE KeptInv'
  <1>1. /\ now' = now + 1 /\ rep = IdleRep /\ \A r \in Requests : step[r] = "idle"
        /\ UNCHANGED <<crashes, replays, spkVars, storeVars, rep, role, step, seen, bundle,
                       kind, saved>>
    BY DEF Tick
  <1>2. Served'
    BY <1>1, Typing DEF KeptInv, Served, Given
  <1>3. Reservations'
    BY <1>1, Typing DEF KeptInv, Reservations, Owed, storeVars, IdleRep
  <1>4. Rows'
    BY <1>1, Typing DEF KeptInv, Rows, Given, spkVars
  <1>5. ASSUME ~overlapped' PROVE Rotation' /\ Traced'
    <2>1. Rotation /\ Traced
      BY <1>1, <1>5 DEF KeptInv, spkVars
    <2>2. Rotation'
      BY <1>1 DEF Rotation, Rotating
    <2>3. Traced'
      BY <1>1, <2>1, Typing DEF Traced, Given, spkVars
    <2> QED BY <2>2, <2>3
  <1> QED BY <1>2, <1>3, <1>4, <1>5 DEF KeptInv

(* A restart leaves the rows as they are, half of a rotation included.     *)
LEMMA CrashKept == ASSUME IInv, KeptInv, Crash PROVE KeptInv'
  <1>1. /\ role' = [r \in Requests |-> IF role[r] \in {"serve", "recv"} THEN "lost" ELSE role[r]]
        /\ step' = [r \in Requests |-> "idle"] /\ rep' = StartRep
        /\ UNCHANGED <<now, replays, spkVars, storeVars, bundle, kind, saved>>
    BY DEF Crash
  <1>2. Served'
    BY <1>1 DEF KeptInv, Served, Given
  <1>3. Reservations'
    BY <1>1 DEF KeptInv, Reservations, Owed, storeVars, StartRep
  <1>4. Rows'
    BY <1>1 DEF KeptInv, Rows, Given, spkVars
  <1>5. ~overlapped' => Rotation' /\ Traced'
    BY <1>1 DEF KeptInv, Rotation, Traced, Given, Rotating, spkVars
  <1> QED BY <1>2, <1>3, <1>4, <1>5 DEF KeptInv

LEMMA NextKept == ASSUME IInv, KeptInv, [Next]_vars PROVE KeptInv'
  <1>1. IInv'
    BY NextIInv
  <1>2. CASE UNCHANGED vars
    BY <1>2 DEF vars, KeptInv, Served, Reservations, Rows, Rotation, Traced, Given, Owed,
                Rotating, Fresh
  <1>3. CASE Snapshot \/ DropExpired \/ Fill \/ Tick \/ Crash
    BY <1>1, <1>3, SnapshotKept, DropExpiredKept, FillKept, TickKept, CrashKept
  <1>4. ASSUME NEW r \in Requests,
               \/ Fetch(r) \/ ReadSpk(r) \/ ArchiveSpk(r) \/ CreateSpk(r) \/ Reserve(r)
        PROVE  KeptInv'
    BY <1>1, <1>4, FetchKept, ReadSpkKept, ArchiveSpkKept, CreateSpkKept, ReserveKept
  <1>5. ASSUME NEW r \in Requests,
               \/ \E k \in {"session", "group"} : InitArrives(r, k)
               \/ SessionInit(r) \/ GroupRead(r) \/ GroupUnwrap(r) \/ GroupBurn(r)
               \/ Replay(r)
        PROVE  KeptInv'
    BY <1>1, <1>5, InitArrivesKept, SessionInitKept, GroupReadKept, GroupUnwrapKept,
       GroupBurnKept, ReplayKept
  <1> QED BY <1>2, <1>3, <1>4, <1>5 DEF Next

LEMMA KeptInductive == Spec => [](IInv /\ KeptInv)
  <1>1. Init => IInv /\ KeptInv
    BY InitIInv, InitKept
  <1>2. (IInv /\ KeptInv) /\ [Next]_vars => (IInv /\ KeptInv)'
    BY NextIInv, NextKept
  <1> QED BY <1>1, <1>2, PTL DEF Spec

-----------------------------------------------------------------------------

(* The state stays within its types; in particular the number of OPKs the  *)
(* replenish run has still to add (prekey.ts:126) is never negative.       *)
THEOREM TypeCorrect == Spec => []TypeOK
  <1>1. IInv => TypeOK
    BY DEF IInv
  <1> QED BY <1>1, Inductive, PTL

(* reserveOPK hands every one-time pre-key to at most one remote peer,     *)
(* whatever is burned, expired, replenished or restarted in between.       *)
THEOREM OneUsePerPreKey == Spec => []OpkServedOnce
  <1>1. IInv => OpkServedOnce
    BY DEF IInv
  <1> QED BY <1>1, Inductive, PTL

(* The store holds at most OPK_MAX_STORED one-time pre-keys, for any pool  *)
(* size and any cap.                                                       *)
THEOREM StoreIsBounded == Spec => []StoreBound
  <1>1. IInv => StoreBound
    BY DEF IInv, Budget, StoreBound
  <1> QED BY <1>1, Inductive, PTL

(* A one-time pre-key that a bundle carried to a remote peer is there when *)
(* the initiation comes, unless its reservation has expired meanwhile      *)
(* (prekey.ts:120), whatever else is burned, dropped or restarted.     *)
THEOREM HandedOutOpksStay == Spec => []HandedOutKept
  <1>1. IInv /\ KeptInv => HandedOutKept
    BY DEF KeptInv, Served, Reservations, Owed, HandedOutKept
  <1> QED BY <1>1, KeptInductive, PTL

(* A group key that could not be unwrapped costs no pre-key (groups.ts):   *)
(* the OPK is there for the retry, in any number of deliveries.            *)
THEOREM FailedUnwrapsKeepOpks == Spec => []FailedUnwrapKeepsOpk
  <1>1. IInv /\ KeptInv => FailedUnwrapKeepsOpk
    BY DEF KeptInv, Reservations, Owed, FailedUnwrapKeepsOpk
  <1> QED BY <1>1, KeptInductive, PTL

(* While rotations of the SPK do not overlap, the two stored SPKs are      *)
(* enough for every bundle of the last rotation period (prekey.ts:59-60).  *)
THEOREM ServedSpksStay == Spec => []ServedSpkKept
  <1>1. ASSUME IInv, KeptInv, ~overlapped, NEW r \in Requests, Outstanding(r)
        PROVE  Retained(bundle[r].spk)
    <2>1. Given(r)
      BY <1>1 DEF KeptInv, Served, Outstanding
    <2>2. ~(now - bundle[r].at > SpkMaxAge)
      BY <1>1, Typing DEF Outstanding
    <2> QED BY <1>1, <2>1, <2>2 DEF KeptInv, Traced, Retained
  <1>2. IInv /\ KeptInv => ServedSpkKept
    BY <1>1 DEF ServedSpkKept
  <1> QED BY <1>2, KeptInductive, PTL
=============================================================================
