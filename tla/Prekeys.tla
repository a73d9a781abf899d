------------------------------ MODULE Prekeys ------------------------------
(***************************************************************************)
(* The pre-key store of one device (packages/core/src/prekey.ts) and the   *)
(* two handlers that consume it: x3dh-init (useKant.ts) and the group-key  *)
(* handler (groups.ts).  A remote peer fetches a bundle (a signed pre-key  *)
(* and, if the pool has one, a one-time pre-key), and later sends an       *)
(* initiation made with it.                                                *)
(*                                                                         *)
(* A single IndexedDB transaction is one step; everything between two      *)
(* awaits of different handlers interleaves.  SPKs and OPKs are numbered   *)
(* in the order of their creation, 0 being "none".                         *)
(***************************************************************************)
EXTENDS Integers, FiniteSets, FiniteSetsExt

CONSTANTS
  Requests,    \* bundle fetches by remote peers
  PoolSize,    \* OPK_POOL_SIZE
  MaxStored,   \* OPK_MAX_STORED
  SpkMaxAge,   \* SPK_MAX_AGE_MS, in ticks
  OpkTTL,      \* OPK_RESERVATION_TTL_MS, in ticks
  MaxTime, MaxOpks, MaxCrashes, MaxReplays   \* bounds of the exploration

ASSUME PrekeysAssumption ==
  /\ {PoolSize, MaxStored, SpkMaxAge, OpkTTL} \subseteq Nat \ {0}
  /\ MaxTime \in Nat \ {0}
  /\ {MaxOpks, MaxCrashes, MaxReplays} \subseteq Nat

VARIABLES
  now,          \* the wall clock
  spkCurrent, spkPrevious,  \* the two SPK rows: an id and its creation time
  nextSpk,      \* history: ids of SPKs generated so far
  opks,         \* ids of the stored OPKs
  nextOpk,      \* ids of OPKs generated so far
  reservedAt,   \* reservation time of an OPK, 0 if it is available
  rep,          \* the replenish run in flight: phase, doomed, needed
  role,         \* where a request is
  step,         \* where the handler that works for it is
  seen,         \* the SPK that handler has read or created
  bundle,       \* what the remote peer was served
  kind,         \* which handler receives the initiation
  saved,        \* the group key of this delivery is persisted
  overlapped,   \* history: two SPK rotations overlapped
  crashes, replays

storeVars == <<opks, nextOpk, reservedAt>>
spkVars == <<spkCurrent, spkPrevious, nextSpk, overlapped>>
boundVars == <<now, crashes, replays>>
vars == <<now, spkCurrent, spkPrevious, nextSpk, opks, nextOpk, reservedAt,
          rep, role, step, seen, bundle, kind, saved, overlapped, crashes,
          replays>>

SPK == [id : Nat, at : Nat]
NoSpk == [id |-> 0, at |-> 0]
IdleRep == [phase |-> "idle", doomed |-> {}, needed |-> 0]
StartRep == [phase |-> "start", doomed |-> {}, needed |-> 0]
OpkIds == 1..MaxOpks
Outcomes == {"ok", "mismatch", "noOpk", "lost"}

Available == {k \in opks : reservedAt[k] = 0}

TypeOK ==
  /\ now \in 1..MaxTime
  /\ spkCurrent \in SPK /\ spkPrevious \in SPK
  /\ nextSpk \in Nat
  /\ opks \subseteq OpkIds
  /\ nextOpk \in 1..(MaxOpks + 1)
  /\ reservedAt \in [OpkIds -> 0..MaxTime]
  /\ rep \in [phase : {"idle", "start", "work"}, doomed : SUBSET OpkIds,
              needed : Nat]
  /\ role \in [Requests -> {"none", "serve", "held", "recv"} \cup Outcomes]
  /\ step \in [Requests -> {"idle", "read", "archive", "create", "opk",
                            "unwrap", "burn"}]
  /\ seen \in [Requests -> SPK]
  /\ bundle \in [Requests -> [spk : Nat, opk : {0} \cup OpkIds, at : Nat]]
  /\ kind \in [Requests -> {"none", "session", "group"}]
  /\ saved \in [Requests -> BOOLEAN]
  /\ overlapped \in BOOLEAN
  /\ crashes \in 0..MaxCrashes /\ replays \in 0..MaxReplays

(* The node has started: registerPrekeyHandler replenishes the pool.       *)
Init ==
  /\ now = 1
  /\ spkCurrent = NoSpk /\ spkPrevious = NoSpk /\ nextSpk = 1
  /\ opks = {} /\ nextOpk = 1
  /\ reservedAt = [k \in OpkIds |-> 0]
  /\ rep = StartRep
  /\ role = [r \in Requests |-> "none"]
  /\ step = [r \in Requests |-> "idle"]
  /\ seen = [r \in Requests |-> NoSpk]
  /\ bundle = [r \in Requests |-> [spk |-> 0, opk |-> 0, at |-> 0]]
  /\ kind = [r \in Requests |-> "none"]
  /\ saved = [r \in Requests |-> FALSE]
  /\ overlapped = FALSE
  /\ crashes = 0 /\ replays = 0

-----------------------------------------------------------------------------
(* The OPK pool.                                                           *)

(* replenishOPKPool: callers share the run that is already in flight.      *)
Triggered == IF rep.phase = "idle" THEN StartRep ELSE rep

ExpiredNow ==
  {k \in opks : reservedAt[k] # 0 /\ now - reservedAt[k] >= OpkTTL}

(* Plausible bugs: the store cap is forgotten, or every reservation is     *)
(* taken for an expired one.                                               *)
SnapshotUncapped ==
  /\ rep.phase = "start"
  /\ LET needed == PoolSize - Cardinality(Available)
     IN rep' = IF needed = 0 /\ ExpiredNow = {} THEN IdleRep
               ELSE [phase |-> "work", doomed |-> ExpiredNow,
                     needed |-> needed]
  /\ UNCHANGED <<storeVars, spkVars, boundVars, role, step, seen, bundle, kind,
                 saved>>

SnapshotDropsReserved ==
  /\ rep.phase = "start"
  /\ LET doomed == opks \ Available
         needed == Min({PoolSize - Cardinality(Available),
                        MaxStored - Cardinality(Available)})
     IN rep' = IF needed = 0 /\ doomed = {} THEN IdleRep
               ELSE [phase |-> "work", doomed |-> doomed,
                     needed |-> needed]
  /\ UNCHANGED <<storeVars, spkVars, boundVars, role, step, seen, bundle, kind,
                 saved>>

(* The getAll of replenishOPKPoolUnlocked and the arithmetic on its result.*)
(* Its early return for needed <= 0 is a return for needed = 0: TypeOK says *)
(* that needed is never negative, since only this run adds OPKs.           *)
Snapshot ==
  /\ rep.phase = "start"
  /\ LET active == opks \ ExpiredNow
         needed == Min({PoolSize - Cardinality(Available),
                        MaxStored - Cardinality(active)})
     IN rep' = IF needed = 0 /\ ExpiredNow = {} THEN IdleRep
               ELSE [phase |-> "work", doomed |-> ExpiredNow,
                     needed |-> needed]
  /\ UNCHANGED <<storeVars, spkVars, boundVars, role, step, seen, bundle, kind,
                 saved>>

Delete(k) ==
  /\ opks' = opks \ {k}
  /\ reservedAt' = [o \in OpkIds |-> IF o = k THEN 0 ELSE reservedAt[o]]

Settled(r) == IF r.doomed = {} /\ r.needed = 0 THEN IdleRep ELSE r

(* One idbDelete of the expired reservations.                              *)
DropExpired ==
  /\ rep.phase = "work"
  /\ \E k \in rep.doomed :
       /\ Delete(k)
       /\ rep' = Settled([rep EXCEPT !.doomed = @ \ {k}])
  /\ UNCHANGED <<nextOpk, spkVars, boundVars, role, step, seen, bundle, kind,
                 saved>>

(* A plausible bug: the loop runs once too often.                          *)
FillOneTooMany ==
  /\ rep.phase = "work" /\ rep.doomed = {} /\ rep.needed >= 0
  /\ nextOpk <= MaxOpks
  /\ opks' = opks \cup {nextOpk}
  /\ nextOpk' = nextOpk + 1
  /\ rep' = IF rep.needed = 0 THEN IdleRep ELSE [rep EXCEPT !.needed = @ - 1]
  /\ UNCHANGED <<reservedAt, spkVars, boundVars, role, step, seen, bundle,
                 kind, saved>>

(* One idbPut of a fresh OPK.                                              *)
Fill ==
  /\ rep.phase = "work" /\ rep.doomed = {} /\ rep.needed > 0
  /\ nextOpk <= MaxOpks
  /\ opks' = opks \cup {nextOpk}
  /\ nextOpk' = nextOpk + 1
  /\ rep' = Settled([rep EXCEPT !.needed = @ - 1])
  /\ UNCHANGED <<reservedAt, spkVars, boundVars, role, step, seen, bundle,
                 kind, saved>>

-----------------------------------------------------------------------------
(* getOrCreateSPK, on behalf of a request being served or received.        *)

StepTo(r, s) == step' = [step EXCEPT ![r] = s]

Finish(r, outcome) ==
  /\ role' = [role EXCEPT ![r] = outcome]
  /\ StepTo(r, "idle")
  /\ seen' = [seen EXCEPT ![r] = NoSpk]

Continue(r, s) == StepTo(r, s) /\ UNCHANGED <<role, seen>>

Rotating(r) == step[r] \in {"archive", "create"}

(* Read spk_current: use it while it is fresh, else rotate.                *)
ReadSpk(r) ==
  /\ step[r] = "read"
  /\ seen' = [seen EXCEPT ![r] = spkCurrent]
  /\ LET fresh == spkCurrent # NoSpk /\ now - spkCurrent.at <= SpkMaxAge
     IN /\ StepTo(r, IF fresh THEN "opk"
                     ELSE IF spkCurrent = NoSpk THEN "create" ELSE "archive")
        /\ bundle' = IF role[r] = "serve"
                     THEN [bundle EXCEPT ![r].at = now] ELSE bundle
        /\ overlapped' = (overlapped \/ (~fresh /\ \E q \in Requests : Rotating(q)))
  /\ UNCHANGED <<spkCurrent, spkPrevious, nextSpk, storeVars, boundVars, rep,
                 role, kind, saved>>

(* A plausible bug: the rotation forgets to keep the old SPK.              *)
ArchiveNothing(r) ==
  /\ step[r] = "archive"
  /\ StepTo(r, "create")
  /\ UNCHANGED <<spkVars, storeVars, boundVars, rep, role, seen, bundle, kind,
                 saved>>

(* Put the SPK that was read in spk_previous.                              *)
ArchiveSpk(r) ==
  /\ step[r] = "archive"
  /\ spkPrevious' = seen[r]
  /\ StepTo(r, "create")
  /\ UNCHANGED <<spkCurrent, nextSpk, overlapped, storeVars, boundVars, rep,
                 role, seen, bundle, kind, saved>>

(* Put a new SPK in spk_current, whoever wrote it meanwhile.               *)
CreateSpk(r) ==
  /\ step[r] = "create"
  /\ spkCurrent' = [id |-> nextSpk, at |-> now]
  /\ nextSpk' = nextSpk + 1
  /\ seen' = [seen EXCEPT ![r] = spkCurrent']
  /\ StepTo(r, "opk")
  /\ UNCHANGED <<spkPrevious, overlapped, storeVars, boundVars, rep, role,
                 bundle, kind, saved>>

-----------------------------------------------------------------------------
(* The prekey protocol handler.                                            *)

(* The oldest available OPK, or none.                                      *)
NextOpks == IF Available = {} THEN {0}
            ELSE {k \in Available : \A j \in Available : k <= j}

Fetch(r) ==
  /\ role[r] = "none"
  /\ role' = [role EXCEPT ![r] = "serve"]
  /\ StepTo(r, "read")
  /\ UNCHANGED <<spkVars, storeVars, boundVars, rep, seen, bundle, kind, saved>>

(* A plausible bug: the selected OPK is not marked in the same transaction.*)
ReserveUnmarked(r) ==
  /\ role[r] = "serve" /\ step[r] = "opk"
  /\ \E k \in NextOpks :
       bundle' = [bundle EXCEPT ![r].spk = seen[r].id, ![r].opk = k]
  /\ Finish(r, "held")
  /\ rep' = Triggered
  /\ UNCHANGED <<storeVars, spkVars, boundVars, kind, saved>>

(* reserveOPK takes the oldest available OPK and marks it in one           *)
(* transaction; the bundle goes out and the pool is replenished.           *)
Reserve(r) ==
  /\ role[r] = "serve" /\ step[r] = "opk"
  /\ \E k \in NextOpks :
       /\ bundle' = [bundle EXCEPT ![r].spk = seen[r].id, ![r].opk = k]
       /\ reservedAt' = [o \in OpkIds |-> IF o = k THEN now ELSE reservedAt[o]]
  /\ Finish(r, "held")
  /\ rep' = Triggered
  /\ UNCHANGED <<opks, nextOpk, spkVars, boundVars, kind, saved>>

-----------------------------------------------------------------------------
(* The handlers of an initiation.                                          *)

(* burnOPK: get and delete in one transaction, then replenish.             *)
Burn(k) ==
  /\ Delete(k)
  /\ rep' = IF k \in opks THEN Triggered ELSE rep

(* The initiation arrives; a group key already stored is acknowledged as a *)
(* duplicate before any pre-key is touched.                                *)
InitArrives(r, k) ==
  /\ role[r] = "held"
  /\ kind[r] \in {"none", k}
  /\ kind' = [kind EXCEPT ![r] = k]
  /\ IF k = "group" /\ saved[r]
     THEN Finish(r, "ok")
     ELSE /\ role' = [role EXCEPT ![r] = "recv"]
          /\ StepTo(r, "read")
          /\ UNCHANGED seen
  /\ UNCHANGED <<spkVars, storeVars, boundVars, rep, bundle, saved>>

(* x3dh-init burns the OPK and derives the secret; it is the initiator's   *)
(* only if the handler's SPK is the one the initiator used.                *)
SessionInit(r) ==
  /\ role[r] = "recv" /\ kind[r] = "session" /\ step[r] = "opk"
  /\ LET k == bundle[r].opk
     IN /\ Burn(k)
        /\ Finish(r, IF k # 0 /\ k \notin opks THEN "noOpk"
                     ELSE IF seen[r].id # bundle[r].spk THEN "mismatch"
                     ELSE "ok")
  /\ UNCHANGED <<nextOpk, spkVars, boundVars, bundle, kind, saved>>

(* A plausible bug: the group handler burns the OPK when it reads it.      *)
GroupBurnsFirst(r) ==
  /\ role[r] = "recv" /\ kind[r] = "group" /\ step[r] = "opk"
  /\ LET k == bundle[r].opk
     IN /\ Burn(k)
        /\ IF k # 0 /\ k \notin opks THEN Finish(r, "noOpk")
           ELSE Continue(r, "unwrap")
  /\ UNCHANGED <<nextOpk, spkVars, boundVars, bundle, kind, saved>>

(* The group handler only reads the OPK (getOPK).                          *)
GroupRead(r) ==
  /\ role[r] = "recv" /\ kind[r] = "group" /\ step[r] = "opk"
  /\ IF bundle[r].opk \notin opks \cup {0} THEN Finish(r, "noOpk")
     ELSE Continue(r, "unwrap")
  /\ UNCHANGED <<storeVars, rep, spkVars, boundVars, bundle, kind, saved>>

(* It unwraps the group key and persists it...                             *)
GroupUnwrap(r) ==
  /\ role[r] = "recv" /\ step[r] = "unwrap"
  /\ IF seen[r].id # bundle[r].spk
     THEN Finish(r, "mismatch") /\ UNCHANGED saved
     ELSE /\ saved' = [saved EXCEPT ![r] = TRUE]
          /\ Continue(r, "burn")
  /\ UNCHANGED <<storeVars, rep, spkVars, boundVars, bundle, kind>>

(* ... and only then burns the OPK and acknowledges.                       *)
GroupBurn(r) ==
  /\ role[r] = "recv" /\ step[r] = "burn"
  /\ Burn(bundle[r].opk)
  /\ Finish(r, "ok")
  /\ UNCHANGED <<nextOpk, spkVars, boundVars, bundle, kind, saved>>

-----------------------------------------------------------------------------
(* The environment.                                                        *)

(* A tick is half a day: nothing the program does spans one.               *)
Tick ==
  /\ now < MaxTime
  /\ rep = IdleRep /\ \A r \in Requests : step[r] = "idle"
  /\ now' = now + 1
  /\ UNCHANGED <<crashes, replays, spkVars, storeVars, rep, role, step, seen,
                 bundle, kind, saved>>

(* The sender of a group key repeats the exact envelope when no            *)
(* acknowledgement reached it.                                             *)
Replay(r) ==
  /\ replays < MaxReplays
  /\ kind[r] = "group" /\ role[r] \in Outcomes
  /\ replays' = replays + 1
  /\ role' = [role EXCEPT ![r] = "held"]
  /\ UNCHANGED <<now, crashes, spkVars, storeVars, rep, step, seen, bundle,
                 kind, saved>>

(* The program dies and starts again: the rows survive, the handlers and   *)
(* the replenish run do not, and the start replenishes.                    *)
Crash ==
  /\ crashes < MaxCrashes
  /\ crashes' = crashes + 1
  /\ role' = [r \in Requests |-> IF role[r] \in {"serve", "recv"} THEN "lost"
                                 ELSE role[r]]
  /\ step' = [r \in Requests |-> "idle"]
  /\ seen' = [r \in Requests |-> NoSpk]
  /\ rep' = StartRep
  /\ UNCHANGED <<now, replays, spkVars, storeVars, bundle, kind, saved>>

Next ==
  \/ Snapshot \/ DropExpired \/ Fill
  \/ \E r \in Requests :
       \/ Fetch(r) \/ ReadSpk(r) \/ ArchiveSpk(r) \/ CreateSpk(r) \/ Reserve(r)
       \/ \E k \in {"session", "group"} : InitArrives(r, k)
       \/ SessionInit(r) \/ GroupRead(r) \/ GroupUnwrap(r) \/ GroupBurn(r)
       \/ Replay(r)
  \/ Tick \/ Crash

Spec == Init /\ [][Next]_vars

-----------------------------------------------------------------------------

(* No two bundles carry the same one-time pre-key, however the fetches, the *)
(* replenish run and crashes interleave.                                    *)
OpkServedOnce ==
  \A r, q \in Requests :
    r # q /\ bundle[r].opk # 0 => bundle[r].opk # bundle[q].opk

(* The store never outgrows OPK_MAX_STORED, although the replenish run      *)
(* decides how many keys to add on a snapshot that reservations, burns and  *)
(* expiries outdate while it adds them.                                     *)
StoreBound == Cardinality(opks) <= MaxStored

(* An OPK in a bundle whose initiation has not been handled stays stored    *)
(* until its reservation expires.                                           *)
HandedOutKept ==
  \A r \in Requests :
    LET k == bundle[r].opk
    IN role[r] = "held" /\ kind[r] = "none" /\ k # 0 /\ now - bundle[r].at < OpkTTL
         => k \in opks

(* "Do not let an unauthenticated or corrupt envelope burn a pre-key"       *)
(* (groups.ts): after a group key that could not be unwrapped, its OPK is   *)
(* still there for a retry.                                                 *)
FailedUnwrapKeepsOpk ==
  \A r \in Requests :
    LET k == bundle[r].opk
    IN kind[r] = "group" /\ ~saved[r] /\ k # 0 /\ now - bundle[r].at < OpkTTL
         => k \in opks

Retained(id) == id \in {spkCurrent.id, spkPrevious.id}

Outstanding(r) == role[r] = "held" /\ now - bundle[r].at <= SpkMaxAge

(* As long as no two rotations overlap, the SPK of a bundle fetched within  *)
(* the last rotation period is one of the two that are stored.              *)
ServedSpkKept ==
  ~overlapped => \A r \in Requests : Outstanding(r) => Retained(bundle[r].spk)

(* "The previous SPK is retained for one additional rotation period"        *)
(* (prekey.ts), with no provision for rotations that overlap.               *)
ServedSpkRetained ==
  \A r \in Requests : Outstanding(r) => Retained(bundle[r].spk)

(* "... so in-flight X3DH initiations that fetched the old bundle can still *)
(* complete" (prekey.ts): an initiation is not answered with a different    *)
(* SPK while the one it was made with is still stored.                      *)
InFlightInitCompletes ==
  \A r \in Requests : role[r] = "mismatch" => ~Retained(bundle[r].spk)
=============================================================================
