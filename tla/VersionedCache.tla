--------------------------- MODULE VersionedCache ---------------------------
(***************************************************************************)
(* The versioned read-through cache of internal/platform/redisx: one id.   *)
(*                                                                         *)
(* Redis holds a JSON value and a version counter for the id, Postgres the *)
(* record itself.  Writers (friends, groups) commit to Postgres and        *)
(* then call Invalidate.  Readers call Load: Get, and on a miss Version,   *)
(* the load from Postgres, and Put.  Every call is one Redis round trip or *)
(* transaction, so every call is one step and they interleave freely.      *)
(*                                                                         *)
(* The payload is abstracted to the revision it was read at: the number of *)
(* commits so far.  Ids do not interact (an Invalidate of several ids is   *)
(* one MULTI), so one id is enough.                                        *)
(***************************************************************************)
EXTENDS Integers

CONSTANTS Readers,       \* goroutines in Load
          Writers,       \* goroutines that commit and invalidate
          MaxCommits,    \* bound: commits in a behaviour
          MaxResets,     \* bound: times Redis forgets the version counter
          ResetMidLoad   \* may Redis forget it while a Load holds a version?

ASSUME CacheAssumption == /\ MaxCommits \in Nat
                          /\ MaxResets \in Nat
                          /\ ResetMidLoad \in BOOLEAN

NoVal == -1              \* a missing value key; also "no version read"

VARIABLES db,            \* Postgres: the committed revision
          val,           \* Redis {prefix}{id}: the cached revision or NoVal
          ver,           \* Redis {prefix}{id}:ver, 0 when the key is absent
          resets,        \* how often the counter was forgotten
          pending,       \* writer -> committed revision not yet invalidated, or NoVal
          acked,         \* newest revision whose writer has invalidated
          pc,            \* reader -> where it is in Load
          rver,          \* reader -> the version it saw, NoVal if that failed
          rval,          \* reader -> what it loaded from Postgres
          floor,         \* reader -> acked when its Load was called
          got            \* reader -> what its last Load returned

cacheRedis == <<val, ver, resets>>
local == <<rver, rval, floor>>
cacheVars == <<db, cacheRedis, pending, acked, pc, local, got>>

CacheInit == /\ db = 0
             /\ val = NoVal
             /\ ver = 0
             /\ resets = 0
             /\ pending = [w \in Writers |-> NoVal]
             /\ acked = 0
             /\ pc = [r \in Readers |-> "idle"]
             /\ rver = [r \in Readers |-> NoVal]
             /\ rval = [r \in Readers |-> 0]
             /\ floor = [r \in Readers |-> 0]
             /\ got = [r \in Readers |-> 0]

-----------------------------------------------------------------------------
(* Writers *)

\* A writer's transaction commits; Invalidate is still to come.
Commit(w) == /\ pending[w] = NoVal
             /\ db < MaxCommits
             /\ db' = db + 1
             /\ pending' = [pending EXCEPT ![w] = db + 1]
             /\ UNCHANGED <<cacheRedis, acked, pc, local, got>>

\* Mutant: the version is not bumped, only the value dropped.
InvalidateNoBump(w) == /\ pending[w] # NoVal
                       /\ val' = NoVal
                       /\ acked' = IF pending[w] > acked THEN pending[w] ELSE acked
                       /\ pending' = [pending EXCEPT ![w] = NoVal]
                       /\ UNCHANGED <<db, ver, resets, pc, local, got>>

\* Invalidate: INCR the counter and DEL the value in one MULTI.
Invalidate(w) == /\ pending[w] # NoVal
                 /\ ver' = ver + 1
                 /\ val' = NoVal
                 /\ acked' = IF pending[w] > acked THEN pending[w] ELSE acked
                 /\ pending' = [pending EXCEPT ![w] = NoVal]
                 /\ UNCHANGED <<db, resets, pc, local, got>>

\* Redis refuses the MULTI, or the server dies before it: the commit stands,
\* nothing was invalidated and nothing will retry.
InvalidateLost(w) == /\ pending[w] # NoVal
                     /\ pending' = [pending EXCEPT ![w] = NoVal]
                     /\ UNCHANGED <<db, cacheRedis, acked, pc, local, got>>

-----------------------------------------------------------------------------
(* Readers *)

\* Load is called.
Begin(r) == /\ pc[r] = "idle"
            /\ pc' = [pc EXCEPT ![r] = "get"]
            /\ floor' = [floor EXCEPT ![r] = acked]
            /\ UNCHANGED <<db, cacheRedis, pending, acked, rver, rval, got>>

\* Get finds the value: Load returns it.
GetHit(r) == /\ pc[r] = "get"
             /\ val # NoVal
             /\ got' = [got EXCEPT ![r] = val]
             /\ pc' = [pc EXCEPT ![r] = "idle"]
             /\ UNCHANGED <<db, cacheRedis, pending, acked, local>>

\* Get misses, or Redis fails (reported, then treated as a miss).
GetMiss(r) == /\ pc[r] = "get"
              /\ pc' = [pc EXCEPT ![r] = "version"]
              /\ UNCHANGED <<db, cacheRedis, pending, acked, local, got>>

\* Version reads the counter, or fails: Load goes on and will not Put.
Version(r) == /\ pc[r] = "version"
              /\ \E v \in {ver, NoVal} : rver' = [rver EXCEPT ![r] = v]
              /\ pc' = [pc EXCEPT ![r] = "load"]
              /\ UNCHANGED <<db, cacheRedis, pending, acked, rval, floor, got>>

\* load reads Postgres.  With no version Load returns here.
LoadRow(r) == /\ pc[r] = "load"
              /\ rval' = [rval EXCEPT ![r] = db]
              /\ IF rver[r] = NoVal
                 THEN /\ pc' = [pc EXCEPT ![r] = "idle"]
                      /\ got' = [got EXCEPT ![r] = db]
                 ELSE /\ pc' = [pc EXCEPT ![r] = "put"]
                      /\ UNCHANGED got
              /\ UNCHANGED <<db, cacheRedis, pending, acked, rver, floor>>

\* load fails: Load returns the error.
LoadFails(r) == /\ pc[r] = "load"
                /\ pc' = [pc EXCEPT ![r] = "idle"]
                /\ UNCHANGED <<db, cacheRedis, pending, acked, local, got>>

\* Mutant: Put does not compare versions.
PutAlways(r) == /\ pc[r] = "put"
                /\ val' = rval[r]
                /\ pc' = [pc EXCEPT ![r] = "idle"]
                /\ got' = [got EXCEPT ![r] = rval[r]]
                /\ UNCHANGED <<db, ver, resets, pending, acked, local>>

\* Put writes the value if the counter did not move (WATCH and EXEC make the
\* comparison and the SET one step) and Load returns what it loaded.
Put(r) == /\ pc[r] = "put"
          /\ val' = IF ver = rver[r] THEN rval[r] ELSE val
          /\ pc' = [pc EXCEPT ![r] = "idle"]
          /\ got' = [got EXCEPT ![r] = rval[r]]
          /\ UNCHANGED <<db, ver, resets, pending, acked, local>>

\* Put fails: reported, and Load returns what it loaded all the same.
PutFails(r) == /\ pc[r] = "put"
               /\ pc' = [pc EXCEPT ![r] = "idle"]
               /\ got' = [got EXCEPT ![r] = rval[r]]
               /\ UNCHANGED <<db, cacheRedis, pending, acked, local>>

-----------------------------------------------------------------------------
(* Redis *)

\* Mutant: the value has no TTL.
NeverExpires == FALSE /\ UNCHANGED cacheVars

\* The value outlives its TTL, or is evicted.
ExpireValue == /\ val # NoVal
               /\ val' = NoVal
               /\ UNCHANGED <<db, ver, resets, pending, acked, pc, local, got>>

\* Readers that hold a version they read.
Holding == {r \in Readers : pc[r] \in {"load", "put"} /\ rver[r] # NoVal}

\* The counter is forgotten: its TTL passes (EXPIRE in Invalidate), or Redis
\* is flushed and the value goes with it.
ResetVersion == /\ ver # 0
                /\ resets < MaxResets
                /\ ResetMidLoad \/ Holding = {}
                /\ ver' = 0
                /\ resets' = resets + 1
                /\ val' \in {val, NoVal}
                /\ UNCHANGED <<db, pending, acked, pc, local, got>>

-----------------------------------------------------------------------------
Write == \E w \in Writers : Commit(w) \/ Invalidate(w) \/ InvalidateLost(w)

Reading(r) == \/ Begin(r) \/ GetHit(r) \/ GetMiss(r) \/ Version(r)
              \/ LoadRow(r) \/ LoadFails(r) \/ Put(r) \/ PutFails(r)

CacheNext == Write \/ (\E r \in Readers : Reading(r)) \/ ExpireValue \/ ResetVersion

\* Requests run on (each has a timeout) and Redis drops what outlived its TTL;
\* nobody has to start a request, and Redis need not fail.
CacheFairness == /\ \A w \in Writers : WF_cacheVars(Invalidate(w) \/ InvalidateLost(w))
                 /\ \A r \in Readers : WF_cacheVars(pc[r] # "idle" /\ Reading(r))
                 /\ WF_cacheVars(ExpireValue)

CacheSpec == CacheInit /\ [][CacheNext]_cacheVars
CacheFairSpec == CacheSpec /\ CacheFairness

-----------------------------------------------------------------------------
(* Properties *)

CacheTypeOK == /\ db \in 0..MaxCommits
               /\ val \in {NoVal} \cup 0..MaxCommits
               /\ ver \in Nat
               /\ resets \in 0..MaxResets
               /\ pending \in [Writers -> {NoVal} \cup 1..MaxCommits]
               /\ acked \in 0..MaxCommits
               /\ pc \in [Readers -> {"idle", "get", "version", "load", "put"}]
               /\ rver \in [Readers -> {NoVal} \cup Nat]
               /\ rval \in [Readers -> 0..MaxCommits]
               /\ floor \in [Readers -> 0..MaxCommits]
               /\ got \in [Readers -> 0..MaxCommits]

(* A value in Redis is no older than any write whose Invalidate has run: "a
   slow read can never put stale data back" (versioned.go:14-16). *)
NoStaleValue == val # NoVal => val >= acked

(* The strengthening that makes NoStaleValue inductive: a reader whose Put
   would still be accepted holds a revision no older than acked; counters a
   reader holds never ran ahead of Redis. *)
PutIsFresh == \A r \in Readers :
    /\ r \in Holding => rver[r] <= ver
    /\ pc[r] = "put" => floor[r] <= rval[r] /\ rval[r] <= db
    /\ pc[r] = "put" /\ rver[r] = ver => acked <= rval[r]

(* Everything acknowledged or cached was committed. *)
Committed == /\ val <= db
             /\ acked <= db
             /\ \A w \in Writers : pending[w] <= db
             /\ \A r \in Readers : floor[r] <= acked

CacheInv == CacheTypeOK /\ NoStaleValue /\ PutIsFresh /\ Committed

(* Load keeps the promise of FreshReads: a read started after a write was
   invalidated returns that write or a later one, whatever the cache did. *)
Promise == INSTANCE FreshReads WITH busy <- {r \in Readers : pc[r] # "idle"}

ReadsAreFresh == Promise!Spec

(* A lost Invalidate is repaired by the TTL: once the writers are done, the
   cache ends up, and stays, empty or equal to Postgres. *)
StalenessEnds == <>[](val \in {NoVal, db})
=============================================================================
