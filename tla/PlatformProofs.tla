---------------------------- MODULE PlatformProofs ----------------------------
(***************************************************************************)
(* What the platform gives the other packages: the versioned cache, the    *)
(* durable queue, and the read markers that use the queue.                 *)
(*                                                                         *)
(* VersionedCache is proved for any number of readers, writers and         *)
(* commits, provided Redis forgets the version counter only between loads. *)
(*                                                                         *)
(* Queue and Markers are proved for any jobs, payloads and bounds.  NoLoss *)
(* and the attempts are inductive only with what a worker holds: an entry  *)
(* is held as it was added (Orderly), what a worker will report has        *)
(* happened (ReportsAreRuns), and a job that was not reclaimed is in one   *)
(* place, which tells how often it ran (OnePlace).  One lemma per action   *)
(* of the queue keeps them.  The read markers are proved on top: each of   *)
(* their steps is one of the queue.                                        *)
(***************************************************************************)
EXTENDS VersionedCache, Markers, FiniteSetTheorems, WellFoundedInduction, TLAPS

-----------------------------------------------------------------------------
(* The versioned cache. *)

(* The first state satisfies the invariant: nothing is cached. *)
LEMMA StartsFresh == CacheInit => CacheInv
  BY CacheAssumption
  DEF CacheInit, CacheInv, CacheTypeOK, NoStaleValue, PutIsFresh, Committed, NoVal, Holding

(* The steps of a writer preserve the invariant: a commit only raises db, and
   Invalidate leaves no value and moves the counter past every reader's. *)
LEMMA WriteStep ==
  ASSUME CacheInv, Write
  PROVE  CacheInv'
<1> PICK w \in Writers : Commit(w) \/ Invalidate(w) \/ InvalidateLost(w)
  BY DEF Write
<1> USE CacheAssumption DEF CacheInv, CacheTypeOK, NoVal
<1>1. CASE Commit(w)
  <2> USE <1>1 DEF Commit, cacheRedis, local
  <2>1. CacheTypeOK'
    OBVIOUS
  <2>2. NoStaleValue'
    BY DEF NoStaleValue
  <2>3. PutIsFresh'
    BY DEF PutIsFresh, Holding
  <2>4. Committed'
    BY DEF Committed
  <2> QED BY <2>1, <2>2, <2>3, <2>4
<1>2. CASE Invalidate(w)
  <2> USE <1>2 DEF Invalidate, local
  <2>1. CacheTypeOK'
    BY DEF Committed
  <2>2. NoStaleValue'
    BY DEF NoStaleValue
  <2>3. PutIsFresh'
    BY DEF PutIsFresh, Holding
  <2>4. Committed'
    BY DEF Committed
  <2> QED BY <2>1, <2>2, <2>3, <2>4
<1>3. CASE InvalidateLost(w)
  BY <1>3 DEF InvalidateLost, cacheRedis, local, NoStaleValue, PutIsFresh, Holding, Committed
<1> QED BY <1>1, <1>2, <1>3

(* The steps of a reader preserve the invariant: Put is accepted only with
   the current counter, and then what it holds is fresh. *)
LEMMA ReadStep ==
  ASSUME CacheInv, NEW r \in Readers, Reading(r)
  PROVE  CacheInv'
<1> USE CacheAssumption DEF CacheInv, CacheTypeOK, NoVal
<1>1. CASE Begin(r)
  BY <1>1 DEF Begin, cacheRedis, NoStaleValue, PutIsFresh, Holding, Committed
<1>2. CASE GetHit(r)
  BY <1>2 DEF GetHit, cacheRedis, local, NoStaleValue, PutIsFresh, Holding, Committed
<1>3. CASE GetMiss(r)
  BY <1>3 DEF GetMiss, cacheRedis, local, NoStaleValue, PutIsFresh, Holding, Committed
<1>4. CASE Version(r)
  BY <1>4 DEF Version, cacheRedis, NoStaleValue, PutIsFresh, Holding, Committed
<1>5. CASE LoadRow(r)
  BY <1>5 DEF LoadRow, cacheRedis, NoStaleValue, PutIsFresh, Holding, Committed
<1>6. CASE LoadFails(r)
  BY <1>6 DEF LoadFails, cacheRedis, local, NoStaleValue, PutIsFresh, Holding, Committed
<1>7. CASE Put(r)
  BY <1>7 DEF Put, local, NoStaleValue, PutIsFresh, Holding, Committed
<1>8. CASE PutFails(r)
  BY <1>8 DEF PutFails, cacheRedis, local, NoStaleValue, PutIsFresh, Holding, Committed
<1> QED BY <1>1, <1>2, <1>3, <1>4, <1>5, <1>6, <1>7, <1>8 DEF Reading

(* Redis dropping keys preserves the invariant, as long as no load holds a
   version of the counter that is dropped. *)
LEMMA RedisStep ==
  ASSUME ~ResetMidLoad, CacheInv, ExpireValue \/ ResetVersion
  PROVE  CacheInv'
<1> USE CacheAssumption DEF CacheInv, CacheTypeOK, NoVal
<1>1. CASE ExpireValue
  BY <1>1 DEF ExpireValue, local, NoStaleValue, PutIsFresh, Holding, Committed
<1>2. CASE ResetVersion
  <2>1. \A q \in Readers : pc[q] = "put" => rver[q] = NoVal
    BY <1>2 DEF ResetVersion, Holding
  <2> QED
    BY <1>2, <2>1 DEF ResetVersion, local, NoStaleValue, PutIsFresh, Holding, Committed
<1> QED BY <1>1, <1>2

(* The invariant is inductive: no step, and no stuttering, breaks it. *)
LEMMA CacheKeeps ==
  ASSUME ~ResetMidLoad, CacheInv, [CacheNext]_cacheVars
  PROVE  CacheInv'
<1>1. CASE Write
  BY <1>1, WriteStep
<1>2. CASE \E r \in Readers : Reading(r)
  BY <1>2, ReadStep
<1>3. CASE ExpireValue \/ ResetVersion
  BY <1>3, RedisStep
<1>4. CASE UNCHANGED cacheVars
  BY <1>4 DEF cacheVars, cacheRedis, local, CacheInv, CacheTypeOK, NoStaleValue, PutIsFresh, Holding, Committed
<1> QED BY <1>1, <1>2, <1>3, <1>4 DEF CacheNext

(* The whole inductive invariant, type correctness included, holds in every
   reachable state of the cache. *)
THEOREM CacheInvHolds ==
  ASSUME ~ResetMidLoad
  PROVE  CacheSpec => []CacheInv
<1>1. CacheInit => CacheInv
  BY StartsFresh
<1>2. CacheInv /\ [CacheNext]_cacheVars => CacheInv'
  BY CacheKeeps
<1> QED BY <1>1, <1>2, PTL DEF CacheSpec

(* No slow reader puts back a value older than an invalidated write. *)
THEOREM NoStaleValueHolds ==
  ASSUME ~ResetMidLoad
  PROVE  CacheSpec => []NoStaleValue
<1>1. CacheInv => NoStaleValue
  BY DEF CacheInv
<1> QED BY <1>1, CacheInvHolds, PTL

-----------------------------------------------------------------------------
(* A step of a reader is a step of FreshReads, or none that it can see. *)
LEMMA ReadRefines ==
  ASSUME CacheInv, NEW r \in Readers, Reading(r)
  PROVE  [Promise!Next]_(Promise!vars)
<1> DEFINE busy == {q \in Readers : pc[q] # "idle"}
<1> USE CacheAssumption DEF CacheInv, CacheTypeOK, NoVal
<1>1. CASE Begin(r)
  <2>1. r \notin busy /\ busy' = busy \cup {r}
    BY <1>1 DEF Begin
  <2> QED BY <1>1, <2>1 DEF Begin, cacheRedis, Promise!Begin, Promise!Next, Promise!vars
<1>2. ASSUME pc[r] # "idle", pc' = [pc EXCEPT ![r] = "idle"],
             UNCHANGED <<db, acked, floor>>,
             NEW n \in floor[r]..db, got' = [got EXCEPT ![r] = n]
      PROVE  Promise!Return(r)
  <2>1. r \in busy /\ busy' = busy \ {r}
    BY <1>2
  <2> QED BY <1>2, <2>1 DEF Promise!Return
<1>3. ASSUME Promise!Return(r)
      PROVE  [Promise!Next]_(Promise!vars)
  BY <1>3 DEF Promise!Next
<1>4. CASE GetHit(r)
  <2>1. val \in floor[r]..db
    BY <1>4 DEF GetHit, NoStaleValue, Committed
  <2> QED BY <1>2, <1>3, <1>4, <2>1 DEF GetHit, local
<1>5. CASE GetMiss(r)
  <2>1. busy' = busy
    BY <1>5 DEF GetMiss
  <2> QED BY <1>5, <2>1 DEF GetMiss, local, Promise!vars
<1>6. CASE Version(r)
  <2>1. busy' = busy
    BY <1>6 DEF Version
  <2> QED BY <1>6, <2>1 DEF Version, Promise!vars
<1>7. CASE LoadRow(r)
  <2>1. db \in floor[r]..db
    BY DEF Committed
  <2>2. CASE rver[r] = NoVal
    BY <1>2, <1>3, <1>7, <2>1, <2>2 DEF LoadRow
  <2>3. CASE rver[r] # NoVal
    <3>1. busy' = busy
      BY <1>7, <2>3 DEF LoadRow
    <3> QED BY <1>7, <2>3, <3>1 DEF LoadRow, Promise!vars
  <2> QED BY <2>2, <2>3
<1>8. CASE LoadFails(r)
  <2>1. r \in busy /\ busy' = busy \ {r}
    BY <1>8 DEF LoadFails
  <2> QED BY <1>8, <2>1 DEF LoadFails, local, Promise!Fail, Promise!Next
<1>9. CASE Put(r) \/ PutFails(r)
  <2>1. rval[r] \in floor[r]..db
    BY <1>9 DEF Put, PutFails, PutIsFresh
  <2> QED BY <1>2, <1>3, <1>9, <2>1 DEF Put, PutFails, local
<1> QED BY <1>1, <1>4, <1>5, <1>6, <1>7, <1>8, <1>9 DEF Reading

(* A step of a writer or of Redis is a commit, an acknowledgement, or
   nothing that FreshReads can see. *)
LEMMA OtherRefines ==
  ASSUME CacheInv, Write \/ ExpireValue \/ ResetVersion
  PROVE  [Promise!Next]_(Promise!vars)
<1> DEFINE busy == {q \in Readers : pc[q] # "idle"}
<1>0. busy' = busy
  BY DEF Write, Commit, Invalidate, InvalidateLost, ExpireValue, ResetVersion
<1>1. CASE \E w \in Writers : Commit(w)
  BY <1>0, <1>1 DEF Commit, local, Promise!Commit, Promise!Next
<1>2. CASE \E w \in Writers : Invalidate(w)
  <2> PICK w \in Writers : Invalidate(w)
    BY <1>2
  <2>1. CASE pending[w] > acked
    <3>1. pending[w] \in (acked + 1)..db /\ acked' = pending[w]
      BY <2>1, CacheAssumption DEF Invalidate, CacheInv, CacheTypeOK, Committed, NoVal
    <3> QED BY <1>0, <3>1 DEF Invalidate, local, Promise!Ack, Promise!Next
  <2>2. CASE ~(pending[w] > acked)
    BY <1>0, <2>2 DEF Invalidate, local, Promise!vars
  <2> QED BY <2>1, <2>2
<1>3. CASE (\E w \in Writers : InvalidateLost(w)) \/ ExpireValue \/ ResetVersion
  BY <1>0, <1>3 DEF InvalidateLost, ExpireValue, ResetVersion, local, Promise!vars
<1> QED BY <1>1, <1>2, <1>3 DEF Write

(* The cache implements FreshReads: a read that starts after a write was
   invalidated returns that write or a later one. *)
THEOREM CacheImplementsFreshReads ==
  ASSUME ~ResetMidLoad
  PROVE  CacheSpec => ReadsAreFresh
<1>1. CacheInit => Promise!Init
  BY DEF CacheInit, Promise!Init
<1>2. CacheInv /\ [CacheNext]_cacheVars => [Promise!Next]_(Promise!vars)
  <2> SUFFICES ASSUME CacheInv, [CacheNext]_cacheVars
               PROVE  [Promise!Next]_(Promise!vars)
    OBVIOUS
  <2>1. CASE \E r \in Readers : Reading(r)
    BY <2>1, ReadRefines
  <2>2. CASE Write \/ ExpireValue \/ ResetVersion
    BY <2>2, OtherRefines
  <2>3. CASE UNCHANGED cacheVars
    BY <2>3 DEF cacheVars, local, Promise!vars
  <2> QED BY <2>1, <2>2, <2>3 DEF CacheNext
<1> QED BY <1>1, <1>2, CacheInvHolds, PTL DEF CacheSpec, ReadsAreFresh, Promise!Spec

-----------------------------------------------------------------------------
(* The durable queue. *)

(* A set of natural numbers that is not empty has a least one. *)
LEMMA Least ==
  ASSUME NEW S \in SUBSET Nat, S # {}
  PROVE  \E n \in S : \A m \in S : n <= m
<1> DEFINE R == {ss \in Nat \X Nat : ss[1] < ss[2]}
<1>1. IsWellFoundedOn(R, Nat)
  BY NatLessThanWellFounded DEF OpToRel
<1> HIDE DEF R
<1>2. PICK n \in S : \A m \in S : ~(<<m, n>> \in R)
  BY <1>1, WFMin
<1>3. ASSUME NEW m \in S, m < n PROVE FALSE
  <2>1. <<m, n>> \in Nat \X Nat /\ <<m, n>>[1] < <<m, n>>[2]
    BY <1>3
  <2>2. <<m, n>> \in R
    BY <2>1 DEF R
  <2> QED BY <1>2, <2>2
<1> QED BY <1>3

(* XADD: the new entry has a new id, and what the stream does not keep, be it the
   new entry, is trimmed. *)
Added(new, jobs, attempt) ==
  /\ new \in Entries /\ new.id = ids + 1 /\ new.jobs = jobs /\ new.attempt = attempt
  /\ stream' \subseteq stream \cup {new}
  /\ trimmed' \in SUBSET Jobs /\ trimmed \subseteq trimmed'
  /\ \A e \in stream \cup {new} : e \in stream' \/ e.jobs \subseteq trimmed'

LEMMA AddFits ==
  ASSUME TypeOK, Orderly, NEW jobs \in SUBSET Jobs, NEW attempt \in 0..(MaxRetries - 1),
         Add(jobs, attempt)
  PROVE  \E new : Added(new, jobs, attempt)
<1> DEFINE new == [id |-> ids + 1, jobs |-> jobs, attempt |-> attempt]
           longer == stream \cup {new}
           oldest == CHOOSE e \in longer : \A f \in longer : e.id <= f.id
<1>1. new \in Entries /\ stream \subseteq Entries /\ trimmed \subseteq Jobs
  BY DEF TypeOK, Entries
<1>2. new.id = ids + 1 /\ new.jobs = jobs /\ new.attempt = attempt
  OBVIOUS
<1>3. \/ stream' = longer /\ trimmed' = trimmed
      \/ stream' = longer \ {oldest} /\ trimmed' = trimmed \cup oldest.jobs
  BY DEF Add
<1> HIDE DEF new
<1>4. oldest \in longer
  <2> DEFINE S == {e.id : e \in longer}
  <2>1. S \in SUBSET Nat /\ S # {}
    BY <1>1 DEF Entries
  <2>2. PICK n \in S : \A m \in S : n <= m
    BY <2>1, Least
  <2>3. \E e \in longer : \A f \in longer : e.id <= f.id
    BY <2>2
  <2> QED BY <2>3
<1>5. oldest.jobs \subseteq Jobs
  BY <1>1, <1>4 DEF Entries
<1> HIDE DEF oldest
<1>6. Added(new, jobs, attempt)
  BY <1>1, <1>2, <1>3, <1>5 DEF Added
<1> QED BY <1>6

(* A worker that gets an entry is told apart from the others that have it. *)
LEMMA DeliverFits ==
  ASSUME IsFiniteSet(tasks), NEW e, Deliver(e)
  PROVE  IsFiniteSet(tasks') /\ \E n \in Nat : tasks' = tasks \cup {[n |-> n, entry |-> e, state |-> "held"]}
<1> DEFINE same == {t \in tasks : t.entry = e}
           others == {t.n : t \in same}
           k == Cardinality(others) + 1
           n == CHOOSE i \in 1..k : i \notin others
<1>1. IsFiniteSet(others)
  <2>1. IsFiniteSet(same)
    BY FS_Subset
  <2>2. [t \in same |-> t.n] \in Surjection(same, others)
    BY DEF Surjection
  <2> QED BY <2>1, <2>2, FS_Surjection
<1>2. Cardinality(others) \in Nat
  BY <1>1, FS_CardinalityType
<1>3. \E i \in 1..k : i \notin others
  <2> SUFFICES ASSUME 1..k \subseteq others PROVE FALSE
    OBVIOUS
  <2>1. Cardinality(1..k) = k
    BY <1>2, FS_Interval
  <2>2. Cardinality(1..k) <= Cardinality(others)
    BY <1>1, FS_Subset
  <2> QED BY <1>2, <2>1, <2>2
<1>4. n \in 1..k
  BY <1>3
<1>5. tasks' = tasks \cup {[n |-> n, entry |-> e, state |-> "held"]}
  BY DEF Deliver
<1> HIDE DEF n
<1>6. n \in Nat
  BY <1>2, <1>4
<1> QED BY <1>5, <1>6, FS_AddElement

-----------------------------------------------------------------------------
(* The inductive invariant: QueueInv without what follows from OnePlace, and
   NoLoss, which needs the rest. *)
Accounts == TypeOK /\ Orderly /\ ReportsAreRuns /\ OnePlace /\ AttemptsAreRuns /\ NoLoss

LEMMA Once == TypeOK /\ OnePlace => OnceUnlessReclaimed
BY DEF TypeOK, OnePlace, Alone, Ran, OnceUnlessReclaimed, DelayedJobs, DeadJobs, EntryJobs

(* Publish: the new entry is the only place of its job. *)
LEMMA PublishKeeps ==
  ASSUME Accounts, NEW j \in Jobs, Publish(j)
  PROVE  Accounts'
<1> USE QueueAssumption
<1>1. /\ j \notin published /\ published' = published \cup {j} /\ Add({j}, 0) /\ ids' = ids + 1
      /\ UNCHANGED <<payload, last, delayed, dead, tasks, redone, done, failed, bounds>>
  BY DEF Publish, Add
<1>2. PICK new : Added(new, {j}, 0)
  <2>1. {j} \in SUBSET Jobs /\ 0 \in 0..(MaxRetries - 1)
    OBVIOUS
  <2> QED BY <1>1, <2>1, AddFits DEF Accounts
<1> USE DEF Added
<1>3. TypeOK'
  BY <1>1, <1>2 DEF Accounts, TypeOK, bounds
<1>4. Orderly'
  BY <1>1, <1>2 DEF Accounts, TypeOK, Orderly, Entries
<1>5. ReportsAreRuns'
  BY <1>1 DEF Accounts, ReportsAreRuns
<1>6. OnePlace'
  <2> SUFFICES ASSUME NEW k \in Jobs \ redone PROVE Alone(k)'
    BY <1>1 DEF OnePlace
  <2>1. Alone(k)
    BY DEF Accounts, OnePlace
  <2>2. CASE k # j
    BY <1>1, <1>2, <2>1, <2>2 DEF Alone, Ran, DeadJobs
  <2>3. CASE k = j
    BY <1>1, <1>2, <2>1, <2>3 DEF Accounts, Alone, Ran, DeadJobs, Orderly, TypeOK
  <2> QED BY <2>2, <2>3
<1>7. AttemptsAreRuns'
  BY <1>1, <1>2 DEF Accounts, TypeOK, AttemptsAreRuns
<1>8. NoLoss'
  BY <1>1, <1>2 DEF Accounts, NoLoss, EntryJobs, DelayedJobs, DeadJobs
<1> QED BY <1>3, <1>4, <1>5, <1>6, <1>7, <1>8 DEF Accounts

(* A due retry becomes the only place of its jobs. *)
LEMMA RetryKeeps ==
  ASSUME Accounts, NEW d \in delayed, MoveDue(d)
  PROVE  Accounts'
<1> USE QueueAssumption
<1>1. /\ delayed' = delayed \ {d} /\ Add(d.jobs, d.attempt) /\ ids' = ids + 1
      /\ UNCHANGED <<last, dead, tasks, redone, payload, published, done, failed, faults, stale>>
  BY DEF MoveDue, Add, history, bounds
<1>2. d.jobs \in SUBSET Jobs /\ d.attempt \in 1..(MaxRetries - 1)
  BY DEF Accounts, TypeOK
<1>3. PICK new : Added(new, d.jobs, d.attempt)
  <2>1. d.attempt \in 0..(MaxRetries - 1)
    BY <1>2
  <2> QED BY <1>1, <1>2, <2>1, AddFits DEF Accounts
<1> USE DEF Added
<1>4. TypeOK'
  BY <1>1, <1>3 DEF Accounts, TypeOK
<1>5. Orderly'
  BY <1>1, <1>3 DEF Accounts, TypeOK, Orderly, Entries
<1>6. ReportsAreRuns'
  BY <1>1 DEF Accounts, ReportsAreRuns
<1>7. OnePlace'
  <2> SUFFICES ASSUME NEW k \in Jobs \ redone PROVE Alone(k)'
    BY <1>1 DEF OnePlace
  <2>1. Alone(k)
    BY DEF Accounts, OnePlace
  <2>2. CASE k \notin d.jobs
    BY <1>1, <1>3, <2>1, <2>2 DEF Alone, Ran, DeadJobs
  <2>3. CASE k \in d.jobs
    BY <1>1, <1>3, <2>1, <2>3 DEF Accounts, Alone, Ran, DeadJobs, Orderly, TypeOK
  <2> QED BY <2>2, <2>3
<1>8. AttemptsAreRuns'
  BY <1>1, <1>3 DEF Accounts, TypeOK, AttemptsAreRuns
<1>9. NoLoss'
  BY <1>1, <1>3 DEF Accounts, NoLoss, EntryJobs, DelayedJobs, DeadJobs
<1> QED BY <1>4, <1>5, <1>6, <1>7, <1>8, <1>9 DEF Accounts

(* Reading an entry gives its jobs their first delivery; reclaiming one gives up
   what is known of where its jobs are. *)
LEMMA DeliverKeeps ==
  ASSUME Accounts, NEW e \in stream, Read(e) \/ Reclaim(e)
  PROVE  Accounts'
<1> USE QueueAssumption
<1>1. /\ UNCHANGED <<stream, ids, delayed, dead, trimmed, payload, published, done, failed, faults>>
      /\ Deliver(e) /\ last' \in 0..ids /\ last <= last' /\ e.id <= last'
      /\ stale' \in 0..MaxStale /\ redone \subseteq redone' /\ redone' \subseteq Jobs
      /\ \/ e.id > last /\ last' = e.id
         \/ last' = last /\ e.jobs \subseteq redone'
  <2>1. CASE Read(e)
    BY <2>1 DEF Accounts, TypeOK, Orderly, Entries, Read, redis, history, bounds
  <2>2. CASE Reclaim(e)
    BY <2>2 DEF Accounts, TypeOK, Orderly, Entries, Reclaim, Pending, redis, history, bounds
  <2> QED BY <2>1, <2>2
<1>2. PICK n \in Nat : tasks' = tasks \cup {[n |-> n, entry |-> e, state |-> "held"]}
  BY <1>1, DeliverFits DEF Accounts, Orderly
<1> DEFINE new == [n |-> n, entry |-> e, state |-> "held"]
<1>3. tasks' = tasks \cup {new} /\ new.entry = e /\ new.state = "held" /\ IsFiniteSet(tasks')
  BY <1>1, <1>2, DeliverFits DEF Accounts, Orderly
<1>4. TypeOK'
  BY <1>1, <1>2 DEF Accounts, TypeOK
<1> HIDE DEF new
<1>5. Orderly'
  BY <1>1, <1>3 DEF Accounts, TypeOK, Orderly, Entries
<1>6. ReportsAreRuns'
  BY <1>1, <1>3 DEF Accounts, TypeOK, Entries, ReportsAreRuns, AttemptsAreRuns
<1>7. OnePlace'
  <2> SUFFICES ASSUME NEW k \in Jobs \ redone' PROVE Alone(k)'
    BY DEF OnePlace
  <2>1. Alone(k)
    BY <1>1 DEF Accounts, OnePlace
  <2>2. CASE k \notin e.jobs
    BY <1>1, <1>3, <2>1, <2>2 DEF Accounts, TypeOK, Entries, Alone, Ran, DeadJobs
  <2>3. CASE k \in e.jobs
    BY <1>1, <1>3, <2>1, <2>3 DEF Accounts, Alone, Ran, DeadJobs, Orderly, TypeOK, Entries
  <2> QED BY <2>2, <2>3
<1>8. AttemptsAreRuns'
  BY <1>1 DEF Accounts, TypeOK, AttemptsAreRuns
<1>9. NoLoss'
  BY <1>1 DEF Accounts, NoLoss, EntryJobs, DelayedJobs, DeadJobs
<1> QED BY <1>4, <1>5, <1>6, <1>7, <1>8, <1>9 DEF Accounts

(* A handler runs: what the worker will report is counted for every job. *)
LEMMA HandleKeeps ==
  ASSUME Accounts, NEW t \in tasks, NEW outcome \in {"ok", "error", "permanent"}, Handle(t, outcome)
  PROVE  Accounts'
<1> USE QueueAssumption
<1> DEFINE new == [t EXCEPT !.state = outcome]
           jobs == t.entry.jobs
<1>1. /\ t.state = "held" /\ tasks' = (tasks \ {t}) \cup {new}
      /\ UNCHANGED <<stream, ids, delayed, dead, trimmed, last, redone, payload, published, faults, stale>>
  BY DEF Handle, SetTask, redis, bounds
<1>2. /\ done \in [Jobs -> Nat] /\ failed \in [Jobs -> Nat] /\ t.entry \in Entries /\ jobs \subseteq Jobs
      /\ t \in [n : Nat, entry : Entries, state : {"held", "ok", "error", "permanent"}]
  BY DEF Accounts, TypeOK, Entries
<1>3. /\ new.entry = t.entry /\ new.state = outcome
      /\ new \in [n : Nat, entry : Entries, state : {"held", "ok", "error", "permanent"}]
  BY <1>2
<1>4. /\ done' \in [Jobs -> Nat] /\ failed' \in [Jobs -> Nat]
      /\ \A j \in Jobs :
           /\ done'[j] = IF j \in jobs /\ outcome = "ok" THEN done[j] + 1 ELSE done[j]
           /\ failed'[j] = IF j \in jobs /\ outcome # "ok" THEN failed[j] + 1 ELSE failed[j]
  <2>1. CASE outcome = "ok"
    BY <1>2, <2>1 DEF Handle
  <2>2. CASE outcome # "ok"
    BY <1>2, <2>2 DEF Handle
  <2> QED BY <2>1, <2>2
<1>5. jobs # {} /\ jobs \subseteq published
  BY DEF Accounts, Orderly
<1> HIDE DEF new
<1>6. IsFiniteSet(tasks')
  BY <1>1, FS_AddElement, FS_RemoveElement DEF Accounts, Orderly
<1>7. TypeOK'
  BY <1>1, <1>3, <1>4 DEF Accounts, TypeOK
<1>8. Orderly'
  BY <1>1, <1>3, <1>6 DEF Accounts, Orderly
<1>9. ReportsAreRuns'
  <2> SUFFICES ASSUME NEW u \in tasks', NEW j \in u.entry.jobs
               PROVE  /\ u.state = "ok" => done'[j] > 0
                      /\ u.entry.attempt + (IF u.state \in {"error", "permanent"} THEN 1 ELSE 0) <= failed'[j]
    BY DEF ReportsAreRuns
  <2>1. CASE u \in tasks
    BY <1>2, <1>4, <2>1 DEF Accounts, TypeOK, Entries, ReportsAreRuns
  <2>2. CASE u = new
    BY <1>1, <1>2, <1>3, <1>4, <2>2 DEF Accounts, TypeOK, Entries, ReportsAreRuns
  <2> QED BY <1>1, <2>1, <2>2
<1>10. OnePlace'
  <2> SUFFICES ASSUME NEW k \in Jobs \ redone PROVE Alone(k)'
    BY <1>1 DEF OnePlace
  <2>1. Alone(k)
    BY DEF Accounts, OnePlace
  <2>2. CASE k \notin jobs
    BY <1>1, <1>2, <1>3, <1>4, <2>1, <2>2 DEF Accounts, TypeOK, Entries, Alone, Ran, DeadJobs
  <2>3. CASE k \in jobs
    BY <1>1, <1>2, <1>3, <1>4, <1>5, <2>1, <2>3 DEF Accounts, Alone, Ran, DeadJobs, Orderly, TypeOK, Entries
  <2> QED BY <2>2, <2>3
<1>11. AttemptsAreRuns'
  BY <1>1, <1>2, <1>4 DEF Accounts, TypeOK, Entries, AttemptsAreRuns
<1>12. NoLoss'
  BY <1>1, <1>2, <1>4 DEF Accounts, TypeOK, NoLoss, EntryJobs, DelayedJobs, DeadJobs
<1> QED BY <1>7, <1>8, <1>9, <1>10, <1>11, <1>12 DEF Accounts

(* An instance stops, or a transaction fails: what the workers had stays pending. *)
LEMMA AbandonKeeps ==
  ASSUME Accounts, NEW ts \in SUBSET tasks, Abandon(ts)
  PROVE  Accounts'
<1> USE QueueAssumption
<1>1. /\ tasks' = tasks \ ts /\ faults' = faults + 1 /\ faults < MaxFaults
      /\ UNCHANGED <<stream, ids, delayed, dead, trimmed, last, redone,
                     payload, published, done, failed, stale>>
  BY DEF Abandon, redis, history
<1>2. IsFiniteSet(tasks')
  BY <1>1, FS_Subset DEF Accounts, Orderly
<1>3. TypeOK'
  BY <1>1 DEF Accounts, TypeOK
<1>4. Orderly'
  BY <1>1, <1>2 DEF Accounts, Orderly
<1>5. ReportsAreRuns'
  BY <1>1 DEF Accounts, ReportsAreRuns
<1>6. OnePlace'
  <2> SUFFICES ASSUME NEW k \in Jobs \ redone PROVE Alone(k)'
    BY <1>1 DEF OnePlace
  <2>1. Alone(k)
    BY DEF Accounts, OnePlace
  <2> QED BY <1>1, <2>1 DEF Alone, Ran, DeadJobs
<1>7. AttemptsAreRuns' /\ NoLoss'
  BY <1>1 DEF Accounts, AttemptsAreRuns, NoLoss, EntryJobs, DelayedJobs, DeadJobs
<1> QED BY <1>3, <1>4, <1>5, <1>6, <1>7 DEF Accounts

(* ZADD: the jobs wait for their next attempt, together with those whose retry has
   the same payload and attempt. *)
Merged(m, same, jobs, attempt) ==
  /\ m \in [jobs : SUBSET Jobs, attempt : 1..(MaxRetries - 1)] /\ same \subseteq delayed
  /\ delayed' = (delayed \ same) \cup {m}
  /\ m.attempt = attempt /\ m.jobs \subseteq published
  /\ m.jobs = jobs \cup UNION {d.jobs : d \in same}
  /\ \A d \in same : d.attempt = attempt
  /\ \A j, k \in m.jobs : payload[j] = payload[k]

LEMMA ZAddMerges ==
  ASSUME Accounts, NEW jobs \in SUBSET published, jobs # {}, NEW attempt \in 1..(MaxRetries - 1),
         \A j, k \in jobs : payload[j] = payload[k],
         ZAdd(jobs, attempt)
  PROVE  \E m, same : Merged(m, same, jobs, attempt)
<1> DEFINE same == {d \in delayed : d.attempt = attempt /\ PayloadOf(d.jobs) = PayloadOf(jobs)}
           m == [jobs |-> jobs \cup UNION {d.jobs : d \in same}, attempt |-> attempt]
<1>1. delayed' = (delayed \ same) \cup {m}
  BY DEF ZAdd
<1>2. \A d \in delayed : d.jobs # {} /\ d.jobs \subseteq published /\ \A j, k \in d.jobs : payload[j] = payload[k]
  BY DEF Accounts, Orderly
<1>3. published \subseteq Jobs
  BY DEF Accounts, TypeOK
<1>4. m.jobs = jobs \cup UNION {d.jobs : d \in same} /\ m.attempt = attempt
  OBVIOUS
<1>5. m.jobs \subseteq published
  BY <1>2, <1>4
<1>6. m \in [jobs : SUBSET Jobs, attempt : 1..(MaxRetries - 1)]
  BY <1>3, <1>5
<1> HIDE DEF m
<1>7. ASSUME NEW j \in m.jobs, NEW k \in jobs PROVE payload[j] = payload[k]
  <2>1. CASE j \in jobs
    BY <2>1
  <2>2. ASSUME NEW d \in same, j \in d.jobs PROVE payload[j] = payload[k]
    <3>1. payload[j] \in PayloadOf(jobs)
      BY <2>2 DEF PayloadOf
    <3> QED BY <3>1 DEF PayloadOf
  <2> QED BY <1>4, <2>1, <2>2
<1>8. \A j, k \in m.jobs : payload[j] = payload[k]
  <2>1. PICK i \in jobs : TRUE
    OBVIOUS
  <2> QED BY <1>7, <2>1
<1>9. Merged(m, same, jobs, attempt)
  BY <1>1, <1>4, <1>5, <1>6, <1>8 DEF Merged
<1> QED BY <1>9

(* The transaction at the end of a delivery: nothing of the entry is left in the
   stream, and its jobs are done, dead or wait for their next attempt. *)
LEMMA FinishKeeps ==
  ASSUME Accounts, NEW t \in tasks, Finish(t)
  PROVE  Accounts'
<1> USE QueueAssumption
<1> DEFINE jobs == t.entry.jobs
           attempt == t.entry.attempt + 1
<1>1. /\ tasks' = tasks \ {t} /\ stream' = {e \in stream : e.id # t.entry.id}
      /\ UNCHANGED <<ids, trimmed, last, redone, payload, published, done, failed, faults, stale>>
  BY DEF Finish, history, bounds
<1>2. /\ t.entry \in Entries /\ jobs \subseteq Jobs /\ attempt \in 1..MaxRetries
      /\ jobs # {} /\ jobs \subseteq published /\ \A j, k \in jobs : payload[j] = payload[k]
      /\ done \in [Jobs -> Nat] /\ failed \in [Jobs -> Nat]
      /\ \A j \in jobs : /\ t.state = "ok" => done[j] > 0
                         /\ t.state \in {"error", "permanent"} => attempt <= failed[j]
  BY DEF Accounts, TypeOK, Entries, Orderly, ReportsAreRuns
<1>3. IsFiniteSet(tasks')
  BY <1>1, FS_RemoveElement DEF Accounts, Orderly
<1>4. \A e \in stream : e \in stream' \/ e = t.entry
  BY <1>1 DEF Accounts, Orderly
<1>5. ReportsAreRuns'
  BY <1>1 DEF Accounts, ReportsAreRuns
<1>6. CASE t.state = "ok" /\ UNCHANGED <<delayed, dead>>
  <2>1. TypeOK'
    BY <1>1, <1>6 DEF Accounts, TypeOK
  <2>2. Orderly'
    BY <1>1, <1>3, <1>6 DEF Accounts, Orderly
  <2>3. OnePlace'
    <3> SUFFICES ASSUME NEW k \in Jobs \ redone PROVE Alone(k)'
      BY <1>1 DEF OnePlace
    <3>1. Alone(k)
      BY DEF Accounts, OnePlace
    <3> QED BY <1>1, <1>6, <3>1 DEF Alone, Ran, DeadJobs
  <2>4. AttemptsAreRuns' /\ NoLoss'
    BY <1>1, <1>2, <1>4, <1>6 DEF Accounts, AttemptsAreRuns, NoLoss, EntryJobs, DelayedJobs, DeadJobs
  <2> QED BY <1>5, <2>1, <2>2, <2>3, <2>4 DEF Accounts
<1> DEFINE perm == t.state = "permanent"
<1>7. CASE /\ t.state \in {"error", "permanent"} /\ (perm \/ attempt = MaxRetries)
           /\ dead' = dead \cup {[job |-> j, attempt |-> attempt, permanent |-> perm] : j \in jobs}
           /\ UNCHANGED delayed
  <2> HIDE DEF perm, attempt, jobs
  <2>0. perm \in BOOLEAN
    BY DEF perm
  <2> DEFINE Given(j) == [job |-> j, attempt |-> attempt, permanent |-> perm]
  <2>1. ASSUME NEW j \in jobs
        PROVE  /\ Given(j) \in [job : Jobs, attempt : 1..MaxRetries, permanent : BOOLEAN]
               /\ Given(j).job = j /\ Given(j).attempt = attempt /\ Given(j).permanent = perm
    BY <1>2, <2>0 DEF jobs, attempt
  <2>2. dead' = dead \cup {Given(j) : j \in jobs}
    BY <1>7
  <2> HIDE DEF Given
  <2>3. \A d \in dead' : d \in dead \/ \E j \in jobs : d = Given(j)
    BY <2>2
  <2>4. dead' \subseteq [job : Jobs, attempt : 1..MaxRetries, permanent : BOOLEAN]
    BY <2>1, <2>3 DEF Accounts, TypeOK
  <2>5. DeadJobs' = DeadJobs \cup jobs
    <3>1. ASSUME NEW j \in DeadJobs' PROVE j \in DeadJobs \cup jobs
      BY <2>1, <2>3 DEF DeadJobs
    <3>2. ASSUME NEW j \in jobs PROVE j \in DeadJobs'
      BY <2>1, <2>2 DEF DeadJobs
    <3>3. DeadJobs \subseteq DeadJobs'
      BY <2>2 DEF DeadJobs
    <3> QED BY <3>1, <3>2, <3>3
  <2>6. TypeOK'
    BY <1>1, <1>7, <2>4 DEF Accounts, TypeOK
  <2>7. Orderly'
    BY <1>1, <1>2, <1>3, <1>7, <2>1, <2>3 DEF Accounts, Orderly, jobs
  <2>8. OnePlace'
    <3> SUFFICES ASSUME NEW k \in Jobs \ redone PROVE Alone(k)'
      BY <1>1 DEF OnePlace
    <3>1. Alone(k)
      BY DEF Accounts, OnePlace
    <3>2. CASE k \notin jobs
      BY <1>1, <1>7, <2>5, <3>1, <3>2 DEF Alone, Ran
    <3>3. CASE k \in jobs
      <4>1. Ran(k, 0, t.entry.attempt + 1) /\ \A d \in delayed : k \notin d.jobs
        BY <1>7, <3>1, <3>3 DEF Alone, jobs
      <4> QED BY <1>1, <1>4, <1>7, <2>5, <3>1, <3>3, <4>1 DEF Alone, Ran, jobs
    <3> QED BY <3>2, <3>3
  <2>9. AttemptsAreRuns'
    <3>1. ASSUME NEW d \in dead'
          PROVE  d.attempt <= failed[d.job] /\ (~d.permanent => d.attempt = MaxRetries)
      <4>1. CASE d \in dead
        BY <4>1 DEF Accounts, AttemptsAreRuns
      <4>2. ASSUME NEW j \in jobs, d = Given(j) PROVE attempt <= failed[j] /\ (~perm => attempt = MaxRetries)
        BY <1>2, <1>7 DEF jobs
      <4> QED BY <2>1, <2>3, <4>1, <4>2
    <3> QED BY <1>1, <1>7, <3>1 DEF Accounts, AttemptsAreRuns
  <2>10. NoLoss'
    <3>1. EntryJobs \subseteq EntryJobs' \cup jobs
      BY <1>4 DEF EntryJobs, jobs
    <3> QED BY <1>1, <1>7, <2>5, <3>1 DEF Accounts, NoLoss, DelayedJobs
  <2> QED BY <1>5, <2>6, <2>7, <2>8, <2>9, <2>10 DEF Accounts
<1>8. CASE /\ t.state \in {"error", "permanent"} /\ attempt < MaxRetries
           /\ ZAdd(jobs, attempt) /\ UNCHANGED dead
  <2>1. attempt \in 1..(MaxRetries - 1) /\ jobs \in SUBSET published
    BY <1>2, <1>8
  <2> HIDE DEF attempt, jobs
  <2>2. PICK m, same : Merged(m, same, jobs, attempt)
    BY <1>2, <1>8, <2>1, ZAddMerges DEF jobs
  <2> USE DEF Merged
  <2>3. TypeOK'
    BY <1>1, <1>8, <2>2 DEF Accounts, TypeOK
  <2>4. Orderly'
    BY <1>1, <1>2, <1>3, <1>8, <2>2 DEF Accounts, Orderly
  <2>5. OnePlace'
    <3> SUFFICES ASSUME NEW k \in Jobs \ redone PROVE Alone(k)'
      BY <1>1 DEF OnePlace
    <3>1. Alone(k)
      BY DEF Accounts, OnePlace
    <3>2. CASE k \notin jobs
      <4>1. ASSUME NEW d \in delayed', k \in d.jobs
            PROVE  \E x \in delayed : k \in x.jobs /\ x.attempt = d.attempt /\ (d = x \/ (d = m /\ x \in same))
        BY <2>2, <3>2, <4>1
      <4>2. \A d, x \in delayed' : k \in d.jobs /\ k \in x.jobs => d = x
        BY <2>2, <3>1, <3>2, <4>1 DEF Alone
      <4> QED BY <1>1, <1>8, <3>1, <3>2, <4>1, <4>2 DEF Alone, Ran, DeadJobs, jobs
    <3>3. CASE k \in jobs
      <4>1. \A d \in delayed : k \notin d.jobs
        BY <3>1, <3>3 DEF Alone, jobs
      <4>2. \A d \in delayed' : k \in d.jobs => d = m
        BY <2>2, <4>1
      <4> QED BY <1>1, <1>4, <1>8, <2>2, <3>1, <3>3, <4>2 DEF Alone, Ran, DeadJobs, jobs, attempt
    <3> QED BY <3>2, <3>3
  <2>6. AttemptsAreRuns'
    BY <1>1, <1>2, <1>8, <2>2 DEF Accounts, AttemptsAreRuns
  <2>7. NoLoss'
    <3>1. DelayedJobs' = DelayedJobs \cup jobs
      BY <2>2 DEF DelayedJobs
    <3>2. EntryJobs \subseteq EntryJobs' \cup jobs
      BY <1>4 DEF EntryJobs, jobs
    <3> QED BY <1>1, <1>8, <3>1, <3>2 DEF Accounts, NoLoss, DeadJobs
  <2> QED BY <1>5, <2>3, <2>4, <2>5, <2>6, <2>7 DEF Accounts
<1>9. \/ t.state = "ok" /\ UNCHANGED <<delayed, dead>>
      \/ /\ t.state \in {"error", "permanent"} /\ (perm \/ attempt >= MaxRetries)
         /\ dead' = dead \cup {[job |-> j, attempt |-> attempt, permanent |-> perm] : j \in jobs}
         /\ UNCHANGED delayed
      \/ /\ t.state \in {"error", "permanent"} /\ ~(attempt >= MaxRetries)
         /\ ZAdd(jobs, attempt) /\ UNCHANGED dead
  BY Zenon DEF Finish
<1>10. (attempt >= MaxRetries => attempt = MaxRetries) /\ (~(attempt >= MaxRetries) => attempt < MaxRetries)
  BY <1>2
<1> HIDE DEF perm, attempt, jobs
<1> QED BY <1>6, <1>7, <1>8, <1>9, <1>10

-----------------------------------------------------------------------------
LEMMA QueueInit == Init => Accounts
<1> SUFFICES ASSUME Init PROVE Accounts
  OBVIOUS
<1> USE QueueAssumption
<1>1. IsFiniteSet(tasks)
  BY FS_EmptySet DEF Init
<1>2. TypeOK /\ Orderly
  BY <1>1 DEF Init, TypeOK, Orderly
<1>3. ReportsAreRuns /\ AttemptsAreRuns /\ NoLoss
  BY DEF Init, ReportsAreRuns, AttemptsAreRuns, NoLoss
<1>4. OnePlace
  BY DEF Init, OnePlace, Alone, Ran, DeadJobs
<1> QED BY <1>2, <1>3, <1>4 DEF Accounts

LEMMA QueueNext == Accounts /\ [Next]_vars => Accounts'
<1> SUFFICES ASSUME Accounts, [Next]_vars PROVE Accounts'
  OBVIOUS
<1>1. ASSUME NEW j \in Jobs, Publish(j) PROVE Accounts'
  BY <1>1, PublishKeeps
<1>2. ASSUME NEW d \in delayed, MoveDue(d) PROVE Accounts'
  BY <1>2, RetryKeeps
<1>3. ASSUME NEW e \in stream, Read(e) \/ Reclaim(e) PROVE Accounts'
  BY <1>3, DeliverKeeps
<1>4. ASSUME NEW t \in tasks, Handle(t, "ok") \/ Handle(t, "error") \/ Handle(t, "permanent")
      PROVE  Accounts'
  BY <1>4, HandleKeeps
<1>5. ASSUME NEW t \in tasks, Finish(t) PROVE Accounts'
  BY <1>5, FinishKeeps
<1>6. ASSUME NEW ts \in SUBSET tasks, Abandon(ts) PROVE Accounts'
  BY <1>6, AbandonKeeps
<1>7. CASE UNCHANGED vars
  BY <1>7 DEF vars, redis, history, bounds, Accounts, TypeOK, Orderly, ReportsAreRuns, OnePlace, Alone, Ran,
              AttemptsAreRuns, NoLoss, EntryJobs, DelayedJobs, DeadJobs
<1> QED BY <1>1, <1>2, <1>3, <1>4, <1>5, <1>6, <1>7 DEF Next

(* The accounts of the queue for any jobs and any number of crashes, failed
   transactions and early reclaims: what an entry says of its attempts has
   happened, and a job that is not reclaimed succeeds once at most and is never
   run again when it is done or dead (redis.go: process, moveDue, consume). *)
THEOREM QueueInvHolds == Spec => []QueueInv
<1>1. Accounts => QueueInv
  BY Once DEF Accounts, QueueInv
<1> QED BY <1>1, QueueInit, QueueNext, PTL DEF Spec

(* No published job is lost between the stream, its workers, the set of retries and
   jobs:dead, unless the stream was trimmed (redis.go: process's transaction and
   moveDueScript). *)
THEOREM NoLossHolds == Spec => []NoLoss
<1>1. Accounts => NoLoss
  BY DEF Accounts
<1> QED BY <1>1, QueueInit, QueueNext, PTL DEF Spec

-----------------------------------------------------------------------------
(* Every step of the read receipts is a step of the queue. *)
LEMMA MarkersStep == [MarkersNext]_markerVars => [Next]_vars
BY DEF MarkersNext, markerVars, Next, MarkSeen, HandleSeen

(* The markers use the queue as it is: what holds of it holds with them. *)
THEOREM MarkersUseQueue == MarkersSpec => Spec
BY MarkersStep, PTL DEF MarkersSpec, MarkersInit, Spec

(* The marker of a chat is at or after every message whose receipt was handled. *)
MarkerInv == /\ marker \in {{}} \cup {{m} : m \in DOMAIN Created}
             /\ \A j \in Jobs : done[j] > 0 => \E s \in marker : Created[payload[j]] <= Created[s]

LEMMA MarkersInitially == MarkersInit => MarkerInv
BY DEF MarkersInit, Init, MarkerInv

(* A receipt that is stored late or twice leaves a newer marker alone. *)
LEMMA Stored ==
  ASSUME MarkerInv, NEW m \in DOMAIN Created, marker' = AddLastSeenMessage(m)
  PROVE  /\ marker' \in {{}} \cup {{n} : n \in DOMAIN Created}
         /\ \E s \in marker' : Created[m] <= Created[s]
         /\ \A n \in DOMAIN Created :
              (\E s \in marker : Created[n] <= Created[s]) => \E s \in marker' : Created[n] <= Created[s]
BY MarkersAssumption DEF MarkerInv, AddLastSeenMessage

LEMMA MarkersKeep == Accounts /\ MarkerInv /\ [MarkersNext]_markerVars => MarkerInv'
<1> SUFFICES ASSUME Accounts, MarkerInv, [MarkersNext]_markerVars PROVE MarkerInv'
  OBVIOUS
<1>0. payload \in Payloads /\ (\A j \in Jobs : payload[j] \in DOMAIN Created) /\ done \in [Jobs -> Nat]
  BY MarkersAssumption DEF Accounts, Orderly, TypeOK
<1>1. ASSUME NEW t \in tasks, NEW outcome \in {"ok", "error", "permanent"}, HandleSeen(t, outcome)
      PROVE  MarkerInv'
  <2> DEFINE jobs == t.entry.jobs
             m == CHOOSE m \in PayloadOf(jobs) : TRUE
  <2>1. jobs # {} /\ jobs \subseteq Jobs /\ \A j, k \in jobs : payload[j] = payload[k]
    BY DEF Accounts, TypeOK, Orderly
  <2>2. m \in DOMAIN Created /\ \A j \in jobs : payload[j] = m
    <3>1. PICK k \in jobs : TRUE
      BY <2>1
    <3>2. PayloadOf(jobs) = {payload[k]}
      BY <2>1 DEF PayloadOf
    <3> QED BY <1>0, <2>1, <3>2
  <2>3. /\ payload' = payload
        /\ \A j \in Jobs : done'[j] = IF j \in jobs /\ outcome = "ok" THEN done[j] + 1 ELSE done[j]
    BY <1>0, <1>1 DEF HandleSeen, Handle
  <2>4. /\ marker' = marker \/ marker' = AddLastSeenMessage(m)
        /\ outcome = "ok" => marker' = AddLastSeenMessage(m)
    BY <1>1 DEF HandleSeen
  <2> HIDE DEF jobs, m
  <2>5. CASE marker' = AddLastSeenMessage(m)
    <3>1. /\ marker' \in {{}} \cup {{n} : n \in DOMAIN Created}
          /\ \E s \in marker' : Created[m] <= Created[s]
          /\ \A n \in DOMAIN Created :
               (\E s \in marker : Created[n] <= Created[s]) => \E s \in marker' : Created[n] <= Created[s]
      BY <2>2, <2>5, Stored
    <3> QED BY <1>0, <2>2, <2>3, <3>1 DEF MarkerInv
  <2>6. CASE marker' = marker /\ outcome # "ok"
    BY <2>3, <2>6 DEF MarkerInv
  <2> QED BY <2>4, <2>5, <2>6
<1>2. ASSUME UNCHANGED <<marker, payload, done>> PROVE MarkerInv'
  BY <1>2 DEF MarkerInv
<1>3. CASE \E j \in Jobs : MarkSeen(j)
  BY <1>2, <1>3 DEF MarkSeen, Publish
<1>4. CASE \E d \in delayed : MoveDue(d) /\ UNCHANGED marker
  BY <1>2, <1>4 DEF MoveDue, history
<1>5. CASE \E e \in stream : (Read(e) \/ Reclaim(e)) /\ UNCHANGED marker
  BY <1>2, <1>5 DEF Read, Reclaim, history
<1>6. CASE \E t \in tasks : Finish(t) /\ UNCHANGED marker
  BY <1>2, <1>6 DEF Finish, history
<1>7. CASE \E ts \in SUBSET tasks : ts # {} /\ Abandon(ts) /\ UNCHANGED marker
  BY <1>2, <1>7 DEF Abandon, history
<1>8. CASE UNCHANGED markerVars
  BY <1>2, <1>8 DEF markerVars, vars, history
<1> QED BY <1>1, <1>3, <1>4, <1>5, <1>6, <1>7, <1>8 DEF MarkersNext

(* A message whose receipt was handled is never unread again, in whatever order and
   however often the queue runs the receipts (chat.sql.go, AddLastSeenMessage). *)
THEOREM SeenStaysSeenHolds == MarkersSpec => []SeenStaysSeen
<1>1. Accounts /\ MarkerInv => SeenStaysSeen
  <2> SUFFICES ASSUME Accounts, MarkerInv, NEW j \in Jobs, done[j] > 0, NEW m \in Unread
               PROVE  Created[m] > Created[payload[j]]
    BY DEF SeenStaysSeen
  <2>1. PICK s \in marker : Created[payload[j]] <= Created[s]
    BY DEF MarkerInv
  <2>2. s \in DOMAIN Created /\ payload[j] \in DOMAIN Created /\ m \in DOMAIN Created /\ Created[m] > Created[s]
    BY MarkersAssumption DEF MarkerInv, Accounts, Orderly, Unread
  <2> QED BY <2>1, <2>2, MarkersAssumption
<1>2. MarkersInit => Accounts /\ MarkerInv
  BY QueueInit, MarkersInitially DEF MarkersInit
<1>3. Accounts /\ MarkerInv /\ [MarkersNext]_markerVars => Accounts' /\ MarkerInv'
  BY QueueNext, MarkersStep, MarkersKeep
<1> QED BY <1>1, <1>2, <1>3, PTL DEF MarkersSpec
=============================================================================
