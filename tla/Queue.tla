------------------------------- MODULE Queue --------------------------------
(***************************************************************************)
(* The durable job queue (internal/platform/queue/redis.go), one topic: a   *)
(* Redis stream read by the instances of the server as one consumer group, *)
(* the sorted set of retries that wait out their backoff, and the stream   *)
(* of dead jobs.                                                           *)
(*                                                                         *)
(* A command, transaction or script that Redis runs is one step, and so is *)
(* the run of a handler.  Backoff and idle times are not kept: a retry may *)
(* be due and an entry may be reclaimed at any time, also while a worker   *)
(* still has it, since an entry waits in the reader while the workers are  *)
(* busy and a handler may take half of the idle time.                      *)
(*                                                                         *)
(* A payload is what Redis sees of a job; two jobs may have the same one   *)
(* (the same message marked as seen twice).  To say what becomes of every  *)
(* job, an entry carries the set of jobs it stands for: two retries with   *)
(* the same payload and attempt are one member of the sorted set.          *)
(***************************************************************************)
EXTENDS Integers, FiniteSets

CONSTANTS Jobs,
          Payloads,     \* what jobs can carry: a set of functions, job -> payload
          MaxRetries,   \* attempts before a job is dead
          MaxLen,       \* the length that a stream is trimmed to
          MaxFaults,    \* bound: crashes and failed acknowledgements
          MaxStale      \* bound: entries reclaimed although somebody has them

ASSUME QueueAssumption == /\ IsFiniteSet(Jobs)
                          /\ \A f \in Payloads : DOMAIN f = Jobs
                          /\ MaxRetries \in Nat \ {0}
                          /\ MaxLen \in Nat \ {0}
                          /\ MaxFaults \in Nat /\ MaxStale \in Nat

VARIABLES payload,      \* job -> its payload
          published,    \* jobs that Publish has added
          stream,       \* jobs:{topic}: a set of entries [id, jobs, attempt]
          ids,          \* entries made so far
          last,         \* the id of the last entry that the group has read
          delayed,      \* jobs:delayed: a set of envelopes [jobs, attempt]
          dead,         \* what was added to jobs:dead: a set of [job, attempt, permanent];
                        \* this stream is trimmed to about StreamMaxLen too, which drops
                        \* the oldest dead jobs and is left out
          tasks,        \* deliveries that an instance works on: a set of [n, entry, state]
          done,         \* job -> runs that succeeded since it was published
          failed,       \* job -> runs that failed since then
          trimmed,      \* history: jobs whose entry was trimmed
          redone,       \* history: jobs delivered again by a reclaim
          faults, stale \* how many there were

redis == <<stream, ids, delayed, dead, trimmed>>
history == <<payload, published, done, failed>>
bounds == <<faults, stale>>
vars == <<redis, last, tasks, redone, history, bounds>>

Init == /\ payload \in Payloads
        /\ published = {}
        /\ stream = {} /\ ids = 0 /\ last = 0
        /\ delayed = {} /\ dead = {}
        /\ tasks = {}
        /\ done = [j \in Jobs |-> 0]
        /\ failed = [j \in Jobs |-> 0]
        /\ trimmed = {} /\ redone = {}
        /\ faults \in 0..MaxFaults /\ stale \in 0..MaxStale  \* some may be spent

-----------------------------------------------------------------------------
(* Redis *)

PayloadOf(jobs) == {payload[j] : j \in jobs}

\* add: XADD with an approximate MAXLEN: once the stream is longer than that,
\* Redis may drop its oldest entry.
Add(jobs, attempt) ==
  LET new == [id |-> ids + 1, jobs |-> jobs, attempt |-> attempt]
      longer == stream \cup {new}
      oldest == CHOOSE e \in longer : \A f \in longer : e.id <= f.id
  IN /\ ids' = ids + 1
     /\ \/ stream' = longer /\ UNCHANGED trimmed
        \/ /\ Cardinality(longer) > MaxLen
           /\ stream' = longer \ {oldest}
           /\ trimmed' = trimmed \cup oldest.jobs

Publish(j) == /\ j \notin published
              /\ published' = published \cup {j}
              /\ Add({j}, 0)
              /\ UNCHANGED <<payload, last, delayed, dead, tasks, redone, done, failed, bounds>>

\* ZADD: a member is there once, however often it is added.
ZAdd(jobs, attempt) ==
  LET same == {d \in delayed : d.attempt = attempt /\ PayloadOf(d.jobs) = PayloadOf(jobs)}
  IN delayed' = (delayed \ same) \cup {[jobs |-> jobs \cup UNION {d.jobs : d \in same}, attempt |-> attempt]}

\* A mistake: the script does not remove the retry (ZREM).
MoveDueKeeps(d) == /\ d \in delayed
                   /\ Add(d.jobs, d.attempt)
                   /\ UNCHANGED <<last, delayed, dead, tasks, redone, history, bounds>>

\* moveDueScript: a due retry goes back to the stream, in one step.
MoveDue(d) == /\ d \in delayed
              /\ delayed' = delayed \ {d}
              /\ Add(d.jobs, d.attempt)
              /\ UNCHANGED <<last, dead, tasks, redone, history, bounds>>

-----------------------------------------------------------------------------
(* Consumers *)

\* The entry goes to a worker, which may be one of several that have it.
Deliver(e) == LET others == {t.n : t \in {x \in tasks : x.entry = e}}
                  n == CHOOSE k \in 1..(Cardinality(others) + 1) : k \notin others
              IN tasks' = tasks \cup {[n |-> n, entry |-> e, state |-> "held"]}

\* A mistake: reading acknowledges (NOACK).
ReadAcks(e) == /\ e.id > last
               /\ \A f \in stream : f.id > last => e.id <= f.id
               /\ last' = e.id
               /\ Deliver(e)
               /\ stream' = stream \ {e}
               /\ UNCHANGED <<ids, delayed, dead, trimmed, redone, history, bounds>>

\* consume, XREADGROUP: the next entry that nobody in the group has read.
Read(e) == /\ e.id > last
           /\ \A f \in stream : f.id > last => e.id <= f.id
           /\ last' = e.id
           /\ Deliver(e)
           /\ UNCHANGED <<redis, redone, history, bounds>>

\* Entries that were read and are not acknowledged, and those that nobody works on.
Pending == {e \in stream : e.id <= last}
Held == {t.entry.id : t \in tasks}

\* A mistake: the reclaimer looks at entries that nobody has read.
ReclaimUnread(e) == /\ e \in stream \ Pending
                    /\ stale' = IF e.id \in Held THEN stale + 1 ELSE stale
                    /\ stale' <= MaxStale
                    /\ Deliver(e)
                    /\ redone' = redone \cup e.jobs
                    /\ UNCHANGED <<redis, last, history, faults>>

\* consume, XAUTOCLAIM: an entry whose consumer is gone, or slow.
Reclaim(e) == /\ e \in Pending
              /\ stale' = IF e.id \in Held THEN stale + 1 ELSE stale
              /\ stale' <= MaxStale
              /\ Deliver(e)
              /\ redone' = redone \cup e.jobs
              /\ UNCHANGED <<redis, last, history, faults>>

SetTask(t, s) == tasks' = (tasks \ {t}) \cup {[t EXCEPT !.state = s]}

\* process: the handler runs, and succeeds, fails or fails for good.
Handle(t, outcome) ==
  /\ t.state = "held"
  /\ SetTask(t, outcome)
  /\ LET count == IF outcome = "ok" THEN done ELSE failed
         more == [j \in Jobs |-> IF j \in t.entry.jobs THEN count[j] + 1 ELSE count[j]]
     IN IF outcome = "ok" THEN done' = more /\ UNCHANGED failed
                          ELSE failed' = more /\ UNCHANGED done
  /\ UNCHANGED <<redis, last, redone, payload, published, bounds>>

\* process, the transaction: acknowledge and delete, and after a failure retry
\* or give up.  The XADD to jobs:dead (MaxLen) may drop old dead jobs: see dead.
Finish(t) ==
  LET attempt == t.entry.attempt + 1
      over == t.state = "permanent" \/ attempt >= MaxRetries
  IN /\ t.state \in {"ok", "error", "permanent"}
     /\ tasks' = tasks \ {t}
     /\ stream' = {e \in stream : e.id # t.entry.id}
     /\ \/ t.state = "ok" /\ UNCHANGED <<delayed, dead>>
        \/ /\ t.state # "ok" /\ over
           /\ dead' = dead \cup {[job |-> j, attempt |-> attempt, permanent |-> t.state = "permanent"] : j \in t.entry.jobs}
           /\ UNCHANGED delayed
        \/ /\ t.state # "ok" /\ ~over
           /\ ZAdd(t.entry.jobs, attempt)
           /\ UNCHANGED dead
     /\ UNCHANGED <<ids, trimmed, last, redone, history, bounds>>

\* The entries stay pending: the transaction fails, or an instance stops or
\* crashes and leaves whatever its workers and its readers had.
Abandon(ts) == /\ faults < MaxFaults
               /\ faults' = faults + 1
               /\ tasks' = tasks \ ts
               /\ UNCHANGED <<redis, last, redone, history, stale>>

Next == \/ \E j \in Jobs : Publish(j)
        \/ \E d \in delayed : MoveDue(d)
        \/ \E e \in stream : Read(e) \/ Reclaim(e)
        \/ \E t \in tasks : \/ Handle(t, "ok") \/ Handle(t, "error") \/ Handle(t, "permanent")
                            \/ Finish(t)
        \/ \E ts \in SUBSET tasks : ts # {} /\ Abandon(ts)

Spec == Init /\ [][Next]_vars

\* Some instance runs: its loops poll Redis, its workers take what is read, a
\* handler returns within JobTimeout, and abandoned entries are reclaimed.
Work == \E t \in tasks : Finish(t) \/ \E o \in {"ok", "error", "permanent"} : Handle(t, o)
ReclaimAbandoned == \E e \in stream : e.id \notin Held /\ Reclaim(e)
Fairness == /\ WF_vars(\E d \in delayed : MoveDue(d))
            /\ WF_vars(\E e \in stream : Read(e))
            /\ WF_vars(Work)
            /\ WF_vars(ReclaimAbandoned)

FairSpec == Spec /\ Fairness

-----------------------------------------------------------------------------
Entries == [id : Nat, jobs : SUBSET Jobs, attempt : 0..(MaxRetries - 1)]

\* The type invariant.  What is in the stream or waits for its backoff has an
\* attempt left.
TypeOK == /\ published \subseteq Jobs
          /\ stream \subseteq Entries
          /\ ids \in Nat /\ last \in 0..ids
          /\ delayed \subseteq [jobs : SUBSET Jobs, attempt : 1..(MaxRetries - 1)]
          /\ dead \subseteq [job : Jobs, attempt : 1..MaxRetries, permanent : BOOLEAN]
          /\ tasks \subseteq [n : Nat, entry : Entries, state : {"held", "ok", "error", "permanent"}]
          /\ done \in [Jobs -> Nat] /\ failed \in [Jobs -> Nat]
          /\ trimmed \subseteq Jobs /\ redone \subseteq Jobs
          /\ faults \in 0..MaxFaults /\ stale \in 0..MaxStale

EntryJobs == UNION {e.jobs : e \in stream}
DelayedJobs == UNION {d.jobs : d \in delayed}
DeadJobs == {d.job : d \in dead}

\* A published job is in Redis until a run of it has succeeded or it was added to
\* jobs:dead ("never both acknowledged and lost"), unless its stream grew past
\* MaxLen: through retries, crashes, failed acknowledgements and reclaims.  How
\* long a dead job is kept is not said: the XADD to jobs:dead trims old ones.
NoLoss == \A j \in published \ trimmed :
            done[j] > 0 \/ j \in EntryJobs \cup DelayedJobs \cup DeadJobs

\* The attempt that an entry, a retry or a dead job carries is never more than
\* the runs of the job that failed: nobody gives a job up early, and a job that
\* is dead without a permanent error has failed MaxRetries times.
AttemptsAreRuns ==
  /\ \A e \in stream \cup delayed : \A j \in e.jobs : e.attempt <= failed[j]
  /\ \A d \in dead : d.attempt <= failed[d.job] /\ (~d.permanent => d.attempt = MaxRetries)

\* A job whose entries were never reclaimed succeeds at most once, is run at most
\* MaxRetries times, and is not run again once it has succeeded or is dead.
OnceUnlessReclaimed ==
  \A j \in Jobs \ redone :
    /\ done[j] + failed[j] <= MaxRetries
    /\ done[j] > 0 => j \notin DelayedJobs \cup DeadJobs
    /\ j \in DeadJobs => j \notin EntryJobs \cup DelayedJobs

\* Every published job is done or added to jobs:dead in the end, whatever
\* crashes, unless it is trimmed from its stream.
JobsEnd == \A j \in Jobs : j \in published ~> done[j] > 0 \/ j \in DeadJobs \cup trimmed

\* An id is given once: a worker has an entry as it was added.  What an entry, a
\* retry or a delivery stands for are published jobs of one payload.
Orderly ==
  /\ payload \in Payloads /\ IsFiniteSet(tasks)
  /\ \A e \in stream : e.id \in 1..ids
  /\ \A e, f \in stream : e.id = f.id => e = f
  /\ \A t \in tasks : /\ t.entry.id <= last
                       /\ \A e \in stream : e.id = t.entry.id => e = t.entry
  /\ \A x \in stream \cup delayed \cup {t.entry : t \in tasks} :
       x.jobs # {} /\ x.jobs \subseteq published /\ \A j, k \in x.jobs : payload[j] = payload[k]
  /\ \A d \in dead : d.job \in published

\* What a worker is about to report has happened.
ReportsAreRuns ==
  \A t \in tasks : \A j \in t.entry.jobs :
    /\ t.state = "ok" => done[j] > 0
    /\ t.entry.attempt + (IF t.state \in {"error", "permanent"} THEN 1 ELSE 0) <= failed[j]

Ran(j, ok, error) == done[j] = ok /\ failed[j] = error

\* A job that no reclaim has delivered again is in one place, and what is there
\* says exactly how often it has run.
Alone(j) ==
  LET entries == {e \in stream : j \in e.jobs}
      mine == {t \in tasks : j \in t.entry.jobs}
      retries == {d \in delayed : j \in d.jobs}
  IN /\ \A e \in entries : IF e.id > last THEN Ran(j, 0, e.attempt)
                                           ELSE done[j] + failed[j] <= e.attempt + 1
     /\ \A t \in mine : /\ t.state = "held" => Ran(j, 0, t.entry.attempt)
                        /\ t.state = "ok" => Ran(j, 1, t.entry.attempt)
                        /\ t.state \in {"error", "permanent"} => Ran(j, 0, t.entry.attempt + 1)
     /\ \A d \in retries : Ran(j, 0, d.attempt)
     /\ \A e, f \in entries : e = f
     /\ \A t, u \in mine : t = u
     /\ \A d, x \in retries : d = x
     /\ \A e \in entries, t \in mine : e = t.entry
     /\ retries # {} => entries = {} /\ mine = {}
     /\ j \in DeadJobs => entries = {} /\ mine = {} /\ retries = {} /\ done[j] = 0
     /\ j \notin published => Ran(j, 0, 0)
     /\ done[j] + failed[j] <= MaxRetries

OnePlace == \A j \in Jobs \ redone : Alone(j)

\* The accounts of the queue: attempts are runs, no job has more than
\* MaxRetries, and only a reclaimed one runs again (redis.go, process, moveDue).
QueueInv == TypeOK /\ Orderly /\ ReportsAreRuns /\ OnePlace
            /\ AttemptsAreRuns /\ OnceUnlessReclaimed
=============================================================================
