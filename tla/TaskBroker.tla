----------------------------- MODULE TaskBroker -----------------------------
(***************************************************************************)
(* The Redis keys of RedisBroker (broker/redis.py) and the atomic commands *)
(* on them: the Lua scripts under broker/lua/ and the single Redis         *)
(* commands the Python methods issue.  One operator here is one round trip *)
(* to Redis, so two of them never interleave; everything a Python method   *)
(* does around them belongs to the modules that EXTEND this one.           *)
(*                                                                         *)
(* Abstractions: a task's JSON is its status and retry_count, the fields   *)
(* the control flow reads; sorted-set scores are left out, so the main     *)
(* queue is a set and a pop may return any member; a TTL is only present   *)
(* or absent, and a key that has one may expire at any time.               *)
(***************************************************************************)
EXTENDS Naturals, FiniteSets

CONSTANTS
  Task,     \* task ids (uuid4, so an id is submitted once)
  Queue,    \* queue names
  QueueOf,  \* QueueOf[t]: the `queue` field of task t, fixed at submission
  Worker,   \* worker ids (a fresh uuid per process, so a restart is a new one)
  Null      \* a missing key, a missing task

ASSUME QueueOfAssumption == QueueOf \in [Task -> Queue]

Status == {"pending", "running", "done", "failed", "cancelled", "retrying"}

TaskData == [status : Status, retries : Nat]

ASSUME NullAssumption == Null \notin TaskData \cup Task \cup Worker

VARIABLES
  hash,      \* {ns}:task:{id}: the stored task, or Null
  expiring,  \* the task ids whose hash carries a TTL
  main,      \* {ns}:queue:{q}: the ids ready to run
  delayed,   \* {ns}:queue:{q}.delayed
  active,    \* {ns}:queue:{q}.active: one set per QUEUE, not per worker
  dlq,       \* {ns}:queue:{q}.dlq: how often each id occurs in the list
  workers,   \* {ns}:workers: the ids of the registered workers
  acked,     \* history: the ids some worker has acknowledged
  discarded  \* history: the ids an operator purged from a DLQ

brokerVars ==
  <<hash, expiring, main, delayed, active, dlq, workers, acked, discarded>>

BrokerInit ==
  /\ hash = [t \in Task |-> Null]
  /\ expiring = {}
  /\ main = [q \in Queue |-> {}]
  /\ delayed = [q \in Queue |-> {}]
  /\ active = [q \in Queue |-> {}]
  /\ dlq = [q \in Queue |-> [t \in Task |-> 0]]
  /\ workers = {}
  /\ acked = {}
  /\ discarded = {}

BrokerTypeOK ==
  /\ hash \in [Task -> TaskData \cup {Null}]
  /\ expiring \subseteq Task
  /\ main \in [Queue -> SUBSET Task]
  /\ delayed \in [Queue -> SUBSET Task]
  /\ active \in [Queue -> SUBSET Task]
  /\ dlq \in [Queue -> [Task -> Nat]]
  /\ workers \subseteq Worker
  /\ acked \subseteq Task
  /\ discarded \subseteq Task

-----------------------------------------------------------------------------
(* Where an id is stored. *)

Add(set, q, ids) == [set EXCEPT ![q] = @ \cup ids]
Remove(set, q, ids) == [set EXCEPT ![q] = @ \ ids]

InDLQ(t) == dlq[QueueOf[t]][t] > 0

Queued(t) == t \in main[QueueOf[t]] \cup delayed[QueueOf[t]]

-----------------------------------------------------------------------------
(* The commands. *)

\* hset(task:{id}, "data", ...): replaces the whole stored task, keeps its TTL.
UpdateTask(t, data) ==
  /\ hash' = [hash EXCEPT ![t] = data]
  /\ UNCHANGED <<expiring, main, delayed, active, dlq, workers, acked,
                 discarded>>

\* A faulty variant: enqueue.lua without its PERSIST.
EnqueueWithoutPersist(t, data, isDelayed) ==
  LET q == QueueOf[t] IN
  /\ hash' = [hash EXCEPT ![t] = data]
  /\ main' = IF isDelayed THEN main ELSE Add(main, q, {t})
  /\ delayed' = IF isDelayed THEN Add(delayed, q, {t}) ELSE delayed
  /\ UNCHANGED <<expiring, active, dlq, workers, acked, discarded>>

\* enqueue.lua: HSET, PERSIST, ZADD to the delayed set or to the main queue.
EnqueueScript(t, data, isDelayed) ==
  LET q == QueueOf[t] IN
  /\ hash' = [hash EXCEPT ![t] = data]
  /\ expiring' = expiring \ {t}
  /\ main' = IF isDelayed THEN main ELSE Add(main, q, {t})
  /\ delayed' = IF isDelayed THEN Add(delayed, q, {t}) ELSE delayed
  /\ UNCHANGED <<active, dlq, workers, acked, discarded>>

\* Faulty variants of dequeue.lua: a read without the pop, a pop without SADD.
DequeueWithoutPop(q, t) ==
  /\ t \in main[q]
  /\ active' = Add(active, q, {t})
  /\ UNCHANGED <<hash, expiring, main, delayed, dlq, workers, acked, discarded>>

DequeueWithoutSadd(q, t) ==
  /\ t \in main[q]
  /\ main' = Remove(main, q, {t})
  /\ UNCHANGED <<hash, expiring, delayed, active, dlq, workers, acked,
                 discarded>>

\* dequeue.lua: ZPOPMIN and SADD to the active set.
DequeueScript(q, t) ==
  /\ t \in main[q]
  /\ main' = Remove(main, q, {t})
  /\ active' = Add(active, q, {t})
  /\ UNCHANGED <<hash, expiring, delayed, dlq, workers, acked, discarded>>

\* EXPIRE does nothing to a key that does not exist.
Expire(t) ==
  expiring' = IF hash[t] = Null THEN expiring ELSE expiring \cup {t}

\* ack.lua: SREM from the active set, result_ttl on the hash.
AckScript(t) ==
  /\ active' = Remove(active, QueueOf[t], {t})
  /\ Expire(t)
  /\ acked' = acked \cup {t}
  /\ UNCHANGED <<hash, main, delayed, dlq, workers, discarded>>

\* A faulty variant: nack.lua without its RPUSH.
NackWithoutPush(t) ==
  /\ active' = Remove(active, QueueOf[t], {t})
  /\ Expire(t)
  /\ UNCHANGED <<hash, main, delayed, dlq, workers, acked, discarded>>

\* nack.lua: SREM from the active set, RPUSH to the DLQ (duplicates and all),
\* dlq_ttl on the hash.
NackScript(t) ==
  /\ active' = Remove(active, QueueOf[t], {t})
  /\ dlq' = [dlq EXCEPT ![QueueOf[t]][t] = @ + 1]
  /\ Expire(t)
  /\ UNCHANGED <<hash, main, delayed, workers, acked, discarded>>

\* A faulty variant: requeue.lua without its ZADD.
RequeueWithoutZadd(q, t) ==
  /\ active' = Remove(active, q, {t})
  /\ UNCHANGED <<hash, expiring, main, delayed, dlq, workers, acked, discarded>>

\* requeue.lua: SREM from the queue's active set, ZADD to its main queue.
RequeueScript(q, t) ==
  /\ active' = Remove(active, q, {t})
  /\ main' = Add(main, q, {t})
  /\ UNCHANGED <<hash, expiring, delayed, dlq, workers, acked, discarded>>

\* A faulty variant: maintenance.lua without its ZADD.
PromoteWithoutZadd(q, due) ==
  /\ due \subseteq delayed[q]
  /\ delayed' = Remove(delayed, q, due)
  /\ UNCHANGED <<hash, expiring, main, active, dlq, workers, acked, discarded>>

\* maintenance.lua: the due ids move from the delayed set to the main queue.
\* Which delays have elapsed is the clock's choice.
PromoteScript(q, due) ==
  /\ due \subseteq delayed[q]
  /\ delayed' = Remove(delayed, q, due)
  /\ main' = Add(main, q, due)
  /\ UNCHANGED <<hash, expiring, active, dlq, workers, acked, discarded>>

\* reap_stale.lua: EVERY id of the queue's active set moves to the main queue,
\* whichever worker took it; the hash's TTL is left as it is.
ReapScript(q) ==
  /\ main' = Add(main, q, active[q])
  /\ active' = [active EXCEPT ![q] = {}]
  /\ UNCHANGED <<hash, expiring, delayed, dlq, workers, acked, discarded>>

\* LREM dlq 1 id: removes one occurrence, nothing when there is none.
DlqRemoveOne(t) ==
  /\ dlq' = [dlq EXCEPT ![QueueOf[t]][t] = IF @ > 0 THEN @ - 1 ELSE @]
  /\ UNCHANGED <<hash, expiring, main, delayed, active, workers, acked,
                 discarded>>

\* DEL dlq.
PurgeDlq(q) ==
  /\ discarded' = discarded \cup {t \in Task : dlq[q][t] > 0}
  /\ dlq' = [dlq EXCEPT ![q] = [t \in Task |-> 0]]
  /\ UNCHANGED <<hash, expiring, main, delayed, active, workers, acked>>

\* Redis drops a hash whose TTL has run out.
ExpireHash(t) ==
  /\ t \in expiring
  /\ hash' = [hash EXCEPT ![t] = Null]
  /\ expiring' = expiring \ {t}
  /\ UNCHANGED <<main, delayed, active, dlq, workers, acked, discarded>>

\* hset(workers, worker_id, info).
RegisterWorker(w) ==
  /\ workers' = workers \cup {w}
  /\ UNCHANGED <<hash, expiring, main, delayed, active, dlq, acked, discarded>>

\* hdel(workers, worker_id).
ForgetWorker(w) ==
  /\ workers' = workers \ {w}
  /\ UNCHANGED <<hash, expiring, main, delayed, active, dlq, acked, discarded>>
=============================================================================
