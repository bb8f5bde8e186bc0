----------------------------- MODULE QueueOrder -----------------------------
(***************************************************************************)
(* The order of a queue: the scores that RedisBroker (broker/redis.py)     *)
(* gives the ids of {ns}:queue:{q} and the ZPOPMIN of dequeue.lua.         *)
(*                                                                         *)
(* The score priority * 1e12 + now in ms is the pair of the two: a         *)
(* priority step is more than the clock moves in thirty years.  The clock  *)
(* is read by the process that enqueues, before its script is executed;    *)
(* all processes agree on it.  Equal scores are popped in any order.       *)
(***************************************************************************)
EXTENDS Naturals

CONSTANTS
  Ticket,  \* task ids
  MaxTime  \* bound: the clock's last value

ASSUME MaxTimeAssumption == MaxTime \in Nat

VARIABLES
  clock,     \* time.time(), in ticks
  priority,  \* priority[t]: Task.priority
  place,     \* place[t]: where the id is
  score,     \* score[t]: of the last call that enqueues it
  level,     \* history: the priority its score was computed from
  entered    \* history: when the script of that call was executed

orderVars == <<clock, priority, place, score, level, entered>>

High == 1
Normal == 5
Low == 9

OrderTypeOK ==
  /\ clock \in 0 .. MaxTime
  /\ priority \in [Ticket -> {High, Normal, Low}]
  /\ place \in [Ticket -> {"new", "calling", "returning", "queued", "delayed",
                           "active"}]
  /\ score \in [Ticket -> [priority : {High, Normal, Low}, time : 0 .. MaxTime]]
  /\ level \in [Ticket -> {High, Normal, Low}]
  /\ entered \in [Ticket -> 0 .. MaxTime]

OrderInit ==
  /\ clock = 0
  /\ priority \in [Ticket -> {High, Normal, Low}]
  /\ place = [t \in Ticket |-> "new"]
  /\ score = [t \in Ticket |-> [priority |-> Low, time |-> 0]]
  /\ level = priority
  /\ entered = [t \in Ticket |-> 0]

Score(p) == [priority |-> p, time |-> clock]

LowerScore(a, b) ==
  \/ a.priority < b.priority
  \/ a.priority = b.priority /\ a.time < b.time

ClockTicks ==
  /\ clock < MaxTime
  /\ clock' = clock + 1
  /\ UNCHANGED <<priority, place, score, level, entered>>

\* enqueue, requeue: the task's own priority and the time of the call.
CallScored(t, from, to) ==
  /\ place[t] = from
  /\ place' = [place EXCEPT ![t] = to]
  /\ score' = [score EXCEPT ![t] = Score(priority[t])]
  /\ level' = [level EXCEPT ![t] = priority[t]]
  /\ UNCHANGED <<clock, priority, entered>>

EnqueueCall(t) == CallScored(t, "new", "calling")

\* Faulty variant: requeue with the score of promote_delayed.
RequeueCallNormal(t) ==
  /\ place[t] = "active"
  /\ place' = [place EXCEPT ![t] = "returning"]
  /\ score' = [score EXCEPT ![t] = Score(Normal)]
  /\ UNCHANGED <<clock, priority, level, entered>>

RequeueCall(t) == CallScored(t, "active", "returning")

\* enqueue.lua or requeue.lua: ZADD.
Arrive(t) ==
  /\ place[t] \in {"calling", "returning"}
  /\ place' = [place EXCEPT ![t] = "queued"]
  /\ entered' = [entered EXCEPT ![t] = clock]
  /\ UNCHANGED <<clock, priority, score, level>>

\* enqueue.lua with a delay, of a new task or of a retried one.
Delay(t) ==
  /\ place[t] \in {"calling", "active"}
  /\ place' = [place EXCEPT ![t] = "delayed"]
  /\ UNCHANGED <<clock, priority, score, level, entered>>

\* promote_delayed and reap_stale: whatever its priority, the id is NORMAL
\* from now on; the time was read at some moment before the script.
Demote(t, from) ==
  /\ place[t] = from
  /\ place' = [place EXCEPT ![t] = "queued"]
  /\ \E now \in 0 .. clock :
       score' = [score EXCEPT ![t] = [priority |-> Normal, time |-> now]]
  /\ level' = [level EXCEPT ![t] = Normal]
  /\ entered' = [entered EXCEPT ![t] = clock]
  /\ UNCHANGED <<clock, priority>>

PromoteNormal(t) == Demote(t, "delayed")
ReapNormal(t) == Demote(t, "active")

\* dequeue.lua: ZPOPMIN.
PopMin(t) ==
  /\ place[t] = "queued"
  /\ \A u \in Ticket : place[u] = "queued" => ~LowerScore(score[u], score[t])
  /\ place' = [place EXCEPT ![t] = "active"]
  /\ UNCHANGED <<clock, priority, score, level, entered>>

OrderNext ==
  \/ ClockTicks
  \/ \E t \in Ticket :
       \/ EnqueueCall(t) \/ RequeueCall(t) \/ Arrive(t) \/ Delay(t)
       \/ PromoteNormal(t) \/ ReapNormal(t) \/ PopMin(t)

OrderSpec == OrderInit /\ [][OrderNext]_orderVars

-----------------------------------------------------------------------------
(* Properties. *)

\* A task leaves the queue before another only if that one was not due: it
\* has a lower priority, or its call was not over when this one's began.
\* Priorities are those asked for at submit, except that a task that was
\* delayed, retried or reaped counts as NORMAL and as new.
NeverOvertaken ==
  [][\A t, u \in Ticket :
       place[t] = "queued" /\ place'[t] = "active" /\ place[u] = "queued" =>
         /\ level[t] <= level[u]
         /\ level[t] = level[u] => score[t].time <= entered[u]]_orderVars

=============================================================================
