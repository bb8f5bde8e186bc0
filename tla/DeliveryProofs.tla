--------------------------- MODULE DeliveryProofs ---------------------------
(***************************************************************************)
(* No task is lost before its ack: AtLeastOnce for every value of the      *)
(* constants.                                                              *)
(*                                                                         *)
(* A submitted task is stored (in a queue, in the DLQ, with an operator,   *)
(* or it has ended), or it is with a worker.  When workers may die, that   *)
(* is not enough: the task must then also be in the active set of a queue  *)
(* that the worker serves, and if the worker is dead, the queue must lie   *)
(* ahead of every reaper that has begun to reap it.                        *)
(***************************************************************************)
EXTENDS OutcomeProofs

\* Worker w has t in a processor or in its dequeue loop.
WorkerHolds(w, t) ==
  loop[w].task = t \/ \E s \in Slot : InHand(proc[w][s], t)

\* Task t is safe whatever happens to the workers.
Stored(t) ==
  \/ t \in acked \cup discarded \/ Queued(t) \/ InDLQ(t)
  \/ \E o \in Operator : operator[o].pc # "listed" /\ operator[o].task = t

\* The reaper r has been through the queue q of its victim.
Passed(r, q) ==
  \E i \in DOMAIN QueuesOf[r.victim] : i < r.qi /\ QueuesOf[r.victim][i] = q

\* Worker w is dead, registered, and no reaper has passed its queue q.
Abandoned(w, q) ==
  /\ phase[w] = "dead" /\ w \in workers
  /\ \A v \in Worker : reaper[v].victim = w => ~Passed(reaper[v], q)

\* Worker w, which serves the queue of t, holds t, or died and will be reaped.
GuardedBy(w, t) ==
  /\ QueueOf[t] \in Serves(w)
  /\ WorkerHolds(w, t) \/ Abandoned(w, QueueOf[t])

\* Some worker does, and a reap of it will find t.
Guarded(t) ==
  t \in active[QueueOf[t]] /\ \E w \in Worker : GuardedBy(w, t)

\* Where the submitted tasks are while no worker crashes.
HeldInv ==
  Steady /\ used["crash"] = 0 =>
    \A t \in submitted : Stored(t) \/ \E w \in Worker : WorkerHolds(w, t)

\* Where they are while no live worker is taken for dead.
GuardInv ==
  Steady /\ used["stall"] = 0 => \A t \in submitted : Stored(t) \/ Guarded(t)

\* A worker process that is not up has no work, one in stop() polls no queue,
\* and stop() only runs until run() returns.
WorkInv ==
  \A w \in Worker :
    /\ phase[w] \in {"off", "boot", "dead"} =>
         /\ loop[w].pc = "acquire"
         /\ \A s \in Slot : proc[w][s].pc = "idle"
    /\ phase[w] \in {"stopping", "closing"} =>
         loop[w].pc \in {"acquire", "cancelled"}
    /\ stopper[w].pc # "none" => phase[w] = "stopping"

\* The worker processes that send no heartbeats any more.
Leaving == {w \in Worker : phase[w] \in {"stopping", "closing", "dead"}}

\* A reaper without a victim starts at a first queue; and as long as no live
\* worker stalls, only such ones are reaped, and the live ones are registered.
ReaperInv ==
  /\ \A v \in Worker : reaper[v].victim = Null => reaper[v].qi = 1
  /\ used["stall"] = 0 =>
       /\ silent \subseteq Leaving
       /\ \A v \in Worker : /\ reaper[v].todo \subseteq Leaving
                            /\ reaper[v].victim \in Leaving \cup {Null}
       /\ \A w \in Worker : phase[w] = "up" => w \in workers

\* Task t needs no worker any more, or waits for an operator.
Ended(t) == t \in acked \cup discarded \/ InDLQ(t)

\* A task whose hash is gone, or has a TTL, has ended, unless somebody retries
\* from the DLQ.
HashInv ==
  /\ used["expiry"] = 0 => \A t \in submitted : hash[t] # Null
  /\ used["dlqRetry"] = 0 =>
       /\ \A o \in Operator : operator[o] = IdleCopy
       /\ \A t \in submitted : hash[t] = Null \/ t \in expiring => Ended(t)

\* The inductive invariant.
DeliveryInv == WorkInv /\ ReaperInv /\ HashInv /\ HeldInv /\ GuardInv

-----------------------------------------------------------------------------
(* What a step keeps of task t. *)

\* The step loses neither a stored task, nor one in a hand, nor one in the
\* active set: each stays, is stored, or is popped by a worker.
Keeps(t) ==
  /\ Stored(t) => \/ Stored(t)'
                  \/ /\ t \in active'[QueueOf[t]]
                     /\ \E w \in Worker : /\ QueueOf[t] \in Serves(w)
                                          /\ loop'[w].task = t
  /\ \A w \in Worker : WorkerHolds(w, t) => WorkerHolds(w, t)' \/ Stored(t)'
  /\ t \in active[QueueOf[t]] => t \in active'[QueueOf[t]] \/ Stored(t)'

\* A step that touches other tasks only keeps t.
LEMMA SameKeeps ==
  ASSUME NEW t \in Task, Same(t)
  PROVE  Keeps(t)
<1>1. QueueOf[t] \in Queue
  BY QueueOfAssumption
<1>2. Stored(t) => Stored(t)'
  BY <1>1 DEF Same, SameKeys, SameMemory, Stored, Queued, InDLQ
<1>3. \A w \in Worker : WorkerHolds(w, t) => WorkerHolds(w, t)'
  BY DEF Same, SameMemory, WorkerHolds, InHand
<1> QED
  BY <1>1, <1>2, <1>3 DEF Keeps, Same, SameKeys

\* So does one that only writes or drops the hash.
LEMMA HashKeeps ==
  ASSUME NEW t \in Task, UNCHANGED <<loop, proc, operator>>,
         \/ \E u, data : UpdateTask(u, data)
         \/ \E u : ExpireHash(u)
  PROVE  Keeps(t)
<1>1. UNCHANGED <<main, delayed, active, dlq, acked, discarded>>
  BY DEF UpdateTask, ExpireHash
<1> QED
  BY <1>1 DEF Keeps, Stored, WorkerHolds, Queued, InDLQ

\* The scripts of the maintenance, of stop() and of a purge move the ids they
\* remove to the main queue, or discard them.
LEMMA BulkKeeps ==
  ASSUME TypeOK, NEW t \in Task, NEW q \in Queue,
         UNCHANGED <<loop, proc, operator>>,
         \/ \E due \in SUBSET Task : PromoteScript(q, due)
         \/ ReapScript(q)
         \/ \E u : RequeueScript(q, u)
         \/ PurgeDlq(q)
  PROVE  Keeps(t)
<1>1. QueueOf[t] \in Queue
  BY QueueOfAssumption
<1>2. \A w \in Worker : WorkerHolds(w, t) => WorkerHolds(w, t)'
  BY DEF WorkerHolds
<1>3. \/ t \in acked \cup discarded
      \/ \E o \in Operator : operator[o].pc # "listed" /\ operator[o].task = t
      => Stored(t)'
  BY DEF Stored, PromoteScript, ReapScript, RequeueScript, PurgeDlq
<1> SUFFICES /\ Queued(t) \/ InDLQ(t) => Stored(t)'
             /\ t \in active[QueueOf[t]] =>
                  t \in active'[QueueOf[t]] \/ Stored(t)'
  BY <1>2, <1>3 DEF Keeps, Stored
<1> USE <1>1 DEF TypeOK, BrokerTypeOK, Stored, Queued, InDLQ, Add, Remove
<1>4. CASE \E due \in SUBSET Task : PromoteScript(q, due)
  BY <1>4 DEF PromoteScript
<1>5. CASE ReapScript(q)
  BY <1>5 DEF ReapScript
<1>6. CASE PurgeDlq(q)
  BY <1>6 DEF PurgeDlq
<1>7. CASE \E u : RequeueScript(q, u)
  BY <1>7 DEF RequeueScript
<1> QED
  BY <1>4, <1>5, <1>6, <1>7

-----------------------------------------------------------------------------
(* The steps of one process keep its task. *)

\* Only the processor's own hold changes.
LEMMA ProcHolds ==
  ASSUME TypeOK, NEW w \in Worker, NEW s \in Slot, NEW q, NEW t,
         SetProc(w, s, q), UNCHANGED loop, InHand(proc[w][s], t) => InHand(q, t)
  PROVE  \A v \in Worker : WorkerHolds(v, t) => WorkerHolds(v, t)'
BY DEF WorkerHolds, InHand, SetProc, TypeOK

\* A processor keeps its task until it has stored it somewhere.
LEMMA ProcKeeps ==
  ASSUME TypeOK, ShapeInv, ~Spend("fault"),
         NEW w \in Worker, NEW s \in Slot,
         ExecStep(w, s) \/ ProcStep(w, s), phase[w] # "closing",
         NEW t \in Task, t = proc[w][s].task
  PROVE  Keeps(t)
<1> DEFINE p == proc[w][s]
<1>1. /\ t \in Task /\ p \in BusyState /\ QueueOf[t] \in Queue
      /\ UNCHANGED <<loop, operator>>
  BY ProcMoves, ProcFrames, QueueOfAssumption
<1>2. Stored(t)' => Keeps(t)
  BY DEF Keeps
<1>3. ASSUME NEW q, SetProc(w, s, q), InHand(p, t) => InHand(q, t),
             \/ UNCHANGED brokerVars
             \/ \E data : UpdateTask(t, data)
      PROVE  Keeps(t)
  <2>1. \A v \in Worker : WorkerHolds(v, t) => WorkerHolds(v, t)'
    BY <1>1, <1>3, ProcHolds
  <2>2. UNCHANGED <<main, delayed, active, dlq, acked, discarded>>
    BY <1>3 DEF brokerVars, UpdateTask
  <2> QED
    BY <1>1, <2>1, <2>2 DEF Keeps, Stored, Queued, InDLQ
<1>4. CASE \E q : ProcMove(w, s, q)
  <2>1. PICK q : ProcMove(w, s, q)
    BY <1>4
  <2>2. CASE AckScript(t)
    BY <1>1, <1>2, <2>2 DEF AckScript, Stored
  <2>3. CASE ~AckScript(t)
    <3>1. WellFormed(p)
      BY DEF ShapeInv
    <3>2. q.pc = "final" => q.status = "failed"
      BY <2>1, <2>3, <3>1 DEF ProcMove
    <3>3. InHand(q, t)
      BY <2>1, <3>2 DEF ProcMove, InHand
    <3> QED
      BY <1>3, <2>1, <2>3, <3>3 DEF ProcMove
  <2> QED
    BY <2>2, <2>3
<1>5. CASE Reenqueue(w, s)
  <2>1. EnqueueScript(t, Data(p), TRUE)
    BY <1>5 DEF Reenqueue, Call
  <2>2. Queued(t)'
    BY <1>1, <2>1 DEF EnqueueScript, Queued, Add, TypeOK, BrokerTypeOK
  <2> QED
    BY <1>2, <2>2 DEF Stored
<1>6. CASE Nack(w, s)
  <2>1. NackScript(t)
    BY <1>6 DEF Nack, Call
  <2>2. InDLQ(t)'
    BY <1>1, <2>1 DEF NackScript, InDLQ, TypeOK, BrokerTypeOK
  <2> QED
    BY <1>2, <2>2 DEF Stored
<1>7. CASE Finish(w, s)
  <2>1. ~InHand(p, t)
    BY <1>7 DEF Finish, InHand
  <2> QED
    BY <1>3, <1>7, <2>1 DEF Finish
<1> QED
  BY <1>4, <1>5, <1>6, <1>7, ProcMoves

\* A dequeue loop pops a task into the active set and into its own hand, and
\* passes it to a processor.  From another queue than its own, where a stop()
\* has put it, a task is only copied.
LEMMA LoopKeeps ==
  ASSUME TypeOK, HashInv, used["expiry"] = 0 \/ used["dlqRetry"] = 0,
         ~Spend("fault"), NEW w \in Worker, LoopStep(w), NEW u \in submitted
  PROVE  Keeps(u)
<1>1. u \in Task /\ QueueOf[u] \in Queue
  BY QueueOfAssumption DEF TypeOK
<1>2. ASSUME PopTask(w, u), DequeueScript(QueuesOf[w][loop[w].qi], u),
             UNCHANGED <<proc, operator>>
      PROVE  Keeps(u)
  <2> DEFINE q == QueuesOf[w][loop[w].qi]
  <2>1. q \in Queue /\ q \in Serves(w)
    BY FirstQueue, SystemAssumption DEF TypeOK, Serves
  <2>2. loop'[w].task = u
    BY <1>2 DEF PopTask, Call, SetLoop, TypeOK
  <2>3. \A v \in Worker : WorkerHolds(v, u) => WorkerHolds(v, u)'
    BY <1>2, <2>2 DEF WorkerHolds, PopTask, Call, SetLoop, TypeOK
  <2>4. u \in active[QueueOf[u]] \/ q = QueueOf[u] => u \in active'[QueueOf[u]]
    BY <1>1, <1>2, <2>1 DEF DequeueScript, Add, TypeOK, BrokerTypeOK
  <2>5. q # QueueOf[u] /\ Stored(u) => Stored(u)'
    BY <1>1, <1>2, <2>1
       DEF DequeueScript, Remove, Stored, Queued, InDLQ, TypeOK, BrokerTypeOK
  <2> HIDE DEF q
  <2> QED
    BY <2>1, <2>2, <2>3, <2>4, <2>5 DEF Keeps
<1>3. ASSUME loop[w].pc = "fetch", u = loop[w].task,
             UNCHANGED <<brokerVars, operator>>
      PROVE  Keeps(u)
  <2>1. ASSUME \A v \in Worker : WorkerHolds(v, u) => WorkerHolds(v, u)'
        PROVE  Keeps(u)
    BY <1>3, <2>1 DEF Keeps, Stored, Queued, InDLQ, brokerVars
  <2>2. CASE FetchNothing(w)
    <3>1. Ended(u)
      BY <1>3, <2>2 DEF FetchNothing, HashInv
    <3>2. Stored(u)'
      BY <1>3, <3>1 DEF Ended, Stored, InDLQ, brokerVars
    <3> QED
      BY <3>2 DEF Keeps
  <2>3. CASE \E s \in Slot : Dispatch(w, s)
    <3>1. PICK s \in Slot : Dispatch(w, s)
      BY <2>3
    <3>2. proc[w][s].task # u
      <4>1. proc[w][s] = IdleProc
        BY <3>1 DEF Dispatch, TypeOK, ProcState, BusyState, BusyPC
      <4> QED
        BY <1>1, <4>1, NullAssumption DEF IdleProc
    <3>3. InHand(proc'[w][s], u)
      BY <1>3, <3>1 DEF Dispatch, InHand, IdleProc, TypeOK
    <3>4. WorkerHolds(w, u)'
      BY <3>3 DEF WorkerHolds
    <3>5. \A v \in Worker \ {w} : UNCHANGED <<loop[v], proc[v]>>
      BY <3>1 DEF Dispatch, SetLoop, TypeOK
    <3>6. \A v \in Worker : WorkerHolds(v, u) => WorkerHolds(v, u)'
      BY <3>4, <3>5 DEF WorkerHolds
    <3> QED
      BY <2>1, <3>6
  <2> QED
    BY <1>3, <2>2, <2>3
       DEF LoopStep, AcquirePermit, PollEmpty, PopTask, FetchFails
<1>4. CASE \E t \in Task : /\ PopTask(w, t) /\ Focus(t)
                           /\ DequeueScript(QueuesOf[w][loop[w].qi], t)
                           /\ UNCHANGED <<proc, operator>>
  BY <1>1, <1>2, <1>4, SameKeeps DEF Focus
<1>5. CASE /\ loop[w].pc = "fetch" /\ loop[w].task \in Task
           /\ Focus(loop[w].task) /\ UNCHANGED <<brokerVars, operator>>
  BY <1>1, <1>3, <1>5, SameKeeps DEF Focus
<1> QED
  BY <1>1, <1>4, <1>5, LoopFrames, SameKeeps

\* An operator who takes an id from the DLQ enqueues it, if its hash is there.
LEMMA OperatorKeeps ==
  ASSUME TypeOK, HashInv, used["expiry"] = 0 \/ used["dlqRetry"] = 0,
         ~Spend("fault"), OperatorStep, NEW u \in submitted
  PROVE  Keeps(u)
<1>0. u \in Task
  BY DEF TypeOK
<1>1. ASSUME NEW o \in Operator, NEW t \in Task, DlqList(o, t)
      PROVE  Keeps(u)
  <2>1. Keeps(t)
    BY <1>1, OperatorFrames DEF DlqList, brokerVars, Keeps, Stored, InDLQ
  <2> QED
    BY <1>0, <1>1, <2>1, OperatorFrames, SameKeeps DEF Focus
<1>2. ASSUME NEW o \in Operator, RetryStep(o)
      PROVE  Keeps(u)
  <2>1. PICK t \in Task : t = operator[o].task /\ Focus(t)
    BY <1>2, OperatorFrames
  <2> SUFFICES ASSUME t = u
               PROVE  Keeps(u)
    BY <1>0, <2>1, SameKeeps DEF Focus
  <2> USE QueueOfAssumption
  <2>3. operator[o].pc # "idle"
    BY <1>2 DEF RetryStep, DlqTake, DlqFetch, DlqStore, DlqEnqueue
  <2>4. hash[t] # Null
    BY <2>3 DEF HashInv, IdleCopy
  <2>5. ASSUME NEW pc \in {"taken", "fetched", "stored"}, NEW n,
               SetOperator(o, pc, t, n)
        PROVE  Stored(t)'
    BY <2>5 DEF SetOperator, Stored, TypeOK
  <2>6. ASSUME DlqTake(o) \/ DlqFetch(o) \/ DlqStore(o) PROVE Stored(t)'
    BY <2>1, <2>4, <2>5, <2>6 DEF DlqTake, DlqFetch, DlqStore, Call
  <2>7. ASSUME DlqEnqueue(o) PROVE Stored(t)'
    <3>1. \E data : EnqueueScript(t, data, FALSE)
      BY <2>1, <2>7 DEF DlqEnqueue, Call
    <3>2. Queued(t)'
      BY <2>1, <3>1 DEF EnqueueScript, Queued, Add, TypeOK, BrokerTypeOK
    <3> QED
      BY <3>2 DEF Stored
  <2>8. Stored(t)'
    BY <1>2, <2>6, <2>7 DEF RetryStep
  <2> QED
    BY <2>8 DEF Keeps
<1>3. ASSUME NEW q \in Queue, Purge(q)
      PROVE  Keeps(u)
  BY <1>0, <1>3, BulkKeeps DEF Purge, workerVars, clientVars
<1> QED
  BY <1>1, <1>2, <1>3 DEF OperatorStep

\* A submitted id is queued, and nothing is done to the others' tasks.
LEMMA ClientKeeps ==
  ASSUME TypeOK, ClientStep \/ \E t \in Task : TtlRunsOut(t), NEW u \in Task
  PROVE  Keeps(u) /\ (u \in submitted' \ submitted => Stored(u)')
<1>1. ASSUME NEW t \in Task, NEW isDelayed \in BOOLEAN, Submit(t, isDelayed)
      PROVE  Keeps(u) /\ (u \in submitted' \ submitted => Stored(u)')
  <2>1. QueueOf[t] \in Queue
    BY QueueOfAssumption
  <2>2. Queued(t)'
    BY <1>1, <2>1
       DEF Submit, EnqueueScript, Queued, Add, TypeOK, BrokerTypeOK
  <2>3. Stored(t)' /\ Keeps(t)
    BY <2>2 DEF Stored, Keeps
  <2> QED
    BY <1>1, <2>3, ClientFrames, SameKeeps DEF Focus, Submit
<1>2. ASSUME NEW c \in Client, NEW t \in Task, CancelRead(c, t)
      PROVE  Keeps(u) /\ UNCHANGED submitted
  BY <1>2, ClientFrames, SameKeeps DEF CancelRead
<1>3. ASSUME NEW c \in Client, CancelWrite(c)
      PROVE  Keeps(u) /\ UNCHANGED submitted
  BY <1>3, HashKeeps DEF CancelWrite, workerVars
<1>4. ASSUME NEW t \in Task, TtlRunsOut(t)
      PROVE  Keeps(u) /\ UNCHANGED submitted
  BY <1>4, HashKeeps DEF TtlRunsOut, workerVars, clientVars
<1> QED
  BY <1>1, <1>2, <1>3, <1>4 DEF ClientStep

\* No worker drops in the step what it holds: none dies, begins to stop, cancels
\* its processors or returns from run().
NoDrop ==
  \A w \in Worker :
    /\ phase[w] # "closing"
    /\ ~Crash(w) /\ ~StopBegin(w) /\ ~StopCancels(w) /\ ~RunReturns(w)

\* Every such step keeps every submitted task, and stores a new one.
LEMMA StepKeeps ==
  ASSUME TypeOK, TypeOK', ShapeInv, HashInv, [Next]_vars, NoDrop,
         ~Spend("fault"), used["expiry"] = 0 \/ used["dlqRetry"] = 0,
         NEW u \in submitted'
  PROVE  Keeps(u) /\ (u \notin submitted => Stored(u)')
<1>0. u \in Task
  BY DEF TypeOK
<1>1. ASSUME QuietStep, UNCHANGED submitted
      PROVE  Keeps(u)
  BY <1>0, <1>1, QuietFrames, SameKeeps
<1>2. ASSUME NEW w \in Worker, WorkerStep(w)
      PROVE  Keeps(u) /\ UNCHANGED submitted
  <2>1. CASE LoopStep(w)
    <3>1. UNCHANGED submitted
      BY <2>1 DEF LoopStep, AcquirePermit, PollEmpty, PopTask, FetchNothing,
         FetchFails, Dispatch, clientVars
    <3> QED
      BY <2>1, <3>1, LoopKeeps
  <2>2. CASE \E s \in Slot : ExecStep(w, s) \/ ProcStep(w, s)
    <3>1. PICK s \in Slot : ExecStep(w, s) \/ ProcStep(w, s)
      BY <2>2
    <3>2. PICK t \in Task : t = proc[w][s].task
      BY <3>1, ProcMoves
    <3>3. Focus(t) /\ UNCHANGED submitted
      BY <3>1, <3>2, ProcFrames
    <3>4. Keeps(t)
      BY <3>1, <3>2, ProcKeeps DEF NoDrop
    <3> QED
      BY <1>0, <3>3, <3>4, SameKeeps DEF Focus
  <2>3. CASE \E v \in Worker : ReapQueue(w, v)
    <3>1. PICK v \in Worker : ReapQueue(w, v)
      BY <2>3
    <3>2. QueuesOf[v][reaper[w].qi] \in Queue
      BY <3>1, FirstQueue, SystemAssumption DEF ReapQueue, TypeOK, ReaperState
    <3> QED
      BY <1>0, <3>1, <3>2, BulkKeeps
         DEF ReapQueue, Call, workerVars, clientVars
  <2>4. CASE \E i \in DOMAIN QueuesOf[w], due \in SUBSET Task :
               Promote(w, i, due)
    <3>1. PICK i \in DOMAIN QueuesOf[w], due \in SUBSET Task :
                 Promote(w, i, due)
      BY <2>4
    <3>2. QueuesOf[w][i] \in Queue
      BY SystemAssumption
    <3> QED
      BY <1>0, <3>1, <3>2, BulkKeeps
         DEF Promote, Call, workerVars, clientVars
  <2>5. CASE \/ Start(w) \/ Register(w) \/ ReapScan(w) \/ ReapForget(w)
             \/ Heartbeat(w) \/ FallSilent(w)
    <3>1. UNCHANGED submitted
      BY <2>5 DEF Start, Register, Heartbeat, FallSilent, ReapScan,
         ReapForget, clientVars
    <3> QED
      BY <1>1, <2>5, <3>1 DEF QuietStep
  <2>6. CASE \E t \in Task : StopRequeue(w, t)
    <3>1. PICK t \in Task : StopRequeue(w, t)
      BY <2>6
    <3>2. QueuesOf[w][stopper[w].qi] \in Queue /\ UNCHANGED submitted
      BY <3>1, SystemAssumption DEF StopRequeue, TypeOK, clientVars
    <3>3. UNCHANGED <<loop, proc, operator>>
      BY <3>1 DEF StopRequeue, workerVars, clientVars
    <3>4. \/ UNCHANGED brokerVars
          \/ RequeueScript(QueuesOf[w][stopper[w].qi], t)
      BY <3>1 DEF StopRequeue, Call
    <3> QED
      BY <1>0, <3>2, <3>3, <3>4, BulkKeeps, SameAll, SameKeeps
  <2>7. CASE \/ StopAllEnded(w) \/ \E ids \in SUBSET Task : StopTimesOut(w, ids)
             \/ StopDeregister(w)
    <3>1. /\ UNCHANGED <<loop, proc, operator, submitted>>
          /\ UNCHANGED brokerVars \/ ForgetWorker(w)
      BY <2>7 DEF StopAllEnded, StopTimesOut, StopDeregister, Call,
         workerVars, clientVars
    <3> QED
      BY <1>0, <3>1, SameAll, SameKeeps
  <2>8. ~(StopBegin(w) \/ Crash(w) \/ StopCancels(w) \/ RunReturns(w)
            \/ Exit(w))
    BY DEF NoDrop, Exit
  <2> QED
    BY <1>2, <2>1, <2>2, <2>3, <2>4, <2>5, <2>6, <2>7, <2>8
       DEF WorkerStep, MaintenanceStep, StopStep
<1>3. CASE ClientStep \/ \E t \in Task : TtlRunsOut(t)
  BY <1>0, <1>3, ClientKeeps
<1>4. CASE OperatorStep
  <2>1. UNCHANGED submitted
    BY <1>4 DEF OperatorStep, RetryStep, DlqList, DlqTake, DlqFetch, DlqStore,
       DlqEnqueue, Purge, clientVars
  <2> QED
    BY <1>4, <2>1, OperatorKeeps
<1>5. CASE UNCHANGED vars
  BY <1>1, <1>5 DEF QuietStep, vars, clientVars
<1> QED
  BY <1>2, <1>3, <1>4, <1>5 DEF Next

\* While all is steady, so does every step but a crash.
LEMMA SteadyKeeps ==
  ASSUME TypeOK, TypeOK', ShapeInv, GroundInv, HashInv, [Next]_vars, Steady',
         \A w \in Worker : ~Crash(w), NEW u \in submitted'
  PROVE  Keeps(u) /\ (u \notin submitted => Stored(u)')
<1>1. Steady /\ ~Spend("fault") /\ used'["stop"] = 0
  BY UsedGrows, NotSpent DEF Steady, Disturbance
<1>2. Calm
  BY <1>1 DEF GroundInv, Steady
<1>3. NoDrop
  <2>1. \A w \in Worker : ~StopBegin(w) /\ ~StopStep(w)
    BY <1>1, <1>2, CalmStep
  <2> QED
    BY <1>2, <2>1 DEF NoDrop, Calm, StopStep
<1> QED
  BY <1>1, <1>3, StepKeeps DEF Steady

-----------------------------------------------------------------------------
(* The reapers. *)

\* A dead worker stays abandoned, on each queue it serves, until the queue's
\* active set has been moved to the main queue.
LEMMA StaysAbandoned ==
  ASSUME TypeOK, WorkInv, ReaperInv, [Next]_vars,
         NEW w \in Worker, NEW q \in Serves(w), Abandoned(w, q)
  PROVE  Abandoned(w, q)' \/ active[q] \subseteq main'[q]
<1>1. phase[w] = "dead" /\ w \in workers /\ phase'[w] = "dead"
  BY DeadStays DEF Abandoned
<1>2. q \in Queue
  BY SystemAssumption DEF Serves
<1>3. ASSUME w \in workers',
             \A v \in Worker :
               \/ reaper'[v].victim = Null
               \/ /\ reaper'[v].victim = reaper[v].victim
                  /\ reaper'[v].qi = reaper[v].qi
      PROVE  Abandoned(w, q)'
  <2>1. w # Null
    BY NullAssumption
  <2> QED
    BY <1>1, <1>3, <2>1 DEF Abandoned, Passed
<1>4. ASSUME UNCHANGED <<workers, reaper>>
      PROVE  Abandoned(w, q)'
  BY <1>3, <1>4, <1>1
<1>5. ASSUME NEW x \in Worker, WorkerStep(x)
      PROVE  Abandoned(w, q)' \/ active[q] \subseteq main'[q]
  <2>1. CASE Start(x) \/ Register(x) \/ ReapScan(x)
    <3>1. w \in workers'
      BY <1>1, <2>1
         DEF Start, Register, ReapScan, Call, RegisterWorker, brokerVars
    <3>2. \/ UNCHANGED reaper
          \/ reaper' = [reaper EXCEPT ![x].todo = workers \cap silent]
      BY <2>1 DEF Start, Register, ReapScan, reapVars
    <3>3. \A v \in Worker : /\ reaper'[v].victim = reaper[v].victim
                            /\ reaper'[v].qi = reaper[v].qi
      <4>1. reaper \in [Worker -> ReaperState]
        BY DEF TypeOK
      <4> QED
        BY <3>2, <4>1 DEF ReaperState
    <3> QED
      BY <1>3, <3>1, <3>3
  <2>2. CASE \E y \in Worker : ReapQueue(x, y)
    <3>1. PICK y \in Worker : ReapQueue(x, y)
      BY <2>2
    <3> DEFINE r == reaper[x]
               i == reaper[x].qi
    <3>2. /\ i \in Nat \ {0} /\ i <= Len(QueuesOf[y])
          /\ QueuesOf[y] \in Seq(Queue) /\ i \in DOMAIN QueuesOf[y]
      BY <3>1, SystemAssumption DEF ReapQueue, TypeOK, ReaperState
    <3>3. UNCHANGED workers
      BY <3>1 DEF ReapQueue, Call, ReapScript, brokerVars
    <3>4. CASE reaper' = [reaper EXCEPT ![x] = IdleReaper]
      BY <1>1, <1>3, <3>3, <3>4 DEF IdleReaper, TypeOK
    <3>5. CASE /\ ReapScript(QueuesOf[y][i])
               /\ reaper' = [reaper EXCEPT ![x] =
                               [todo |-> r.todo \ {y}, victim |-> y,
                                qi |-> i + 1]]
      <4>1. CASE QueuesOf[y][i] = q
        BY <1>2, <3>5, <4>1
           DEF ReapScript, Add, TypeOK, BrokerTypeOK
      <4>2. CASE QueuesOf[y][i] # q
        <5>1. /\ reaper'[x].victim = y /\ reaper'[x].qi = i + 1
              /\ \A v \in Worker \ {x} : reaper'[v] = reaper[v]
          BY <3>5 DEF TypeOK
        <5>2. r.victim = y \/ i = 1
          BY <3>1 DEF ReapQueue, ReaperInv
        <5>3. ASSUME y = w, NEW j \in DOMAIN QueuesOf[w], j < i + 1,
                     QueuesOf[w][j] = q
              PROVE  FALSE
          <6>1. j \in Nat \ {0} /\ j # i
            BY <3>2, <4>2, <5>3
          <6>2. j < i
            BY <3>2, <5>3, <6>1
          <6>3. r.victim = w
            BY <3>2, <5>2, <5>3, <6>1, <6>2
          <6> QED
            BY <5>3, <6>2, <6>3 DEF Abandoned, Passed
        <5>4. y = w => ~Passed(reaper[x], q)'
          BY <5>1, <5>3 DEF Passed
        <5>5. \A v \in Worker \ {x} :
                reaper'[v].victim = w => ~Passed(reaper[v], q)'
          BY <5>1 DEF Abandoned, Passed
        <5> QED
          BY <1>1, <3>3, <5>1, <5>4, <5>5 DEF Abandoned, Passed
      <4> QED
        BY <4>1, <4>2
    <3> QED
      BY <3>1, <3>4, <3>5 DEF ReapQueue, Call
  <2>3. CASE ReapForget(x)
    <3>1. reaper[x].victim # w
      <4>1. ASSUME reaper[x].victim = w PROVE FALSE
        <5>1. PICK i \in DOMAIN QueuesOf[w] : QueuesOf[w][i] = q
          BY DEF Serves
        <5>2. /\ QueuesOf[w] \in Seq(Queue) /\ i \in Nat
              /\ i <= Len(QueuesOf[w]) /\ reaper[x].qi \in Nat
          BY SystemAssumption DEF TypeOK, ReaperState
        <5>3. reaper[x].qi > Len(QueuesOf[w])
          BY <2>3, <4>1 DEF ReapForget
        <5>4. i < reaper[x].qi
          BY <5>2, <5>3
        <5> QED
          BY <4>1, <5>1, <5>4 DEF Abandoned, Passed
      <4> QED
        BY <4>1
    <3>2. w \in workers'
      BY <1>1, <2>3, <3>1 DEF ReapForget, Call, ForgetWorker, brokerVars
    <3>3. \E z : /\ reaper' = [reaper EXCEPT ![x] = z]
                 /\ z.victim = Null
      BY <2>3 DEF ReapForget, Call, IdleReaper
    <3> QED
      BY <1>3, <3>2, <3>3 DEF TypeOK
  <2>4. CASE \E i \in DOMAIN QueuesOf[x], due \in SUBSET Task :
               Promote(x, i, due)
    BY <1>4, <2>4 DEF Promote, Call, PromoteScript, brokerVars, reapVars
  <2>5. CASE Heartbeat(x) \/ FallSilent(x)
    BY <1>4, <2>5 DEF Heartbeat, FallSilent, brokerVars
  <2>6. CASE LoopStep(x)
    BY <1>4, <2>6 DEF LoopStep, AcquirePermit, PollEmpty, PopTask,
       FetchNothing, FetchFails, Dispatch, Call, DequeueScript, brokerVars,
       reapVars
  <2>7. CASE \E s \in Slot : ExecStep(x, s) \/ ProcStep(x, s)
    <3>1. PICK s \in Slot : ExecStep(x, s) \/ ProcStep(x, s)
      BY <2>7
    <3>2. CASE \E p : ProcMove(x, s, p) /\ ProcFrame
      BY <1>4, <3>2
         DEF ProcMove, ProcFrame, UpdateTask, AckScript, brokerVars, reapVars
    <3>3. CASE Reenqueue(x, s) \/ Nack(x, s) \/ Finish(x, s)
      BY <1>4, <3>3 DEF Reenqueue, Nack, Finish, Call, EnqueueScript,
         NackScript, ProcFrame, brokerVars, reapVars
    <3> QED
      BY <3>1, <3>2, <3>3, ProcMoves
  <2>8. CASE Crash(x) \/ StopBegin(x) \/ StopStep(x)
    <3>1. w \in workers'
      <4>1. stopper[w].pc = "none"
        BY <1>1 DEF WorkInv
      <4>2. CASE StopDeregister(x)
        BY <1>1, <4>1, <4>2 DEF StopDeregister, Call, ForgetWorker, brokerVars
      <4>3. CASE \E t \in Task : StopRequeue(x, t)
        BY <1>1, <4>3 DEF StopRequeue, Call, RequeueScript, brokerVars
      <4> QED
        BY <1>1, <2>8, <4>2, <4>3 DEF Crash, StopBegin, StopStep,
           StopAllEnded, StopTimesOut, StopCancels, RunReturns, Exit,
           ProcessEnds, brokerVars
    <3>2. \A v \in Worker : reaper'[v] = reaper[v] \/ reaper'[v] = IdleReaper
      BY <2>8 DEF Crash, StopBegin, StopStep, StopAllEnded, StopTimesOut,
         StopCancels, StopRequeue, StopDeregister, RunReturns, Exit,
         ProcessEnds, TypeOK
    <3>3. IdleReaper.victim = Null
      BY DEF IdleReaper
    <3> QED
      BY <1>3, <3>1, <3>2, <3>3
  <2> QED
    BY <1>5, <2>1, <2>2, <2>3, <2>4, <2>5, <2>6, <2>7, <2>8
       DEF WorkerStep, MaintenanceStep
<1>6. CASE ClientStep \/ \E t \in Task : TtlRunsOut(t)
  BY <1>4, <1>6 DEF ClientStep, Submit, CancelRead, CancelWrite, TtlRunsOut,
     EnqueueScript, UpdateTask, ExpireHash, brokerVars, reapVars
<1>7. CASE OperatorStep
  BY <1>4, <1>7 DEF OperatorStep, RetryStep, DlqList, DlqTake, DlqFetch,
     DlqStore, DlqEnqueue, Purge, Call, DlqRemoveOne, UpdateTask,
     EnqueueScript, PurgeDlq, brokerVars, reapVars
<1>8. CASE UNCHANGED vars
  BY <1>4, <1>8 DEF vars, brokerVars, reapVars
<1> QED
  BY <1>5, <1>6, <1>7, <1>8 DEF Next

\* A process that has begun to stop does not come up again.
LEMMA LeavingStays ==
  ASSUME TypeOK, [Next]_vars
  PROVE  Leaving \subseteq Leaving'
<1>1. ASSUME UNCHANGED phase PROVE Leaving \subseteq Leaving'
  BY <1>1 DEF Leaving
<1>2. ASSUME NEW w \in Worker, NEW x, phase' = [phase EXCEPT ![w] = x],
             x \in {"stopping", "closing", "dead"} \/ w \notin Leaving
      PROVE  Leaving \subseteq Leaving'
  BY <1>2 DEF Leaving, TypeOK
<1>3. ASSUME NEW w \in Worker, WorkerStep(w)
      PROVE  Leaving \subseteq Leaving'
  <2>1. CASE Start(w) \/ Register(w)
    BY <1>2, <2>1 DEF Start, Register, Call, Leaving
  <2>2. CASE StopBegin(w) \/ Crash(w)
    BY <1>2, <2>2 DEF StopBegin, Crash, ProcessEnds
  <2>3. CASE StopStep(w)
    BY <1>1, <1>2, <2>3 DEF StopStep, StopAllEnded, StopTimesOut, StopCancels,
       StopRequeue, StopDeregister, RunReturns, Exit, ProcessEnds, workerVars
  <2>4. CASE LoopStep(w)
    BY <1>1, <2>4 DEF LoopStep, AcquirePermit, PollEmpty, PopTask,
       FetchNothing, FetchFails, Dispatch
  <2>5. CASE \E s \in Slot : ExecStep(w, s) \/ ProcStep(w, s)
    BY <1>1, <2>5, ProcMoves DEF ProcFrame, Reenqueue, Nack, Finish
  <2>6. CASE MaintenanceStep(w) \/ Heartbeat(w) \/ FallSilent(w)
    BY <1>1, <2>6 DEF MaintenanceStep, ReapScan, ReapQueue, ReapForget,
       Promote, Heartbeat, FallSilent, workerVars
  <2> QED
    BY <1>3, <2>1, <2>2, <2>3, <2>4, <2>5, <2>6 DEF WorkerStep
<1>4. CASE ClientStep \/ OperatorStep \/ \E t \in Task : TtlRunsOut(t)
  BY <1>1, <1>4 DEF ClientStep, OperatorStep, RetryStep, Submit, CancelRead,
     CancelWrite, DlqList, DlqTake, DlqFetch, DlqStore, DlqEnqueue, Purge,
     TtlRunsOut, workerVars
<1>5. CASE UNCHANGED vars
  BY <1>1, <1>5 DEF vars, workerVars
<1> QED
  BY <1>3, <1>4, <1>5 DEF Next

\* Loops and processors work in processes that are up, and what a signal or a
\* crash leaves of them does not begin anew.
LEMMA WorkStays ==
  ASSUME TypeOK, WorkInv, [Next]_vars
  PROVE  WorkInv'
<1>1. ASSUME UNCHANGED <<phase, loop, proc, stopper>>
      PROVE  WorkInv'
  BY <1>1 DEF WorkInv
<1>2. ASSUME NEW w \in Worker, WorkerStep(w)
      PROVE  WorkInv'
  <2>1. CASE LoopStep(w)
    <3>1. /\ loop[w].pc \in {"poll", "fetch"} \/ phase[w] = "up"
          /\ UNCHANGED <<phase, stopper>>
      BY <2>1 DEF LoopStep, AcquirePermit, PollEmpty, PopTask, FetchNothing,
         FetchFails, Dispatch, reapVars
    <3>2. phase[w] = "up"
      BY <3>1 DEF WorkInv, TypeOK, Phase
    <3>3. \A v \in Worker \ {w} : UNCHANGED <<loop[v], proc[v]>>
      BY <2>1 DEF LoopStep, AcquirePermit, PollEmpty, PopTask, Call,
         FetchNothing, FetchFails, Dispatch, SetLoop, LoopAgain, TypeOK
    <3> QED
      BY <3>1, <3>2, <3>3 DEF WorkInv
  <2>2. CASE \E s \in Slot : ExecStep(w, s) \/ ProcStep(w, s)
    <3>1. PICK s \in Slot : ExecStep(w, s) \/ ProcStep(w, s)
      BY <2>2
    <3>2. phase[w] \notin {"off", "boot", "dead"}
      BY <3>1, ProcMoves DEF WorkInv, BusyState, BusyPC
    <3>3. UNCHANGED <<phase, stopper, loop>>
      BY <3>1, ProcMoves, ProcFrames
         DEF ProcFrame, Reenqueue, Nack, Finish, reapVars
    <3>4. \E q : SetProc(w, s, q)
      BY <3>1, ProcMoves DEF ProcMove, Reenqueue, Nack, Finish, Call
    <3>5. \A v \in Worker \ {w} : UNCHANGED proc[v]
      BY <3>4 DEF SetProc, TypeOK
    <3> QED
      BY <3>2, <3>3, <3>5 DEF WorkInv
  <2>3. CASE Start(w) \/ Register(w)
    BY <2>3 DEF WorkInv, Start, Register, Call, reapVars, TypeOK
  <2>4. CASE MaintenanceStep(w) \/ Heartbeat(w) \/ FallSilent(w)
    BY <1>1, <2>4 DEF MaintenanceStep, ReapScan, ReapQueue, ReapForget, Promote,
       Heartbeat, FallSilent, workerVars, reapVars
  <2>5. CASE Crash(w) \/ Exit(w)
    <3>1. /\ phase' = [phase EXCEPT ![w] = "dead"]
          /\ loop' = [loop EXCEPT ![w] = IdleLoop]
          /\ proc' = [proc EXCEPT ![w] = [s \in Slot |-> IdleProc]]
          /\ stopper' = [stopper EXCEPT ![w] = IdleStopper]
      BY <2>5 DEF Crash, Exit, ProcessEnds
    <3>2. \A s \in Slot : proc'[w][s].pc = "idle"
      BY <3>1 DEF IdleProc, TypeOK
    <3>3. /\ phase'[w] = "dead" /\ loop'[w].pc = "acquire"
          /\ stopper'[w].pc = "none"
      BY <3>1 DEF IdleLoop, IdleStopper, TypeOK
    <3>4. \A v \in Worker \ {w} : UNCHANGED <<phase[v], loop[v], proc[v],
                                              stopper[v]>>
      BY <3>1 DEF TypeOK
    <3> QED
      BY <3>2, <3>3, <3>4 DEF WorkInv
  <2>6. CASE StopBegin(w)
    BY <2>6 DEF WorkInv, StopBegin, StopGoes, SetLoop, TypeOK
  <2>7. CASE RunReturns(w)
    BY <2>7 DEF WorkInv, RunReturns, InterruptAll, IdleStopper, TypeOK
  <2>8. CASE \/ StopAllEnded(w) \/ StopCancels(w) \/ StopDeregister(w)
             \/ \E ids \in SUBSET Task : StopTimesOut(w, ids)
             \/ \E t \in Task : StopRequeue(w, t)
    <3>1. stopper[w].pc # "none" /\ \E x : stopper' = [stopper EXCEPT ![w] = x]
      BY <2>8 DEF StopAllEnded, StopCancels, StopDeregister, StopTimesOut,
         StopRequeue, StopNextQueue, StopGoes, Call
    <3>2. UNCHANGED <<phase, loop>> /\ \A v \in Worker \ {w} : proc'[v] = proc[v]
      BY <2>8 DEF StopAllEnded, StopCancels, StopDeregister, StopTimesOut,
         StopRequeue, InterruptAll, workerVars, TypeOK
    <3>3. phase[w] = "stopping"
      BY <3>1 DEF WorkInv
    <3> QED
      BY <3>1, <3>2, <3>3 DEF WorkInv, TypeOK
  <2> QED
    BY <1>2, <2>1, <2>2, <2>3, <2>4, <2>5, <2>6, <2>7, <2>8
       DEF WorkerStep, StopStep
<1>3. CASE ClientStep \/ OperatorStep \/ \E t \in Task : TtlRunsOut(t)
  BY <1>1, <1>3 DEF ClientStep, OperatorStep, RetryStep, Submit, CancelRead,
     CancelWrite, DlqList, DlqTake, DlqFetch, DlqStore, DlqEnqueue, Purge,
     TtlRunsOut, workerVars, reapVars
<1>4. CASE UNCHANGED vars
  BY <1>1, <1>4 DEF vars, workerVars, reapVars
<1> QED
  BY <1>2, <1>3, <1>4 DEF Next

\* Only a live worker's stall makes it look dead.
LEMMA ReaperStays ==
  ASSUME TypeOK, WorkInv, ReaperInv, [Next]_vars
  PROVE  ReaperInv'
<1> DEFINE Starts(r) == r.victim = Null => r.qi = 1
           Reaps(r, set) == r.todo \subseteq set /\ r.victim \in set \cup {Null}
           Spares == /\ silent' \subseteq Leaving'
                     /\ \A v \in Worker : Reaps(reaper'[v], Leaving')
                     /\ \A w \in Worker : phase'[w] = "up" => w \in workers'
           NoStall == used'["stall"] = 0
<1>1. SUFFICES (\A v \in Worker : Starts(reaper'[v])) /\ (NoStall => Spares)
  BY DEF ReaperInv
<1>2. /\ Starts(IdleReaper) /\ \A set : Reaps(IdleReaper, set)
      /\ \A v \in Worker : Starts(reaper[v])
  BY DEF IdleReaper, ReaperInv
<1>3. Leaving \subseteq Leaving'
  BY LeavingStays
<1>4. NoStall => /\ ~Spend("stall")
                 /\ silent \subseteq Leaving
                 /\ \A v \in Worker : Reaps(reaper[v], Leaving)
                 /\ \A w \in Worker : phase[w] = "up" => w \in workers
  <2>1. NoStall => used["stall"] = 0 /\ ~Spend("stall")
    BY UsedGrows, NotSpent DEF Disturbance
  <2> QED
    BY <2>1 DEF ReaperInv
<1> HIDE DEF Starts, Reaps, NoStall
<1>5. ASSUME \A v \in Worker : reaper'[v] = reaper[v] \/ reaper'[v] = IdleReaper,
             silent' \subseteq silent,
             \A w \in Worker : phase'[w] = "up" => phase[w] = "up",
             \A w \in Worker : phase[w] = "up" /\ w \in workers => w \in workers'
      PROVE  (\A v \in Worker : Starts(reaper'[v])) /\ (NoStall => Spares)
  BY <1>2, <1>3, <1>4, <1>5 DEF Reaps
<1>6. ASSUME NEW w \in Worker, WorkerStep(w)
      PROVE  (\A v \in Worker : Starts(reaper'[v])) /\ (NoStall => Spares)
  <2>1. CASE Start(w) \/ ReapScan(w)
    <3>1. /\ reaper' = [reaper EXCEPT ![w].todo = workers \cap silent]
          /\ UNCHANGED <<silent, workers>>
      BY <2>1 DEF Start, ReapScan, brokerVars
    <3>2. \A v \in Worker : phase'[v] = "up" => phase[v] = "up"
      BY <2>1 DEF Start, ReapScan, workerVars, TypeOK
    <3>3. /\ reaper'[w].todo = workers \cap silent
          /\ reaper'[w].victim = reaper[w].victim
          /\ reaper'[w].qi = reaper[w].qi
          /\ \A v \in Worker \ {w} : reaper'[v] = reaper[v]
      BY <3>1 DEF TypeOK, ReaperState
    <3>4. NoStall => \A v \in Worker : Reaps(reaper'[v], Leaving')
      BY <1>3, <1>4, <3>3 DEF Reaps
    <3>5. \A v \in Worker : Starts(reaper'[v])
      BY <1>2, <3>3 DEF Starts
    <3> QED
      BY <1>3, <1>4, <3>1, <3>2, <3>4, <3>5
  <2>2. CASE Register(w)
    <3>1. UNCHANGED <<silent, reaper>>
      BY <2>2 DEF Register, reapVars
    <3>2. CASE RegisterWorker(w)
      <4>1. workers' = workers \cup {w}
        BY <3>2 DEF RegisterWorker
      <4>2. \A v \in Worker \ {w} : phase'[v] = phase[v]
        BY <2>2 DEF Register, Call, TypeOK
      <4> QED
        BY <1>2, <1>3, <1>4, <3>1, <4>1, <4>2 DEF Reaps
    <3>3. CASE ~RegisterWorker(w)
      BY <1>5, <2>2, <3>1, <3>3 DEF Register, Call, TypeOK, brokerVars
    <3> QED
      BY <3>2, <3>3
  <2>3. CASE \E v \in Worker : ReapQueue(w, v)
    <3>1. PICK v \in Worker : ReapQueue(w, v)
      BY <2>3
    <3>2. /\ UNCHANGED <<silent, phase, workers>>
          /\ v # Null /\ reaper[w].qi \in Nat \ {0}
          /\ v \in reaper[w].todo \cup {reaper[w].victim}
      BY <3>1, NullAssumption DEF ReapQueue, Call, ReapScript, brokerVars,
         workerVars, TypeOK, ReaperState
    <3>3. CASE reaper' = [reaper EXCEPT ![w] = IdleReaper]
      BY <1>5, <3>2, <3>3 DEF TypeOK
    <3>4. CASE reaper' = [reaper EXCEPT ![w] =
                            [todo |-> reaper[w].todo \ {v}, victim |-> v,
                             qi |-> reaper[w].qi + 1]]
      <4>1. /\ reaper'[w].todo = reaper[w].todo \ {v}
            /\ reaper'[w].victim = v
            /\ \A x \in Worker \ {w} : reaper'[x] = reaper[x]
        BY <3>4 DEF TypeOK
      <4>2. \A x \in Worker : Starts(reaper'[x])
        BY <1>2, <3>2, <4>1 DEF Starts
      <4>3. NoStall => \A x \in Worker : Reaps(reaper'[x], Leaving')
        BY <1>3, <1>4, <3>2, <4>1 DEF Reaps
      <4> QED
        BY <1>3, <1>4, <3>2, <4>2, <4>3
    <3> QED
      BY <3>1, <3>3, <3>4 DEF ReapQueue, Call
  <2>4. CASE ReapForget(w)
    <3>1. /\ UNCHANGED <<silent, phase>>
          /\ workers' = workers \/ workers' = workers \ {reaper[w].victim}
          /\ reaper[w].victim # Null
      BY <2>4 DEF ReapForget, Call, ForgetWorker, brokerVars, workerVars
    <3>2. \/ reaper'[w] = IdleReaper
          \/ /\ reaper'[w].todo = reaper[w].todo
             /\ reaper'[w].victim = Null /\ reaper'[w].qi = 1
      BY <2>4 DEF ReapForget, Call, IdleReaper, TypeOK
    <3>3. \A x \in Worker \ {w} : reaper'[x] = reaper[x]
      BY <2>4 DEF ReapForget, Call, TypeOK
    <3>4. \A x \in Worker : Starts(reaper'[x])
      BY <1>2, <3>2, <3>3 DEF Starts
    <3>5. NoStall => \A x \in Worker : Reaps(reaper'[x], Leaving')
      BY <1>2, <1>3, <1>4, <3>2, <3>3 DEF Reaps
    <3>6. NoStall => \A x \in Worker : phase'[x] = "up" => x \in workers'
      BY <1>4, <3>1 DEF Reaps, Leaving
    <3> QED
      BY <1>3, <1>4, <3>1, <3>4, <3>5, <3>6
  <2>5. CASE FallSilent(w)
    <3>1. NoStall => w \in Leaving
      BY <1>4, <2>5 DEF FallSilent, Calm, Leaving
    <3>2. silent' = silent \cup {w} /\ UNCHANGED <<reaper, phase, workers>>
      BY <2>5 DEF FallSilent, workerVars, brokerVars
    <3> QED
      BY <1>2, <1>3, <1>4, <3>1, <3>2 DEF Reaps
  <2>6. CASE Heartbeat(w) \/ Crash(w)
    BY <1>5, <2>6 DEF Heartbeat, Crash, ProcessEnds, TypeOK, brokerVars,
       workerVars
  <2>7. CASE \E i \in DOMAIN QueuesOf[w], due \in SUBSET Task :
               Promote(w, i, due)
    BY <1>5, <2>7
       DEF Promote, Call, PromoteScript, brokerVars, reapVars, workerVars
  <2>8. CASE LoopStep(w)
    BY <1>5, <2>8 DEF LoopStep, AcquirePermit, PollEmpty, PopTask,
       FetchNothing, FetchFails, Dispatch, Call, DequeueScript, brokerVars,
       reapVars
  <2>9. CASE \E s \in Slot : ExecStep(w, s) \/ ProcStep(w, s)
    <3>1. PICK s \in Slot : ExecStep(w, s) \/ ProcStep(w, s)
      BY <2>9
    <3>2. CASE \E p : ProcMove(w, s, p) /\ ProcFrame
      BY <1>5, <3>2
         DEF ProcMove, ProcFrame, UpdateTask, AckScript, brokerVars, reapVars
    <3>3. CASE Reenqueue(w, s) \/ Nack(w, s) \/ Finish(w, s)
      BY <1>5, <3>3 DEF Reenqueue, Nack, Finish, Call, EnqueueScript,
         NackScript, ProcFrame, brokerVars, reapVars
    <3> QED
      BY <3>1, <3>2, <3>3, ProcMoves
  <2>10. CASE StopBegin(w) \/ StopStep(w)
    <3>1. \A v \in Worker : reaper'[v] = reaper[v] \/ reaper'[v] = IdleReaper
      BY <2>10 DEF StopBegin, StopStep, StopAllEnded, StopTimesOut,
         StopCancels, StopRequeue, StopDeregister, RunReturns, Exit,
         ProcessEnds, TypeOK
    <3>2. /\ UNCHANGED silent
          /\ \A v \in Worker : phase'[v] = "up" => phase[v] = "up"
      BY <2>10 DEF StopBegin, StopStep, StopAllEnded, StopTimesOut,
         StopCancels, StopRequeue, StopDeregister, RunReturns, Exit,
         ProcessEnds, workerVars, TypeOK
    <3>3. \/ UNCHANGED workers
          \/ stopper[w].pc # "none" /\ workers' = workers \ {w}
      BY <2>10 DEF StopBegin, StopStep, StopAllEnded, StopTimesOut,
         StopCancels, StopRequeue, StopDeregister, RunReturns, Exit,
         ProcessEnds, Call, RequeueScript, ForgetWorker, brokerVars
    <3> QED
      BY <1>5, <3>1, <3>2, <3>3 DEF WorkInv
  <2> QED
    BY <1>6, <2>1, <2>2, <2>3, <2>4, <2>5, <2>6, <2>7, <2>8, <2>9, <2>10
       DEF WorkerStep, MaintenanceStep
<1>7. CASE ClientStep \/ \E t \in Task : TtlRunsOut(t)
  BY <1>5, <1>7 DEF ClientStep, Submit, CancelRead, CancelWrite, TtlRunsOut,
     EnqueueScript, UpdateTask, ExpireHash, brokerVars, reapVars, workerVars
<1>8. CASE OperatorStep
  BY <1>5, <1>8 DEF OperatorStep, RetryStep, DlqList, DlqTake, DlqFetch,
     DlqStore, DlqEnqueue, Purge, Call, DlqRemoveOne, UpdateTask,
     EnqueueScript, PurgeDlq, brokerVars, reapVars, workerVars
<1>9. CASE UNCHANGED vars
  BY <1>5, <1>9 DEF vars, brokerVars, reapVars, workerVars
<1> QED
  BY <1>6, <1>7, <1>8, <1>9 DEF Next

-----------------------------------------------------------------------------
(* The hashes. *)

\* Without operators an ended task stays ended, and a TTL is put on the hash
\* of an ended task only.
LEMMA EndedStays ==
  ASSUME TypeOK, [Next]_vars, NEW t \in Task,
         \A o \in Operator : ~RetryStep(o)
  PROVE  /\ Ended(t) => Ended(t)'
         /\ t \in expiring' => t \in expiring \/ Ended(t)'
         /\ t \in submitted' \ submitted => t \notin expiring'
<1>1. QueueOf[t] \in Queue /\ dlq[QueueOf[t]][t] \in Nat
  BY QueueOfAssumption DEF TypeOK, BrokerTypeOK
<1> DEFINE Goal == /\ Ended(t) => Ended(t)'
                   /\ t \in expiring' => t \in expiring \/ Ended(t)'
<1>2. ASSUME UNCHANGED <<expiring, acked, discarded, dlq>> PROVE Goal
  BY <1>2 DEF Ended, InDLQ
<1>3. ASSUME NEW u \in Task,
             \/ \E data : UpdateTask(u, data)
             \/ \E data, b : EnqueueScript(u, data, b)
             \/ ExpireHash(u)
      PROVE  Goal
  BY <1>3 DEF UpdateTask, EnqueueScript, ExpireHash, Ended, InDLQ
<1>4. ASSUME NEW u \in Task, AckScript(u) PROVE Goal
  BY <1>4 DEF AckScript, Expire, Ended, InDLQ
<1>5. ASSUME NEW u \in Task, NackScript(u) PROVE Goal
  BY <1>1, <1>5, QueueOfAssumption
     DEF NackScript, Expire, Ended, InDLQ, TypeOK, BrokerTypeOK
<1>6. ASSUME NEW w \in Worker, WorkerStep(w)
      PROVE  Goal /\ UNCHANGED submitted
  <2>1. CASE LoopStep(w) \/ Start(w) \/ Register(w)
    BY <1>2, <2>1 DEF LoopStep, AcquirePermit, PollEmpty, PopTask, FetchNothing,
       FetchFails, Dispatch, Start, Register, Call, RegisterWorker,
       DequeueScript, brokerVars, clientVars
  <2>2. CASE \E s \in Slot : ExecStep(w, s) \/ ProcStep(w, s)
    <3>1. PICK s \in Slot : ExecStep(w, s) \/ ProcStep(w, s)
      BY <2>2
    <3>2. PICK u \in Task : u = proc[w][s].task
      BY <3>1, ProcMoves
    <3>3. UNCHANGED submitted
      BY <3>1, ProcFrames
    <3>4. \/ UNCHANGED brokerVars
          \/ \E data : UpdateTask(u, data)
          \/ \E data, b : EnqueueScript(u, data, b)
          \/ AckScript(u)
          \/ NackScript(u)
      BY <3>1, <3>2, ProcMoves DEF ProcMove, Reenqueue, Nack, Finish, Call
    <3> QED
      BY <1>2, <1>3, <1>4, <1>5, <3>3, <3>4 DEF brokerVars
  <2>3. CASE MaintenanceStep(w) \/ Heartbeat(w) \/ FallSilent(w) \/ Crash(w)
    BY <1>2, <2>3 DEF MaintenanceStep, ReapScan, ReapQueue, ReapForget, Promote,
       Heartbeat, FallSilent, Crash, ProcessEnds, Call, ReapScript,
       ForgetWorker, PromoteScript, brokerVars, clientVars
  <2>4. CASE StopBegin(w) \/ StopStep(w)
    BY <1>2, <2>4 DEF StopBegin, StopStep, StopAllEnded, StopTimesOut,
       StopCancels, StopRequeue, StopDeregister, RunReturns, Exit, ProcessEnds,
       Call, RequeueScript, ForgetWorker, brokerVars, clientVars
  <2> QED
    BY <1>6, <2>1, <2>2, <2>3, <2>4 DEF WorkerStep
<1>7. ASSUME NEW u \in Task, NEW isDelayed \in BOOLEAN, Submit(u, isDelayed)
      PROVE  Goal /\ (t \in submitted' \ submitted => t \notin expiring')
  <2>1. Goal
    BY <1>3, <1>7 DEF Submit
  <2> QED
    BY <1>7, <2>1 DEF Submit, EnqueueScript
<1>8. ASSUME NEW c \in Client,
             CancelWrite(c) \/ \E u \in Task : CancelRead(c, u)
      PROVE  Goal /\ UNCHANGED submitted
  <2>1. CASE CancelWrite(c)
    BY <1>2, <2>1 DEF CancelWrite, UpdateTask
  <2>2. CASE \E u \in Task : CancelRead(c, u)
    BY <1>2, <2>2 DEF CancelRead, brokerVars
  <2> QED
    BY <1>8, <2>1, <2>2
<1>9. CASE OperatorStep
  <2>1. CASE \E o \in Operator, u \in Task : DlqList(o, u)
    BY <1>2, <2>1 DEF DlqList, brokerVars
  <2>2. CASE \E q \in Queue : Purge(q)
    <3>1. PICK q \in Queue : Purge(q)
      BY <2>2
    <3>2. UNCHANGED <<expiring, acked, submitted>>
      BY <3>1 DEF Purge, PurgeDlq, clientVars
    <3>3. Ended(t) => Ended(t)'
      BY <1>1, <3>1
         DEF Purge, PurgeDlq, Ended, InDLQ, TypeOK, BrokerTypeOK
    <3> QED
      BY <3>2, <3>3
  <2> QED
    BY <1>9, <2>1, <2>2 DEF OperatorStep, DlqList
<1>10. ASSUME NEW u \in Task, TtlRunsOut(u) PROVE Goal /\ UNCHANGED submitted
  BY <1>3, <1>10 DEF TtlRunsOut, clientVars
<1>11. CASE UNCHANGED vars
  BY <1>2, <1>11 DEF vars, brokerVars, clientVars
<1> QED
  BY <1>6, <1>7, <1>8, <1>9, <1>10, <1>11 DEF Next, ClientStep

\* Only operators change what operators do.
LEMMA OperatorsStay ==
  ASSUME TypeOK, [Next]_vars,
         \A o \in Operator : ~RetryStep(o) /\ \A t \in Task : ~DlqList(o, t)
  PROVE  UNCHANGED operator
<1>1. ASSUME NEW w \in Worker, WorkerStep(w) PROVE UNCHANGED operator
  <2>1. CASE LoopStep(w) \/ Start(w) \/ Register(w)
    BY <2>1 DEF LoopStep, AcquirePermit, PollEmpty, PopTask, FetchNothing,
       FetchFails, Dispatch, Start, Register, clientVars
  <2>2. CASE \E s \in Slot : ExecStep(w, s) \/ ProcStep(w, s)
    BY <2>2, ProcFrames
  <2>3. CASE MaintenanceStep(w) \/ Heartbeat(w) \/ FallSilent(w) \/ Crash(w)
    BY <2>3 DEF MaintenanceStep, ReapScan, ReapQueue, ReapForget, Promote,
       Heartbeat, FallSilent, Crash, ProcessEnds, clientVars
  <2>4. CASE StopBegin(w) \/ StopStep(w)
    BY <2>4 DEF StopBegin, StopStep, StopAllEnded, StopTimesOut, StopCancels,
       StopRequeue, StopDeregister, RunReturns, Exit, ProcessEnds, clientVars
  <2> QED
    BY <1>1, <2>1, <2>2, <2>3, <2>4 DEF WorkerStep
<1>2. CASE ClientStep \/ OperatorStep \/ \E t \in Task : TtlRunsOut(t)
  BY <1>2 DEF ClientStep, Submit, CancelRead, CancelWrite, TtlRunsOut,
     OperatorStep, Purge, clientVars
<1>3. CASE UNCHANGED vars
  BY <1>3 DEF vars, clientVars
<1> QED
  BY <1>1, <1>2, <1>3 DEF Next

\* So a hash that is gone, or will go, is that of an ended task.
LEMMA HashInvStays ==
  ASSUME TypeOK, TypeOK', HashInv, [Next]_vars
  PROVE  HashInv'
<1>1. ASSUME used'["expiry"] = 0
      PROVE  \A t \in submitted' : hash'[t] # Null
  <2>1. used["expiry"] = 0 /\ ~Spend("expiry")
    BY <1>1, UsedGrows, NotSpent DEF Disturbance
  <2>2. submitted' \subseteq Task
    BY DEF TypeOK
  <2> QED
    BY <2>1, <2>2, HashStays DEF HashInv
<1>2. ASSUME used'["dlqRetry"] = 0
      PROVE  /\ \A o \in Operator : operator'[o] = IdleCopy
             /\ \A t \in submitted' :
                  hash'[t] = Null \/ t \in expiring' => Ended(t)'
  <2>1. used["dlqRetry"] = 0 /\ ~Spend("dlqRetry")
    BY <1>2, UsedGrows, NotSpent DEF Disturbance
  <2>2. /\ \A o \in Operator : operator[o] = IdleCopy
        /\ \A t \in submitted : hash[t] = Null \/ t \in expiring => Ended(t)
    BY <2>1 DEF HashInv
  <2>3. ASSUME NEW o \in Operator
        PROVE  ~RetryStep(o) /\ \A t \in Task : ~DlqList(o, t)
    <3>1. operator[o].pc = "idle"
      BY <2>2 DEF IdleCopy
    <3>2. ~RetryStep(o)
      BY <3>1 DEF RetryStep, DlqTake, DlqFetch, DlqStore, DlqEnqueue
    <3>3. \A t \in Task : ~DlqList(o, t)
      BY <2>1 DEF DlqList
    <3> QED
      BY <3>2, <3>3
  <2>4. \A o \in Operator : operator'[o] = IdleCopy
    BY <2>2, <2>3, OperatorsStay
  <2>5. ASSUME NEW t \in submitted', hash'[t] = Null \/ t \in expiring'
        PROVE  Ended(t)'
    <3>1. t \in Task
      BY DEF TypeOK
    <3>2. /\ Ended(t) => Ended(t)'
          /\ t \in expiring' => t \in expiring \/ Ended(t)'
          /\ t \in submitted' \ submitted => t \notin expiring'
      BY <2>3, <3>1, EndedStays
    <3>3. /\ hash[t] # Null => hash'[t] # Null \/ t \in expiring
          /\ t \in submitted' \ submitted => hash'[t] # Null
      BY <3>1, HashKept
    <3> QED
      BY <2>2, <2>5, <3>2, <3>3
  <2> QED
    BY <2>4, <2>5
<1> QED
  BY <1>1, <1>2 DEF HashInv

-----------------------------------------------------------------------------
(* Where the tasks are. *)

\* While no worker crashes, what a worker holds it keeps or stores.
LEMMA HeldStays ==
  ASSUME TypeOK, TypeOK', ShapeInv, GroundInv, HashInv, HeldInv, [Next]_vars
  PROVE  HeldInv'
<1> SUFFICES ASSUME Steady', used'["crash"] = 0, NEW t \in submitted'
             PROVE  Stored(t)' \/ \E w \in Worker : WorkerHolds(w, t)'
  BY DEF HeldInv
<1>1. Steady /\ used["crash"] = 0 /\ ~Spend("crash") /\ t \in Task
  BY UsedGrows, NotSpent DEF Steady, Disturbance, TypeOK
<1>2. \A w \in Worker : ~Crash(w)
  BY <1>1 DEF Crash
<1>3. Keeps(t) /\ (t \notin submitted => Stored(t)')
  BY <1>2, SteadyKeeps
<1> QED
  BY <1>1, <1>3 DEF HeldInv, Keeps, WorkerHolds

\* A worker that crashes while it holds a task is registered, and no reaper has
\* begun with it: what it held is in the active set of an abandoned queue.
LEMMA CrashGuard ==
  ASSUME TypeOK, WorkInv, ReaperInv, used["stall"] = 0,
         NEW x \in Worker, Crash(x), phase[x] \notin {"stopping", "closing"},
         NEW t \in Task, NEW w \in Worker, GuardedBy(w, t)
  PROVE  GuardedBy(w, t)'
<1> DEFINE q == QueueOf[t]
<1>1. /\ UNCHANGED workers /\ phase[x] # "dead"
      /\ phase' = [phase EXCEPT ![x] = "dead"]
      /\ reaper' = [reaper EXCEPT ![x] = IdleReaper]
      /\ \A v \in Worker \ {x} : UNCHANGED <<loop[v], proc[v]>>
  BY DEF Crash, ProcessEnds, brokerVars, TypeOK
<1>2. q \in Serves(w) /\ (WorkerHolds(w, t) \/ Abandoned(w, q))
  BY DEF GuardedBy
<1>3. w # Null
  BY NullAssumption
<1>4. Abandoned(w, q) => Abandoned(w, q)'
  BY <1>1, <1>3 DEF Abandoned, Passed, IdleReaper, TypeOK
<1>5. WorkerHolds(w, t) /\ w # x => WorkerHolds(w, t)'
  BY <1>1 DEF WorkerHolds
<1>6. WorkerHolds(w, t) /\ w = x => Abandoned(w, q)'
  <2> SUFFICES ASSUME WorkerHolds(w, t), w = x
               PROVE  Abandoned(w, q)'
    OBVIOUS
  <2>1. phase[w] = "up"
    <3>1. phase[w] = "up" \/ /\ loop[w].pc = "acquire"
                             /\ \A s \in Slot : proc[w][s].pc = "idle"
      BY DEF WorkInv, TypeOK, Phase
    <3>2. loop[w].pc = "acquire" => loop[w].task # t
      BY NullAssumption DEF TypeOK, LoopState
    <3>3. ASSUME NEW s \in Slot, proc[w][s].pc = "idle"
          PROVE  ~InHand(proc[w][s], t)
      <4>1. proc[w][s] = IdleProc
        BY <3>3 DEF TypeOK, ProcState, BusyState, BusyPC
      <4> QED
        BY <4>1, NullAssumption DEF InHand, IdleProc
    <3> QED
      BY <3>1, <3>2, <3>3 DEF WorkerHolds
  <2>2. w \in workers /\ \A v \in Worker : reaper[v].victim # w
    BY <1>1, <1>3, <2>1 DEF ReaperInv, Leaving
  <2> QED
    BY <1>1, <1>3, <2>2 DEF Abandoned, IdleReaper, TypeOK
<1> QED
  BY <1>2, <1>4, <1>5, <1>6 DEF GuardedBy, Serves

\* In any other step the worker keeps the task, or stays abandoned until the
\* task is queued again.
LEMMA KeepsGuard ==
  ASSUME TypeOK, WorkInv, ReaperInv, [Next]_vars, NEW t \in Task, Keeps(t),
         t \in active[QueueOf[t]], NEW w \in Worker, GuardedBy(w, t),
         ~Stored(t)'
  PROVE  t \in active'[QueueOf[t]] /\ GuardedBy(w, t)'
<1>1. t \in active'[QueueOf[t]] /\ t \notin main'[QueueOf[t]]
  BY DEF Keeps, Stored, Queued
<1>2. WorkerHolds(w, t) => WorkerHolds(w, t)'
  BY DEF Keeps
<1>3. QueueOf[t] \in Serves(w)
  BY DEF GuardedBy
<1>4. Abandoned(w, QueueOf[t]) => Abandoned(w, QueueOf[t])'
  BY <1>1, <1>3, StaysAbandoned
<1> QED
  BY <1>1, <1>2, <1>3, <1>4 DEF GuardedBy, Serves

\* While no live worker is taken for dead, a task that is with a worker can be
\* found through the active set.
LEMMA GuardStays ==
  ASSUME TypeOK, TypeOK', ShapeInv, GroundInv, WorkInv, ReaperInv, HashInv,
         GuardInv, [Next]_vars
  PROVE  GuardInv'
<1> SUFFICES ASSUME Steady', used'["stall"] = 0, NEW t \in submitted'
             PROVE  Stored(t)' \/ Guarded(t)'
  BY DEF GuardInv
<1>1. /\ Steady /\ used["stop"] = 0 /\ used["stall"] = 0
      /\ t \in Task /\ QueueOf[t] \in Queue
  BY UsedGrows, QueueOfAssumption DEF Steady, Disturbance, TypeOK
<1>2. t \in submitted => Stored(t) \/ Guarded(t)
  BY <1>1 DEF GuardInv
<1>3. CASE \E x \in Worker : Crash(x)
  <2>1. PICK x \in Worker : Crash(x)
    BY <1>3
  <2>2. UNCHANGED <<brokerVars, submitted, operator>>
    BY <2>1 DEF Crash, ProcessEnds, clientVars
  <2>3. Stored(t) => Stored(t)'
    BY <2>2 DEF Stored, Queued, InDLQ, brokerVars
  <2>4. phase[x] \notin {"stopping", "closing"}
    BY <1>1 DEF GroundInv, Calm
  <2> QED
    BY <1>1, <1>2, <2>1, <2>2, <2>3, <2>4, CrashGuard DEF Guarded, brokerVars
<1>4. CASE \A x \in Worker : ~Crash(x)
  <2>1. Keeps(t) /\ (t \notin submitted => Stored(t)')
    BY <1>4, SteadyKeeps
  <2>2. Stored(t) => Stored(t)' \/ Guarded(t)'
    BY <2>1 DEF Keeps, Guarded, GuardedBy, Serves, WorkerHolds
  <2>3. Guarded(t) => Stored(t)' \/ Guarded(t)'
    BY <1>1, <2>1, KeepsGuard DEF Guarded
  <2> QED
    BY <1>2, <2>1, <2>2, <2>3
<1> QED
  BY <1>3, <1>4

\* At the start there is no task.
LEMMA InitDelivery == Init => DeliveryInv
BY DEF Init, BrokerInit, DeliveryInv, WorkInv, ReaperInv, HashInv, HeldInv,
   GuardInv, Leaving, IdleLoop, IdleProc, IdleReaper, IdleStopper

\* A covered task is accounted for.
LEMMA Covered ==
  ASSUME TypeOK, DeliveryInv
  PROVE  AtLeastOnce
<1> SUFFICES ASSUME Steady, used["crash"] = 0 \/ used["stall"] = 0,
                    NEW t \in submitted
             PROVE  Accounted(t)
  BY DEF AtLeastOnce, NothingLost
<1>1. Stored(t) => Accounted(t)
  BY HandsOf DEF Stored, Accounted
<1>2. ASSUME NEW w \in Worker, WorkerHolds(w, t) PROVE Accounted(t)
  BY <1>2, HandsOf DEF WorkerHolds, Accounted
<1>3. Guarded(t) => Accounted(t)
  BY <1>2 DEF Guarded, GuardedBy, Abandoned, Accounted, WillBeReaped
<1> QED
  BY <1>1, <1>2, <1>3 DEF DeliveryInv, HeldInv, GuardInv

\* The inductive invariant of the delivery.
LEMMA DeliveryInvariant == Spec => [](TypeOK /\ PlaceIInv /\ DeliveryInv)
<1>1. Init => DeliveryInv
  BY InitDelivery
<1>2. /\ TypeOK /\ TypeOK' /\ PlaceIInv /\ DeliveryInv /\ [Next]_vars
         => DeliveryInv'
  BY WorkStays, ReaperStays, HashInvStays, HeldStays, GuardStays
     DEF PlaceIInv, DeliveryInv
<1> QED
  BY <1>1, <1>2, TypeCorrect, OutcomeInvariant, PTL DEF Spec

(***************************************************************************)
(* At-least-once delivery, for every number of workers, tasks, queues and  *)
(* processors: until it is acknowledged or purged, a submitted task is in  *)
(* a queue, in the DLQ, in somebody's hands, or in the active set of a     *)
(* dead worker's queue that a reap will empty, wherever the worker died    *)
(* and wherever its reapers died, as long as AtLeastOnce's provisos hold.  *)
(***************************************************************************)
THEOREM DeliveredAtLeastOnce == Spec => []AtLeastOnce
<1>1. TypeOK /\ DeliveryInv => AtLeastOnce
  BY Covered
<1> QED
  BY <1>1, DeliveryInvariant, PTL
=============================================================================
