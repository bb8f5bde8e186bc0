---------------------------- MODULE OutcomeProofs ----------------------------
(***************************************************************************)
(* What an undisturbed task leaves in its hash: QueuedNeverExpires,        *)
(* OutcomeRecordedFirst and the steps of TaskLifecycle, for every value of *)
(* the constants.  They rest on NoDoubleRun's invariant: nobody else       *)
(* writes the hash, or puts a TTL on it, while a processor has the task.   *)
(***************************************************************************)
EXTENDS PlaceProofs

-----------------------------------------------------------------------------
(* The TTL and the recorded outcome of a task. *)

\* A processor that still has to acknowledge, re-enqueue or nack its task, as
\* far as no broker call failed.
Unsettled(p, t) ==
  /\ p.task = t
  /\ p.pc \in Untouched \/ (used["fault"] = 0 /\ InHand(p, t))

\* The hash of a task that is queued, popped or being processed has no TTL.
Lasting(t) ==
  /\ Queued(t) => t \notin expiring
  /\ \A w \in Worker : loop[w].task = t => t \notin expiring
  /\ \A w \in Worker, s \in Slot :
       Unsettled(proc[w][s], t) => t \notin expiring

\* The outcome is in the hash before the ack, and before the nack.
Outcome(t) ==
  \A w \in Worker, s \in Slot :
    LET p == proc[w][s] IN
    p.task = t =>
      /\ p.pc \in {"ack", "ackCancelled"} => Recorded(t, {"done", "cancelled"})
      /\ p.pc = "final" /\ p.status = "failed" /\ used["fault"] = 0 =>
           Recorded(t, {"failed", "cancelled"})

\* What the hash of a task owes to whoever comes next.
Last(t) == Lasting(t) /\ Outcome(t)

\* It holds under the proviso of NoDoubleRun.
LastInv == Undisturbed /\ OneOperator => \A t \in Task : Last(t)

\* No new queue entry, TTL, holder or write of the hash.
LEMMA LastKept ==
  ASSUME TypeOK, [Next]_vars, NEW t \in Task, Last(t),
         Queued(t)' => Queued(t), t \in expiring' => t \in expiring,
         hash'[t] = hash[t],
         \A w \in Worker : loop'[w].task = t => loop[w].task = t,
         \A w \in Worker, s \in Slot :
           proc'[w][s].task = t => proc'[w][s] = proc[w][s]
  PROVE  Last(t)'
<1>1. used'["fault"] = 0 => used["fault"] = 0
  BY UsedGrows DEF Disturbance
<1>2. Lasting(t)'
  BY <1>1 DEF Last, Lasting, Unsettled, InHand
<1>3. Outcome(t)'
  BY <1>1 DEF Last, Outcome, Recorded
<1> QED
  BY <1>2, <1>3 DEF Last

\* A step that is not about t.
LEMMA LastSame ==
  ASSUME TypeOK, [Next]_vars, NEW t \in Task, Last(t), Same(t)
  PROVE  Last(t)'
<1>1. /\ Queued(t)' => Queued(t)
      /\ t \in expiring' => t \in expiring
      /\ hash'[t] = hash[t]
  BY QueueOfAssumption DEF Same, SameKeys, Queued
<1>2. /\ \A w \in Worker : loop'[w].task = t => loop[w].task = t
      /\ \A w \in Worker, s \in Slot :
           proc'[w][s].task = t => proc'[w][s] = proc[w][s]
  BY DEF Same, SameMemory
<1> QED
  BY <1>1, <1>2, LastKept

\* While somebody else, or nobody, holds t, no processor has it in hand.
LEMMA OthersFinished ==
  ASSUME NEW t \in Task, Place(t), NEW w \in Worker, NEW s \in Slot,
         proc[w][s].task = t,
         \/ Queued(t) \/ InDLQ(t) \/ Listed(t)
         \/ \E h \in Hands(t) : h # ProcHand(w, s)
  PROVE  proc[w][s].pc = "final" /\ proc[w][s].status # "failed"
<1>1. InHand(proc[w][s], t) => ProcHand(w, s) \in Hands(t)
  BY HandsOf
<1> QED
  BY <1>1 DEF Place, OnePlace, InHand

\* If every processor of t is past its ack or nack, and nobody else waits for
\* the hash, nothing is at stake.
LEMMA LastFree ==
  ASSUME NEW t \in Task,
         \A w \in Worker, s \in Slot :
           proc'[w][s].task = t =>
             proc'[w][s].pc = "final" /\ proc'[w][s].status # "failed",
         \/ t \notin expiring'
         \/ ~Queued(t)' /\ \A w \in Worker : loop'[w].task # t
  PROVE  Last(t)'
BY DEF Last, Lasting, Outcome, Unsettled, InHand, Untouched

\* A processor records, acknowledges or gives up its own task only.
LEMMA ProcLast ==
  ASSUME TypeOK, TypeOK', [Next]_vars, Calm, NEW w \in Worker, NEW s \in Slot,
         ExecStep(w, s) \/ ProcStep(w, s), WellFormed(proc[w][s]),
         NEW t, t = proc[w][s].task, Place(t), Last(t)
  PROVE  Last(t)'
<1> DEFINE p == proc[w][s]
           h == ProcHand(w, s)
<1>1. /\ p \in BusyState /\ t \in Task
      /\ UNCHANGED <<loop, operator>> /\ BrokerTypeOK
  BY ProcMoves, ProcFrames DEF TypeOK
<1>2. ASSUME InHand(p, t)
      PROVE  /\ ~Queued(t)
             /\ \A v \in Worker : loop[v].task # t
             /\ \A v \in Worker, r \in Slot :
                  ~(v = w /\ r = s) /\ proc[v][r].task = t =>
                    proc[v][r].pc = "final" /\ proc[v][r].status # "failed"
  <2>1. h \in Hands(t)
    BY <1>2, HandsOf
  <2>2. \A v \in Worker : loop[v].task # t
    BY <2>1, HandsOf, HandsDiffer DEF Place, OnePlace
  <2>3. \A v \in Worker, r \in Slot :
          ~(v = w /\ r = s) /\ proc[v][r].task = t =>
            proc[v][r].pc = "final" /\ proc[v][r].status # "failed"
    BY <1>1, <2>1, OthersFinished, HandsDiffer
  <2> QED
    BY <2>1, <2>2, <2>3 DEF Place, OnePlace
<1>3. ASSUME NEW q, SetProc(w, s, q)
      PROVE  /\ proc'[w][s] = q
             /\ \A v \in Worker, r \in Slot :
                  ~(v = w /\ r = s) => proc'[v][r] = proc[v][r]
  BY <1>3 DEF SetProc, TypeOK
<1>4. used'["fault"] = 0 => used["fault"] = 0
  BY UsedGrows DEF Disturbance
<1>5. CASE \E q : ProcMove(w, s, q)
  <2>1. PICK q : ProcMove(w, s, q)
    BY <1>5
  <2>2. InHand(p, t) /\ SetProc(w, s, q) /\ q.task = t /\ WellFormed(q)
    BY <2>1 DEF ProcMove, InHand
  <2>3. ~Queued(t)' /\ \A v \in Worker : loop'[v].task # t
    <3>1. KeysShrink(t)
      BY <1>1, <2>1, CommandShrinks DEF ProcMove
    <3> QED
      BY <1>1, <1>2, <2>2, <3>1 DEF KeysShrink
  <2>4. \/ /\ t \in expiring' => t \in expiring
           /\ q.pc \in Untouched => p.pc \in Untouched
        \/ q.pc = "final" /\ q.status # "failed"
        \/ q.pc = "failed" /\ used'["fault"] # 0
    <3>1. CASE AckScript(t)
      BY <2>1, <2>2, <3>1, NotSpent
         DEF ProcMove, UpdateTask, brokerVars, WellFormed, Disturbance
    <3>2. CASE UNCHANGED expiring
      BY <2>1, <3>2 DEF ProcMove
    <3> QED
      BY <2>1, <3>1, <3>2 DEF ProcMove, UpdateTask, brokerVars
  <2>5. Unsettled(q, t)' => t \notin expiring'
    BY <1>1, <1>4, <2>2, <2>4 DEF Last, Lasting, Unsettled, Untouched, InHand
  <2>6. /\ q.pc \in {"ack", "ackCancelled"} =>
             Recorded(t, {"done", "cancelled"})'
        /\ q.pc = "final" /\ q.status = "failed" /\ used'["fault"] = 0 =>
             Recorded(t, {"failed", "cancelled"})'
    <3>1. CASE UpdateTask(t, Data(q))
      <4>1. Recorded(t, {q.status})'
        <5>1. hash'[t] = Data(q)
          BY <1>1, <3>1 DEF UpdateTask, BrokerTypeOK
        <5>2. Data(q) \in TaskData /\ Data(q).status = q.status
          BY <2>1, ProcStates DEF ProcMove, Data
        <5> QED
          BY <5>1, <5>2, NullAssumption DEF Recorded
      <4> QED
        BY <2>2, <4>1 DEF Recorded, WellFormed
    <3>2. CASE ~UpdateTask(t, Data(q))
      <4>1. q.pc \notin {"ack", "ackCancelled"}
        BY <2>1, <3>2 DEF ProcMove
      <4>2. phase[w] # "closing" /\ (used'["fault"] = 0 => ~Spend("fault"))
        BY NotSpent DEF Calm, Disturbance
      <4> QED
        BY <2>1, <2>2, <3>2, <4>1, <4>2 DEF ProcMove, WellFormed
    <3> QED
      BY <3>1, <3>2
  <2>7. Lasting(t)'
    BY <1>2, <1>3, <2>2, <2>3, <2>5
       DEF Lasting, Unsettled, InHand, Untouched
  <2>8. Outcome(t)'
    BY <1>2, <1>3, <2>2, <2>6 DEF Outcome, Recorded
  <2> QED
    BY <2>7, <2>8 DEF Last
<1>6. ASSUME NEW q, SetProc(w, s, q), InHand(p, t),
             q.task # t \/ (q.pc = "final" /\ q.status # "failed"),
             UNCHANGED <<main, delayed>> \/ t \notin expiring'
      PROVE  Last(t)'
  <2>1. \A v \in Worker, r \in Slot :
          proc'[v][r].task = t =>
            proc'[v][r].pc = "final" /\ proc'[v][r].status # "failed"
    BY <1>2, <1>3, <1>6
  <2>2. \/ t \notin expiring'
        \/ ~Queued(t)' /\ \A v \in Worker : loop'[v].task # t
    BY <1>1, <1>2, <1>6 DEF Queued
  <2> QED
    BY <1>1, <2>1, <2>2, LastFree
<1>7. CASE Reenqueue(w, s)
  <2> DEFINE q == [p EXCEPT !.pc = "final"]
  <2>1. InHand(p, t) /\ q.pc = "final" /\ q.status # "failed"
    BY <1>1, <1>7 DEF Reenqueue, InHand, WellFormed, BusyState
  <2>2. SetProc(w, s, q)
    BY <1>7 DEF Reenqueue, Call
  <2>3. UNCHANGED <<main, delayed>> \/ t \notin expiring'
    BY <1>7 DEF Reenqueue, Call, EnqueueScript, brokerVars
  <2> HIDE DEF q
  <2> QED
    BY <1>6, <2>1, <2>2, <2>3
<1>8. CASE Nack(w, s)
  <2>1. InHand(p, t) /\ IdleProc.task # t /\ SetProc(w, s, IdleProc)
    BY <1>1, <1>8, NullAssumption DEF Nack, InHand, IdleProc
  <2>2. UNCHANGED <<main, delayed>>
    BY <1>8 DEF Nack, Call, NackScript, brokerVars
  <2> QED
    BY <1>6, <2>1, <2>2
<1>9. CASE Finish(w, s)
  <2>1. IdleProc.task # t /\ SetProc(w, s, IdleProc) /\ UNCHANGED brokerVars
    BY <1>1, <1>9, NullAssumption DEF Finish, IdleProc
  <2>2. /\ \A v \in Worker, r \in Slot :
             proc'[v][r].task = t => proc'[v][r] = proc[v][r]
        /\ \A v \in Worker : loop'[v].task = t => loop[v].task = t
    BY <1>1, <1>3, <2>1
  <2> QED
    BY <1>1, <2>1, <2>2, LastKept DEF brokerVars, Queued
<1> QED
  BY <1>5, <1>7, <1>8, <1>9, ProcMoves

\* The dequeue loop pops a task that was queued, and passes it on.
LEMMA LoopLast ==
  ASSUME TypeOK, [Next]_vars, NEW w \in Worker, LoopStep(w),
         \A t \in Task : Home(t) /\ Last(t)
  PROVE  \A t \in Task : Last(t)'
<1>1. ASSUME NEW a \in Task, Focus(a), Last(a)'
      PROVE  \A t \in Task : Last(t)'
  BY <1>1, LastSame DEF Focus
<1>2. ASSUME NEW a \in Task, a \notin expiring, UNCHANGED <<expiring, hash>>,
             \A v \in Worker, r \in Slot :
               proc'[v][r].task = a =>
                 proc'[v][r] = proc[v][r] \/ proc'[v][r].pc = "start"
      PROVE  Last(a)'
  <2>1. Lasting(a)'
    BY <1>2 DEF Lasting
  <2>2. used'["fault"] = 0 => used["fault"] = 0
    BY UsedGrows DEF Disturbance
  <2>3. Outcome(a)'
    BY <1>2, <2>2 DEF Last, Outcome, Recorded
  <2> QED
    BY <2>1, <2>3 DEF Last
<1>3. ASSUME NEW t \in Task, Focus(t),
             DequeueScript(QueuesOf[w][loop[w].qi], t), UNCHANGED proc
      PROVE  \A u \in Task : Last(u)'
  <2>1. QueuesOf[w][loop[w].qi] \in Queue
    BY FirstQueue, SystemAssumption DEF TypeOK
  <2>2. Queued(t)
    BY <1>3, <2>1 DEF Home, DequeueScript, Queued
  <2>3. t \notin expiring /\ UNCHANGED <<expiring, hash>>
    BY <1>3, <2>2 DEF Last, Lasting, DequeueScript
  <2> QED
    BY <1>1, <1>2, <1>3, <2>3
<1>4. ASSUME NEW t \in Task, t = loop[w].task, loop[w].pc = "fetch", Focus(t),
             UNCHANGED brokerVars
      PROVE  \A u \in Task : Last(u)'
  <2>1. t \notin expiring /\ UNCHANGED <<expiring, hash>>
    BY <1>4 DEF Last, Lasting, brokerVars
  <2>2. ASSUME NEW v \in Worker, NEW r \in Slot
        PROVE  proc'[v][r] = proc[v][r] \/ proc'[v][r].pc = "start"
    <3>1. CASE UNCHANGED proc
      BY <3>1
    <3>2. CASE \E s \in Slot : Dispatch(w, s)
      <4>1. PICK s \in Slot : Dispatch(w, s)
        BY <3>2
      <4>2. [IdleProc EXCEPT !.pc = "start", !.task = loop[w].task,
                             !.status = hash[loop[w].task].status,
                             !.retries = hash[loop[w].task].retries].pc
              = "start"
        BY DEF IdleProc
      <4> QED
        BY <4>1, <4>2 DEF Dispatch, TypeOK
    <3> QED
      BY <3>1, <3>2 DEF LoopStep, AcquirePermit, PollEmpty, PopTask,
         FetchNothing, FetchFails
  <2> QED
    BY <1>1, <1>2, <1>4, <2>1, <2>2
<1> QED
  BY <1>3, <1>4, LastSame, LoopFrames

\* An operator writes the hash only while the task is in its hand.
LEMMA OperatorLast ==
  ASSUME TypeOK, [Next]_vars, OperatorStep, \A t \in Task : Place(t) /\ Last(t)
  PROVE  \A t \in Task : Last(t)'
<1>1. ASSUME NEW a \in Task, Focus(a), Last(a)'
      PROVE  \A t \in Task : Last(t)'
  BY <1>1, LastSame DEF Focus
<1>2. ASSUME NEW a \in Task, UNCHANGED <<loop, proc, hash, expiring>>,
             Queued(a)' => Queued(a)
      PROVE  Last(a)'
  BY <1>2, LastKept
<1>3. ASSUME NEW o \in Operator, RetryStep(o)
      PROVE  \A u \in Task : Last(u)'
  <2>0. PICK t \in Task : t = operator[o].task
    BY <1>3, OperatorFrames
  <2>1. Focus(t) /\ UNCHANGED <<loop, proc>>
    BY <1>3, <2>0, OperatorFrames
  <2>2. CASE DlqTake(o) \/ DlqFetch(o) \/ UNCHANGED brokerVars
    <3>1. UNCHANGED <<hash, expiring, main, delayed>>
      BY <2>2
         DEF DlqTake, DlqFetch, Call, DlqRemoveOne, brokerVars
    <3> QED
      BY <1>1, <1>2, <2>1, <3>1 DEF Queued
  <2>3. CASE (DlqStore(o) \/ DlqEnqueue(o)) /\ ~UNCHANGED brokerVars
    <3>1. OpHand(o) \in Hands(t)
      BY <2>0, <2>3, HandsOf DEF DlqStore, DlqEnqueue
    <3>2. \A w \in Worker, s \in Slot :
            proc'[w][s].task = t =>
              proc'[w][s].pc = "final" /\ proc'[w][s].status # "failed"
      <4> SUFFICES ASSUME NEW w \in Worker, NEW s \in Slot,
                          proc[w][s].task = t
                   PROVE  proc[w][s].pc = "final" /\ proc[w][s].status # "failed"
        BY <2>1
      <4>1. OpHand(o) # ProcHand(w, s)
        BY HandsDiffer
      <4> QED
        BY <3>1, <4>1, OthersFinished
    <3>3. ~Queued(t) /\ \A w \in Worker : loop[w].task # t
      <4>1. ~Queued(t) /\ \A a, b \in Hands(t) : a = b
        BY <3>1 DEF Place, OnePlace
      <4>2. \A w \in Worker : loop[w].task = t => LoopHand(w) \in Hands(t)
        BY HandsOf
      <4>3. \A w \in Worker : LoopHand(w) # OpHand(o)
        BY HandsDiffer
      <4> QED
        BY <3>1, <4>1, <4>2, <4>3
    <3>4. \/ t \notin expiring'
          \/ ~Queued(t)' /\ \A w \in Worker : loop'[w].task # t
      <4>1. CASE DlqStore(o)
        BY <2>0, <2>1, <2>3, <3>3, <4>1 DEF DlqStore, Call, UpdateTask, Queued
      <4>2. CASE DlqEnqueue(o)
        BY <2>0, <2>3, <4>2 DEF DlqEnqueue, Call, EnqueueScript
      <4> QED
        BY <2>3, <4>1, <4>2
    <3>5. Last(t)'
      BY <2>1, <3>2, <3>4, LastFree
    <3> QED
      BY <1>1, <2>1, <3>5
  <2> QED
    BY <1>3, <2>2, <2>3 DEF RetryStep
<1>4. ASSUME NEW o \in Operator, NEW t \in Task, DlqList(o, t)
      PROVE  \A u \in Task : Last(u)'
  <2>1. Focus(t) /\ UNCHANGED <<loop, proc, hash, expiring, main, delayed>>
    BY <1>4, OperatorFrames DEF brokerVars
  <2> QED
    BY <1>1, <1>2, <2>1 DEF Queued
<1>5. ASSUME NEW q \in Queue, Purge(q)
      PROVE  \A u \in Task : Last(u)'
  <2>1. UNCHANGED <<loop, proc, hash, expiring, main, delayed>>
    BY <1>5 DEF Purge, PurgeDlq, workerVars
  <2> QED
    BY <1>2, <2>1 DEF Queued
<1> QED
  BY <1>3, <1>4, <1>5 DEF OperatorStep

\* A submission stores a hash without TTL, a cancel a recorded outcome, and a
\* TTL that runs out was of no hash that matters.
LEMMA ClientLast ==
  ASSUME TypeOK, [Next]_vars, ClientStep \/ \E t \in Task : TtlRunsOut(t),
         \A t \in Task : Known(t) /\ Last(t)
  PROVE  \A t \in Task : Last(t)'
<1>1. ASSUME NEW a \in Task, Focus(a), Last(a)'
      PROVE  \A t \in Task : Last(t)'
  BY <1>1, LastSame DEF Focus
<1>2. used'["fault"] = 0 => used["fault"] = 0
  BY UsedGrows DEF Disturbance
<1>3. ASSUME NEW t \in Task, NEW isDelayed \in BOOLEAN, Submit(t, isDelayed)
      PROVE  \A u \in Task : Last(u)'
  <2>1. t \notin expiring' /\ UNCHANGED proc
    BY <1>3 DEF Submit, EnqueueScript, workerVars
  <2>2. \A w \in Worker, s \in Slot : proc'[w][s].task # t
    BY <1>3, <2>1 DEF Submit, Known, Nowhere
  <2>3. Last(t)'
    BY <2>1, <2>2, LastFree
  <2> QED
    BY <1>1, <1>3, <2>3, ClientFrames
<1>4. ASSUME NEW c \in Client, CancelWrite(c)
      PROVE  \A u \in Task : Last(u)'
  <2>0. PICK t \in Task : t = canceller[c].task
    BY <1>4, ClientFrames
  <2>1. Focus(t)
    BY <1>4, <2>0, ClientFrames
  <2>2. /\ UNCHANGED <<expiring, main, delayed, loop, proc>>
        /\ hash' = [hash EXCEPT ![t] =
                      [status |-> "cancelled",
                       retries |-> canceller[c].retries]]
    BY <1>4, <2>0 DEF CancelWrite, UpdateTask, workerVars
  <2>3. Recorded(t, {"cancelled"})'
    <3> DEFINE d == [status |-> "cancelled", retries |-> canceller[c].retries]
    <3>1. d # Null
      <4>1. canceller[c].retries \in Nat
        BY <1>4 DEF CancelWrite, TypeOK, CopyState, IdleCopy
      <4> QED
        BY <4>1, NullAssumption DEF TaskData, Status
    <3> QED
      BY <2>1, <2>2, <3>1 DEF Recorded, TypeOK, BrokerTypeOK
  <2>4. Lasting(t)'
    BY <1>2, <2>1, <2>2 DEF Last, Lasting, Unsettled, InHand, Queued
  <2>5. Outcome(t)'
    BY <2>3 DEF Outcome, Recorded
  <2> QED
    BY <1>1, <2>1, <2>4, <2>5 DEF Last
<1>5. ASSUME NEW t \in Task, TtlRunsOut(t)
      PROVE  \A u \in Task : Last(u)'
  <2>1. Focus(t) /\ t \in expiring /\ t \notin expiring' /\ UNCHANGED proc
    BY <1>5, ClientFrames DEF TtlRunsOut, ExpireHash, workerVars
  <2>2. \A w \in Worker, s \in Slot : ~Unsettled(proc[w][s], t)
    BY <2>1 DEF Last, Lasting
  <2>3. Lasting(t)'
    BY <2>1 DEF Lasting
  <2>4. Outcome(t)'
    BY <1>2, <2>1, <2>2 DEF Outcome, Unsettled, Untouched, InHand
  <2> QED
    BY <1>1, <2>1, <2>3, <2>4 DEF Last
<1> QED
  BY <1>3, <1>4, <1>5, LastSame, ClientFrames DEF ClientStep

\* Undisturbed, the TTL and the outcome of every task are as they should.
LEMMA LastStays ==
  ASSUME TypeOK, TypeOK', PlaceIInv, LastInv, [Next]_vars
  PROVE  LastInv'
<1> SUFFICES ASSUME Undisturbed', OneOperator
             PROVE  \A t \in Task : Last(t)'
  BY DEF LastInv
<1>1. /\ Undisturbed /\ Calm /\ Quiet /\ ShapeInv
      /\ \A t \in Task : Home(t) /\ Known(t) /\ Place(t) /\ Last(t)
  BY Undisturbing
     DEF Undisturbed, PlaceIInv, GroundInv, QuietInv, PlaceInv, LastInv
<1>2. \A w \in Worker : ~StopBegin(w) /\ ~StopStep(w) /\ ~Crash(w)
  BY <1>1, CalmStep DEF Undisturbed, Crash, ProcessEnds, TypeOK
<1>3. CASE QuietStep
  BY <1>1, <1>3, QuietFrames, LastSame
<1>4. ASSUME NEW w \in Worker, WorkerStep(w)
      PROVE  \A t \in Task : Last(t)'
  <2>1. CASE LoopStep(w)
    BY <1>1, <2>1, LoopLast
  <2>2. CASE \E s \in Slot : ExecStep(w, s) \/ ProcStep(w, s)
    <3>1. PICK s \in Slot : ExecStep(w, s) \/ ProcStep(w, s)
      BY <2>2
    <3>2. PICK t \in Task : t = proc[w][s].task
      BY <3>1, ProcMoves
    <3>3. Last(t)' /\ Focus(t)
      BY <1>1, <3>1, <3>2, ProcLast, ProcFrames DEF ShapeInv
    <3> QED
      BY <1>1, <3>3, LastSame DEF Focus
  <2>3. ~\E v \in Worker : ReapQueue(w, v)
    <3>1. reaper[w].todo = {} /\ reaper[w].victim = Null
      BY <1>1 DEF Quiet, IdleReaper
    <3> QED
      BY <3>1 DEF ReapQueue
  <2>4. CASE \E i \in DOMAIN QueuesOf[w], due \in SUBSET Task :
               Promote(w, i, due)
    <3>1. PICK i \in DOMAIN QueuesOf[w], due \in SUBSET Task :
                 Promote(w, i, due)
      BY <2>4
    <3>2. /\ UNCHANGED <<loop, proc, hash, expiring>>
          /\ \A t \in Task : Queued(t)' => Queued(t)
      <4>1. QueuesOf[w][i] \in Queue
        BY SystemAssumption
      <4>2. UNCHANGED brokerVars \/ PromoteScript(QueuesOf[w][i], due)
        BY <3>1 DEF Promote, Call
      <4>3. ASSUME PromoteScript(QueuesOf[w][i], due), NEW t \in Task, Queued(t)'
            PROVE  Queued(t)
        BY <1>1, <4>1, <4>3, QueueOfAssumption
           DEF PromoteScript, Add, Remove, Queued, Home, TypeOK, BrokerTypeOK
      <4> QED
        BY <3>1, <4>2, <4>3
           DEF Promote, PromoteScript, Queued, brokerVars, workerVars
    <3> QED
      BY <1>1, <3>2, LastKept
  <2> QED
    BY <1>2, <1>3, <1>4, <2>1, <2>2, <2>3, <2>4
       DEF WorkerStep, MaintenanceStep, QuietStep
<1>5. CASE ClientStep \/ \E t \in Task : TtlRunsOut(t)
  BY <1>1, <1>5, ClientLast
<1>6. CASE OperatorStep
  BY <1>1, <1>6, OperatorLast
<1>7. CASE UNCHANGED vars
  BY <1>3, <1>7 DEF QuietStep
<1> QED
  BY <1>4, <1>5, <1>6, <1>7 DEF Next

\* At the start there is no TTL, and no processor.
LEMMA InitLast == Init => LastInv
BY NullAssumption
   DEF Init, BrokerInit, LastInv, Last, Lasting, Outcome, Unsettled, IdleProc,
       Untouched, InHand

-----------------------------------------------------------------------------
(* The theorems. *)

\* The inductive invariant of the places, the TTLs and the outcomes.
LEMMA OutcomeInvariant == Spec => [](TypeOK /\ PlaceIInv /\ LastInv)
<1>1. Init => PlaceIInv /\ LastInv
  BY InitPlace, InitLast
<1>2. /\ TypeOK /\ TypeOK' /\ PlaceIInv /\ LastInv /\ [Next]_vars
         => PlaceIInv' /\ LastInv'
  BY ShapeStays, GroundStep, QuietStays, PlaceStays, LastStays DEF PlaceIInv
<1> QED
  BY <1>1, <1>2, TypeCorrect, PTL DEF Spec

(***************************************************************************)
(* enqueue.lua's promise, that a queued task never expires mid-flight,     *)
(* holds until a worker dies, stalls or is stopped: retries, nacks and     *)
(* operators put an id in a queue only where nobody put a TTL on its hash  *)
(* and where the hash is PERSISTed, even when broker calls fail.  (After a *)
(* crash it does not: reap_stale.lua leaves the TTL that an ack or a nack  *)
(* of a double run has set.)                                               *)
(***************************************************************************)
THEOREM QueuedHashesPersist ==
  Spec => [](Undisturbed /\ OneOperator => QueuedNeverExpires)
<1>1. TypeOK /\ LastInv =>
        (Undisturbed /\ OneOperator => QueuedNeverExpires)
  BY DEF LastInv, Last, Lasting, QueuedNeverExpires, TypeOK, BrokerTypeOK
<1> QED
  BY <1>1, OutcomeInvariant, PTL

\* Who takes an id from the active set for good, and who fills the DLQ.
LEMMA WhoSettles ==
  ASSUME TypeOK, [Next]_vars
  PROVE  \/ acked' \subseteq acked /\ \A t \in Task : InDLQ(t)' => InDLQ(t)
         \/ \E w \in Worker, s \in Slot : Ack(w, s) \/ Nack(w, s)
<1> SUFFICES ASSUME ~\E w \in Worker, s \in Slot : Ack(w, s) \/ Nack(w, s)
             PROVE  /\ acked' \subseteq acked
                    /\ \A t \in Task : InDLQ(t)' => InDLQ(t)
  OBVIOUS
<1>1. ASSUME UNCHANGED <<acked, dlq>>
      PROVE  /\ acked' \subseteq acked
             /\ \A t \in Task : InDLQ(t)' => InDLQ(t)
  BY <1>1 DEF InDLQ
<1>2. ASSUME NEW w \in Worker, WorkerStep(w)
      PROVE  UNCHANGED <<acked, dlq>>
  <2>1. CASE LoopStep(w) \/ Start(w) \/ Register(w)
    BY <2>1 DEF LoopStep, AcquirePermit, PollEmpty, PopTask, FetchNothing,
       FetchFails, Dispatch, Start, Register, Call, RegisterWorker,
       DequeueScript, brokerVars
  <2>2. CASE \E s \in Slot : ExecStep(w, s) \/ ProcStep(w, s)
    <3>1. PICK s \in Slot : ExecStep(w, s) \/ ProcStep(w, s)
      BY <2>2
    <3>2. CASE ExecStep(w, s) \/ RecordFailed(w, s) \/ StoreRetry(w, s)
      BY <3>2 DEF ExecStep, ExecDone, ExecExitsNonzero, ExecRaises,
         RecordFailed, StoreRetry, StoreCopy, Call, UpdateTask, brokerVars
    <3>3. CASE \/ MarkCancelled(w, s) \/ RejectProvider(w, s)
               \/ MarkRunning(w, s) \/ RecordCancelled(w, s)
      BY <3>3 DEF MarkCancelled, RejectProvider, MarkRunning, RecordCancelled,
         StoreCopy, Call, UpdateTask, brokerVars
    <3>4. CASE \/ EnterChain(w, s) \/ SeeCancel(w, s) \/ Reenqueue(w, s)
               \/ Finish(w, s)
               \/ \E k \in DOMAIN Chain, e \in {"retry", "noRetry"} :
                    HookRaises(w, s, k, e)
      BY <3>4 DEF EnterChain, SeeCancel, Reenqueue, Finish, HookRaises, Call,
         EnqueueScript, brokerVars
    <3> QED
      BY <3>1, <3>2, <3>3, <3>4 DEF ProcStep
  <2>3. CASE MaintenanceStep(w) \/ Heartbeat(w) \/ FallSilent(w) \/ Crash(w)
    BY <2>3 DEF MaintenanceStep, ReapScan, ReapQueue, ReapForget, Promote,
       Heartbeat, FallSilent, Crash, ProcessEnds, Call, ReapScript,
       ForgetWorker, PromoteScript, brokerVars
  <2>4. CASE StopBegin(w) \/ StopStep(w)
    BY <2>4 DEF StopBegin, StopStep, StopAllEnded, StopTimesOut, StopCancels,
       StopRequeue, StopDeregister, RunReturns, Exit, ProcessEnds, Call,
       RequeueScript, ForgetWorker, brokerVars
  <2> QED
    BY <1>2, <2>1, <2>2, <2>3, <2>4 DEF WorkerStep
<1>3. CASE ClientStep \/ \E t \in Task : TtlRunsOut(t)
  BY <1>1, <1>3 DEF ClientStep, Submit, CancelRead, CancelWrite, TtlRunsOut,
     EnqueueScript, UpdateTask, ExpireHash, brokerVars
<1>4. CASE OperatorStep
  <2>1. ASSUME NEW o \in Operator, DlqTake(o)
        PROVE  acked' = acked /\ \A t \in Task : InDLQ(t)' => InDLQ(t)
    <3>1. operator[o].task \in Task
      BY <2>1 DEF DlqTake, TypeOK, CopyState, IdleCopy
    <3>2. CASE UNCHANGED brokerVars
      BY <3>2 DEF brokerVars, InDLQ
    <3>3. CASE DlqRemoveOne(operator[o].task)
      <4> DEFINE a == operator[o].task
                 n == dlq[QueueOf[a]][a]
      <4>1. /\ n \in Nat
            /\ dlq' = [dlq EXCEPT ![QueueOf[a]][a] = IF n > 0 THEN n - 1 ELSE n]
            /\ UNCHANGED acked
        BY <3>1, <3>3, QueueOfAssumption
           DEF DlqRemoveOne, TypeOK, BrokerTypeOK
      <4>2. ASSUME NEW t \in Task, InDLQ(t)' PROVE InDLQ(t)
        BY <3>1, <4>1, <4>2, QueueOfAssumption DEF InDLQ, TypeOK, BrokerTypeOK
      <4> QED
        BY <4>1, <4>2
    <3> QED
      BY <2>1, <3>2, <3>3 DEF DlqTake, Call
  <2>2. ASSUME NEW q \in Queue, Purge(q)
        PROVE  acked' = acked /\ \A t \in Task : InDLQ(t)' => InDLQ(t)
    BY <2>2, QueueOfAssumption
       DEF Purge, PurgeDlq, InDLQ, TypeOK, BrokerTypeOK
  <2>3. ASSUME NEW o \in Operator, RetryStep(o), ~DlqTake(o)
        PROVE  UNCHANGED <<acked, dlq>>
    BY <2>3 DEF RetryStep, DlqFetch, DlqStore, DlqEnqueue, Call, UpdateTask,
       EnqueueScript, brokerVars
  <2>4. ASSUME NEW o \in Operator, NEW t \in Task, DlqList(o, t)
        PROVE  UNCHANGED <<acked, dlq>>
    BY <2>4 DEF DlqList, brokerVars
  <2> QED
    BY <1>1, <1>4, <2>1, <2>2, <2>3, <2>4 DEF OperatorStep
<1>5. CASE UNCHANGED vars
  BY <1>1, <1>5 DEF vars, brokerVars
<1> QED
  BY <1>1, <1>2, <1>3, <1>4, <1>5 DEF Next

(***************************************************************************)
(* Until a worker dies, stalls or is stopped, no ack without DONE or       *)
(* CANCELLED in the hash, and, when no broker call failed, no nack without *)
(* FAILED or CANCELLED: the order of update_task before ack and nack in    *)
(* _process_task is not undone by clients, operators or other workers.     *)
(***************************************************************************)
THEOREM OutcomesAreRecorded == Spec => OutcomeRecordedFirst
<1>1. ASSUME TypeOK, PlaceIInv, LastInv, [Next]_vars, Undisturbed, OneOperator,
             NEW t \in Task
      PROVE  /\ t \in acked' \ acked => Recorded(t, {"done", "cancelled"})
             /\ used["fault"] = 0 /\ ~InDLQ(t) /\ InDLQ(t)' =>
                  Recorded(t, {"failed", "cancelled"})
  <2>1. CASE \E w \in Worker, s \in Slot : Ack(w, s)
    <3>1. PICK w \in Worker, s \in Slot : Ack(w, s)
      BY <2>1
    <3>2. /\ acked' \subseteq acked \cup {proc[w][s].task}
          /\ UNCHANGED dlq
      BY <3>1 DEF Ack, Call, AckScript, brokerVars
    <3>3. t = proc[w][s].task => Recorded(t, {"done", "cancelled"})
      BY <1>1, <3>1 DEF Ack, LastInv, Last, Outcome
    <3> QED
      BY <3>2, <3>3 DEF InDLQ
  <2>2. CASE \E w \in Worker, s \in Slot : Nack(w, s)
    <3>1. PICK w \in Worker, s \in Slot : Nack(w, s)
      BY <2>2
    <3>2. /\ UNCHANGED acked
          /\ t # proc[w][s].task => (InDLQ(t)' <=> InDLQ(t))
      <4>1. CASE UNCHANGED brokerVars
        BY <4>1 DEF brokerVars, InDLQ
      <4>2. CASE NackScript(proc[w][s].task)
        BY <1>1, <4>2, QueueOfAssumption
           DEF NackScript, InDLQ, TypeOK, BrokerTypeOK
      <4> QED
        BY <3>1, <4>1, <4>2 DEF Nack, Call
    <3>3. t = proc[w][s].task /\ used["fault"] = 0 =>
            Recorded(t, {"failed", "cancelled"})
      BY <1>1, <3>1 DEF Nack, LastInv, Last, Outcome
    <3> QED
      BY <3>2, <3>3
  <2> QED
    BY <1>1, <2>1, <2>2, WhoSettles
<1>2. TypeOK /\ PlaceIInv /\ LastInv /\ [Next]_vars =>
        [Undisturbed /\ OneOperator =>
           \A t \in Task :
             /\ t \in acked' \ acked => Recorded(t, {"done", "cancelled"})
             /\ used["fault"] = 0 /\ ~InDLQ(t) /\ InDLQ(t)' =>
                  Recorded(t, {"failed", "cancelled"})]_vars
  BY <1>1
<1> QED
  BY <1>2, OutcomeInvariant, PTL DEF Spec, OutcomeRecordedFirst

-----------------------------------------------------------------------------
(* The steps of TaskLifecycle. *)

\* Nothing has gone wrong: clients cancel, and one operator at most retries
\* from the DLQ and purges it.
Smooth ==
  /\ \A k \in {"fault", "crash", "stall", "stop", "expiry"} : used[k] = 0
  /\ OneOperator

\* What an acknowledged task is for ever after.
Gone(t) == Hands(t) = {} /\ ~Queued(t) /\ ~InDLQ(t) /\ ~Listed(t)

\* An acknowledged task is gone for good, and a submitted one has its hash.
SettledInv ==
  Smooth =>
    /\ Undisturbed
    /\ \A t \in acked : Gone(t)
    /\ \A t \in submitted : hash[t] # Null

\* Smooth until now means smooth before, and no disturbance in the step.
LEMMA SmoothStep ==
  ASSUME TypeOK, [Next]_vars, Smooth'
  PROVE  /\ Smooth
         /\ \A k \in {"fault", "crash", "stall", "stop", "expiry"} : ~Spend(k)
<1>1. \A k \in {"fault", "crash", "stall", "stop", "expiry"} :
        used[k] = 0 /\ ~Spend(k)
  BY UsedGrows, NotSpent DEF Smooth, Disturbance
<1> QED
  BY <1>1 DEF Smooth, OneOperator

\* Nobody dies.
LEMMA SmoothUndisturbed ==
  ASSUME TypeOK, [Next]_vars, Smooth', Undisturbed, Calm
  PROVE  Undisturbed'
<1>1. \A k \in {"fault", "crash", "stall", "stop", "expiry"} : ~Spend(k)
  BY SmoothStep
<1>2. \A w \in Worker : ~StopBegin(w) /\ ~StopStep(w) /\ ~Crash(w)
  BY <1>1, CalmStep DEF Smooth, Crash
<1>3. ASSUME NEW w \in Worker, WorkerStep(w)
      PROVE  \/ UNCHANGED phase
             \/ \E x \in {"boot", "up"} : phase' = [phase EXCEPT ![w] = x]
  <2>1. CASE Start(w) \/ Register(w)
    BY <1>1, <2>1 DEF Start, Register, Call
  <2>2. CASE LoopStep(w)
    BY <2>2 DEF LoopStep, AcquirePermit, PollEmpty, PopTask, FetchNothing,
       FetchFails, Dispatch
  <2>3. CASE \E s \in Slot : ExecStep(w, s) \/ ProcStep(w, s)
    BY <2>3, ProcMoves DEF ProcFrame, Reenqueue, Nack, Finish
  <2>4. CASE MaintenanceStep(w) \/ Heartbeat(w) \/ FallSilent(w)
    BY <2>4 DEF MaintenanceStep, ReapScan, ReapQueue, ReapForget, Promote,
       Heartbeat, FallSilent, workerVars
  <2> QED
    BY <1>2, <1>3, <2>1, <2>2, <2>3, <2>4 DEF WorkerStep
<1>4. CASE ClientStep \/ OperatorStep \/ \E t \in Task : TtlRunsOut(t)
  BY <1>4 DEF Undisturbed, Smooth, ClientStep, OperatorStep, RetryStep, Submit,
     CancelRead, CancelWrite, DlqList, DlqTake, DlqFetch, DlqStore, DlqEnqueue,
     Purge, TtlRunsOut, workerVars
<1>5. CASE UNCHANGED vars
  BY <1>5 DEF Undisturbed, vars, workerVars
<1> QED
  BY <1>3, <1>4, <1>5 DEF Next, Undisturbed, Smooth, TypeOK

\* A step that is not about u leaves it at its stage.
LEMMA SameStage ==
  ASSUME TypeOK, NEW u \in Task, Same(u)
  PROVE  /\ StageOf(u)' = StageOf(u)
         /\ Gone(u) => Gone(u)'
         /\ u \in acked' <=> u \in acked
<1>1. /\ u \in submitted' <=> u \in submitted
      /\ u \in acked' <=> u \in acked
      /\ u \in discarded' <=> u \in discarded
      /\ InDLQ(u)' <=> InDLQ(u)
      /\ Queued(u)' <=> Queued(u)
  BY QueueOfAssumption DEF Same, SameKeys, InDLQ, Queued
<1>2. Hands(u)' = Hands(u)
  <2>1. ASSUME NEW h PROVE h \in Hands(u)' <=> h \in Hands(u)
    BY HandsOf DEF Same, SameMemory, InHand
  <2> QED
    BY <2>1
<1>3. Listed(u)' => Listed(u)
  BY DEF Same, SameMemory, Listed
<1> QED
  BY <1>1, <1>2, <1>3 DEF StageOf, Gone

\* How the stage of a task follows from where it is, now and next.
LEMMA Stages ==
  ASSUME NEW t \in Task
  PROVE  /\ t \in submitted =>
              /\ InDLQ(t) => StageOf(t) = "buried"
              /\ t \in acked /\ ~InDLQ(t) => StageOf(t) = "settled"
              /\ /\ t \notin acked /\ ~InDLQ(t)
                 /\ Queued(t) \/ Hands(t) # {}
                 => StageOf(t) = "open"
         /\ t \in submitted' =>
              /\ InDLQ(t)' => StageOf(t)' = "buried"
              /\ t \in acked' /\ ~InDLQ(t)' => StageOf(t)' = "settled"
              /\ /\ t \notin acked' /\ ~InDLQ(t)'
                 /\ Queued(t)' \/ Hands(t)' # {} \/ t \notin discarded'
                 => StageOf(t)' = "open"
              /\ /\ t \in discarded' \ acked' /\ ~InDLQ(t)' /\ ~Queued(t)'
                 /\ Hands(t)' = {}
                 => StageOf(t)' = "discarded"
BY DEF StageOf

\* A step about one task that moves it as TaskLifecycle allows.
LEMMA OneMove ==
  ASSUME TypeOK, NEW a \in Task, Focus(a),
         \/ StageOf(a)' = StageOf(a)
         \/ StageOf(a) = "new" /\ StageOf(a)' = "open"
         \/ StageOf(a) = "open" /\ StageOf(a)' \in {"settled", "buried"}
         \/ StageOf(a) \in {"buried", "discarded"} /\ StageOf(a)' = "open"
  PROVE  [Lifecycle!Next]_([t \in Task |-> StageOf(t)])
<1> DEFINE stage == [t \in Task |-> StageOf(t)]
<1>1. stage' = [stage EXCEPT ![a] = StageOf(a)']
  BY SameStage DEF Focus
<1>2. stage[a] = StageOf(a)
  OBVIOUS
<1>3. CASE StageOf(a)' = StageOf(a)
  BY <1>1, <1>2, <1>3
<1>4. ASSUME NEW to \in {"open", "settled", "buried"}, StageOf(a)' = to,
             \/ StageOf(a) = "new" /\ to = "open"
             \/ StageOf(a) = "open" /\ to # "open"
             \/ StageOf(a) \in {"buried", "discarded"} /\ to = "open"
      PROVE  Lifecycle!Next
  <2>1. stage' = [stage EXCEPT ![a] = to] /\ stage[a] = StageOf(a)
    BY <1>1, <1>2, <1>4
  <2>2. \/ Lifecycle!Submit(a) \/ Lifecycle!Settle(a)
        \/ Lifecycle!Bury(a) \/ Lifecycle!Revive(a)
    BY <1>4, <2>1 DEF Lifecycle!Submit, Lifecycle!Settle, Lifecycle!Bury,
       Lifecycle!Revive, Lifecycle!Move
  <2> QED
    BY <2>2 DEF Lifecycle!Next
<1> QED
  BY <1>3, <1>4

\* Only a TTL takes the hash of a task away.
LEMMA HashKept ==
  ASSUME TypeOK, [Next]_vars, NEW t \in Task
  PROVE  /\ \/ hash[t] # Null => hash'[t] # Null
            \/ Spend("expiry") /\ t \in expiring
         /\ t \in submitted' \ submitted => hash'[t] # Null
<1>1. hash \in [Task -> TaskData \cup {Null}] /\ Null \notin TaskData
  BY NullAssumption DEF TypeOK, BrokerTypeOK
<1>2. ASSUME UNCHANGED <<hash, submitted>>
      PROVE  /\ hash[t] # Null => hash'[t] # Null
             /\ t \in submitted' \ submitted => hash'[t] # Null
  BY <1>2
<1>3. ASSUME NEW u \in Task, NEW data \in TaskData,
             UpdateTask(u, data) \/ \E b : EnqueueScript(u, data, b),
             submitted' \ submitted \subseteq {u}
      PROVE  /\ hash[t] # Null => hash'[t] # Null
             /\ t \in submitted' \ submitted => hash'[t] # Null
  BY <1>1, <1>3 DEF UpdateTask, EnqueueScript
<1>4. ASSUME NEW w \in Worker, WorkerStep(w)
      PROVE  /\ hash[t] # Null => hash'[t] # Null
             /\ t \in submitted' \ submitted => hash'[t] # Null
  <2>1. CASE LoopStep(w) \/ Start(w) \/ Register(w)
    BY <1>2, <2>1 DEF LoopStep, AcquirePermit, PollEmpty, PopTask, FetchNothing,
       FetchFails, Dispatch, Start, Register, Call, RegisterWorker,
       DequeueScript, brokerVars, clientVars
  <2>2. CASE \E s \in Slot : ExecStep(w, s) \/ ProcStep(w, s)
    <3>1. PICK s \in Slot : ExecStep(w, s) \/ ProcStep(w, s)
      BY <2>2
    <3>2. PICK u \in Task : u = proc[w][s].task
      BY <3>1, ProcMoves
    <3>3. Data(proc[w][s]) \in TaskData /\ UNCHANGED submitted
      BY <3>1, ProcMoves, ProcStates, ProcFrames
    <3>4. CASE \E q : ProcMove(w, s, q)
      <4>1. PICK q : ProcMove(w, s, q)
        BY <3>4
      <4>2. Data(q) \in TaskData
        BY <4>1, ProcStates DEF ProcMove
      <4>3. \/ \E data \in TaskData : UpdateTask(u, data)
            \/ UNCHANGED hash
        BY <3>2, <4>1, <4>2 DEF ProcMove, AckScript, brokerVars
      <4> QED
        BY <1>2, <1>3, <3>3, <4>3
    <3>5. CASE Reenqueue(w, s)
      BY <1>2, <1>3, <3>2, <3>3, <3>5 DEF Reenqueue, Call, brokerVars
    <3>6. CASE Nack(w, s) \/ Finish(w, s)
      BY <1>2, <3>3, <3>6 DEF Nack, Finish, Call, NackScript, brokerVars
    <3> QED
      BY <3>1, <3>4, <3>5, <3>6, ProcMoves
  <2>3. CASE MaintenanceStep(w) \/ Heartbeat(w) \/ FallSilent(w) \/ Crash(w)
    BY <1>2, <2>3 DEF MaintenanceStep, ReapScan, ReapQueue, ReapForget, Promote,
       Heartbeat, FallSilent, Crash, ProcessEnds, Call, ReapScript,
       ForgetWorker, PromoteScript, brokerVars, clientVars
  <2>4. CASE StopBegin(w) \/ StopStep(w)
    BY <1>2, <2>4 DEF StopBegin, StopStep, StopAllEnded, StopTimesOut,
       StopCancels, StopRequeue, StopDeregister, RunReturns, Exit, ProcessEnds,
       Call, RequeueScript, ForgetWorker, brokerVars, clientVars
  <2> QED
    BY <1>4, <2>1, <2>2, <2>3, <2>4 DEF WorkerStep
<1>5. CASE ClientStep
  <2>1. ASSUME NEW u \in Task, NEW isDelayed \in BOOLEAN, Submit(u, isDelayed)
        PROVE  /\ hash[t] # Null => hash'[t] # Null
               /\ t \in submitted' \ submitted => hash'[t] # Null
    BY <1>3, <2>1 DEF Submit, TaskData, Status
  <2>2. ASSUME NEW c \in Client, CancelWrite(c)
        PROVE  /\ hash[t] # Null => hash'[t] # Null
               /\ t \in submitted' \ submitted => hash'[t] # Null
    BY <1>3, <2>2 DEF CancelWrite, TypeOK, CopyState, IdleCopy, TaskData, Status
  <2> QED
    BY <1>2, <1>5, <2>1, <2>2 DEF ClientStep, CancelRead, brokerVars
<1>6. CASE OperatorStep
  <2>1. ASSUME NEW o \in Operator, DlqStore(o) \/ DlqEnqueue(o)
        PROVE  /\ hash[t] # Null => hash'[t] # Null
               /\ t \in submitted' \ submitted => hash'[t] # Null
    <3>1. /\ operator[o].task \in Task
          /\ operator[o].retries \in Nat
      <4>1. operator[o].pc # "idle"
        BY <2>1 DEF DlqStore, DlqEnqueue
      <4>2. operator[o] \in CopyState(OperatorPC)
        BY DEF TypeOK
      <4> QED
        BY <4>1, <4>2 DEF CopyState, IdleCopy
    <3>2. PICK d \in TaskData :
            d = [status |-> "pending", retries |-> operator[o].retries]
      BY <3>1 DEF TaskData, Status
    <3>3. \/ UNCHANGED hash
          \/ UpdateTask(operator[o].task, d)
          \/ EnqueueScript(operator[o].task, d, FALSE)
      BY <2>1, <3>2 DEF DlqStore, DlqEnqueue, Call, brokerVars
    <3>4. UNCHANGED submitted
      BY <2>1 DEF DlqStore, DlqEnqueue
    <3>5. UNCHANGED hash \/ \E b : EnqueueScript(operator[o].task, d, b)
            \/ UpdateTask(operator[o].task, d)
      BY <3>3
    <3> QED
      BY <1>2, <1>3, <3>1, <3>4, <3>5
  <2>2. ASSUME NEW o \in Operator, DlqTake(o) \/ DlqFetch(o)
        PROVE  UNCHANGED <<hash, submitted>>
    BY <2>2 DEF DlqTake, DlqFetch, Call, DlqRemoveOne, brokerVars
  <2> QED
    BY <1>2, <1>6, <2>1, <2>2
       DEF OperatorStep, RetryStep, DlqList, Purge, PurgeDlq, brokerVars,
           clientVars
<1>7. CASE \E u \in Task : TtlRunsOut(u)
  BY <1>1, <1>7 DEF TtlRunsOut, ExpireHash, clientVars
<1>8. CASE UNCHANGED vars
  BY <1>2, <1>8 DEF vars, brokerVars, clientVars
<1> QED
  BY <1>4, <1>5, <1>6, <1>7, <1>8 DEF Next

\* So it stays when none runs out.
LEMMA HashStays ==
  ASSUME TypeOK, [Next]_vars, ~Spend("expiry"), NEW t \in Task
  PROVE  /\ hash[t] # Null => hash'[t] # Null
         /\ t \in submitted' \ submitted => hash'[t] # Null
BY HashKept

\* While everything is smooth, a task in somebody's hand, or queued, is open.
LEMMA OpenTask ==
  ASSUME Smooth, SettledInv, NEW t \in Task, Known(t), Place(t),
         Queued(t) \/ Hands(t) # {}
  PROVE  t \in submitted \ acked /\ ~InDLQ(t) /\ StageOf(t) = "open"
<1>1. t \notin acked
  BY DEF SettledInv, Gone
<1>2. t \in submitted
  <2>1. Nowhere(t) => ~Queued(t)
    BY QueueOfAssumption DEF Nowhere, Queued
  <2>2. Nowhere(t) => Hands(t) = {}
    BY HandsOf DEF Nowhere, InHand
  <2> QED
    BY <2>1, <2>2 DEF Known
<1>3. ~InDLQ(t)
  BY DEF Place, OnePlace
<1> QED
  BY <1>1, <1>2, <1>3, Stages

\* What a step about task a must show: its stage moves as it may, and if it is
\* acknowledged it is gone.
Moves(a) ==
  /\ \/ StageOf(a)' = StageOf(a)
     \/ StageOf(a) = "new" /\ StageOf(a)' = "open"
     \/ StageOf(a) = "open" /\ StageOf(a)' \in {"settled", "buried"}
     \/ StageOf(a) \in {"buried", "discarded"} /\ StageOf(a)' = "open"
  /\ a \in acked' => Gone(a)'

\* An open task that is still in a hand, or queued, stays open.
LEMMA StaysOpen ==
  ASSUME NEW t \in Task, StageOf(t) = "open", t \in submitted',
         t \notin acked', ~InDLQ(t)', Queued(t)' \/ Hands(t)' # {}
  PROVE  Moves(t)
BY Stages DEF Moves

\* A processor keeps its task open, or settles it, or buries it.
LEMMA ProcStage ==
  ASSUME TypeOK, TypeOK', Calm, Smooth, ~Spend("fault"), SettledInv,
         NEW w \in Worker, NEW s \in Slot, ExecStep(w, s) \/ ProcStep(w, s),
         WellFormed(proc[w][s]), NEW t, t = proc[w][s].task, Place(t), Known(t)
  PROVE  Moves(t)
<1> DEFINE p == proc[w][s]
           h == ProcHand(w, s)
<1>1. /\ p \in BusyState /\ t \in Task
      /\ UNCHANGED <<loop, operator, submitted>> /\ BrokerTypeOK
  BY ProcMoves, ProcFrames DEF TypeOK
<1>2. ASSUME InHand(p, t)
      PROVE  /\ Hands(t) = {h} /\ ~Queued(t) /\ ~Listed(t) /\ ~InDLQ(t)
             /\ StageOf(t) = "open" /\ t \in submitted \ acked
  <2>1. h \in Hands(t)
    BY <1>1, <1>2, HandsOf
  <2>2. Hands(t) = {h} /\ ~Queued(t) /\ ~Listed(t)
    BY <2>1 DEF Place, OnePlace
  <2> QED
    BY <1>1, <2>1, <2>2, OpenTask
<1>3. ASSUME NEW q, SetProc(w, s, q), InHand(q, t)
      PROVE  Hands(t)' # {}
  <2>1. proc'[w][s] = q
    BY <1>3 DEF SetProc, TypeOK
  <2>2. h \in Hands(t)'
    BY <1>3, <2>1, HandsOf
  <2> QED
    BY <2>2
<1>4. ASSUME NEW q, SetProc(w, s, q), ~InHand(q, t)
      PROVE  Hands(t)' = Hands(t) \ {h} /\ (Listed(t)' <=> Listed(t))
  BY <1>1, <1>4, ProcHands
<1>5. CASE \E q : ProcMove(w, s, q)
  <2>1. PICK q : ProcMove(w, s, q)
    BY <1>5
  <2>2. /\ InHand(p, t) /\ SetProc(w, s, q) /\ q.task = t
        /\ UNCHANGED <<dlq, main, delayed>>
    BY <2>1 DEF ProcMove, InHand, UpdateTask, AckScript, brokerVars
  <2>3. ~InDLQ(t)'
    BY <1>2, <2>2 DEF InDLQ
  <2>4. CASE UNCHANGED acked
    <3>1. ~AckScript(t)
      BY <1>2, <2>2, <2>4 DEF AckScript
    <3>2. phase[w] # "closing" /\ WellFormed(p)
      BY DEF Calm
    <3>3. q.pc = "final" => q.status = "failed"
      BY <2>1, <3>1, <3>2 DEF ProcMove
    <3>4. InHand(q, t)
      BY <2>2, <3>3 DEF InHand
    <3> QED
      BY <1>1, <1>2, <1>3, <2>2, <2>3, <2>4, <3>4, StaysOpen
  <2>5. CASE AckScript(t) /\ ~UNCHANGED acked
    <3>1. ~InHand(q, t)
      BY <2>1, <2>2, <2>5
         DEF ProcMove, WellFormed, InHand, UpdateTask, brokerVars
    <3>2. Gone(t)'
      BY <1>2, <1>4, <2>2, <2>3, <3>1 DEF Gone, Queued
    <3>3. t \in acked'
      BY <2>5 DEF AckScript
    <3>4. StageOf(t)' = "settled"
      BY <1>1, <1>2, <2>2, <2>3, <3>3, Stages
    <3> QED
      BY <1>2, <2>2, <3>2, <3>4 DEF Moves
  <2> QED
    BY <2>1, <2>2, <2>4, <2>5 DEF ProcMove, UpdateTask, brokerVars
<1>6. CASE Reenqueue(w, s)
  <2>1. InHand(p, t) /\ EnqueueScript(t, Data(p), TRUE)
    BY <1>6 DEF Reenqueue, InHand, Call
  <2>2. Queued(t)' /\ ~InDLQ(t)' /\ t \notin acked'
    BY <1>1, <1>2, <2>1, QueueOfAssumption
       DEF EnqueueScript, Add, Queued, InDLQ, BrokerTypeOK
  <2> QED
    BY <1>1, <1>2, <2>1, <2>2, StaysOpen
<1>7. CASE Nack(w, s)
  <2>1. InHand(p, t) /\ NackScript(t)
    BY <1>7 DEF Nack, InHand, Call
  <2>2. InDLQ(t)' /\ t \notin acked'
    BY <1>1, <1>2, <2>1, QueueOfAssumption DEF NackScript, InDLQ, BrokerTypeOK
  <2>3. StageOf(t)' = "buried"
    BY <1>1, <1>2, <2>1, <2>2, Stages
  <2> QED
    BY <1>2, <2>1, <2>2, <2>3 DEF Moves
<1>8. CASE Finish(w, s)
  <2>1. ~InHand(IdleProc, t) /\ SetProc(w, s, IdleProc)
    BY <1>1, <1>8, NullAssumption DEF Finish, IdleProc, InHand
  <2>2. h \notin Hands(t)
    BY <1>8, HandsOf, HandsDiffer DEF Finish, InHand
  <2>3. Hands(t)' = Hands(t) /\ (Listed(t)' <=> Listed(t))
    BY <1>4, <2>1, <2>2
  <2>4. UNCHANGED brokerVars
    BY <1>8 DEF Finish
  <2>5. StageOf(t)' = StageOf(t)
    BY <1>1, <2>3, <2>4 DEF StageOf, InDLQ, Queued, brokerVars
  <2>6. t \in acked' => Gone(t)'
    BY <2>3, <2>4 DEF SettledInv, Gone, InDLQ, Queued, brokerVars
  <2> QED
    BY <2>5, <2>6 DEF Moves
<1> QED
  BY <1>5, <1>6, <1>7, <1>8, ProcMoves

\* The dequeue loop has an open task in its hand, and passes it on.
LEMMA LoopStage ==
  ASSUME TypeOK, TypeOK', Smooth, ~Spend("fault"), SettledInv,
         NEW w \in Worker, LoopStep(w),
         \A t \in Task : Home(t) /\ Known(t) /\ Place(t)
  PROVE  \/ \A t \in Task : Same(t)
         \/ \E t \in Task : Focus(t) /\ Moves(t)
<1>1. ASSUME NEW t \in Task, PopTask(w, t), Focus(t),
             DequeueScript(QueuesOf[w][loop[w].qi], t), UNCHANGED submitted
      PROVE  Moves(t)
  <2>1. QueuesOf[w][loop[w].qi] \in Queue
    BY FirstQueue, SystemAssumption DEF TypeOK
  <2>2. Queued(t)
    BY <1>1, <2>1 DEF Home, DequeueScript, Queued
  <2>3. t \in submitted \ acked /\ ~InDLQ(t) /\ StageOf(t) = "open"
    BY <2>2, OpenTask
  <2>4. loop'[w].task = t
    BY <1>1 DEF PopTask, Call, SetLoop, TypeOK
  <2>5. LoopHand(w) \in Hands(t)'
    BY <2>4, HandsOf
  <2>6. ~InDLQ(t)' /\ t \in submitted' \ acked'
    BY <1>1, <2>3 DEF DequeueScript, InDLQ
  <2> QED
    BY <2>3, <2>5, <2>6, StaysOpen
<1>2. ASSUME NEW t \in Task, t = loop[w].task, loop[w].pc = "fetch",
             UNCHANGED <<brokerVars, submitted>>
      PROVE  Moves(t)
  <2>1. LoopHand(w) \in Hands(t)
    BY <1>2, HandsOf
  <2>2. t \in submitted \ acked /\ ~InDLQ(t) /\ StageOf(t) = "open"
    BY <2>1, OpenTask
  <2>3. hash[t] # Null
    BY <2>2 DEF SettledInv
  <2>4. PICK s \in Slot : Dispatch(w, s)
    BY <1>2, <2>3 DEF LoopStep, AcquirePermit, PollEmpty, PopTask, FetchNothing,
       FetchFails
  <2>5. proc'[w][s].task = t /\ proc'[w][s].pc = "start"
    BY <1>2, <2>4 DEF Dispatch, IdleProc, TypeOK
  <2>6. ProcHand(w, s) \in Hands(t)'
    BY <2>5, HandsOf DEF InHand
  <2>7. ~InDLQ(t)' /\ t \in submitted' \ acked'
    BY <1>2, <2>2 DEF brokerVars, InDLQ
  <2> QED
    BY <2>2, <2>6, <2>7, StaysOpen
<1> QED
  BY <1>1, <1>2, LoopFrames

\* An operator takes a buried or discarded task, and opens it again.
LEMMA OperatorStage ==
  ASSUME TypeOK, TypeOK', Smooth, ~Spend("fault"), SettledInv, NEW o \in Operator,
         NEW t, t = operator[o].task, RetryStep(o), Place(t), Known(t)
  PROVE  Moves(t)
<1>1. t \in Task /\ UNCHANGED <<loop, proc, submitted>> /\ BrokerTypeOK
  BY OperatorFrames DEF TypeOK
<1>2. CASE DlqTake(o)
  <2>1. Listed(t)
    BY <1>2 DEF DlqTake, Listed
  <2>2. t \in submitted \ acked
    BY <1>1, <1>2, <2>1 DEF Known, Nowhere, SettledInv, Gone
  <2>3. Hands(t) = {} /\ ~Queued(t)
    BY <2>1 DEF Place
  <2>4. DlqRemoveOne(t) /\ SetOperator(o, "taken", t, 0)
    BY <1>2 DEF DlqTake, Call
  <2>5. dlq[QueueOf[t]][t] \in {0, 1}
    BY <1>1, QueueOfAssumption DEF Place, OnePlace, InDLQ, BrokerTypeOK
  <2>6. ~InDLQ(t)' /\ t \in submitted' \ acked'
    BY <1>1, <2>2, <2>4, <2>5, QueueOfAssumption
       DEF DlqRemoveOne, InDLQ, BrokerTypeOK
  <2>7. operator'[o].pc = "taken" /\ operator'[o].task = t
    BY <2>4 DEF SetOperator, TypeOK
  <2>8. OpHand(o) \in Hands(t)'
    BY <2>7, HandsOf
  <2>9. StageOf(t)' = "open"
    BY <1>1, <2>6, <2>8, Stages
  <2>10. StageOf(t) \in {"buried", "discarded", "open"}
    BY <2>2 DEF StageOf
  <2> QED
    BY <2>6, <2>9, <2>10 DEF Moves
<1>3. CASE ~DlqTake(o)
  <2>1. OpHand(o) \in Hands(t)
    BY <1>3, HandsOf DEF RetryStep, DlqFetch, DlqStore, DlqEnqueue
  <2>2. t \in submitted \ acked /\ ~InDLQ(t) /\ StageOf(t) = "open"
    BY <1>1, <2>1, OpenTask
  <2>3. UNCHANGED <<dlq, acked>>
    BY <1>3 DEF RetryStep, DlqFetch, DlqStore, DlqEnqueue, Call, UpdateTask,
       EnqueueScript, brokerVars
  <2>4. ~InDLQ(t)' /\ t \in submitted' \ acked'
    BY <1>1, <2>2, <2>3 DEF InDLQ
  <2>5. CASE DlqFetch(o) \/ DlqStore(o)
    <3>1. hash[t] # Null
      BY <2>2 DEF SettledInv
    <3>2. \E pc \in {"fetched", "stored"} : \E n : SetOperator(o, pc, t, n)
      BY <2>5, <3>1 DEF DlqFetch, DlqStore, Call
    <3>3. operator'[o].pc # "listed" /\ operator'[o].task = t
      BY <3>2 DEF SetOperator, TypeOK
    <3>4. OpHand(o) \in Hands(t)'
      BY <3>3, HandsOf
    <3> QED
      BY <1>1, <2>2, <2>4, <3>4, StaysOpen
  <2>6. CASE DlqEnqueue(o)
    <3>1. Queued(t)'
      BY <1>1, <2>6, QueueOfAssumption
         DEF DlqEnqueue, Call, EnqueueScript, Add, Queued, BrokerTypeOK
    <3> QED
      BY <1>1, <2>2, <2>4, <3>1, StaysOpen
  <2> QED
    BY <1>3, <2>5, <2>6 DEF RetryStep
<1> QED
  BY <1>2, <1>3

\* A purge discards all the buried tasks of a queue at once.
LEMMA PurgeStage ==
  ASSUME TypeOK, Smooth, SettledInv, NEW q \in Queue, Purge(q),
         \A t \in Task : Home(t) /\ Known(t) /\ Place(t)
  PROVE  /\ [Lifecycle!Next]_([t \in Task |-> StageOf(t)])
         /\ \A t \in acked' : Gone(t)'
<1> DEFINE ts == {t \in Task : dlq[q][t] > 0}
           stage == [t \in Task |-> StageOf(t)]
<1>1. /\ UNCHANGED <<loop, proc, operator, submitted, acked, main, delayed>>
      /\ discarded' = discarded \cup ts
      /\ dlq' = [dlq EXCEPT ![q] = [t \in Task |-> 0]]
  BY DEF Purge, PurgeDlq, workerVars, clientVars
<1>2. ASSUME NEW t \in Task
      PROVE  Hands(t)' = Hands(t) /\ (Listed(t)' <=> Listed(t))
  <2>1. ASSUME NEW h PROVE h \in Hands(t)' <=> h \in Hands(t)
    BY <1>1, HandsOf
  <2> QED
    BY <1>1, <2>1 DEF Listed
<1>3. ASSUME NEW t \in ts
      PROVE  /\ StageOf(t) = "buried" /\ StageOf(t)' = "discarded"
             /\ t \notin acked
  <2>1. q = QueueOf[t] /\ InDLQ(t) /\ t \in submitted
    BY <1>3 DEF Home, InDLQ, Known, Nowhere
  <2>2. t \notin acked /\ ~Queued(t) /\ Hands(t) = {}
    BY <2>1 DEF SettledInv, Gone, Place, OnePlace
  <2>3. ~InDLQ(t)' /\ ~Queued(t)' /\ Hands(t)' = {}
    BY <1>1, <1>2, <2>1, <2>2, QueueOfAssumption
       DEF InDLQ, Queued, TypeOK, BrokerTypeOK
  <2> QED
    BY <1>1, <2>1, <2>2, <2>3, Stages
<1>4. ASSUME NEW t \in Task \ ts
      PROVE  StageOf(t)' = StageOf(t) /\ (InDLQ(t)' => InDLQ(t))
  <2>1. InDLQ(t)' <=> InDLQ(t)
    BY <1>1, QueueOfAssumption DEF InDLQ, TypeOK, BrokerTypeOK
  <2>2. /\ t \in discarded' <=> t \in discarded
        /\ Queued(t)' <=> Queued(t)
    BY <1>1 DEF Queued
  <2> QED
    BY <1>1, <1>2, <2>1, <2>2 DEF StageOf
<1>5. Lifecycle!Next
  <2>1. /\ ts # {} /\ \A t \in ts : stage[t] = "buried"
        /\ stage' = [t \in Task |-> IF t \in ts THEN "discarded" ELSE stage[t]]
    BY <1>3, <1>4 DEF Purge
  <2>2. Lifecycle!Discard(ts)
    BY <2>1 DEF Lifecycle!Discard
  <2> QED
    BY <2>2 DEF Lifecycle!Next
<1>6. \A t \in acked' : Gone(t)'
  BY <1>1, <1>2, <1>3, <1>4 DEF SettledInv, Gone, Queued, TypeOK, BrokerTypeOK
<1> QED
  BY <1>5, <1>6

\* One task moves as it may: so does the whole, and what is acknowledged is
\* gone.
LEMMA MoveAll ==
  ASSUME TypeOK, Smooth, SettledInv,
         \/ \A t \in Task : Same(t)
         \/ \E t \in Task : Focus(t) /\ Moves(t)
  PROVE  /\ [Lifecycle!Next]_([t \in Task |-> StageOf(t)])
         /\ \A t \in acked' : t \in Task => Gone(t)'
<1>1. ASSUME NEW t \in Task, t \in acked', Same(t)
      PROVE  Gone(t)'
  BY <1>1, SameStage DEF SettledInv
<1>2. CASE \A t \in Task : Same(t)
  BY <1>1, <1>2, SameStage
<1>3. ASSUME NEW a \in Task, Focus(a), Moves(a)
      PROVE  /\ [Lifecycle!Next]_([t \in Task |-> StageOf(t)])
             /\ \A t \in acked' : t \in Task => Gone(t)'
  <2>1. [Lifecycle!Next]_([t \in Task |-> StageOf(t)])
    BY <1>3, OneMove DEF Moves
  <2>2. \A t \in acked' : t \in Task => Gone(t)'
    BY <1>1, <1>3 DEF Moves, Focus
  <2> QED
    BY <2>1, <2>2
<1> QED
  BY <1>2, <1>3

\* A step that changes neither the hands nor, of the keys, more than the hash
\* and the set an id waits in.
LEMMA StageKept ==
  ASSUME UNCHANGED <<loop, proc, operator, submitted, acked, discarded, dlq>>,
         NEW t \in Task, Queued(t)' <=> Queued(t), SettledInv, Smooth
  PROVE  Moves(t)
<1>1. Hands(t)' = Hands(t)
  <2>1. ASSUME NEW h PROVE h \in Hands(t)' <=> h \in Hands(t)
    BY <2>1, HandsOf
  <2> QED
    BY <2>1
<1>2. (Listed(t)' <=> Listed(t)) /\ (InDLQ(t)' <=> InDLQ(t))
  BY DEF Listed, InDLQ
<1>3. StageOf(t)' = StageOf(t)
  BY <1>1, <1>2 DEF StageOf
<1> QED
  BY <1>1, <1>2, <1>3 DEF Moves, SettledInv, Gone

\* A submission opens a task; a cancel only writes its hash.
LEMMA ClientStage ==
  ASSUME TypeOK, Smooth, SettledInv, ClientStep,
         \A t \in Task : Known(t)
  PROVE  \/ \A t \in Task : Same(t)
         \/ \E t \in Task : Focus(t) /\ Moves(t)
<1>1. ASSUME NEW t \in Task, NEW isDelayed \in BOOLEAN, Submit(t, isDelayed)
      PROVE  Focus(t) /\ Moves(t)
  <2>1. StageOf(t) = "new" /\ Nowhere(t)
    BY <1>1 DEF Submit, Known, Nowhere, StageOf
  <2>2. /\ t \in submitted' /\ t \notin acked' /\ t \notin discarded'
        /\ ~InDLQ(t)'
    BY <1>1, <2>1, QueueOfAssumption DEF Submit, EnqueueScript, Nowhere, InDLQ
  <2>3. StageOf(t)' = "open"
    BY <2>2, Stages
  <2> QED
    BY <1>1, <2>1, <2>2, <2>3, ClientFrames DEF Moves
<1>2. ASSUME NEW c \in Client, CancelWrite(c)
      PROVE  \E t \in Task : Focus(t) /\ Moves(t)
  <2>1. PICK t \in Task : t = canceller[c].task /\ Focus(t)
    BY <1>2, ClientFrames
  <2>2. /\ UNCHANGED <<loop, proc, operator, submitted, acked, discarded, dlq>>
        /\ Queued(t)' <=> Queued(t)
    BY <1>2 DEF CancelWrite, UpdateTask, workerVars, Queued
  <2> QED
    BY <2>1, <2>2, StageKept
<1> QED
  BY <1>1, <1>2, ClientFrames DEF ClientStep

\* While everything is smooth a step of the system is a step of TaskLifecycle
\* or changes no stage, and the acknowledged tasks stay where they are.
LEMMA StageStep ==
  ASSUME TypeOK, TypeOK', PlaceIInv, SettledInv, [Next]_vars, Smooth'
  PROVE  /\ [Lifecycle!Next]_([t \in Task |-> StageOf(t)])
         /\ \A t \in acked' : Gone(t)'
<1>1. Smooth /\ Undisturbed /\ acked' \subseteq Task
  BY SmoothStep DEF SettledInv, TypeOK, BrokerTypeOK
<1>2. /\ Calm /\ Quiet /\ ShapeInv
      /\ \A t \in Task : Home(t) /\ Known(t) /\ Place(t)
  BY <1>1 DEF Undisturbed, PlaceIInv, GroundInv, QuietInv, PlaceInv, Smooth
<1>3. /\ ~Spend("fault") /\ ~Spend("expiry")
      /\ \A w \in Worker : ~StopBegin(w) /\ ~StopStep(w) /\ ~Crash(w)
  BY <1>2, SmoothStep, CalmStep DEF Smooth, Crash
<1>4. ASSUME \/ \A t \in Task : Same(t)
             \/ \E t \in Task : Focus(t) /\ Moves(t)
      PROVE  /\ [Lifecycle!Next]_([t \in Task |-> StageOf(t)])
             /\ \A t \in acked' : Gone(t)'
  BY <1>1, <1>4, MoveAll
<1>5. CASE QuietStep
  BY <1>4, <1>5, QuietFrames
<1>6. ASSUME NEW w \in Worker, WorkerStep(w)
      PROVE  /\ [Lifecycle!Next]_([t \in Task |-> StageOf(t)])
             /\ \A t \in acked' : Gone(t)'
  <2>1. CASE LoopStep(w)
    BY <1>1, <1>2, <1>3, <1>4, <2>1, LoopStage
  <2>2. CASE \E s \in Slot : ExecStep(w, s) \/ ProcStep(w, s)
    <3>1. PICK s \in Slot : ExecStep(w, s) \/ ProcStep(w, s)
      BY <2>2
    <3>2. PICK t \in Task : t = proc[w][s].task
      BY <3>1, ProcMoves
    <3>3. Focus(t) /\ Moves(t)
      BY <1>1, <1>2, <1>3, <3>1, <3>2, ProcStage, ProcFrames DEF ShapeInv
    <3> QED
      BY <1>4, <3>3
  <2>3. ~\E v \in Worker : ReapQueue(w, v)
    <3>1. reaper[w].todo = {} /\ reaper[w].victim = Null
      BY <1>2 DEF Quiet, IdleReaper
    <3> QED
      BY <3>1 DEF ReapQueue
  <2>4. ASSUME NEW i \in DOMAIN QueuesOf[w], NEW due \in SUBSET Task,
               Promote(w, i, due)
        PROVE  /\ [Lifecycle!Next]_([t \in Task |-> StageOf(t)])
               /\ \A t \in acked' : Gone(t)'
    <3>1. /\ QueuesOf[w][i] \in Queue /\ PromoteScript(QueuesOf[w][i], due)
          /\ UNCHANGED <<loop, proc, operator, submitted, acked, discarded, dlq>>
      BY <1>3, <2>4, SystemAssumption
         DEF Promote, Call, PromoteScript, workerVars, clientVars
    <3>2. ASSUME NEW t \in Task
          PROVE  Queued(t)' <=> Queued(t)
      BY <1>2, <3>1, QueueOfAssumption
         DEF PromoteScript, Add, Remove, Queued, Home, TypeOK, BrokerTypeOK
    <3>3. \A t \in Task : Moves(t)
      BY <1>1, <3>1, <3>2, StageKept
    <3>4. \A t \in Task : StageOf(t)' = StageOf(t)
      <4>1. ASSUME NEW t \in Task PROVE Hands(t)' = Hands(t)
        <5>1. ASSUME NEW h PROVE h \in Hands(t)' <=> h \in Hands(t)
          BY <3>1, HandsOf
        <5> QED
          BY <5>1
      <4> QED
        BY <3>1, <3>2, <4>1 DEF StageOf, InDLQ
    <3> QED
      BY <1>1, <3>3, <3>4 DEF Moves
  <2> QED
    BY <1>3, <1>5, <1>6, <2>1, <2>2, <2>3, <2>4
       DEF WorkerStep, MaintenanceStep, QuietStep
<1>7. CASE ClientStep
  BY <1>1, <1>2, <1>4, <1>7, ClientStage
<1>8. CASE OperatorStep
  <2>1. ASSUME NEW o \in Operator, RetryStep(o)
        PROVE  \E t \in Task : Focus(t) /\ Moves(t)
    <3>1. PICK t \in Task : t = operator[o].task
      BY <2>1, OperatorFrames
    <3> QED
      BY <1>1, <1>2, <1>3, <2>1, <3>1, OperatorStage, OperatorFrames
  <2>2. ASSUME NEW o \in Operator, NEW t \in Task, DlqList(o, t)
        PROVE  Focus(t) /\ Moves(t)
    <3>1. Focus(t) /\ UNCHANGED <<loop, proc, submitted, brokerVars>>
      BY <2>2, OperatorFrames
    <3>2. ASSUME NEW h PROVE h \in Hands(t)' <=> h \in Hands(t)
      <4>1. \A p \in Operator :
              \/ operator'[p] = operator[p]
              \/ p = o /\ operator[p].pc = "idle" /\ operator'[p].pc = "listed"
        BY <2>2 DEF DlqList, SetOperator, TypeOK
      <4>2. \A p \in Operator : operator[p].pc = "idle" => operator[p].task # t
        BY NullAssumption DEF TypeOK, CopyState, IdleCopy, OperatorPC
      <4> QED
        BY <3>1, <4>1, <4>2, HandsOf
    <3>3. Hands(t)' = Hands(t)
      BY <3>2
    <3>4. StageOf(t)' = StageOf(t)
      BY <3>1, <3>3 DEF StageOf, brokerVars, InDLQ, Queued
    <3>5. t \notin acked'
      BY <1>1, <2>2 DEF DlqList, SettledInv, Gone, brokerVars
    <3> QED
      BY <3>1, <3>4, <3>5 DEF Moves
  <2>3. ASSUME NEW q \in Queue, Purge(q)
        PROVE  /\ [Lifecycle!Next]_([t \in Task |-> StageOf(t)])
               /\ \A t \in acked' : Gone(t)'
    BY <1>1, <1>2, <2>3, PurgeStage
  <2> QED
    BY <1>4, <1>8, <2>1, <2>2, <2>3 DEF OperatorStep
<1>9. ~\E t \in Task : TtlRunsOut(t)
  BY <1>3 DEF TtlRunsOut
<1>10. CASE UNCHANGED vars
  BY <1>5, <1>10 DEF QuietStep
<1> QED
  BY <1>6, <1>7, <1>8, <1>9, <1>10 DEF Next

\* What a smooth life of the tasks rests on is kept.
LEMMA SettledStays ==
  ASSUME TypeOK, TypeOK', PlaceIInv, SettledInv, [Next]_vars
  PROVE  SettledInv'
<1> SUFFICES ASSUME Smooth'
             PROVE  /\ Undisturbed'
                    /\ \A t \in acked' : Gone(t)'
                    /\ \A t \in submitted' : hash'[t] # Null
  BY DEF SettledInv
<1>1. Smooth /\ Undisturbed /\ Calm /\ ~Spend("expiry")
  BY SmoothStep DEF SettledInv, Smooth, PlaceIInv, GroundInv
<1>2. Undisturbed'
  BY <1>1, SmoothUndisturbed
<1>3. \A t \in submitted' : hash'[t] # Null
  BY <1>1, HashStays DEF SettledInv, TypeOK
<1> QED
  BY <1>2, <1>3, StageStep

(***************************************************************************)
(* The safety part of ImplementsLifecycle: up to the first failed call,    *)
(* crash, stall, stop or expired hash, the system takes only the steps of  *)
(* TaskLifecycle, for any number of workers, tasks, queues and clients.    *)
(* An acknowledged task is never opened, buried or settled again, and a    *)
(* task leaves the DLQ only by a retry or a purge.                         *)
(***************************************************************************)
THEOREM LifecycleSteps ==
  Spec => /\ Lifecycle!Init
          /\ [][Smooth' => [Lifecycle!Next]_([t \in Task |-> StageOf(t)])]_vars
<1>1. Init => SettledInv
  BY DEF Init, BrokerInit, SettledInv, Smooth, Undisturbed
<1>2. Init => Lifecycle!Init
  BY DEF Init, BrokerInit, Lifecycle!Init, StageOf
<1>3. /\ TypeOK /\ TypeOK' /\ PlaceIInv /\ SettledInv /\ [Next]_vars
         => SettledInv'
  BY SettledStays
<1>4. /\ TypeOK /\ TypeOK' /\ PlaceIInv /\ SettledInv /\ [Next]_vars
         => [Smooth' => [Lifecycle!Next]_([t \in Task |-> StageOf(t)])]_vars
  BY StageStep
<1> QED
  BY <1>1, <1>2, <1>3, <1>4, OutcomeInvariant, PTL DEF Spec

\* No more disturbances than the budget allows.
LEMMA WithinBudget ==
  ASSUME \A k \in {"fault", "crash", "stall", "stop", "expiry"} : Budget[k] = 0,
         OneOperator
  PROVE  Spec => []Smooth
<1>1. Init => Smooth
  BY DEF Init, Smooth, Disturbance
<1>2. ASSUME TypeOK, Smooth, [Next]_vars
      PROVE  Smooth'
  <2>1. ASSUME NEW d \in Disturbance, Spend(d),
               NEW k \in {"fault", "crash", "stall", "stop", "expiry"}
        PROVE  used'[k] = 0
    <3>1. d # k
      BY <1>2, <2>1 DEF Spend, Smooth
    <3> QED
      BY <1>2, <2>1, <3>1 DEF Spend, Smooth, TypeOK, Disturbance
  <2> QED
    BY <1>2, <2>1, UsedSpent DEF Smooth, OneOperator
<1> QED
  BY <1>1, <1>2, TypeCorrect, PTL DEF Spec

\* So a system that is never disturbed implements TaskLifecycle, as far as
\* safety goes.
THEOREM LifecycleImplemented ==
  ASSUME \A k \in {"fault", "crash", "stall", "stop", "expiry"} : Budget[k] = 0,
         OneOperator
  PROVE  Spec => /\ Lifecycle!Init
                 /\ [][Lifecycle!Next]_([t \in Task |-> StageOf(t)])
<1>1. Spec => []Smooth
  BY WithinBudget
<1>2. /\ Smooth' /\ [Smooth' => [Lifecycle!Next]_([t \in Task |-> StageOf(t)])]_vars
         => [Lifecycle!Next]_([t \in Task |-> StageOf(t)])
  <2> SUFFICES ASSUME UNCHANGED vars
               PROVE  UNCHANGED [t \in Task |-> StageOf(t)]
    OBVIOUS
  <2>1. ASSUME NEW t \in Task
        PROVE  UNCHANGED StageOf(t)
    <3>1. ASSUME NEW h PROVE h \in Hands(t)' <=> h \in Hands(t)
      BY HandsOf DEF vars, workerVars, clientVars
    <3>2. Hands(t)' = Hands(t)
      BY <3>1
    <3> QED
      BY <3>2 DEF StageOf, InDLQ, Queued, vars, brokerVars, clientVars
  <2> QED
    BY <2>1
<1> QED
  BY <1>1, <1>2, LifecycleSteps, PTL
=============================================================================
