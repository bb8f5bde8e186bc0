----------------------------- MODULE StopProofs -----------------------------
(***************************************************************************)
(* A stop that is forced by its timeout loses no task: ForcedStopRequeues  *)
(* for every value of the constants.                                       *)
(*                                                                         *)
(* stop() gives each task whose CLI it terminated back to each queue that  *)
(* the worker serves.  Until it has come to the task's own queue, it is    *)
(* obliged to the task; from then on the task is spared: stored, or taken  *)
(* over by another worker, whatever the stopping worker still does.        *)
(***************************************************************************)
EXTENDS DeliveryProofs

\* The workers that are being stopped.
Stopping == {w \in Worker : phase[w] \in {"stopping", "closing"}}

\* There are no more of them than there were stops.
StopCountInv ==
  /\ used["stop"] = 0 => Stopping = {}
  /\ used["stop"] = 1 => \A v, w \in Stopping : v = w

\* Task t came to worker w through a queue of its own.
OwnTask(w, t) == t \in submitted /\ QueueOf[t] \in Serves(w)

\* Until the first stop every worker runs such tasks only; and the first worker
\* that is stopped takes no others.
OwnInv ==
  \A w \in Worker :
    /\ used["stop"] = 0 /\ loop[w].pc = "fetch" => OwnTask(w, loop[w].task)
    /\ \/ used["stop"] = 0
       \/ used["stop"] = 1 /\ w \in Stopping
       => \A s \in Slot :
            proc[w][s].pc # "idle" => OwnTask(w, proc[w][s].task)

\* The stop() of worker w has yet to come to the queue of t.
Obliged(w, t) ==
  LET r == stopper[w] IN
  \/ r.pc = "cleanup"
  \/ /\ r.pc = "requeue"
     /\ \E i \in DOMAIN QueuesOf[w] :
          /\ QueuesOf[w][i] = QueueOf[t]
          /\ r.qi < i \/ (r.qi = i /\ t \in r.rest)

\* Task t is stored, or with another worker than w.
Spared(w, t) ==
  /\ used["crash"] = 0 =>
       Stored(t) \/ \E v \in Worker \ {w} : WorkerHolds(v, t)
  /\ used["stall"] = 0 =>
       \/ Stored(t)
       \/ t \in active[QueueOf[t]] /\ \E v \in Worker \ {w} : GuardedBy(v, t)

\* A stop() that has terminated the CLI of t is obliged to t, or t is spared.
Forced(w) ==
  /\ stopper[w].pc \in {"cleanup", "requeue", "deregister"}
  /\ used["fault"] = 0 /\ used["expiry"] = 0 /\ used["stop"] = 1

StopInv ==
  \A w \in Worker : Forced(w) =>
    \A t \in stopper[w].ids :
      OwnTask(w, t) /\ (Obliged(w, t) \/ Spared(w, t))

\* The inductive invariant.
StopIInv == StopCountInv /\ OwnInv /\ StopInv

-----------------------------------------------------------------------------
(* Who stops, and what a stopping worker has. *)

\* An id that was submitted stays so.
LEMMA SubmittedGrows ==
  ASSUME TypeOK, [Next]_vars
  PROVE  submitted \subseteq submitted'
<1>1. ASSUME NEW w \in Worker, WorkerStep(w) PROVE UNCHANGED submitted
  <2>1. CASE LoopStep(w) \/ Start(w) \/ Register(w)
    BY <2>1 DEF LoopStep, AcquirePermit, PollEmpty, PopTask, FetchNothing,
       FetchFails, Dispatch, Start, Register, clientVars
  <2>2. CASE \E s \in Slot : ExecStep(w, s) \/ ProcStep(w, s)
    BY <2>2, ProcFrames
  <2>3. CASE MaintenanceStep(w) \/ Heartbeat(w) \/ FallSilent(w) \/ Crash(w)
    BY <2>3 DEF MaintenanceStep, ReapScan, ReapQueue, ReapForget, Promote,
       Heartbeat, FallSilent, Crash, ProcessEnds, clientVars
  <2>4. CASE StopBegin(w) \/ StopStep(w)
    BY <2>4 DEF StopBegin, StopStep, StopAllEnded, StopTimesOut, StopCancels,
       StopRequeue, StopDeregister, RunReturns, Exit, ProcessEnds, clientVars
  <2> QED
    BY <1>1, <2>1, <2>2, <2>3, <2>4 DEF WorkerStep
<1>2. CASE ClientStep \/ OperatorStep \/ \E t \in Task : TtlRunsOut(t)
  BY <1>2 DEF ClientStep, Submit, CancelRead, CancelWrite, TtlRunsOut,
     OperatorStep, RetryStep, DlqList, DlqTake, DlqFetch, DlqStore, DlqEnqueue,
     Purge, clientVars
<1>3. CASE UNCHANGED vars
  BY <1>3 DEF vars, clientVars
<1> QED
  BY <1>1, <1>2, <1>3 DEF Next

\* What a step of worker x, or of nobody, does to a worker's stop.
LEMMA WhoStops ==
  ASSUME TypeOK, [Next]_vars, NEW w \in Worker
  PROVE  /\ w \in Stopping' => w \in Stopping \/ StopBegin(w)
         /\ \/ stopper'[w] = stopper[w]
            \/ StopBegin(w) \/ StopStep(w) \/ Crash(w)
<1> DEFINE Goal == /\ w \in Stopping' => w \in Stopping \/ StopBegin(w)
                   /\ \/ stopper'[w] = stopper[w]
                      \/ StopBegin(w) \/ StopStep(w) \/ Crash(w)
<1>1. ASSUME UNCHANGED <<phase, stopper>> PROVE Goal
  BY <1>1 DEF Stopping
<1>2. ASSUME NEW x \in Worker, WorkerStep(x) PROVE Goal
  <2>1. CASE Start(x) \/ Register(x)
    BY <2>1 DEF Start, Register, Call, Stopping, reapVars, TypeOK
  <2>2. CASE LoopStep(x)
    BY <1>1, <2>2 DEF LoopStep, AcquirePermit, PollEmpty, PopTask,
       FetchNothing, FetchFails, Dispatch, reapVars
  <2>3. CASE \E s \in Slot : ExecStep(x, s) \/ ProcStep(x, s)
    BY <1>1, <2>3, ProcMoves DEF ProcFrame, Reenqueue, Nack, Finish, reapVars
  <2>4. CASE MaintenanceStep(x) \/ Heartbeat(x) \/ FallSilent(x)
    BY <1>1, <2>4 DEF MaintenanceStep, ReapScan, ReapQueue, ReapForget,
       Promote, Heartbeat, FallSilent, workerVars, reapVars
  <2>5. CASE Crash(x) \/ StopBegin(x)
    BY <2>5 DEF Crash, ProcessEnds, StopBegin, StopGoes, Stopping, TypeOK
  <2>6. CASE StopStep(x)
    <3>1. \A v \in Worker \ {x} : stopper'[v] = stopper[v] /\ phase'[v] = phase[v]
      BY <2>6 DEF StopStep, StopAllEnded, StopTimesOut, StopCancels,
         StopRequeue, StopNextQueue, StopDeregister, RunReturns, Exit,
         ProcessEnds, StopGoes, Call, workerVars, TypeOK
    <3>2. x \in Stopping' => x \in Stopping
      BY <2>6 DEF StopStep, StopAllEnded, StopTimesOut, StopCancels,
         StopRequeue, StopDeregister, RunReturns, Exit, ProcessEnds, Stopping,
         workerVars, TypeOK
    <3> QED
      BY <2>6, <3>1, <3>2 DEF Stopping
  <2> QED
    BY <1>2, <2>1, <2>2, <2>3, <2>4, <2>5, <2>6 DEF WorkerStep
<1>3. CASE ClientStep \/ OperatorStep \/ \E t \in Task : TtlRunsOut(t)
  BY <1>1, <1>3 DEF ClientStep, Submit, CancelRead, CancelWrite, TtlRunsOut,
     OperatorStep, RetryStep, DlqList, DlqTake, DlqFetch, DlqStore, DlqEnqueue,
     Purge, workerVars, reapVars
<1>4. CASE UNCHANGED vars
  BY <1>1, <1>4 DEF vars, workerVars, reapVars
<1> QED
  BY <1>2, <1>3, <1>4 DEF Next

\* A stop that begins is counted.
LEMMA StopIsCounted ==
  ASSUME TypeOK, NEW w \in Worker, StopBegin(w)
  PROVE  used'["stop"] = used["stop"] + 1
BY DEF StopBegin, Spend, Disturbance, TypeOK

\* So the stopping workers are no more than the stops.
LEMMA StopCountStays ==
  ASSUME TypeOK, StopCountInv, [Next]_vars
  PROVE  StopCountInv'
<1>1. used["stop"] \in Nat /\ used'["stop"] \in Nat /\ used["stop"] <= used'["stop"]
  BY UsedGrows DEF Disturbance
<1>2. \A w \in Worker : StopBegin(w) => used'["stop"] = used["stop"] + 1
  BY StopIsCounted
<1>3. \A w \in Stopping' : w \in Stopping \/ StopBegin(w)
  BY WhoStops DEF Stopping
<1>4. ASSUME NEW v \in Worker, NEW w \in Worker, StopBegin(v), StopBegin(w)
      PROVE  v = w
  BY <1>4 DEF StopBegin, TypeOK
<1>5. ASSUME used'["stop"] = 0 PROVE Stopping' = {}
  BY <1>1, <1>2, <1>3, <1>5 DEF StopCountInv, Stopping
<1>6. ASSUME used'["stop"] = 1, NEW v \in Stopping', NEW w \in Stopping'
      PROVE  v = w
  <2>1. v \in Worker /\ w \in Worker
    BY DEF Stopping
  <2>2. CASE used["stop"] = 0
    BY <1>3, <1>4, <2>1, <2>2 DEF StopCountInv
  <2>3. CASE used["stop"] = 1
    BY <1>2, <1>3, <1>6, <2>1, <2>3 DEF StopCountInv
  <2> QED
    BY <1>1, <1>6, <2>2, <2>3
<1> QED
  BY <1>5, <1>6 DEF StopCountInv

\* A dequeue loop fetches what it fetched before, or has popped from a queue.
LEMMA LoopGets ==
  ASSUME TypeOK, [Next]_vars, NEW w \in Worker, loop'[w].pc = "fetch"
  PROVE  \/ loop'[w] = loop[w]
         \/ \E q \in Serves(w) : loop'[w].task \in Task \cap main[q]
<1>0. loop'[w].pc = "fetch"
  OBVIOUS
<1>1. ASSUME NEW x \in Worker, LoopStep(x)
      PROVE  \/ loop'[w] = loop[w]
             \/ \E q \in Serves(w) : loop'[w].task \in Task \cap main[q]
  <2>1. CASE x # w
    BY <1>1, <2>1 DEF LoopStep, AcquirePermit, PollEmpty, PopTask, FetchNothing,
       FetchFails, Dispatch, SetLoop, LoopAgain, Call, TypeOK
  <2>2. CASE \E t \in Task : PopTask(w, t)
    <3>1. PICK t \in Task : PopTask(w, t)
      BY <2>2
    <3>2. /\ DequeueScript(QueuesOf[w][loop[w].qi], t)
          /\ loop'[w].task = t
      BY <3>1 DEF PopTask, Call, SetLoop, LoopAgain, TypeOK
    <3> QED
      BY <3>2 DEF DequeueScript, Serves, TypeOK
  <2> QED
    BY <1>1, <2>1, <2>2 DEF LoopStep, AcquirePermit, PollEmpty, FetchNothing,
       FetchFails, Dispatch, SetLoop, LoopAgain, TypeOK
<1>2. ASSUME NEW x \in Worker, WorkerStep(x)
      PROVE  \/ loop'[w] = loop[w] \/ LoopStep(x)
  <2>1. CASE \E s \in Slot : ExecStep(x, s) \/ ProcStep(x, s)
    BY <2>1, ProcFrames
  <2>2. CASE Start(x) \/ Register(x) \/ MaintenanceStep(x) \/ Heartbeat(x)
               \/ FallSilent(x)
    BY <2>2 DEF Start, Register, MaintenanceStep, ReapScan, ReapQueue,
       ReapForget, Promote, Heartbeat, FallSilent, workerVars
  <2>3. CASE Crash(x) \/ StopBegin(x) \/ StopStep(x)
    <3>1. CASE Crash(x) \/ Exit(x)
      <4>1. loop' = [loop EXCEPT ![x] = IdleLoop] /\ IdleLoop.pc # "fetch"
        BY <3>1 DEF Crash, Exit, ProcessEnds, IdleLoop
      <4> QED
        BY <1>0, <4>1 DEF TypeOK
    <3>2. CASE StopBegin(x)
      <4>1. loop' = loop \/ SetLoop(x, "cancelled", 1, Null)
        BY <3>2 DEF StopBegin
      <4> QED
        BY <1>0, <4>1 DEF SetLoop, TypeOK
    <3>3. CASE StopStep(x) /\ ~Exit(x)
      BY <3>3 DEF StopStep, StopAllEnded, StopTimesOut, StopCancels,
         StopRequeue, StopDeregister, RunReturns, workerVars
    <3> QED
      BY <2>3, <3>1, <3>2, <3>3
  <2> QED
    BY <1>2, <2>1, <2>2, <2>3 DEF WorkerStep
<1>3. CASE ClientStep \/ OperatorStep \/ \E t \in Task : TtlRunsOut(t)
  BY <1>3 DEF ClientStep, OperatorStep, RetryStep, Submit, CancelRead,
     CancelWrite, DlqList, DlqTake, DlqFetch, DlqStore, DlqEnqueue, Purge,
     TtlRunsOut, workerVars
<1>4. CASE UNCHANGED vars
  BY <1>4 DEF vars, workerVars
<1> QED
  BY <1>1, <1>2, <1>3, <1>4 DEF Next

\* Wherever a cancelled processor ends up, it has its task or none.
LEMMA InterruptedTask ==
  ASSUME NEW p \in ProcState, NEW q \in Interrupted(p), q.pc # "idle"
  PROVE  p.pc # "idle" /\ q.task = p.task
<1>1. ~(p.pc = "idle" \/ Escapes(p))
  <2>1. p.pc = "idle" \/ Escapes(p) => q \in {IdleProc}
    BY Zenon DEF Interrupted
  <2> QED
    BY <2>1 DEF IdleProc
<1>2. p \in BusyState
  BY <1>1 DEF ProcState, IdleProc
<1>3. \A pc, st : [p EXCEPT !.pc = pc, !.status = st].task = p.task
  BY <1>2 DEF BusyState
<1>4. q = p \/ \E pc, st : q = [p EXCEPT !.pc = pc, !.status = st]
  <2> DEFINE pc == IF p.pc = "failed" /\ WillRetry(p) THEN "retry" ELSE "final"
  <2>1. q \in {[p EXCEPT !.pc = pc, !.status = st] : st \in StatusIn(p)}
               \cup {r \in {p} : r.pc = "exec"}
               \cup {r \in {IdleProc} : p.pc = "final"}
    BY <1>1, Zenon DEF Interrupted
  <2>2. q # IdleProc
    BY DEF IdleProc
  <2> HIDE DEF pc
  <2> QED
    BY <2>1, <2>2
<1> QED
  BY <1>1, <1>3, <1>4

\* A processor has the task it had, or takes over the one its loop has fetched.
LEMMA ProcGets ==
  ASSUME TypeOK, [Next]_vars, NEW w \in Worker, NEW s \in Slot,
         proc'[w][s].pc # "idle"
  PROVE  \/ proc[w][s].pc # "idle" /\ proc'[w][s].task = proc[w][s].task
         \/ loop[w].pc = "fetch" /\ proc'[w][s].task = loop[w].task
<1> DEFINE Goal ==
      \/ proc[w][s].pc # "idle" /\ proc'[w][s].task = proc[w][s].task
      \/ loop[w].pc = "fetch" /\ proc'[w][s].task = loop[w].task
<1>1. ASSUME proc'[w][s] = proc[w][s] PROVE Goal
  BY <1>1
<1>2. ASSUME NEW x \in Worker, WorkerStep(x) PROVE Goal
  <2>1. CASE LoopStep(x)
    <3>1. CASE \E r \in Slot : Dispatch(x, r)
      <4>1. PICK r \in Slot : Dispatch(x, r)
        BY <3>1
      <4>2. x = w /\ r = s => Goal
        BY <4>1 DEF Dispatch, TypeOK
      <4>3. ~(x = w /\ r = s) => proc'[w][s] = proc[w][s]
        BY <4>1 DEF Dispatch, TypeOK
      <4> QED
        BY <4>2, <4>3
    <3> QED
      BY <1>1, <2>1, <3>1 DEF LoopStep, AcquirePermit, PollEmpty, PopTask,
         FetchNothing, FetchFails
  <2>2. CASE \E r \in Slot : ExecStep(x, r) \/ ProcStep(x, r)
    <3>1. PICK r \in Slot : ExecStep(x, r) \/ ProcStep(x, r)
      BY <2>2
    <3>2. /\ proc[x][r] \in BusyState
          /\ \E q : /\ SetProc(x, r, q)
                    /\ q = IdleProc \/ q.task = proc[x][r].task
      <4>1. proc[x][r] \in BusyState
        BY <3>1, ProcMoves
      <4>2. [proc[x][r] EXCEPT !.pc = "final"].task = proc[x][r].task
        BY <4>1 DEF BusyState
      <4> QED
        BY <3>1, <4>1, <4>2, ProcMoves DEF ProcMove, Reenqueue, Nack, Finish, Call
    <3>3. proc[x][r].pc # "idle" /\ IdleProc.pc = "idle"
      BY <3>2 DEF BusyState, BusyPC, IdleProc
    <3> QED
      BY <3>2, <3>3, SetProcOthers
  <2>3. CASE Start(x) \/ Register(x) \/ MaintenanceStep(x) \/ Heartbeat(x)
               \/ FallSilent(x)
    BY <1>1, <2>3 DEF Start, Register, MaintenanceStep, ReapScan, ReapQueue,
       ReapForget, Promote, Heartbeat, FallSilent, workerVars
  <2>4. CASE Crash(x) \/ Exit(x)
    <3>1. proc' = [proc EXCEPT ![x] = [r \in Slot |-> IdleProc]]
      BY <2>4 DEF Crash, Exit, ProcessEnds
    <3>2. IdleProc.pc = "idle"
      BY DEF IdleProc
    <3> QED
      BY <1>1, <3>1, <3>2 DEF TypeOK
  <2>5. CASE StopCancels(x) \/ RunReturns(x)
    <3>1. PICK f : /\ \A r \in Slot : f[r] \in Interrupted(proc[x][r])
                   /\ proc' = [proc EXCEPT ![x] = f]
      BY <2>5 DEF StopCancels, RunReturns, InterruptAll
    <3>2. x = w => proc'[w][s] \in Interrupted(proc[w][s])
      BY <3>1 DEF TypeOK
    <3>3. x # w => proc'[w][s] = proc[w][s]
      BY <3>1 DEF TypeOK
    <3>4. proc[w][s] \in ProcState
      BY DEF TypeOK
    <3> QED
      BY <3>2, <3>3, <3>4, InterruptedTask
  <2>6. CASE StopBegin(x) \/ StopStep(x)
    BY <1>1, <2>4, <2>5, <2>6 DEF StopBegin, StopStep, StopAllEnded,
       StopTimesOut, StopRequeue, StopDeregister, workerVars
  <2> QED
    BY <1>2, <2>1, <2>2, <2>3, <2>4, <2>6 DEF WorkerStep
<1>3. CASE ClientStep \/ OperatorStep \/ \E t \in Task : TtlRunsOut(t)
  BY <1>1, <1>3 DEF ClientStep, OperatorStep, RetryStep, Submit, CancelRead,
     CancelWrite, DlqList, DlqTake, DlqFetch, DlqStore, DlqEnqueue, Purge,
     TtlRunsOut, workerVars
<1>4. CASE UNCHANGED vars
  BY <1>1, <1>4 DEF vars, workerVars
<1> QED
  BY <1>2, <1>3, <1>4 DEF Next

\* Until the first stop, what a queue holds is its own; what comes back later
\* from a stop() is not, but a worker that stops takes nothing from a queue.
LEMMA OwnStays ==
  ASSUME TypeOK, GroundInv, WorkInv, StopCountInv, OwnInv, [Next]_vars
  PROVE  OwnInv'
<1> SUFFICES ASSUME NEW w \in Worker
             PROVE  /\ used'["stop"] = 0 /\ loop'[w].pc = "fetch" =>
                         OwnTask(w, loop[w].task)'
                    /\ \/ used'["stop"] = 0
                       \/ used'["stop"] = 1 /\ w \in Stopping'
                       => \A s \in Slot : proc'[w][s].pc # "idle" =>
                                            OwnTask(w, proc[w][s].task)'
  BY DEF OwnInv
<1> DEFINE Own(t) == t \in submitted' /\ QueueOf[t] \in Serves(w)
<1>1. /\ used["stop"] \in Nat /\ used'["stop"] \in Nat
      /\ used["stop"] <= used'["stop"]
  BY UsedGrows DEF Disturbance
<1>2. /\ \A t : OwnTask(w, t) => Own(t)
      /\ OwnTask(w, loop[w].task)' <=> Own(loop'[w].task)
      /\ \A s \in Slot : OwnTask(w, proc[w][s].task)' <=> Own(proc'[w][s].task)
  BY SubmittedGrows DEF OwnTask, Serves
<1>3. ASSUME used'["stop"] = 0, loop'[w].pc = "fetch"
      PROVE  Own(loop'[w].task)
  <2>1. used["stop"] = 0
    BY <1>1, <1>3
  <2>2. CASE loop'[w] = loop[w]
    BY <1>2, <1>3, <2>1, <2>2 DEF OwnInv
  <2>3. CASE \E q \in Serves(w) : loop'[w].task \in Task \cap main[q]
    <3>1. PICK t \in Task, q \in Serves(w) : t = loop'[w].task /\ t \in main[q]
      BY <2>3
    <3>2. q \in Queue
      BY SystemAssumption DEF Serves
    <3>3. Home(t) /\ Known(t)
      BY <2>1 DEF GroundInv
    <3>4. QueueOf[t] = q /\ t \in submitted
      BY <3>1, <3>2, <3>3 DEF Home, Known, Nowhere
    <3> QED
      BY <3>1, <3>4, SubmittedGrows
  <2> QED
    BY <1>3, <2>2, <2>3, LoopGets
<1>4. ASSUME \/ used'["stop"] = 0
             \/ used'["stop"] = 1 /\ w \in Stopping',
             NEW s \in Slot, proc'[w][s].pc # "idle"
      PROVE  Own(proc'[w][s].task)
  <2>1. used["stop"] = 0 \/ (used["stop"] = 1 /\ used'["stop"] = 1)
    BY <1>1, <1>4
  <2>2. CASE used["stop"] = 0
    BY <1>2, <1>4, <2>2, ProcGets DEF OwnInv
  <2>3. CASE used["stop"] = 1 /\ used'["stop"] = 1
    <3>1. w \in Stopping
      BY <1>4, <2>3, WhoStops, StopIsCounted
    <3>2. loop[w].pc # "fetch"
      BY <3>1 DEF WorkInv, Stopping
    <3> QED
      BY <1>2, <1>4, <2>3, <3>1, <3>2, ProcGets DEF OwnInv
  <2> QED
    BY <2>1, <2>2, <2>3
<1> QED
  BY <1>2, <1>3, <1>4

-----------------------------------------------------------------------------
(* What a stop() owes. *)

\* While worker w alone stops, and its processors are not interrupted, a task
\* that is spared stays so: the dequeue loop that takes it is not that of w, and
\* a crash of another worker leaves it to a reaper.
LEMMA SparedStays ==
  ASSUME TypeOK, TypeOK', ShapeInv, WorkInv, WorkInv', ReaperInv, HashInv,
         StopCountInv, [Next]_vars, ~Spend("fault"), used["expiry"] = 0,
         used["stop"] = 1, used'["stop"] = 1,
         NEW w \in Worker, stopper[w].pc # "none", stopper'[w].pc # "none",
         ~StopCancels(w), NEW t \in submitted, Spared(w, t)
  PROVE  Spared(w, t)'
<1>1. /\ phase[w] = "stopping" /\ phase'[w] = "stopping"
      /\ \A v \in Worker \ {w} : phase[v] \notin {"stopping", "closing"}
  BY DEF WorkInv, StopCountInv, Stopping
<1>2. t \in Task /\ t \in submitted'
  BY SubmittedGrows DEF TypeOK
<1>3. /\ used'["crash"] = 0 => used["crash"] = 0 /\ ~Spend("crash")
      /\ used'["stall"] = 0 => used["stall"] = 0
  BY UsedGrows, NotSpent DEF Disturbance
<1>4. ~Crash(w) /\ ~RunReturns(w)
  BY DEF Crash, RunReturns, ProcessEnds, IdleStopper, TypeOK
<1>5. CASE \E x \in Worker : Crash(x)
  <2>1. PICK x \in Worker : Crash(x)
    BY <1>5
  <2>2. UNCHANGED <<brokerVars, operator>> /\ Spend("crash")
    BY <2>1 DEF Crash, ProcessEnds, clientVars
  <2>3. Stored(t) => Stored(t)'
    BY <2>2 DEF Stored, Queued, InDLQ, brokerVars
  <2>4. phase[x] \notin {"stopping", "closing"}
    BY <1>1, <1>4, <2>1
  <2>5. \A v \in Worker : used["stall"] = 0 /\ GuardedBy(v, t) => GuardedBy(v, t)'
    BY <1>2, <2>1, <2>4, CrashGuard
  <2> QED
    BY <1>3, <2>2, <2>3, <2>5 DEF Spared, brokerVars
<1>6. CASE \A x \in Worker : ~Crash(x)
  <2>1. NoDrop
    <3>1. ASSUME NEW x \in Worker
          PROVE  /\ phase[x] # "closing" /\ ~StopBegin(x)
                 /\ ~StopCancels(x) /\ ~RunReturns(x)
      <4>1. ~StopBegin(x)
        BY StopIsCounted
      <4>2. phase[x] = "stopping" \/ stopper[x].pc # "none" => x = w
        BY <1>1 DEF WorkInv
      <4> QED
        BY <1>1, <1>4, <4>1, <4>2 DEF StopCancels, RunReturns
    <3> QED
      BY <1>6, <3>1 DEF NoDrop
  <2>2. Keeps(t)
    BY <1>2, <2>1, StepKeeps
  <2>3. loop'[w].task # t
    <3>1. loop'[w] \in LoopState /\ loop'[w].pc \in {"acquire", "cancelled"}
      BY <1>1 DEF WorkInv, TypeOK
    <3> QED
      BY <1>2, <3>1, NullAssumption DEF LoopState
  <2>4. Stored(t) => \/ Stored(t)'
                     \/ /\ t \in active'[QueueOf[t]]
                        /\ \E v \in Worker \ {w} : /\ QueueOf[t] \in Serves(v)
                                                   /\ loop'[v].task = t
    BY <2>2, <2>3 DEF Keeps
  <2>5. used'["crash"] = 0 =>
          Stored(t)' \/ \E v \in Worker \ {w} : WorkerHolds(v, t)'
    <3>1. ASSUME NEW v \in Worker, WorkerHolds(v, t)
          PROVE  WorkerHolds(v, t)' \/ Stored(t)'
      BY <2>2, <3>1 DEF Keeps
    <3>2. Stored(t) =>
            Stored(t)' \/ \E v \in Worker \ {w} : WorkerHolds(v, t)'
      BY <2>4 DEF WorkerHolds
    <3> QED
      BY <1>3, <3>1, <3>2 DEF Spared
  <2>6. used'["stall"] = 0 =>
          \/ Stored(t)'
          \/ /\ t \in active'[QueueOf[t]]
             /\ \E v \in Worker \ {w} : GuardedBy(v, t)'
    <3>1. ASSUME t \in active[QueueOf[t]], NEW v \in Worker, GuardedBy(v, t)
          PROVE  Stored(t)' \/ (t \in active'[QueueOf[t]] /\ GuardedBy(v, t)')
      BY <1>2, <2>2, <3>1, KeepsGuard
    <3>2. Stored(t) => \/ Stored(t)'
                       \/ /\ t \in active'[QueueOf[t]]
                          /\ \E v \in Worker \ {w} : GuardedBy(v, t)'
      BY <2>4 DEF GuardedBy, WorkerHolds, Serves
    <3> QED
      BY <1>3, <3>1, <3>2 DEF Spared
  <2> QED
    BY <2>5, <2>6 DEF Spared
<1> QED
  BY <1>5, <1>6

\* An obligation is kept by requeuing the task from its own queue.
LEMMA RequeueOwes ==
  ASSUME TypeOK, TypeOK', NEW w \in Worker, NEW x \in Task, StopRequeue(w, x),
         ~Spend("fault"), NEW t \in stopper[w].ids, hash[t] # Null,
         Obliged(w, t)
  PROVE  Obliged(w, t)' \/ Stored(t)'
<1> DEFINE r == stopper[w]
<1>1. /\ t \in Task /\ QueueOf[t] \in Queue
      /\ r.qi \in DOMAIN QueuesOf[w] /\ r.qi \in Nat
  BY QueueOfAssumption, FirstQueue DEF TypeOK, StopperState
<1>2. /\ r.pc = "requeue" /\ x \in r.rest
      /\ IF hash[x] = Null THEN UNCHANGED brokerVars
         ELSE RequeueScript(QueuesOf[w][r.qi], x)
      /\ IF r.rest = {x} THEN StopNextQueue(w)
         ELSE StopGoes(w, "requeue", r.ids, r.rest \ {x}, r.qi)
  BY DEF StopRequeue, Call
<1>3. PICK i \in DOMAIN QueuesOf[w] :
        /\ QueuesOf[w][i] = QueueOf[t]
        /\ r.qi < i \/ (r.qi = i /\ t \in r.rest)
  BY <1>2 DEF Obliged
<1>4. i \in Nat /\ i <= Len(QueuesOf[w]) /\ Len(QueuesOf[w]) \in Nat
  BY FirstQueue
<1>5. CASE x = t /\ r.qi = i
  <2>1. RequeueScript(QueueOf[t], t)
    BY <1>2, <1>3, <1>5
  <2>2. Queued(t)'
    BY <1>1, <2>1 DEF RequeueScript, Queued, Add, TypeOK, BrokerTypeOK
  <2> QED
    BY <2>2 DEF Stored
<1>6. CASE ~(x = t /\ r.qi = i)
  <2>1. CASE r.rest = {x}
    <3>1. r.qi < i
      BY <1>2, <1>3, <1>6, <2>1
    <3>2. /\ stopper'[w].pc = "requeue" /\ stopper'[w].qi = r.qi + 1
          /\ stopper'[w].rest = r.ids
      BY <1>1, <1>2, <1>4, <2>1, <3>1 DEF StopNextQueue, StopGoes, TypeOK
    <3>3. r.qi + 1 < i \/ r.qi + 1 = i
      BY <1>1, <1>4, <3>1
    <3> QED
      BY <1>3, <3>2, <3>3 DEF Obliged
  <2>2. CASE r.rest # {x}
    <3>1. /\ stopper'[w].pc = "requeue" /\ stopper'[w].qi = r.qi
          /\ stopper'[w].rest = r.rest \ {x}
      BY <1>2, <2>2 DEF StopGoes, TypeOK
    <3>2. r.qi < i \/ (r.qi = i /\ t \in r.rest \ {x})
      BY <1>3, <1>6
    <3> QED
      BY <1>3, <3>1, <3>2 DEF Obliged
  <2> QED
    BY <2>1, <2>2
<1> QED
  BY <1>5, <1>6

\* From the timeout on, a stop() is obliged to each of its tasks or has spared it.
LEMMA StopStays ==
  ASSUME TypeOK, TypeOK', ShapeInv, WorkInv, WorkInv', ReaperInv, HashInv,
         StopCountInv, OwnInv, StopInv, [Next]_vars
  PROVE  StopInv'
<1> SUFFICES ASSUME NEW w \in Worker, Forced(w)', NEW t \in stopper'[w].ids
             PROVE  OwnTask(w, t)' /\ (Obliged(w, t)' \/ Spared(w, t)')
  BY DEF StopInv
<1> DEFINE r == stopper[w]
<1>1. /\ stopper'[w].pc \in {"cleanup", "requeue", "deregister"}
      /\ used'["stop"] = 1 /\ used["fault"] = 0 /\ used["expiry"] = 0
      /\ ~Spend("fault") /\ used["stop"] \in Nat /\ used["stop"] <= 1
  BY UsedGrows, NotSpent DEF Forced, Disturbance
<1>2. r \in StopperState /\ t \in Task
  BY DEF TypeOK, StopperState
<1>3. OwnTask(w, t) => OwnTask(w, t)'
  BY SubmittedGrows DEF OwnTask, Serves
<1>4. ~StopBegin(w) /\ ~Crash(w) /\ ~RunReturns(w) /\ ~Exit(w)
        /\ ~StopAllEnded(w) /\ ~StopDeregister(w)
  BY <1>1 DEF StopBegin, Crash, RunReturns, Exit, ProcessEnds, StopAllEnded,
     StopDeregister, Call, StopGoes, IdleStopper, TypeOK
<1>5. used["stop"] = 1 \/ r.pc = "none"
  BY <1>1 DEF StopCountInv, Stopping, WorkInv
<1>6. ASSUME Forced(w), t \in r.ids, ~StopCancels(w),
             Obliged(w, t) => Obliged(w, t)' \/ Stored(t)'
      PROVE  OwnTask(w, t)' /\ (Obliged(w, t)' \/ Spared(w, t)')
  <2>1. OwnTask(w, t) /\ (Obliged(w, t) \/ Spared(w, t))
    BY <1>6 DEF StopInv
  <2>2. Spared(w, t) => Spared(w, t)'
    BY <1>1, <1>6, <2>1, SparedStays DEF Forced, OwnTask
  <2>3. Stored(t)' => Spared(w, t)'
    BY DEF Spared
  <2> QED
    BY <1>3, <1>6, <2>1, <2>2, <2>3
<1>7. CASE \E ids \in SUBSET Task : StopTimesOut(w, ids)
  <2>1. PICK ids \in SUBSET Task : StopTimesOut(w, ids)
    BY <1>7
  <2>2. r.pc = "wait" /\ stopper'[w].pc = "cleanup" /\ t \in ids
    BY <2>1 DEF StopTimesOut, StopGoes, TypeOK
  <2>3. PICK s \in Slot : proc[w][s].pc = "exec" /\ proc[w][s].task = t
    BY <2>1, <2>2 DEF StopTimesOut
  <2>4. used["stop"] = 1 /\ w \in Stopping
    BY <1>5, <2>2 DEF WorkInv, Stopping
  <2>5. OwnTask(w, t)
    BY <2>3, <2>4 DEF OwnInv
  <2> QED
    BY <1>3, <2>2, <2>5 DEF Obliged
<1>8. CASE StopCancels(w)
  <2>1. /\ r.pc = "cleanup" /\ t \in r.ids
        /\ stopper'[w].pc = "requeue" /\ stopper'[w].qi = 1
        /\ t \in stopper'[w].rest
    BY <1>8 DEF StopCancels, StopGoes, TypeOK
  <2>2. OwnTask(w, t)
    BY <1>1, <1>5, <2>1 DEF StopInv, Forced
  <2>3. PICK i \in DOMAIN QueuesOf[w] : QueuesOf[w][i] = QueueOf[t]
    BY <2>2 DEF OwnTask, Serves
  <2>4. 1 < i \/ i = 1
    BY <2>3, FirstQueue
  <2> QED
    BY <1>3, <2>1, <2>2, <2>3, <2>4 DEF Obliged
<1>9. CASE \E x \in Task : StopRequeue(w, x)
  <2>1. PICK x \in Task : StopRequeue(w, x)
    BY <1>9
  <2>2. r.pc = "requeue" /\ stopper'[w].ids = r.ids
    BY <2>1 DEF StopRequeue, StopNextQueue, StopGoes, Call, TypeOK
  <2>3. Forced(w)
    BY <1>1, <1>5, <2>2 DEF Forced
  <2>4. hash[t] # Null
    BY <1>1, <2>2, <2>3 DEF StopInv, OwnTask, HashInv
  <2>5. Obliged(w, t) => Obliged(w, t)' \/ Stored(t)'
    BY <1>1, <2>1, <2>2, <2>4, RequeueOwes
  <2> QED
    BY <1>6, <2>2, <2>3, <2>5 DEF StopCancels
<1>10. CASE stopper'[w] = stopper[w] /\ ~StopCancels(w)
  <2>1. Forced(w)
    BY <1>1, <1>5, <1>10 DEF Forced
  <2>2. Obliged(w, t) => Obliged(w, t)'
    BY <1>10 DEF Obliged
  <2> QED
    BY <1>6, <1>10, <2>1, <2>2
<1> QED
  BY <1>4, <1>7, <1>8, <1>9, <1>10, WhoStops DEF StopStep

\* At the start nobody stops.
LEMMA InitStop == Init => StopIInv
BY DEF Init, StopIInv, StopCountInv, OwnInv, StopInv, Forced, Stopping,
   IdleLoop, IdleProc, IdleStopper

-----------------------------------------------------------------------------
(* The theorem. *)

\* The inductive invariant of the stops.
LEMMA StopInvariant ==
  Spec => [](TypeOK /\ PlaceIInv /\ DeliveryInv /\ StopIInv)
<1>1. Init => StopIInv
  BY InitStop
<1>2. ASSUME TypeOK, TypeOK', PlaceIInv, DeliveryInv, StopIInv, [Next]_vars
      PROVE  StopIInv'
  <2>1. ShapeInv /\ GroundInv /\ WorkInv /\ ReaperInv /\ HashInv
    BY <1>2 DEF PlaceIInv, DeliveryInv
  <2>2. StopCountInv /\ OwnInv /\ StopInv
    BY <1>2 DEF StopIInv
  <2>3. WorkInv'
    BY <1>2, <2>1, WorkStays
  <2>4. StopCountInv'
    BY <1>2, <2>2, StopCountStays
  <2>5. OwnInv'
    BY <1>2, <2>1, <2>2, OwnStays
  <2>6. StopInv'
    BY <1>2, <2>1, <2>2, <2>3, StopStays
  <2> QED
    BY <2>4, <2>5, <2>6 DEF StopIInv
<1> QED
  BY <1>1, <1>2, TypeCorrect, DeliveryInvariant, PTL DEF Spec

\* A task that worker w has spared does not depend on w after w has left.
LEMMA SparedLast ==
  ASSUME TypeOK, NEW w \in Worker, StopDeregister(w), NEW t, Spared(w, t),
         used["crash"] = 0 \/ used["stall"] = 0
  PROVE  WithoutWorker(w, t)'
<1>1. /\ UNCHANGED <<main, delayed, active, dlq, acked, discarded, phase, loop,
                     proc, operator>>
      /\ \A v \in workers \ {w} : v \in workers'
  BY DEF StopDeregister, Call, ForgetWorker, brokerVars, workerVars, clientVars
<1>2. Stored(t) => WithoutWorker(w, t)'
  <2>1. ASSUME NEW o \in Operator, operator[o].pc # "listed",
               operator[o].task = t
        PROVE  WithoutWorker(w, t)'
    <3>1. OpHand(o) \in Hands(t)'
      BY <1>1, <2>1, HandsOf
    <3> QED
      BY <3>1 DEF WithoutWorker, OpHand
  <2> QED
    BY <1>1, <2>1 DEF Stored, WithoutWorker, Queued, InDLQ
<1>3. ASSUME NEW v \in Worker \ {w}, WorkerHolds(v, t)
      PROVE  WithoutWorker(w, t)'
  <2>1. \E h \in Hands(t)' : h.worker = v
    <3>1. CASE loop[v].task = t
      <4>1. LoopHand(v) \in Hands(t)'
        BY <1>1, <3>1, HandsOf
      <4> QED
        BY <4>1 DEF LoopHand
    <3>2. CASE \E s \in Slot : InHand(proc[v][s], t)
      <4>1. PICK s \in Slot : InHand(proc[v][s], t)
        BY <3>2
      <4>2. ProcHand(v, s) \in Hands(t)'
        BY <1>1, <4>1, HandsOf
      <4> QED
        BY <4>2 DEF ProcHand
    <3> QED
      BY <1>3, <3>1, <3>2 DEF WorkerHolds
  <2> QED
    BY <2>1 DEF WithoutWorker
<1>4. ASSUME t \in active[QueueOf[t]], NEW v \in Worker \ {w}, GuardedBy(v, t)
      PROVE  WithoutWorker(w, t)'
  <2>1. Abandoned(v, QueueOf[t]) => WillBeReaped(t)'
    BY <1>1, <1>4 DEF Abandoned, GuardedBy, WillBeReaped, Serves
  <2> QED
    BY <1>3, <1>4, <2>1 DEF GuardedBy, WithoutWorker
<1> QED
  BY <1>2, <1>3, <1>4 DEF Spared

(***************************************************************************)
(* stop() requeues force-terminated tasks so they're not lost: whatever    *)
(* number of workers, tasks, queues and processors there is, and whatever  *)
(* the interrupted processors, the other workers, their reapers and the    *)
(* clients do at the same time, when a forced stop has run through, each   *)
(* task whose CLI it terminated is queued, in the DLQ, in other hands, or  *)
(* has ended, under ForcedStopRequeues' provisos.                          *)
(***************************************************************************)
THEOREM ForcedStopsRequeue == Spec => ForcedStopRequeues
<1> DEFINE Requeued ==
      \A w \in Worker :
        /\ stopper[w].pc = "deregister" /\ stopper'[w].pc = "done"
        /\ used["fault"] = 0 /\ used["expiry"] = 0 /\ used["stop"] = 1
        /\ used["crash"] = 0 \/ used["stall"] = 0
        => \A t \in stopper[w].ids : WithoutWorker(w, t)'
<1>1. TypeOK /\ StopIInv /\ [Next]_vars => Requeued
  <2> SUFFICES ASSUME TypeOK, StopIInv, [Next]_vars, NEW w \in Worker,
                      stopper[w].pc = "deregister", stopper'[w].pc = "done",
                      used["fault"] = 0, used["expiry"] = 0, used["stop"] = 1,
                      used["crash"] = 0 \/ used["stall"] = 0,
                      NEW t \in stopper[w].ids
               PROVE  WithoutWorker(w, t)'
    OBVIOUS
  <2>1. Spared(w, t)
    BY DEF StopIInv, StopInv, Forced, Obliged
  <2>2. StopDeregister(w)
    <3>1. StopBegin(w) \/ StopStep(w) \/ Crash(w)
      BY WhoStops
    <3> QED
      BY <3>1 DEF StopBegin, StopStep, StopAllEnded, StopTimesOut, StopCancels,
         StopRequeue, RunReturns, Exit, Crash, ProcessEnds, StopGoes,
         IdleStopper, TypeOK
  <2> QED
    BY <2>1, <2>2, SparedLast
<1>2. TypeOK /\ StopIInv /\ [Next]_vars => [Requeued]_vars
  BY <1>1
<1> QED
  BY <1>2, StopInvariant, PTL DEF Spec, ForcedStopRequeues
=============================================================================
