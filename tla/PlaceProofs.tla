----------------------------- MODULE PlaceProofs -----------------------------
(***************************************************************************)
(* Where a task is: until a worker dies, stalls or is stopped, a task is   *)
(* in one place only (NoDoubleRun), for every value of the constants.      *)
(***************************************************************************)
EXTENDS TaskSystemProofs

-----------------------------------------------------------------------------
(* Frames: a step of one process touches one task. *)

\* Redis keeps of task u what it had.
SameKeys(u) ==
  /\ hash'[u] = hash[u]
  /\ u \in expiring' <=> u \in expiring
  /\ \A q \in Queue : /\ u \in main'[q] <=> u \in main[q]
                      /\ u \in delayed'[q] <=> u \in delayed[q]
                      /\ u \in active'[q] <=> u \in active[q]
                      /\ dlq'[q][u] = dlq[q][u]
  /\ u \in acked' <=> u \in acked
  /\ u \in discarded' <=> u \in discarded

\* The processes that have task u in their memory have it as before.
SameMemory(u) ==
  /\ \A w \in Worker :
       loop[w].task = u \/ loop'[w].task = u => loop'[w] = loop[w]
  /\ \A w \in Worker, s \in Slot :
       proc[w][s].task = u \/ proc'[w][s].task = u =>
         proc'[w][s] = proc[w][s]
  /\ \A o \in Operator :
       operator[o].task = u \/ operator'[o].task = u =>
         operator'[o] = operator[o]

\* The step is not about task u.
Same(u) ==
  SameKeys(u) /\ SameMemory(u) /\ (u \in submitted' <=> u \in submitted)

\* A command on the keys of one task, or none.
CommandOn(t) ==
  \/ UNCHANGED brokerVars
  \/ \E data : UpdateTask(t, data)
  \/ \E data, isDelayed : EnqueueScript(t, data, isDelayed)
  \/ \E q : DequeueScript(q, t)
  \/ AckScript(t)
  \/ NackScript(t)
  \/ DlqRemoveOne(t)
  \/ ExpireHash(t)

\* A step about task t: a command on its keys, and no other task is touched.
Focus(t) == CommandOn(t) /\ \A u \in Task \ {t} : Same(u)

\* Such a command leaves the keys of the other tasks alone.
LEMMA CommandFrame ==
  ASSUME BrokerTypeOK, NEW t \in Task, CommandOn(t)
  PROVE  \A u \in Task \ {t} : SameKeys(u)
<1> USE QueueOfAssumption DEF BrokerTypeOK, SameKeys, Add, Remove, Expire
<1>1. CASE UNCHANGED brokerVars
  BY <1>1 DEF brokerVars
<1>2. CASE \E data : UpdateTask(t, data)
  BY <1>2 DEF UpdateTask
<1>3. CASE \E data, isDelayed : EnqueueScript(t, data, isDelayed)
  BY <1>3 DEF EnqueueScript
<1>4. CASE \E q : DequeueScript(q, t)
  BY <1>4 DEF DequeueScript
<1>5. CASE AckScript(t)
  BY <1>5 DEF AckScript
<1>6. CASE NackScript(t)
  BY <1>6 DEF NackScript
<1>7. CASE DlqRemoveOne(t)
  BY <1>7 DEF DlqRemoveOne
<1>8. CASE ExpireHash(t)
  BY <1>8 DEF ExpireHash
<1> QED
  BY <1>1, <1>2, <1>3, <1>4, <1>5, <1>6, <1>7, <1>8 DEF CommandOn

\* What touches neither the keys, nor a processor, a loop, an operator or the
\* set of submitted tasks, leaves every task as it was.
LEMMA SameAll ==
  ASSUME TypeOK, UNCHANGED <<loop, proc, operator, submitted>>,
         \/ UNCHANGED brokerVars
         \/ \E w \in Worker : RegisterWorker(w) \/ ForgetWorker(w)
  PROVE  \A u \in Task : Same(u)
<1>1. \A u \in Task : SameKeys(u)
  BY DEF SameKeys, brokerVars, RegisterWorker, ForgetWorker
<1> QED
  BY <1>1 DEF Same, SameMemory

\* The memory of one dequeue loop, processor or operator changes, and the task
\* it had or gets is not u.
LEMMA LoopMemory ==
  ASSUME TypeOK, NEW w \in Worker, NEW x, loop' = [loop EXCEPT ![w] = x],
         UNCHANGED <<proc, operator>>
  PROVE  \A u : loop[w].task # u /\ x.task # u => SameMemory(u)
BY DEF SameMemory, TypeOK

\* The memory of one processor changes.
LEMMA ProcMemory ==
  ASSUME TypeOK, NEW w \in Worker, NEW s \in Slot, NEW x, SetProc(w, s, x),
         UNCHANGED <<loop, operator>>
  PROVE  \A u : proc[w][s].task # u /\ x.task # u => SameMemory(u)
BY DEF SameMemory, TypeOK, SetProc

\* The memory of one operator changes.
LEMMA OperatorMemory ==
  ASSUME TypeOK, NEW o \in Operator, NEW x,
         operator' = [operator EXCEPT ![o] = x],
         UNCHANGED <<loop, proc>>
  PROVE  \A u : operator[o].task # u /\ x.task # u => SameMemory(u)
BY DEF SameMemory, TypeOK

-----------------------------------------------------------------------------
(* The steps of _process_task. *)

\* The local copy's status agrees with the await that is under way.
WellFormed(p) ==
  /\ p.pc \in {"failed", "retry"} => p.status = "failed"
  /\ p.pc = "reenqueue" => p.status = "retrying"
  /\ p.pc = "ack" => p.status \in {"done", "cancelled"}
  /\ p.pc \in {"cancelled", "ackCancelled"} => p.status = "cancelled"

\* Before its ack or nack a processor has put no TTL on the hash.
Untouched == {"start", "before", "exec", "ack", "cancelled", "ackCancelled"}

\* A step of a processor that keeps its task: it records its copy, or it may
\* have recorded something, or it acknowledges.
ProcMove(w, s, q) ==
  LET p == proc[w][s] IN
  /\ SetProc(w, s, q) /\ q \in BusyState /\ q.task = p.task
  /\ p.pc \notin {"reenqueue", "final"}
  /\ WellFormed(p) => WellFormed(q)
  /\ q.pc \in Untouched => p.pc \in Untouched
  /\ \/ /\ UpdateTask(p.task, Data(q))
        /\ WellFormed(p) /\ q.pc = "final" => q.status = "failed"
     \/ /\ \/ UNCHANGED brokerVars
           \/ \E data \in TaskData : UpdateTask(p.task, data)
        /\ q.pc \notin {"ack", "ackCancelled"}
        /\ q.pc = "final" => phase[w] = "closing" \/ Spend("fault")
     \/ /\ p.pc \in {"ack", "ackCancelled"} /\ AckScript(p.task)
        /\ \/ q.pc = "final" /\ q.status = p.status
           \/ q.pc = "failed" /\ Spend("fault")

\* Storing a local copy is such a step.
LEMMA StoreCopyMove ==
  ASSUME TypeOK, NEW w \in Worker, NEW s \in Slot, NEW p \in BusyState,
         NEW pcOk \in BusyPC, NEW pErr \in BusyState,
         StoreCopy(w, s, p, pcOk, pErr),
         p.task = proc[w][s].task, pErr.task = p.task,
         proc[w][s].pc \notin {"reenqueue", "final"},
         WellFormed(proc[w][s]) =>
           WellFormed([p EXCEPT !.pc = pcOk]) /\ WellFormed(pErr),
         WellFormed(proc[w][s]) /\ pcOk = "final" => p.status = "failed",
         pcOk \in Untouched \/ pErr.pc \in Untouched =>
           proc[w][s].pc \in Untouched,
         pErr.pc \notin {"ack", "ackCancelled"}
  PROVE  \E q : ProcMove(w, s, q)
<1> DEFINE pOk == [p EXCEPT !.pc = pcOk]
<1>1. /\ pOk \in BusyState /\ pOk.task = p.task /\ pOk.pc = pcOk
      /\ Data(pOk) = Data(p) /\ pOk.status = p.status /\ Data(p) \in TaskData
  BY ProcStates DEF BusyState, Data
<1>2. \/ SetProc(w, s, pOk) /\ UpdateTask(p.task, Data(p))
      \/ /\ SetProc(w, s, pErr)
         /\ UNCHANGED brokerVars \/ UpdateTask(p.task, Data(p))
         /\ phase[w] = "closing" \/ Spend("fault")
  BY DEF StoreCopy, Call
<1>3. WellFormed(proc[w][s]) => WellFormed(pOk)
  OBVIOUS
<1> HIDE DEF pOk
<1>4. CASE SetProc(w, s, pOk) /\ UpdateTask(p.task, Data(p))
  <2>1. ProcMove(w, s, pOk)
    BY <1>1, <1>3, <1>4 DEF ProcMove
  <2> QED
    BY <2>1
<1>5. CASE /\ SetProc(w, s, pErr)
           /\ UNCHANGED brokerVars \/ UpdateTask(p.task, Data(p))
           /\ phase[w] = "closing" \/ Spend("fault")
  <2>1. ProcMove(w, s, pErr)
    BY <1>1, <1>5 DEF ProcMove
  <2> QED
    BY <2>1
<1> QED
  BY <1>2, <1>4, <1>5

\* Every step of a processor but the last ones and the re-enqueue is.
LEMMA ProcMoves ==
  ASSUME TypeOK, NEW w \in Worker, NEW s \in Slot,
         ExecStep(w, s) \/ ProcStep(w, s)
  PROVE  /\ proc[w][s] \in BusyState /\ proc[w][s].task \in Task
         /\ \/ \E q : ProcMove(w, s, q) /\ ProcFrame
            \/ Reenqueue(w, s) \/ Nack(w, s) \/ Finish(w, s)
<1> DEFINE p == proc[w][s]
<1>1. p \in BusyState /\ p.task \in Task
  <2>1. p.pc # "idle"
    BY DEF ExecStep, ProcStep, ExecDone, ExecExitsNonzero, ExecRaises,
       MarkCancelled, RejectProvider, MarkRunning, EnterChain, HookRaises,
       SeeCancel, RecordCancelled, Ack, RecordFailed, StoreRetry, Reenqueue,
       Nack, Finish
  <2> QED
    BY <2>1, BusySlot, ProcStates
<1>2. ASSUME NEW st \in Status, NEW e \in Exception
      PROVE  LET r == [p EXCEPT !.status = st] IN
             /\ r \in BusyState /\ r.task = p.task /\ r.status = st
             /\ r.pc = p.pc
             /\ Raised(r, e) \in BusyState /\ Raised(r, e).task = p.task
             /\ Raised(r, e).pc = "failed" /\ Raised(r, e).status = "failed"
  BY <1>1, ProcStates DEF Raised, BusyState
<1>3. ASSUME NEW e \in Exception
      PROVE  /\ Raised(p, e) \in BusyState /\ Raised(p, e).task = p.task
             /\ Raised(p, e).pc = "failed" /\ Raised(p, e).status = "failed"
  BY <1>1, ProcStates DEF Raised, BusyState
<1>4. ASSUME NEW pc \in BusyPC
      PROVE  LET r == [p EXCEPT !.pc = pc] IN
             /\ r \in BusyState /\ r.task = p.task /\ r.pc = pc
             /\ r.status = p.status
  BY <1>1, ProcStates DEF BusyState
<1>5. SUFFICES \/ \E q : ProcMove(w, s, q) /\ ProcFrame
               \/ Reenqueue(w, s) \/ Nack(w, s) \/ Finish(w, s)
  BY <1>1
<1>6. ASSUME NEW r \in BusyState, NEW pcOk \in BusyPC, NEW pErr \in BusyState,
             StoreCopy(w, s, r, pcOk, pErr), r.task = p.task,
             pErr.task = p.task, p.pc \notin {"reenqueue", "final"},
             pErr.pc \notin {"ack", "ackCancelled"},
             WellFormed(p) =>
               WellFormed([r EXCEPT !.pc = pcOk]) /\ WellFormed(pErr),
             WellFormed(p) /\ pcOk = "final" => r.status = "failed",
             pcOk \in Untouched \/ pErr.pc \in Untouched => p.pc \in Untouched
      PROVE  \E q : ProcMove(w, s, q) /\ ProcFrame
  <2>1. \E q : ProcMove(w, s, q)
    BY <1>6, StoreCopyMove
  <2> QED
    BY <1>6, <2>1 DEF StoreCopy
<1>7. ASSUME NEW st \in Status, NEW pcOk \in BusyPC,
             p.pc \in {"start", "exec"},
             pcOk = "ack" => st \in {"done", "cancelled"},
             pcOk = "final" => st = "failed",
             pcOk \in {"ack", "before", "final"},
             StoreCopy(w, s, [p EXCEPT !.status = st], pcOk,
                       Raised([p EXCEPT !.status = st], "retry"))
      PROVE  \E q : ProcMove(w, s, q) /\ ProcFrame
  <2> DEFINE r == [p EXCEPT !.status = st]
             e == Raised(r, "retry")
  <2>1. /\ r \in BusyState /\ r.task = p.task /\ r.status = st
        /\ e \in BusyState /\ e.task = p.task
        /\ e.pc = "failed" /\ e.status = "failed"
    BY <1>2 DEF Exception
  <2>2. /\ [r EXCEPT !.pc = pcOk].pc = pcOk
        /\ [r EXCEPT !.pc = pcOk].status = st
    BY <2>1 DEF BusyState
  <2>3. StoreCopy(w, s, r, pcOk, e)
    BY <1>7
  <2> HIDE DEF r, e
  <2> QED
    BY <1>6, <1>7, <2>1, <2>2, <2>3 DEF WellFormed, Untouched
<1>8. ASSUME NEW q \in BusyState, SetProc(w, s, q), q.task = p.task,
             p.pc \in {"before", "exec"},
             \/ q.pc = "exec"
             \/ q.pc = "cancelled" /\ q.status = "cancelled"
             \/ q.pc = "failed" /\ q.status = "failed",
             UNCHANGED brokerVars, ProcFrame
      PROVE  \E r : ProcMove(w, s, r) /\ ProcFrame
  BY <1>8 DEF ProcMove, WellFormed, Untouched
<1>9. ASSUME NEW pc \in {"ackCancelled", "retry", "final"},
             \/ p.pc = "cancelled" /\ pc = "ackCancelled"
             \/ p.pc = "failed" /\ pc # "ackCancelled",
             NEW pcErr \in {"retry", "final"}, pc # "ackCancelled" => pcErr = pc,
             pc = "ackCancelled" => pcErr = "final",
             StoreCopy(w, s, p, pc, [p EXCEPT !.pc = pcErr])
      PROVE  \E q : ProcMove(w, s, q) /\ ProcFrame
  <2> DEFINE ok == [p EXCEPT !.pc = pc]
             err == [p EXCEPT !.pc = pcErr]
  <2>1. /\ ok.pc = pc /\ ok.status = p.status
        /\ err \in BusyState /\ err.task = p.task
        /\ err.pc = pcErr /\ err.status = p.status
    BY <1>4, <1>9 DEF BusyPC
  <2>2. StoreCopy(w, s, p, pc, err)
    BY <1>9
  <2>3. /\ WellFormed(p) => WellFormed(ok) /\ WellFormed(err)
        /\ WellFormed(p) /\ pc = "final" => p.status = "failed"
    BY <1>9, <2>1 DEF WellFormed
  <2>4. /\ pc \in Untouched \/ err.pc \in Untouched => p.pc \in Untouched
        /\ pc \in BusyPC
    BY <1>9, <2>1 DEF Untouched, BusyPC
  <2> HIDE DEF err
  <2> QED
    BY <1>1, <1>6, <1>9, <2>1, <2>2, <2>3, <2>4
<1>10. CASE MarkCancelled(w, s)
  <2>1. /\ [p EXCEPT !.status = "cancelled"] = p
        /\ p.pc = "start" /\ StoreCopy(w, s, p, "ack", Raised(p, "retry"))
    BY <1>1, <1>10 DEF MarkCancelled, BusyState
  <2> QED
    BY <1>7, <2>1 DEF BusyPC, Status
<1>11. CASE RejectProvider(w, s)
  BY <1>7, <1>11 DEF RejectProvider, BusyPC, Status
<1>12. CASE MarkRunning(w, s)
  BY <1>7, <1>12 DEF MarkRunning, BusyPC, Status
<1>13. CASE EnterChain(w, s)
  <2> DEFINE q == [p EXCEPT !.pc = "exec", !.armed = RetriesAmong(Len(Chain))]
  <2>1. q \in BusyState /\ q.task = p.task /\ q.pc = "exec"
    BY <1>1 DEF BusyState, BusyPC, RetriesAmong
  <2>2. /\ SetProc(w, s, q) /\ UNCHANGED brokerVars /\ ProcFrame
        /\ p.pc = "before"
    BY <1>13 DEF EnterChain
  <2> HIDE DEF q
  <2> QED
    BY <1>8, <2>1, <2>2
<1>14. CASE \E k \in DOMAIN Chain, e \in {"retry", "noRetry"} :
              HookRaises(w, s, k, e)
  <2>1. PICK k \in DOMAIN Chain, e \in {"retry", "noRetry"} :
               HookRaises(w, s, k, e)
    BY <1>14
  <2> DEFINE r == [p EXCEPT !.armed = RetriesAmong(k - 1)]
             q == Raised(r, e)
  <2>2. r \in BusyState /\ r.task = p.task
    BY <1>1 DEF BusyState, RetriesAmong
  <2>3. /\ q \in BusyState /\ q.task = p.task
        /\ q.pc = "failed" /\ q.status = "failed"
    BY <2>2, ProcStates DEF Raised, BusyState, Exception
  <2>4. /\ SetProc(w, s, q) /\ UNCHANGED brokerVars /\ ProcFrame
        /\ p.pc = "before"
    BY <2>1 DEF HookRaises
  <2> HIDE DEF r, q
  <2> QED
    BY <1>8, <2>3, <2>4
<1>15. CASE ExecDone(w, s)
  BY <1>7, <1>15 DEF ExecDone, BusyPC, Status
<1>16. CASE ExecExitsNonzero(w, s)
  BY <1>7, <1>16 DEF ExecExitsNonzero, BusyPC, Status
<1>17. CASE \E e \in {"retry", "noRetry"} : ExecRaises(w, s, e)
  BY <1>3, <1>8, <1>17 DEF ExecRaises, Exception
<1>18. CASE SeeCancel(w, s)
  <2> DEFINE q == [p EXCEPT !.pc = "cancelled", !.status = "cancelled"]
  <2>1. /\ q \in BusyState /\ q.task = p.task
        /\ q.pc = "cancelled" /\ q.status = "cancelled"
    BY <1>1 DEF BusyState, BusyPC, Status
  <2>2. /\ SetProc(w, s, q) /\ UNCHANGED brokerVars /\ ProcFrame
        /\ p.pc = "exec"
    BY <1>18 DEF SeeCancel
  <2> HIDE DEF q
  <2> QED
    BY <1>8, <2>1, <2>2
<1>19. CASE RecordCancelled(w, s)
  <2>1. /\ StoreCopy(w, s, p, "ackCancelled", [p EXCEPT !.pc = "final"])
        /\ p.pc = "cancelled"
    BY <1>19 DEF RecordCancelled
  <2> QED
    BY <1>9, <2>1
<1>20. CASE Ack(w, s)
  <2> DEFINE final == [p EXCEPT !.pc = "final"]
             raised == Raised(p, "retry")
  <2>1. /\ final \in BusyState /\ final.task = p.task /\ final.pc = "final"
        /\ final.status = p.status
        /\ raised \in BusyState /\ raised.task = p.task
        /\ raised.pc = "failed" /\ raised.status = "failed"
    BY <1>3, <1>4 DEF BusyPC, Exception
  <2>2. /\ p.pc \in {"ack", "ackCancelled"} /\ ProcFrame
        /\ \/ AckScript(p.task) /\ SetProc(w, s, final)
           \/ /\ AckScript(p.task) \/ UNCHANGED brokerVars
              /\ Spend("fault")
              /\ SetProc(w, s, IF p.pc = "ack" THEN raised ELSE final)
    BY <1>20 DEF Ack, Call
  <2> HIDE DEF final, raised
  <2> QED
    BY <2>1, <2>2 DEF ProcMove, WellFormed, Untouched
<1>21. CASE RecordFailed(w, s)
  <2> DEFINE pc == IF WillRetry(p) THEN "retry" ELSE "final"
  <2>1. /\ StoreCopy(w, s, p, pc, [p EXCEPT !.pc = pc])
        /\ p.pc = "failed"
    BY <1>21 DEF RecordFailed
  <2>2. pc \in {"retry", "final"}
    OBVIOUS
  <2> HIDE DEF pc
  <2> QED
    BY <1>9, <2>1, <2>2
<1>22. CASE StoreRetry(w, s)
  <2> DEFINE r == [p EXCEPT !.status = "retrying", !.retries = @ + 1]
  <2>1. /\ StoreCopy(w, s, r, "reenqueue", [r EXCEPT !.pc = "final"])
        /\ p.pc = "retry"
    BY <1>22 DEF StoreRetry
  <2>2. r \in BusyState /\ r.task = p.task /\ r.status = "retrying"
    <3> DEFINE n == p.retries + 1
    <3>1. n \in Nat
      BY <1>1 DEF BusyState
    <3> HIDE DEF n
    <3>2. LET x == [p EXCEPT !.status = "retrying", !.retries = n] IN
          x \in BusyState /\ x.task = p.task /\ x.status = "retrying"
      BY <1>1, <3>1 DEF BusyState, Status
    <3> QED
      BY <3>2 DEF n
  <2> HIDE DEF r
  <2>3. \A pc \in {"reenqueue", "final"} :
          /\ [r EXCEPT !.pc = pc] \in BusyState
          /\ [r EXCEPT !.pc = pc].task = p.task
          /\ [r EXCEPT !.pc = pc].pc = pc
          /\ [r EXCEPT !.pc = pc].status = "retrying"
    BY <2>2 DEF BusyState, BusyPC
  <2> QED
    BY <1>6, <2>1, <2>2, <2>3 DEF WellFormed, Untouched, BusyPC
<1> QED
  BY <1>10, <1>11, <1>12, <1>13, <1>14, <1>15, <1>16, <1>17, <1>18, <1>19,
     <1>20, <1>21, <1>22 DEF ExecStep, ProcStep

-----------------------------------------------------------------------------
(* Which task a step is about. *)

\* A processor touches the task it holds, before and after the step.
LEMMA ProcFrames ==
  ASSUME TypeOK, NEW w \in Worker, NEW s \in Slot,
         ExecStep(w, s) \/ ProcStep(w, s)
  PROVE  Focus(proc[w][s].task) /\ UNCHANGED <<loop, operator, submitted>>
<1> DEFINE p == proc[w][s]
<1>1. p.task \in Task
  BY ProcMoves
<1>2. ASSUME NEW q, SetProc(w, s, q), q.task \in {p.task, Null},
             CommandOn(p.task), UNCHANGED <<loop, operator, submitted>>
      PROVE  Focus(p.task)
  <2>1. \A u \in Task \ {p.task} : q.task # u
    BY <1>2, NullAssumption
  <2> QED
    BY <1>1, <1>2, <2>1, CommandFrame, ProcMemory DEF Focus, Same, TypeOK
<1>3. CASE \E q : ProcMove(w, s, q) /\ ProcFrame
  BY <1>2, <1>3 DEF ProcMove, ProcFrame, CommandOn, clientVars
<1>4. CASE Reenqueue(w, s)
  <2>1. [p EXCEPT !.pc = "final"].task = p.task
    BY ProcMoves DEF BusyState
  <2> QED
    BY <1>2, <1>4, <2>1
       DEF Reenqueue, Call, CommandOn, ProcFrame, clientVars
<1>5. CASE Nack(w, s)
  BY <1>2, <1>5 DEF Nack, Call, CommandOn, IdleProc, clientVars
<1>6. CASE Finish(w, s)
  BY <1>2, <1>6 DEF Finish, CommandOn, IdleProc, clientVars
<1> QED
  BY <1>3, <1>4, <1>5, <1>6, ProcMoves

\* The dequeue loop touches the task it pops, or the one it has popped.
LEMMA LoopFrames ==
  ASSUME TypeOK, NEW w \in Worker, LoopStep(w)
  PROVE  \/ \A u \in Task : Same(u)
         \/ /\ \E t \in Task :
                 /\ PopTask(w, t) /\ Focus(t)
                 /\ DequeueScript(QueuesOf[w][loop[w].qi], t)
            /\ UNCHANGED <<proc, operator, submitted>>
         \/ /\ loop[w].pc = "fetch" /\ loop[w].task \in Task
            /\ Focus(loop[w].task)
            /\ UNCHANGED <<brokerVars, operator, submitted>>
<1>1. /\ loop[w] \in LoopState
      /\ loop[w].pc = "fetch" => loop[w].task \in Task
      /\ loop[w].pc # "fetch" => loop[w].task = Null
  BY DEF TypeOK, LoopState
<1>2. ASSUME NEW x, loop' = [loop EXCEPT ![w] = x], x.task = Null,
             UNCHANGED <<brokerVars, proc, operator, submitted>>
      PROVE  \A u \in Task \ {loop[w].task} : Same(u)
  <2>1. \A u \in Task : x.task # u
    BY <1>2, NullAssumption
  <2>2. \A u \in Task : SameKeys(u)
    BY <1>2 DEF brokerVars, SameKeys
  <2> QED
    BY <1>2, <2>1, <2>2, LoopMemory DEF Same
<1>3. Null \notin Task
  BY NullAssumption
<1>4. CASE AcquirePermit(w) \/ PollEmpty(w)
  BY <1>1, <1>2, <1>3, <1>4
     DEF AcquirePermit, PollEmpty, SetLoop, LoopAgain, reapVars, clientVars
<1>5. CASE \E t \in Task : PopTask(w, t)
  <2>1. PICK t \in Task : PopTask(w, t)
    BY <1>5
  <2>2. CommandOn(t) /\ loop[w].task = Null
    BY <1>1, <2>1 DEF PopTask, Call, CommandOn
  <2>3. /\ \/ SetLoop(w, "fetch", loop[w].qi, t)
           \/ SetLoop(w, "acquire", 1, Null)
        /\ UNCHANGED <<proc, operator>>
    BY <2>1 DEF PopTask, Call, LoopAgain, clientVars
  <2>4. \A u \in Task \ {t} : SameMemory(u)
    BY <1>3, <2>2, <2>3, LoopMemory DEF SetLoop
  <2>5. Focus(t) /\ UNCHANGED submitted
    BY <2>1, <2>2, <2>4, CommandFrame
       DEF Focus, Same, TypeOK, PopTask, clientVars
  <2>6. CASE DequeueScript(QueuesOf[w][loop[w].qi], t)
    BY <2>1, <2>3, <2>5, <2>6
  <2>7. CASE UNCHANGED brokerVars
    <3>1. CASE SetLoop(w, "acquire", 1, Null)
      BY <1>2, <1>3, <2>2, <2>3, <2>5, <2>7, <3>1 DEF SetLoop
    <3>2. CASE ~SetLoop(w, "acquire", 1, Null)
      BY <2>1, <2>5, <2>3, <3>2 DEF PopTask, Call, LoopAgain
    <3> QED
      BY <3>1, <3>2
  <2> QED
    BY <2>1, <2>6, <2>7 DEF PopTask, Call
<1>6. CASE FetchNothing(w) \/ FetchFails(w)
  BY <1>1, <1>2, <1>6 DEF FetchNothing, FetchFails, SetLoop, LoopAgain,
     Focus, CommandOn, clientVars
<1>7. CASE \E s \in Slot : Dispatch(w, s)
  <2>1. PICK s \in Slot : Dispatch(w, s)
    BY <1>7
  <2> DEFINE t == loop[w].task
             p == [IdleProc EXCEPT !.pc = "start", !.task = t,
                                   !.status = hash[t].status,
                                   !.retries = hash[t].retries]
  <2>2. p.task = t
    BY DEF IdleProc
  <2>3. SetProc(w, s, p) /\ proc[w][s].pc = "idle"
    BY <2>1 DEF Dispatch, SetProc
  <2>4. proc[w][s].task = Null
    <3>1. proc[w][s] \in ProcState
      BY DEF TypeOK
    <3> QED
      BY <2>3, <3>1 DEF ProcState, BusyState, BusyPC, IdleProc
  <2>5. loop' = [loop EXCEPT ![w] = [pc |-> "acquire", qi |-> 1,
                                     task |-> Null]]
    BY <2>1 DEF Dispatch, SetLoop
  <2> HIDE DEF p
  <2>6. \A u \in Task \ {t} : SameMemory(u)
    BY <1>3, <2>1, <2>2, <2>3, <2>4, <2>5
       DEF SameMemory, SetProc, TypeOK, Dispatch, clientVars
  <2>7. \A u \in Task : SameKeys(u)
    BY <2>1 DEF Dispatch, brokerVars, SameKeys
  <2> QED
    BY <1>1, <2>1, <2>6, <2>7 DEF Focus, CommandOn, Same, Dispatch, clientVars
<1> QED
  BY <1>4, <1>5, <1>6, <1>7 DEF LoopStep

\* An operator touches the task of its retry.
LEMMA OperatorFrames ==
  ASSUME TypeOK, NEW o \in Operator
  PROVE  /\ RetryStep(o) => /\ operator[o].task \in Task
                            /\ Focus(operator[o].task)
                            /\ UNCHANGED <<loop, proc, submitted>>
         /\ \A t \in Task :
              DlqList(o, t) => /\ Focus(t)
                               /\ UNCHANGED <<loop, proc, submitted, brokerVars>>
<1> DEFINE t == operator[o].task
<1>1. operator[o] = IdleCopy \/ t \in Task
  BY DEF TypeOK, CopyState
<1>2. ASSUME NEW a \in Task, NEW x, operator' = [operator EXCEPT ![o] = x],
             x.task \in {a, Null}, t \in {a, Null}, CommandOn(a),
             UNCHANGED <<loop, proc, submitted>>
      PROVE  Focus(a)
  <2>1. \A u \in Task \ {a} : x.task # u /\ t # u
    BY <1>2, NullAssumption
  <2> QED
    BY <1>2, <2>1, CommandFrame, OperatorMemory DEF Focus, Same, TypeOK
<1>3. ASSUME RetryStep(o)
      PROVE  t \in Task /\ Focus(t) /\ UNCHANGED <<loop, proc, submitted>>
  <2>1. t \in Task
    <3>1. operator[o].pc # "idle"
      BY <1>3 DEF RetryStep, DlqTake, DlqFetch, DlqStore, DlqEnqueue
    <3> QED
      BY <1>1, <3>1 DEF IdleCopy
  <2>2. \E x : operator' = [operator EXCEPT ![o] = x] /\ x.task \in {t, Null}
    BY <1>3
       DEF RetryStep, DlqTake, DlqFetch, DlqStore, DlqEnqueue, IdleCopy, Call,
           SetOperator, OperatorStops
  <2>3. CommandOn(t)
    BY <1>3 DEF RetryStep, DlqTake, DlqFetch, DlqStore, DlqEnqueue, Call,
       CommandOn
  <2>4. UNCHANGED <<loop, proc, submitted>>
    BY <1>3 DEF RetryStep, DlqTake, DlqFetch, DlqStore, DlqEnqueue, workerVars
  <2> QED
    BY <1>2, <2>1, <2>2, <2>3, <2>4
<1>4. ASSUME NEW a \in Task, DlqList(o, a)
      PROVE  Focus(a) /\ UNCHANGED <<loop, proc, submitted, brokerVars>>
  <2>1. t = Null
    BY <1>4 DEF DlqList, TypeOK, CopyState, OperatorPC, IdleCopy
  <2> QED
    BY <1>2, <1>4, <2>1 DEF DlqList, SetOperator, CommandOn, workerVars
<1> QED
  BY <1>3, <1>4

\* A client touches the task it submits or cancels, a TTL the one it is of.
LEMMA ClientFrames ==
  ASSUME TypeOK
  PROVE  /\ \A t \in Task, isDelayed \in BOOLEAN :
              Submit(t, isDelayed) => Focus(t)
         /\ \A c \in Client, t \in Task :
              CancelRead(c, t) => \A u \in Task : Same(u)
         /\ \A c \in Client : CancelWrite(c) =>
              /\ canceller[c].task \in Task
              /\ Focus(canceller[c].task)
         /\ \A t \in Task : TtlRunsOut(t) => Focus(t)
<1>1. ASSUME NEW t \in Task, CommandOn(t), UNCHANGED <<loop, proc, operator>>,
             submitted' \ {t} = submitted \ {t}
      PROVE  Focus(t)
  BY <1>1, CommandFrame DEF Focus, Same, SameMemory, TypeOK
<1>2. \A t \in Task, isDelayed \in BOOLEAN : Submit(t, isDelayed) => Focus(t)
  BY <1>1 DEF Submit, CommandOn, workerVars
<1>3. \A c \in Client, t \in Task : CancelRead(c, t) => \A u \in Task : Same(u)
  BY SameAll DEF CancelRead, workerVars
<1>4. ASSUME NEW c \in Client, CancelWrite(c)
      PROVE  /\ canceller[c].task \in Task
             /\ Focus(canceller[c].task)
  <2>1. canceller[c].task \in Task
    BY <1>4 DEF CancelWrite, TypeOK, CopyState, IdleCopy
  <2> QED
    BY <1>1, <1>4, <2>1 DEF CancelWrite, CommandOn, workerVars
<1>5. \A t \in Task : TtlRunsOut(t) => Focus(t)
  BY <1>1 DEF TtlRunsOut, CommandOn, workerVars, clientVars
<1> QED
  BY <1>2, <1>3, <1>4, <1>5

\* The steps that touch no task at all.
QuietStep ==
  \/ \E w \in Worker :
       \/ Start(w) \/ Register(w) \/ Heartbeat(w) \/ FallSilent(w)
       \/ ReapScan(w) \/ ReapForget(w)
  \/ UNCHANGED vars

\* They leave every task as it was.
LEMMA QuietFrames ==
  ASSUME TypeOK, QuietStep
  PROVE  \A u \in Task : Same(u)
<1>1. ASSUME NEW w \in Worker, ReapForget(w)
      PROVE  reaper[w].victim \in Worker
  BY <1>1 DEF ReapForget, TypeOK, ReaperState
<1> QED
  BY <1>1, SameAll DEF QuietStep, Start, Register, Heartbeat, FallSilent,
     ReapScan, ReapForget, Call, vars, workerVars, clientVars

-----------------------------------------------------------------------------
(* Until a worker is stopped: worker processes run or are dead, an id is in *)
(* the keys of its own queue, and an id nobody submitted is nowhere.        *)

\* Nobody is in stop(), and only a worker that is up has work.
Calm ==
  \A w \in Worker :
    /\ phase[w] \in {"off", "boot", "up", "dead"}
    /\ stopper[w].pc = "none"
    /\ phase[w] # "up" => /\ loop[w].pc = "acquire"
                          /\ \A s \in Slot : proc[w][s].pc = "idle"

\* Task t is only in the keys of its own queue.
Home(t) ==
  \A q \in Queue :
    t \in main[q] \cup delayed[q] \cup active[q] \/ dlq[q][t] > 0 =>
      q = QueueOf[t]

\* No key and no process knows t.
Nowhere(t) ==
  /\ \A q \in Queue : /\ t \notin main[q] \cup delayed[q] \cup active[q]
                      /\ dlq[q][t] = 0
  /\ t \notin acked \cup discarded
  /\ \A w \in Worker : loop[w].task # t
  /\ \A w \in Worker, s \in Slot : proc[w][s].task # t
  /\ \A o \in Operator : operator[o].task # t

\* What has not been submitted is nowhere.
Known(t) == t \in submitted \/ Nowhere(t)

\* Until a stop, all that is so.
GroundInv ==
  used["stop"] = 0 => Calm /\ \A t \in Task : Home(t) /\ Known(t)

\* A step spends one disturbance at most.
LEMMA UsedSpent ==
  ASSUME [Next]_vars
  PROVE  UNCHANGED used \/ \E d \in Disturbance : Spend(d)
<1>1. ASSUME NEW w \in Worker, WorkerStep(w)
      PROVE  UNCHANGED used \/ \E d \in Disturbance : Spend(d)
  <2>1. CASE Start(w) \/ Register(w) \/ LoopStep(w)
    BY <2>1 DEF Start, Register, LoopStep, AcquirePermit, PollEmpty, PopTask,
       FetchNothing, FetchFails, Dispatch, Call, Disturbance
  <2>2. CASE \E s \in Slot : ExecStep(w, s)
    BY <2>2 DEF ExecStep, ExecDone, ExecExitsNonzero, ExecRaises, StoreCopy,
       Call, Disturbance
  <2>3. CASE \E s \in Slot : ProcStep(w, s)
    BY <2>3 DEF ProcStep, MarkCancelled, RejectProvider, MarkRunning,
       EnterChain, HookRaises, SeeCancel, RecordCancelled, Ack, RecordFailed,
       StoreRetry, Reenqueue, Nack, Finish, StoreCopy, Call, Disturbance
  <2>4. CASE \/ MaintenanceStep(w) \/ Heartbeat(w) \/ FallSilent(w)
             \/ Crash(w)
    BY <2>4 DEF MaintenanceStep, ReapScan, ReapQueue, ReapForget, Promote,
       Heartbeat, FallSilent, Crash, Call, Disturbance
  <2>5. CASE StopBegin(w) \/ StopStep(w)
    BY <2>5 DEF StopBegin, StopStep, StopAllEnded, StopTimesOut, StopCancels,
       StopRequeue, StopDeregister, RunReturns, Exit, Call, Disturbance
  <2> QED
    BY <1>1, <2>1, <2>2, <2>3, <2>4, <2>5 DEF WorkerStep
<1>2. CASE ClientStep \/ OperatorStep \/ \E t \in Task : TtlRunsOut(t)
  BY <1>2 DEF ClientStep, OperatorStep, RetryStep, Submit, CancelRead,
     CancelWrite, DlqList, DlqTake, DlqFetch, DlqStore, DlqEnqueue, Purge,
     TtlRunsOut, Call, Disturbance
<1>3. CASE UNCHANGED vars
  BY <1>3 DEF vars
<1> QED
  BY <1>1, <1>2, <1>3 DEF Next

\* Disturbances are counted, and never forgotten.
LEMMA UsedGrows ==
  ASSUME TypeOK, [Next]_vars, NEW k \in Disturbance
  PROVE  used[k] \in Nat /\ used'[k] \in Nat /\ used[k] <= used'[k]
<1>1. used \in [Disturbance -> Nat]
  BY DEF TypeOK
<1>2. UNCHANGED used \/ \E d \in Disturbance : Spend(d)
  BY UsedSpent
<1>3. ASSUME NEW d \in Disturbance, Spend(d)
      PROVE  used'[k] \in Nat /\ used[k] <= used'[k]
  <2>1. /\ used'[k] = IF k = d THEN used[d] + 1 ELSE used[k]
        /\ used[k] \in Nat /\ used[d] \in Nat
    BY <1>1, <1>3 DEF Spend
  <2> QED
    BY <2>1
<1> QED
  BY <1>1, <1>2, <1>3

\* A disturbance that has not happened by the end of a step was not spent.
LEMMA NotSpent ==
  ASSUME TypeOK, NEW k \in Disturbance, used'[k] = 0
  PROVE  ~Spend(k)
BY DEF Spend, TypeOK

\* A command on one task moves it among the keys of its own queue.
LEMMA CommandHome ==
  ASSUME BrokerTypeOK, NEW t \in Task, CommandOn(t), Home(t)
  PROVE  Home(t)'
<1> USE QueueOfAssumption DEF BrokerTypeOK, Home, Add, Remove
<1>1. CASE UNCHANGED brokerVars
  BY <1>1 DEF brokerVars
<1>2. CASE \E data : UpdateTask(t, data)
  BY <1>2 DEF UpdateTask
<1>3. CASE \E data, isDelayed : EnqueueScript(t, data, isDelayed)
  BY <1>3 DEF EnqueueScript
<1>4. CASE \E q : DequeueScript(q, t)
  BY <1>4 DEF DequeueScript
<1>5. CASE AckScript(t)
  BY <1>5 DEF AckScript
<1>6. CASE NackScript(t)
  BY <1>6 DEF NackScript
<1>7. CASE DlqRemoveOne(t)
  BY <1>7 DEF DlqRemoveOne
<1>8. CASE ExpireHash(t)
  BY <1>8 DEF ExpireHash
<1> QED
  BY <1>1, <1>2, <1>3, <1>4, <1>5, <1>6, <1>7, <1>8 DEF CommandOn

\* A step that is not about t keeps it at home and known.
LEMMA SameGround ==
  ASSUME NEW t \in Task, Same(t), Home(t), Known(t)
  PROVE  Home(t)' /\ Known(t)'
BY DEF Same, SameKeys, SameMemory, Home, Known, Nowhere

\* The scripts on a whole queue keep each id in the keys of that queue.
LEMMA BulkHome ==
  ASSUME BrokerTypeOK, NEW t \in Task, Home(t), NEW q \in Queue,
         \/ \E due \in SUBSET Task : PromoteScript(q, due)
         \/ ReapScript(q)
         \/ PurgeDlq(q)
         \/ UNCHANGED brokerVars,
         UNCHANGED <<loop, proc, operator, submitted>>
  PROVE  Home(t)' /\ (Known(t) => Known(t)')
<1> USE DEF BrokerTypeOK, Home, Known, Nowhere, Add, Remove
<1>1. CASE UNCHANGED brokerVars
  BY <1>1 DEF brokerVars
<1>2. CASE \E due \in SUBSET Task : PromoteScript(q, due)
  BY <1>2 DEF PromoteScript
<1>3. CASE ReapScript(q)
  BY <1>3 DEF ReapScript
<1>4. CASE PurgeDlq(q)
  BY <1>4 DEF PurgeDlq
<1> QED
  BY <1>1, <1>2, <1>3, <1>4

\* A worker that dies forgets what it held, and Redis keeps what it has.
LEMMA CrashGround ==
  ASSUME TypeOK, NEW w \in Worker, Crash(w), NEW t \in Task, Home(t), Known(t)
  PROVE  Home(t)' /\ Known(t)'
<1>1. UNCHANGED <<brokerVars, operator, submitted>>
  BY DEF Crash, ProcessEnds, clientVars
<1>2. \A v \in Worker :
        /\ loop'[v] = IdleLoop \/ loop'[v] = loop[v]
        /\ \A s \in Slot :
             proc'[v][s] = IdleProc \/ proc'[v][s] = proc[v][s]
  BY DEF Crash, ProcessEnds, TypeOK
<1>3. Home(t)'
  BY <1>1 DEF brokerVars, Home
<1>4. Nowhere(t) => Nowhere(t)'
  <2>1. IdleLoop.task # t /\ IdleProc.task # t
    BY NullAssumption DEF IdleLoop, IdleProc
  <2>2. ASSUME Nowhere(t)
        PROVE  /\ \A v \in Worker : loop'[v].task # t
               /\ \A v \in Worker, s \in Slot : proc'[v][s].task # t
    BY <1>2, <2>1, <2>2 DEF Nowhere
  <2> QED
    BY <1>1, <2>2 DEF Nowhere, brokerVars
<1> QED
  BY <1>1, <1>3, <1>4 DEF Known

\* Nobody is in stop(), and the worker processes go their way to "dead".
LEMMA CalmStep ==
  ASSUME TypeOK, Calm, [Next]_vars, used'["stop"] = 0
  PROVE  Calm' /\ \A w \in Worker : ~StopBegin(w) /\ ~StopStep(w)
<1>1. ASSUME NEW w \in Worker
      PROVE  ~StopBegin(w) /\ ~StopStep(w)
  <2>1. ~StopBegin(w)
    BY NotSpent DEF StopBegin, Disturbance
  <2>2. stopper[w].pc = "none" /\ phase[w] \notin {"stopping", "closing"}
    BY DEF Calm
  <2>3. ~StopStep(w)
    BY <2>2 DEF StopStep, StopAllEnded, StopTimesOut, StopCancels, StopRequeue,
       StopDeregister, RunReturns, Exit
  <2> QED
    BY <2>1, <2>3
<1> SUFFICES Calm'
  BY <1>1
<1>2. ASSUME UNCHANGED <<phase, loop, proc, stopper>>
      PROVE  Calm'
  BY <1>2 DEF Calm
<1>3. ASSUME NEW w \in Worker, WorkerStep(w)
      PROVE  Calm'
  <2>1. CASE LoopStep(w)
    <3>1. phase[w] = "up" /\ UNCHANGED <<phase, stopper>>
      BY <2>1 DEF Calm, LoopStep, AcquirePermit, PollEmpty, PopTask,
         FetchNothing, FetchFails, Dispatch, reapVars
    <3>2. \A v \in Worker \ {w} : UNCHANGED <<loop[v], proc[v]>>
      BY <2>1 DEF LoopStep, AcquirePermit, PollEmpty, PopTask, Call,
         FetchNothing, FetchFails, Dispatch, SetLoop, LoopAgain, TypeOK
    <3> QED
      BY <3>1, <3>2 DEF Calm
  <2>2. CASE \E s \in Slot : ExecStep(w, s) \/ ProcStep(w, s)
    <3>1. PICK s \in Slot : ExecStep(w, s) \/ ProcStep(w, s)
      BY <2>2
    <3>2. phase[w] = "up"
      BY <3>1, ProcMoves DEF Calm, BusyState, BusyPC
    <3>3. UNCHANGED <<phase, stopper, loop>>
      BY <3>1, ProcMoves, ProcFrames
         DEF ProcFrame, Reenqueue, Nack, Finish, reapVars
    <3>4. \E q : SetProc(w, s, q)
      BY <3>1, ProcMoves DEF ProcMove, Reenqueue, Nack, Finish, Call
    <3>5. \A v \in Worker \ {w} : UNCHANGED proc[v]
      BY <3>4 DEF SetProc, TypeOK
    <3> QED
      BY <3>2, <3>3, <3>5 DEF Calm
  <2>3. CASE Start(w) \/ Register(w)
    BY <2>3 DEF Calm, Start, Register, Call, reapVars, TypeOK
  <2>4. CASE MaintenanceStep(w) \/ Heartbeat(w) \/ FallSilent(w)
    BY <1>2, <2>4 DEF MaintenanceStep, ReapScan, ReapQueue, ReapForget, Promote,
       Heartbeat, FallSilent, workerVars, reapVars
  <2>5. CASE Crash(w)
    BY <2>5
       DEF Calm, Crash, ProcessEnds, IdleLoop, IdleProc, IdleStopper, TypeOK
  <2> QED
    BY <1>1, <1>3, <2>1, <2>2, <2>3, <2>4, <2>5 DEF WorkerStep
<1>4. CASE ClientStep \/ OperatorStep \/ \E t \in Task : TtlRunsOut(t)
  BY <1>2, <1>4 DEF ClientStep, OperatorStep, RetryStep, Submit, CancelRead,
     CancelWrite, DlqList, DlqTake, DlqFetch, DlqStore, DlqEnqueue, Purge,
     TtlRunsOut, workerVars, reapVars
<1>5. CASE UNCHANGED vars
  BY <1>2, <1>5 DEF vars, workerVars, reapVars
<1> QED
  BY <1>1, <1>3, <1>4, <1>5 DEF Next

\* A step about a known task keeps every task at home and known.
LEMMA FocusGround ==
  ASSUME TypeOK, NEW a \in Task, Focus(a), Known(a)',
         \A t \in Task : Home(t) /\ Known(t)
  PROVE  \A t \in Task : Home(t)' /\ Known(t)'
<1>1. Home(a)' /\ Known(a)'
  BY CommandHome DEF Focus, TypeOK
<1>2. \A t \in Task \ {a} : Home(t)' /\ Known(t)'
  BY SameGround DEF Focus
<1> QED
  BY <1>1, <1>2

\* Every step keeps GroundInv.
LEMMA GroundStep == TypeOK /\ GroundInv /\ [Next]_vars => GroundInv'
<1> SUFFICES ASSUME TypeOK, GroundInv, [Next]_vars, used'["stop"] = 0
             PROVE  Calm' /\ \A t \in Task : Home(t)' /\ Known(t)'
  BY DEF GroundInv
<1>1. used["stop"] = 0
  BY UsedGrows DEF Disturbance
<1>2. Calm /\ \A t \in Task : Home(t) /\ Known(t)
  BY <1>1 DEF GroundInv
<1>3. Calm' /\ \A w \in Worker : ~StopBegin(w) /\ ~StopStep(w)
  BY <1>2, CalmStep
<1> SUFFICES \A t \in Task : Home(t)' /\ Known(t)'
  BY <1>3
<1>4. ASSUME \A t \in Task : Same(t)
      PROVE  \A t \in Task : Home(t)' /\ Known(t)'
  BY <1>2, <1>4, SameGround
<1>5. ASSUME NEW a \in Task, Focus(a), ~Nowhere(a), UNCHANGED submitted
      PROVE  \A t \in Task : Home(t)' /\ Known(t)'
  BY <1>2, <1>5, FocusGround DEF Known
<1>6. ASSUME NEW w \in Worker, WorkerStep(w)
      PROVE  \A t \in Task : Home(t)' /\ Known(t)'
  <2>1. CASE LoopStep(w)
    <3>1. ASSUME NEW t \in Task, Focus(t), UNCHANGED submitted,
                 DequeueScript(QueuesOf[w][loop[w].qi], t)
          PROVE  \A u \in Task : Home(u)' /\ Known(u)'
      <4>1. QueuesOf[w][loop[w].qi] \in Queue
        BY FirstQueue, SystemAssumption DEF TypeOK
      <4> QED
        BY <1>5, <3>1, <4>1 DEF Nowhere, DequeueScript
    <3>2. CASE /\ loop[w].pc = "fetch" /\ loop[w].task \in Task
               /\ Focus(loop[w].task) /\ UNCHANGED submitted
      BY <1>5, <3>2 DEF Nowhere
    <3> QED
      BY <1>4, <2>1, <3>1, <3>2, LoopFrames
  <2>2. CASE \E s \in Slot : ExecStep(w, s) \/ ProcStep(w, s)
    <3>1. PICK s \in Slot : ExecStep(w, s) \/ ProcStep(w, s)
      BY <2>2
    <3> QED
      BY <1>5, <3>1, ProcMoves, ProcFrames DEF Nowhere
  <2>3. CASE QuietStep
    BY <1>4, <2>3, QuietFrames
  <2>4. CASE \E v \in Worker : ReapQueue(w, v)
    <3>1. PICK v \in Worker : ReapQueue(w, v)
      BY <2>4
    <3>2. QueuesOf[v][reaper[w].qi] \in Queue
      BY <3>1, FirstQueue, SystemAssumption DEF ReapQueue, TypeOK, ReaperState
    <3> QED
      BY <1>2, <3>1, <3>2, BulkHome
         DEF TypeOK, ReapQueue, Call, workerVars, clientVars
  <2>5. CASE \E i \in DOMAIN QueuesOf[w], due \in SUBSET Task :
               Promote(w, i, due)
    <3>1. PICK i \in DOMAIN QueuesOf[w], due \in SUBSET Task :
                 Promote(w, i, due)
      BY <2>5
    <3>2. QueuesOf[w][i] \in Queue
      BY SystemAssumption
    <3> QED
      BY <1>2, <3>1, <3>2, BulkHome
         DEF TypeOK, Promote, Call, workerVars, clientVars
  <2>6. CASE Crash(w)
    BY <1>2, <2>6, CrashGround
  <2> QED
    BY <1>3, <1>6, <2>1, <2>2, <2>3, <2>4, <2>5, <2>6
       DEF WorkerStep, MaintenanceStep, QuietStep
<1>7. CASE ClientStep
  <2>1. ASSUME NEW t \in Task, NEW isDelayed \in BOOLEAN, Submit(t, isDelayed)
        PROVE  \A u \in Task : Home(u)' /\ Known(u)'
    BY <1>2, <2>1, ClientFrames, FocusGround DEF Submit, Known
  <2>2. ASSUME NEW c \in Client, CancelWrite(c)
        PROVE  \A u \in Task : Home(u)' /\ Known(u)'
    <3>1. canceller[c].task \in Task /\ Focus(canceller[c].task)
      BY <2>2, ClientFrames
    <3>2. \A u \in Task : Known(u)'
      BY <1>2, <2>2
         DEF CancelWrite, UpdateTask, workerVars, Known, Nowhere
    <3> QED
      BY <1>2, <3>1, <3>2, FocusGround
  <2> QED
    BY <1>4, <1>7, <2>1, <2>2, ClientFrames DEF ClientStep
<1>8. CASE OperatorStep
  <2>1. ASSUME NEW o \in Operator, NEW t \in Task, DlqList(o, t)
        PROVE  \A u \in Task : Home(u)' /\ Known(u)'
    <3>1. ~Nowhere(t)
      BY <2>1, QueueOfAssumption DEF DlqList, InDLQ, Nowhere
    <3> QED
      BY <1>5, <2>1, <3>1, OperatorFrames
  <2>2. ASSUME NEW o \in Operator, RetryStep(o)
        PROVE  \A u \in Task : Home(u)' /\ Known(u)'
    BY <1>5, <2>2, OperatorFrames DEF Nowhere
  <2>3. ASSUME NEW q \in Queue, Purge(q)
        PROVE  \A u \in Task : Home(u)' /\ Known(u)'
    BY <1>2, <2>3, BulkHome DEF TypeOK, Purge, workerVars, clientVars
  <2> QED
    BY <1>8, <2>1, <2>2, <2>3 DEF OperatorStep
<1>9. ASSUME NEW t \in Task, TtlRunsOut(t)
      PROVE  \A u \in Task : Home(u)' /\ Known(u)'
  <2>1. Focus(t)
    BY <1>9, ClientFrames
  <2>2. Known(t)'
    BY <1>2, <1>9
       DEF TtlRunsOut, ExpireHash, workerVars, clientVars, Known, Nowhere
  <2> QED
    BY <1>2, <2>1, <2>2, FocusGround
<1>10. CASE UNCHANGED vars
  BY <1>4, <1>10, QuietFrames DEF QuietStep
<1> QED
  BY <1>6, <1>7, <1>8, <1>9, <1>10 DEF Next

-----------------------------------------------------------------------------
(* Until a worker dies, stalls or is stopped, nobody is taken for dead. *)

\* No worker looks dead, and no reaper is at work.
Quiet == silent = {} /\ \A w \in Worker : reaper[w] = IdleReaper

\* A process that is over stays so.
LEMMA DeadStays ==
  ASSUME TypeOK, [Next]_vars, NEW v \in Worker, phase[v] = "dead"
  PROVE  phase'[v] = "dead"
<1>1. UNCHANGED phase \/ \E w \in Worker :
        \/ phase[w] # "dead" /\ \E x : phase' = [phase EXCEPT ![w] = x]
        \/ phase' = [phase EXCEPT ![w] = "dead"]
  <2>1. ASSUME NEW w \in Worker, WorkerStep(w)
        PROVE  \/ UNCHANGED phase
               \/ phase[w] # "dead" /\ \E x : phase' = [phase EXCEPT ![w] = x]
               \/ phase' = [phase EXCEPT ![w] = "dead"]
    <3>1. CASE Start(w) \/ Register(w) \/ StopBegin(w) \/ Crash(w)
      BY <3>1 DEF Start, Register, StopBegin, Crash, ProcessEnds, Call
    <3>2. CASE StopStep(w)
      BY <3>2 DEF StopStep, StopAllEnded, StopTimesOut, StopCancels,
         StopRequeue, StopDeregister, RunReturns, Exit, ProcessEnds,
         workerVars
    <3>3. CASE LoopStep(w)
      BY <3>3 DEF LoopStep, AcquirePermit, PollEmpty, PopTask, FetchNothing,
         FetchFails, Dispatch
    <3>4. CASE \E s \in Slot : ExecStep(w, s) \/ ProcStep(w, s)
      BY <3>4, ProcMoves DEF ProcFrame, Reenqueue, Nack, Finish
    <3>5. CASE MaintenanceStep(w) \/ Heartbeat(w) \/ FallSilent(w)
      BY <3>5 DEF MaintenanceStep, ReapScan, ReapQueue, ReapForget, Promote,
         Heartbeat, FallSilent, workerVars
    <3> QED
      BY <2>1, <3>1, <3>2, <3>3, <3>4, <3>5 DEF WorkerStep
  <2>2. CASE ClientStep \/ OperatorStep \/ \E t \in Task : TtlRunsOut(t)
    BY <2>2 DEF ClientStep, OperatorStep, RetryStep, Submit, CancelRead,
       CancelWrite, DlqList, DlqTake, DlqFetch, DlqStore, DlqEnqueue, Purge,
       TtlRunsOut, workerVars
  <2>3. CASE UNCHANGED vars
    BY <2>3 DEF vars, workerVars
  <2> QED
    BY <2>1, <2>2, <2>3 DEF Next
<1> QED
  BY <1>1 DEF TypeOK

\* A system that is undisturbed after a step was so before it.
LEMMA Undisturbing ==
  ASSUME TypeOK, [Next]_vars, Undisturbed'
  PROVE  Undisturbed
<1>1. used["stall"] = 0 /\ used["stop"] = 0
  BY UsedGrows DEF Undisturbed, Disturbance
<1> QED
  BY <1>1, DeadStays DEF Undisturbed

\* So it is until the first disturbance.
QuietInv == Undisturbed => Quiet

\* Every step keeps QuietInv.
LEMMA QuietStays == TypeOK /\ GroundInv /\ QuietInv /\ [Next]_vars => QuietInv'
<1> SUFFICES ASSUME TypeOK, GroundInv, QuietInv, [Next]_vars, Undisturbed'
             PROVE  Quiet'
  BY DEF QuietInv
<1>1. Undisturbed /\ Calm /\ Quiet
  BY Undisturbing DEF Undisturbed, GroundInv, QuietInv
<1>2. \A w \in Worker : ~StopBegin(w) /\ ~StopStep(w)
  BY <1>1, CalmStep DEF Undisturbed
<1>3. ASSUME UNCHANGED <<silent, reaper>> PROVE Quiet'
  BY <1>1, <1>3 DEF Quiet
<1>4. ASSUME NEW w \in Worker, WorkerStep(w)
      PROVE  Quiet'
  <2>1. ~Crash(w) /\ ~FallSilent(w)
    <3>1. ~Crash(w)
      BY DEF Crash, ProcessEnds, Undisturbed, TypeOK
    <3>2. ~Spend("stall")
      BY NotSpent DEF Undisturbed, Disturbance
    <3> QED
      BY <1>1, <3>1, <3>2 DEF FallSilent, Calm, Undisturbed
  <2>2. ~MaintenanceStep(w) \/ UNCHANGED <<silent, reaper>>
    <3>1. /\ reaper[w].todo = {} /\ reaper[w].victim = Null
          /\ workers \cap silent = {}
      BY <1>1 DEF Quiet, IdleReaper
    <3> QED
      BY <3>1 DEF MaintenanceStep, ReapScan, ReapQueue, ReapForget, Promote,
         reapVars
  <2>3. CASE Start(w)
    <3>1. reaper' = [reaper EXCEPT ![w].todo = {}] /\ UNCHANGED silent
      BY <1>1, <2>3 DEF Start, Quiet
    <3>2. reaper' = [reaper EXCEPT ![w] = [reaper[w] EXCEPT !.todo = {}]]
      BY <3>1
    <3>3. [reaper[w] EXCEPT !.todo = {}] = IdleReaper
      BY <1>1 DEF Quiet, IdleReaper
    <3> QED
      BY <1>1, <3>1, <3>2, <3>3 DEF Quiet, TypeOK
  <2>4. CASE Heartbeat(w)
    BY <1>1, <2>4 DEF Heartbeat, Quiet
  <2>5. CASE Register(w) \/ LoopStep(w)
    BY <1>3, <2>5 DEF Register, LoopStep, AcquirePermit, PollEmpty, PopTask,
       FetchNothing, FetchFails, Dispatch, reapVars
  <2>6. CASE \E s \in Slot : ExecStep(w, s) \/ ProcStep(w, s)
    BY <1>3, <2>6, ProcMoves DEF ProcFrame, Reenqueue, Nack, Finish, reapVars
  <2> QED
    BY <1>2, <1>3, <1>4, <2>1, <2>2, <2>3, <2>4, <2>5, <2>6 DEF WorkerStep
<1>5. CASE ClientStep \/ OperatorStep \/ \E t \in Task : TtlRunsOut(t)
  BY <1>3, <1>5 DEF ClientStep, OperatorStep, RetryStep, Submit, CancelRead,
     CancelWrite, DlqList, DlqTake, DlqFetch, DlqStore, DlqEnqueue, Purge,
     TtlRunsOut, reapVars
<1>6. CASE UNCHANGED vars
  BY <1>3, <1>6 DEF vars, reapVars
<1> QED
  BY <1>4, <1>5, <1>6 DEF Next

-----------------------------------------------------------------------------
(* The hands. *)

\* The hands, as TaskSystem names them.
ProcHand(w, s) == [kind |-> "proc", worker |-> w, slot |-> s]
LoopHand(w) == [kind |-> "loop", worker |-> w]
OpHand(o) == [kind |-> "operator", op |-> o]

\* Hands of different processes differ.
LEMMA HandsDiffer ==
  /\ \A w, v, s, r : ProcHand(w, s) = ProcHand(v, r) <=> w = v /\ s = r
  /\ \A w, v : LoopHand(w) = LoopHand(v) <=> w = v
  /\ \A o, p : OpHand(o) = OpHand(p) <=> o = p
  /\ \A w, v, s, o : /\ ProcHand(w, s) # LoopHand(v)
                     /\ ProcHand(w, s) # OpHand(o)
                     /\ LoopHand(v) # OpHand(o)
BY DEF ProcHand, LoopHand, OpHand

\* Who holds a task.
LEMMA HandsOf ==
  ASSUME NEW t, NEW h
  PROVE  /\ h \in Hands(t) <=>
              \/ \E w \in Worker, s \in Slot :
                   h = ProcHand(w, s) /\ InHand(proc[w][s], t)
              \/ \E w \in Worker : h = LoopHand(w) /\ loop[w].task = t
              \/ \E o \in Operator :
                   /\ h = OpHand(o)
                   /\ operator[o].pc # "listed" /\ operator[o].task = t
         /\ h \in Hands(t)' <=>
              \/ \E w \in Worker, s \in Slot :
                   h = ProcHand(w, s) /\ InHand(proc'[w][s], t)
              \/ \E w \in Worker : h = LoopHand(w) /\ loop'[w].task = t
              \/ \E o \in Operator :
                   /\ h = OpHand(o)
                   /\ operator'[o].pc # "listed" /\ operator'[o].task = t
<1>1. h \in Hand <=> \/ \E w \in Worker, s \in Slot : h = ProcHand(w, s)
                     \/ \E w \in Worker : h = LoopHand(w)
                     \/ \E o \in Operator : h = OpHand(o)
  BY DEF Hand, ProcHand, LoopHand, OpHand
<1>2. \A w \in Worker, s \in Slot :
        /\ Holds(ProcHand(w, s), t) <=> InHand(proc[w][s], t)
        /\ Holds(ProcHand(w, s), t)' <=> InHand(proc'[w][s], t)
  BY DEF Holds, InHand, ProcHand
<1>3. \A w \in Worker :
        /\ Holds(LoopHand(w), t) <=> loop[w].task = t
        /\ Holds(LoopHand(w), t)' <=> loop'[w].task = t
  BY DEF Holds, LoopHand
<1>4. \A o \in Operator :
        /\ Holds(OpHand(o), t) <=>
             operator[o].pc # "listed" /\ operator[o].task = t
        /\ Holds(OpHand(o), t)' <=>
             operator'[o].pc # "listed" /\ operator'[o].task = t
  BY DEF Holds, OpHand
<1>5. h \in Hands(t) <=> h \in Hand /\ Holds(h, t)
  BY DEF Hands
<1>6. h \in Hands(t)' <=> h \in Hand /\ Holds(h, t)'
  BY DEF Hands, Hand
<1>7. ASSUME h \in Hand
      PROVE  /\ Holds(h, t) <=>
                  \/ \E w \in Worker, s \in Slot :
                       h = ProcHand(w, s) /\ InHand(proc[w][s], t)
                  \/ \E w \in Worker : h = LoopHand(w) /\ loop[w].task = t
                  \/ \E o \in Operator :
                       /\ h = OpHand(o)
                       /\ operator[o].pc # "listed" /\ operator[o].task = t
             /\ Holds(h, t)' <=>
                  \/ \E w \in Worker, s \in Slot :
                       h = ProcHand(w, s) /\ InHand(proc'[w][s], t)
                  \/ \E w \in Worker : h = LoopHand(w) /\ loop'[w].task = t
                  \/ \E o \in Operator :
                       /\ h = OpHand(o)
                       /\ operator'[o].pc # "listed" /\ operator'[o].task = t
  <2>1. CASE \E w \in Worker, s \in Slot : h = ProcHand(w, s)
    BY <1>2, <2>1, HandsDiffer
  <2>2. CASE \E w \in Worker : h = LoopHand(w)
    BY <1>3, <2>2, HandsDiffer
  <2>3. CASE \E o \in Operator : h = OpHand(o)
    BY <1>4, <2>3, HandsDiffer
  <2> QED
    BY <1>1, <1>7, <2>1, <2>2, <2>3
<1> QED
  BY <1>1, <1>5, <1>6, <1>7, Zenon

-----------------------------------------------------------------------------
(* One place. *)

\* An operator has t on the listing of the DLQ, and has not begun with it.
Listed(t) ==
  \E o \in Operator : operator[o].pc = "listed" /\ operator[o].task = t

\* OnePlace, and an operator who has listed the DLQ holds what is still there
\* or nowhere else.
Place(t) ==
  /\ OnePlace(t)
  /\ Listed(t) => Hands(t) = {} /\ ~Queued(t)

\* Nothing new happens to the keys, to the whole place, of task t.
KeysShrink(t) ==
  /\ Queued(t)' => Queued(t)
  /\ t \in (main[QueueOf[t]] \cap delayed[QueueOf[t]])' =>
       t \in main[QueueOf[t]] \cap delayed[QueueOf[t]]
  /\ dlq'[QueueOf[t]][t] <= dlq[QueueOf[t]][t]

\* No new place, holder or listing of t.
Shrinks(t) ==
  KeysShrink(t) /\ Hands(t)' \subseteq Hands(t) /\ (Listed(t)' => Listed(t))

\* A task that only loses places stays in one place.
LEMMA PlaceShrinks ==
  ASSUME TypeOK, TypeOK', NEW t \in Task, Place(t), Shrinks(t)
  PROVE  Place(t)'
<1> DEFINE q == QueueOf[t]
<1>1. /\ dlq[q][t] \in Nat /\ dlq'[q][t] \in Nat
  BY QueueOfAssumption DEF TypeOK, BrokerTypeOK
<1>2. /\ InDLQ(t) <=> dlq[q][t] > 0
      /\ InDLQ(t)' <=> dlq'[q][t] > 0
  BY DEF InDLQ
<1>3. dlq'[q][t] <= dlq[q][t]
  BY DEF Shrinks, KeysShrink
<1>4. InDLQ(t)' => InDLQ(t) /\ (dlq[q][t] = 1 => dlq'[q][t] = 1)
  BY <1>1, <1>2, <1>3
<1> QED
  BY <1>4 DEF Place, OnePlace, Shrinks, KeysShrink

\* A step that is not about t gives it no new place.
LEMMA SameShrinks ==
  ASSUME TypeOK, NEW t \in Task, Same(t)
  PROVE  Shrinks(t)
<1>1. KeysShrink(t)
  BY QueueOfAssumption
     DEF Same, SameKeys, KeysShrink, Queued, TypeOK, BrokerTypeOK
<1>2. Hands(t)' \subseteq Hands(t)
  BY HandsOf DEF Same, SameMemory, InHand
<1>3. Listed(t)' => Listed(t)
  BY DEF Same, SameMemory, Listed
<1> QED
  BY <1>1, <1>2, <1>3 DEF Shrinks

\* The commands that put no id anywhere.
LEMMA CommandShrinks ==
  ASSUME BrokerTypeOK, NEW t \in Task, NEW u \in Task,
         \/ UNCHANGED brokerVars
         \/ \E data : UpdateTask(u, data)
         \/ AckScript(u) \/ DlqRemoveOne(u) \/ ExpireHash(u)
         \/ \E q \in Queue : PurgeDlq(q)
  PROVE  KeysShrink(t)
<1> USE QueueOfAssumption DEF BrokerTypeOK, KeysShrink, Queued, Remove
<1>1. CASE UNCHANGED brokerVars
  BY <1>1 DEF brokerVars
<1>2. CASE \E data : UpdateTask(u, data)
  BY <1>2 DEF UpdateTask
<1>3. CASE AckScript(u)
  BY <1>3 DEF AckScript
<1>4. CASE DlqRemoveOne(u)
  BY <1>4 DEF DlqRemoveOne
<1>5. CASE ExpireHash(u)
  BY <1>5 DEF ExpireHash
<1>6. CASE \E q \in Queue : PurgeDlq(q)
  BY <1>6 DEF PurgeDlq
<1> QED
  BY <1>1, <1>2, <1>3, <1>4, <1>5, <1>6

\* Three places to arrive at.
LEMMA Arrives ==
  ASSUME NEW t \in Task, ~Listed(t)',
         t \notin (main[QueueOf[t]] \cap delayed[QueueOf[t]])',
         \/ Hands(t)' = {} /\ ~InDLQ(t)'
         \/ /\ ~Queued(t)' /\ ~InDLQ(t)'
            /\ \E h : Hands(t)' \subseteq {h}
         \/ /\ Hands(t)' = {} /\ ~Queued(t)'
            /\ dlq'[QueueOf[t]][t] = 1
  PROVE  Place(t)'
BY DEF Place, OnePlace

\* A processor's step changes what its own hand holds.
LEMMA ProcHands ==
  ASSUME TypeOK, NEW w \in Worker, NEW s \in Slot, NEW q, SetProc(w, s, q),
         UNCHANGED <<loop, operator>>, NEW t
  PROVE  /\ Hands(t)' \subseteq Hands(t) \cup {ProcHand(w, s)}
         /\ ~InHand(q, t) => Hands(t)' = Hands(t) \ {ProcHand(w, s)}
         /\ InHand(proc[w][s], t) => ProcHand(w, s) \in Hands(t)
         /\ Listed(t)' <=> Listed(t)
<1>1. /\ proc'[w][s] = q
      /\ \A v \in Worker, r \in Slot :
           ~(v = w /\ r = s) => proc'[v][r] = proc[v][r]
  BY DEF SetProc, TypeOK
<1>2. ASSUME NEW h, h # ProcHand(w, s)
      PROVE  h \in Hands(t)' <=> h \in Hands(t)
  BY <1>1, <1>2, HandsOf
<1>3. ~InHand(q, t) => ProcHand(w, s) \notin Hands(t)'
  BY <1>1, HandsOf, HandsDiffer
<1>4. InHand(proc[w][s], t) => ProcHand(w, s) \in Hands(t)
  BY HandsOf
<1>5. Listed(t)' <=> Listed(t)
  BY DEF Listed
<1> QED
  BY <1>2, <1>3, <1>4, <1>5

\* The steps of a processor: it keeps its task, or puts it in the delayed set
\* or the DLQ as it lets go.
LEMMA ProcPlace ==
  ASSUME TypeOK, TypeOK', NEW w \in Worker, NEW s \in Slot,
         ExecStep(w, s) \/ ProcStep(w, s),
         WellFormed(proc[w][s]), NEW t, t = proc[w][s].task, Place(t)
  PROVE  Place(t)'
<1> DEFINE p == proc[w][s]
           h == ProcHand(w, s)
<1>1. /\ p \in BusyState /\ t \in Task
      /\ UNCHANGED <<loop, operator>> /\ BrokerTypeOK
  BY ProcMoves, ProcFrames DEF TypeOK
<1>2. ASSUME InHand(p, t)
      PROVE  /\ Hands(t) = {h}
             /\ ~Queued(t) /\ ~InDLQ(t) /\ ~Listed(t)
  <2>1. h \in Hands(t)
    BY <1>1, <1>2, HandsOf
  <2> QED
    BY <2>1 DEF Place, OnePlace
<1>3. ASSUME NEW q, SetProc(w, s, q), KeysShrink(t),
             InHand(q, t) => InHand(p, t)
      PROVE  Place(t)'
  <2>1. Hands(t)' \subseteq Hands(t) /\ (Listed(t)' => Listed(t))
    BY <1>1, <1>3, ProcHands
  <2> QED
    BY <1>1, <1>3, <2>1, PlaceShrinks DEF Shrinks
<1>4. CASE \E q : ProcMove(w, s, q)
  <2>1. PICK q : ProcMove(w, s, q)
    BY <1>4
  <2>2. InHand(p, t)
    BY <2>1 DEF ProcMove, InHand
  <2>3. KeysShrink(t)
    BY <1>1, <2>1, CommandShrinks DEF ProcMove
  <2> QED
    BY <1>3, <2>1, <2>2, <2>3 DEF ProcMove
<1>5. CASE Reenqueue(w, s)
  <2> DEFINE q == [p EXCEPT !.pc = "final"]
  <2>1. ~InHand(q, t)
    BY <1>1, <1>5 DEF Reenqueue, WellFormed, InHand, BusyState
  <2>2. SetProc(w, s, q)
    BY <1>5 DEF Reenqueue, Call
  <2>3. InHand(p, t)
    BY <1>5 DEF Reenqueue, InHand
  <2> HIDE DEF q
  <2>4. CASE UNCHANGED brokerVars
    BY <1>1, <1>3, <2>1, <2>2, <2>4, CommandShrinks
  <2>5. CASE EnqueueScript(t, Data(p), TRUE)
    <3>1. Hands(t)' = {} /\ ~Listed(t)'
      BY <1>1, <1>2, <2>1, <2>2, <2>3, ProcHands
    <3>2. ~InDLQ(t)'
      BY <1>2, <2>3, <2>5 DEF EnqueueScript, InDLQ
    <3>3. t \notin (main[QueueOf[t]] \cap delayed[QueueOf[t]])'
      BY <1>2, <2>3, <2>5 DEF EnqueueScript, Queued
    <3> QED
      BY <1>1, <3>1, <3>2, <3>3, Arrives
  <2> QED
    BY <1>5, <2>4, <2>5 DEF Reenqueue, Call
<1>6. CASE Nack(w, s)
  <2>1. ~InHand(IdleProc, t)
    BY <1>1, NullAssumption DEF IdleProc, InHand
  <2>2. SetProc(w, s, IdleProc)
    BY <1>6 DEF Nack
  <2>3. InHand(p, t)
    BY <1>6 DEF Nack, InHand
  <2>4. CASE UNCHANGED brokerVars
    BY <1>1, <1>3, <2>1, <2>2, <2>4, CommandShrinks
  <2>5. CASE NackScript(t)
    <3>1. Hands(t)' = {} /\ ~Listed(t)'
      BY <1>1, <1>2, <2>1, <2>2, <2>3, ProcHands
    <3>2. dlq[QueueOf[t]][t] = 0
      BY <1>1, <1>2, <2>3, QueueOfAssumption DEF InDLQ, BrokerTypeOK
    <3>3. dlq'[QueueOf[t]][t] = 1
      BY <1>1, <2>5, <3>2, QueueOfAssumption DEF NackScript, BrokerTypeOK
    <3>4. ~Queued(t)'
      BY <1>2, <2>3, <2>5 DEF NackScript, Queued
    <3> QED
      BY <1>1, <3>1, <3>3, <3>4, Arrives DEF Queued
  <2> QED
    BY <1>6, <2>4, <2>5 DEF Nack, Call
<1>7. CASE Finish(w, s)
  BY <1>1, <1>3, <1>7, NullAssumption, CommandShrinks
     DEF Finish, IdleProc, InHand
<1> QED
  BY <1>4, <1>5, <1>6, <1>7, ProcMoves

\* A dequeue loop's step changes what its own hand holds.
LEMMA LoopHands ==
  ASSUME TypeOK, NEW w \in Worker, NEW pc, NEW qi, NEW x, SetLoop(w, pc, qi, x),
         UNCHANGED <<proc, operator>>, NEW t
  PROVE  /\ Hands(t)' \subseteq Hands(t) \cup {LoopHand(w)}
         /\ x # t => Hands(t)' = Hands(t) \ {LoopHand(w)}
         /\ Listed(t)' <=> Listed(t)
<1>1. /\ loop'[w].task = x
      /\ \A v \in Worker : v # w => loop'[v] = loop[v]
  BY DEF SetLoop, TypeOK
<1>2. ASSUME NEW h, h # LoopHand(w)
      PROVE  h \in Hands(t)' <=> h \in Hands(t)
  BY <1>1, <1>2, HandsOf
<1>3. x # t => LoopHand(w) \notin Hands(t)'
  BY <1>1, HandsOf, HandsDiffer
<1>4. Listed(t)' <=> Listed(t)
  BY DEF Listed
<1> QED
  BY <1>2, <1>3, <1>4

\* The pop takes the task out of the queue into the loop's hand, and the
\* dispatch passes it to a processor.
LEMMA LoopPlace ==
  ASSUME TypeOK, TypeOK', NEW w \in Worker, LoopStep(w),
         \A t \in Task : Home(t) /\ Place(t)
  PROVE  \A t \in Task : Place(t)'
<1>1. ASSUME NEW a \in Task, Focus(a), Place(a)'
      PROVE  \A t \in Task : Place(t)'
  BY <1>1, SameShrinks, PlaceShrinks DEF Focus
<1>2. Null \notin Task
  BY NullAssumption
<1>3. CASE \A t \in Task : Same(t)
  BY <1>3, SameShrinks, PlaceShrinks
<1>4. ASSUME NEW t \in Task, PopTask(w, t), Focus(t),
             DequeueScript(QueuesOf[w][loop[w].qi], t),
             UNCHANGED <<proc, operator>>
      PROVE  \A u \in Task : Place(u)'
  <2> DEFINE q == QueuesOf[w][loop[w].qi]
  <2>1. q \in Queue
    BY FirstQueue, SystemAssumption DEF TypeOK
  <2>2. q = QueueOf[t] /\ t \in main[q]
    BY <1>4, <2>1 DEF Home, DequeueScript
  <2>3. /\ Hands(t) = {} /\ ~InDLQ(t) /\ ~Listed(t)
        /\ t \notin delayed[q]
    BY <2>2 DEF Place, OnePlace, Queued
  <2>4. ~Queued(t)' /\ ~InDLQ(t)'
    BY <1>4, <2>2, <2>3, QueueOfAssumption
       DEF DequeueScript, Remove, Queued, InDLQ, TypeOK, BrokerTypeOK
  <2>5. \/ SetLoop(w, "fetch", loop[w].qi, t)
        \/ SetLoop(w, "acquire", 1, Null)
    BY <1>4 DEF PopTask, Call, LoopAgain
  <2>6. Hands(t)' \subseteq {LoopHand(w)} /\ ~Listed(t)'
    BY <1>4, <2>3, <2>5, LoopHands
  <2>7. Place(t)'
    BY <2>4, <2>6, Arrives DEF Queued
  <2> QED
    BY <1>1, <1>4, <2>7
<1>5. ASSUME NEW t \in Task, t = loop[w].task, loop[w].pc = "fetch", Focus(t),
             UNCHANGED <<brokerVars, operator>>
      PROVE  \A u \in Task : Place(u)'
  <2>1. Hands(t) = {LoopHand(w)} /\ ~Queued(t) /\ ~InDLQ(t) /\ ~Listed(t)
    <3>1. LoopHand(w) \in Hands(t)
      BY <1>5, HandsOf
    <3> QED
      BY <3>1 DEF Place, OnePlace
  <2>2. ~Queued(t)' /\ ~InDLQ(t)' /\ ~Listed(t)'
    BY <1>5, <2>1 DEF brokerVars, Queued, InDLQ, Listed
  <2>3. CASE FetchNothing(w) \/ FetchFails(w)
    <3>1. Hands(t)' \subseteq {}
      BY <1>2, <2>1, <2>3, LoopHands
         DEF FetchNothing, FetchFails, LoopAgain, clientVars
    <3>2. Place(t)'
      BY <2>2, <3>1, Arrives DEF Queued
    <3> QED
      BY <1>1, <1>5, <3>2
  <2>4. CASE \E s \in Slot : Dispatch(w, s)
    <3>1. PICK s \in Slot : Dispatch(w, s)
      BY <2>4
    <3>2. /\ loop'[w].task = Null
          /\ \A v \in Worker : v # w => loop'[v] = loop[v]
      BY <3>1 DEF Dispatch, SetLoop, TypeOK
    <3>3. \A v \in Worker, r \in Slot :
            ~(v = w /\ r = s) => proc'[v][r] = proc[v][r]
      BY <3>1 DEF Dispatch, TypeOK
    <3>4. Hands(t)' \subseteq {ProcHand(w, s)}
      <4> SUFFICES ASSUME NEW h \in Hands(t)', h # ProcHand(w, s)
                   PROVE  FALSE
        OBVIOUS
      <4>1. h \in Hands(t) /\ h # LoopHand(w)
        BY <1>2, <1>5, <3>2, <3>3, HandsOf, HandsDiffer
      <4> QED
        BY <2>1, <4>1
    <3>5. Place(t)'
      BY <2>2, <3>4, Arrives DEF Queued
    <3> QED
      BY <1>1, <1>5, <3>5
  <2> QED
    BY <1>5, <2>3, <2>4
       DEF LoopStep, AcquirePermit, PollEmpty, PopTask
<1> QED
  BY <1>3, <1>4, <1>5, LoopFrames

\* An operator's step changes what its own hand holds.
LEMMA OperatorHands ==
  ASSUME TypeOK, NEW o \in Operator, NEW pc, NEW x, NEW n,
         SetOperator(o, pc, x, n), UNCHANGED <<proc, loop>>, NEW t
  PROVE  /\ Hands(t)' \subseteq Hands(t) \cup {OpHand(o)}
         /\ x # t \/ pc = "listed" => Hands(t)' = Hands(t) \ {OpHand(o)}
         /\ Listed(t)' => Listed(t) \/ pc = "listed"
<1>1. /\ operator'[o].task = x /\ operator'[o].pc = pc
      /\ \A v \in Operator : v # o => operator'[v] = operator[v]
  BY DEF SetOperator, TypeOK
<1>2. ASSUME NEW h, h # OpHand(o)
      PROVE  h \in Hands(t)' <=> h \in Hands(t)
  BY <1>1, <1>2, HandsOf
<1>3. x # t \/ pc = "listed" => OpHand(o) \notin Hands(t)'
  BY <1>1, HandsOf, HandsDiffer
<1>4. Listed(t)' => Listed(t) \/ pc = "listed"
  BY <1>1 DEF Listed
<1> QED
  BY <1>2, <1>3, <1>4

\* One operator lists the DLQ, takes the task out of it and enqueues it.
LEMMA OperatorPlace ==
  ASSUME TypeOK, TypeOK', OneOperator, OperatorStep,
         \A t \in Task : Home(t) /\ Place(t)
  PROVE  \A t \in Task : Place(t)'
<1>1. ASSUME NEW a \in Task, Focus(a), Place(a)'
      PROVE  \A t \in Task : Place(t)'
  BY <1>1, SameShrinks, PlaceShrinks DEF Focus
<1>2. /\ Null \notin Task
      /\ \A o \in Operator : OperatorStops(o) => SetOperator(o, "idle", Null, 0)
  BY NullAssumption DEF IdleCopy, OperatorStops, SetOperator
<1>3. ASSUME NEW o \in Operator, NEW t \in Task, DlqList(o, t)
      PROVE  \A u \in Task : Place(u)'
  <2>1. Focus(t) /\ UNCHANGED <<loop, proc, brokerVars>>
    BY <1>3, OperatorFrames
  <2>2. Hands(t) = {} /\ ~Queued(t) /\ InDLQ(t)
    BY <1>3 DEF DlqList, Place, OnePlace
  <2>3. SetOperator(o, "listed", t, 0)
    BY <1>3 DEF DlqList
  <2>4. Hands(t)' = {}
    BY <2>1, <2>2, <2>3, OperatorHands
  <2>5. /\ Queued(t)' <=> Queued(t)
        /\ InDLQ(t)' <=> InDLQ(t)
        /\ UNCHANGED <<main, delayed, dlq>>
    BY <2>1 DEF brokerVars, Queued, InDLQ
  <2>6. Place(t)'
    BY <2>2, <2>4, <2>5 DEF Place, OnePlace
  <2> QED
    BY <1>1, <2>1, <2>6
<1>4. ASSUME NEW o \in Operator, RetryStep(o)
      PROVE  \A u \in Task : Place(u)'
  <2> DEFINE t == operator[o].task
  <2>0. PICK a \in Task : a = t /\ Focus(a) /\ UNCHANGED <<loop, proc>>
    BY <1>4, OperatorFrames
  <2> HIDE DEF t
  <2>1. ASSUME NEW pc, NEW x, NEW n, SetOperator(o, pc, x, n), KeysShrink(a),
               x = Null \/ OpHand(o) \in Hands(a), pc # "listed"
        PROVE  Place(a)'
    <3>1. Hands(a)' \subseteq Hands(a) /\ (Listed(a)' => Listed(a))
      BY <1>2, <2>0, <2>1, OperatorHands
    <3> QED
      BY <2>0, <2>1, <3>1, PlaceShrinks DEF Shrinks
  <2>2. ASSUME OperatorStops(o), KeysShrink(a)
        PROVE  Place(a)'
    BY <1>2, <2>1, <2>2
  <2>3. ASSUME operator[o].pc # "listed"
        PROVE  /\ Hands(a) = {OpHand(o)}
               /\ ~Queued(a) /\ ~InDLQ(a) /\ ~Listed(a)
    <3>1. OpHand(o) \in Hands(a)
      BY <2>0, <2>3, HandsOf DEF t
    <3> QED
      BY <2>0, <3>1 DEF Place, OnePlace
  <2> SUFFICES Place(a)'
    BY <1>1, <2>0
  <2>4. CASE DlqTake(o)
    <3>1. CASE OperatorStops(o)
      BY <2>0, <2>2, <2>4, <3>1, CommandShrinks DEF DlqTake, Call, t, TypeOK
    <3>2. CASE SetOperator(o, "taken", a, 0) /\ DlqRemoveOne(a)
      <4>1. Listed(a)
        BY <2>0, <2>4 DEF DlqTake, Listed, t
      <4>2. Hands(a) = {} /\ ~Queued(a)
        BY <2>0, <4>1 DEF Place
      <4>3. dlq[QueueOf[a]][a] \in {0, 1}
        BY <2>0, QueueOfAssumption
           DEF Place, OnePlace, InDLQ, TypeOK, BrokerTypeOK
      <4>4. ~InDLQ(a)'
        BY <2>0, <3>2, <4>3, QueueOfAssumption
           DEF DlqRemoveOne, InDLQ, TypeOK, BrokerTypeOK
      <4>5. ~Queued(a)'
        BY <3>2, <4>2 DEF DlqRemoveOne, Queued
      <4>6. Hands(a)' \subseteq {OpHand(o)}
        BY <2>0, <3>2, <4>2, OperatorHands
      <4>7. ~Listed(a)'
        BY <3>2 DEF Listed, OneOperator, SetOperator, TypeOK
      <4> QED
        BY <2>0, <4>4, <4>5, <4>6, <4>7, Arrives DEF Queued
    <3> QED
      BY <2>0, <2>4, <3>1, <3>2 DEF DlqTake, Call, t
  <2>5. CASE DlqFetch(o) \/ DlqStore(o)
    <3>1. OpHand(o) \in Hands(a)
      BY <2>3, <2>5 DEF DlqFetch, DlqStore
    <3>2. KeysShrink(a)
      BY <2>0, <2>5, CommandShrinks DEF DlqFetch, DlqStore, Call, TypeOK, t
    <3>3. \/ OperatorStops(o)
          \/ \E n : SetOperator(o, "fetched", a, n)
          \/ \E n : SetOperator(o, "stored", a, n)
      BY <2>0, <2>5 DEF DlqFetch, DlqStore, Call, t
    <3> QED
      BY <2>1, <2>2, <3>1, <3>2, <3>3
  <2>6. CASE DlqEnqueue(o)
    <3>1. OperatorStops(o) /\ operator[o].pc # "listed"
      BY <2>6 DEF DlqEnqueue, Call
    <3>2. CASE UNCHANGED brokerVars
      BY <2>0, <2>2, <3>1, <3>2, CommandShrinks DEF TypeOK
    <3>3. CASE \E data : EnqueueScript(a, data, FALSE)
      <4>1. Hands(a)' = {} /\ ~Listed(a)'
        <5>1. SetOperator(o, "idle", Null, 0)
          BY <1>2, <3>1
        <5> QED
          BY <1>2, <2>0, <2>3, <3>1, <5>1, OperatorHands
      <4>2. ~InDLQ(a)' /\ a \notin delayed'[QueueOf[a]]
        BY <2>3, <3>1, <3>3 DEF EnqueueScript, InDLQ, Queued
      <4> QED
        BY <2>0, <4>1, <4>2, Arrives
    <3> QED
      BY <2>0, <2>6, <3>2, <3>3 DEF DlqEnqueue, Call, t
  <2> QED
    BY <1>4, <2>4, <2>5, <2>6 DEF RetryStep
<1>5. ASSUME NEW q \in Queue, Purge(q)
      PROVE  \A u \in Task : Place(u)'
  <2>1. UNCHANGED <<loop, proc, operator>>
    BY <1>5 DEF Purge, workerVars, clientVars
  <2>2. ASSUME NEW u \in Task
        PROVE  Shrinks(u)
    <3>1. KeysShrink(u)
      BY <1>5, CommandShrinks DEF Purge, TypeOK
    <3>2. Hands(u)' \subseteq Hands(u) /\ (Listed(u)' => Listed(u))
      BY <2>1, HandsOf DEF Listed
    <3> QED
      BY <3>1, <3>2 DEF Shrinks
  <2> QED
    BY <2>2, PlaceShrinks
<1> QED
  BY <1>3, <1>4, <1>5 DEF OperatorStep

\* maintenance.lua moves the due ids of a queue from one of its sets to the
\* other.
LEMMA PromotePlace ==
  ASSUME TypeOK, NEW w \in Worker, NEW i \in DOMAIN QueuesOf[w],
         NEW due \in SUBSET Task, Promote(w, i, due),
         NEW t \in Task, Home(t), Place(t)
  PROVE  Place(t)'
<1> DEFINE q == QueueOf[t]
<1>1. QueuesOf[w][i] \in Queue /\ q \in Queue
  BY SystemAssumption, QueueOfAssumption
<1>2. Hands(t)' \subseteq Hands(t) /\ (Listed(t)' => Listed(t))
  <2>1. UNCHANGED <<loop, proc, operator>>
    BY DEF Promote, workerVars, clientVars
  <2> QED
    BY <2>1, HandsOf DEF Listed
<1>3. /\ UNCHANGED dlq
      /\ Queued(t)' => Queued(t)
      /\ t \in (main[q] \cap delayed[q])' => t \in main[q] \cap delayed[q]
  <2>1. CASE UNCHANGED brokerVars
    BY <2>1 DEF brokerVars, Queued
  <2>2. CASE PromoteScript(QueuesOf[w][i], due)
    BY <1>1, <2>2 DEF PromoteScript, Add, Remove, Queued, Home, TypeOK,
       BrokerTypeOK
  <2> QED
    BY <2>1, <2>2 DEF Promote, Call
<1>4. InDLQ(t)' <=> InDLQ(t)
  BY <1>3 DEF InDLQ
<1>5. \A a, b \in Hands(t)' : a = b
  BY <1>2 DEF Place, OnePlace
<1>6. Hands(t)' # {} => Hands(t) # {}
  BY <1>2
<1> QED
  BY <1>2, <1>3, <1>4, <1>5, <1>6 DEF Place, OnePlace

\* The clients: a submission puts a new id in a queue, and a cancel only writes
\* the hash.
LEMMA ClientPlace ==
  ASSUME TypeOK, TypeOK', ClientStep \/ \E t \in Task : TtlRunsOut(t),
         \A t \in Task : Known(t) /\ Place(t)
  PROVE  \A t \in Task : Place(t)'
<1>1. ASSUME NEW u \in Task, KeysShrink(u),
             UNCHANGED <<loop, proc, operator>>
      PROVE  Place(u)'
  <2>1. Hands(u)' \subseteq Hands(u) /\ (Listed(u)' => Listed(u))
    BY <1>1, HandsOf DEF Listed
  <2> QED
    BY <1>1, <2>1, PlaceShrinks DEF Shrinks
<1>2. ASSUME NEW t \in Task, NEW isDelayed \in BOOLEAN, Submit(t, isDelayed)
      PROVE  \A u \in Task : Place(u)'
  <2>1. Nowhere(t) /\ Focus(t)
    BY <1>2, ClientFrames DEF Submit, Known
  <2>2. Hands(t)' = {} /\ ~Listed(t)'
    BY <1>2, <2>1, HandsOf DEF Submit, workerVars, Nowhere, InHand, Listed
  <2>3. /\ ~InDLQ(t)'
        /\ t \notin (main[QueueOf[t]] \cap delayed[QueueOf[t]])'
    BY <1>2, <2>1, QueueOfAssumption
       DEF Submit, EnqueueScript, Add, Nowhere, InDLQ, TypeOK, BrokerTypeOK
  <2>4. Place(t)'
    BY <2>2, <2>3, Arrives
  <2> QED
    BY <2>1, <2>4, SameShrinks, PlaceShrinks DEF Focus
<1>3. CASE \E c \in Client, t \in Task : CancelRead(c, t)
  BY <1>1, <1>3, CommandShrinks DEF CancelRead, workerVars, TypeOK
<1>4. CASE \E c \in Client : CancelWrite(c)
  <2>1. PICK c \in Client : CancelWrite(c)
    BY <1>4
  <2>2. canceller[c].task \in Task
    BY <2>1, ClientFrames
  <2> QED
    BY <1>1, <2>1, <2>2, CommandShrinks DEF CancelWrite, workerVars, TypeOK
<1>5. CASE \E t \in Task : TtlRunsOut(t)
  BY <1>1, <1>5, CommandShrinks DEF TtlRunsOut, workerVars, clientVars, TypeOK
<1> QED
  BY <1>2, <1>3, <1>4, <1>5 DEF ClientStep

\* Each local copy fits the await its processor is at.
ShapeInv == \A w \in Worker, s \in Slot : WellFormed(proc[w][s])

\* Place is what NoDoubleRun needs to be inductive.
PlaceInv == Undisturbed /\ OneOperator => \A t \in Task : Place(t)

\* Undisturbed, a task stays in one place.
LEMMA PlaceStays ==
  ASSUME TypeOK, TypeOK', ShapeInv, GroundInv, QuietInv, PlaceInv, [Next]_vars
  PROVE  PlaceInv'
<1> SUFFICES ASSUME Undisturbed', OneOperator
             PROVE  \A t \in Task : Place(t)'
  BY DEF PlaceInv
<1>1. /\ Undisturbed /\ Calm /\ Quiet
      /\ \A t \in Task : Home(t) /\ Known(t) /\ Place(t)
  BY Undisturbing DEF Undisturbed, GroundInv, QuietInv, PlaceInv
<1>2. \A w \in Worker : ~StopBegin(w) /\ ~StopStep(w) /\ ~Crash(w)
  BY <1>1, CalmStep DEF Undisturbed, Crash, ProcessEnds, TypeOK
<1>3. CASE QuietStep
  BY <1>1, <1>3, QuietFrames, SameShrinks, PlaceShrinks
<1>4. ASSUME NEW w \in Worker, WorkerStep(w)
      PROVE  \A t \in Task : Place(t)'
  <2>1. CASE LoopStep(w)
    BY <1>1, <2>1, LoopPlace
  <2>2. CASE \E s \in Slot : ExecStep(w, s) \/ ProcStep(w, s)
    <3>1. PICK s \in Slot : ExecStep(w, s) \/ ProcStep(w, s)
      BY <2>2
    <3>2. PICK t \in Task : t = proc[w][s].task
      BY <3>1, ProcMoves
    <3>3. Place(t)' /\ Focus(t)
      BY <1>1, <3>1, <3>2, ProcPlace, ProcFrames DEF ShapeInv
    <3> QED
      BY <1>1, <3>3, SameShrinks, PlaceShrinks DEF Focus
  <2>3. ~\E v \in Worker : ReapQueue(w, v)
    <3>1. reaper[w].todo = {} /\ reaper[w].victim = Null
      BY <1>1 DEF Quiet, IdleReaper
    <3> QED
      BY <3>1 DEF ReapQueue
  <2>4. CASE \E i \in DOMAIN QueuesOf[w], due \in SUBSET Task :
               Promote(w, i, due)
    BY <1>1, <2>4, PromotePlace
  <2> QED
    BY <1>2, <1>3, <1>4, <2>1, <2>2, <2>3, <2>4
       DEF WorkerStep, MaintenanceStep, QuietStep
<1>5. CASE ClientStep \/ \E t \in Task : TtlRunsOut(t)
  BY <1>1, <1>5, ClientPlace
<1>6. CASE OperatorStep
  BY <1>1, <1>6, OperatorPlace
<1>7. CASE UNCHANGED vars
  BY <1>3, <1>7 DEF QuietStep
<1> QED
  BY <1>4, <1>5, <1>6, <1>7 DEF Next

\* The local copies stay well-formed, wherever a cancelled processor ends up.
LEMMA ShapeStays ==
  ASSUME TypeOK, ShapeInv, [Next]_vars
  PROVE  ShapeInv'
<1>1. WellFormed(IdleProc)
  BY DEF WellFormed, IdleProc
<1>2. ASSUME UNCHANGED proc PROVE ShapeInv'
  BY <1>2 DEF ShapeInv
<1>3. ASSUME NEW w \in Worker, NEW s \in Slot, NEW q, SetProc(w, s, q),
             WellFormed(q)
      PROVE  ShapeInv'
  BY <1>3 DEF ShapeInv, SetProc, TypeOK
<1>4. ASSUME NEW w \in Worker, InterruptAll(w)
      PROVE  ShapeInv'
  <2>1. PICK f \in [Slot -> UNION {Interrupted(proc[w][s]) : s \in Slot}] :
               /\ \A s \in Slot : f[s] \in Interrupted(proc[w][s])
               /\ proc' = [proc EXCEPT ![w] = f]
    BY <1>4 DEF InterruptAll
  <2>2. ASSUME NEW s \in Slot PROVE WellFormed(f[s])
    <3> DEFINE p == proc[w][s]
    <3>1. CASE p.pc = "idle" \/ Escapes(p)
      BY <1>1, <2>1, <3>1 DEF Interrupted
    <3>2. CASE ~(p.pc = "idle" \/ Escapes(p))
      <4>1. p \in BusyState
        BY <3>2, BusySlot
      <4>2. \/ f[s] = p \/ f[s] = IdleProc
            \/ \E pc \in {"retry", "final"}, st \in StatusIn(p) :
                 /\ f[s] = [p EXCEPT !.pc = pc, !.status = st]
                 /\ pc = "retry" => p.pc = "failed"
        BY <2>1, <3>2 DEF Interrupted
      <4>3. p.pc = "failed" => StatusIn(p) = {p.status}
        BY DEF StatusIn
      <4>4. ASSUME NEW pc \in {"retry", "final"}, NEW st \in StatusIn(p),
                   f[s] = [p EXCEPT !.pc = pc, !.status = st],
                   pc = "retry" => p.pc = "failed"
            PROVE  WellFormed(f[s])
        <5>1. f[s].pc = pc /\ f[s].status = st
          BY <4>1, <4>4 DEF BusyState
        <5> QED
          BY <4>3, <4>4, <5>1 DEF ShapeInv, WellFormed
      <4> QED
        BY <1>1, <4>2, <4>4 DEF ShapeInv
    <3> QED
      BY <3>1, <3>2
  <2> QED
    BY <2>1, <2>2 DEF ShapeInv, TypeOK
<1>5. ASSUME NEW w \in Worker, ProcessEnds(w)
      PROVE  ShapeInv'
  BY <1>1, <1>5 DEF ProcessEnds, ShapeInv, TypeOK
<1>6. ASSUME NEW w \in Worker, WorkerStep(w)
      PROVE  ShapeInv'
  <2>1. CASE \E s \in Slot : ExecStep(w, s) \/ ProcStep(w, s)
    <3>1. PICK s \in Slot : ExecStep(w, s) \/ ProcStep(w, s)
      BY <2>1
    <3>2. WellFormed(proc[w][s]) /\ proc[w][s] \in BusyState
      BY <3>1, ProcMoves DEF ShapeInv
    <3>3. \E q : SetProc(w, s, q) /\ WellFormed(q)
      <4>1. CASE \E q : ProcMove(w, s, q)
        BY <3>2, <4>1 DEF ProcMove
      <4>2. CASE Reenqueue(w, s)
        <5>1. WellFormed([proc[w][s] EXCEPT !.pc = "final"])
          BY <3>2 DEF WellFormed, BusyState
        <5> QED
          BY <4>2, <5>1 DEF Reenqueue, Call
      <4>3. CASE Nack(w, s) \/ Finish(w, s)
        BY <1>1, <4>3 DEF Nack, Finish
      <4> QED
        BY <3>1, <4>1, <4>2, <4>3, ProcMoves
    <3> QED
      BY <1>3, <3>3
  <2>2. CASE \E s \in Slot : Dispatch(w, s)
    <3>1. PICK s \in Slot : Dispatch(w, s)
      BY <2>2
    <3>2. WellFormed([IdleProc EXCEPT !.pc = "start", !.task = loop[w].task,
                                      !.status = hash[loop[w].task].status,
                                      !.retries = hash[loop[w].task].retries])
      BY DEF WellFormed, IdleProc
    <3> QED
      BY <1>3, <3>1, <3>2 DEF Dispatch, SetProc
  <2>3. CASE LoopStep(w) /\ ~\E s \in Slot : Dispatch(w, s)
    BY <1>2, <2>3 DEF LoopStep, AcquirePermit, PollEmpty, PopTask, FetchNothing,
       FetchFails
  <2>4. CASE Start(w) \/ Register(w) \/ Heartbeat(w) \/ FallSilent(w)
    BY <1>2, <2>4 DEF Start, Register, Heartbeat, FallSilent, workerVars
  <2>5. CASE MaintenanceStep(w)
    BY <1>2, <2>5 DEF MaintenanceStep, ReapScan, ReapQueue, ReapForget, Promote,
       workerVars
  <2>6. CASE StopBegin(w) \/ StopStep(w)
    BY <1>2, <1>4, <1>5, <2>6 DEF StopBegin, StopStep, StopAllEnded,
       StopTimesOut, StopCancels, StopRequeue, StopDeregister, RunReturns,
       Exit, workerVars
  <2>7. CASE Crash(w)
    BY <1>5, <2>7 DEF Crash
  <2> QED
    BY <1>6, <2>1, <2>2, <2>3, <2>4, <2>5, <2>6, <2>7 DEF WorkerStep
<1>7. CASE ClientStep \/ OperatorStep \/ \E t \in Task : TtlRunsOut(t)
  BY <1>2, <1>7 DEF ClientStep, OperatorStep, RetryStep, Submit, CancelRead,
     CancelWrite, DlqList, DlqTake, DlqFetch, DlqStore, DlqEnqueue, Purge,
     TtlRunsOut, workerVars
<1>8. CASE UNCHANGED vars
  BY <1>2, <1>8 DEF vars, workerVars
<1> QED
  BY <1>6, <1>7, <1>8 DEF Next

\* The inductive invariant.
PlaceIInv == ShapeInv /\ GroundInv /\ QuietInv /\ PlaceInv

\* At the start nothing is anywhere.
LEMMA InitPlace == Init => PlaceIInv
<1> SUFFICES ASSUME Init PROVE PlaceIInv
  OBVIOUS
<1>1. ShapeInv
  BY DEF Init, ShapeInv, WellFormed, IdleProc
<1>2. ASSUME NEW t \in Task
      PROVE  Nowhere(t) /\ Home(t)
  BY NullAssumption
     DEF Init, BrokerInit, Nowhere, Home, IdleLoop, IdleProc, IdleCopy
<1>3. GroundInv /\ QuietInv
  BY <1>2 DEF Init, GroundInv, Calm, Known, QuietInv, Quiet, IdleStopper,
     IdleLoop, IdleProc
<1>4. ASSUME NEW t \in Task
      PROVE  Place(t)
  <2>1. Hands(t) = {} /\ ~Listed(t)
    BY <1>2, HandsOf DEF Nowhere, InHand, Listed
  <2>2. ~Queued(t) /\ ~InDLQ(t)
    BY <1>2, QueueOfAssumption DEF Nowhere, Queued, InDLQ
  <2> QED
    BY <2>1, <2>2 DEF Place, OnePlace, Queued
<1> QED
  BY <1>1, <1>3, <1>4 DEF PlaceIInv, PlaceInv

(***************************************************************************)
(* Until a worker dies, stalls or is stopped, each task is in one place    *)
(* only: queued once, in the DLQ once, or in the hands of one processor,   *)
(* loop or operator, however many workers share the queues, and even when  *)
(* broker calls fail half-way.  One operator at most retries from the DLQ. *)
(***************************************************************************)
THEOREM NeverTwoPlaces == Spec => []NoDoubleRun
<1>1. Init => PlaceIInv
  BY InitPlace
<1>2. TypeOK /\ TypeOK' /\ PlaceIInv /\ [Next]_vars => PlaceIInv'
  BY ShapeStays, GroundStep, QuietStays, PlaceStays DEF PlaceIInv
<1>3. PlaceIInv => NoDoubleRun
  BY DEF PlaceIInv, PlaceInv, Place, NoDoubleRun
<1> QED
  BY <1>1, <1>2, <1>3, TypeCorrect, PTL DEF Spec
=============================================================================
