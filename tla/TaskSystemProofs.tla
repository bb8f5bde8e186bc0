-------------------------- MODULE TaskSystemProofs --------------------------
(***************************************************************************)
(* Invariants of TaskSystem for every value of its constants.              *)
(***************************************************************************)
EXTENDS TaskSystem, TLAPS, FiniteSetTheorems

-----------------------------------------------------------------------------
(* What every broker command preserves, whoever calls it. *)

\* The commands keep the types of the Redis keys.
LEMMA CommandTypes ==
  ASSUME BrokerTypeOK
  PROVE  /\ UNCHANGED brokerVars => BrokerTypeOK'
         /\ \A t \in Task, data \in TaskData :
              UpdateTask(t, data) => BrokerTypeOK'
         /\ \A t \in Task, data \in TaskData, isDelayed \in BOOLEAN :
              EnqueueScript(t, data, isDelayed) => BrokerTypeOK'
         /\ \A q \in Queue, t \in Task : DequeueScript(q, t) => BrokerTypeOK'
         /\ \A t \in Task : AckScript(t) => BrokerTypeOK'
         /\ \A t \in Task : NackScript(t) => BrokerTypeOK'
         /\ \A q \in Queue, due \in SUBSET Task :
              PromoteScript(q, due) => BrokerTypeOK'
         /\ \A q \in Queue : ReapScript(q) => BrokerTypeOK'
         /\ \A t \in Task : DlqRemoveOne(t) => BrokerTypeOK'
         /\ \A q \in Queue : PurgeDlq(q) => BrokerTypeOK'
         /\ \A t \in Task : ExpireHash(t) => BrokerTypeOK'
         /\ \A w \in Worker : RegisterWorker(w) => BrokerTypeOK'
         /\ \A w \in Worker : ForgetWorker(w) => BrokerTypeOK'
         /\ \A q \in Queue, t \in Task : RequeueScript(q, t) => BrokerTypeOK'
<1> USE QueueOfAssumption DEF BrokerTypeOK, Add, Remove, Expire
<1>1. UNCHANGED brokerVars => BrokerTypeOK'
  BY DEF brokerVars
<1>2. \A t \in Task, data \in TaskData : UpdateTask(t, data) => BrokerTypeOK'
  BY DEF UpdateTask
<1>3. \A t \in Task, data \in TaskData, isDelayed \in BOOLEAN :
        EnqueueScript(t, data, isDelayed) => BrokerTypeOK'
  BY DEF EnqueueScript
<1>4. \A q \in Queue, t \in Task : DequeueScript(q, t) => BrokerTypeOK'
  BY DEF DequeueScript
<1>5. \A t \in Task : AckScript(t) => BrokerTypeOK'
  BY DEF AckScript
<1>6. \A t \in Task : NackScript(t) => BrokerTypeOK'
  BY DEF NackScript
<1>7. \A q \in Queue, due \in SUBSET Task :
        PromoteScript(q, due) => BrokerTypeOK'
  BY DEF PromoteScript
<1>8. \A q \in Queue : ReapScript(q) => BrokerTypeOK'
  BY DEF ReapScript
<1>9. \A t \in Task : DlqRemoveOne(t) => BrokerTypeOK'
  BY DEF DlqRemoveOne
<1>10. \A q \in Queue : PurgeDlq(q) => BrokerTypeOK'
  BY DEF PurgeDlq
<1>11. \A t \in Task : ExpireHash(t) => BrokerTypeOK'
  BY DEF ExpireHash
<1>12. \A w \in Worker : RegisterWorker(w) => BrokerTypeOK'
  BY DEF RegisterWorker
<1>13. \A w \in Worker : ForgetWorker(w) => BrokerTypeOK'
  BY DEF ForgetWorker
<1>14. \A q \in Queue, t \in Task : RequeueScript(q, t) => BrokerTypeOK'
  BY DEF RequeueScript
<1> QED
  BY <1>1, <1>2, <1>3, <1>4, <1>5, <1>6, <1>7, <1>8, <1>9, <1>10, <1>11,
     <1>12, <1>13, <1>14

-----------------------------------------------------------------------------
(* Type correctness. *)

\* Spending a disturbance keeps the counters natural numbers.
LEMMA SpendType ==
  ASSUME used \in [Disturbance -> Nat], NEW k \in Disturbance, Spend(k)
  PROVE  used' \in [Disturbance -> Nat]
BY DEF Spend

\* Counting a released or a lost permit keeps the types of the counters.
LEMMA CountUpType ==
  ASSUME NEW w \in Worker
  PROVE  /\ permits \in [Worker -> Nat] /\ Release(w) =>
              permits' \in [Worker -> Nat]
         /\ leaked \in [Worker -> Nat]
              /\ leaked' = [leaked EXCEPT ![w] = @ + 1] =>
              leaked' \in [Worker -> Nat]
BY DEF Release

\* Writing a processor's slot keeps the type of the processors.
LEMMA SetProcType ==
  ASSUME proc \in [Worker -> [Slot -> ProcState]],
         NEW w \in Worker, NEW s \in Slot, NEW p \in ProcState,
         SetProc(w, s, p)
  PROVE  proc' \in [Worker -> [Slot -> ProcState]]
BY DEF SetProc

\* The processor states that the steps of _process_task write.
LEMMA ProcStates ==
  ASSUME NEW p \in BusyState
  PROVE  /\ IdleProc \in ProcState
         /\ p.task \in Task /\ Data(p) \in TaskData
         /\ \A pc \in BusyPC : [p EXCEPT !.pc = pc] \in BusyState
         /\ \A st \in Status : [p EXCEPT !.status = st] \in BusyState
         /\ \A b \in BOOLEAN : [p EXCEPT !.armed = b] \in BusyState
         /\ \A e \in Exception : Raised(p, e) \in BusyState
BY DEF BusyState, BusyPC, ProcState, Data, TaskData, Exception, Status, Raised

\* A slot whose pc is one of a busy processor's holds a busy processor.
LEMMA BusySlot ==
  ASSUME TypeOK, NEW w \in Worker, NEW s \in Slot, proc[w][s].pc # "idle"
  PROVE  proc[w][s] \in BusyState
BY DEF TypeOK, ProcState, IdleProc

\* A processor that is busy before the step and after it.
StaysBusy(w, s) ==
  proc[w][s] \in BusyState /\ \E p \in BusyState : SetProc(w, s, p)

\* Storing a processor's local copy keeps the types and the processor busy.
LEMMA StoreCopyType ==
  ASSUME TypeOK, NEW w \in Worker, NEW s \in Slot, NEW p \in BusyState,
         NEW pcOk \in BusyPC, NEW pErr \in BusyState,
         StoreCopy(w, s, p, pcOk, pErr)
  PROVE  TypeOK' /\ \E q \in BusyState : SetProc(w, s, q)
<1> DEFINE pOk == [p EXCEPT !.pc = pcOk]
<1>1. BrokerTypeOK /\ p.task \in Task /\ Data(p) \in TaskData
  BY ProcStates DEF TypeOK
<1>2. BrokerTypeOK'
  BY <1>1, CommandTypes DEF StoreCopy, Call
<1>3. used' \in [Disturbance -> Nat]
  BY SpendType DEF StoreCopy, Call, TypeOK, Disturbance
<1>4. pOk \in BusyState
  BY ProcStates
<1>5. SetProc(w, s, pOk) \/ SetProc(w, s, pErr)
  BY DEF StoreCopy, Call
<1> HIDE DEF pOk
<1>6. proc' \in [Worker -> [Slot -> ProcState]]
  BY <1>4, <1>5, SetProcType DEF TypeOK, ProcState
<1>7. TypeOK'
  BY <1>2, <1>3, <1>6
     DEF TypeOK, StoreCopy, ProcFrame, reapVars, clientVars
<1> QED
  BY <1>4, <1>5, <1>7

\* A worker serves at least one queue, so its loop can start at the first.
LEMMA FirstQueue ==
  \A w \in Worker : /\ DOMAIN QueuesOf[w] = 1 .. Len(QueuesOf[w])
                   /\ Len(QueuesOf[w]) \in Nat \ {0}
                   /\ 1 \in DOMAIN QueuesOf[w]
BY SystemAssumption

\* The part of TypeOK about the dequeue loops.
LoopTyped ==
  /\ loop \in [Worker -> LoopState]
  /\ \A w \in Worker : loop[w].qi \in DOMAIN QueuesOf[w]

\* The two ways the loop moves on keep its type.
LEMMA SetLoopType ==
  ASSUME TypeOK, NEW w \in Worker
  PROVE  /\ \A qi \in DOMAIN QueuesOf[w],
               pc \in {"acquire", "poll", "cancelled"} :
              SetLoop(w, pc, qi, Null) => LoopTyped'
         /\ \A qi \in DOMAIN QueuesOf[w], t \in Task :
              SetLoop(w, "fetch", qi, t) => LoopTyped'
         /\ LoopAgain(w) => LoopTyped' /\ permits' \in [Worker -> Nat]
<1>1. \A qi \in DOMAIN QueuesOf[w], pc \in {"acquire", "poll", "cancelled"} :
        SetLoop(w, pc, qi, Null) => LoopTyped'
  BY FirstQueue DEF SetLoop, LoopTyped, LoopState, TypeOK
<1>2. \A qi \in DOMAIN QueuesOf[w], t \in Task :
        SetLoop(w, "fetch", qi, t) => LoopTyped'
  BY FirstQueue DEF SetLoop, LoopTyped, LoopState, TypeOK
<1>3. LoopAgain(w) => LoopTyped'
  <2>1. SetLoop(w, "acquire", 1, Null) => LoopTyped'
    BY <1>1, FirstQueue
  <2> QED
    BY <2>1 DEF LoopAgain
<1>4. LoopAgain(w) => permits' \in [Worker -> Nat]
  BY DEF LoopAgain, Release, TypeOK
<1> QED
  BY <1>1, <1>2, <1>3, <1>4
\* The dequeue loop's steps keep the types.
LEMMA LoopStepType ==
  ASSUME TypeOK, NEW w \in Worker, LoopStep(w)
  PROVE  TypeOK'
<1> USE SystemAssumption, QueueOfAssumption
<1>1. CASE AcquirePermit(w)
  <2>1. LoopTyped' /\ permits' \in [Worker -> Nat]
    BY <1>1, SetLoopType, FirstQueue DEF AcquirePermit, TypeOK
  <2> QED
    BY <1>1, <2>1 DEF AcquirePermit, LoopTyped, TypeOK, BrokerTypeOK,
       brokerVars, reapVars, clientVars
<1>2. CASE PollEmpty(w)
  <2>1. loop[w].qi \in DOMAIN QueuesOf[w]
    BY DEF TypeOK
  <2>2. CASE loop[w].qi < Len(QueuesOf[w])
    <3>1. loop[w].qi + 1 \in DOMAIN QueuesOf[w]
      BY <2>1, <2>2, FirstQueue
    <3>2. LoopTyped' /\ permits' = permits
      BY <1>2, <2>2, <3>1, SetLoopType DEF PollEmpty
    <3> QED
      BY <1>2, <3>2 DEF PollEmpty, LoopTyped, TypeOK, BrokerTypeOK,
         brokerVars, reapVars, clientVars
  <2>3. CASE ~(loop[w].qi < Len(QueuesOf[w]))
    <3>1. LoopTyped' /\ permits' \in [Worker -> Nat]
      BY <1>2, <2>3, SetLoopType DEF PollEmpty
    <3> QED
      BY <1>2, <3>1 DEF PollEmpty, LoopTyped, TypeOK, BrokerTypeOK,
         brokerVars, reapVars, clientVars
  <2> QED
    BY <2>2, <2>3
<1>3. CASE \E t \in Task : PopTask(w, t)
  <2>1. PICK t \in Task : PopTask(w, t)
    BY <1>3
  <2>2. loop[w].qi \in DOMAIN QueuesOf[w] /\ QueuesOf[w][loop[w].qi] \in Queue
    BY DEF TypeOK
  <2>3. BrokerTypeOK'
    BY <2>1, <2>2, CommandTypes DEF PopTask, Call, TypeOK
  <2>4. used' \in [Disturbance -> Nat]
    BY <2>1, SpendType DEF PopTask, Call, TypeOK, Disturbance
  <2>5. LoopTyped' /\ permits' \in [Worker -> Nat]
    BY <2>1, <2>2, SetLoopType DEF PopTask, Call, TypeOK
  <2> QED
    BY <2>1, <2>3, <2>4, <2>5 DEF PopTask, LoopTyped, TypeOK, reapVars,
       clientVars
<1>4. CASE FetchNothing(w)
  <2>1. LoopTyped' /\ permits' \in [Worker -> Nat]
    BY <1>4, SetLoopType DEF FetchNothing
  <2> QED
    BY <1>4, <2>1 DEF FetchNothing, LoopTyped, TypeOK, BrokerTypeOK,
       brokerVars, reapVars, clientVars
<1>5. CASE FetchFails(w)
  <2>1. LoopTyped' /\ permits' \in [Worker -> Nat]
    BY <1>5, SetLoopType DEF FetchFails
  <2>2. used' \in [Disturbance -> Nat]
    BY <1>5, SpendType DEF FetchFails, TypeOK, Disturbance
  <2> QED
    BY <1>5, <2>1, <2>2 DEF FetchFails, LoopTyped, TypeOK, BrokerTypeOK,
       brokerVars, reapVars, clientVars
<1>6. CASE \E s \in Slot : Dispatch(w, s)
  <2>1. PICK s \in Slot : Dispatch(w, s)
    BY <1>6
  <2> DEFINE t == loop[w].task
             p == [IdleProc EXCEPT !.pc = "start", !.task = t,
                                   !.status = hash[t].status,
                                   !.retries = hash[t].retries]
  <2>2. t \in Task /\ hash[t] \in TaskData
    BY <2>1 DEF Dispatch, TypeOK, BrokerTypeOK, LoopState
  <2>3. p \in ProcState
    BY <2>2 DEF IdleProc, ProcState, BusyState, BusyPC, TaskData, Exception
  <2>4. SetProc(w, s, p)
    BY <2>1 DEF Dispatch, SetProc
  <2> HIDE DEF p
  <2>5. proc' \in [Worker -> [Slot -> ProcState]]
    BY <2>3, <2>4, SetProcType DEF TypeOK
  <2>6. LoopTyped'
    BY <2>1, SetLoopType, FirstQueue DEF Dispatch
  <2> QED
    BY <2>1, <2>5, <2>6 DEF Dispatch, LoopTyped, TypeOK, BrokerTypeOK,
       brokerVars, reapVars, clientVars
<1> QED
  BY <1>1, <1>2, <1>3, <1>4, <1>5, <1>6 DEF LoopStep

\* The steps of _process_task keep the types, and all but the last keep the
\* processor busy.
LEMMA ProcStepType ==
  ASSUME TypeOK, NEW w \in Worker, NEW s \in Slot,
         ExecStep(w, s) \/ ProcStep(w, s)
  PROVE  TypeOK' /\ (Nack(w, s) \/ Finish(w, s) \/ StaysBusy(w, s))
<1> DEFINE old == proc[w][s]
<1>1. old \in BusyState
  <2>1. old.pc # "idle"
    BY DEF ExecStep, ProcStep, ExecDone, ExecExitsNonzero, ExecRaises,
       MarkCancelled, RejectProvider, MarkRunning, EnterChain, HookRaises,
       SeeCancel, RecordCancelled, Ack, RecordFailed, StoreRetry, Reenqueue,
       Nack, Finish
  <2> QED
    BY <2>1, BusySlot
<1>2. \A st \in Status : [old EXCEPT !.status = st] \in BusyState
  BY <1>1, ProcStates
<1>3. ASSUME NEW p \in BusyState, NEW pcOk \in BusyPC, NEW pErr \in BusyState,
             StoreCopy(w, s, p, pcOk, pErr)
      PROVE  TypeOK' /\ StaysBusy(w, s)
  BY <1>1, <1>3, StoreCopyType DEF StaysBusy
<1>4. ASSUME NEW p \in BusyState, SetProc(w, s, p),
             UNCHANGED <<brokerVars, used>>, ProcFrame
      PROVE  TypeOK' /\ StaysBusy(w, s)
  <2>1. proc' \in [Worker -> [Slot -> ProcState]]
    BY <1>4, SetProcType DEF TypeOK, ProcState
  <2> QED
    BY <1>1, <1>4, <2>1 DEF StaysBusy, ProcFrame, TypeOK, BrokerTypeOK,
       brokerVars, reapVars, clientVars
<1>5. ASSUME NEW p \in BusyState PROVE Raised(p, "retry") \in BusyState
  BY ProcStates DEF Exception
<1>6. CASE MarkCancelled(w, s)
  <2>1. old \in BusyState /\ StoreCopy(w, s, old, "ack", Raised(old, "retry"))
    BY <1>1, <1>6 DEF MarkCancelled
  <2> QED
    BY <1>3, <1>5, <2>1 DEF BusyPC
<1>7. CASE RejectProvider(w, s)
  <2> DEFINE p == [old EXCEPT !.status = "failed"]
  <2>1. p \in BusyState
    BY <1>1, <1>2, <1>7 DEF RejectProvider, Status
  <2>2. StoreCopy(w, s, p, "final", Raised(p, "retry"))
    BY <1>7 DEF RejectProvider
  <2> HIDE DEF p
  <2> QED
    BY <1>3, <1>5, <2>1, <2>2 DEF BusyPC
<1>8. CASE MarkRunning(w, s)
  <2> DEFINE p == [old EXCEPT !.status = "running"]
  <2>1. p \in BusyState
    BY <1>1, <1>2, <1>8 DEF MarkRunning, Status
  <2>2. StoreCopy(w, s, p, "before", Raised(p, "retry"))
    BY <1>8 DEF MarkRunning
  <2> HIDE DEF p
  <2> QED
    BY <1>3, <1>5, <2>1, <2>2 DEF BusyPC
<1>9. CASE EnterChain(w, s)
  <2> DEFINE p == [old EXCEPT !.pc = "exec", !.armed = RetriesAmong(Len(Chain))]
  <2>1. p \in BusyState
    BY <1>1, <1>9 DEF EnterChain, BusyState, BusyPC, RetriesAmong
  <2>2. SetProc(w, s, p) /\ UNCHANGED <<brokerVars, used>> /\ ProcFrame
    BY <1>9 DEF EnterChain
  <2> HIDE DEF p
  <2> QED
    BY <1>4, <2>1, <2>2
<1>10. CASE \E k \in DOMAIN Chain, e \in {"retry", "noRetry"} :
              HookRaises(w, s, k, e)
  <2>1. PICK k \in DOMAIN Chain, e \in {"retry", "noRetry"} :
               HookRaises(w, s, k, e)
    BY <1>10
  <2> DEFINE p == Raised([old EXCEPT !.armed = RetriesAmong(k - 1)], e)
  <2>2. [old EXCEPT !.armed = RetriesAmong(k - 1)] \in BusyState
    BY <1>1, <2>1, ProcStates DEF HookRaises, RetriesAmong
  <2>3. p \in BusyState
    BY <2>2, ProcStates DEF Exception
  <2>4. SetProc(w, s, p) /\ UNCHANGED <<brokerVars, used>> /\ ProcFrame
    BY <2>1 DEF HookRaises
  <2> HIDE DEF p
  <2> QED
    BY <1>4, <2>3, <2>4
<1>11. CASE ExecDone(w, s)
  <2> DEFINE p == [old EXCEPT !.status = "done"]
  <2>1. p \in BusyState
    BY <1>1, <1>2, <1>11 DEF ExecDone, Status
  <2>2. StoreCopy(w, s, p, "ack", Raised(p, "retry"))
    BY <1>11 DEF ExecDone
  <2> HIDE DEF p
  <2> QED
    BY <1>3, <1>5, <2>1, <2>2 DEF BusyPC
<1>12. CASE ExecExitsNonzero(w, s)
  <2> DEFINE p == [old EXCEPT !.status = "failed"]
  <2>1. p \in BusyState
    BY <1>1, <1>2, <1>12 DEF ExecExitsNonzero, Status
  <2>2. StoreCopy(w, s, p, "final", Raised(p, "retry"))
    BY <1>12 DEF ExecExitsNonzero
  <2> HIDE DEF p
  <2> QED
    BY <1>3, <1>5, <2>1, <2>2 DEF BusyPC
<1>13. CASE \E e \in {"retry", "noRetry"} : ExecRaises(w, s, e)
  <2>1. PICK e \in {"retry", "noRetry"} : ExecRaises(w, s, e)
    BY <1>13
  <2>2. Raised(old, e) \in BusyState
    BY <1>1, <2>1, ProcStates DEF ExecRaises, Exception
  <2> QED
    BY <1>4, <2>1, <2>2 DEF ExecRaises
<1>14. CASE SeeCancel(w, s)
  <2> DEFINE p == [old EXCEPT !.pc = "cancelled", !.status = "cancelled"]
  <2>1. p \in BusyState
    BY <1>1, <1>14 DEF SeeCancel, BusyState, BusyPC, Status
  <2>2. SetProc(w, s, p) /\ UNCHANGED <<brokerVars, used>> /\ ProcFrame
    BY <1>14 DEF SeeCancel
  <2> HIDE DEF p
  <2> QED
    BY <1>4, <2>1, <2>2
<1>15. CASE RecordCancelled(w, s)
  <2> DEFINE final == [old EXCEPT !.pc = "final"]
  <2>1. old \in BusyState /\ final \in BusyState
    BY <1>1, <1>15, ProcStates DEF RecordCancelled, BusyPC
  <2>2. StoreCopy(w, s, old, "ackCancelled", final)
    BY <1>15 DEF RecordCancelled
  <2> HIDE DEF final
  <2> QED
    BY <1>3, <2>1, <2>2 DEF BusyPC
<1>16. CASE Ack(w, s)
  <2> DEFINE final == [old EXCEPT !.pc = "final"]
             raised == IF old.pc = "ack" THEN Raised(old, "retry") ELSE final
  <2>1. old \in BusyState /\ final \in BusyState /\ raised \in BusyState
    BY <1>1, <1>5, <1>16, ProcStates DEF Ack, BusyPC
  <2>2. SetProc(w, s, final) \/ SetProc(w, s, raised)
    BY <1>16 DEF Ack, Call
  <2>3. BrokerTypeOK'
    BY <1>16, <2>1, ProcStates, CommandTypes DEF Ack, Call, TypeOK
  <2>4. used' \in [Disturbance -> Nat]
    BY <1>16, SpendType DEF Ack, Call, TypeOK, Disturbance
  <2> HIDE DEF final, raised
  <2>5. proc' \in [Worker -> [Slot -> ProcState]]
    BY <2>1, <2>2, SetProcType DEF TypeOK, ProcState
  <2> QED
    BY <1>1, <1>16, <2>1, <2>2, <2>3, <2>4, <2>5
       DEF StaysBusy, Ack, ProcFrame, TypeOK, reapVars, clientVars
<1>17. CASE RecordFailed(w, s)
  <2> DEFINE pc == IF WillRetry(old) THEN "retry" ELSE "final"
             next == [old EXCEPT !.pc = pc]
  <2>1. old \in BusyState /\ pc \in BusyPC /\ next \in BusyState
    BY <1>1, <1>17, ProcStates DEF RecordFailed, BusyPC
  <2>2. StoreCopy(w, s, old, pc, next)
    BY <1>17 DEF RecordFailed
  <2> HIDE DEF pc, next
  <2> QED
    BY <1>3, <2>1, <2>2
<1>18. CASE StoreRetry(w, s)
  <2> DEFINE p == [old EXCEPT !.status = "retrying", !.retries = @ + 1]
             final == [p EXCEPT !.pc = "final"]
  <2>1. p \in BusyState
    <3> DEFINE n == old.retries + 1
    <3>1. n \in Nat
      BY <1>1 DEF BusyState
    <3> HIDE DEF n
    <3>2. [old EXCEPT !.status = "retrying", !.retries = n] \in BusyState
      BY <1>1, <3>1 DEF BusyState, Status
    <3> QED
      BY <3>2 DEF n
  <2>2. StoreCopy(w, s, p, "reenqueue", final)
    BY <1>18 DEF StoreRetry
  <2> HIDE DEF p
  <2>3. final \in BusyState
    BY <2>1, ProcStates DEF BusyPC
  <2> HIDE DEF final
  <2> QED
    BY <1>3, <2>1, <2>2, <2>3 DEF BusyPC
<1>19. CASE Reenqueue(w, s)
  <2> DEFINE final == [old EXCEPT !.pc = "final"]
  <2>1. old \in BusyState /\ final \in BusyState
    BY <1>1, <1>19, ProcStates DEF Reenqueue, BusyPC
  <2>2. SetProc(w, s, final)
    BY <1>19 DEF Reenqueue, Call
  <2>3. BrokerTypeOK'
    BY <1>19, <2>1, ProcStates, CommandTypes DEF Reenqueue, Call, TypeOK
  <2>4. used' \in [Disturbance -> Nat]
    BY <1>19, SpendType DEF Reenqueue, Call, TypeOK, Disturbance
  <2> HIDE DEF final
  <2>5. proc' \in [Worker -> [Slot -> ProcState]]
    BY <2>1, <2>2, SetProcType DEF TypeOK, ProcState
  <2> QED
    BY <1>1, <1>19, <2>1, <2>2, <2>3, <2>4, <2>5
       DEF StaysBusy, Reenqueue, ProcFrame, TypeOK, reapVars, clientVars
<1>20. CASE Nack(w, s)
  <2>1. old.task \in Task
    BY <1>1, <1>20, ProcStates DEF Nack
  <2>2. proc' \in [Worker -> [Slot -> ProcState]]
    BY <1>20, SetProcType DEF Nack, TypeOK, ProcState
  <2>3. BrokerTypeOK'
    BY <1>20, <2>1, CommandTypes DEF Nack, Call, TypeOK
  <2>4. used' \in [Disturbance -> Nat]
    BY <1>20, SpendType DEF Nack, Call, TypeOK, Disturbance
  <2>5. permits' \in [Worker -> Nat] /\ leaked' \in [Worker -> Nat]
    BY <1>20, CountUpType DEF Nack, Call, TypeOK
  <2> QED
    BY <1>20, <2>2, <2>3, <2>4, <2>5 DEF Nack, TypeOK, reapVars, clientVars
<1>21. CASE Finish(w, s)
  <2>1. proc' \in [Worker -> [Slot -> ProcState]]
    BY <1>21, SetProcType DEF Finish, TypeOK, ProcState
  <2> QED
    BY <1>21, <2>1, CountUpType DEF Finish, TypeOK, BrokerTypeOK, brokerVars,
       reapVars, clientVars
<1> QED
  BY <1>6, <1>7, <1>8, <1>9, <1>10, <1>11, <1>12, <1>13, <1>14, <1>15, <1>16,
     <1>17, <1>18, <1>19, <1>20, <1>21 DEF ExecStep, ProcStep

\* A worker has finitely many slots.
LEMMA SlotsCount ==
  \A S \in SUBSET Slot : IsFiniteSet(S) /\ Cardinality(S) \in Nat
<1>1. IsFiniteSet(Slot)
  BY SystemAssumption, FS_Interval DEF Slot
<1> QED
  BY <1>1, FS_Subset, FS_CardinalityType

\* Wherever a cancelled processor ends up, it is in one of its states.
LEMMA InterruptedStates ==
  ASSUME NEW p \in ProcState
  PROVE  Interrupted(p) \subseteq ProcState
<1>1. CASE p.pc = "idle" \/ Escapes(p)
  BY <1>1 DEF Interrupted, ProcState
<1>2. CASE ~(p.pc = "idle" \/ Escapes(p))
  <2>1. p \in BusyState
    BY <1>2 DEF ProcState, IdleProc
  <2>2. StatusIn(p) \subseteq Status
    BY <2>1 DEF StatusIn, Status, BusyState
  <2>3. ASSUME NEW pc \in BusyPC, NEW st \in Status
        PROVE  [p EXCEPT !.pc = pc, !.status = st] \in BusyState
    BY <2>1, <2>3, Zenon DEF BusyState
  <2>4. "retry" \in BusyPC /\ "final" \in BusyPC
    BY DEF BusyPC
  <2> QED
    BY <1>2, <2>1, <2>2, <2>3, <2>4 DEF Interrupted, ProcState
<1> QED
  BY <1>1, <1>2

\* Cancelling all processors of a worker keeps the types.
LEMMA InterruptAllType ==
  ASSUME TypeOK, NEW w \in Worker, InterruptAll(w)
  PROVE  /\ proc' \in [Worker -> [Slot -> ProcState]]
         /\ leaked' \in [Worker -> Nat]
<1>1. PICK f : /\ f \in [Slot -> UNION {Interrupted(proc[w][s]) : s \in Slot}]
               /\ \A s \in Slot : f[s] \in Interrupted(proc[w][s])
               /\ proc' = [proc EXCEPT ![w] = f]
  BY DEF InterruptAll
<1>2. f \in [Slot -> ProcState]
  BY <1>1, InterruptedStates DEF TypeOK
<1>3. Cardinality({s \in Slot : /\ proc[w][s].pc # "idle"
                                /\ proc'[w][s].pc = "idle"}) \in Nat
  BY SlotsCount
<1> QED
  BY <1>1, <1>2, <1>3 DEF InterruptAll, TypeOK

\* The part of TypeOK about stop().
StopperTyped ==
  /\ stopper \in [Worker -> StopperState]
  /\ \A w \in Worker : stopper[w].qi \in DOMAIN QueuesOf[w]

\* stop() moves on within its states.
LEMMA StopGoesType ==
  ASSUME TypeOK, NEW w \in Worker, NEW ids \in SUBSET Task,
         NEW rest \in SUBSET Task, NEW qi \in DOMAIN QueuesOf[w],
         NEW pc \in {"wait", "cleanup", "requeue", "deregister", "done"},
         StopGoes(w, pc, ids, rest, qi)
  PROVE  StopperTyped'
<1>1. [pc |-> pc, ids |-> ids, rest |-> rest, qi |-> qi] \in StopperState
  BY FirstQueue DEF StopperState
<1> QED
  BY <1>1 DEF StopGoes, StopperTyped, TypeOK

\* The end of a process keeps the types.
LEMMA ProcessEndsType ==
  ASSUME TypeOK, NEW w \in Worker, ProcessEnds(w),
         used' \in [Disturbance -> Nat]
  PROVE  TypeOK'
<1> USE SystemAssumption
<1>1. permits' \in [Worker -> Nat] /\ leaked' \in [Worker -> Nat]
  BY DEF ProcessEnds, TypeOK
<1>2. LoopTyped'
  BY FirstQueue DEF ProcessEnds, IdleLoop, LoopState, LoopTyped, TypeOK
<1>3. proc' \in [Worker -> [Slot -> ProcState]]
  BY DEF ProcessEnds, ProcState, TypeOK
<1>4. reaper' \in [Worker -> ReaperState]
  BY DEF ProcessEnds, IdleReaper, ReaperState, TypeOK
<1>5. StopperTyped'
  BY FirstQueue
     DEF ProcessEnds, IdleStopper, StopperState, StopperTyped, TypeOK
<1>6. phase' \in [Worker -> Phase]
  BY DEF ProcessEnds, Phase, TypeOK
<1> QED
  BY <1>1, <1>2, <1>3, <1>4, <1>5, <1>6
     DEF ProcessEnds, LoopTyped, StopperTyped, TypeOK, BrokerTypeOK,
         brokerVars, clientVars

\* The steps of stop() keep the types.
LEMMA StopStepType ==
  ASSUME TypeOK, NEW w \in Worker, StopBegin(w) \/ StopStep(w)
  PROVE  TypeOK'
<1> USE SystemAssumption
<1>1. stopper[w] \in StopperState
  BY DEF TypeOK
<1>2. /\ stopper[w].ids \in SUBSET Task /\ stopper[w].rest \in SUBSET Task
      /\ stopper[w].qi \in DOMAIN QueuesOf[w]
  BY <1>1 DEF StopperState, TypeOK
<1>3. 1 \in DOMAIN QueuesOf[w] /\ {} \in SUBSET Task
  BY FirstQueue
<1>4. CASE StopBegin(w)
  <2>1. used' \in [Disturbance -> Nat]
    BY <1>4, SpendType DEF StopBegin, TypeOK, Disturbance
  <2>2. StopperTyped'
    BY <1>3, <1>4, StopGoesType DEF StopBegin
  <2>3. LoopTyped'
    BY <1>3, <1>4, SetLoopType DEF StopBegin, LoopTyped, TypeOK
  <2>4. reaper' \in [Worker -> ReaperState]
    BY <1>4 DEF StopBegin, IdleReaper, ReaperState, TypeOK
  <2>5. phase' \in [Worker -> Phase]
    BY <1>4 DEF StopBegin, Phase, TypeOK
  <2> QED
    BY <1>4, <2>1, <2>2, <2>3, <2>4, <2>5
       DEF StopBegin, LoopTyped, StopperTyped, TypeOK, BrokerTypeOK,
           brokerVars, clientVars
<1>5. CASE StopAllEnded(w)
  <2>1. StopperTyped'
    BY <1>3, <1>5, StopGoesType DEF StopAllEnded
  <2> QED
    BY <1>5, <2>1
       DEF StopAllEnded, StopperTyped, TypeOK, BrokerTypeOK, brokerVars,
           workerVars, clientVars
<1>6. CASE \E ids \in SUBSET Task : StopTimesOut(w, ids)
  <2>1. StopperTyped'
    BY <1>3, <1>6, StopGoesType DEF StopTimesOut
  <2> QED
    BY <1>6, <2>1
       DEF StopTimesOut, StopperTyped, TypeOK, BrokerTypeOK, brokerVars,
           workerVars, clientVars
<1>7. CASE StopCancels(w)
  <2>1. StopperTyped'
    BY <1>2, <1>3, <1>7, StopGoesType DEF StopCancels
  <2>2. /\ proc' \in [Worker -> [Slot -> ProcState]]
        /\ leaked' \in [Worker -> Nat]
    BY <1>7, InterruptAllType DEF StopCancels
  <2> QED
    BY <1>7, <2>1, <2>2
       DEF StopCancels, StopperTyped, TypeOK, BrokerTypeOK, brokerVars,
           clientVars
<1>8. CASE \E t \in Task : StopRequeue(w, t)
  <2>1. PICK t \in Task : StopRequeue(w, t)
    BY <1>8
  <2>2. /\ stopper[w].rest \ {t} \in SUBSET Task
        /\ stopper[w].qi < Len(QueuesOf[w]) =>
             stopper[w].qi + 1 \in DOMAIN QueuesOf[w]
    BY <1>2, FirstQueue
  <2>3. StopNextQueue(w) => StopperTyped'
    BY <1>2, <1>3, <2>2, StopGoesType DEF StopNextQueue
  <2>4. StopperTyped'
    BY <1>2, <2>1, <2>2, <2>3, StopGoesType DEF StopRequeue, Call
  <2>5. used' \in [Disturbance -> Nat]
    BY <2>1, SpendType DEF StopRequeue, Call, TypeOK, Disturbance
  <2>6. QueuesOf[w][stopper[w].qi] \in Queue
    BY <1>2
  <2>7. BrokerTypeOK'
    BY <2>1, <2>6, CommandTypes DEF StopRequeue, Call, TypeOK
  <2> QED
    BY <2>1, <2>4, <2>5, <2>7
       DEF StopRequeue, StopperTyped, TypeOK, workerVars, clientVars
<1>9. CASE StopDeregister(w)
  <2>1. StopperTyped'
    BY <1>2, <1>3, <1>9, StopGoesType DEF StopDeregister, Call
  <2>2. used' \in [Disturbance -> Nat]
    BY <1>9, SpendType DEF StopDeregister, Call, TypeOK, Disturbance
  <2>3. BrokerTypeOK'
    BY <1>9, CommandTypes DEF StopDeregister, Call, TypeOK
  <2> QED
    BY <1>9, <2>1, <2>2, <2>3
       DEF StopDeregister, StopperTyped, TypeOK, workerVars, clientVars
<1>10. CASE RunReturns(w)
  <2>1. StopperTyped'
    BY <1>10, FirstQueue
       DEF RunReturns, IdleStopper, StopperState, StopperTyped, TypeOK
  <2>2. /\ proc' \in [Worker -> [Slot -> ProcState]]
        /\ leaked' \in [Worker -> Nat]
    BY <1>10, InterruptAllType DEF RunReturns
  <2>3. phase' \in [Worker -> Phase]
    BY <1>10 DEF RunReturns, Phase, TypeOK
  <2> QED
    BY <1>10, <2>1, <2>2, <2>3
       DEF RunReturns, StopperTyped, TypeOK, BrokerTypeOK, brokerVars,
           clientVars
<1>11. CASE Exit(w)
  BY <1>11, ProcessEndsType DEF Exit, TypeOK
<1> QED
  BY <1>4, <1>5, <1>6, <1>7, <1>8, <1>9, <1>10, <1>11 DEF StopStep

\* A worker's start, registration, heartbeat, maintenance and death keep the
\* types.
LEMMA WorkerLifeType ==
  ASSUME TypeOK, NEW w \in Worker,
         \/ Start(w) \/ Register(w) \/ MaintenanceStep(w)
         \/ Heartbeat(w) \/ FallSilent(w) \/ Crash(w)
  PROVE  TypeOK'
<1> USE SystemAssumption, QueueOfAssumption
<1>1. reaper \in [Worker -> ReaperState] /\ IdleReaper \in ReaperState
  BY DEF TypeOK, ReaperState, IdleReaper
<1>2. CASE Start(w)
  BY <1>1, <1>2 DEF Start, ReaperState, Phase, TypeOK, BrokerTypeOK, brokerVars,
     clientVars
<1>3. CASE Register(w)
  <2>1. BrokerTypeOK'
    BY <1>3, CommandTypes DEF Register, Call, TypeOK
  <2>2. used' \in [Disturbance -> Nat]
    BY <1>3, SpendType DEF Register, Call, TypeOK, Disturbance
  <2> QED
    BY <1>3, <2>1, <2>2 DEF Register, Call, Phase, TypeOK, reapVars, clientVars
<1>4. CASE ReapScan(w)
  BY <1>1, <1>4 DEF ReapScan, ReaperState, TypeOK, BrokerTypeOK, brokerVars,
     workerVars, clientVars
<1>5. CASE \E v \in Worker : ReapQueue(w, v)
  <2>1. PICK v \in Worker : ReapQueue(w, v)
    BY <1>5
  <2>2. reaper[w] \in ReaperState
    BY <1>1
  <2>3. reaper[w].qi \in Nat \ {0} /\ reaper[w].todo \subseteq Worker
    BY <2>2 DEF ReaperState
  <2>4. QueuesOf[v][reaper[w].qi] \in Queue
    BY <2>1, <2>3, FirstQueue DEF ReapQueue
  <2>5. BrokerTypeOK'
    BY <2>1, <2>4, CommandTypes DEF ReapQueue, Call, TypeOK
  <2>6. used' \in [Disturbance -> Nat]
    BY <2>1, SpendType DEF ReapQueue, Call, TypeOK, Disturbance
  <2>7. reaper' \in [Worker -> ReaperState]
    <3> DEFINE r == [todo |-> reaper[w].todo \ {v}, victim |-> v,
                     qi |-> reaper[w].qi + 1]
    <3>1. r \in ReaperState
      BY <2>3 DEF ReaperState
    <3>2. \/ reaper' = [reaper EXCEPT ![w] = r]
          \/ reaper' = [reaper EXCEPT ![w] = IdleReaper]
      BY <2>1 DEF ReapQueue, Call
    <3> HIDE DEF r
    <3> QED
      BY <1>1, <3>1, <3>2
  <2> QED
    BY <2>1, <2>5, <2>6, <2>7 DEF ReapQueue, TypeOK, workerVars, clientVars
<1>6. CASE ReapForget(w)
  <2>1. reaper[w] \in ReaperState
    BY <1>1
  <2>2. reaper[w].victim \in Worker /\ reaper[w].todo \subseteq Worker
    BY <1>6, <2>1 DEF ReapForget, ReaperState
  <2>3. BrokerTypeOK'
    BY <1>6, <2>2, CommandTypes DEF ReapForget, Call, TypeOK
  <2>4. used' \in [Disturbance -> Nat]
    BY <1>6, SpendType DEF ReapForget, Call, TypeOK, Disturbance
  <2>5. reaper' \in [Worker -> ReaperState]
    <3> DEFINE r == [IdleReaper EXCEPT !.todo = reaper[w].todo]
    <3>1. r \in ReaperState
      BY <1>1, <2>2 DEF ReaperState
    <3>2. \/ reaper' = [reaper EXCEPT ![w] = r]
          \/ reaper' = [reaper EXCEPT ![w] = IdleReaper]
      BY <1>6 DEF ReapForget, Call
    <3> HIDE DEF r
    <3> QED
      BY <1>1, <3>1, <3>2
  <2> QED
    BY <1>6, <2>3, <2>4, <2>5 DEF ReapForget, TypeOK, workerVars, clientVars
<1>7. CASE \E i \in DOMAIN QueuesOf[w], due \in SUBSET Task : Promote(w, i, due)
  <2>1. PICK i \in DOMAIN QueuesOf[w], due \in SUBSET Task : Promote(w, i, due)
    BY <1>7
  <2>2. BrokerTypeOK'
    BY <2>1, CommandTypes DEF Promote, Call, TypeOK
  <2>3. used' \in [Disturbance -> Nat]
    BY <2>1, SpendType DEF Promote, Call, TypeOK, Disturbance
  <2> QED
    BY <2>1, <2>2, <2>3 DEF Promote, TypeOK, workerVars, reapVars, clientVars
<1>8. CASE Heartbeat(w)
  BY <1>8 DEF Heartbeat, TypeOK, BrokerTypeOK, brokerVars, workerVars,
     clientVars
<1>9. CASE FallSilent(w)
  <2>1. used' \in [Disturbance -> Nat]
    BY <1>9, SpendType DEF FallSilent, TypeOK, Disturbance
  <2> QED
    BY <1>9, <2>1 DEF FallSilent, TypeOK, BrokerTypeOK, brokerVars, workerVars,
       clientVars
<1>10. CASE Crash(w)
  <2>1. used' \in [Disturbance -> Nat]
    BY <1>10, SpendType DEF Crash, TypeOK, Disturbance
  <2> QED
    BY <1>10, <2>1, ProcessEndsType DEF Crash
<1> QED
  BY <1>2, <1>3, <1>4, <1>5, <1>6, <1>7, <1>8, <1>9, <1>10 DEF MaintenanceStep

\* The clients', the operators' and Redis' own steps keep the types.
LEMMA EnvironmentType ==
  ASSUME TypeOK, \/ ClientStep \/ OperatorStep
                 \/ \E t \in Task : TtlRunsOut(t)
  PROVE  TypeOK'
<1> USE SystemAssumption, QueueOfAssumption
<1>1. \A pcs, pc, t, n : pc \in pcs /\ t \in Task /\ n \in Nat =>
        [pc |-> pc, task |-> t, retries |-> n] \in CopyState(pcs)
  BY DEF CopyState
<1>2. \A pcs : IdleCopy \in CopyState(pcs)
  BY DEF CopyState
<1>3. ASSUME NEW t \in Task, NEW isDelayed \in BOOLEAN, Submit(t, isDelayed)
      PROVE  TypeOK'
  <2>1. [status |-> "pending", retries |-> 0] \in TaskData
    BY DEF TaskData, Status
  <2>2. BrokerTypeOK'
    BY <1>3, <2>1, CommandTypes DEF Submit, TypeOK
  <2> QED
    BY <1>3, <2>2 DEF Submit, TypeOK, workerVars, reapVars
<1>4. ASSUME NEW c \in Client, NEW t \in Task, CancelRead(c, t)
      PROVE  TypeOK'
  <2>1. hash[t].retries \in Nat
    BY <1>4 DEF CancelRead, TypeOK, BrokerTypeOK, TaskData
  <2>2. canceller' \in [Client -> CopyState({"read"})]
    BY <1>1, <1>4, <2>1 DEF CancelRead, TypeOK
  <2>3. used' \in [Disturbance -> Nat]
    BY <1>4, SpendType DEF CancelRead, TypeOK, Disturbance
  <2> QED
    BY <1>4, <2>2, <2>3 DEF CancelRead, TypeOK, BrokerTypeOK, brokerVars,
       workerVars, reapVars
<1>5. ASSUME NEW c \in Client, CancelWrite(c)
      PROVE  TypeOK'
  <2>1. /\ canceller[c].task \in Task
        /\ [status |-> "cancelled", retries |-> canceller[c].retries]
             \in TaskData
    BY <1>5 DEF CancelWrite, TypeOK, CopyState, IdleCopy, TaskData, Status
  <2>2. BrokerTypeOK'
    BY <1>5, <2>1, CommandTypes DEF CancelWrite, TypeOK
  <2>3. canceller' \in [Client -> CopyState({"read"})]
    BY <1>2, <1>5 DEF CancelWrite, TypeOK
  <2> QED
    BY <1>5, <2>2, <2>3 DEF CancelWrite, TypeOK, workerVars, reapVars
<1>6. ASSUME NEW o \in Operator, NEW t \in Task, DlqList(o, t)
      PROVE  TypeOK'
  <2>1. operator' \in [Operator -> CopyState(OperatorPC)]
    BY <1>1, <1>6 DEF DlqList, SetOperator, TypeOK, OperatorPC
  <2>2. used' \in [Disturbance -> Nat]
    BY <1>6, SpendType DEF DlqList, TypeOK, Disturbance
  <2> QED
    BY <1>6, <2>1, <2>2 DEF DlqList, TypeOK, BrokerTypeOK, brokerVars,
       workerVars, reapVars
<1>7. ASSUME NEW o \in Operator, RetryStep(o)
      PROVE  TypeOK'
  <2>1. operator[o] # IdleCopy =>
          operator[o].task \in Task /\ operator[o].retries \in Nat
    BY DEF TypeOK, CopyState
  <2>2. operator[o].pc # "idle"
    BY <1>7 DEF RetryStep, DlqTake, DlqFetch, DlqStore, DlqEnqueue
  <2>3. operator[o].task \in Task /\ operator[o].retries \in Nat
    BY <2>1, <2>2 DEF IdleCopy
  <2>4. \A n \in Nat : [status |-> "pending", retries |-> n] \in TaskData
    BY DEF TaskData, Status
  <2>5. \A pc \in OperatorPC, n \in Nat :
          SetOperator(o, pc, operator[o].task, n) =>
            operator' \in [Operator -> CopyState(OperatorPC)]
    BY <1>1, <2>3 DEF SetOperator, TypeOK
  <2>6. OperatorStops(o) => operator' \in [Operator -> CopyState(OperatorPC)]
    BY <1>2 DEF OperatorStops, TypeOK
  <2>7. CASE DlqTake(o)
    <3>1. BrokerTypeOK' /\ used' \in [Disturbance -> Nat]
      BY <2>3, <2>7, CommandTypes, SpendType
         DEF DlqTake, Call, TypeOK, Disturbance
    <3>2. operator' \in [Operator -> CopyState(OperatorPC)]
      BY <2>5, <2>6, <2>7 DEF DlqTake, Call, OperatorPC
    <3> QED
      BY <2>7, <3>1, <3>2 DEF DlqTake, TypeOK, workerVars, reapVars
  <2>8. CASE DlqFetch(o)
    <3>1. used' \in [Disturbance -> Nat]
      BY <2>8, SpendType DEF DlqFetch, TypeOK, Disturbance
    <3>2. hash[operator[o].task] # Null =>
            hash[operator[o].task].retries + 1 \in Nat
      BY <2>3 DEF TypeOK, BrokerTypeOK, TaskData
    <3>3. operator' \in [Operator -> CopyState(OperatorPC)]
      BY <2>5, <2>6, <2>8, <3>2 DEF DlqFetch, OperatorPC
    <3> QED
      BY <2>8, <3>1, <3>3 DEF DlqFetch, TypeOK, BrokerTypeOK, brokerVars,
         workerVars, reapVars
  <2>9. CASE DlqStore(o)
    <3>1. BrokerTypeOK' /\ used' \in [Disturbance -> Nat]
      BY <2>3, <2>4, <2>9, CommandTypes, SpendType
         DEF DlqStore, Call, TypeOK, Disturbance
    <3>2. operator' \in [Operator -> CopyState(OperatorPC)]
      BY <2>3, <2>5, <2>6, <2>9 DEF DlqStore, Call, OperatorPC
    <3> QED
      BY <2>9, <3>1, <3>2 DEF DlqStore, TypeOK, workerVars, reapVars
  <2>10. CASE DlqEnqueue(o)
    <3>1. BrokerTypeOK' /\ used' \in [Disturbance -> Nat]
      BY <2>3, <2>4, <2>10, CommandTypes, SpendType
         DEF DlqEnqueue, Call, TypeOK, Disturbance
    <3>2. operator' \in [Operator -> CopyState(OperatorPC)]
      BY <2>6, <2>10 DEF DlqEnqueue, Call
    <3> QED
      BY <2>10, <3>1, <3>2 DEF DlqEnqueue, TypeOK, workerVars, reapVars
  <2> QED
    BY <1>7, <2>7, <2>8, <2>9, <2>10 DEF RetryStep
<1>8. ASSUME NEW q \in Queue, Purge(q)
      PROVE  TypeOK'
  <2>1. BrokerTypeOK' /\ used' \in [Disturbance -> Nat]
    BY <1>8, CommandTypes, SpendType DEF Purge, TypeOK, Disturbance
  <2> QED
    BY <1>8, <2>1 DEF Purge, TypeOK, workerVars, reapVars, clientVars
<1>9. ASSUME NEW t \in Task, TtlRunsOut(t)
      PROVE  TypeOK'
  <2>1. BrokerTypeOK' /\ used' \in [Disturbance -> Nat]
    BY <1>9, CommandTypes, SpendType DEF TtlRunsOut, TypeOK, Disturbance
  <2> QED
    BY <1>9, <2>1 DEF TtlRunsOut, TypeOK, workerVars, reapVars, clientVars
<1> QED
  BY <1>3, <1>4, <1>5, <1>6, <1>7, <1>8, <1>9 DEF ClientStep, OperatorStep

\* A stuttering step keeps the types.
LEMMA StutterType == TypeOK /\ UNCHANGED vars => TypeOK'
BY DEF vars, TypeOK, BrokerTypeOK, brokerVars, workerVars, reapVars, clientVars

\* The initial state has the types.
LEMMA InitType == Init => TypeOK
BY SystemAssumption, FirstQueue
   DEF Init, TypeOK, BrokerInit, BrokerTypeOK, IdleLoop, LoopState, ProcState,
       IdleReaper, ReaperState, IdleStopper, StopperState, Phase, CopyState

(***************************************************************************)
(* TypeOK holds for every number of workers, tasks, queues and processors, *)
(* every middleware list, and whatever fails: no step of _dequeue_loop,    *)
(* _process_task, the maintenance loop, a client or an operator leaves the *)
(* states its successor expects.                                           *)
(***************************************************************************)
THEOREM TypeCorrect == Spec => []TypeOK
<1>1. Init => TypeOK
  BY InitType
<1>2. TypeOK /\ [Next]_vars => TypeOK'
  <2> SUFFICES ASSUME TypeOK, [Next]_vars PROVE TypeOK'
    OBVIOUS
  <2>1. CASE \E w \in Worker : WorkerStep(w)
    BY <2>1, LoopStepType, ProcStepType, WorkerLifeType, StopStepType
       DEF WorkerStep
  <2>2. CASE ClientStep \/ OperatorStep \/ \E t \in Task : TtlRunsOut(t)
    BY <2>2, EnvironmentType
  <2>3. CASE UNCHANGED vars
    BY <2>3, StutterType
  <2> QED
    BY <2>1, <2>2, <2>3 DEF Next
<1> QED
  BY <1>1, <1>2, PTL DEF Spec

-----------------------------------------------------------------------------
(* The semaphore of a worker loses no permit but to a `finally` that a       *)
(* failed nack or a cancel interrupts, and never gains one: PermitAccounting *)
(* is inductive together with TypeOK.                                        *)

(* The set of busy slots. *)

\* A worker has finitely many slots, so its busy ones can be counted.
LEMMA BusyFinite ==
  ASSUME NEW w \in Worker
  PROVE  IsFiniteSet(Busy(w)) /\ Cardinality(Busy(w)) \in Nat
BY SlotsCount DEF Busy

\* A step that keeps every slot of a worker as busy or as idle as it was, and
\* moves neither its loop nor its counters, keeps its permits.
LEMMA PermitsFrame ==
  ASSUME NEW w \in Worker,
         \A s \in Slot : proc'[w][s].pc = "idle" <=> proc[w][s].pc = "idle",
         UNCHANGED <<permits[w], leaked[w], loop[w]>>
  PROVE  UNCHANGED PermitsOf(w)
<1>1. UNCHANGED Busy(w)
  BY DEF Busy
<1> QED
  BY <1>1 DEF PermitsOf

\* Writing one slot leaves the slots of the other workers alone.
LEMMA SetProcOthers ==
  ASSUME TypeOK, NEW w \in Worker, NEW s \in Slot, NEW p, SetProc(w, s, p)
  PROVE  /\ proc'[w][s] = p
         /\ \A v \in Worker, r \in Slot :
              <<v, r>> # <<w, s>> => proc'[v][r] = proc[v][r]
BY DEF SetProc, TypeOK

\* A processor that starts makes one more slot busy.
LEMMA BusyGrows ==
  ASSUME TypeOK, NEW w \in Worker, NEW s \in Slot, NEW p,
         SetProc(w, s, p), proc[w][s].pc = "idle", p.pc # "idle"
  PROVE  Cardinality(Busy(w)') = Cardinality(Busy(w)) + 1
<1>1. Busy(w)' = Busy(w) \cup {s} /\ s \notin Busy(w)
  BY SetProcOthers DEF Busy
<1> QED
  BY <1>1, BusyFinite, FS_AddElement

\* A processor that ends makes one slot less busy.
LEMMA BusyShrinks ==
  ASSUME TypeOK, NEW w \in Worker, NEW s \in Slot,
         SetProc(w, s, IdleProc), proc[w][s].pc # "idle"
  PROVE  Cardinality(Busy(w)') = Cardinality(Busy(w)) - 1
<1>1. Busy(w)' = Busy(w) \ {s} /\ s \in Busy(w)
  BY SetProcOthers DEF Busy, IdleProc
<1> QED
  BY <1>1, BusyFinite, FS_RemoveElement

\* A step of one worker that keeps its permits and leaves the memory of the
\* other workers alone keeps the accounting.
LEMMA OneWorker ==
  ASSUME PermitAccounting, NEW w \in Worker,
         PermitsOf(w)' = PermitsOf(w) \/ PermitsOf(w)' = Concurrency,
         \A v \in Worker \ {w} :
           UNCHANGED <<permits[v], leaked[v], loop[v], proc[v]>>
  PROVE  PermitAccounting'
<1> SUFFICES ASSUME NEW v \in Worker PROVE PermitsOf(v)' = Concurrency
  BY DEF PermitAccounting
<1>1. CASE v = w
  BY <1>1 DEF PermitAccounting
<1>2. CASE v # w
  BY <1>2, PermitsFrame DEF PermitAccounting
<1> QED
  BY <1>1, <1>2

-----------------------------------------------------------------------------
(* The steps. *)

\* The dequeue loop takes a permit before it polls, and gives it back or hands
\* it to a processor on each of its exits.
LEMMA LoopStepPermits ==
  ASSUME TypeOK, PermitAccounting, NEW w \in Worker, LoopStep(w)
  PROVE  PermitAccounting'
<1>0. /\ permits[w] \in Nat /\ leaked[w] \in Nat
      /\ Cardinality(Busy(w)) \in Nat
      /\ loop \in [Worker -> LoopState] /\ permits \in [Worker -> Nat]
  BY BusyFinite DEF TypeOK
<1>1. ASSUME UNCHANGED <<proc, leaked>>,
             \/ /\ loop[w].pc = "acquire"
                /\ SetLoop(w, "poll", 1, Null)
                /\ permits' = [permits EXCEPT ![w] = @ - 1]
             \/ /\ loop[w].pc # "acquire"
                /\ \/ LoopAgain(w)
                   \/ /\ UNCHANGED permits
                      /\ \E pc \in {"poll", "fetch"} :
                           \E qi, t : SetLoop(w, pc, qi, t)
      PROVE  PermitAccounting'
  <2>1. UNCHANGED Busy(w)
    BY <1>1 DEF Busy
  <2>2. PermitsOf(w)' = PermitsOf(w)
    BY <1>0, <1>1, <2>1 DEF PermitsOf, LoopAgain, Release, SetLoop
  <2>3. \A v \in Worker \ {w} :
          UNCHANGED <<permits[v], leaked[v], loop[v], proc[v]>>
    BY <1>0, <1>1 DEF LoopAgain, Release, SetLoop
  <2> QED
    BY <2>2, <2>3, OneWorker
<1>2. CASE AcquirePermit(w)
  BY <1>1, <1>2 DEF AcquirePermit
<1>3. CASE PollEmpty(w)
  BY <1>1, <1>3 DEF PollEmpty
<1>4. CASE \E t \in Task : PopTask(w, t)
  BY <1>1, <1>4 DEF PopTask, Call
<1>5. CASE FetchNothing(w)
  BY <1>1, <1>5 DEF FetchNothing
<1>6. CASE FetchFails(w)
  BY <1>1, <1>6 DEF FetchFails
<1>7. CASE \E s \in Slot : Dispatch(w, s)
  <2>1. PICK s \in Slot : Dispatch(w, s)
    BY <1>7
  <2> DEFINE p == [IdleProc EXCEPT !.pc = "start", !.task = loop[w].task,
                                   !.status = hash[loop[w].task].status,
                                   !.retries = hash[loop[w].task].retries]
  <2>2. p.pc # "idle"
    BY DEF IdleProc
  <2>3. SetProc(w, s, p) /\ proc[w][s].pc = "idle"
    BY <2>1 DEF Dispatch, SetProc
  <2> HIDE DEF p
  <2>4. Cardinality(Busy(w)') = Cardinality(Busy(w)) + 1
    BY <2>2, <2>3, BusyGrows
  <2>5. loop[w].pc = "fetch" /\ loop'[w].pc = "acquire"
    BY <1>0, <2>1 DEF Dispatch, SetLoop
  <2>6. PermitsOf(w)' = PermitsOf(w)
    BY <1>0, <2>1, <2>4, <2>5 DEF PermitsOf, Dispatch
  <2>7. \A v \in Worker \ {w} :
          UNCHANGED <<permits[v], leaked[v], loop[v], proc[v]>>
    BY <1>0, <2>1, <2>3 DEF Dispatch, SetLoop, SetProc, TypeOK
  <2> QED
    BY <2>6, <2>7, OneWorker
<1> QED
  BY <1>2, <1>3, <1>4, <1>5, <1>6, <1>7 DEF LoopStep

\* A processor keeps its permit until it ends, and then gives it back, or
\* loses it in a nack that raises.
LEMMA ProcStepPermits ==
  ASSUME TypeOK, PermitAccounting, NEW w \in Worker, NEW s \in Slot,
         ExecStep(w, s) \/ ProcStep(w, s)
  PROVE  PermitAccounting'
<1>0. /\ permits[w] \in Nat /\ leaked[w] \in Nat
      /\ Cardinality(Busy(w)) \in Nat
      /\ permits \in [Worker -> Nat] /\ leaked \in [Worker -> Nat]
  BY BusyFinite DEF TypeOK
<1>1. ASSUME SetProc(w, s, IdleProc), proc[w][s].pc # "idle", UNCHANGED loop,
             \/ Release(w) /\ UNCHANGED leaked
             \/ UNCHANGED permits /\ leaked' = [leaked EXCEPT ![w] = @ + 1]
      PROVE  PermitAccounting'
  <2>1. Cardinality(Busy(w)') = Cardinality(Busy(w)) - 1
    BY <1>1, BusyShrinks
  <2>2. PermitsOf(w)' = PermitsOf(w)
    BY <1>0, <1>1, <2>1 DEF PermitsOf, Release
  <2>3. \A v \in Worker \ {w} :
          UNCHANGED <<permits[v], leaked[v], loop[v], proc[v]>>
    BY <1>0, <1>1 DEF Release, SetProc, TypeOK
  <2> QED
    BY <2>2, <2>3, OneWorker
<1>2. CASE Nack(w, s)
  BY <1>1, <1>2 DEF Nack, Call
<1>3. CASE Finish(w, s)
  BY <1>1, <1>3 DEF Finish
<1>4. CASE ~Nack(w, s) /\ ~Finish(w, s)
  <2>1. StaysBusy(w, s)
    BY <1>4, ProcStepType
  <2>2. PICK p \in BusyState : SetProc(w, s, p)
    BY <2>1 DEF StaysBusy
  <2>3. proc[w][s].pc # "idle" /\ p.pc # "idle"
    BY <2>1 DEF StaysBusy, BusyState, BusyPC
  <2>4. UNCHANGED <<permits, leaked, loop>>
    BY <1>4 DEF ExecStep, ProcStep, ExecDone, ExecExitsNonzero, ExecRaises,
       MarkCancelled, RejectProvider, MarkRunning, EnterChain, HookRaises,
       SeeCancel, RecordCancelled, Ack, RecordFailed, StoreRetry, Reenqueue,
       StoreCopy, ProcFrame
  <2>5. \A r \in Slot : proc'[w][r].pc = "idle" <=> proc[w][r].pc = "idle"
    BY <2>2, <2>3 DEF SetProc, TypeOK
  <2>6. UNCHANGED PermitsOf(w)
    BY <2>4, <2>5, PermitsFrame
  <2>7. \A v \in Worker \ {w} :
          UNCHANGED <<permits[v], leaked[v], loop[v], proc[v]>>
    BY <2>2, <2>4 DEF SetProc, TypeOK
  <2> QED
    BY <2>6, <2>7, OneWorker
<1> QED
  BY <1>2, <1>3, <1>4

\* A process that ends takes its semaphore with it.
LEMMA ProcessEndsPermits ==
  ASSUME TypeOK, PermitAccounting, NEW w \in Worker, ProcessEnds(w)
  PROVE  PermitAccounting'
<1>1. Busy(w)' = {}
  BY DEF ProcessEnds, Busy, IdleProc, TypeOK
<1>2. PermitsOf(w)' = Concurrency + Cardinality({}) + 0 + 0
  BY <1>1 DEF PermitsOf, ProcessEnds, IdleLoop, TypeOK
<1>3. PermitsOf(w)' = Concurrency
  BY <1>2, FS_EmptySet, SystemAssumption
<1>4. \A v \in Worker \ {w} :
        UNCHANGED <<permits[v], leaked[v], loop[v], proc[v]>>
  BY DEF ProcessEnds, TypeOK
<1> QED
  BY <1>3, <1>4, OneWorker

\* Of the processors that are cancelled, those whose `finally` is interrupted
\* end without a release; the others keep their permit.
LEMMA InterruptAllPermits ==
  ASSUME TypeOK, PermitAccounting, NEW w \in Worker, InterruptAll(w),
         UNCHANGED <<permits, loop>>
  PROVE  PermitAccounting'
<1> DEFINE lost ==
             {s \in Slot : proc[w][s].pc # "idle" /\ proc'[w][s].pc = "idle"}
<1>1. PICK f : /\ f \in [Slot -> UNION {Interrupted(proc[w][s]) : s \in Slot}]
               /\ \A s \in Slot : f[s] \in Interrupted(proc[w][s])
               /\ proc' = [proc EXCEPT ![w] = f]
  BY DEF InterruptAll
<1>2. \A s \in Slot : proc'[w][s] \in Interrupted(proc[w][s])
  BY <1>1 DEF TypeOK
<1>3. \A s \in Slot : proc[w][s].pc = "idle" => proc'[w][s].pc = "idle"
  <2>1. \A s \in Slot : proc[w][s].pc = "idle" =>
                         Interrupted(proc[w][s]) = {IdleProc}
    BY DEF Interrupted
  <2> QED
    BY <1>2, <2>1 DEF IdleProc
<1>4. Busy(w)' = Busy(w) \ lost
  BY <1>3 DEF Busy
<1>5. lost \subseteq Busy(w)
  BY DEF Busy
<1>6. Cardinality(Busy(w)') = Cardinality(Busy(w)) - Cardinality(lost)
  <2>1. Cardinality(Busy(w) \ lost) =
          Cardinality(Busy(w)) - Cardinality(Busy(w) \cap lost)
    BY BusyFinite, FS_Difference
  <2>2. Busy(w) \cap lost = lost
    BY <1>5
  <2> HIDE DEF lost
  <2> QED
    BY <1>4, <2>1, <2>2
<1>7. leaked' = [leaked EXCEPT ![w] = @ + Cardinality(lost)]
  BY DEF InterruptAll
<1>8. Cardinality(lost) \in Nat
  BY SlotsCount
<1> HIDE DEF lost
<1>9. PermitsOf(w)' = PermitsOf(w)
  <2>1. /\ permits[w] \in Nat /\ leaked[w] \in Nat
        /\ Cardinality(Busy(w)) \in Nat
        /\ leaked'[w] = leaked[w] + Cardinality(lost)
    BY <1>7, BusyFinite DEF TypeOK
  <2> QED
    BY <1>6, <1>8, <2>1 DEF PermitsOf
<1>10. \A v \in Worker \ {w} :
         UNCHANGED <<permits[v], leaked[v], loop[v], proc[v]>>
  BY <1>1, <1>7 DEF TypeOK
<1> QED
  BY <1>9, <1>10, OneWorker

\* stop() keeps the accounting: a cancelled loop keeps the permit it holds.
LEMMA StopStepPermits ==
  ASSUME TypeOK, PermitAccounting, NEW w \in Worker,
         StopBegin(w) \/ StopStep(w)
  PROVE  PermitAccounting'
<1>1. CASE StopBegin(w)
  <2>1. UNCHANGED Busy(w)
    BY <1>1 DEF StopBegin, Busy
  <2>2. loop[w].pc = "acquire" <=> loop'[w].pc = "acquire"
    BY <1>1 DEF StopBegin, SetLoop, TypeOK
  <2>3. PermitsOf(w)' = PermitsOf(w)
    BY <1>1, <2>1, <2>2 DEF StopBegin, PermitsOf
  <2>4. \A v \in Worker \ {w} :
          UNCHANGED <<permits[v], leaked[v], loop[v], proc[v]>>
    BY <1>1 DEF StopBegin, SetLoop, TypeOK
  <2> QED
    BY <2>3, <2>4, OneWorker
<1>2. CASE StopCancels(w)
  BY <1>2, InterruptAllPermits DEF StopCancels
<1>3. CASE RunReturns(w)
  BY <1>3, InterruptAllPermits DEF RunReturns
<1>4. CASE Exit(w)
  BY <1>4, ProcessEndsPermits DEF Exit
<1>5. CASE \/ StopAllEnded(w) \/ StopDeregister(w)
           \/ \E ids \in SUBSET Task : StopTimesOut(w, ids)
           \/ \E t \in Task : StopRequeue(w, t)
  <2>1. UNCHANGED <<permits, leaked, loop, proc>>
    BY <1>5 DEF StopAllEnded, StopDeregister, StopTimesOut, StopRequeue,
       workerVars
  <2> QED
    BY <2>1 DEF PermitAccounting, PermitsOf, Busy
<1> QED
  BY <1>1, <1>2, <1>3, <1>4, <1>5 DEF StopStep

\* What moves neither a processor, nor a loop, nor a permit keeps the
\* accounting.
LEMMA OtherPermits ==
  ASSUME PermitAccounting, UNCHANGED <<permits, leaked, loop, proc>>
  PROVE  PermitAccounting'
BY DEF PermitAccounting, PermitsOf, Busy

(***************************************************************************)
(* Every permit of a worker's semaphore is free, held by the dequeue loop, *)
(* held by one processor, or was lost by an interrupted `finally`, for     *)
(* every concurrency, whatever the workers share and whatever fails.       *)
(***************************************************************************)
THEOREM PermitsAccounted == Spec => []PermitAccounting
<1>1. Init => PermitAccounting
  <2> SUFFICES ASSUME Init, NEW w \in Worker PROVE PermitsOf(w) = Concurrency
    BY DEF PermitAccounting
  <2>1. Busy(w) = {}
    BY DEF Init, Busy, IdleProc
  <2>2. PermitsOf(w) = Concurrency + Cardinality({}) + 0 + 0
    BY <2>1 DEF Init, PermitsOf, IdleLoop
  <2> QED
    BY <2>2, FS_EmptySet, SystemAssumption
<1>2. TypeOK /\ PermitAccounting /\ [Next]_vars => PermitAccounting'
  <2> SUFFICES ASSUME TypeOK, PermitAccounting, [Next]_vars
               PROVE  PermitAccounting'
    OBVIOUS
  <2>1. ASSUME NEW w \in Worker, WorkerStep(w)
        PROVE  PermitAccounting'
    <3>1. CASE Start(w) \/ Register(w) \/ Heartbeat(w) \/ FallSilent(w)
      BY <3>1, OtherPermits DEF Start, Register, Heartbeat, FallSilent,
         workerVars
    <3>2. CASE MaintenanceStep(w)
      BY <3>2, OtherPermits DEF MaintenanceStep, ReapScan, ReapQueue,
         ReapForget, Promote, workerVars
    <3> QED
      BY <2>1, <3>1, <3>2, LoopStepPermits, ProcStepPermits, StopStepPermits,
         ProcessEndsPermits DEF WorkerStep, Crash
  <2>2. CASE ClientStep \/ OperatorStep \/ \E t \in Task : TtlRunsOut(t)
    BY <2>2, OtherPermits
       DEF ClientStep, OperatorStep, RetryStep, Submit, CancelRead,
           CancelWrite, DlqList, DlqTake, DlqFetch, DlqStore, DlqEnqueue,
           Purge, TtlRunsOut, workerVars
  <2>3. CASE UNCHANGED vars
    BY <2>3, OtherPermits DEF vars, workerVars
  <2> QED
    BY <2>1, <2>2, <2>3 DEF Next
<1> QED
  BY <1>1, <1>2, TypeCorrect, PTL DEF Spec

=============================================================================
