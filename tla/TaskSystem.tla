----------------------------- MODULE TaskSystem -----------------------------
(***************************************************************************)
(* Workers, clients and DLQ operators around one Redis.                    *)
(*                                                                         *)
(* worker/worker.py: ClaudeWorker runs three asyncio loops (dequeue,       *)
(* heartbeat, maintenance) and up to `concurrency` processors, each a      *)
(* coroutine of _process_task.  middleware/retries.py re-enqueues from     *)
(* inside a processor.  client.py submits and cancels.  cli/dlq_cmd.py     *)
(* retries and purges.  An action is one await: a broker command with what *)
(* the code does before the next one.  A broker command may also fail,     *)
(* before or after Redis executed it.                                      *)
(***************************************************************************)
EXTENDS TaskBroker, Sequences

CONSTANTS
  Concurrency,  \* permits of a worker's semaphore
  QueuesOf,     \* QueuesOf[w]: the queues of worker w, in dequeue order
  Chain,        \* the middleware list: RetriesMiddleware or some other one
  Supported,    \* the tasks whose provider has an adapter
  RetryLimit,   \* RetryLimit[t]: effective_max of RetriesMiddleware for t
  Client,       \* processes that call ClaudeClient.cancel
  Operator,     \* processes that run `dlq retry`
  Budget        \* Budget[k]: how many disturbances of kind k may happen

Slot == 1 .. Concurrency

Disturbance ==
  {"fault", "cancel", "stop", "crash", "stall", "dlqRetry", "purge",
   "expiry"}

ASSUME SystemAssumption ==
  /\ Concurrency \in Nat \ {0}
  /\ QueuesOf \in [Worker -> Seq(Queue)]
  /\ \A w \in Worker : QueuesOf[w] # <<>>
  /\ Chain \in Seq({"hook", "retries"})
  /\ Supported \subseteq Task
  /\ RetryLimit \in [Task -> Nat]
  /\ Budget \in [Disturbance -> Nat]

VARIABLES
  submitted,  \* history: the ids handed to the broker by submit
  phase,      \* phase[w]: the worker process
  permits,    \* permits[w]: the value of the semaphore
  leaked,     \* history: permits that an interrupted `finally` kept
  loop,       \* loop[w]: the dequeue loop
  proc,       \* proc[w][s]: the processor in slot s, with its local Task copy
  silent,     \* workers whose last heartbeat is older than stale_timeout
  reaper,     \* reaper[w]: reap_stale_workers as worker w runs it
  stopper,    \* stopper[w]: ClaudeWorker.stop of worker w
  canceller,  \* canceller[c]: ClaudeClient.cancel as client c runs it
  operator,   \* operator[o]: retry_from_dlq as operator o runs it
  used        \* used[k]: the disturbances of kind k so far

workerVars == <<phase, permits, leaked, loop, proc>>
reapVars == <<silent, reaper, stopper>>
clientVars == <<submitted, canceller, operator>>
vars == <<brokerVars, workerVars, reapVars, clientVars, used>>

-----------------------------------------------------------------------------
(* Local state of the processes. *)

\* "stopping": stop() has begun.  "closing": run() has returned, the broker is
\* closed and asyncio.run has cancelled what was left.
Phase == {"off", "boot", "up", "stopping", "closing", "dead"}

Exception == {"none", "retry", "noRetry"}

IdleProc == [pc |-> "idle", task |-> Null, status |-> "pending",
             retries |-> 0, exc |-> "none", armed |-> FALSE]

BusyPC == {"start", "before", "exec", "ack", "failed", "cancelled",
           "ackCancelled", "retry", "reenqueue", "final"}

BusyState == [pc : BusyPC, task : Task, status : Status, retries : Nat,
              exc : Exception, armed : BOOLEAN]

ProcState == {IdleProc} \cup BusyState

IdleLoop == [pc |-> "acquire", qi |-> 1, task |-> Null]

LoopState ==
  [pc : {"acquire", "poll", "cancelled"}, qi : Nat, task : {Null}]
    \cup [pc : {"fetch"}, qi : Nat, task : Task]

IdleReaper == [todo |-> {}, victim |-> Null, qi |-> 1]

ReaperState ==
  [todo : SUBSET Worker, victim : Worker \cup {Null}, qi : Nat \ {0}]

IdleStopper == [pc |-> "none", ids |-> {}, rest |-> {}, qi |-> 1]

StopperState ==
  [pc : {"none", "wait", "cleanup", "requeue", "deregister", "done"},
   ids : SUBSET Task, rest : SUBSET Task, qi : Nat]

IdleCopy == [pc |-> "idle", task |-> Null, retries |-> 0]

CopyState(pcs) == {IdleCopy} \cup [pc : pcs, task : Task, retries : Nat]

OperatorPC == {"listed", "taken", "fetched", "stored"}

Init ==
  /\ BrokerInit
  /\ submitted = {}
  /\ phase = [w \in Worker |-> "off"]
  /\ permits = [w \in Worker |-> Concurrency]
  /\ leaked = [w \in Worker |-> 0]
  /\ loop = [w \in Worker |-> IdleLoop]
  /\ proc = [w \in Worker |-> [s \in Slot |-> IdleProc]]
  /\ silent = {}
  /\ reaper = [w \in Worker |-> IdleReaper]
  /\ stopper = [w \in Worker |-> IdleStopper]
  /\ canceller = [c \in Client |-> IdleCopy]
  /\ operator = [o \in Operator |-> IdleCopy]
  /\ used = [k \in Disturbance |-> 0]

\* Type invariant of the whole system.
TypeOK ==
  /\ BrokerTypeOK
  /\ submitted \subseteq Task
  /\ phase \in [Worker -> Phase]
  /\ permits \in [Worker -> Nat]
  /\ leaked \in [Worker -> Nat]
  /\ loop \in [Worker -> LoopState]
  /\ \A w \in Worker : loop[w].qi \in DOMAIN QueuesOf[w]
  /\ proc \in [Worker -> [Slot -> ProcState]]
  /\ silent \subseteq Worker
  /\ reaper \in [Worker -> ReaperState]
  /\ stopper \in [Worker -> StopperState]
  /\ \A w \in Worker : stopper[w].qi \in DOMAIN QueuesOf[w]
  /\ canceller \in [Client -> CopyState({"read"})]
  /\ operator \in [Operator -> CopyState(OperatorPC)]
  /\ used \in [Disturbance -> Nat]

-----------------------------------------------------------------------------
(* Disturbances. *)

Spend(k) == used[k] < Budget[k] /\ used' = [used EXCEPT ![k] = @ + 1]

\* A broker command with its continuation, or the exception it raises: the
\* connection may break before Redis ran the command or after.
Call(Command, ok, err) ==
  \/ Command /\ ok /\ UNCHANGED used
  \/ Spend("fault") /\ (Command \/ UNCHANGED brokerVars) /\ err

-----------------------------------------------------------------------------
(* Client: submit, and cancel as a read-modify-write of the stored task. *)

Submit(t, isDelayed) ==
  /\ t \notin submitted
  /\ submitted' = submitted \cup {t}
  /\ EnqueueScript(t, [status |-> "pending", retries |-> 0], isDelayed)
  /\ UNCHANGED <<workerVars, reapVars, canceller, operator, used>>

CancelRead(c, t) ==
  /\ canceller[c].pc = "idle"
  /\ hash[t] # Null
  /\ Spend("cancel")
  /\ canceller' = [canceller EXCEPT ![c] =
                     [pc |-> "read", task |-> t, retries |-> hash[t].retries]]
  /\ UNCHANGED <<brokerVars, workerVars, reapVars, submitted, operator>>

CancelWrite(c) ==
  /\ canceller[c].pc = "read"
  /\ UpdateTask(canceller[c].task,
                [status |-> "cancelled", retries |-> canceller[c].retries])
  /\ canceller' = [canceller EXCEPT ![c] = IdleCopy]
  /\ UNCHANGED <<workerVars, reapVars, submitted, operator, used>>

-----------------------------------------------------------------------------
(* Worker: start, and the dequeue loop. *)

SetLoop(w, pc, qi, t) ==
  loop' = [loop EXCEPT ![w] = [pc |-> pc, qi |-> qi, task |-> t]]

Release(w) == permits' = [permits EXCEPT ![w] = @ + 1]

\* `self._semaphore.release()` of the loop, back to `while self._running`.
LoopAgain(w) == SetLoop(w, "acquire", 1, Null) /\ Release(w)

\* start(): the first call reaps; its hgetall is the snapshot taken here.
Start(w) ==
  /\ phase[w] = "off"
  /\ phase' = [phase EXCEPT ![w] = "boot"]
  /\ reaper' = [reaper EXCEPT ![w].todo = workers \cap silent]
  /\ UNCHANGED <<brokerVars, permits, leaked, loop, proc, silent, stopper,
                 clientVars, used>>

\* start(): register, then the loops; an error ends the process.
Register(w) ==
  /\ phase[w] = "boot"
  /\ reaper[w] = IdleReaper
  /\ Call(RegisterWorker(w), phase' = [phase EXCEPT ![w] = "up"],
                             phase' = [phase EXCEPT ![w] = "dead"])
  /\ UNCHANGED <<permits, leaked, loop, proc, reapVars, clientVars>>

AcquirePermit(w) ==
  /\ phase[w] = "up"
  /\ loop[w].pc = "acquire"
  /\ permits[w] > 0
  /\ permits' = [permits EXCEPT ![w] = @ - 1]
  /\ SetLoop(w, "poll", 1, Null)
  /\ UNCHANGED <<brokerVars, phase, leaked, proc, reapVars, clientVars, used>>

PollEmpty(w) ==
  LET qi == loop[w].qi IN
  /\ loop[w].pc = "poll"
  /\ main[QueuesOf[w][qi]] = {}
  /\ IF qi < Len(QueuesOf[w])
     THEN SetLoop(w, "poll", qi + 1, Null) /\ UNCHANGED permits
     ELSE LoopAgain(w)
  /\ UNCHANGED <<brokerVars, phase, leaked, proc, reapVars, clientVars, used>>

PopTask(w, t) ==
  LET qi == loop[w].qi IN
  /\ loop[w].pc = "poll"
  /\ Call(DequeueScript(QueuesOf[w][qi], t),
          SetLoop(w, "fetch", qi, t) /\ UNCHANGED permits,
          LoopAgain(w))
  /\ UNCHANGED <<phase, leaked, proc, reapVars, clientVars>>

\* Faulty variant: a failed fetch that keeps its permit.
FetchFailsKeepsPermit(w) ==
  /\ loop[w].pc = "fetch"
  /\ Spend("fault")
  /\ SetLoop(w, "acquire", 1, Null)
  /\ UNCHANGED <<brokerVars, phase, permits, leaked, proc, reapVars,
                 clientVars>>

\* dequeue()'s get_task finds no hash: the popped id stays in the active set.
FetchNothing(w) ==
  /\ loop[w].pc = "fetch"
  /\ hash[loop[w].task] = Null
  /\ LoopAgain(w)
  /\ UNCHANGED <<brokerVars, phase, leaked, proc, reapVars, clientVars, used>>

FetchFails(w) ==
  /\ loop[w].pc = "fetch"
  /\ Spend("fault")
  /\ LoopAgain(w)
  /\ UNCHANGED <<brokerVars, phase, leaked, proc, reapVars, clientVars>>

\* The permit passes to the new processor.
Dispatch(w, s) ==
  LET t == loop[w].task IN
  /\ loop[w].pc = "fetch"
  /\ proc[w][s].pc = "idle"
  /\ hash[t] # Null
  /\ proc' = [proc EXCEPT ![w][s] =
                [IdleProc EXCEPT !.pc = "start", !.task = t,
                                 !.status = hash[t].status,
                                 !.retries = hash[t].retries]]
  /\ SetLoop(w, "acquire", 1, Null)
  /\ UNCHANGED <<brokerVars, phase, permits, leaked, reapVars, clientVars,
                 used>>

-----------------------------------------------------------------------------
(* Worker: _process_task. *)

SetProc(w, s, p) == proc' = [proc EXCEPT ![w][s] = p]

\* Faulty variant: a status that is not a TaskStatus.
RaisedAsError(p, e) == [p EXCEPT !.pc = "failed", !.status = "error", !.exc = e]

\* `except Exception`: the exception is kept and the task marked FAILED.
Raised(p, e) == [p EXCEPT !.pc = "failed", !.status = "failed", !.exc = e]

Data(p) == [status |-> p.status, retries |-> p.retries]

\* What a processor's step leaves alone besides its own slot.
ProcFrame == UNCHANGED <<phase, permits, leaked, loop, reapVars, clientVars>>

\* A processor's write of its local copy p into the task hash; with the broker
\* closed, `self.redis` raises.  (A registered script would still connect.)
StoreCopy(w, s, p, pcOk, pErr) ==
  /\ \/ /\ phase[w] # "closing"
        /\ Call(UpdateTask(p.task, Data(p)),
                SetProc(w, s, [p EXCEPT !.pc = pcOk]), SetProc(w, s, pErr))
     \/ /\ phase[w] = "closing"
        /\ SetProc(w, s, pErr) /\ UNCHANGED <<brokerVars, used>>
  /\ ProcFrame

MarkCancelled(w, s) ==
  LET p == proc[w][s] IN
  /\ p.pc = "start" /\ p.status = "cancelled"
  /\ StoreCopy(w, s, p, "ack", Raised(p, "retry"))

RejectProvider(w, s) ==
  LET p == [proc[w][s] EXCEPT !.status = "failed"] IN
  /\ proc[w][s].pc = "start" /\ proc[w][s].status # "cancelled"
  /\ p.task \notin Supported
  /\ StoreCopy(w, s, p, "final", Raised(p, "retry"))

MarkRunning(w, s) ==
  LET p == [proc[w][s] EXCEPT !.status = "running"] IN
  /\ proc[w][s].pc = "start" /\ proc[w][s].status # "cancelled"
  /\ p.task \in Supported
  /\ StoreCopy(w, s, p, "before", Raised(p, "retry"))

\* Is RetriesMiddleware among the first k middlewares?
RetriesAmong(k) == \E i \in 1 .. k : Chain[i] = "retries"

EnterChain(w, s) ==
  /\ proc[w][s].pc = "before"
  /\ SetProc(w, s, [proc[w][s] EXCEPT !.pc = "exec",
                                      !.armed = RetriesAmong(Len(Chain))])
  /\ UNCHANGED <<brokerVars, used>> /\ ProcFrame

\* A before_process hook raises: only the middlewares before it are "called".
HookRaises(w, s, k, e) ==
  /\ proc[w][s].pc = "before"
  /\ Chain[k] = "hook"
  /\ SetProc(w, s, Raised([proc[w][s] EXCEPT !.armed = RetriesAmong(k - 1)], e))
  /\ UNCHANGED <<brokerVars, used>> /\ ProcFrame

\* Faulty variants: ack without the record, and after a record that failed.
ExecDoneUnrecorded(w, s) ==
  LET p == [proc[w][s] EXCEPT !.status = "done"] IN
  /\ proc[w][s].pc = "exec"
  /\ SetProc(w, s, [p EXCEPT !.pc = "ack"])
  /\ UNCHANGED <<brokerVars, used>> /\ ProcFrame

ExecDoneIgnoresError(w, s) ==
  LET p == [proc[w][s] EXCEPT !.status = "done"] IN
  /\ proc[w][s].pc = "exec"
  /\ StoreCopy(w, s, p, "ack", [p EXCEPT !.pc = "ack"])

\* The CLI exits with code 0 and the outcome is recorded.
ExecDone(w, s) ==
  LET p == [proc[w][s] EXCEPT !.status = "done"] IN
  /\ proc[w][s].pc = "exec"
  /\ StoreCopy(w, s, p, "ack", Raised(p, "retry"))

\* The CLI exits with another code: FAILED, but no exception is kept.
ExecExitsNonzero(w, s) ==
  LET p == [proc[w][s] EXCEPT !.status = "failed"] IN
  /\ proc[w][s].pc = "exec"
  /\ StoreCopy(w, s, p, "final", Raised(p, "retry"))

\* The adapter raises: an authentication or billing error, a timeout, a
\* process that cannot be started.
ExecRaises(w, s, e) ==
  /\ proc[w][s].pc = "exec"
  /\ SetProc(w, s, Raised(proc[w][s], e))
  /\ UNCHANGED <<brokerVars, used>> /\ ProcFrame

\* _watch_for_cancel reads CANCELLED; the process is killed and
\* TaskCancelledError raised.
SeeCancel(w, s) ==
  LET p == proc[w][s] IN
  /\ p.pc = "exec" /\ phase[w] # "closing"
  /\ hash[p.task] # Null /\ hash[p.task].status = "cancelled"
  /\ SetProc(w, s, [p EXCEPT !.pc = "cancelled", !.status = "cancelled"])
  /\ UNCHANGED <<brokerVars, used>> /\ ProcFrame

\* `except TaskCancelledError`: an error in here goes straight to `finally`.
RecordCancelled(w, s) ==
  LET p == proc[w][s] IN
  /\ p.pc = "cancelled"
  /\ StoreCopy(w, s, p, "ackCancelled", [p EXCEPT !.pc = "final"])

\* The two calls of ack, inside `try` and inside `except TaskCancelledError`.
Ack(w, s) ==
  LET p == proc[w][s]
      finally == [p EXCEPT !.pc = "final"] IN
  /\ p.pc \in {"ack", "ackCancelled"}
  /\ Call(AckScript(p.task), SetProc(w, s, finally),
          SetProc(w, s, IF p.pc = "ack" THEN Raised(p, "retry") ELSE finally))
  /\ ProcFrame

WillRetry(p) ==
  p.armed /\ p.exc = "retry" /\ p.retries < RetryLimit[p.task]

\* `except Exception`: FAILED is stored before the middlewares see it.
RecordFailed(w, s) ==
  LET p == proc[w][s]
      pc == IF WillRetry(p) THEN "retry" ELSE "final" IN
  /\ p.pc = "failed"
  /\ StoreCopy(w, s, p, pc, [p EXCEPT !.pc = pc])

\* Faulty variant: the local copy stays FAILED, so `finally` nacks it as well.
StoreRetryStaysFailed(w, s) ==
  LET p == [proc[w][s] EXCEPT !.retries = @ + 1] IN
  /\ proc[w][s].pc = "retry"
  /\ StoreCopy(w, s, p, "reenqueue", [p EXCEPT !.pc = "final"])

\* Faulty variant: RETRYING is stored, the task is not enqueued.
StoreRetryOnly(w, s) ==
  LET p == [proc[w][s] EXCEPT !.status = "retrying", !.retries = @ + 1] IN
  /\ proc[w][s].pc = "retry"
  /\ StoreCopy(w, s, p, "final", [p EXCEPT !.pc = "final"])

\* RetriesMiddleware.after_process; _process_task swallows what it raises,
\* but the local copy already says RETRYING.
StoreRetry(w, s) ==
  LET p == [proc[w][s] EXCEPT !.status = "retrying", !.retries = @ + 1] IN
  /\ proc[w][s].pc = "retry"
  /\ StoreCopy(w, s, p, "reenqueue", [p EXCEPT !.pc = "final"])

\* The id is NOT removed from the active set.
Reenqueue(w, s) ==
  LET p == proc[w][s]
      finally == [p EXCEPT !.pc = "final"] IN
  /\ p.pc = "reenqueue"
  /\ Call(EnqueueScript(p.task, Data(p), TRUE), SetProc(w, s, finally),
          SetProc(w, s, finally))
  /\ ProcFrame

\* `finally`: nack what is still FAILED, then release the permit; a nack that
\* raises skips the release.
Nack(w, s) ==
  LET p == proc[w][s] IN
  /\ p.pc = "final" /\ p.status = "failed"
  /\ Call(NackScript(p.task), Release(w) /\ UNCHANGED leaked,
          UNCHANGED permits /\ leaked' = [leaked EXCEPT ![w] = @ + 1])
  /\ SetProc(w, s, IdleProc)
  /\ UNCHANGED <<phase, loop, reapVars, clientVars>>

\* Faulty variant: a processor that ends without releasing its permit.
FinishWithoutRelease(w, s) ==
  /\ proc[w][s].pc = "final" /\ proc[w][s].status # "failed"
  /\ SetProc(w, s, IdleProc)
  /\ UNCHANGED <<brokerVars, phase, permits, leaked, loop, reapVars, clientVars,
                 used>>

Finish(w, s) ==
  /\ proc[w][s].pc = "final" /\ proc[w][s].status # "failed"
  /\ SetProc(w, s, IdleProc)
  /\ Release(w)
  /\ UNCHANGED <<brokerVars, phase, leaked, loop, reapVars, clientVars, used>>

-----------------------------------------------------------------------------
(* Worker: heartbeat and maintenance loops; crashes. *)

\* The clock: stale_timeout passes without a heartbeat of w.  A stopping or dead
\* worker sends none; a live one falls silent when it or its connection stalls.
FallSilent(w) ==
  /\ w \in workers \ silent
  /\ \/ phase[w] \in {"stopping", "closing", "dead"} /\ UNCHANGED used
     \/ phase[w] = "up" /\ Spend("stall")
  /\ silent' = silent \cup {w}
  /\ UNCHANGED <<brokerVars, workerVars, reaper, stopper, clientVars>>

\* A heartbeat only refreshes an entry that is still there.
Heartbeat(w) ==
  /\ phase[w] = "up"
  /\ w \in workers \cap silent
  /\ silent' = silent \ {w}
  /\ UNCHANGED <<brokerVars, workerVars, reaper, stopper, clientVars, used>>

\* reap_stale_workers: one hgetall; what it returned is used to the end.
ReapScan(w) ==
  /\ phase[w] = "up"
  /\ reaper[w] = IdleReaper
  /\ workers \cap silent # {}
  /\ reaper' = [reaper EXCEPT ![w].todo = workers \cap silent]
  /\ UNCHANGED <<brokerVars, workerVars, silent, stopper, clientVars, used>>

\* reap_stale.lua on the next queue of the stale worker v; an error abandons
\* the whole pass.
ReapQueue(w, v) ==
  LET r == reaper[w] IN
  /\ v \in IF r.victim = Null THEN r.todo ELSE {r.victim}
  /\ r.qi <= Len(QueuesOf[v])
  /\ Call(ReapScript(QueuesOf[v][r.qi]),
          reaper' = [reaper EXCEPT ![w] = [todo |-> r.todo \ {v},
                                           victim |-> v, qi |-> r.qi + 1]],
          reaper' = [reaper EXCEPT ![w] = IdleReaper])
  /\ UNCHANGED <<workerVars, silent, stopper, clientVars>>

\* hdel of a worker whose queues are all reaped.
ReapForget(w) ==
  LET r == reaper[w] IN
  /\ r.victim # Null /\ r.qi > Len(QueuesOf[r.victim])
  /\ Call(ForgetWorker(r.victim),
          reaper' = [reaper EXCEPT ![w] = [IdleReaper EXCEPT !.todo = r.todo]],
          reaper' = [reaper EXCEPT ![w] = IdleReaper])
  /\ UNCHANGED <<workerVars, silent, stopper, clientVars>>

\* promote_delayed, after a complete reap pass.
Promote(w, i, due) ==
  /\ phase[w] = "up"
  /\ reaper[w] = IdleReaper
  /\ due # {}
  /\ Call(PromoteScript(QueuesOf[w][i], due), TRUE, TRUE)
  /\ UNCHANGED <<workerVars, reapVars, clientVars>>

\* A process is over: its memory goes, Redis keeps what it holds.
ProcessEnds(w) ==
  /\ phase' = [phase EXCEPT ![w] = "dead"]
  /\ permits' = [permits EXCEPT ![w] = Concurrency]
  /\ leaked' = [leaked EXCEPT ![w] = 0]
  /\ loop' = [loop EXCEPT ![w] = IdleLoop]
  /\ proc' = [proc EXCEPT ![w] = [s \in Slot |-> IdleProc]]
  /\ reaper' = [reaper EXCEPT ![w] = IdleReaper]
  /\ stopper' = [stopper EXCEPT ![w] = IdleStopper]
  /\ UNCHANGED <<brokerVars, silent, clientVars>>

Crash(w) ==
  /\ phase[w] \notin {"off", "dead"}
  /\ Spend("crash")
  /\ ProcessEnds(w)

-----------------------------------------------------------------------------
(* Worker: graceful stop. *)

StopGoes(w, pc, ids, rest, qi) ==
  stopper' = [stopper EXCEPT ![w] = [pc |-> pc, ids |-> ids, rest |-> rest,
                                     qi |-> qi]]

\* stop(): the loops are cancelled where they are; a task the dequeue loop is
\* fetching, and the permit it holds, go with it.
StopBegin(w) ==
  /\ phase[w] = "up"
  /\ Spend("stop")
  /\ phase' = [phase EXCEPT ![w] = "stopping"]
  /\ StopGoes(w, "wait", {}, {}, 1)
  /\ IF loop[w].pc = "acquire" THEN UNCHANGED loop
     ELSE SetLoop(w, "cancelled", 1, Null)
  /\ reaper' = [reaper EXCEPT ![w] = IdleReaper]
  /\ UNCHANGED <<brokerVars, permits, leaked, proc, silent, clientVars>>

Busy(w) == {s \in Slot : proc[w][s].pc # "idle"}

\* asyncio.wait returns: all processors have ended.
StopAllEnded(w) ==
  /\ stopper[w].pc = "wait"
  /\ Busy(w) = {}
  /\ StopGoes(w, "deregister", {}, {}, 1)
  /\ UNCHANGED <<brokerVars, workerVars, silent, reaper, clientVars, used>>

\* ... or shutdown_timeout has passed.  active_task_ids knows the tasks whose
\* CLI runs: of those in "exec", the ones forked and not yet read to the end.
StopTimesOut(w, ids) ==
  /\ stopper[w].pc = "wait"
  /\ Busy(w) # {}
  /\ \A t \in ids : \E s \in Slot : /\ proc[w][s].pc = "exec"
                                  /\ proc[w][s].task = t
  /\ StopGoes(w, "cleanup", ids, {}, 1)
  /\ UNCHANGED <<brokerVars, workerVars, silent, reaper, clientVars, used>>

\* What the local copy says while the await of p.pc is under way.
StatusIn(p) ==
  CASE p.pc = "start" /\ p.status # "cancelled" ->
         {IF p.task \in Supported THEN "running" ELSE "failed"}
    [] p.pc = "exec" -> {"running", "done", "failed"}
    [] OTHER -> {p.status}

\* CancelledError inside `finally`: the nack and the release are skipped.
Escapes(p) ==
  \/ p.pc \in {"retry", "reenqueue"}
  \/ p.pc = "final" /\ p.status = "failed"

\* Where t.cancel() may leave a processor.  _process_task does not catch
\* CancelledError, so it goes to `finally`, or out of it, from the await of an
\* after_process hook, too; one that lands in the `finally` of
\* _execute_watching_for_cancel is suppressed.
Interrupted(p) ==
  LET pc == IF p.pc = "failed" /\ WillRetry(p) THEN "retry" ELSE "final" IN
  IF p.pc = "idle" \/ Escapes(p) THEN {IdleProc}
  ELSE {[p EXCEPT !.pc = pc, !.status = st] : st \in StatusIn(p)}
         \cup {q \in {p} : q.pc = "exec"}
         \cup {q \in {IdleProc} : p.pc = "final"}

\* A faulty variant: cancelled processors that skip `finally` altogether.
InterruptAllSkipsFinally(w) ==
  /\ proc' = [proc EXCEPT ![w] = [s \in Slot |-> IdleProc]]
  /\ leaked' = [leaked EXCEPT ![w] =
                  @ + Cardinality({s \in Slot : Escapes(proc[w][s])})]

InterruptAll(w) ==
  /\ \E f \in [Slot -> UNION {Interrupted(proc[w][s]) : s \in Slot}] :
       /\ \A s \in Slot : f[s] \in Interrupted(proc[w][s])
       /\ proc' = [proc EXCEPT ![w] = f]
  /\ leaked' = [leaked EXCEPT ![w] = @ + Cardinality(
                  {s \in Slot : /\ proc[w][s].pc # "idle"
                                /\ proc'[w][s].pc = "idle"})]

\* cleanup_all has terminated the CLIs; the processors are cancelled.
StopCancels(w) ==
  LET ids == stopper[w].ids IN
  /\ stopper[w].pc = "cleanup"
  /\ InterruptAll(w)
  /\ StopGoes(w, IF ids = {} THEN "deregister" ELSE "requeue", ids, ids, 1)
  /\ UNCHANGED <<brokerVars, phase, permits, loop, silent, reaper, clientVars,
                 used>>

\* The next queue of the worker, with all ids again, or the end.
StopNextQueue(w) ==
  LET r == stopper[w] IN
  IF r.qi < Len(QueuesOf[w]) THEN StopGoes(w, "requeue", r.ids, r.ids, r.qi + 1)
  ELSE StopGoes(w, "deregister", r.ids, {}, 1)

\* requeue of one id into EACH queue of the worker, whatever queue it is from;
\* an id whose task expired is skipped, an error ends the queue's round.
StopRequeue(w, t) ==
  LET r == stopper[w] IN
  /\ r.pc = "requeue" /\ t \in r.rest
  /\ Call(IF hash[t] = Null THEN UNCHANGED brokerVars
          ELSE RequeueScript(QueuesOf[w][r.qi], t),
          IF r.rest = {t} THEN StopNextQueue(w)
          ELSE StopGoes(w, "requeue", r.ids, r.rest \ {t}, r.qi),
          StopNextQueue(w))
  /\ UNCHANGED <<workerVars, silent, reaper, clientVars>>

StopDeregister(w) ==
  /\ stopper[w].pc = "deregister"
  /\ Call(ForgetWorker(w), StopGoes(w, "done", stopper[w].ids, {}, 1),
                           StopGoes(w, "done", stopper[w].ids, {}, 1))
  /\ UNCHANGED <<workerVars, silent, reaper, clientVars>>

\* run() only watches `_running`, which stop() clears first.  Within a second
\* it returns, wherever stop() is; `worker run` closes the broker, and
\* asyncio.run cancels stop() and the processors.
RunReturns(w) ==
  /\ phase[w] = "stopping"
  /\ phase' = [phase EXCEPT ![w] = "closing"]
  /\ stopper' = [stopper EXCEPT ![w] = IdleStopper]
  /\ InterruptAll(w)
  /\ UNCHANGED <<brokerVars, permits, loop, silent, reaper, clientVars, used>>

\* asyncio.run waits for what it cancelled.
Exit(w) ==
  /\ phase[w] = "closing" /\ Busy(w) = {}
  /\ ProcessEnds(w) /\ UNCHANGED used

-----------------------------------------------------------------------------
(* Operator: `dlq retry` and `dlq purge`; Redis: a TTL runs out. *)

SetOperator(o, pc, t, n) ==
  operator' = [operator EXCEPT ![o] = [pc |-> pc, task |-> t, retries |-> n]]

OperatorStops(o) == operator' = [operator EXCEPT ![o] = IdleCopy]

\* list_dlq, from which the operator (or `--all`) takes an id.
DlqList(o, t) ==
  /\ operator[o].pc = "idle"
  /\ InDLQ(t) /\ hash[t] # Null
  /\ Spend("dlqRetry")
  /\ SetOperator(o, "listed", t, 0)
  /\ UNCHANGED <<brokerVars, workerVars, reapVars, submitted, canceller>>

\* retry_from_dlq: LREM, whose count is not looked at.
DlqTake(o) ==
  LET t == operator[o].task IN
  /\ operator[o].pc = "listed"
  /\ Call(DlqRemoveOne(t), SetOperator(o, "taken", t, 0), OperatorStops(o))
  /\ UNCHANGED <<workerVars, reapVars, submitted, canceller>>

\* retry_from_dlq: get_task; an expired task ends it without a word.
DlqFetch(o) ==
  LET t == operator[o].task IN
  /\ operator[o].pc = "taken"
  /\ \/ /\ UNCHANGED used
        /\ IF hash[t] = Null THEN OperatorStops(o)
           ELSE SetOperator(o, "fetched", t, hash[t].retries + 1)
     \/ Spend("fault") /\ OperatorStops(o)
  /\ UNCHANGED <<brokerVars, workerVars, reapVars, submitted, canceller>>

DlqStore(o) ==
  LET r == operator[o] IN
  /\ r.pc = "fetched"
  /\ Call(UpdateTask(r.task, [status |-> "pending", retries |-> r.retries]),
          SetOperator(o, "stored", r.task, r.retries), OperatorStops(o))
  /\ UNCHANGED <<workerVars, reapVars, submitted, canceller>>

DlqEnqueue(o) ==
  LET r == operator[o] IN
  /\ r.pc = "stored"
  /\ Call(EnqueueScript(r.task, [status |-> "pending", retries |-> r.retries],
                        FALSE),
          OperatorStops(o), OperatorStops(o))
  /\ UNCHANGED <<workerVars, reapVars, submitted, canceller>>

Purge(q) ==
  /\ \E t \in Task : dlq[q][t] > 0
  /\ Spend("purge")
  /\ PurgeDlq(q)
  /\ UNCHANGED <<workerVars, reapVars, clientVars>>

TtlRunsOut(t) ==
  /\ Spend("expiry")
  /\ ExpireHash(t)
  /\ UNCHANGED <<workerVars, reapVars, clientVars>>

-----------------------------------------------------------------------------
(* The system. *)

LoopStep(w) ==
  \/ AcquirePermit(w)
  \/ PollEmpty(w)
  \/ \E t \in Task : PopTask(w, t)
  \/ FetchNothing(w)
  \/ FetchFails(w)
  \/ \E s \in Slot : Dispatch(w, s)

ExecStep(w, s) ==
  \/ ExecDone(w, s)
  \/ ExecExitsNonzero(w, s)
  \/ \E e \in {"retry", "noRetry"} : ExecRaises(w, s, e)

ProcStep(w, s) ==
  \/ MarkCancelled(w, s)
  \/ RejectProvider(w, s)
  \/ MarkRunning(w, s)
  \/ EnterChain(w, s)
  \/ \E k \in DOMAIN Chain, e \in {"retry", "noRetry"} : HookRaises(w, s, k, e)
  \/ SeeCancel(w, s)
  \/ RecordCancelled(w, s)
  \/ Ack(w, s)
  \/ RecordFailed(w, s)
  \/ StoreRetry(w, s)
  \/ Reenqueue(w, s)
  \/ Nack(w, s)
  \/ Finish(w, s)

MaintenanceStep(w) ==
  \/ ReapScan(w)
  \/ \E v \in Worker : ReapQueue(w, v)
  \/ ReapForget(w)
  \/ \E i \in DOMAIN QueuesOf[w], due \in SUBSET Task : Promote(w, i, due)

StopStep(w) ==
  \/ StopAllEnded(w)
  \/ \E ids \in SUBSET Task : StopTimesOut(w, ids)
  \/ StopCancels(w)
  \/ \E t \in Task : StopRequeue(w, t)
  \/ StopDeregister(w)
  \/ RunReturns(w)
  \/ Exit(w)

WorkerStep(w) ==
  \/ Start(w)
  \/ Register(w)
  \/ LoopStep(w)
  \/ \E s \in Slot : ExecStep(w, s) \/ ProcStep(w, s)
  \/ MaintenanceStep(w)
  \/ Heartbeat(w)
  \/ FallSilent(w)
  \/ StopBegin(w)
  \/ StopStep(w)
  \/ Crash(w)

ClientStep ==
  \/ \E t \in Task, isDelayed \in BOOLEAN : Submit(t, isDelayed)
  \/ \E c \in Client, t \in Task : CancelRead(c, t)
  \/ \E c \in Client : CancelWrite(c)

RetryStep(o) == DlqTake(o) \/ DlqFetch(o) \/ DlqStore(o) \/ DlqEnqueue(o)

OperatorStep ==
  \/ \E o \in Operator, t \in Task : DlqList(o, t)
  \/ \E o \in Operator : RetryStep(o)
  \/ \E q \in Queue : Purge(q)

Next ==
  \/ \E w \in Worker : WorkerStep(w)
  \/ ClientStep
  \/ OperatorStep
  \/ \E t \in Task : TtlRunsOut(t)

Spec == Init /\ [][Next]_vars

(***************************************************************************)
(* Fairness.  A coroutine that can run is run by asyncio, and a command    *)
(* that keeps being possible is executed by Redis; an adapter's run ends,  *)
(* by exit, error or its timeout; delays elapse and time passes for a dead *)
(* worker.  Nothing obliges a client, an operator to begin, a disturbance  *)
(* or a TTL.                                                               *)
(***************************************************************************)
WorkerFairness(w) ==
  /\ WF_vars(Start(w) \/ Register(w))
  /\ WF_vars(LoopStep(w))
  /\ \A s \in Slot : WF_vars(ExecStep(w, s)) /\ WF_vars(ProcStep(w, s))
  /\ WF_vars(ReapScan(w) \/ ReapForget(w) \/ \E v \in Worker : ReapQueue(w, v))
  /\ WF_vars(\E i \in DOMAIN QueuesOf[w], due \in SUBSET Task :
                Promote(w, i, due))
  /\ WF_vars(phase[w] = "dead" /\ FallSilent(w))
  /\ WF_vars(Heartbeat(w))
  /\ WF_vars(StopStep(w))

Fairness ==
  /\ \A w \in Worker : WorkerFairness(w)
  /\ \A o \in Operator : WF_vars(RetryStep(o))

FairSpec == Spec /\ Fairness

-----------------------------------------------------------------------------
(* Properties. *)

\* A processor that may still run, record or settle the task t.
InHand(p, t) ==
  /\ p.task = t
  /\ p.pc # "final" \/ p.status = "failed"

\* Whoever may hold a task between two of its places in Redis.
Hand ==
  [kind : {"proc"}, worker : Worker, slot : Slot]
    \cup [kind : {"loop"}, worker : Worker]
    \cup [kind : {"operator"}, op : Operator]

Holds(h, t) ==
  \/ h.kind = "proc" /\ InHand(proc[h.worker][h.slot], t)
  \/ h.kind = "loop" /\ loop[h.worker].task = t
  \/ /\ h.kind = "operator"
     /\ operator[h.op].pc # "listed" /\ operator[h.op].task = t

Hands(t) == {h \in Hand : Holds(h, t)}

\* No worker process has died or been stopped, and none was taken for dead.
Undisturbed ==
  /\ used["stall"] = 0 /\ used["stop"] = 0
  /\ \A w \in Worker : phase[w] # "dead"

OneOperator == \A a, b \in Operator : a = b

OnePlace(t) ==
  /\ \A a, b \in Hands(t) : a = b
  /\ Hands(t) # {} => ~Queued(t) /\ ~InDLQ(t)
  /\ InDLQ(t) => ~Queued(t) /\ dlq[QueueOf[t]][t] = 1
  /\ t \notin main[QueueOf[t]] \cap delayed[QueueOf[t]]

(***************************************************************************)
(* Until a worker dies or stalls, a task is in one place only: one of the  *)
(* queues, once in the DLQ, or in the hands of one processor, loop or      *)
(* operator.  So it is never run twice at the same time, and not queued    *)
(* again while it is running (dequeue.lua's pop, retry's re-enqueue before *)
(* the processor lets go, nack and retry_from_dlq), even when broker calls *)
(* fail half-way.  Two operators who retry from one listing break it, as   *)
(* retry_from_dlq ignores LREM's count: it is claimed for one operator.    *)
(***************************************************************************)
NoDoubleRun == Undisturbed /\ OneOperator => \A t \in Task : OnePlace(t)

PermitsOf(w) ==
  permits[w] + Cardinality(Busy(w)) + leaked[w]
    + (IF loop[w].pc = "acquire" THEN 0 ELSE 1)

(***************************************************************************)
(* Every permit of a worker's semaphore is free, held by the dequeue loop, *)
(* held by one processor, or was lost by a `finally` that a failed nack or *)
(* a cancel interrupted: each of the other exits of _dequeue_loop and      *)
(* _process_task releases exactly once.                                    *)
(***************************************************************************)
PermitAccounting == \A w \in Worker : PermitsOf(w) = Concurrency

Recorded(t, statuses) == hash[t] # Null /\ hash[t].status \in statuses

(***************************************************************************)
(* Until a worker dies or stalls, a task is acknowledged only after the    *)
(* hash says DONE or CANCELLED, and, when no broker call failed, enters    *)
(* the DLQ only after it says FAILED (or a client's CANCELLED):            *)
(* update_task comes before ack and nack on each path of _process_task,    *)
(* and nobody else writes in between.  The second of two operators who     *)
(* retry from one listing would: it is claimed for one operator.           *)
(***************************************************************************)
OutcomeRecordedFirst ==
  [][Undisturbed /\ OneOperator =>
       \A t \in Task :
         /\ t \in acked' \ acked => Recorded(t, {"done", "cancelled"})
         /\ used["fault"] = 0 /\ ~InDLQ(t) /\ InDLQ(t)' =>
              Recorded(t, {"failed", "cancelled"})]_vars

Serves(w) == {QueuesOf[w][i] : i \in DOMAIN QueuesOf[w]}

\* A worker that sends no heartbeats any more, and is registered, so that it
\* will be found stale, serves the queue of t.
WillBeReaped(t) ==
  /\ t \in active[QueueOf[t]]
  /\ \E w \in workers : /\ phase[w] \in {"stopping", "closing", "dead"}
                        /\ QueueOf[t] \in Serves(w)

Accounted(t) ==
  t \in acked \cup discarded \/ Queued(t) \/ InDLQ(t) \/ Hands(t) # {}
  \/ WillBeReaped(t)

(***************************************************************************)
(* What docs/ARCHITECTURE_V2.md:13 says, "at-least-once delivery", a task  *)
(* is not lost before its ack: a submitted task is acknowledged, purged,   *)
(* queued, in the DLQ, in someone's hands, or in the active set of a queue *)
(* that the reaping of a dead worker will empty.                           *)
(***************************************************************************)
NothingLost == \A t \in submitted : Accounted(t)

\* Stranded, or to be run again although a worker has acknowledged it.
Damaged(t) == ~Accounted(t) \/ (t \in acked /\ (Queued(t) \/ InDLQ(t)))

(***************************************************************************)
(* A broker call that raises does no more harm than to its own task: until *)
(* a worker dies, stalls or is stopped, no more tasks are stranded, or     *)
(* queued or buried once more after their ack, than calls have failed.     *)
(* (One call may do it: dequeue's fetch, the first call of retry's         *)
(* re-enqueue, or ack's own script when Redis has executed it and DONE     *)
(* turns into FAILED.)                                                     *)
(***************************************************************************)
OneTaskPerFault ==
  Undisturbed /\ OneOperator /\ used["expiry"] = 0 =>
    Cardinality({t \in submitted : Damaged(t)}) <= used["fault"]

\* No failed call, no stop, no expiry under an operator's retry.
Steady ==
  /\ used["stop"] = 0 /\ used["fault"] = 0
  /\ used["expiry"] = 0 \/ used["dlqRetry"] = 0

(***************************************************************************)
(* NothingLost holds while no broker call fails, no worker is stopped by a *)
(* signal, no hash expires under an operator who retries, and workers      *)
(* either only crash or are only taken for dead while they live: a crash   *)
(* after such a reap is of a worker that is not registered any more.       *)
(***************************************************************************)
AtLeastOnce ==
  Steady /\ (used["crash"] = 0 \/ used["stall"] = 0) => NothingLost

\* Nothing that becomes of task t depends on worker w any more.
WithoutWorker(w, t) ==
  \/ t \in acked \cup discarded \/ Queued(t) \/ InDLQ(t) \/ WillBeReaped(t)
  \/ \E h \in Hands(t) : h.kind = "operator" \/ h.worker # w

(***************************************************************************)
(* "Requeue force-terminated tasks so they're not lost" (worker.py:151):   *)
(* when a stop has run through, and its calls did not fail, every task     *)
(* whose CLI it terminated is back in its queue, or in other hands, or     *)
(* ended, although its processor still does its own acks, nacks and        *)
(* retries while stop() requeues: the reaping that the deregistered worker *)
(* no longer gets is not needed for it.  A worker that took the task over  *)
(* may die in turn, with the proviso of AtLeastOnce.                       *)
(***************************************************************************)
ForcedStopRequeues ==
  [][\A w \in Worker :
       /\ stopper[w].pc = "deregister" /\ stopper'[w].pc = "done"
       /\ used["fault"] = 0 /\ used["expiry"] = 0 /\ used["stop"] = 1
       /\ used["crash"] = 0 \/ used["stall"] = 0
       => \A t \in stopper[w].ids : WithoutWorker(w, t)']_vars

(***************************************************************************)
(* What README.md:223 says of shutdown_timeout, the time a worker that is  *)
(* shut down waits for its running tasks: run() does not return before     *)
(* they have ended or the timeout has passed.                              *)
(***************************************************************************)
GracefulStopWaits ==
  [][\A w \in Worker :
       stopper[w].pc = "wait" /\ phase'[w] = "closing" => Busy(w) = {}]_vars

\* Every submitted task is acknowledged, or waits in the DLQ for an operator,
\* or was purged from there, in the end: retries are finite, every permit
\* comes back, and a dead worker's tasks are reaped and run by another one.
EveryTaskEnds ==
  \A t \in Task :
    t \in submitted ~> t \in acked \cup discarded \/ InDLQ(t)

\* The stage of the abstract life of t (module TaskLifecycle).
StageOf(t) ==
  CASE t \notin submitted -> "new"
    [] t \in submitted /\ InDLQ(t) -> "buried"
    [] t \in acked /\ ~InDLQ(t) -> "settled"
    [] t \in discarded \ acked /\ ~InDLQ(t) /\ ~Queued(t) /\ Hands(t) = {} ->
         "discarded"
    [] OTHER -> "open"

Lifecycle == INSTANCE TaskLifecycle WITH stage <- [t \in Task |-> StageOf(t)]

(***************************************************************************)
(* While no worker dies and no broker call fails, the whole system behaves *)
(* as TaskLifecycle says: an acknowledged task is never opened or buried   *)
(* again, a task leaves the DLQ only by an operator, and an open task ends.*)
(***************************************************************************)
ImplementsLifecycle == Lifecycle!Spec

(***************************************************************************)
(* What worker/worker.py:280 says of cancellation, "It also catches a      *)
(* cancel that landed before this watcher started": a recorded CANCELLED   *)
(* is not overwritten by the worker that starts the task.                  *)
(***************************************************************************)
CancelIsSeen ==
  [][\A t \in Task :
       Recorded(t, {"cancelled"}) => ~Recorded(t, {"running"})']_vars

(***************************************************************************)
(* What docs/ARCHITECTURE_V2.md:1064-1068 and broker/base.py say of the    *)
(* reaping, that it requeues the active tasks of the worker that went      *)
(* silent: no task leaves the active set for the main queue while a live   *)
(* worker's CLI runs it.                                                   *)
(***************************************************************************)
ReapSparesTheLiving ==
  [][\A t \in Task, w \in Worker \ silent, s \in Slot :
       proc[w][s].task = t /\ proc[w][s].pc = "exec" =>
         t \notin main'[QueueOf[t]] \ main[QueueOf[t]]]_vars

(***************************************************************************)
(* enqueue.lua:14, "A queued task must never expire mid-flight": the hash  *)
(* of an id in the main queue or the delayed set carries no TTL.           *)
(***************************************************************************)
QueuedNeverExpires == \A t \in expiring : ~Queued(t)
=============================================================================
