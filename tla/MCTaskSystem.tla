---------------------------- MODULE MCTaskSystem ----------------------------
(* Small instances of TaskSystem for TLC. *)
EXTENDS TaskSystem, TLC

CONSTANTS
  \* Budget
  Faults, Cancels, Stops, Crashes, Stalls, DlqRetries, Purges, Expiries,
  Retries,      \* effective_max of every task
  Unsupported   \* the tasks that name a provider without an adapter

MCQueueOf == [t \in Task |-> CHOOSE q \in Queue : TRUE]
MCQueuesOf == [w \in Worker |-> <<CHOOSE q \in Queue : TRUE>>]

\* Every worker serves all the queues.
Seqs == INSTANCE SequencesExt
MCAllQueues == [w \in Worker |-> Seqs!SetToSeq(Queue)]

\* LoggingMiddleware and RetriesMiddleware, as `worker run` installs them.
MCChain == <<"hook", "retries">>
\* A hook on each side of RetriesMiddleware.
MCChain3 == <<"hook", "retries", "hook">>

MCSupported == Task \ Unsupported
MCRetryLimit == [t \in Task |-> Retries]

MCBudget ==
  [k \in Disturbance |->
     CASE k = "fault" -> Faults
       [] k = "cancel" -> Cancels
       [] k = "stop" -> Stops
       [] k = "crash" -> Crashes
       [] k = "stall" -> Stalls
       [] k = "dlqRetry" -> DlqRetries
       [] k = "purge" -> Purges
       [] k = "expiry" -> Expiries]

\* Workers serve the same queues and differ in nothing but their ids.
WorkerSymmetry == Permutations(Worker)
=============================================================================
