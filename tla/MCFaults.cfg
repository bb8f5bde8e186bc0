SPECIFICATION Spec
CONSTANTS
  Worker = {w1}
  Task = {t1, t2}
  Queue = {q1}
  Null = Null
  Client = {c1}
  Operator = {o1}
  Concurrency = 2
  Unsupported = {t2}
  Faults = 2
  Cancels = 1
  Stops = 0
  Crashes = 0
  Stalls = 0
  DlqRetries = 1
  Purges = 0
  Expiries = 0
  Retries = 1
  QueueOf <- MCQueueOf
  QueuesOf <- MCQueuesOf
  Chain <- MCChain3
  Supported <- MCSupported
  RetryLimit <- MCRetryLimit
  Budget <- MCBudget
INVARIANT NoDoubleRun
INVARIANT PermitAccounting
INVARIANT OneTaskPerFault
PROPERTY OutcomeRecordedFirst
CHECK_DEADLOCK FALSE
