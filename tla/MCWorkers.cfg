SPECIFICATION FairSpec
CONSTANTS
  Worker = {w1, w2}
  Task = {t1, t2}
  Queue = {q1}
  Null = Null
  Client = {c1}
  Operator = {o1}
  Concurrency = 1
  Unsupported = {t2}
  Faults = 0
  Cancels = 1
  Stops = 0
  Crashes = 0
  Stalls = 0
  DlqRetries = 1
  Purges = 1
  Expiries = 0
  Retries = 1
  QueueOf <- MCQueueOf
  QueuesOf <- MCQueuesOf
  Chain <- MCChain
  Supported <- MCSupported
  RetryLimit <- MCRetryLimit
  Budget <- MCBudget
INVARIANT TypeOK
INVARIANT NoDoubleRun
INVARIANT QueuedNeverExpires
PROPERTY OutcomeRecordedFirst
PROPERTY ImplementsLifecycle
