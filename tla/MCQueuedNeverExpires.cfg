SPECIFICATION Spec
CONSTANTS
  Worker = {w1, w2}
  Task = {t1}
  Queue = {q1}
  Null = Null
  Client = {c1}
  Operator = {o1}
  Concurrency = 1
  Unsupported = {}
  Faults = 0
  Cancels = 0
  Stops = 0
  Crashes = 1
  Stalls = 0
  DlqRetries = 0
  Purges = 0
  Expiries = 0
  Retries = 1
  QueueOf <- MCQueueOf
  QueuesOf <- MCQueuesOf
  Chain <- MCChain
  Supported <- MCSupported
  RetryLimit <- MCRetryLimit
  Budget <- MCBudget
INVARIANT QueuedNeverExpires
