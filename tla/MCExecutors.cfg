CONSTANTS
  r1 = r1
  r2 = r2
  j1 = j1
  j2 = j2
  NoRun = NoRun
  Run <- MCRun
  Fd <- MCFd
  Job <- MCJob
  Timed <- MCTimed
  MaxLines <- MCMaxLines
SPECIFICATION ExecSpec
INVARIANTS
  ExecTypeOK
  OwnsDescriptor
  DispatchesToOwner
  ReapedAndClosed
  DeafOnlyByReuse
  NoOrphan
  CodexResultComplete
  CodexNoOrphan
PROPERTIES
  ExecutionEnds
  CodexEnds
\* Every call may have ended.
CHECK_DEADLOCK FALSE
