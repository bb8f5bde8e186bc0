CONSTANTS
  p1 = p1
  p2 = p2
  a1 = a1
  a2 = a2
  a3 = a3
  h1 = h1
  h2 = h2
  i1 = i1
  i2 = i2
  k1 = k1
  k2 = k2
  w1 = w1
  w2 = w2
  w3 = w3
  None = None
  Text <- MCText
  ClaudeLine <- MCClaudeLine
  CodexLine <- MCCodexLine
  MaxPrinted = 4
  MaxDebug = 2
  Processor <- MCProcessor
  MaxRpm = 2
  Window = 3
  Agent <- MCAgent
  Host <- MCHost
  HostOf <- MCHostOf
  MaxCost = 2
  HostBudget = 3
  TotalBudget = 4
  MaxLen = 2
  PageSize = 2
  MaxChunks = 3
  MaxRunners = 2
  Item <- MCItem
  Ticket <- MCTicket
  MaxTime = 3
  Member <- MCMember
  Reaper <- MCReaper
SPECIFICATION ServicesSpec
INVARIANTS
  ServicesTypeOK
  LinesIndependentOfChunks
  AnswerOfTheWholeOutput
  OneResultPerTool
  SoloRateLimited
  HostOverspend
  TotalOverspend
  SubscriberComplete
  ResultIsTerminal
  EachTaskOnce
  ReportIsBacked
  ListedUntilReaped
PROPERTIES
  SubscriptionEnds
  WaitEnds
  NeverOvertaken
  DeathIsNoticed
\* Every part may have come to its end.
CHECK_DEADLOCK FALSE
