CONSTANTS
  h1 = h1
  h2 = h2
  agentEvents = agentEvents
  Handlers <- MCHandlers
  AgentDir <- agentEvents
  MaxFiles = 3
  MaxEventsPerFile = 2
  MaxEventsPerPeriod = 2
  NumOfEventFileRetries = 2
  QueueCapacity = 2
  MaxDirChanges = 1
  MaxRemoveFailures = 0
  EtpEnabled = TRUE

SPECIFICATION Spec

INVARIANT AgentLossOnRefusalBounded


CHECK_DEADLOCK FALSE
