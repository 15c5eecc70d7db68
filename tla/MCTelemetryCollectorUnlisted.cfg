CONSTANTS
  h1 = h1
  h2 = h2
  agentEvents = agentEvents
  Handlers <- MCHandlers
  AgentDir <- agentEvents
  MaxFiles = 2
  MaxEventsPerFile = 2
  MaxEventsPerPeriod = 2
  NumOfEventFileRetries = 2
  QueueCapacity = 2
  MaxDirChanges = 1
  MaxRemoveFailures = 0
  EtpEnabled = TRUE

SPECIFICATION Spec
PROPERTY CleanupRemovesOnlyListedFiles





CHECK_DEADLOCK FALSE
