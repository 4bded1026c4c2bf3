SPECIFICATION MessagesSpec
CONSTANTS
  AgentIds = {"a", "b"}
  Calls <- TwoAgentCalls
  Directories <- TwoAgentDirectories
  Workers = {"w1", "w2"}
  Handoffs <- TwoAgentHandoffs
  MessageCapacity = 2
  QueueCapacity = 1
  MaxCalls = 3
  MaxReplacements = 2
  MaxSessions = 2
  MaxRetries = 1
INVARIANTS InboxSound NothingLost
PROPERTIES
  InboxReliable EventuallyProcessed PromptSettles DeadlineEnds
CHECK_DEADLOCK FALSE
