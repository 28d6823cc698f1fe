\* Five operations: a holder, waiters behind it, and later callers.
CONSTANT MaxCalls = 5
CHECK_DEADLOCK FALSE
SPECIFICATION FairQueueSpec
PROPERTIES OneConversation EveryWaiterLeaves
