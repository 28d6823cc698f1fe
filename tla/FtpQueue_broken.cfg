\* A burst outlasts the patience of a waiter; the caller after it finds the
\* session free and cannot have it.
CONSTANT MaxCalls = 3
CHECK_DEADLOCK FALSE
SPECIFICATION QueueSpec
INVARIANT ChainUnbroken
