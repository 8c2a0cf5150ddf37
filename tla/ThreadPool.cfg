\* A pool small enough for its queue to fill up, stopped at any moment or never.
CONSTANTS
  Workers = {w1, w2, w3}
  Handlers = {h1, h2}
  MaxRequests = 3
  MaxTries = 3
  StopAllowed = TRUE
  Server = Server
  Free = Free
  None = None
SPECIFICATION FairSpec
INVARIANTS TokensMatchQueue WokenFindsWork AtMostOneLateJob
PROPERTIES LeakIsPermanent JobQueueSpec QueuedIsRun LeakStopsPool
\* a refused submission blocks the event loop, and then every worker
CHECK_DEADLOCK FALSE
