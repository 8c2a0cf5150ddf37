\* Any three requests on two connections, sent and read in any way; the workers' stacks hold
\* any two headers but those of two POSTs, and not the longest body.
CONSTANTS
  Scripts <- MCAny
  MaxConns = 2
  MaxRead = 4
  StackSize = 31
  Pipeline = TRUE
  Coalesce = TRUE
  Abandon = TRUE
SPECIFICATION Spec
INVARIANTS Served BodyAccounted 
CHECK_DEADLOCK FALSE
