\* Two calls by two workers on two handlers, with three descriptors: room for a pipe and
\* one leak.  A body of 2 is longer than the array of events and than a pipe.
CONSTANTS
  Workers = {w1, w2}
  Handlers = {h1, h2}
  FieldSets <- BareOrFull
  Lengths = {1, 2}
  MaxCalls = 2
  NFds = 3
  NEvents = 1
  PipeSize = 1
SPECIFICATION FairSpec
INVARIANTS WaitsMatchChildren EnvIsOfHandler OneAnswer DiesOfWrites
PROPERTIES PipeFailsOfLeaks Settles
\* every call made and returned, or every worker waiting for a child that never ends
CHECK_DEADLOCK FALSE
