\* Two connections on two descriptors, two workers, a client that leaves early or shuts down its
\* side, and one that stops reading.
CONSTANTS
  Conns = {c1, c2}
  Workers = {w1, w2}
  MaxFd = 2
  NFds = 3
  MaxReqs = 2
  Early = {c1}
  Deaf = {c2}
  Half = {c1}
  Cgi = FALSE
  Listen = Listen
  None = None
SPECIFICATION FairSpec
INVARIANT Delivered
PROPERTIES AskedIsAnswered LeftIsClosed
CHECK_DEADLOCK FALSE
