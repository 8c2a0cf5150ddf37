\* One handler, and a third connection that finds only a descriptor above MAX_FD.
CONSTANTS
  Conns = {c1, c2, c3}
  Workers = {w1}
  MaxFd = 1
  NFds = 3
  MaxReqs = 1
  Early = {c1}
  Deaf = {}
  Half = {c1}
  Cgi = FALSE
  Listen = Listen
  None = None
SPECIFICATION FairSpec
PROPERTY TooManyIsClosed
CHECK_DEADLOCK FALSE
