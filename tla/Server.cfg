\* Four connections below, at and above MAX_FD, and without a descriptor; two workers
\* and CGI errors.
CONSTANTS
  Conns = {c1, c2, c3, c4}
  Workers = {w1, w2}
  MaxFd = 1
  NFds = 3
  MaxReqs = 1
  Early = {}
  Deaf = {}
  Half = {}
  Cgi = TRUE
  Listen = Listen
  None = None
SPECIFICATION Spec
SYMMETRY MCSymmetry
INVARIANTS HangsUpOnTheGone BacklogBound HandlersAgree SurvivesBelowLimit
CHECK_DEADLOCK FALSE
