\* Two workers and two handlers; one client has two requests, one after the other.
CONSTANTS
  h1 = h1
  h2 = h2
  Threads = {w1, w2}
  Handlers = {h1, h2}
  MaxReqs <- MCReqs
  None = None
SPECIFICATION Spec
INVARIANTS OwnAnswers InOrder
SYMMETRY MCSymmetry
CHECK_DEADLOCK FALSE
