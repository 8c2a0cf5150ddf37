\* A client with two requests of any kind, one with a request for a page of two lines, and one
\* worker; the first client's answers fit into an empty send buffer, the second's do not.
CONSTANTS
  c1 = c1
  c2 = c2
  Clients = {c1, c2}
  Workers = {w1}
  Requests <- MCRequests
  Files <- MCFiles
  Chars <- MCChars
  Scripts <- MCScripts
  MaxReqs <- MCReqs
  SndBuf = 3
  None = None
SPECIFICATION Spec
INVARIANTS Intact Framed
PROPERTY ReaderIsServed
CHECK_DEADLOCK FALSE
