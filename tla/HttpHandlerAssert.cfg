\* A POST, and the GET of the client that comes after one that gave up.
CONSTANTS
  Scripts <- MCPosts
  MaxConns = 2
  MaxRead = 4
  StackSize = 1000
  Pipeline = FALSE
  Coalesce = TRUE
  Abandon = TRUE
SPECIFICATION Spec
INVARIANT CountIsLen
CHECK_DEADLOCK FALSE
