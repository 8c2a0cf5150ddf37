\* GETs, then POSTs of one length, whose parts no read mixes.
CONSTANTS
  Scripts <- MCRegular
  MaxConns = 2
  MaxRead = 2
  StackSize = 1000
  Pipeline = TRUE
  Coalesce = FALSE
  Abandon = FALSE
SPECIFICATION FairSpec
PROPERTY ExchangeSpec
CHECK_DEADLOCK FALSE
