\* Chunks around one and two buffers, up to 17 bytes held; and every stream of up to 9 bytes: a
\* terminator, the byte after it, and another.
CONSTANTS
  Chunks <- MCChunks
  Bytes <- MCBytes
  Zero = 0
  MaxCount = 17
  CR = CR
  LF = LF
  Chars = {CR, LF, X}
  Reads <- MCReads
  MaxBytes = 9
SPECIFICATION StreamSpec
INVARIANTS InBounds Sound Complete StopIsHeaderEnd
PROPERTY ByteStreamSpec
CHECK_DEADLOCK FALSE
