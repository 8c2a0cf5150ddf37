--------------------------- MODULE HeaderScanner ---------------------------
(***************************************************************************)
(* The automaton that looks for the blank line ending a request header     *)
(* (HttpHandler::parse_read, src/src/http/http_handler.cc:101-130).        *)
(*                                                                         *)
(* A call scans one recv()'s bytes; the automaton's state outlives the     *)
(* call, so a terminator may be cut anywhere.  One step is one iteration   *)
(* of the loop.                                                            *)
(***************************************************************************)
EXTENDS Integers, Sequences

CONSTANTS Chars,     \* the values of a char
          CR, LF,    \* '\r' and '\n'
          Reads,     \* what one recv() may return
          MaxBytes   \* bound on the bytes scanned, for model checking

ASSUME ByteAssumption == CR \in Chars /\ LF \in Chars /\ CR # LF
ASSUME ReadsAssumption == Reads \subseteq Seq(Chars) \ {<<>>}
ASSUME MaxBytesAssumption == MaxBytes \in Nat

\* The states count the bytes of CR LF CR LF that are matched.
STATE_START    == 0
STATE_CR       == 1
STATE_CRLF     == 2
STATE_CRLFCR   == 3
STATE_CRLFCRLF == 4

VARIABLES
  data,      \* the bytes of the call that is running, or of the last one
  i,         \* the loop's index, from 0 as in the code
  stop,      \* *stop of the last call that returned
  state,     \* the automaton's state
  call,        \* whether a call is running
  seen,      \* history: the bytes scanned since the connection's first
  skipped    \* history: how many of them lie before the default branch's last byte, it included

scanvars == <<data, i, stop, state, call, seen, skipped>>

ScanTypeOK ==
  /\ data \in Seq(Chars)
  /\ i \in 0 .. Len(data)
  /\ stop \in 0 .. Len(data)
  /\ state \in STATE_START .. STATE_CRLFCRLF
  /\ call \in {"idle", "scan"}
  /\ seen \in Seq(Chars)
  /\ skipped \in 0 .. Len(seen)

ScanInit ==
  /\ data = <<>> /\ i = 0 /\ stop = 0
  /\ state = STATE_START
  /\ call = "idle"
  /\ seen = <<>> /\ skipped = 0

\* The byte a state waits for.
Expected(s) == IF s \in {STATE_START, STATE_CRLF} THEN CR ELSE LF

ParseRead(d) ==
  /\ call = "idle"
  /\ Len(seen) + Len(d) <= MaxBytes
  /\ data' = d /\ i' = 0 /\ stop' = 0
  /\ call' = "scan"
  /\ UNCHANGED <<state, seen, skipped>>

\* The default branch: the byte that follows a terminator is not looked at.
ScanDefault ==
  /\ call = "scan" /\ i < Len(data)
  /\ state = STATE_CRLFCRLF
  /\ state' = STATE_START
  /\ i' = i + 1
  /\ seen' = Append(seen, data[i + 1])
  /\ skipped' = Len(seen) + 1
  /\ UNCHANGED <<data, stop, call>>

\* Mutant: *stop is the number of bytes, not an index.
ReturnsOneMore(k) == stop' = k + 1 /\ call' = "idle"

\* The call returns with *stop = k.
Returns(k) == stop' = k /\ call' = "idle"

\* The last byte of the terminator: the call returns its index.
ScanFound ==
  /\ call = "scan" /\ i < Len(data)
  /\ state = STATE_CRLFCR /\ data[i + 1] = LF
  /\ state' = STATE_CRLFCRLF
  /\ Returns(i)
  /\ seen' = Append(seen, data[i + 1])
  /\ UNCHANGED <<data, i, skipped>>

\* Mutant: the line ends of CR LF LF count as a blank line's.
AdvanceLoosely(s, ch) ==
  IF ch = Expected(s) \/ s = STATE_CRLF THEN s + 1 ELSE STATE_START

\* The state that follows s on the byte ch.
Advance(s, ch) == IF ch = Expected(s) THEN s + 1 ELSE STATE_START

\* Any other byte, in any other state.
ScanByte ==
  /\ call = "scan" /\ i < Len(data)
  /\ state # STATE_CRLFCRLF
  /\ ~(state = STATE_CRLFCR /\ data[i + 1] = LF)
  /\ state' = Advance(state, data[i + 1])
  /\ i' = i + 1
  /\ seen' = Append(seen, data[i + 1])
  /\ UNCHANGED <<data, stop, call, skipped>>

\* Mutant: a call starts the automaton again.
EndResets ==
  /\ call = "scan" /\ i = Len(data)
  /\ Returns(Len(data))
  /\ state' = STATE_START
  /\ UNCHANGED <<data, i, seen, skipped>>

\* The loop ends without a terminator: the call returns len.
ScanEnd ==
  /\ call = "scan" /\ i = Len(data)
  /\ Returns(Len(data))
  /\ UNCHANGED <<data, i, state, seen, skipped>>

ScanNext ==
  \/ \E d \in Reads : ParseRead(d)
  \/ ScanDefault
  \/ ScanFound
  \/ ScanByte
  \/ ScanEnd

ScanSpec == ScanInit /\ [][ScanNext]_scanvars

-----------------------------------------------------------------------------
Terminator == <<CR, LF, CR, LF>>

\* The last k bytes of s are the first k of the terminator.
Ends(s, k) ==
  /\ k <= Len(s)
  /\ \A j \in 1 .. k : s[Len(s) - k + j] = Terminator[j]

\* The last n bytes of s are the first n of d.
LastAre(s, d, n) ==
  /\ n <= Len(s)
  /\ \A j \in 1 .. n : s[Len(s) - n + j] = d[j]

\* The last k bytes of s are all after its first n, and they follow no CR that is.
ClearOfCR(s, n, k) ==
  /\ Len(s) - n >= k
  /\ Len(s) - n > k => s[Len(s) - k] # CR

\* A state other than START says what the bytes before it were, whatever calls
\* they came in: a header's end is never reported where no blank line is.
Sound == Ends(seen, state)

\* A blank line is reported, unless the byte before it is a CR, or one of its
\* bytes is the one that followed an earlier header and was not looked at.
Complete == Ends(seen, 4) /\ ClearOfCR(seen, skipped, 4) => state = STATE_CRLFCRLF

\* read_data() takes index < read_count for a header's end and cuts the read
\* after index: the bytes up to there are the last ones scanned and end in a
\* blank line; and index = read_count only if the whole read was scanned and
\* no header ends at its end (http_handler.cc:60-69, 90).
StopIsHeaderEnd ==
  call = "idle" /\ data # <<>> =>
    LET n == IF stop < Len(data) THEN stop + 1 ELSE stop IN
    /\ LastAre(seen, data, n)
    /\ (stop < Len(data)) = (state = STATE_CRLFCRLF)

-----------------------------------------------------------------------------
(* The inductive invariant.                                                *)

\* What the call has scanned so far is the end of what was ever scanned.
Scanned ==
  call = "scan" => LastAre(seen, data, i)

\* Within a call only its first byte can meet a terminator found before.
FoundReturns == call = "scan" /\ i > 0 => state # STATE_CRLFCRLF

\* After a byte that is not CR the automaton waits for one, and so it does after
\* a byte it did not look at.
WaitsForCR ==
  /\ Len(seen) = skipped => state = STATE_START
  /\ Len(seen) > skipped /\ seen[Len(seen)] # CR =>
       state \in {STATE_START, STATE_CRLF, STATE_CRLFCRLF}

\* A prefix of the terminator that follows no CR is being matched; one of length
\* 2 may be the end of a terminator.
Matching ==
  /\ Ends(seen, 1) /\ ClearOfCR(seen, skipped, 1) => state \in {STATE_CR, STATE_CRLFCR}
  /\ Ends(seen, 2) /\ ClearOfCR(seen, skipped, 2) => state \in {STATE_CRLF, STATE_CRLFCRLF}
  /\ Ends(seen, 3) /\ ClearOfCR(seen, skipped, 3) => state = STATE_CRLFCR

ScanIInv ==
  /\ ScanTypeOK
  /\ Sound
  /\ Complete
  /\ StopIsHeaderEnd
  /\ Scanned
  /\ FoundReturns
  /\ WaitsForCR
  /\ Matching

=============================================================================
