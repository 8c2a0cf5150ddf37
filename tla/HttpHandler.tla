---------------------------- MODULE HttpHandler ----------------------------
(***************************************************************************)
(* One element of HttpServer's handlers, the handler of a file descriptor, *)
(* and the clients that are connected on that descriptor one after another *)
(* (src/src/http/http_handler.cc).                                         *)
(*                                                                         *)
(* The stream is a sequence of the units of Parser.  An action of the      *)
(* handler is one iteration of the loop of read_data(): a recv() and what  *)
(* is done with its bytes, up to the answers' send().  One worker at a     *)
(* time runs the handler here, and a connection is closed between runs.    *)
(***************************************************************************)
EXTENDS Integers, Sequences, SequencesExt, Parser

CONSTANTS
  Scripts,    \* the sequences of requests the clients may send
  MaxConns,   \* how many connections the descriptor serves
  MaxRead,    \* READ_BUFFER_SIZE - 1, in units
  StackSize,  \* the longest array a worker's stack has room for, in bytes
  Pipeline,   \* whether a client sends before the last answer has come
  Coalesce,   \* whether a recv() may return bytes of two send()s of a client
  Abandon     \* whether a client may leave before its answers have come

ASSUME MaxConnsAssumption == MaxConns \in Nat \ {0}
ASSUME MaxReadAssumption == MaxRead \in Nat \ {0}
ASSUME StackAssumption == StackSize \in Nat
ASSUME ScriptsAssumption == Scripts \subseteq Seq([kind : {"GET", "POST", "bad"}, length : Nat])
\* Only a POST has a body.
ASSUME BodiesAssumption == \A s \in Scripts : \A id \in DOMAIN s : s[id].kind # "POST" => s[id].length = 0

VARIABLES
  asked,      \* the requests sent so far, with their connection
  conn,       \* the connection the descriptor stands for
  wire,       \* units sent and not yet arrived
  sock,       \* units in the socket's receive buffer
  edge,       \* whether epoll has an event to report (EPOLLET)
  running,    \* whether a worker is in read_data()
  stage,      \* STAGE_HEADER or STAGE_BODY
  state,      \* the state of parse_read()
  buffer_list,   \* what append_data() has collected
  count,      \* how many bytes that is, as the list itself counts
  body_length, cur_body_len,
  request,    \* the request line, and the first Content-Length ever parsed or -1
  lex,        \* what the parser has not consumed
  resp,       \* the answers sent
  dead,       \* why the process has died
  overread,   \* history: a read held bytes behind the end of a message
  mixed,      \* history: units of two send()s of a client met in the socket
  abandoned   \* history: a client left before its answers had come

client == <<asked, conn, wire>>
history == <<overread, mixed, abandoned>>
handler == <<stage, state, buffer_list, count, body_length, cur_body_len, request>>
vars == <<client, sock, edge, running, handler, lex, resp, dead, history>>

alive == dead = "no"
MaxReqs == Max({Len(s) : s \in Scripts})

-----------------------------------------------------------------------------
(* Requests: a GET, a POST with n bytes of body, and a malformed header.   *)

Shape(r) == [kind |-> r.kind, length |-> r.length]

HeaderOf(r, id) ==
  CASE r.kind = "GET" -> <<Unit("line", id, 0), Unit("crlf", id, 0)>>
    [] r.kind = "POST" -> <<Unit("line", id, 0), Unit("field", id, r.length), Unit("crlf", id, 0)>>
    [] r.kind = "bad" -> <<Unit("byte", id, 0), Unit("crlf", id, 0), Unit("crlf", id, 0)>>
BodyOf(r, id) == [j \in 1 .. r.length |-> Unit("byte", id, j)]

Answer(c, to, status, body) == [conn |-> c, to |-> to, status |-> status, body |-> body]

\* The answer that is due to request id of reqs.
Due(reqs, id) == Answer(reqs[id].conn, id, 200, BodyOf(reqs[id], id))

\* new HttpHandler[MAX_FD] is one large allocation of fresh, zero pages, and the
\* constructor sets none of these fields.
Init ==
  /\ asked = <<>> /\ conn = 1 /\ wire = <<>>
  /\ sock = <<>> /\ edge = FALSE
  /\ running = FALSE
  /\ stage = "STAGE_HEADER" /\ state = "START"
  /\ buffer_list = <<>> /\ count = 0
  /\ body_length = 0 /\ cur_body_len = 0
  /\ request = [line |-> 0, length |-> -1]
  /\ lex = <<>>
  /\ resp = <<>>
  /\ dead = "no"
  /\ overread = FALSE /\ mixed = FALSE /\ abandoned = FALSE

-----------------------------------------------------------------------------
(* The clients and the network.                                            *)

Outstanding == \E id \in DOMAIN asked :
  asked[id].conn = conn /\ Cardinality({j \in DOMAIN resp : resp[j].conn = conn})
                             < Cardinality({j \in 1 .. id : asked[j].conn = conn})

Ask ==
  /\ alive
  /\ Pipeline \/ ~Outstanding
  /\ \E s \in Scripts :
       /\ Len(asked) < Len(s)
       /\ [id \in DOMAIN asked |-> Shape(asked[id])] = SubSeq(s, 1, Len(asked))
       /\ LET id == Len(asked) + 1 IN
          /\ asked' = Append(asked, [kind |-> s[id].kind, length |-> s[id].length, conn |-> conn])
          /\ wire' = wire \o HeaderOf(s[id], id) \o BodyOf(s[id], id)
  /\ UNCHANGED <<conn, sock, edge, running, handler, lex, resp, dead, history>>

\* A client sends a header and a body with a send() each.
SameSend(u, v) == u.req = v.req /\ (u.n > 0 /\ u.kind = "byte") = (v.n > 0 /\ v.kind = "byte")

\* Units arrive, as many as a segment holds: epoll has an event.
Arrive(n) ==
  /\ alive
  /\ n \in 1 .. Len(wire)
  /\ LET all == sock \o SubSeq(wire, 1, n) IN
       /\ sock' = all
       /\ mixed' = (mixed \/ \E j \in DOMAIN all : ~SameSend(all[j], all[1]))
       /\ Coalesce \/ \A j \in DOMAIN all : SameSend(all[j], all[1])
  /\ wire' = From(wire, n + 1)
  /\ edge' = TRUE
  /\ UNCHANGED <<asked, conn, running, handler, lex, resp, dead, overread, abandoned>>

\* The client leaves, and the next one gets the same descriptor: close_conn()
\* and init() change no field but the descriptor and the address.
Reconnect ==
  /\ alive /\ ~running
  /\ conn < MaxConns
  /\ Abandon \/ ~Outstanding
  /\ conn' = conn + 1
  /\ wire' = <<>> /\ sock' = <<>> /\ edge' = FALSE
  /\ abandoned' = (abandoned \/ Outstanding)
  /\ UNCHANGED <<asked, running, handler, lex, resp, dead, overread, mixed>>

-----------------------------------------------------------------------------
(* read_data().                                                            *)

\* The event loop submits the handler and a worker calls process().
Process ==
  /\ alive /\ edge /\ ~running
  /\ edge' = FALSE
  /\ running' = TRUE
  /\ UNCHANGED <<client, sock, handler, lex, resp, dead, history>>

\* recv() returns -1 with EAGAIN: read_data() returns.
RecvNothing ==
  /\ alive /\ running /\ sock = <<>>
  /\ running' = FALSE
  /\ UNCHANGED <<client, sock, edge, handler, lex, resp, dead, history>>

\* What the next recv() returns.
Recv == SubSeq(sock, 1, Min({MaxRead, Len(sock)}))
CanRead(s) == alive /\ running /\ stage = s /\ sock # <<>>
Receives(s) == CanRead(s) /\ sock' = From(sock, Len(Recv) + 1)

\* Mutant: one recv() per event.
ReadsOnce == running' = FALSE

\* while (true)
ReadsOn == running' = running

\* The sizes of units only have to tell a body's length from more: 1 for a byte, 2 for a line end, 9 for a line.
Bytes(s) ==
  Len(s) + Cardinality({k \in DOMAIN s : s[k].kind = "crlf"})
         + 8 * Cardinality({k \in DOMAIN s : s[k].kind \notin {"byte", "crlf"}})

\* append_data(), and clear() followed by it.
AppendData(data) == buffer_list' = buffer_list \o data /\ count' = count + Bytes(data)
ClearAndAppend(data) == buffer_list' = data /\ count' = Bytes(data)

\* Mutant: the bytes are not counted.
CountedNot == cur_body_len

\* cur_body_len += read_count
Counted == cur_body_len + Bytes(Recv)

\* The bytes of the body that were missing before this read.
Missing == body_length - cur_body_len

\* STAGE_BODY, and the body is still not complete.
RecvPartOfBody ==
  /\ Receives("STAGE_BODY")
  /\ Bytes(Recv) < Missing
  /\ AppendData(Recv)
  /\ cur_body_len' = Counted
  /\ ReadsOn
  /\ UNCHANGED <<client, edge, stage, state, body_length, request, lex, resp, dead, history>>

\* get_all_data() asserts that the list holds cur_body_len bytes.
AssertFails ==
  /\ Receives("STAGE_BODY")
  /\ Bytes(Recv) >= Missing
  /\ count # cur_body_len
  /\ dead' = "assert"
  /\ UNCHANGED <<client, edge, running, handler, lex, resp, history>>

\* The units that hold the first n bytes of s.
Covering(s, n) ==
  SubSeq(s, 1, Min({k \in DOMAIN s : Bytes(SubSeq(s, 1, k)) >= n}))

\* Bytes that neither start a line nor a field.
Junk(n) == [j \in 1 .. n |-> Unit("byte", 0, 0)]

\* The n bytes from the first on of an array of size bytes that was filled with s: its own
\* units, and other bytes for what lies behind the array or is left of a unit that is cut.
Window(s, size, first, n) ==
  LET end(k) == Bytes(SubSeq(s, 1, k))
      own == {k \in DOMAIN s : first <= end(k - 1) /\ end(k) <= Min({first + n, size})}
  IN IF n = 0 \/ own = {} THEN Junk(n)
     ELSE Junk(end(Min(own) - 1) - first) \o SubSeq(s, Min(own), Max(own))
            \o Junk(first + n - end(Max(own)))

\* Mutant: the body stays in the list.
AfterBodyKept(body, n) == body

\* As many bytes as the read holds behind the body are kept, but not those: they are taken
\* from the array of the body, behind as many as were missing.
AfterBody(body, n) == Window(body, body_length, Missing, n)

\* The body is complete, and there was room for its array.
RecvEndOfBody ==
  LET more == Bytes(Recv) - Missing
      body == buffer_list \o Covering(Recv, Missing)
  IN
  /\ Receives("STAGE_BODY")
  /\ Bytes(Recv) >= Missing
  /\ count = cur_body_len
  /\ body_length <= StackSize
  /\ resp' = Append(resp, Answer(conn, request.line, 200, body))
  /\ ClearAndAppend(AfterBody(body, more))
  /\ overread' = (overread \/ more > 0)
  /\ stage' = "STAGE_HEADER"
  /\ ReadsOn
  /\ UNCHANGED <<client, edge, state, body_length, cur_body_len, request, lex, dead, mixed,
                 abandoned>>

\* STAGE_HEADER, and the header is still not complete.
RecvPartOfHeader ==
  /\ Receives("STAGE_HEADER")
  /\ Ends(state, Recv) = {}
  /\ state' = Scan(state, Recv)[Len(Recv)]
  /\ AppendData(Recv)
  /\ ReadsOn
  /\ UNCHANGED <<client, edge, stage, body_length, cur_body_len, request, lex, resp, dead,
                 history>>

\* The fields are added to those of the requests before, and the first wins, whatever it
\* says.
SetRequest(reads) ==
  LET fields == {k \in DOMAIN reads : reads[k].kind = "field"} IN
  [line   |-> reads[1].req,
   length |-> IF request.length >= 0 \/ fields = {} THEN request.length ELSE reads[Min(fields)].n]

\* has_request_body()
HasBody(r) == r.length > 0


\* What the read holds behind the header is all that is kept; it is not scanned.
AfterHeader(more) == more

\* parse_request_header() fails: the list is not cleared, and the read's rest is lost.
Refuse(r) ==
  /\ resp' = Append(resp, Answer(conn, r, 400, <<>>))
  /\ running' = FALSE
  /\ UNCHANGED <<stage, buffer_list, count, body_length, cur_body_len, request>>

\* It succeeds: a body is awaited, or the request answered.
Serve(r, more) ==
  /\ request' = r
  /\ ClearAndAppend(AfterHeader(more))
  /\ ReadsOn
  /\ resp' = IF HasBody(r) THEN resp ELSE Append(resp, Answer(conn, r.line, 200, <<>>))
  /\ IF HasBody(r)
     THEN stage' = "STAGE_BODY" /\ cur_body_len' = 0 /\ body_length' = r.length
     ELSE UNCHANGED <<stage, body_length, cur_body_len>>

\* There is room for an array of the list's bytes and the read's up to the k-th unit.
HeaderFits(k) == count + Bytes(SubSeq(Recv, 1, k)) <= StackSize

\* The header ends in this read: it is parsed.
RecvEndOfHeader ==
  /\ Receives("STAGE_HEADER")
  /\ Ends(state, Recv) # {}
  /\ state' = "FOUND"
  /\ LET k == Min(Ends(state, Recv))
         more == From(Recv, k + 1)
     IN
     /\ HeaderFits(k)
     /\ overread' = (overread \/ more # <<>>)
     /\ \E o \in Parse(lex, buffer_list \o SubSeq(Recv, 1, k)) :
          /\ lex' = o.lex
          /\ IF o.accepts THEN Serve(SetRequest(o.reads), more) ELSE Refuse(Recv[k].req)
  /\ UNCHANGED <<client, edge, dead, mixed, abandoned>>

\* The whole read is copied behind the list's bytes into an array that ends with
\* the header: with bytes behind the header the copy runs over the array's end.
CopySmashes ==
  /\ Receives("STAGE_HEADER")
  /\ \E k \in Ends(state, Recv) : k < Len(Recv)
  /\ dead' = "smash"
  /\ overread' = TRUE
  /\ UNCHANGED <<client, edge, running, handler, lex, resp, mixed, abandoned>>

\* An array of the length of the body, or of the header, does not fit into the worker's
\* stack: the process dies, or goes on with the memory of others overwritten, which is
\* where the model ends. Nothing is done with what was read.
StackOverrun ==
  /\ \/ CanRead("STAGE_BODY") /\ Bytes(Recv) >= Missing /\ body_length > StackSize
     \/ CanRead("STAGE_HEADER") /\ \E k \in Ends(state, Recv) :
          k = Min(Ends(state, Recv)) /\ ~HeaderFits(k)
  /\ dead' = "stack"
  /\ UNCHANGED <<client, sock, edge, running, handler, lex, resp, history>>

ReadData ==
  \/ RecvNothing
  \/ RecvPartOfBody
  \/ RecvEndOfBody
  \/ AssertFails
  \/ RecvPartOfHeader
  \/ RecvEndOfHeader
  \/ CopySmashes
  \/ StackOverrun

Next ==
  \/ Ask
  \/ \E n \in 1 .. Len(wire) : Arrive(n)
  \/ Reconnect
  \/ Process
  \/ ReadData

\* What is sent arrives, and the event loop and the workers go on.
Fairness ==
  /\ WF_vars(\E n \in 1 .. Len(wire) : Arrive(n))
  /\ WF_vars(Process)
  /\ WF_vars(ReadData)

Spec == Init /\ [][Next]_vars
FairSpec == Spec /\ Fairness

-----------------------------------------------------------------------------
(* Properties.                                                             *)

\* What the handler can cope with: well-formed requests, none abandoned, no read
\* that goes beyond a message's end, and no request behind a POST unless it has
\* the same Content-Length.
Suited ==
  /\ \A id \in DOMAIN asked : asked[id].kind # "bad"
  /\ \A id, j \in DOMAIN asked :
       id < j /\ asked[id].kind = "POST" => Shape(asked[j]) = Shape(asked[id])

Regular == ~overread /\ ~abandoned /\ Suited

\* As long as that is so, the answers are the due ones, in order, each with the
\* body of its own request (http_handler.cc:43-92).
Served == Regular => \A id \in DOMAIN resp : id <= Len(asked) /\ resp[id] = Due(asked, id)

\* The requests with the connection they are sent on.
Requests ==
  UNION {{[kind |-> s[id].kind, length |-> s[id].length, conn |-> c] :
            id \in DOMAIN s, c \in 1 .. MaxConns} : s \in Scripts}

\* The handler as its clients see it: one due answer to each request, in order,
\* and in the end (HttpHandler::process and all it calls).
Exchange == INSTANCE HttpExchange
ExchangeSpec == Exchange!Spec


\* While a body is collected the list holds its first cur_body_len bytes, or a
\* read went beyond the end of its header (http_handler.cc:44-52, 84-88).
BodyAccounted ==
  stage = "STAGE_BODY" =>
    /\ cur_body_len < body_length
    /\ count # cur_body_len => overread

-----------------------------------------------------------------------------
(* What the repository says and the code does not do.                      *)

\* buffer_list.cc:85 says of the bytes the list holds when the body is complete
\* "assert(count == len);".
CountIsLen == dead # "assert"
=============================================================================
