------------------------------- MODULE Workers -------------------------------
(***************************************************************************)
(* Workers that share handlers and the parser                              *)
(* (src/src/http/http_handler.cc, src/src/parser/parser.y).                *)
(*                                                                         *)
(* The event loop submits a handler for every event, whether or not a      *)
(* worker runs it already, and nothing but the pool's queue has a lock.    *)
(* Two workers meet in a handler when a request comes in two segments, and *)
(* in the parser's globals whenever two clients are served at once.        *)
(*                                                                         *)
(* A client sends requests of the two units of Parser that HttpHandler     *)
(* needs for a GET, each after the answer to the last.  A step of a worker *)
(* is a system call or an access to what is shared.  Two accesses to the   *)
(* same memory may also overlap: what the process does from then on is     *)
(* undefined, and the model ends there.                                    *)
(***************************************************************************)
EXTENDS Integers, Sequences, SequencesExt, FiniteSetsExt, Parser

CONSTANTS
  Threads,    \* the workers
  Handlers,   \* the handlers, each with its client
  MaxReqs,    \* bound on the requests of each client
  None

ASSUME ReqsAssumption == MaxReqs \in [Handlers -> Nat]
ASSUME NoneAssumption == None \notin Handlers

VARIABLES
  sent,       \* how many units each client has sent
  sock,       \* the units in each socket's receive buffer
  edge,       \* handlers for whose sockets epoll has an event
  queue,      \* the pool's queue
  work,       \* where each worker is, and its local variables
  state,      \* the state of parse_read() of each handler
  buffer_list,
  request,    \* the request line of each handler's request
  answers,    \* the answers to each client
  parsing,    \* parsing_buf from parsing_offset on, and whose Request_C is parsing_request
  lex,        \* what flex holds of the inputs before
  overlapped, \* whether two accesses to the same memory have overlapped
  crowded,    \* history: handlers that two workers were in
  torn        \* history: whether a worker set the parser's options while another was
              \* between setting them and the end of yyparse()

inputs == <<sent, sock, edge>>
handler == <<state, buffer_list, request>>
parser == <<parsing, lex>>
vars == <<inputs, queue, work, handler, answers, parser, overlapped, crowded, torn>>

defined == ~overlapped
Idle == [pc |-> "idle", h |-> None, got |-> <<>>]
At(w, pc) == defined /\ work[w].pc = pc

\* Other workers between the same two steps.
Others(w, pcs) == {v \in Threads \ {w} : work[v].pc \in pcs}

Requests == UNION {{h} \X (1 .. MaxReqs[h]) : h \in Handlers}
Header(r) == <<Unit("line", r, 0), Unit("crlf", r, 0)>>

Init ==
  /\ sent = [h \in Handlers |-> 0]
  /\ sock = [h \in Handlers |-> <<>>]
  /\ edge = {} /\ queue = <<>>
  /\ work = [w \in Threads |-> Idle]
  /\ state = [h \in Handlers |-> "START"]
  /\ buffer_list = [h \in Handlers |-> <<>>]
  /\ request = [h \in Handlers |-> None]
  /\ answers = [h \in Handlers |-> <<>>]
  /\ parsing = [buf |-> <<>>, to |-> None] /\ lex = <<>>
  /\ overlapped = FALSE /\ crowded = {} /\ torn = FALSE

-----------------------------------------------------------------------------
(* A client and the event loop.                                            *)

\* The next unit of a request arrives, and with it an event; a request begins after the
\* answer to the one before.
Arrive(h) ==
  LET n == sent[h]
      r == <<h, n \div 2 + 1>>
  IN
  /\ defined /\ n < 2 * MaxReqs[h]
  /\ n % 2 = 1 \/ Len(answers[h]) = n \div 2
  /\ sent' = [sent EXCEPT ![h] = n + 1]
  /\ sock' = [sock EXCEPT ![h] = Append(@, Header(r)[(n % 2) + 1])]
  /\ edge' = edge \cup {h}
  /\ UNCHANGED <<queue, work, handler, answers, parser, overlapped, crowded, torn>>

Submit(h) ==
  /\ defined /\ h \in edge
  /\ edge' = edge \ {h}
  /\ queue' = Append(queue, h)
  /\ UNCHANGED <<sent, sock, work, handler, answers, parser, overlapped, crowded, torn>>

-----------------------------------------------------------------------------
(* read_data().                                                            *)

Take(w) ==
  /\ At(w, "idle") /\ queue # <<>>
  /\ queue' = Tail(queue)
  /\ work' = [work EXCEPT ![w] = [Idle EXCEPT !.pc = "recv", !.h = Head(queue)]]
  /\ crowded' = crowded \cup {h \in {Head(queue)} : \E v \in Threads : work[v].h = h}
  /\ UNCHANGED <<inputs, handler, answers, parser, overlapped, torn>>

Recv(w) ==
  LET h == work[w].h IN
  /\ At(w, "recv")
  /\ work' = IF sock[h] = <<>> THEN [work EXCEPT ![w] = Idle]
             ELSE [work EXCEPT ![w].pc = "scan", ![w].got = sock[h]]
  /\ sock' = [sock EXCEPT ![h] = <<>>]
  /\ UNCHANGED <<sent, edge, queue, handler, answers, parser, overlapped, crowded, torn>>

\* parse_read() on the bytes of this worker, from the state all share.
ScanRead(w) ==
  LET h == work[w].h
      got == work[w].got
      ends == Ends(state[h], got)
  IN
  /\ At(w, "scan")
  /\ state' = [state EXCEPT ![h] = IF ends = {} THEN Scan(@, got)[Len(got)] ELSE "FOUND"]
  /\ work' = [work EXCEPT ![w].pc = IF ends = {} THEN "append" ELSE "set"]
  /\ UNCHANGED <<inputs, queue, buffer_list, request, answers, parser, overlapped, crowded, torn>>

\* append_data(), or clear() behind an answer.
ChangeList(w, pc, list) ==
  /\ At(w, pc)
  /\ work' = [work EXCEPT ![w].pc = "recv", ![w].got = <<>>]
  /\ buffer_list' = [buffer_list EXCEPT ![work[w].h] = list]
  /\ UNCHANGED <<inputs, queue, state, request, answers, parser, overlapped, crowded, torn>>

AppendData(w) == ChangeList(w, "append", buffer_list[work[w].h] \o work[w].got)

\* Mutant: the list is not cleared.
ClearNot(w) == ChangeList(w, "clear", buffer_list[work[w].h])
Clear(w) == ChangeList(w, "clear", <<>>)

\* set_parsing_options()
Input(in, w) == [buf |-> in, to |-> w]

\* The bytes are put together in a local buffer, a Request_C is made, and both are given
\* to the parser.
SetOptions(w) ==
  /\ At(w, "set")
  /\ parsing' = Input(buffer_list[work[w].h] \o work[w].got, w)
  /\ work' = [work EXCEPT ![w].pc = "parse"]
  /\ torn' = (torn \/ Others(w, {"parse"}) # {})
  /\ UNCHANGED <<inputs, queue, handler, answers, lex, overlapped, crowded>>

Gets(h, answer) == answers' = [answers EXCEPT ![h] = Append(@, answer)]

\* yyparse() has returned: the line of the Request_C is copied into the handler's
\* request, or an error is answered and read_data() returns.
Parsed(w, accepts, line) ==
  IF accepts
  THEN /\ request' = [request EXCEPT ![work[w].h] = line]
       /\ work' = [work EXCEPT ![w].pc = "answer", ![w].got = <<>>]
       /\ UNCHANGED answers
  ELSE /\ Gets(work[w].h, None)
       /\ work' = [work EXCEPT ![w] = Idle]
       /\ UNCHANGED request

\* yyparse() fills in the Request_C that was set last; in any other there is an empty
\* line.  It asks for the input if what flex holds does not decide.
ParseHeader(w) ==
  /\ At(w, "parse")
  /\ \E o \in Parse(lex, parsing.buf) :
       /\ lex' = o.lex
       /\ Parsed(w, o.accepts, IF o.accepts /\ parsing.to = w THEN o.reads[1].req ELSE None)
  /\ parsing' = [parsing EXCEPT !.buf = IF Decisive(lex) = {} THEN <<>> ELSE @]
  /\ UNCHANGED <<inputs, queue, state, buffer_list, overlapped, crowded, torn>>

\* do_request(): an empty line is refused, too.
Answer(w) ==
  /\ At(w, "answer")
  /\ Gets(work[w].h, request[work[w].h])
  /\ work' = [work EXCEPT ![w].pc = "clear"]
  /\ UNCHANGED <<inputs, queue, handler, parser, overlapped, crowded, torn>>

\* Two workers are, or may be, in accesses to the same memory that one of them writes: the
\* parser's globals, the state of parse_read(), the list, which get_all_data() reads, and
\* the strings and headers of the request, which do_request() reads.
Conflict(w, v) ==
  LET pcs == {work[w].pc, work[v].pc} IN
  \/ pcs \subseteq {"set", "parse"}
  \/ /\ work[w].h = work[v].h
     /\ \/ pcs = {"scan"}
        \/ pcs \subseteq {"append", "clear", "set"}
        \/ pcs = {"parse", "answer"}

Overlap(w) ==
  /\ defined
  /\ \E v \in Threads \ {w} : Conflict(w, v)
  /\ overlapped' = TRUE
  /\ UNCHANGED <<inputs, queue, work, handler, answers, parser, crowded, torn>>

Worker(w) ==
  \/ Take(w) \/ Recv(w)
  \/ ScanRead(w) \/ AppendData(w)
  \/ SetOptions(w) \/ ParseHeader(w)
  \/ Answer(w) \/ Clear(w)
  \/ Overlap(w)

Next == (\E h \in Handlers : Arrive(h) \/ Submit(h)) \/ (\E w \in Threads : Worker(w))

Spec == Init /\ [][Next]_vars

-----------------------------------------------------------------------------
(* Properties.                                                             *)

\* A client is given the answer to another's request only if two accesses to the same
\* memory have overlapped, or a call was refused before and left a part of that request in
\* flex's buffer: that workers meet in a handler, or set the parser's options over one
\* another, is not enough (parser.y:25-34, http_handler.cc:64-84, 140-153).
OwnAnswers ==
  (\A h \in Handlers : None \notin Range(answers[h])) =>
    \A h \in Handlers : \A a \in Range(answers[h]) : a[1] = h

\* As long as no two workers were in one handler, nor set the parser's options over one
\* another, a client gets one answer to each request, in order and none of them an error: no
\* other interleaving of the workers matters (server.cc:112, http_handler.cc:34-95).
InOrder ==
  ~torn /\ crowded = {} =>
    \A h \in Handlers : answers[h] = [k \in DOMAIN answers[h] |-> <<h, k>>]
=============================================================================
