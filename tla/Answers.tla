------------------------------- MODULE Answers -------------------------------
(***************************************************************************)
(* How a request becomes an answer, and an answer bytes of the connection  *)
(* (src/src/http/processor.cc, request.cc, response.cc, error_code.h).     *)
(*                                                                         *)
(* A worker takes a request from a client's connection, chooses the answer *)
(* and sends it with as many send()s as the socket's buffer makes it.  All *)
(* workers are busy when as many clients do not read.                      *)
(*                                                                         *)
(* A byte of an answer is known by the answer it is of and its place in    *)
(* it; a byte of the first HeadLen, status line and headers, also tells    *)
(* the Content-Length.  Requests for scripts that exist are not made here: *)
(* their answer is sent by the script (Cgi).                               *)
(***************************************************************************)
EXTENDS Integers, Sequences, FiniteSets, SequencesExt, FiniteSetsExt

CONSTANTS
  Clients, Workers,
  Requests,   \* the requests each client may make: method, version, url
  Files,      \* the lines of each file under the root, by url
  Chars,      \* what they are made of
  Scripts,    \* urls below /cgi/, of scripts that are not found
  MaxReqs,    \* bound on the requests of each client
  SndBuf,     \* the size of a socket's send buffer
  None

ASSUME SndBufAssumption == SndBuf \in Nat \ {0} /\ MaxReqs \in [Clients -> Nat]
ASSUME FilesAssumption == \A url \in DOMAIN Files : Files[url] \in Seq(Seq(Chars))
ASSUME NoneAssumption == None \notin Clients

VARIABLES
  peer,       \* whether each client reads, has stopped to read, or has left
  asked,      \* the requests of each client
  taken,      \* how many of them workers have taken
  work,       \* the client each worker serves, what it sends, and how much is left of it
  sndbuf,     \* bytes sent, and not received yet
  received,   \* bytes each client has received
  closed,     \* connections the server has closed
  dead,       \* whether SIGPIPE has ended the process
  short       \* history: the answers of which a send() took a part

vars == <<peer, asked, taken, work, sndbuf, received, closed, dead, short>>

alive == ~dead
Idle == [c |-> None, data |-> <<>>, len |-> 0, last |-> FALSE]

Init ==
  /\ peer = [c \in Clients |-> "reads"]
  /\ asked = [c \in Clients |-> <<>>]
  /\ taken = [c \in Clients |-> 0]
  /\ work = [w \in Workers |-> Idle]
  /\ sndbuf = [c \in Clients |-> <<>>]
  /\ received = [c \in Clients |-> <<>>]
  /\ closed = {} /\ dead = FALSE /\ short = {}

-----------------------------------------------------------------------------
(* Requests and answers.                                                   *)

\* Request::validate()
Valid(r) == r.method \in {"GET", "HEAD", "POST"} /\ r.version = "HTTP/1.1"

\* getline() takes the line ends off.
FileData(url) == FlattenSeq(Files[url])

\* Mutant: the length is that of the file, with a line end for each line.
LengthOfFile(url, body) == IF body # <<>> THEN Len(body) + Len(Files[url]) ELSE 0

\* Content-Length, 0 if there is none: response_200() sets it for a body that is not empty.
ContentLength(url, body) == Len(body)

Ok(url, body) == [status |-> 200, length |-> ContentLength(url, body), body |-> body]

\* response_with_error() sends neither a body nor a Content-Length.
Error(code) == [status |-> code, length |-> 0, body |-> <<>>]

\* do_request().  With a query the path of a script ends in a part of the query, and a
\* script of that name does not exist.
AnswerTo(r) ==
  CASE ~Valid(r) -> Error(400)
    [] Valid(r) /\ r.url \in Scripts -> Error(404)
    [] Valid(r) /\ r.url \notin Scripts /\ r.method = "POST" -> Ok(r.url, <<>>)
    [] Valid(r) /\ r.url \notin Scripts /\ r.method # "POST" ->
         IF r.url \notin DOMAIN Files THEN Error(404)
         ELSE Ok(r.url, IF r.method = "GET" THEN FileData(r.url) ELSE <<>>)

\* process_cgi() closes the connection behind its error.
Closes(r) == Valid(r) /\ r.url \in Scripts

HeadLen == 2

\* Response::encode(): status line and headers, then the body.
Encode(k, a) ==
  [at \in 1 .. HeadLen + Len(a.body) |-> [answer |-> k, status |-> a.status, length |-> a.length, at |-> at]]

-----------------------------------------------------------------------------
(* The clients and the network.                                            *)

Ask(c, r) ==
  /\ alive /\ peer[c] # "left" /\ Len(asked[c]) < MaxReqs[c]
  /\ asked' = [asked EXCEPT ![c] = Append(@, r)]
  /\ UNCHANGED <<peer, taken, work, sndbuf, received, closed, dead, short>>

Receive(c) ==
  /\ alive /\ peer[c] = "reads" /\ sndbuf[c] # <<>>
  /\ received' = [received EXCEPT ![c] = @ \o sndbuf[c]]
  /\ sndbuf' = [sndbuf EXCEPT ![c] = <<>>]
  /\ UNCHANGED <<peer, asked, taken, work, closed, dead, short>>

\* The client keeps the connection and does not read any more, or it leaves.
StopReading(c, how) ==
  /\ alive /\ peer[c] # "left" /\ peer[c] # how
  /\ peer' = [peer EXCEPT ![c] = how]
  /\ UNCHANGED <<asked, taken, work, sndbuf, received, closed, dead, short>>

-----------------------------------------------------------------------------
(* The workers.                                                            *)

Serving(c) == {w \in Workers : work[w].c = c}

\* An idle worker takes the next request and goes through do_request(), up to send_data().
DoRequest(w, c) ==
  LET k == taken[c] + 1 IN
  /\ alive /\ work[w] = Idle /\ Serving(c) = {}
  /\ c \notin closed /\ k <= Len(asked[c])
  /\ taken' = [taken EXCEPT ![c] = k]
  /\ LET data == Encode(k, AnswerTo(asked[c][k])) IN
     work' = [work EXCEPT ![w] = [c |-> c, data |-> data, len |-> Len(data), last |-> Closes(asked[c][k])]]
  /\ UNCHANGED <<peer, asked, sndbuf, received, closed, dead, short>>

\* Mutants: a part that is sent is not counted, or is taken for the whole.
LeftUncounted(w, n) == IF n < work[w].len THEN work[w].len ELSE 0
LeftNone(w, n) == 0

\* len -= ret; offset stays 0.
Left(w, n) == work[w].len - n

Sending(w) == alive /\ work[w].len > 0

\* send() takes what fits, from the start of the answer each time.  On EAGAIN the loop
\* tries again: the worker waits until there is room.
Send(w) ==
  LET c == work[w].c
      n == Min({work[w].len, SndBuf - Len(sndbuf[c])})
  IN
  /\ Sending(w) /\ n > 0
  /\ peer[c] # "left"
  /\ sndbuf' = [sndbuf EXCEPT ![c] = @ \o SubSeq(work[w].data, 1, n)]
  /\ work' = [work EXCEPT ![w].len = Left(w, n)]
  /\ short' = IF n < work[w].len THEN short \cup {<<c, taken[c]>>} ELSE short
  /\ UNCHANGED <<peer, asked, taken, received, closed, dead>>

\* The client has left: the bytes are lost, the call fails, or SIGPIPE comes.
SendToNobody(w) ==
  /\ Sending(w) /\ peer[work[w].c] = "left"
  /\ work' = [work EXCEPT ![w].len = 0]
  /\ dead' \in BOOLEAN
  /\ UNCHANGED <<peer, asked, taken, sndbuf, received, closed, short>>

\* send_data() has returned.  A close() with requests unread resets the connection, and
\* what is on its way may be lost.
Return(w) ==
  LET c == work[w].c IN
  /\ alive /\ c # None /\ work[w].len = 0
  /\ work' = [work EXCEPT ![w] = Idle]
  /\ closed' = IF work[w].last THEN closed \cup {c} ELSE closed
  /\ \/ sndbuf' = sndbuf
     \/ work[w].last /\ taken[c] < Len(asked[c]) /\ sndbuf' = [sndbuf EXCEPT ![c] = <<>>]
  /\ UNCHANGED <<peer, asked, taken, received, dead, short>>

Worker(w) ==
  \/ \E c \in Clients : DoRequest(w, c)
  \/ Send(w) \/ SendToNobody(w)
  \/ Return(w)

Client(c) ==
  \/ \E r \in Requests[c] : Ask(c, r)
  \/ Receive(c)
  \/ StopReading(c, "stalls") \/ StopReading(c, "left")

Next == (\E c \in Clients : Client(c)) \/ (\E w \in Workers : Worker(w))

\* The threads are scheduled, and a client that reads goes on reading.
Fairness ==
  /\ \A w \in Workers : WF_vars(Worker(w))
  /\ \A c \in Clients : WF_vars(Receive(c))

Spec == Init /\ [][Next]_vars /\ Fairness

-----------------------------------------------------------------------------
(* Properties.                                                             *)

\* The bytes the server has sent to a client, and those that answer requests in order.
Stream(c) == received[c] \o sndbuf[c]
Due(reqs) == FlattenSeq([k \in DOMAIN reqs |-> Encode(k, AnswerTo(reqs[k]))])

\* Where the answers to requests, and the one behind them, begin for a client that goes by
\* the lengths they tell.
Told(r) == HeadLen + AnswerTo(r).length
Starts(reqs) ==
  LET at[k \in 1 .. Len(reqs) + 1] == IF k = 1 THEN 0 ELSE at[k - 1] + Told(reqs[k - 1])
  IN  at
Start(c, k) == Starts(asked[c])[k]

\* An answer reaches its client byte for byte and in its turn, unless a send() took only
\* a part of it; what that does to its bytes it does not do to the answers behind it
\* (error_code.h:13-27, processor.cc:11-33).
Intact ==
  \A c \in Clients :
    LET stream == Stream(c)
        due == Due(asked[c])
    IN  \A j \in DOMAIN stream :
          j <= Len(due) /\ (<<c, due[j].answer>> \notin short => stream[j] = due[j])

\* A client that goes by the lengths finds each answer where it begins, even behind one
\* with wrong bytes: as many bytes are sent as an answer has, and what has no
\* Content-Length has no body (error_code.h:15-25, 92-116; processor.cc:113-131).
Framed ==
  \A c \in Clients : \A k \in DOMAIN asked[c] :
    Start(c, k) < Len(Stream(c)) =>
      LET b == Stream(c)[Start(c, k) + 1] IN b.answer = k /\ b.at = 1

\* A client that reads gets its answers in the end, unless as many others as there are
\* workers do not read theirs, each of which keeps a worker in the loop of send_data(),
\* or an answer to another, that has left, ends the process (error_code.h:16-23).
ReaderIsServed ==
  \A c \in Clients : \A k \in 1 .. MaxReqs[c] :
    Len(asked[c]) >= k ~>
      \/ k \in DOMAIN asked[c] /\ Len(received[c]) >= Start(c, k + 1)
      \/ peer[c] # "reads" \/ c \in closed
      \/ Cardinality({d \in Clients : peer[d] = "stalls"}) >= Cardinality(Workers)
      \/ dead /\ \E d \in Clients \ {c} : peer[d] = "left" /\ taken[d] > 0
=============================================================================
