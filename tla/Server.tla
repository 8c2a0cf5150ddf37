------------------------------- MODULE Server -------------------------------
(***************************************************************************)
(* The event loop, the descriptors and the workers (src/src/http/server.cc) *)
(*                                                                         *)
(* The event loop accepts connections, closes them and submits handlers;   *)
(* the workers read from a descriptor's socket and send to it.  What ties  *)
(* them together is the number of a descriptor, which stands for another   *)
(* connection once it has been closed and accept() has returned it again.  *)
(*                                                                         *)
(* The thread pool is a bounded FIFO queue here (JobQueue, which           *)
(* ThreadPool implements) whose mutex is lost by the first refusal, and    *)
(* what a handler does with the bytes is one request per read              *)
(* (HttpHandler is about the rest).                                        *)
(***************************************************************************)
EXTENDS Integers, Sequences, FiniteSets, FiniteSetsExt, SequencesExt

CONSTANTS
  Conns,     \* the connections clients make, each once
  Workers,   \* the threads of the pool
  MaxFd,     \* MAX_FD, the number of handlers and the capacity of the pool's queue
  NFds,      \* how many descriptors the process may have (RLIMIT_NOFILE)
  MaxReqs,   \* bound on the requests of a connection
  Early,     \* connections whose client may leave before its answer has come
  Deaf,      \* connections whose client may stop reading for good
  Half,      \* connections whose client may shut down its side and go on reading
  Cgi,       \* whether requests may be for CGI scripts that do not exist
  Listen,    \* the listening socket, in epoll's ready list
  None

ASSUME FdsAssumption == MaxFd \in Nat \ {0} /\ NFds \in Nat \ {0}
ASSUME NoneAssumption == None \notin Conns /\ Listen \notin Conns \cup {None}

\* The descriptors of connections, and the listening socket's.
Fds == 0 .. NFds - 1
ListenFd == NFds

VARIABLES
  peer,       \* the clients' ends of the connections
  asked,      \* requests sent on each connection
  answers,    \* answers that came on each connection: whose, and to which request
  deaf,       \* clients that have stopped reading: what is sent to them finds no room
  unread,     \* connections with a request in the receive buffer
  backlog,    \* connections that wait for accept()
  file,       \* the connection each descriptor stands for
  interest,   \* connections registered with epoll
  ready,      \* epoll's ready list
  batch,      \* the events of the last epoll_wait() that are still to be handled
  sockfd,     \* sockfd of each handler
  queue,      \* the pool's worker_queue
  work,       \* what each worker is doing
  jammed,     \* whether the event loop waits for the pool's mutex, which it holds itself
  dead,       \* whether the process has accessed memory outside handlers and died
  merged,     \* history: arrivals that no accept() is left for: there was an event already, or it failed
  early,      \* history: connections whose client left before an answer came
  cut,        \* history: connections the event loop closed before their client did
  dropped,    \* history: connections a CGI error closed
  peak        \* history: the most descriptors that were open at once

kernel == <<unread, backlog, file, interest, ready>>
clients == <<peer, asked, answers, deaf>>
loop == <<batch, jammed>>
history == <<merged, early, cut, dropped, peak>>
vars == <<clients, kernel, loop, sockfd, queue, work, dead, history>>

alive == ~dead
Idle == [pc |-> "idle", h |-> -1, fd |-> -1, conn |-> None, n |-> 0]

\* The constructor leaves sockfd as it is; it is not read before an init() sets it.
Init ==
  /\ peer = [c \in Conns |-> "away"]
  /\ asked = [c \in Conns |-> 0]
  /\ answers = [c \in Conns |-> <<>>]
  /\ deaf = {} /\ jammed = FALSE
  /\ unread = {} /\ backlog = <<>>
  /\ file = [fd \in Fds |-> None]
  /\ interest = {} /\ ready = <<>> /\ batch = <<>>
  /\ sockfd = [fd \in Fds |-> -1]
  /\ queue = <<>>
  /\ work = [w \in Workers |-> Idle]
  /\ dead = FALSE
  /\ merged = 0 /\ early = {} /\ cut = {} /\ dropped = {} /\ peak = 0

\* An event makes its file ready, once (EPOLLET).
Notify(list, x) == IF Contains(list, x) THEN list ELSE Append(list, x)
Unlink(list, x) ==
  IF Contains(list, x) THEN RemoveAt(list, CHOOSE k \in DOMAIN list : list[k] = x) ELSE list
Signal(c) == IF c \in interest THEN Notify(ready, c) ELSE ready

FdOf(c) == CHOOSE fd \in Fds : file[fd] = c
Open(c) == \E fd \in Fds : file[fd] = c

-----------------------------------------------------------------------------
(* The clients: one request at a time.                                     *)

Connect(c) ==
  /\ alive /\ peer[c] = "away"
  /\ peer' = [peer EXCEPT ![c] = "open"]
  /\ backlog' = Append(backlog, c)
  /\ ready' = Notify(ready, Listen)
  /\ merged' = IF Contains(ready, Listen) THEN merged + 1 ELSE merged
  /\ UNCHANGED <<asked, answers, deaf, unread, file, interest, loop, sockfd, queue, work, dead,
                 early, cut, dropped, peak>>

Answered(c) == Cardinality({k \in DOMAIN answers[c] : answers[c][k].conn = c})

Send(c) ==
  /\ alive /\ peer[c] = "open" /\ c \notin dropped \cup cut
  /\ asked[c] < MaxReqs /\ asked[c] = Answered(c)
  /\ asked' = [asked EXCEPT ![c] = @ + 1]
  /\ unread' = unread \cup {c}
  /\ ready' = Signal(c)
  /\ UNCHANGED <<peer, answers, deaf, backlog, file, interest, loop, sockfd, queue, work, dead,
                 history>>

\* A client closes the connection, or shuts down its side of it and reads until the
\* server closes the other.
Leave(c, how) ==
  /\ alive /\ peer[c] = "open"
  /\ c \in Early \/ asked[c] = Answered(c)
  /\ peer' = [peer EXCEPT ![c] = how]
  /\ early' = IF asked[c] = Answered(c) THEN early ELSE early \cup {c}
  /\ ready' = Signal(c)
  /\ UNCHANGED <<asked, answers, deaf, unread, backlog, file, interest, loop, sockfd, queue, work,
                 dead, merged, cut, dropped, peak>>

\* A client reads no more: a pause that ends is no more than a delay.
Stall(c) ==
  /\ alive /\ c \in Deaf /\ peer[c] = "open"
  /\ deaf' = deaf \cup {c}
  /\ UNCHANGED <<peer, asked, answers, kernel, loop, sockfd, queue, work, dead, history>>

-----------------------------------------------------------------------------
(* The event loop.                                                         *)

\* The events epoll_wait() reports, in the order of the list: those that are still
\* there when it looks.
Reported(x) ==
  IF x = Listen THEN backlog # <<>> ELSE x \in unread \/ peer[x] # "open"

\* Mutant: EPOLLRDHUP is not asked for.
HungUpNever(x) == FALSE
HungUp(x) == peer[x] # "open"    \* EPOLLRDHUP

EventOf(x) ==
  IF x = Listen THEN [fd |-> ListenFd, hup |-> FALSE] ELSE [fd |-> FdOf(x), hup |-> HungUp(x)]

EpollWait ==
  /\ alive /\ ~jammed /\ batch = <<>> /\ ready # <<>>
  /\ LET found == {k \in DOMAIN ready : Reported(ready[k])} IN
     \E at \in [1 .. Cardinality(found) -> found] :
       /\ \A j, k \in DOMAIN at : j < k => at[j] < at[k]
       /\ batch' = [k \in DOMAIN at |-> EventOf(ready[at[k]])]
  /\ ready' = <<>>
  /\ UNCHANGED <<clients, unread, backlog, file, interest, jammed, sockfd, queue, work, dead, history>>

\* Mutant: the loop over the events ends with the first.
FirstOnly == batch' = <<>>
NextEvent == batch' = Tail(batch)

\* Mutant: the test for a hang-up is a bitwise or, like the ones around it.
IsHangUpAny(e) == e.fd # ListenFd

\* The three branches of the loop over the events, in their order.
IsNewConn(e) == e.fd = ListenFd
IsHangUp(e) == e.hup
AtBranch(new, hangUp) ==
  /\ alive /\ ~jammed /\ batch # <<>>
  /\ IsNewConn(Head(batch)) = new /\ (new \/ IsHangUp(Head(batch)) = hangUp)
Handles(new, hangUp) == AtBranch(new, hangUp) /\ NextEvent /\ UNCHANGED jammed

Free == {fd \in Fds : file[fd] = None}
Taken == Cardinality(Fds \ Free) + 1

\* accept() returns the lowest free descriptor, for the connection that waits longest.
Takes(fd, c) ==
  /\ Handles(TRUE, FALSE)
  /\ fd \in Free /\ \A f \in Free : fd <= f
  /\ backlog # <<>> /\ c = Head(backlog)
  /\ backlog' = Tail(backlog)
  /\ file' = [file EXCEPT ![fd] = c]
  /\ peak' = Max({peak, Taken})

\* EPOLL_CTL_ADD reports what has happened before it, too.
Register(c) ==
  /\ interest' = interest \cup {c}
  /\ ready' = IF Reported(c) THEN Notify(ready, c) ELSE ready

\* Mutant: the handler keeps the descriptor it had.
InitHandlerNot(fd) == UNCHANGED sockfd

\* handlers[fd].init(fd, client_addr)
InitHandler(fd) == sockfd' = [sockfd EXCEPT ![fd] = fd]

\* One connection is accepted for an event, and one handler initialized.
Accept(fd, c) ==
  /\ Takes(fd, c)
  /\ fd < MaxFd
  /\ InitHandler(fd)
  /\ Register(c)
  /\ UNCHANGED <<clients, unread, queue, work, dead, merged, early, cut, dropped>>

\* connfd > MAX_FD: the connection stays open, and nobody knows of it.
AcceptTooMany(fd, c) ==
  /\ Takes(fd, c)
  /\ fd > MaxFd
  /\ UNCHANGED <<clients, unread, interest, ready, sockfd, queue, work, dead, merged, early, cut,
                 dropped>>

\* connfd = MAX_FD passes the test, and init() writes behind handlers: the process
\* may die of it, or find zeroes there and go on.
AcceptAtLimit(fd, c) ==
  /\ Takes(fd, c)
  /\ fd = MaxFd
  /\ InitHandler(fd)
  /\ Register(c)
  /\ dead' \in BOOLEAN
  /\ UNCHANGED <<clients, unread, queue, work, merged, early, cut, dropped>>

\* accept() has no descriptor left and returns -1: init() writes before handlers.
AcceptFails ==
  /\ Handles(TRUE, FALSE)
  /\ Free = {}
  /\ merged' = merged + 1
  /\ dead' \in BOOLEAN
  /\ UNCHANGED <<clients, kernel, sockfd, queue, work, early, cut, dropped, peak>>

\* close(fd): the connection leaves the descriptor table and epoll.
Close(fd) ==
  /\ file' = [file EXCEPT ![fd] = None]
  /\ interest' = interest \ {file[fd]}
  /\ ready' = Unlink(ready, file[fd])

\* The client has hung up, or so the event says: close_conn().
HangUp(fd) ==
  LET c == file[fd] IN
  /\ Handles(FALSE, TRUE) /\ fd = Head(batch).fd
  /\ IF sockfd[fd] = -1 THEN UNCHANGED <<file, interest, ready, sockfd, cut>>
     ELSE /\ Close(fd)
          /\ sockfd' = [sockfd EXCEPT ![fd] = -1]
          /\ cut' = IF c # None /\ peer[c] = "open" THEN cut \cup {c} ELSE cut
  /\ UNCHANGED <<clients, unread, backlog, queue, work, dead, merged, early, dropped, peak>>

\* Data, or so the event says: submit(&handlers[connfd]).
Submit(fd) ==
  /\ Handles(FALSE, FALSE) /\ fd = Head(batch).fd
  /\ Len(queue) < MaxFd
  /\ queue' = Append(queue, fd)
  /\ UNCHANGED <<clients, kernel, sockfd, work, dead, history>>

\* The queue is full: submit() returns with the mutex locked, and locks it again when
\* the loop retries, so that neither the loop nor an idle worker ever goes on.
Refused ==
  /\ AtBranch(FALSE, FALSE) /\ Len(queue) >= MaxFd
  /\ jammed' = TRUE
  /\ UNCHANGED <<batch, clients, kernel, sockfd, queue, work, dead, history>>

-----------------------------------------------------------------------------
(* The workers.                                                            *)

Take(w) ==
  /\ alive /\ ~jammed /\ work[w].pc = "idle" /\ queue # <<>>
  /\ queue' = Tail(queue)
  /\ work' = [work EXCEPT ![w] = [Idle EXCEPT !.pc = "read", !.h = Head(queue)]]
  /\ UNCHANGED <<clients, kernel, loop, sockfd, dead, history>>

\* The connection from which recv(sockfd) of a handler would return data.
Source(h) ==
  IF sockfd[h] = -1 \/ file[sockfd[h]] \notin unread THEN None ELSE file[sockfd[h]]

\* Mutant: _init_handler() leaves the last handler out.
HasProcessorButLast(h) == h < MaxFd - 1

\* _init_handler() gives every handler a processor, and there are MAX_FD.
HasProcessor(h) == h < MaxFd

\* Mutant: the bytes stay in the receive buffer.
ConsumedNot(c) == unread
Consumed(c) == unread \ {c}

\* recv() returns a request, and do_request() takes sockfd for the answer.
Read(w) ==
  LET h == work[w].h
      c == Source(h)
  IN
  /\ alive /\ work[w].pc = "read" /\ HasProcessor(h)
  /\ c # None
  /\ unread' = Consumed(c)
  /\ work' = [work EXCEPT ![w] = [pc |-> "send", h |-> h, fd |-> sockfd[h], conn |-> c, n |-> asked[c]]]
  /\ UNCHANGED <<clients, backlog, file, interest, ready, loop, sockfd, queue, dead, history>>

\* The handler behind the last one has no processor: the worker dies in do_request().
ReadAtLimit(w) ==
  /\ alive /\ work[w].pc = "read" /\ ~HasProcessor(work[w].h)
  /\ Source(work[w].h) # None
  /\ dead' = TRUE
  /\ UNCHANGED <<clients, kernel, loop, sockfd, queue, work, history>>

\* recv() returns no data, or an error: read_data() returns.
ReadNothing(w) ==
  /\ alive /\ work[w].pc = "read"
  /\ Source(work[w].h) = None
  /\ work' = [work EXCEPT ![w] = Idle]
  /\ UNCHANGED <<clients, kernel, loop, sockfd, queue, dead, history>>

\* send() returns EAGAIN to send_data() for as long as the client does not read.
Full(c) == c \in deaf /\ peer[c] # "closed"

\* The answer goes to the connection the descriptor stands for now, if to any.
Respond(w, then) ==
  LET d == file[work[w].fd] IN
  /\ alive /\ work[w].pc = "send" /\ ~Full(d)
  /\ answers' = IF d = None \/ peer[d] = "closed" THEN answers
                ELSE [answers EXCEPT ![d] = Append(@, [conn |-> work[w].conn, n |-> work[w].n])]
  /\ work' = [work EXCEPT ![w].pc = then]
  /\ UNCHANGED <<peer, asked, deaf, kernel, loop, sockfd, queue, dead, history>>

\* A request for a CGI script that does not exist is answered, and process_cgi()
\* closes the descriptor; the handler still has its number.
CgiClose(w) ==
  LET fd == work[w].fd IN
  /\ alive /\ work[w].pc = "close"
  /\ Close(fd)
  /\ dropped' = dropped \cup ({file[fd]} \ {None})
  /\ work' = [work EXCEPT ![w].pc = "read"]
  /\ UNCHANGED <<clients, unread, backlog, loop, sockfd, queue, dead, merged, early, cut, peak>>

Loop ==
  \/ EpollWait
  \/ \E fd \in Fds, c \in Conns : Accept(fd, c) \/ AcceptTooMany(fd, c) \/ AcceptAtLimit(fd, c)
  \/ AcceptFails
  \/ \E fd \in Fds : HangUp(fd) \/ Submit(fd)
  \/ Refused

Worker(w) ==
  \/ Take(w)
  \/ Read(w) \/ ReadAtLimit(w) \/ ReadNothing(w)
  \/ Respond(w, "read")
  \/ Cgi /\ Respond(w, "close")
  \/ CgiClose(w)

Client(c) ==
  Connect(c) \/ Send(c) \/ Stall(c) \/ Leave(c, "closed") \/ (c \in Half /\ Leave(c, "half"))

Next == Loop \/ (\E w \in Workers : Worker(w)) \/ (\E c \in Conns : Client(c))

Spec == Init /\ [][Next]_vars

\* The threads are scheduled; the clients need not do anything.
FairSpec == Spec /\ WF_vars(Loop) /\ \A w \in Workers : WF_vars(Worker(w))

-----------------------------------------------------------------------------
(* Properties.                                                             *)

\* An answer reaches the client that asked, and a client gets its answers in order,
\* unless a client left with a request outstanding or a CGI error closed a
\* descriptor under its handler: only then does a number outlive the connection it
\* was taken for (http_handler.cc:162-166, 177-183; server.cc:98, 104).
Delivered ==
  dropped = {} =>
    \A c \in Conns : \A k \in DOMAIN answers[c] :
      answers[c][k].conn \in {c} \cup early
      /\ (early = {} => answers[c][k].n = k)

\* The event loop hangs up only on clients that have left, unless a CGI error has
\* closed a descriptor: then an event of the batch may be for the connection
\* that had the number before (server.cc:87-104, processor.cc:45).
HangsUpOnTheGone == cut # {} => dropped # {}

\* The handlers and epoll know the open descriptors: a connection that epoll reports has
\* one, whose handler knows it, and no other is open but those above MAX_FD
\* (server.cc:93-99, http_handler.cc:177-183; TooManyIsClosed is about those).
HandlersAgree ==
  /\ \A c \in interest : Open(c) /\ sockfd[FdOf(c)] = FdOf(c)
  /\ \A fd \in Fds : file[fd] # None /\ fd <= MaxFd => file[fd] \in interest

\* One connection is accepted for an event, so connections are left in the backlog only
\* if they arrived together with another, or accept() failed (server.cc:88-99).
BacklogBound ==
  Len(backlog) <= merged + (IF Contains(ready, Listen) THEN 1 ELSE 0)
                         + (IF \E k \in DOMAIN batch : batch[k].fd = ListenFd THEN 1 ELSE 0)

\* The process is safe from its own limits while fewer descriptors than handlers
\* are in use (server.cc:93-98).
SurvivesBelowLimit == dead => peak > MaxFd \/ peak = NFds

\* A connection that epoll knows is closed after its client has left, or shut down its
\* side: the event is not lost, whatever the handlers are doing, unless a submission
\* to a full queue has stopped the loop (server.cc:100-104, 111-116).
LeftIsClosed ==
  \A c \in Conns :
    (peer[c] \in {"half", "closed"} /\ c \in interest) ~> (~Open(c) \/ dead \/ jammed)

\* Every worker is in send_data(), for a client that does not read.
AllKept == \A w \in Workers : work[w].pc = "send" /\ Full(file[work[w].fd])

\* A request on a connection that epoll knows is answered, unless its client leaves or
\* does not read, the process dies at its limits, a submission to a full queue has
\* stopped the pool, or from some time on every worker is kept by clients that do not
\* read (server.cc:105-117, http_handler.cc:34-95, error_code.h:13-27).
AskedIsAnswered ==
  []<>~AllKept =>
    \A c \in Conns :
      (asked[c] > Answered(c) /\ c \in interest) ~>
        (asked[c] = Answered(c) \/ peer[c] # "open" \/ c \in deaf \/ dead \/ jammed)

\* What the comment at server.cc:94 says of a connection above MAX_FD: it is closed.
TooManyIsClosed ==
  \A c \in Conns : (\E fd \in Fds : fd > MaxFd /\ file[fd] = c) ~> (~Open(c) \/ dead \/ jammed)
=============================================================================
