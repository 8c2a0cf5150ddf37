----------------------------- MODULE ServerProofs -----------------------------
(***************************************************************************)
(* For any number of connections, workers and descriptors, however numbers *)
(* are used again: that handlers, epoll and descriptors agree; what the    *)
(* events of a batch stand for, how many connections may wait in the       *)
(* backlog, and when the process dies of its limits; that the answers reach*)
(* the clients that asked, in order, although workers answer on the number *)
(* of a descriptor they took before.                                       *)
(***************************************************************************)
EXTENDS Server, FiniteSetTheorems, TLAPS

-----------------------------------------------------------------------------
(* Descriptors and handlers: the inductive invariant.                      *)

TypeOK ==
  /\ peer \in [Conns -> {"away", "open", "half", "closed"}]
  /\ asked \in [Conns -> Nat]
  /\ interest \subseteq Conns
  /\ backlog \in Seq(Conns)
  /\ file \in [Fds -> Conns \cup {None}]
  /\ sockfd \in [Fds -> {-1} \cup Fds]
  /\ queue \in Seq(Fds)
  /\ work \in [Workers -> [pc : {"idle", "read", "send", "close"}, h : {-1} \cup Fds,
                           fd : {-1} \cup Fds, conn : Conns \cup {None}, n : Nat]]

\* What a worker holds is the number of a descriptor.
Named ==
  \A w \in Workers :
    /\ work[w].pc = "read" => work[w].h \in Fds
    /\ work[w].pc \in {"send", "close"} => work[w].h \in Fds /\ work[w].fd \in Fds

\* A connection is at one place: not made, in the backlog once, or at one descriptor.
OnePlace ==
  /\ \A j, k \in DOMAIN backlog : backlog[j] = backlog[k] => j = k
  /\ \A k \in DOMAIN backlog : peer[backlog[k]] # "away"
  /\ \A fd \in Fds : file[fd] # None =>
       /\ peer[file[fd]] # "away"
       /\ \A k \in DOMAIN backlog : backlog[k] # file[fd]
       /\ \A f \in Fds : file[f] = file[fd] => f = fd

\* What epoll knows has a descriptor whose handler knows it, and what has a descriptor
\* with a handler is known to epoll.
Known ==
  /\ \A c \in interest : \E fd \in Fds : file[fd] = c /\ sockfd[fd] = fd
  /\ \A fd \in Fds : file[fd] # None /\ fd <= MaxFd => file[fd] \in interest

IInv == TypeOK /\ Named /\ OnePlace /\ Known

\* What a refused submission, and a client that stops reading, leave alone.
Quiet == UNCHANGED <<peer, asked, answers, kernel, batch, sockfd, queue, work, dead, history>>

LEMMA QuietSteps ==
  ASSUME UNCHANGED vars \/ Refused \/ (\E c \in Conns : Stall(c))
  PROVE  Quiet
BY DEF Quiet, vars, clients, loop, Refused, Stall

-----------------------------------------------------------------------------
(* Descriptors and handlers: each step preserves it.                       *)

\* A worker may change its place.
LEMMA GotoType ==
  ASSUME TypeOK, NEW w \in Workers, NEW then \in {"idle", "read", "send", "close"},
         work' = [work EXCEPT ![w].pc = then]
  PROVE  work' \in [Workers -> [pc : {"idle", "read", "send", "close"}, h : {-1} \cup Fds,
                                fd : {-1} \cup Fds, conn : Conns \cup {None}, n : Nat]]
<1>. DEFINE Place == [pc : {"idle", "read", "send", "close"}, h : {-1} \cup Fds,
                      fd : {-1} \cup Fds, conn : Conns \cup {None}, n : Nat]
<1>1. work \in [Workers -> Place]
  BY DEF TypeOK
<1>2. ASSUME NEW p \in Place
      PROVE  [p EXCEPT !.pc = then] \in Place
  OBVIOUS
<1>. HIDE DEF Place
<1>3. work' \in [Workers -> Place]
  BY <1>1, <1>2
<1>. QED
  BY <1>3 DEF Place

\* Types are kept.
LEMMA TypeStep == IInv /\ [Next]_vars => TypeOK'
<1>. SUFFICES ASSUME TypeOK, Named, [Next]_vars
              PROVE  TypeOK'
  BY DEF IInv
<1>2. ASSUME NEW c \in Conns, Connect(c)
       PROVE  TypeOK'
  BY <1>2 DEF TypeOK, Connect, clients, kernel, loop, history, Idle
<1>3. ASSUME NEW c \in Conns, Send(c)
       PROVE  TypeOK'
  BY <1>3 DEF TypeOK, Send, clients, kernel, loop, history, Idle
<1>4. ASSUME NEW c \in Conns, NEW how \in {"half", "closed"}, Leave(c, how)
       PROVE  TypeOK'
  BY <1>4 DEF TypeOK, Leave, clients, kernel, loop, history, Idle
<1>5. ASSUME EpollWait
       PROVE  TypeOK'
  BY <1>5 DEF TypeOK, EpollWait, clients, kernel, loop, history, Idle
<1>6. ASSUME NEW fd \in Fds, NEW c \in Conns, Accept(fd, c)
       PROVE  TypeOK'
  BY <1>6 DEF TypeOK, Accept, Takes, InitHandler, Register, clients
<1>7. ASSUME NEW fd \in Fds, NEW c \in Conns, AcceptTooMany(fd, c)
       PROVE  TypeOK'
  BY <1>7 DEF TypeOK, AcceptTooMany, Takes, clients
<1>8. ASSUME NEW fd \in Fds, NEW c \in Conns, AcceptAtLimit(fd, c)
       PROVE  TypeOK'
  BY <1>8 DEF TypeOK, AcceptAtLimit, Takes, InitHandler, Register, clients
<1>9. ASSUME AcceptFails
       PROVE  TypeOK'
  BY <1>9 DEF TypeOK, AcceptFails, clients, kernel, loop, history, Idle
<1>10. ASSUME NEW fd \in Fds, HangUp(fd)
       PROVE  TypeOK'
  BY <1>10 DEF TypeOK, HangUp, Close, clients
<1>11. ASSUME NEW fd \in Fds, Submit(fd)
       PROVE  TypeOK'
  BY <1>11 DEF TypeOK, Submit, clients, kernel, loop, history, Idle
<1>12. ASSUME NEW w \in Workers, Take(w)
       PROVE  TypeOK'
  <2>1. Head(queue) \in Fds /\ Tail(queue) \in Seq(Fds)
    BY <1>12 DEF TypeOK, Take
  <2>2. work' = [work EXCEPT ![w] = [Idle EXCEPT !.pc = "read", !.h = Head(queue)]]
    BY <1>12 DEF Take
  <2>3. [Idle EXCEPT !.pc = "read", !.h = Head(queue)]
          \in [pc : {"idle", "read", "send", "close"}, h : {-1} \cup Fds,
               fd : {-1} \cup Fds, conn : Conns \cup {None}, n : Nat]
    BY <2>1 DEF Idle
  <2>. QED
    BY <1>12, <2>1, <2>2, <2>3 DEF TypeOK, Take, clients, kernel, loop, history
<1>13. ASSUME NEW w \in Workers, Read(w)
       PROVE  TypeOK'
  BY <1>13, NoneAssumption DEF TypeOK, Named, Read, Source, clients
<1>14. ASSUME NEW w \in Workers, ReadAtLimit(w)
       PROVE  TypeOK'
  BY <1>14 DEF TypeOK, ReadAtLimit, clients, kernel, loop, history, Idle
<1>15. ASSUME NEW w \in Workers, ReadNothing(w)
       PROVE  TypeOK'
  BY <1>15 DEF TypeOK, ReadNothing, clients, kernel, loop, history, Idle
<1>16. ASSUME NEW w \in Workers, NEW then \in {"read", "close"}, Respond(w, then)
       PROVE  TypeOK'
  <2>1. work' = [work EXCEPT ![w].pc = then] /\ UNCHANGED <<peer, asked, kernel, sockfd, queue>>
    BY <1>16 DEF Respond
  <2>2. work' \in [Workers -> [pc : {"idle", "read", "send", "close"}, h : {-1} \cup Fds,
                               fd : {-1} \cup Fds, conn : Conns \cup {None}, n : Nat]]
    BY <2>1, GotoType
  <2>. QED
    BY <2>1, <2>2 DEF TypeOK, kernel, loop
<1>17. ASSUME NEW w \in Workers, CgiClose(w)
       PROVE  TypeOK'
  <2>1. file' = [file EXCEPT ![work[w].fd] = None] /\ interest' \subseteq interest
    BY <1>17 DEF CgiClose, Close
  <2>2. work' = [work EXCEPT ![w].pc = "read"]
    BY <1>17 DEF CgiClose
  <2>3. file' \in [Fds -> Conns \cup {None}] /\ interest' \subseteq Conns
    BY <2>1 DEF TypeOK
  <2>4. work' \in [Workers -> [pc : {"idle", "read", "send", "close"}, h : {-1} \cup Fds,
                               fd : {-1} \cup Fds, conn : Conns \cup {None}, n : Nat]]
    BY <2>2, GotoType
  <2>5. UNCHANGED <<peer, asked, backlog, sockfd, queue>>
    BY <1>17 DEF CgiClose, clients
  <2>. QED
    BY <2>3, <2>4, <2>5 DEF TypeOK
<1>18. CASE Quiet
  BY <1>18 DEF TypeOK, Quiet, clients, kernel, loop, history
<1>. QED
  BY <1>2, <1>3, <1>4, <1>5, <1>6, <1>7, <1>8, <1>9, <1>10, <1>11, <1>12, <1>13, <1>14,
     <1>15, <1>16, <1>17, <1>18, QuietSteps
     DEF Next, Loop, Worker, Client

\* A worker takes its numbers from the queue and from the handlers.
LEMMA NamedStep == IInv /\ [Next]_vars => Named'
<1>. SUFFICES ASSUME TypeOK, Named, [Next]_vars
              PROVE  Named'
  BY DEF IInv
<1>2. ASSUME NEW c \in Conns, Connect(c)
       PROVE  Named'
  BY <1>2 DEF TypeOK, Named, Connect, clients, kernel, loop, history, Idle
<1>3. ASSUME NEW c \in Conns, Send(c)
       PROVE  Named'
  BY <1>3 DEF TypeOK, Named, Send, clients, kernel, loop, history, Idle
<1>4. ASSUME NEW c \in Conns, NEW how \in {"half", "closed"}, Leave(c, how)
       PROVE  Named'
  BY <1>4 DEF TypeOK, Named, Leave, clients, kernel, loop, history, Idle
<1>5. ASSUME EpollWait
       PROVE  Named'
  BY <1>5 DEF TypeOK, Named, EpollWait, clients, kernel, loop, history, Idle
<1>6. ASSUME NEW fd \in Fds, NEW c \in Conns, Accept(fd, c)
       PROVE  Named'
  BY <1>6 DEF TypeOK, Named, Accept, clients, kernel, loop, history, Idle
<1>7. ASSUME NEW fd \in Fds, NEW c \in Conns, AcceptTooMany(fd, c)
       PROVE  Named'
  BY <1>7 DEF TypeOK, Named, AcceptTooMany, clients, kernel, loop, history, Idle
<1>8. ASSUME NEW fd \in Fds, NEW c \in Conns, AcceptAtLimit(fd, c)
       PROVE  Named'
  BY <1>8 DEF TypeOK, Named, AcceptAtLimit, clients, kernel, loop, history, Idle
<1>9. ASSUME AcceptFails
       PROVE  Named'
  BY <1>9 DEF TypeOK, Named, AcceptFails, clients, kernel, loop, history, Idle
<1>10. ASSUME NEW fd \in Fds, HangUp(fd)
       PROVE  Named'
  BY <1>10 DEF TypeOK, Named, HangUp, clients, kernel, loop, history, Idle
<1>11. ASSUME NEW fd \in Fds, Submit(fd)
       PROVE  Named'
  BY <1>11 DEF TypeOK, Named, Submit, clients, kernel, loop, history, Idle
<1>12. ASSUME NEW w \in Workers, Take(w)
       PROVE  Named'
  BY <1>12 DEF TypeOK, Named, Take, clients, kernel, loop, history, Idle
<1>13. ASSUME NEW w \in Workers, Read(w)
       PROVE  Named'
  BY <1>13 DEF TypeOK, Named, Read, Source
<1>14. ASSUME NEW w \in Workers, ReadAtLimit(w)
       PROVE  Named'
  BY <1>14 DEF TypeOK, Named, ReadAtLimit, clients, kernel, loop, history, Idle
<1>15. ASSUME NEW w \in Workers, ReadNothing(w)
       PROVE  Named'
  BY <1>15 DEF TypeOK, Named, ReadNothing, clients, kernel, loop, history, Idle
<1>16. ASSUME NEW w \in Workers, NEW then \in {"read", "close"}, Respond(w, then)
       PROVE  Named'
  BY <1>16 DEF TypeOK, Named, Respond, clients, kernel, loop, history, Idle
<1>17. ASSUME NEW w \in Workers, CgiClose(w)
       PROVE  Named'
  BY <1>17 DEF TypeOK, Named, CgiClose, clients, kernel, loop, history, Idle
<1>18. CASE Quiet
  BY <1>18 DEF Named, Quiet, clients, kernel, loop, history
<1>. QED
  BY <1>2, <1>3, <1>4, <1>5, <1>6, <1>7, <1>8, <1>9, <1>10, <1>11, <1>12, <1>13, <1>14,
     <1>15, <1>16, <1>17, <1>18, QuietSteps
     DEF Next, Loop, Worker, Client

\* The connection that is taken leaves the backlog for a descriptor of its own.
LEMMA TakesPlace ==
  ASSUME TypeOK, OnePlace, NEW fd \in Fds, NEW c \in Conns, Takes(fd, c), UNCHANGED peer
  PROVE  OnePlace'
<1>1. /\ file[fd] = None /\ file' = [file EXCEPT ![fd] = c]
      /\ backlog # <<>> /\ c = backlog[1] /\ backlog' = Tail(backlog)
  BY DEF Takes, Free
<1>2. /\ Len(backlog') = Len(backlog) - 1 /\ Len(backlog) \in Nat
      /\ \A k \in DOMAIN backlog' : k + 1 \in DOMAIN backlog /\ backlog'[k] = backlog[k + 1]
      /\ 1 \in DOMAIN backlog
  BY <1>1 DEF TypeOK
<1>3. \A k \in DOMAIN backlog' : k \in Nat /\ k + 1 # 1
  BY <1>1 DEF TypeOK
<1>4. \A j, k \in DOMAIN backlog' : backlog'[j] = backlog'[k] => j = k
  <2>. SUFFICES ASSUME NEW j \in DOMAIN backlog', NEW k \in DOMAIN backlog',
                       backlog'[j] = backlog'[k]
                PROVE  j = k
    OBVIOUS
  <2>1. j + 1 = k + 1
    BY <1>2 DEF OnePlace
  <2>. QED
    BY <1>3, <2>1
<1>5. \A k \in DOMAIN backlog' : peer'[backlog'[k]] # "away" /\ backlog'[k] # c
  <2>. SUFFICES ASSUME NEW k \in DOMAIN backlog'
                PROVE  peer'[backlog'[k]] # "away" /\ backlog'[k] # c
    OBVIOUS
  <2>1. peer[backlog[k + 1]] # "away"
    BY <1>2 DEF OnePlace
  <2>2. backlog[k + 1] # backlog[1]
    BY <1>2, <1>3 DEF OnePlace
  <2>. QED
    BY <1>1, <1>2, <2>1, <2>2
<1>6. peer[c] # "away" /\ \A f \in Fds : file[f] # c
  <2>1. peer[c] # "away"
    BY <1>1, <1>2 DEF OnePlace
  <2>2. ASSUME NEW f \in Fds, file[f] = c
        PROVE  FALSE
    BY <1>1, <1>2, <2>2, NoneAssumption DEF OnePlace
  <2>. QED
    BY <2>1, <2>2
<1>7. ASSUME NEW f \in Fds, file'[f] # None
      PROVE  /\ peer'[file'[f]] # "away"
             /\ \A k \in DOMAIN backlog' : backlog'[k] # file'[f]
             /\ \A g \in Fds : file'[g] = file'[f] => g = f
  <2>1. CASE f = fd
    <3>1. file'[f] = c /\ \A g \in Fds : g # fd => file'[g] = file[g]
      BY <1>1, <2>1 DEF TypeOK
    <3>. QED
      BY <1>5, <1>6, <2>1, <3>1
  <2>2. CASE f # fd
    <3>1. file'[f] = file[f] /\ file'[fd] = c /\ \A g \in Fds : g # fd => file'[g] = file[g]
      BY <1>1, <2>2 DEF TypeOK
    <3>2. /\ peer[file[f]] # "away"
          /\ \A k \in DOMAIN backlog : backlog[k] # file[f]
          /\ \A g \in Fds : file[g] = file[f] => g = f
      BY <1>7, <3>1 DEF OnePlace
    <3>3. \A k \in DOMAIN backlog' : backlog'[k] # file[f]
      BY <1>2, <3>2
    <3>. QED
      BY <1>6, <3>1, <3>2, <3>3
  <2>. QED
    BY <2>1, <2>2
<1>. QED
  BY <1>4, <1>5, <1>7 DEF OnePlace

\* accept() takes the first of the backlog to a descriptor that stood for nothing.
LEMMA OnePlaceStep == IInv /\ [Next]_vars => OnePlace'
<1>. SUFFICES ASSUME TypeOK, Named, OnePlace, [Next]_vars
              PROVE  OnePlace'
  BY DEF IInv
<1>2. ASSUME NEW c \in Conns, Connect(c)
       PROVE  OnePlace'
  BY <1>2 DEF TypeOK, OnePlace, Connect
<1>3. ASSUME NEW c \in Conns, Send(c)
       PROVE  OnePlace'
  BY <1>3 DEF OnePlace, Send, clients, kernel, loop, history
<1>4. ASSUME NEW c \in Conns, NEW how \in {"half", "closed"}, Leave(c, how)
       PROVE  OnePlace'
  BY <1>4 DEF TypeOK, OnePlace, Leave
<1>5. ASSUME EpollWait
       PROVE  OnePlace'
  BY <1>5 DEF OnePlace, EpollWait, clients, kernel, loop, history
<1>6. ASSUME NEW fd \in Fds, NEW c \in Conns, Accept(fd, c)
       PROVE  OnePlace'
  BY <1>6, TakesPlace DEF Accept, clients
<1>7. ASSUME NEW fd \in Fds, NEW c \in Conns, AcceptTooMany(fd, c)
       PROVE  OnePlace'
  BY <1>7, TakesPlace DEF AcceptTooMany, clients
<1>8. ASSUME NEW fd \in Fds, NEW c \in Conns, AcceptAtLimit(fd, c)
       PROVE  OnePlace'
  BY <1>8, TakesPlace DEF AcceptAtLimit, clients
<1>9. ASSUME AcceptFails
       PROVE  OnePlace'
  BY <1>9 DEF OnePlace, AcceptFails, clients, kernel, loop, history
<1>10. ASSUME NEW fd \in Fds, HangUp(fd)
       PROVE  OnePlace'
  BY <1>10 DEF TypeOK, OnePlace, HangUp, Close, clients
<1>11. ASSUME NEW fd \in Fds, Submit(fd)
       PROVE  OnePlace'
  BY <1>11 DEF OnePlace, Submit, clients, kernel, loop, history
<1>12. ASSUME NEW w \in Workers, Take(w)
       PROVE  OnePlace'
  BY <1>12 DEF OnePlace, Take, clients, kernel, loop, history
<1>13. ASSUME NEW w \in Workers, Read(w)
       PROVE  OnePlace'
  BY <1>13 DEF OnePlace, Read, clients, kernel, loop, history
<1>14. ASSUME NEW w \in Workers, ReadAtLimit(w)
       PROVE  OnePlace'
  BY <1>14 DEF OnePlace, ReadAtLimit, clients, kernel, loop, history
<1>15. ASSUME NEW w \in Workers, ReadNothing(w)
       PROVE  OnePlace'
  BY <1>15 DEF OnePlace, ReadNothing, clients, kernel, loop, history
<1>16. ASSUME NEW w \in Workers, NEW then \in {"read", "close"}, Respond(w, then)
       PROVE  OnePlace'
  BY <1>16 DEF OnePlace, Respond, clients, kernel, loop, history
<1>17. ASSUME NEW w \in Workers, CgiClose(w)
       PROVE  OnePlace'
  BY <1>17 DEF TypeOK, Named, OnePlace, CgiClose, Close, clients
<1>18. CASE Quiet
  BY <1>18 DEF OnePlace, Quiet, clients, kernel, loop, history
<1>. QED
  BY <1>2, <1>3, <1>4, <1>5, <1>6, <1>7, <1>8, <1>9, <1>10, <1>11, <1>12, <1>13, <1>14,
     <1>15, <1>16, <1>17, <1>18, QuietSteps
     DEF Next, Loop, Worker, Client

\* What is closed leaves epoll with its descriptor, and only what has a handler enters.
LEMMA KnownStep == IInv /\ [Next]_vars => Known'
<1>. SUFFICES ASSUME TypeOK, Named, OnePlace, Known, [Next]_vars
              PROVE  Known'
  BY DEF IInv
<1>2. ASSUME NEW c \in Conns, Connect(c)
       PROVE  Known'
  BY <1>2 DEF Known, Connect
<1>3. ASSUME NEW c \in Conns, Send(c)
       PROVE  Known'
  BY <1>3 DEF Known, Send, clients, kernel, loop, history
<1>4. ASSUME NEW c \in Conns, NEW how \in {"half", "closed"}, Leave(c, how)
       PROVE  Known'
  BY <1>4 DEF Known, Leave
<1>5. ASSUME EpollWait
       PROVE  Known'
  BY <1>5 DEF Known, EpollWait, clients, kernel, loop, history
<1>6. ASSUME NEW fd \in Fds, NEW c \in Conns, Accept(fd, c)
       PROVE  Known'
  <2>1. file[fd] = None /\ file' = [file EXCEPT ![fd] = c]
    BY <1>6 DEF Accept, Takes, Free
  <2>2. interest' = interest \cup {c} /\ sockfd' = [sockfd EXCEPT ![fd] = fd]
    BY <1>6 DEF Accept, InitHandler, Register
  <2>3. None \notin interest
    BY NoneAssumption DEF TypeOK
  <2>4. \A d \in interest' : \E f \in Fds : file'[f] = d /\ sockfd'[f] = f
    <3>1. ASSUME NEW d \in interest
          PROVE  \E f \in Fds : file'[f] = d /\ sockfd'[f] = f
      <4>1. PICK f \in Fds : file[f] = d /\ sockfd[f] = f
        BY <3>1 DEF Known
      <4>2. f # fd
        BY <2>1, <2>3, <3>1, <4>1
      <4>. QED
        BY <2>1, <2>2, <4>1, <4>2 DEF TypeOK
    <3>. QED
      BY <2>1, <2>2, <3>1 DEF TypeOK
  <2>5. \A f \in Fds : file'[f] # None /\ f <= MaxFd => file'[f] \in interest'
    <3>. SUFFICES ASSUME NEW f \in Fds, file'[f] # None, f <= MaxFd
                  PROVE  file'[f] \in interest'
      OBVIOUS
    <3>1. CASE f = fd
      BY <2>1, <2>2, <3>1, FdsAssumption DEF TypeOK, Fds
    <3>2. CASE f # fd
      BY <2>1, <2>2, <3>2 DEF TypeOK, Known
    <3>. QED
      BY <3>1, <3>2
  <2>. QED
    BY <2>4, <2>5 DEF Known
<1>7. ASSUME NEW fd \in Fds, NEW c \in Conns, AcceptTooMany(fd, c)
       PROVE  Known'
  <2>1. file[fd] = None /\ file' = [file EXCEPT ![fd] = c]
    BY <1>7 DEF AcceptTooMany, Takes, Free
  <2>2. interest' = interest /\ sockfd' = sockfd /\ fd > MaxFd
    BY <1>7 DEF AcceptTooMany
  <2>3. None \notin interest
    BY NoneAssumption DEF TypeOK
  <2>4. \A d \in interest' : \E f \in Fds : file'[f] = d /\ sockfd'[f] = f
    <3>1. ASSUME NEW d \in interest
          PROVE  \E f \in Fds : file'[f] = d /\ sockfd'[f] = f
      <4>1. PICK f \in Fds : file[f] = d /\ sockfd[f] = f
        BY <3>1 DEF Known
      <4>2. f # fd
        BY <2>1, <2>3, <3>1, <4>1
      <4>. QED
        BY <2>1, <2>2, <4>1, <4>2 DEF TypeOK
    <3>. QED
      BY <2>1, <2>2, <3>1 DEF TypeOK
  <2>5. \A f \in Fds : file'[f] # None /\ f <= MaxFd => file'[f] \in interest'
    <3>. SUFFICES ASSUME NEW f \in Fds, file'[f] # None, f <= MaxFd
                  PROVE  file'[f] \in interest'
      OBVIOUS
    <3>1. CASE f = fd
      BY <2>1, <2>2, <3>1, FdsAssumption DEF TypeOK, Fds
    <3>2. CASE f # fd
      BY <2>1, <2>2, <3>2 DEF TypeOK, Known
    <3>. QED
      BY <3>1, <3>2
  <2>. QED
    BY <2>4, <2>5 DEF Known
<1>8. ASSUME NEW fd \in Fds, NEW c \in Conns, AcceptAtLimit(fd, c)
       PROVE  Known'
  <2>1. file[fd] = None /\ file' = [file EXCEPT ![fd] = c]
    BY <1>8 DEF AcceptAtLimit, Takes, Free
  <2>2. interest' = interest \cup {c} /\ sockfd' = [sockfd EXCEPT ![fd] = fd]
    BY <1>8 DEF AcceptAtLimit, InitHandler, Register
  <2>3. None \notin interest
    BY NoneAssumption DEF TypeOK
  <2>4. \A d \in interest' : \E f \in Fds : file'[f] = d /\ sockfd'[f] = f
    <3>1. ASSUME NEW d \in interest
          PROVE  \E f \in Fds : file'[f] = d /\ sockfd'[f] = f
      <4>1. PICK f \in Fds : file[f] = d /\ sockfd[f] = f
        BY <3>1 DEF Known
      <4>2. f # fd
        BY <2>1, <2>3, <3>1, <4>1
      <4>. QED
        BY <2>1, <2>2, <4>1, <4>2 DEF TypeOK
    <3>. QED
      BY <2>1, <2>2, <3>1 DEF TypeOK
  <2>5. \A f \in Fds : file'[f] # None /\ f <= MaxFd => file'[f] \in interest'
    <3>. SUFFICES ASSUME NEW f \in Fds, file'[f] # None, f <= MaxFd
                  PROVE  file'[f] \in interest'
      OBVIOUS
    <3>1. CASE f = fd
      BY <2>1, <2>2, <3>1, FdsAssumption DEF TypeOK, Fds
    <3>2. CASE f # fd
      BY <2>1, <2>2, <3>2 DEF TypeOK, Known
    <3>. QED
      BY <3>1, <3>2
  <2>. QED
    BY <2>4, <2>5 DEF Known
<1>9. ASSUME AcceptFails
       PROVE  Known'
  BY <1>9 DEF Known, AcceptFails, clients, kernel, loop, history
<1>10. ASSUME NEW fd \in Fds, HangUp(fd)
       PROVE  Known'
  <2>1. CASE sockfd[fd] = -1
    BY <1>10, <2>1 DEF HangUp, Known
  <2>2. CASE sockfd[fd] # -1
    <3>1. file' = [file EXCEPT ![fd] = None] /\ interest' = interest \ {file[fd]}
          /\ sockfd' = [sockfd EXCEPT ![fd] = -1]
      BY <1>10, <2>2 DEF HangUp, Close
    <3>2. \A c \in interest' : \E f \in Fds : file'[f] = c /\ sockfd'[f] = f
      <4>. SUFFICES ASSUME NEW c \in interest'
                    PROVE  \E f \in Fds : file'[f] = c /\ sockfd'[f] = f
        OBVIOUS
      <4>1. PICK f \in Fds : file[f] = c /\ sockfd[f] = f
        BY <3>1 DEF Known
      <4>2. f # fd
        BY <3>1, <4>1
      <4>. QED
        BY <3>1, <4>1, <4>2 DEF TypeOK
    <3>3. \A f \in Fds : file'[f] # None /\ f <= MaxFd => file'[f] \in interest'
      <4>. SUFFICES ASSUME NEW f \in Fds, file'[f] # None, f <= MaxFd
                    PROVE  file'[f] \in interest'
        OBVIOUS
      <4>1. f # fd /\ file'[f] = file[f]
        BY <3>1 DEF TypeOK
      <4>2. file[f] # file[fd]
        BY <4>1 DEF OnePlace
      <4>. QED
        BY <3>1, <4>1, <4>2 DEF Known
    <3>. QED
      BY <3>2, <3>3 DEF Known
  <2>. QED
    BY <2>1, <2>2
<1>11. ASSUME NEW fd \in Fds, Submit(fd)
       PROVE  Known'
  BY <1>11 DEF Known, Submit, clients, kernel, loop, history
<1>12. ASSUME NEW w \in Workers, Take(w)
       PROVE  Known'
  BY <1>12 DEF Known, Take, clients, kernel, loop, history
<1>13. ASSUME NEW w \in Workers, Read(w)
       PROVE  Known'
  BY <1>13 DEF Known, Read, clients, kernel, loop, history
<1>14. ASSUME NEW w \in Workers, ReadAtLimit(w)
       PROVE  Known'
  BY <1>14 DEF Known, ReadAtLimit, clients, kernel, loop, history
<1>15. ASSUME NEW w \in Workers, ReadNothing(w)
       PROVE  Known'
  BY <1>15 DEF Known, ReadNothing, clients, kernel, loop, history
<1>16. ASSUME NEW w \in Workers, NEW then \in {"read", "close"}, Respond(w, then)
       PROVE  Known'
  BY <1>16 DEF Known, Respond, clients, kernel, loop, history
<1>17. ASSUME NEW w \in Workers, CgiClose(w)
       PROVE  Known'
  BY <1>17, NoneAssumption DEF TypeOK, Named, OnePlace, Known, CgiClose, Close
<1>18. CASE Quiet
  BY <1>18 DEF Known, Quiet, clients, kernel, loop, history
<1>. QED
  BY <1>2, <1>3, <1>4, <1>5, <1>6, <1>7, <1>8, <1>9, <1>10, <1>11, <1>12, <1>13, <1>14,
     <1>15, <1>16, <1>17, <1>18, QuietSteps
     DEF Next, Loop, Worker, Client

\* The invariant holds in every state (server.cc:77-120).
THEOREM ServerInvariant == Spec => []IInv
<1>1. Init => IInv
  BY DEF Init, IInv, TypeOK, Named, OnePlace, Known, Idle
<1>2. IInv /\ [Next]_vars => IInv'
  BY TypeStep, NamedStep, OnePlaceStep, KnownStep DEF IInv
<1>. QED
  BY <1>1, <1>2, PTL DEF Spec

-----------------------------------------------------------------------------
(* Descriptors and handlers: what follows.                                 *)

\* FdOf() is the one descriptor of a connection.
LEMMA FdOfIsIt ==
  ASSUME IInv, NEW fd \in Fds, file[fd] # None
  PROVE  FdOf(file[fd]) = fd
<1>1. \A f \in Fds : file[f] = file[fd] => f = fd
  BY DEF IInv, OnePlace
<1>. QED
  BY <1>1 DEF FdOf

\* Whatever the order in which connections come and go and numbers are used again, a
\* connection that epoll reports has a descriptor whose handler knows it, and none is
\* open without but those above MAX_FD (server.cc:93-104, http_handler.cc:177-183).
THEOREM HandlersAlwaysAgree == Spec => []HandlersAgree
<1>1. IInv => HandlersAgree
  <2>. SUFFICES ASSUME IInv
                PROVE  HandlersAgree
    OBVIOUS
  <2>1. ASSUME NEW c \in interest
        PROVE  Open(c) /\ sockfd[FdOf(c)] = FdOf(c)
    <3>1. PICK fd \in Fds : file[fd] = c /\ sockfd[fd] = fd
      BY <2>1 DEF IInv, Known
    <3>2. c # None
      BY <2>1, NoneAssumption DEF IInv, TypeOK
    <3>3. FdOf(c) = fd
      BY <3>1, <3>2, FdOfIsIt
    <3>. QED
      BY <3>1, <3>3 DEF Open
  <2>. QED
    BY <2>1 DEF IInv, Known, HandlersAgree
<1>. QED
  BY <1>1, ServerInvariant, PTL

-----------------------------------------------------------------------------
(* Events and limits: the inductive invariants.                            *)

Files == Conns \cup {Listen}
Events == [fd : Fds \cup {ListenFd}, hup : BOOLEAN]
Distinct(s) == \A j, k \in DOMAIN s : s[j] = s[k] => j = k

\* The ready list has each file that epoll watches once.
ListOK(list, known) ==
  /\ list \in Seq(Files) /\ Distinct(list)
  /\ \A k \in DOMAIN list : list[k] \in known \cup {Listen}

ReadyOK == ListOK(ready, interest) /\ batch \in Seq(Events) /\ merged \in Nat

\* While no CGI error has closed a descriptor, an event that waits in the batch is for the
\* connection its number stands for, one for each number, and who is said to have hung up has.
StillTrue ==
  dropped = {} =>
    /\ cut = {}
    /\ \A j, k \in DOMAIN batch : batch[j].fd = batch[k].fd => j = k
    /\ \A k \in DOMAIN batch :
         batch[k].fd # ListenFd =>
           /\ file[batch[k].fd] # None
           /\ batch[k].hup => peer[file[batch[k].fd]] # "open"

\* Whether there is an event of the listening socket.
HasAccept == \E k \in DOMAIN batch : batch[k].fd = ListenFd

EInv == ReadyOK /\ StillTrue /\ BacklogBound

\* No more descriptors were open than ever at once, and a handler at the limit was
\* initialized only if all before it were in use.
LimitsOK ==
  /\ peak \in Nat /\ peak <= NFds
  /\ Cardinality(Fds \ Free) <= peak
  /\ \A fd \in Fds : fd >= MaxFd /\ sockfd[fd] # -1 => peak > MaxFd

-----------------------------------------------------------------------------
(* The operators of the model.                                             *)

\* The larger of two numbers.
LEMMA MaxOfTwo ==
  ASSUME NEW a \in Int, NEW b \in Int
  PROVE  Max({a, b}) \in {a, b} /\ Max({a, b}) >= a /\ Max({a, b}) >= b
<1>1. \E x \in {a, b} : \A y \in {a, b} : x >= y
  OBVIOUS
<1>2. Max({a, b}) \in {a, b} /\ \A y \in {a, b} : Max({a, b}) >= y
  BY <1>1, Zenon DEF Max
<1>. QED
  BY <1>2

\* A file that becomes ready is in the list once.
LEMMA NotifyOnce ==
  ASSUME NEW S, NEW list \in Seq(S), Distinct(list), NEW x \in S
  PROVE  /\ Notify(list, x) \in Seq(S) /\ Distinct(Notify(list, x))
         /\ Contains(Notify(list, x), x)
         /\ \A k \in DOMAIN Notify(list, x) : Notify(list, x)[k] = x \/ Contains(list, Notify(list, x)[k])
         /\ \A y : Contains(list, y) => Contains(Notify(list, x), y)
<1>1. CASE Contains(list, x)
  BY <1>1 DEF Notify, Contains
<1>2. CASE ~Contains(list, x)
  <2>. DEFINE new == Append(list, x)
  <2>1. Notify(list, x) = new
    BY <1>2 DEF Notify
  <2>2. /\ new \in Seq(S) /\ Len(new) = Len(list) + 1 /\ Len(list) \in Nat
        /\ new[Len(list) + 1] = x /\ \A k \in 1 .. Len(list) : new[k] = list[k]
    OBVIOUS
  <2>. HIDE DEF new
  <2>3. DOMAIN new = 1 .. Len(list) + 1
    BY <2>2
  <2>4. \A k \in DOMAIN new : k = Len(list) + 1 \/ (k \in 1 .. Len(list) /\ new[k] = list[k])
    BY <2>2, <2>3
  <2>5. Distinct(new)
    <3>. SUFFICES ASSUME NEW j \in DOMAIN new, NEW k \in DOMAIN new, new[j] = new[k]
                  PROVE  j = k
      BY DEF Distinct
    <3>1. CASE j = Len(list) + 1 /\ k = Len(list) + 1
      BY <3>1
    <3>2. CASE j \in 1 .. Len(list) /\ k \in 1 .. Len(list)
      BY <2>2, <3>2 DEF Distinct
    <3>3. CASE j = Len(list) + 1 /\ k \in 1 .. Len(list)
      BY <1>2, <2>2, <3>3 DEF Contains
    <3>4. CASE j \in 1 .. Len(list) /\ k = Len(list) + 1
      BY <1>2, <2>2, <3>4 DEF Contains
    <3>. QED
      BY <2>4, <3>1, <3>2, <3>3, <3>4
  <2>6. Contains(new, x)
    BY <2>2 DEF Contains
  <2>7. \A k \in DOMAIN new : new[k] = x \/ Contains(list, new[k])
    BY <2>2, <2>4 DEF Contains
  <2>8. \A y : Contains(list, y) => Contains(new, y)
    BY <2>2 DEF Contains
  <2>. QED
    BY <2>1, <2>2, <2>5, <2>6, <2>7, <2>8
<1>. QED
  BY <1>1, <1>2

\* What a sequence made of two has at its places.
LEMMA Joined ==
  ASSUME NEW S, NEW front \in Seq(S), NEW back \in Seq(S)
  PROVE  /\ front \o back \in Seq(S) /\ Len(front \o back) = Len(front) + Len(back)
         /\ \A k \in 1 .. Len(front) : (front \o back)[k] = front[k]
         /\ \A k \in 1 .. Len(back) : (front \o back)[Len(front) + k] = back[k]
OBVIOUS

\* A file that is closed leaves the list, and the others stay.
LEMMA UnlinkOnce ==
  ASSUME NEW S, NEW list \in Seq(S), Distinct(list), NEW x
  PROVE  /\ Unlink(list, x) \in Seq(S) /\ Distinct(Unlink(list, x))
         /\ \A k \in DOMAIN Unlink(list, x) :
              Unlink(list, x)[k] # x /\ Contains(list, Unlink(list, x)[k])
         /\ \A y : y # x /\ Contains(list, y) => Contains(Unlink(list, x), y)
<1>1. CASE ~Contains(list, x)
  BY <1>1 DEF Unlink, Contains
<1>2. CASE Contains(list, x)
  <2>. DEFINE p == CHOOSE k \in DOMAIN list : list[k] = x
  <2>1. p \in DOMAIN list /\ list[p] = x
    <3>1. \E k \in DOMAIN list : list[k] = x
      BY <1>2 DEF Contains
    <3>. QED
      BY <3>1
  <2>. DEFINE new == RemoveAt(list, p)
  <2>2. Unlink(list, x) = new
    BY <1>2 DEF Unlink
  <2>. HIDE DEF p
  <2>3. p \in 1 .. Len(list) /\ Len(list) \in Nat
    BY <2>1
  <2>4. /\ new \in Seq(S) /\ Len(new) = Len(list) - 1
        /\ \A k \in 1 .. Len(list) - 1 : new[k] = list[IF k < p THEN k ELSE k + 1]
    <3>. DEFINE front == SubSeq(list, 1, p - 1)
                back == SubSeq(list, p + 1, Len(list))
    <3>1. /\ front \in Seq(S) /\ Len(front) = p - 1
          /\ \A k \in 1 .. p - 1 : front[k] = list[k]
      BY <2>3
    <3>2. /\ back \in Seq(S) /\ Len(back) = Len(list) - p
          /\ \A k \in 1 .. Len(list) - p : back[k] = list[p + k]
      BY <2>3
    <3>3. new = front \o back
      BY DEF RemoveAt
    <3>. HIDE DEF front, back, new
    <3>4. /\ new \in Seq(S) /\ Len(new) = Len(front) + Len(back)
          /\ \A k \in 1 .. Len(front) : new[k] = front[k]
          /\ \A k \in 1 .. Len(back) : new[Len(front) + k] = back[k]
      <4>1. front \in Seq(S) /\ back \in Seq(S)
        BY <3>1, <3>2
      <4>. QED
        BY ONLY <3>3, <4>1, Joined
    <3>5. ASSUME NEW k \in 1 .. Len(list) - 1
          PROVE  new[k] = list[IF k < p THEN k ELSE k + 1]
      <4>1. CASE k < p
        <5>1. k \in 1 .. Len(front) /\ k \in 1 .. p - 1
          BY <2>3, <3>1, <4>1
        <5>. QED
          BY <3>1, <3>4, <4>1, <5>1
      <4>2. CASE ~(k < p)
        <5>1. k - (p - 1) \in 1 .. Len(list) - p /\ p + (k - (p - 1)) = k + 1
              /\ k = Len(front) + (k - (p - 1))
          BY <2>3, <3>1, <4>2
        <5>2. new[k] = back[k - (p - 1)]
          BY <3>2, <3>4, <5>1
        <5>. QED
          BY <3>2, <4>2, <5>1, <5>2
      <4>. QED
        BY <4>1, <4>2
    <3>6. Len(new) = Len(list) - 1
      BY <2>3, <3>1, <3>2, <3>4
    <3>. QED
      BY <3>4, <3>5, <3>6
  <2>. HIDE DEF new
  <2>5. DOMAIN new = 1 .. Len(list) - 1
    BY <2>3, <2>4
  <2>. DEFINE old(k) == IF k < p THEN k ELSE k + 1
  <2>6. \A k \in DOMAIN new : old(k) \in DOMAIN list /\ old(k) # p /\ new[k] = list[old(k)]
    BY <2>3, <2>4, <2>5
  <2>7. \A j, k \in DOMAIN new : old(j) = old(k) => j = k
    BY <2>3, <2>5
  <2>8. \A m \in DOMAIN list : m # p => \E k \in DOMAIN new : old(k) = m
    <3>. SUFFICES ASSUME NEW m \in 1 .. Len(list), m # p
                  PROVE  \E k \in 1 .. Len(list) - 1 : old(k) = m
      BY <2>5, SMTT(20)
    <3>1. CASE m < p
      BY <2>3, <3>1
    <3>2. CASE m > p
      <4>1. m - 1 \in 1 .. Len(list) - 1 /\ old(m - 1) = m
        BY <2>3, <3>2
      <4>. QED
        BY <4>1
    <3>. QED
      BY <2>3, <3>1, <3>2
  <2>. HIDE DEF old
  <2>9. Distinct(new)
    BY <2>6, <2>7 DEF Distinct
  <2>10. \A k \in DOMAIN new : new[k] # x /\ Contains(list, new[k])
    BY <2>1, <2>6 DEF Distinct, Contains
  <2>11. \A y : y # x /\ Contains(list, y) => Contains(new, y)
    <3>. SUFFICES ASSUME NEW y, y # x, Contains(list, y)
                  PROVE  Contains(new, y)
      OBVIOUS
    <3>1. PICK m \in DOMAIN list : list[m] = y
      BY DEF Contains
    <3>2. m # p
      BY <2>1, <3>1
    <3>3. PICK k \in DOMAIN new : old(k) = m
      BY <2>8, <3>2
    <3>4. new[k] = y
      BY <2>6, <3>1, <3>3
    <3>. QED
      BY <2>4, <3>4 DEF Contains
  <2>. QED
    BY <2>2, <2>4, <2>9, <2>10, <2>11
<1>. QED
  BY <1>1, <1>2

-----------------------------------------------------------------------------
(* The limits.                                                             *)

\* How many descriptors are taken.
LEMMA TakenCount ==
  /\ IsFiniteSet(Fds) /\ Cardinality(Fds) = NFds /\ IsFiniteSet(Fds \ Free)
  /\ Cardinality(Fds \ Free) \in Nat /\ Cardinality(Fds \ Free) <= NFds
  /\ Free # {} => Cardinality(Fds \ Free) < NFds
<1>1. IsFiniteSet(Fds) /\ Cardinality(Fds) = NFds
  BY FdsAssumption, FS_Interval DEF Fds
<1>2. Fds \ Free \in SUBSET Fds
  OBVIOUS
<1>3. /\ IsFiniteSet(Fds \ Free) /\ Cardinality(Fds \ Free) <= Cardinality(Fds)
      /\ Cardinality(Fds) = Cardinality(Fds \ Free) => Fds = Fds \ Free
  BY <1>1, <1>2, FS_Subset
<1>4. Cardinality(Fds \ Free) \in Nat
  BY <1>3, FS_CardinalityType
<1>5. Free # {} => Fds # Fds \ Free
  BY DEF Free
<1>. QED
  BY <1>1, <1>3, <1>4, <1>5, FdsAssumption

\* accept() takes one more.
LEMMA TakesOneMore ==
  ASSUME IInv, LimitsOK, NEW fd \in Fds, NEW c \in Conns, Takes(fd, c)
  PROVE  /\ peak' \in Nat /\ peak <= peak' /\ peak' <= NFds
         /\ Cardinality(Fds \ Free') <= peak'
         /\ fd >= MaxFd => peak' > MaxFd
<1>1. fd \in Free /\ file' = [file EXCEPT ![fd] = c] /\ peak' = Max({peak, Taken})
      /\ \A f \in Free : fd <= f
  BY DEF Takes
<1>2. Taken \in Nat /\ Taken <= NFds /\ Taken = Cardinality(Fds \ Free) + 1
  BY <1>1, TakenCount, FdsAssumption DEF Taken
<1>3. peak' \in {peak, Taken} /\ peak' >= peak /\ peak' >= Taken
  <2>1. peak \in Int /\ Taken \in Int
    BY <1>2 DEF LimitsOK
  <2>2. Max({peak, Taken}) \in {peak, Taken} /\ Max({peak, Taken}) >= peak
        /\ Max({peak, Taken}) >= Taken
    BY ONLY <2>1, MaxOfTwo
  <2>. QED
    BY <1>1, <2>2
<1>4. Fds \ Free' = (Fds \ Free) \cup {fd} /\ fd \notin Fds \ Free
  BY <1>1, NoneAssumption DEF Free, IInv, TypeOK
<1>5. Cardinality(Fds \ Free') = Taken
  BY <1>2, <1>4, TakenCount, FS_AddElement
<1>6. ASSUME fd >= MaxFd
      PROVE  Taken > MaxFd
  <2>1. 0 .. MaxFd - 1 \in SUBSET (Fds \ Free)
    <3>. SUFFICES ASSUME NEW f \in 0 .. MaxFd - 1
                  PROVE  f \in Fds /\ f \notin Free
      OBVIOUS
    <3>1. f \in Fds /\ ~(fd <= f)
      BY <1>6, FdsAssumption DEF Fds
    <3>. QED
      BY <1>1, <3>1
  <2>2. Cardinality(0 .. MaxFd - 1) = MaxFd
    BY FS_Interval, FdsAssumption
  <2>3. Cardinality(0 .. MaxFd - 1) <= Cardinality(Fds \ Free)
    BY <2>1, FS_Subset, TakenCount
  <2>. QED
    BY <1>2, <2>2, <2>3, FdsAssumption, TakenCount
<1>. QED
  BY <1>2, <1>3, <1>5, <1>6, FdsAssumption DEF LimitsOK

\* What is closed is free again.
LEMMA ClosesOne ==
  ASSUME IInv, LimitsOK, NEW fd \in Fds, Close(fd), UNCHANGED peak
  PROVE  Cardinality(Fds \ Free') <= peak'
<1>1. Fds \ Free' \in SUBSET (Fds \ Free)
  BY DEF Close, Free, IInv, TypeOK
<1>2. IsFiniteSet(Fds \ Free) /\ Cardinality(Fds \ Free) <= peak
      /\ Cardinality(Fds \ Free) \in Nat
  BY TakenCount DEF LimitsOK
<1>3. Cardinality(Fds \ Free') <= Cardinality(Fds \ Free)
  BY <1>1, <1>2, FS_Subset
<1>4. Cardinality(Fds \ Free') \in Nat
  BY <1>1, <1>2, FS_Subset, FS_CardinalityType
<1>. QED
  BY <1>2, <1>3, <1>4 DEF LimitsOK

\* The steps that touch neither a descriptor nor a handler.
LEMMA LimitsStay ==
  ASSUME LimitsOK, SurvivesBelowLimit, UNCHANGED <<file, sockfd, peak, dead>>
  PROVE  LimitsOK' /\ SurvivesBelowLimit'
BY DEF LimitsOK, SurvivesBelowLimit, Free

\* Handlers are written outside their array, and workers run one outside it, only at the limits.
LEMMA LimitsStep ==
  IInv /\ LimitsOK /\ SurvivesBelowLimit /\ [Next]_vars => LimitsOK' /\ SurvivesBelowLimit'
<1>. SUFFICES ASSUME IInv, LimitsOK, SurvivesBelowLimit, [Next]_vars
              PROVE  LimitsOK' /\ SurvivesBelowLimit'
  OBVIOUS
<1>1. ASSUME NEW c \in Conns, Client(c) /\ ~Stall(c)
      PROVE  LimitsOK' /\ SurvivesBelowLimit'
  BY <1>1, LimitsStay DEF Client, Connect, Send, Leave, loop, history
<1>2. CASE EpollWait
  BY <1>2, LimitsStay DEF EpollWait, loop, history
<1>3. ASSUME NEW fd \in Fds, NEW c \in Conns,
             Accept(fd, c) \/ AcceptTooMany(fd, c) \/ AcceptAtLimit(fd, c)
      PROVE  LimitsOK' /\ SurvivesBelowLimit'
  <2>1. Takes(fd, c)
    BY <1>3 DEF Accept, AcceptTooMany, AcceptAtLimit
  <2>2. /\ peak' \in Nat /\ peak <= peak' /\ peak' <= NFds
        /\ Cardinality(Fds \ Free') <= peak'
        /\ fd >= MaxFd => peak' > MaxFd
    BY <2>1, TakesOneMore
  <2>3. sockfd' = sockfd \/ sockfd' = [sockfd EXCEPT ![fd] = fd]
    BY <1>3 DEF Accept, AcceptTooMany, AcceptAtLimit, InitHandler
  <2>4. \A f \in Fds : f >= MaxFd /\ sockfd'[f] # -1 => peak' > MaxFd
    <3>. SUFFICES ASSUME NEW f \in Fds, f >= MaxFd, sockfd'[f] # -1
                  PROVE  peak' > MaxFd
      OBVIOUS
    <3>1. CASE f = fd
      BY <2>2, <3>1
    <3>2. CASE f # fd
      <4>1. sockfd[f] # -1
        BY <2>3, <3>2 DEF IInv, TypeOK
      <4>. QED
        BY <2>2, <4>1, FdsAssumption DEF LimitsOK
    <3>. QED
      BY <3>1, <3>2
  <2>5. dead' = dead \/ fd >= MaxFd
    BY <1>3 DEF Accept, AcceptTooMany, AcceptAtLimit, Fds
  <2>6. ~dead
    BY <2>1 DEF Takes, Handles, AtBranch, alive
  <2>7. SurvivesBelowLimit'
    BY <2>2, <2>5, <2>6 DEF SurvivesBelowLimit
  <2>. QED
    BY <2>2, <2>4, <2>7 DEF LimitsOK
<1>4. CASE AcceptFails
  <2>1. Free = {} /\ UNCHANGED <<file, sockfd, peak>>
    BY <1>4 DEF AcceptFails, kernel, loop
  <2>2. Fds \ Free = Fds
    BY <2>1
  <2>3. peak = NFds
    BY <2>2, TakenCount, FdsAssumption DEF LimitsOK
  <2>. QED
    BY <2>1, <2>3 DEF LimitsOK, SurvivesBelowLimit, Free
<1>5. ASSUME NEW fd \in Fds, HangUp(fd)
      PROVE  LimitsOK' /\ SurvivesBelowLimit'
  <2>1. UNCHANGED <<peak, dead>>
    BY <1>5 DEF HangUp
  <2>2. CASE sockfd[fd] = -1
    BY <1>5, <2>1, <2>2, LimitsStay DEF HangUp
  <2>3. CASE sockfd[fd] # -1
    <3>1. Close(fd) /\ sockfd' = [sockfd EXCEPT ![fd] = -1]
      BY <1>5, <2>3 DEF HangUp
    <3>2. Cardinality(Fds \ Free') <= peak'
      BY <2>1, <3>1, ClosesOne
    <3>3. \A f \in Fds : sockfd'[f] # -1 => sockfd[f] # -1
      BY <3>1 DEF IInv, TypeOK
    <3>. QED
      BY <2>1, <3>2, <3>3 DEF LimitsOK, SurvivesBelowLimit
  <2>. QED
    BY <2>2, <2>3
<1>6. ASSUME NEW fd \in Fds, Submit(fd)
      PROVE  LimitsOK' /\ SurvivesBelowLimit'
  BY <1>6, LimitsStay DEF Submit, kernel, loop, history
<1>7. ASSUME NEW w \in Workers, Take(w) \/ Read(w) \/ ReadNothing(w)
      PROVE  LimitsOK' /\ SurvivesBelowLimit'
  BY <1>7, LimitsStay DEF Take, Read, ReadNothing, kernel, loop, history
<1>8. ASSUME NEW w \in Workers, NEW then, Respond(w, then)
      PROVE  LimitsOK' /\ SurvivesBelowLimit'
  BY <1>8, LimitsStay DEF Respond, kernel, loop, history
<1>9. ASSUME NEW w \in Workers, ReadAtLimit(w)
      PROVE  LimitsOK' /\ SurvivesBelowLimit'
  <2>1. /\ work[w].h \in Fds /\ ~HasProcessor(work[w].h) /\ sockfd[work[w].h] # -1
        /\ UNCHANGED <<file, sockfd, peak>>
    BY <1>9 DEF ReadAtLimit, Source, IInv, Named, kernel, loop, history
  <2>2. peak > MaxFd
    BY <2>1, FdsAssumption DEF HasProcessor, LimitsOK, Fds
  <2>. QED
    BY <2>1, <2>2 DEF LimitsOK, SurvivesBelowLimit, Free
<1>10. ASSUME NEW w \in Workers, CgiClose(w)
       PROVE  LimitsOK' /\ SurvivesBelowLimit'
  <2>1. work[w].fd \in Fds /\ Close(work[w].fd) /\ UNCHANGED <<sockfd, peak, dead>>
    BY <1>10 DEF CgiClose, IInv, Named
  <2>2. Cardinality(Fds \ Free') <= peak'
    BY <2>1, ClosesOne
  <2>. QED
    BY <2>1, <2>2 DEF LimitsOK, SurvivesBelowLimit
<1>11. CASE Quiet
  BY <1>11, LimitsStay DEF Quiet, kernel, loop, history
<1>. QED
  BY <1>1, <1>2, <1>3, <1>4, <1>5, <1>6, <1>7, <1>8, <1>9, <1>10, <1>11, QuietSteps
     DEF Next, Loop, Worker

\* The process dies only when there were more connections at once than handlers, or as many
\* as descriptors: whatever the clients do below the limits, no handler outside the
\* array is written or run (server.cc:93-98, http_handler.cc:24-95).
THEOREM DiesOnlyAtLimits == Spec => []SurvivesBelowLimit
<1>1. Init => LimitsOK /\ SurvivesBelowLimit
  <2>. SUFFICES ASSUME Init
                PROVE  LimitsOK /\ SurvivesBelowLimit
    OBVIOUS
  <2>1. Fds \ Free = {} /\ peak = 0 /\ ~dead /\ \A fd \in Fds : sockfd[fd] = -1
    BY DEF Init, Free
  <2>2. Cardinality(Fds \ Free) = 0
    BY <2>1, FS_EmptySet
  <2>. QED
    BY <2>1, <2>2, FdsAssumption DEF LimitsOK, SurvivesBelowLimit
<1>2. LimitsOK /\ SurvivesBelowLimit /\ IInv /\ [Next]_vars => LimitsOK' /\ SurvivesBelowLimit'
  BY LimitsStep
<1>. QED
  BY <1>1, <1>2, ServerInvariant, PTL DEF Spec

-----------------------------------------------------------------------------
(* The events.                                                             *)

\* A file that becomes ready.
LEMMA NotifyOK ==
  ASSUME NEW known \in SUBSET Conns, NEW list, ListOK(list, known), NEW x \in known \cup {Listen}
  PROVE  /\ ListOK(Notify(list, x), known) /\ Contains(Notify(list, x), x)
         /\ Contains(list, Listen) => Contains(Notify(list, x), Listen)
<1>1. list \in Seq(Files) /\ Distinct(list) /\ x \in Files
  BY DEF ListOK, Files
<1>2. /\ Notify(list, x) \in Seq(Files) /\ Distinct(Notify(list, x))
      /\ Contains(Notify(list, x), x)
      /\ \A k \in DOMAIN Notify(list, x) : Notify(list, x)[k] = x \/ Contains(list, Notify(list, x)[k])
      /\ \A y : Contains(list, y) => Contains(Notify(list, x), y)
  BY ONLY <1>1, NotifyOnce
<1>3. \A y : Contains(list, y) => y \in known \cup {Listen}
  BY DEF ListOK, Contains
<1>. QED
  BY <1>2, <1>3 DEF ListOK

\* A connection that epoll may know becomes ready.
LEMMA SignalOK ==
  ASSUME interest \in SUBSET Conns, ListOK(ready, interest), NEW c \in Conns
  PROVE  /\ ListOK(Signal(c), interest)
         /\ Contains(ready, Listen) => Contains(Signal(c), Listen)
<1>1. CASE c \in interest
  BY <1>1, NotifyOK DEF Signal
<1>2. CASE c \notin interest
  BY <1>2 DEF Signal
<1>. QED
  BY <1>1, <1>2

\* A connection that epoll gets to know may be ready.
LEMMA RegisterOK ==
  ASSUME interest \in SUBSET Conns, ListOK(ready, interest), NEW c \in Conns, Register(c)
  PROVE  /\ ListOK(ready', interest')
         /\ Contains(ready, Listen) => Contains(ready', Listen)
<1>1. interest' = interest \cup {c} /\ interest' \in SUBSET Conns /\ ListOK(ready, interest')
  BY DEF Register, ListOK
<1>2. CASE Reported(c)
  <2>1. ready' = Notify(ready, c)
    BY <1>2 DEF Register
  <2>2. /\ ListOK(Notify(ready, c), interest')
        /\ Contains(ready, Listen) => Contains(Notify(ready, c), Listen)
    BY <1>1, NotifyOK
  <2>. QED
    BY <2>1, <2>2
<1>3. CASE ~Reported(c)
  BY <1>1, <1>3 DEF Register
<1>. QED
  BY <1>2, <1>3

\* A connection that is closed is ready no longer.
LEMMA CloseOK ==
  ASSUME TypeOK, ListOK(ready, interest), NEW fd \in Fds, Close(fd)
  PROVE  /\ ListOK(ready', interest')
         /\ Contains(ready, Listen) => Contains(ready', Listen)
<1>1. file[fd] # Listen
  BY NoneAssumption DEF TypeOK
<1>2. ready \in Seq(Files) /\ Distinct(ready)
  BY DEF ListOK
<1>3. /\ Unlink(ready, file[fd]) \in Seq(Files) /\ Distinct(Unlink(ready, file[fd]))
      /\ \A k \in DOMAIN Unlink(ready, file[fd]) :
           Unlink(ready, file[fd])[k] # file[fd] /\ Contains(ready, Unlink(ready, file[fd])[k])
      /\ \A y : y # file[fd] /\ Contains(ready, y) => Contains(Unlink(ready, file[fd]), y)
  BY ONLY <1>2, UnlinkOnce
<1>4. ready' = Unlink(ready, file[fd]) /\ interest' = interest \ {file[fd]}
  BY DEF Close
<1>5. \A y : Contains(ready, y) => y \in interest \cup {Listen}
  BY DEF ListOK, Contains
<1>. QED
  BY <1>1, <1>3, <1>4, <1>5 DEF ListOK

\* What an event says.
LEMMA EventIsFor ==
  ASSUME IInv, NEW x \in interest \cup {Listen}
  PROVE  /\ EventOf(x) \in Events
         /\ EventOf(x).fd = ListenFd => x = Listen
         /\ x = Listen => EventOf(x).fd = ListenFd
         /\ x # Listen => file[EventOf(x).fd] = x /\ (EventOf(x).hup => peer[x] # "open")
<1>1. CASE x = Listen
  BY <1>1 DEF EventOf, Events
<1>2. CASE x # Listen
  <2>1. PICK fd \in Fds : file[fd] = x
    BY <1>2 DEF IInv, Known
  <2>2. x # None
    BY <1>2, NoneAssumption DEF IInv, TypeOK
  <2>3. FdOf(x) = fd
    BY <2>1, <2>2, FdOfIsIt
  <2>4. EventOf(x) = [fd |-> fd, hup |-> HungUp(x)]
    BY <1>2, <2>3 DEF EventOf
  <2>5. fd # ListenFd
    BY FdsAssumption DEF Fds, ListenFd
  <2>6. HungUp(x) \in BOOLEAN /\ (HungUp(x) => peer[x] # "open")
    BY DEF HungUp
  <2>. HIDE DEF HungUp
  <2>7. EventOf(x) \in Events
    BY <2>4, <2>6 DEF Events
  <2>8. EventOf(x).fd = fd
    BY <2>4
  <2>9. EventOf(x).hup => peer[x] # "open"
    <3>1. EventOf(x).hup = HungUp(x)
      BY <2>4
    <3>. QED
      BY <2>6, <3>1
  <2>. QED
    BY <1>2, <2>1, <2>5, <2>7, <2>8, <2>9
<1>. QED
  BY <1>1, <1>2

\* The events of a batch are for different files, and the listening socket has one if a
\* connection waits at it.
LEMMA EventsOfBatch ==
  ASSUME IInv, ReadyOK, EpollWait
  PROVE  /\ batch' \in Seq(Events) /\ ready' = <<>>
         /\ \A j, k \in DOMAIN batch' : batch'[j].fd = batch'[k].fd => j = k
         /\ \A k \in DOMAIN batch' :
              batch'[k].fd # ListenFd =>
                /\ file[batch'[k].fd] # None
                /\ batch'[k].hup => peer[file[batch'[k].fd]] # "open"
         /\ Contains(ready, Listen) /\ backlog # <<>> =>
              \E k \in DOMAIN batch' : batch'[k].fd = ListenFd
<1>. DEFINE found == {k \in DOMAIN ready : Reported(ready[k])}
            n == Cardinality(found)
<1>1. PICK at \in [1 .. n -> found] :
        /\ \A j, k \in DOMAIN at : j < k => at[j] < at[k]
        /\ batch' = [k \in DOMAIN at |-> EventOf(ready[at[k]])]
  BY DEF EpollWait
<1>2. ready \in Seq(Files) /\ DOMAIN ready = 1 .. Len(ready) /\ Len(ready) \in Nat
  BY DEF ReadyOK, ListOK
<1>3. IsFiniteSet(found) /\ n \in Nat
  <2>1. IsFiniteSet(1 .. Len(ready)) /\ found \in SUBSET (1 .. Len(ready))
    BY <1>2, FS_Interval
  <2>. QED
    BY <2>1, FS_Subset, FS_CardinalityType
<1>4. found \in SUBSET (DOMAIN ready) /\ found \in SUBSET Nat
  BY <1>2
<1>5. \A i \in found : ready[i] \in interest \cup {Listen}
  BY <1>4 DEF ReadyOK, ListOK
<1>6. \A k \in DOMAIN ready : ready[k] = Listen /\ backlog # <<>> => k \in found
  BY DEF Reported
<1>. HIDE DEF found, n
<1>7. DOMAIN at = 1 .. n /\ \A k \in 1 .. n : at[k] \in found /\ at[k] \in Nat
  BY <1>1, <1>4
<1>8. DOMAIN batch' = 1 .. n /\ \A k \in 1 .. n : batch'[k] = EventOf(ready[at[k]])
  BY <1>1, <1>7
<1>9. \A k \in 1 .. n : batch'[k] \in Events
  BY <1>5, <1>7, <1>8, EventIsFor
<1>10. batch' \in Seq(Events)
  BY <1>1, <1>3, <1>7, <1>8, <1>9
<1>11. \A j, k \in 1 .. n : at[j] = at[k] => j = k
  BY <1>1, <1>3, <1>7
<1>12. \A j, k \in DOMAIN batch' : batch'[j].fd = batch'[k].fd => j = k
  <2>. SUFFICES ASSUME NEW j \in 1 .. n, NEW k \in 1 .. n, batch'[j].fd = batch'[k].fd
                PROVE  j = k
    BY <1>8
  <2>1. ready[at[j]] \in interest \cup {Listen} /\ ready[at[k]] \in interest \cup {Listen}
    BY <1>5, <1>7
  <2>2. EventOf(ready[at[j]]).fd = EventOf(ready[at[k]]).fd
    BY <1>8
  <2>3. ready[at[j]] = ready[at[k]]
    BY <2>1, <2>2, EventIsFor
  <2>4. at[j] = at[k]
    BY <1>4, <1>7, <2>3 DEF ReadyOK, ListOK, Distinct
  <2>. QED
    BY <1>11, <2>4
<1>13. ASSUME NEW k \in DOMAIN batch', batch'[k].fd # ListenFd
       PROVE  /\ file[batch'[k].fd] # None
              /\ batch'[k].hup => peer[file[batch'[k].fd]] # "open"
  <2>1. batch'[k] = EventOf(ready[at[k]]) /\ ready[at[k]] \in interest \cup {Listen}
    BY <1>5, <1>7, <1>8
  <2>2. ready[at[k]] # Listen
    BY <1>13, <2>1, EventIsFor
  <2>3. ready[at[k]] # None
    BY <2>1, <2>2, NoneAssumption DEF IInv, TypeOK
  <2>. QED
    BY <2>1, <2>2, <2>3, EventIsFor
<1>14. ASSUME Contains(ready, Listen), backlog # <<>>
       PROVE  \E k \in DOMAIN batch' : batch'[k].fd = ListenFd
  <2>1. PICK i \in DOMAIN ready : ready[i] = Listen
    BY <1>2, <1>14 DEF Contains
  <2>2. i \in found
    BY <1>6, <1>14, <2>1
  <2>3. at \in Injection(1 .. n, found)
    BY <1>1, <1>7, <1>11 DEF Injection, IsInjective
  <2>4. IsFiniteSet(1 .. n) /\ Cardinality(1 .. n) = Cardinality(found)
    BY <1>3, FS_Interval DEF n
  <2>5. at \in Surjection(1 .. n, found)
    BY <1>3, <2>3, <2>4, FS_Injection
  <2>6. PICK k \in 1 .. n : at[k] = i
    BY <2>2, <2>5 DEF Surjection
  <2>7. batch'[k].fd = ListenFd
    BY <1>8, <2>1, <2>6, EventIsFor
  <2>. QED
    BY <1>8, <2>7
<1>15. ready' = <<>>
  BY DEF EpollWait
<1>. QED
  BY <1>10, <1>12, <1>13, <1>14, <1>15

\* The loop goes on to the next event.
LEMMA NextOfBatch ==
  ASSUME ReadyOK, batch # <<>>, NextEvent
  PROVE  /\ batch' \in Seq(Events) /\ 1 \in DOMAIN batch /\ Head(batch) = batch[1]
         /\ \A k \in DOMAIN batch' :
              k \in Nat /\ k # 0 /\ k + 1 \in DOMAIN batch /\ batch'[k] = batch[k + 1]
         /\ \A k \in DOMAIN batch : k # 1 => k - 1 \in DOMAIN batch' /\ batch'[k - 1] = batch[k]
<1>1. batch \in Seq(Events) /\ batch # <<>> /\ batch' = Tail(batch)
  BY DEF ReadyOK, NextEvent
<1>2. /\ batch' \in Seq(Events) /\ Len(batch') = Len(batch) - 1 /\ Len(batch) \in Nat \ {0}
      /\ \A k \in 1 .. Len(batch) - 1 : batch'[k] = batch[k + 1]
  BY <1>1
<1>3. DOMAIN batch' = 1 .. Len(batch) - 1 /\ DOMAIN batch = 1 .. Len(batch)
  BY <1>1, <1>2
<1>4. \A k \in DOMAIN batch' :
        k \in Nat /\ k # 0 /\ k + 1 \in DOMAIN batch /\ batch'[k] = batch[k + 1]
  BY <1>2, <1>3
<1>5. ASSUME NEW k \in DOMAIN batch, k # 1
      PROVE  k - 1 \in DOMAIN batch' /\ batch'[k - 1] = batch[k]
  <2>1. k - 1 \in 1 .. Len(batch) - 1 /\ (k - 1) + 1 = k
    BY <1>2, <1>3, <1>5
  <2>. QED
    BY <1>2, <1>3, <2>1
<1>. QED
  BY <1>1, <1>2, <1>3, <1>4, <1>5

\* The ready list and the batch are what epoll makes of them.
LEMMA ReadyStep == IInv /\ ReadyOK /\ [Next]_vars => ReadyOK'
<1>. SUFFICES ASSUME IInv, ReadyOK, [Next]_vars
              PROVE  ReadyOK'
  OBVIOUS
<1>0. TypeOK /\ interest \in SUBSET Conns /\ ListOK(ready, interest) /\ Listen \in Files
  BY DEF IInv, TypeOK, ReadyOK, Files
<1>1. ASSUME NEW c \in Conns, Connect(c)
      PROVE  ReadyOK'
  <2>1. ready' = Notify(ready, Listen) /\ merged' \in Nat /\ UNCHANGED <<batch, interest>>
    BY <1>1 DEF Connect, loop, ReadyOK
  <2>2. ListOK(Notify(ready, Listen), interest)
    BY <1>0, NotifyOK
  <2>. QED
    BY <2>1, <2>2 DEF ReadyOK, ListOK
<1>2. ASSUME NEW c \in Conns, NEW how, Send(c) \/ Leave(c, how)
      PROVE  ReadyOK'
  <2>1. ready' = Signal(c) /\ UNCHANGED <<batch, interest, merged>>
    BY <1>2 DEF Send, Leave, loop, history
  <2>2. ListOK(Signal(c), interest)
    BY <1>0, SignalOK
  <2>. QED
    BY <2>1, <2>2 DEF ReadyOK, ListOK
<1>3. CASE EpollWait
  <2>1. batch' \in Seq(Events) /\ ready' = <<>> /\ UNCHANGED merged
    BY <1>3, EventsOfBatch DEF EpollWait, loop, history
  <2>. QED
    BY <2>1 DEF ReadyOK, ListOK, Distinct
<1>4. ASSUME NEW fd \in Fds, NEW c \in Conns,
             Accept(fd, c) \/ AcceptTooMany(fd, c) \/ AcceptAtLimit(fd, c)
      PROVE  ReadyOK'
  <2>1. batch # <<>> /\ NextEvent /\ merged' = merged
    BY <1>4 DEF Accept, AcceptTooMany, AcceptAtLimit, Takes, Handles, AtBranch
  <2>2. batch' \in Seq(Events)
    BY <2>1, NextOfBatch
  <2>3. Register(c) \/ UNCHANGED <<interest, ready>>
    BY <1>4 DEF Accept, AcceptTooMany, AcceptAtLimit
  <2>4. ListOK(ready', interest')
    BY <1>0, <2>3, RegisterOK
  <2>. QED
    BY <2>1, <2>2, <2>4 DEF ReadyOK
<1>5. CASE AcceptFails
  <2>1. batch # <<>> /\ NextEvent /\ merged' = merged + 1 /\ UNCHANGED <<interest, ready>>
    BY <1>5 DEF AcceptFails, Handles, AtBranch, kernel, loop
  <2>2. batch' \in Seq(Events)
    BY <2>1, NextOfBatch
  <2>. QED
    BY <2>1, <2>2 DEF ReadyOK
<1>6. ASSUME NEW fd \in Fds, HangUp(fd)
      PROVE  ReadyOK'
  <2>1. batch # <<>> /\ NextEvent /\ merged' = merged
    BY <1>6 DEF HangUp, Handles, AtBranch
  <2>2. batch' \in Seq(Events)
    BY <2>1, NextOfBatch
  <2>3. Close(fd) \/ UNCHANGED <<interest, ready>>
    BY <1>6 DEF HangUp
  <2>4. ListOK(ready', interest')
    BY <1>0, <2>3, CloseOK
  <2>. QED
    BY <2>1, <2>2, <2>4 DEF ReadyOK
<1>7. ASSUME NEW fd \in Fds, Submit(fd)
      PROVE  ReadyOK'
  <2>1. batch # <<>> /\ NextEvent /\ UNCHANGED <<interest, ready, merged>>
    BY <1>7 DEF Submit, Handles, AtBranch, kernel, loop, history
  <2>2. batch' \in Seq(Events)
    BY <2>1, NextOfBatch
  <2>. QED
    BY <2>1, <2>2 DEF ReadyOK
<1>8. ASSUME NEW w \in Workers, NEW then,
             Take(w) \/ Read(w) \/ ReadAtLimit(w) \/ ReadNothing(w) \/ Respond(w, then)
      PROVE  ReadyOK'
  BY <1>8 DEF Take, Read, ReadAtLimit, ReadNothing, Respond, kernel, loop, history, ReadyOK
<1>9. ASSUME NEW w \in Workers, CgiClose(w)
      PROVE  ReadyOK'
  <2>1. work[w].fd \in Fds /\ Close(work[w].fd) /\ UNCHANGED <<batch, merged>>
    BY <1>9 DEF CgiClose, loop, IInv, Named
  <2>2. ListOK(ready', interest')
    BY <1>0, <2>1, CloseOK
  <2>. QED
    BY <2>1, <2>2 DEF ReadyOK
<1>10. CASE Quiet
  BY <1>10 DEF Quiet, kernel, loop, history, ReadyOK
<1>. QED
  BY <1>1, <1>2, <1>3, <1>4, <1>5, <1>6, <1>7, <1>8, <1>9, <1>10, QuietSteps
     DEF Next, Loop, Worker, Client

\* The events that are left are for other descriptors than the one at hand.
LEMMA OthersOfBatch ==
  ASSUME ReadyOK, StillTrue, batch # <<>>, NextEvent, dropped = {}
  PROVE  /\ cut = {}
         /\ \A j, k \in DOMAIN batch' : batch'[j].fd = batch'[k].fd => j = k
         /\ \A k \in DOMAIN batch' :
              /\ batch'[k].fd # Head(batch).fd
              /\ batch'[k].fd # ListenFd =>
                   /\ batch'[k].fd \in Fds /\ file[batch'[k].fd] # None
                   /\ batch'[k].hup => peer[file[batch'[k].fd]] # "open"
<1>1. /\ 1 \in DOMAIN batch /\ Head(batch) = batch[1]
      /\ \A k \in DOMAIN batch' :
           k \in Nat /\ k # 0 /\ k + 1 \in DOMAIN batch /\ batch'[k] = batch[k + 1]
      /\ batch' \in Seq(Events)
  BY NextOfBatch
<1>2. /\ cut = {}
      /\ \A j, k \in DOMAIN batch : batch[j].fd = batch[k].fd => j = k
      /\ \A k \in DOMAIN batch :
           batch[k].fd # ListenFd =>
             /\ file[batch[k].fd] # None
             /\ batch[k].hup => peer[file[batch[k].fd]] # "open"
  BY DEF StillTrue
<1>3. \A j, k \in DOMAIN batch' : batch'[j].fd = batch'[k].fd => j = k
  <2>. SUFFICES ASSUME NEW j \in DOMAIN batch', NEW k \in DOMAIN batch',
                       batch'[j].fd = batch'[k].fd
                PROVE  j = k
    OBVIOUS
  <2>1. j + 1 = k + 1
    BY <1>1, <1>2
  <2>. QED
    BY <1>1, <2>1
<1>4. ASSUME NEW k \in DOMAIN batch'
      PROVE  batch'[k].fd # Head(batch).fd
  <2>1. k + 1 # 1
    BY <1>1
  <2>. QED
    BY <1>1, <1>2, <2>1
<1>5. ASSUME NEW k \in DOMAIN batch', batch'[k].fd # ListenFd
      PROVE  /\ batch'[k].fd \in Fds /\ file[batch'[k].fd] # None
             /\ batch'[k].hup => peer[file[batch'[k].fd]] # "open"
  <2>1. batch'[k] \in Events
    BY <1>1
  <2>. QED
    BY <1>1, <1>2, <1>5, <2>1 DEF Events
<1>. QED
  BY <1>2, <1>3, <1>4, <1>5

\* The steps that touch no connection, descriptor or event.
LEMMA StillTrueStays ==
  ASSUME StillTrue, UNCHANGED <<peer, file, batch, cut, dropped>>
  PROVE  StillTrue'
BY DEF StillTrue

\* A number in the batch stands for another connection only after a CGI error: the loop
\* itself closes only what the event at hand is for, and takes only what is free.
LEMMA StillTrueStep == IInv /\ ReadyOK /\ StillTrue /\ [Next]_vars => StillTrue'
<1>. SUFFICES ASSUME IInv, ReadyOK, StillTrue, [Next]_vars
              PROVE  StillTrue'
  OBVIOUS
<1>0. TypeOK /\ OnePlace
  BY DEF IInv
<1>1. ASSUME NEW c \in Conns, NEW how \in {"open", "half", "closed"},
             peer' = [peer EXCEPT ![c] = how], how = "open" => peer[c] = "away",
             UNCHANGED <<file, batch, cut, dropped>>
      PROVE  StillTrue'
  <2>1. \A fd \in Fds : file[fd] # None /\ peer[file[fd]] # "open" => peer'[file[fd]] # "open"
    BY <1>0, <1>1 DEF TypeOK, OnePlace
  <2>2. \A k \in DOMAIN batch : batch[k].fd # ListenFd => batch[k].fd \in Fds
    <3>1. \A k \in DOMAIN batch : batch[k] \in Events
      BY DEF ReadyOK
    <3>. QED
      BY <3>1 DEF Events
  <2>. QED
    BY <1>1, <2>1, <2>2 DEF StillTrue
<1>2. ASSUME NEW c \in Conns, Connect(c) \/ Leave(c, "half") \/ Leave(c, "closed")
      PROVE  StillTrue'
  BY <1>1, <1>2 DEF Connect, Leave, loop
<1>3. ASSUME NEW c \in Conns, Send(c)
      PROVE  StillTrue'
  BY <1>3, StillTrueStays DEF Send, loop, history
<1>4. CASE EpollWait
  <2>1. UNCHANGED <<peer, file, cut, dropped>>
    BY <1>4 DEF EpollWait, clients, loop, history
  <2>2. /\ \A j, k \in DOMAIN batch' : batch'[j].fd = batch'[k].fd => j = k
        /\ \A k \in DOMAIN batch' :
             batch'[k].fd # ListenFd =>
               /\ file[batch'[k].fd] # None
               /\ batch'[k].hup => peer[file[batch'[k].fd]] # "open"
    BY <1>4, EventsOfBatch
  <2>. QED
    BY <2>1, <2>2 DEF StillTrue
<1>5. ASSUME NEW fd \in Fds, NEW c \in Conns,
             Accept(fd, c) \/ AcceptTooMany(fd, c) \/ AcceptAtLimit(fd, c)
      PROVE  StillTrue'
  <2>1. /\ batch # <<>> /\ NextEvent /\ file[fd] = None /\ file' = [file EXCEPT ![fd] = c]
        /\ UNCHANGED <<peer, cut, dropped>>
    BY <1>5 DEF Accept, AcceptTooMany, AcceptAtLimit, Takes, Handles, AtBranch, Free, clients
  <2>2. \A f \in Fds : file[f] # None => file'[f] = file[f]
    BY <1>0, <2>1 DEF TypeOK
  <2>. QED
    BY <2>1, <2>2, OthersOfBatch DEF StillTrue
<1>6. CASE AcceptFails
  <2>1. batch # <<>> /\ NextEvent /\ UNCHANGED <<peer, file, cut, dropped>>
    BY <1>6 DEF AcceptFails, Handles, AtBranch, clients, kernel, loop
  <2>. QED
    BY <2>1, OthersOfBatch DEF StillTrue
<1>7. ASSUME NEW fd \in Fds, HangUp(fd)
      PROVE  StillTrue'
  <2>1. batch # <<>> /\ NextEvent /\ fd = Head(batch).fd /\ Head(batch).hup
        /\ UNCHANGED <<peer, dropped>>
    BY <1>7 DEF HangUp, Handles, AtBranch, IsHangUp, IsNewConn, clients
  <2>2. CASE sockfd[fd] = -1
    <3>1. UNCHANGED <<file, cut>>
      BY <1>7, <2>2 DEF HangUp
    <3>. QED
      BY <2>1, <3>1, OthersOfBatch DEF StillTrue
  <2>3. CASE sockfd[fd] # -1
    <3>1. /\ file' = [file EXCEPT ![fd] = None]
          /\ cut' = IF file[fd] # None /\ peer[file[fd]] = "open" THEN cut \cup {file[fd]} ELSE cut
      BY <1>7, <2>3 DEF HangUp, Close
    <3>2. \A f \in Fds : f # fd => file'[f] = file[f]
      BY <1>0, <3>1 DEF TypeOK
    <3>3. fd # ListenFd
      BY FdsAssumption DEF Fds, ListenFd
    <3>4. dropped = {} => cut' = cut
      <4>1. 1 \in DOMAIN batch /\ Head(batch) = batch[1]
        BY <2>1, NextOfBatch
      <4>2. dropped = {} => peer[file[fd]] # "open"
        BY <2>1, <3>3, <4>1 DEF StillTrue
      <4>. QED
        BY <3>1, <4>2
    <3>. QED
      BY <2>1, <3>2, <3>4, OthersOfBatch DEF StillTrue
  <2>. QED
    BY <2>2, <2>3
<1>8. ASSUME NEW fd \in Fds, Submit(fd)
      PROVE  StillTrue'
  <2>1. batch # <<>> /\ NextEvent /\ UNCHANGED <<peer, file, cut, dropped>>
    BY <1>8 DEF Submit, Handles, AtBranch, clients, kernel, loop, history
  <2>. QED
    BY <2>1, OthersOfBatch DEF StillTrue
<1>9. ASSUME NEW w \in Workers, NEW then,
             Take(w) \/ Read(w) \/ ReadAtLimit(w) \/ ReadNothing(w) \/ Respond(w, then)
      PROVE  StillTrue'
  BY <1>9, StillTrueStays
     DEF Take, Read, ReadAtLimit, ReadNothing, Respond, clients, kernel, loop, history
<1>10. ASSUME NEW w \in Workers, CgiClose(w)
       PROVE  StillTrue'
  <2>1. /\ work[w].fd \in Fds /\ file' = [file EXCEPT ![work[w].fd] = None]
        /\ dropped' = dropped \cup ({file[work[w].fd]} \ {None})
        /\ UNCHANGED <<peer, batch, cut>>
    BY <1>10 DEF CgiClose, Close, IInv, Named, clients, loop
  <2>2. CASE file[work[w].fd] = None
    <3>1. file' = file /\ dropped' = dropped
      BY <1>0, <2>1, <2>2 DEF TypeOK
    <3>. QED
      BY <2>1, <3>1, StillTrueStays
  <2>3. CASE file[work[w].fd] # None
    BY <2>1, <2>3 DEF StillTrue
  <2>. QED
    BY <2>2, <2>3
<1>11. CASE Quiet
  BY <1>11, StillTrueStays DEF Quiet, clients, kernel, loop, history
<1>. QED
  BY <1>2, <1>3, <1>4, <1>5, <1>6, <1>7, <1>8, <1>9, <1>10, <1>11, QuietSteps
     DEF Next, Loop, Worker, Client

\* The events that are left include the one of the listening socket, unless it is at hand.
LEMMA AcceptOfBatch ==
  ASSUME ReadyOK, batch # <<>>, NextEvent, HasAccept
  PROVE  HasAccept' \/ IsNewConn(Head(batch))
<1>1. /\ Head(batch) = batch[1]
      /\ \A k \in DOMAIN batch : k # 1 => k - 1 \in DOMAIN batch' /\ batch'[k - 1] = batch[k]
  BY NextOfBatch
<1>2. PICK k \in DOMAIN batch : batch[k].fd = ListenFd
  BY DEF HasAccept
<1>. QED
  BY <1>1, <1>2 DEF HasAccept, IsNewConn, ListenFd

\* The steps that lose no event and leave the backlog.
LEMMA BacklogStays ==
  ASSUME BacklogBound, merged \in Nat, TypeOK, backlog' = backlog, merged' = merged,
         Contains(ready, Listen) => Contains(ready', Listen), HasAccept => HasAccept'
  PROVE  BacklogBound'
<1>1. Len(backlog) \in Nat
  BY DEF TypeOK
<1>2. BacklogBound' <=> Len(backlog') <= merged' + (IF Contains(ready', Listen) THEN 1 ELSE 0)
                                                 + (IF HasAccept' THEN 1 ELSE 0)
  BY DEF BacklogBound, HasAccept
<1>3. Len(backlog) <= merged + (IF Contains(ready, Listen) THEN 1 ELSE 0)
                             + (IF HasAccept THEN 1 ELSE 0)
  BY DEF BacklogBound, HasAccept
<1>. QED
  BY <1>1, <1>2, <1>3

\* An arrival makes the listening socket ready, and an event of it takes one connection.
LEMMA BacklogStep == IInv /\ ReadyOK /\ BacklogBound /\ [Next]_vars => BacklogBound'
<1>. SUFFICES ASSUME IInv, ReadyOK, BacklogBound, [Next]_vars
              PROVE  BacklogBound'
  OBVIOUS
<1>0. TypeOK /\ interest \in SUBSET Conns /\ ListOK(ready, interest) /\ merged \in Nat
      /\ backlog \in Seq(Conns) /\ Len(backlog) \in Nat
  BY DEF IInv, TypeOK, ReadyOK
<1>a. Len(backlog) <= merged + (IF Contains(ready, Listen) THEN 1 ELSE 0)
                             + (IF HasAccept THEN 1 ELSE 0)
  BY DEF BacklogBound, HasAccept
<1>b. BacklogBound' <=> Len(backlog') <= merged' + (IF Contains(ready', Listen) THEN 1 ELSE 0)
                                                 + (IF HasAccept' THEN 1 ELSE 0)
  BY DEF BacklogBound, HasAccept
<1>1. ASSUME NEW c \in Conns, Connect(c)
      PROVE  BacklogBound'
  <2>1. /\ Len(backlog') = Len(backlog) + 1 /\ HasAccept' = HasAccept
        /\ ready' = Notify(ready, Listen)
        /\ merged' = IF Contains(ready, Listen) THEN merged + 1 ELSE merged
    BY <1>0, <1>1 DEF Connect, loop, HasAccept
  <2>2. Contains(ready', Listen)
    BY <1>0, <2>1, NotifyOK
  <2>. QED
    BY <1>0, <1>a, <1>b, <2>1, <2>2
<1>2. ASSUME NEW c \in Conns, NEW how, Send(c) \/ Leave(c, how)
      PROVE  BacklogBound'
  <2>1. ready' = Signal(c) /\ UNCHANGED <<batch, backlog, merged>>
    BY <1>2 DEF Send, Leave, loop, history
  <2>2. Contains(ready, Listen) => Contains(ready', Listen)
    BY <1>0, <2>1, SignalOK
  <2>. QED
    BY <1>0, <2>1, <2>2, BacklogStays DEF HasAccept
<1>3. CASE EpollWait
  <2>1. batch = <<>> /\ UNCHANGED <<backlog, merged>>
    BY <1>3 DEF EpollWait, loop, history
  <2>2. ~HasAccept
    BY <2>1 DEF HasAccept
  <2>3. Contains(ready, Listen) /\ backlog # <<>> => HasAccept'
    BY <1>3, EventsOfBatch DEF HasAccept
  <2>4. CASE backlog = <<>>
    BY <1>0, <1>b, <2>1, <2>4
  <2>5. CASE backlog # <<>>
    BY <1>0, <1>a, <1>b, <2>1, <2>2, <2>3, <2>5
  <2>. QED
    BY <2>4, <2>5
<1>4. ASSUME NEW fd \in Fds, NEW c \in Conns,
             Accept(fd, c) \/ AcceptTooMany(fd, c) \/ AcceptAtLimit(fd, c)
      PROVE  BacklogBound'
  <2>1. Register(c) \/ ready' = ready
    BY <1>4 DEF Accept, AcceptTooMany, AcceptAtLimit
  <2>2. merged' = merged /\ Len(backlog') = Len(backlog) - 1
    <3>1. merged' = merged /\ backlog # <<>> /\ backlog' = Tail(backlog)
      BY <1>4 DEF Accept, AcceptTooMany, AcceptAtLimit, Takes
    <3>. QED
      BY <1>0, <3>1
  <2>3. Contains(ready, Listen) => Contains(ready', Listen)
    BY <1>0, <2>1, RegisterOK
  <2>. QED
    BY <1>0, <1>a, <1>b, <2>2, <2>3
<1>5. CASE AcceptFails
  <2>1. merged' = merged + 1 /\ UNCHANGED <<backlog, ready>>
    BY <1>5 DEF AcceptFails, kernel, loop
  <2>. QED
    BY <1>0, <1>a, <1>b, <2>1
<1>6. ASSUME NEW fd \in Fds, HangUp(fd) \/ Submit(fd)
      PROVE  BacklogBound'
  <2>1. batch # <<>> /\ NextEvent /\ ~IsNewConn(Head(batch)) /\ UNCHANGED <<backlog, merged>>
    BY <1>6 DEF HangUp, Submit, Handles, AtBranch, kernel, loop, history
  <2>2. Close(fd) \/ ready' = ready
    BY <1>6 DEF HangUp, Submit, kernel, loop
  <2>3. Contains(ready, Listen) => Contains(ready', Listen)
    BY <1>0, <2>2, CloseOK
  <2>4. HasAccept => HasAccept'
    BY <2>1, AcceptOfBatch
  <2>. QED
    BY <1>0, <2>1, <2>3, <2>4, BacklogStays
<1>7. ASSUME NEW w \in Workers, NEW then,
             Take(w) \/ Read(w) \/ ReadAtLimit(w) \/ ReadNothing(w) \/ Respond(w, then)
      PROVE  BacklogBound'
  BY <1>7 DEF Take, Read, ReadAtLimit, ReadNothing, Respond, kernel, loop, history, BacklogBound
<1>8. ASSUME NEW w \in Workers, CgiClose(w)
      PROVE  BacklogBound'
  <2>1. work[w].fd \in Fds /\ Close(work[w].fd) /\ UNCHANGED <<batch, backlog, merged>>
    BY <1>8 DEF CgiClose, loop, IInv, Named
  <2>2. Contains(ready, Listen) => Contains(ready', Listen)
    BY <1>0, <2>1, CloseOK
  <2>. QED
    BY <1>0, <2>1, <2>2, BacklogStays DEF HasAccept
<1>9. CASE Quiet
  BY <1>9 DEF Quiet, kernel, loop, history, BacklogBound
<1>. QED
  BY <1>1, <1>2, <1>3, <1>4, <1>5, <1>6, <1>7, <1>8, <1>9, QuietSteps
     DEF Next, Loop, Worker, Client

-----------------------------------------------------------------------------
(* Events and limits: what holds in every state.                           *)

\* The invariant of the events (server.cc:77-120).
THEOREM EventInvariant == Spec => []EInv
<1>1. Init => EInv
  <2>. SUFFICES ASSUME Init
                PROVE  EInv
    OBVIOUS
  <2>1. ReadyOK /\ StillTrue
    BY DEF Init, ReadyOK, ListOK, Distinct, StillTrue
  <2>2. BacklogBound
    BY DEF Init, BacklogBound
  <2>. QED
    BY <2>1, <2>2 DEF EInv
<1>2. IInv /\ EInv /\ [Next]_vars => EInv'
  BY ReadyStep, StillTrueStep, BacklogStep DEF EInv
<1>. QED
  BY <1>1, <1>2, ServerInvariant, PTL DEF Spec

\* However many connections come together, no more of them are left in the backlog than
\* arrived when the listening socket was ready already or were refused a descriptor,
\* although one accept() is made for an event (server.cc:88-99).
THEOREM BacklogAlwaysBounded == Spec => []BacklogBound
<1>1. EInv => BacklogBound
  BY DEF EInv
<1>. QED
  BY <1>1, EventInvariant, PTL

\* Unless a CGI error closes a descriptor, the loop hangs up on no client that is there:
\* an event of a batch is never for a connection that got the number after it
\* (server.cc:87-104, processor.cc:45).
THEOREM HangsUpOnlyOnTheGone == Spec => []HangsUpOnTheGone
<1>1. EInv => HangsUpOnTheGone
  BY DEF EInv, StillTrue, HangsUpOnTheGone
<1>. QED
  BY <1>1, EventInvariant, PTL

-----------------------------------------------------------------------------
(* Answers: the inductive invariant.                                       *)

Sending(w) == work[w].pc = "send"

AnswersOK ==
  /\ answers \in [Conns -> Seq([conn : Conns, n : Nat])]
  /\ unread \in SUBSET Conns /\ early \in SUBSET Conns
  /\ \A w \in Workers : Sending(w) => work[w].conn \in Conns

\* A client has at most one request outstanding, which is in the receive buffer or with
\* one worker, and a client that has left with one is known.
OneOutstanding ==
  \A c \in Conns :
    /\ asked[c] = Answered(c) \/ asked[c] = Answered(c) + 1
    /\ c \in unread => asked[c] = Answered(c) + 1
    /\ asked[c] # Answered(c) => c \in early \/ peer[c] = "open"
    /\ \A w \in Workers : Sending(w) /\ work[w].conn = c =>
         /\ c \notin unread
         /\ asked[c] = Answered(c) + 1 /\ work[w].n = asked[c]
         /\ \A v \in Workers : Sending(v) /\ work[v].conn = c => v = w

\* The number a worker has taken still stands for the connection it was taken for, unless
\* that connection's client has left.
StillMine ==
  dropped = {} =>
    \A w \in Workers : Sending(w) =>
      work[w].conn \in early \/ file[work[w].fd] = work[w].conn

DInv == AnswersOK /\ OneOutstanding /\ StillMine /\ Delivered

-----------------------------------------------------------------------------
(* The number of answers a client got to its own requests.                 *)

LEMMA AnsweredIs ==
  ASSUME AnswersOK, NEW c \in Conns
  PROVE  Answered(c) \in Nat /\ IsFiniteSet({k \in DOMAIN answers[c] : answers[c][k].conn = c})
<1>. DEFINE own == {k \in DOMAIN answers[c] : answers[c][k].conn = c}
<1>1. Len(answers[c]) \in Nat /\ DOMAIN answers[c] = 1 .. Len(answers[c])
  BY DEF AnswersOK
<1>2. IsFiniteSet(1 .. Len(answers[c])) /\ own \in SUBSET (1 .. Len(answers[c]))
  BY <1>1, FS_Interval
<1>3. IsFiniteSet(own)
  BY <1>2, FS_Subset
<1>. QED
  BY <1>3, FS_CardinalityType DEF Answered

\* If all the answers are to its own requests, they are as many as it got.
LEMMA AllOwn ==
  ASSUME AnswersOK, NEW c \in Conns, \A k \in DOMAIN answers[c] : answers[c][k].conn = c
  PROVE  Answered(c) = Len(answers[c])
<1>1. Len(answers[c]) \in Nat /\ DOMAIN answers[c] = 1 .. Len(answers[c])
  BY DEF AnswersOK
<1>2. {k \in DOMAIN answers[c] : answers[c][k].conn = c} = 1 .. Len(answers[c])
  BY <1>1
<1>3. Cardinality(1 .. Len(answers[c])) = Len(answers[c])
  BY <1>1, FS_Interval
<1>. QED
  BY <1>2, <1>3 DEF Answered

\* One more answer.
LEMMA OneMoreAnswer ==
  ASSUME AnswersOK, NEW d \in Conns, NEW a \in [conn : Conns, n : Nat],
         answers' = [answers EXCEPT ![d] = Append(@, a)]
  PROVE  /\ answers' \in [Conns -> Seq([conn : Conns, n : Nat])]
         /\ \A c \in Conns : c # d => answers'[c] = answers[c]
         /\ \A c \in Conns :
              Answered(c)' = IF c = d /\ a.conn = d THEN Answered(c) + 1 ELSE Answered(c)
         /\ DOMAIN answers'[d] = DOMAIN answers[d] \cup {Len(answers[d]) + 1}
         /\ Len(answers[d]) \in Nat
         /\ \A k \in DOMAIN answers[d] : answers'[d][k] = answers[d][k]
         /\ answers'[d][Len(answers[d]) + 1] = a
<1>. DEFINE own == {k \in DOMAIN answers[d] : answers[d][k].conn = d}
            new == {k \in DOMAIN answers'[d] : answers'[d][k].conn = d}
            at == Len(answers[d]) + 1
<1>1. /\ answers' \in [Conns -> Seq([conn : Conns, n : Nat])]
      /\ \A c \in Conns : c # d => answers'[c] = answers[c]
      /\ answers'[d] = Append(answers[d], a)
      /\ answers[d] \in Seq([conn : Conns, n : Nat])
  BY DEF AnswersOK
<1>2. /\ DOMAIN answers'[d] = DOMAIN answers[d] \cup {at} /\ Len(answers[d]) \in Nat
      /\ at \notin DOMAIN answers[d]
      /\ \A k \in DOMAIN answers[d] : answers'[d][k] = answers[d][k]
      /\ answers'[d][at] = a
  BY <1>1
<1>3. \A c \in Conns : c # d => Answered(c)' = Answered(c)
  BY <1>1 DEF Answered
<1>4. Answered(d) = Cardinality(own) /\ Answered(d)' = Cardinality(new) /\ IsFiniteSet(own)
  BY AnsweredIs DEF Answered
<1>5. CASE a.conn = d
  <2>1. new = own \cup {at} /\ at \notin own
    BY <1>2, <1>5
  <2>2. IsFiniteSet(own)
    BY <1>4
  <2>. HIDE DEF own, new, at
  <2>3. Cardinality(new) = Cardinality(own) + 1
    BY <2>1, <2>2, FS_AddElement
  <2>. QED
    BY <1>1, <1>2, <1>3, <1>4, <1>5, <2>3 DEF at
<1>6. CASE a.conn # d
  <2>1. new = own
    BY <1>2, <1>6
  <2>. QED
    BY <1>1, <1>2, <1>3, <1>4, <1>6, <2>1
<1>. QED
  BY <1>5, <1>6

-----------------------------------------------------------------------------
(* Answers: each step preserves it.                                        *)

\* The steps that bring no request and no answer, and take no number from a worker that
\* is to answer to a client that is there.
LEMMA DeliveryStays ==
  ASSUME DInv, UNCHANGED <<peer, asked, answers, unread, early>>, dropped' = {} => dropped = {},
         \A w \in Workers : Sending(w)' => Sending(w) /\ work'[w] = work[w],
         dropped' = {} =>
           \A w \in Workers :
             Sending(w)' /\ work[w].conn \notin early /\ file[work[w].fd] = work[w].conn
               => file'[work[w].fd] = work[w].conn
  PROVE  DInv'
<1>1. \A c : Answered(c)' = Answered(c)
  BY DEF Answered
<1>2. AnswersOK'
  BY DEF DInv, AnswersOK
<1>3. OneOutstanding'
  BY <1>1 DEF DInv, OneOutstanding
<1>4. StillMine'
  BY DEF DInv, StillMine
<1>5. Delivered'
  BY DEF DInv, Delivered
<1>. QED
  BY <1>2, <1>3, <1>4, <1>5 DEF DInv

\* A client connects, sends or leaves.
LEMMA DeliveryOfClients ==
  ASSUME IInv, DInv, NEW c \in Conns,
         Connect(c) \/ Send(c) \/ Leave(c, "half") \/ Leave(c, "closed")
  PROVE  DInv'
<1>0. /\ peer \in [Conns -> {"away", "open", "half", "closed"}] /\ asked \in [Conns -> Nat]
      /\ AnswersOK /\ OneOutstanding /\ StillMine /\ Delivered
  BY DEF IInv, TypeOK, DInv
<1>1. UNCHANGED <<answers, file, work, dropped>>
  BY DEF Connect, Send, Leave, loop, history
<1>2. \A d \in Conns : Answered(d)' = Answered(d) /\ Answered(d) \in Nat
  BY <1>0, <1>1, AnsweredIs DEF Answered
<1>3. CASE Connect(c)
  <2>1. UNCHANGED <<asked, unread, early>> /\ peer' = [peer EXCEPT ![c] = "open"]
    BY <1>3 DEF Connect
  <2>2. OneOutstanding'
    BY <1>0, <1>1, <1>2, <2>1 DEF OneOutstanding, Sending
  <2>. QED
    BY <1>0, <1>1, <2>1, <2>2 DEF DInv, AnswersOK, StillMine, Delivered, Sending
<1>4. CASE Send(c)
  <2>1. /\ asked[c] = Answered(c) /\ asked' = [asked EXCEPT ![c] = asked[c] + 1]
        /\ unread' = unread \cup {c} /\ peer[c] = "open" /\ UNCHANGED <<peer, early>>
    BY <1>4 DEF Send, loop, history
  <2>2. \A w \in Workers : Sending(w) => work[w].conn # c
    BY <1>0, <1>2, <2>1 DEF OneOutstanding
  <2>3. ASSUME NEW d \in Conns
        PROVE  /\ asked'[d] = Answered(d)' \/ asked'[d] = Answered(d)' + 1
               /\ d \in unread' => asked'[d] = Answered(d)' + 1
               /\ asked'[d] # Answered(d)' => d \in early' \/ peer'[d] = "open"
               /\ \A w \in Workers : Sending(w)' /\ work'[w].conn = d =>
                    /\ d \notin unread'
                    /\ asked'[d] = Answered(d)' + 1 /\ work'[w].n = asked'[d]
                    /\ \A v \in Workers : Sending(v)' /\ work'[v].conn = d => v = w
    <3>1. CASE d = c
      BY <1>0, <1>1, <1>2, <2>1, <2>2, <3>1 DEF Sending
    <3>2. CASE d # c
      <4>1. asked'[d] = asked[d] /\ (d \in unread' => d \in unread)
        BY <1>0, <2>1, <3>2
      <4>. QED
        BY <1>0, <1>1, <1>2, <2>1, <4>1 DEF OneOutstanding, Sending
    <3>. QED
      BY <3>1, <3>2
  <2>4. OneOutstanding'
    BY <2>3 DEF OneOutstanding
  <2>5. AnswersOK' /\ StillMine'
    BY <1>0, <1>1, <2>1 DEF AnswersOK, StillMine, Sending
  <2>6. Delivered'
    BY <1>0, <1>1, <2>1 DEF Delivered
  <2>. QED
    BY <2>4, <2>5, <2>6 DEF DInv
<1>5. ASSUME NEW how \in {"half", "closed"}, Leave(c, how)
      PROVE  DInv'
  <2>1. /\ peer' = [peer EXCEPT ![c] = how] /\ UNCHANGED <<asked, unread>>
        /\ early' = IF asked[c] = Answered(c) THEN early ELSE early \cup {c}
    BY <1>5 DEF Leave
  <2>2. early \subseteq early' /\ early' \in SUBSET Conns
        /\ \A d \in Conns : asked[d] # Answered(d) => d \in early' \/ peer'[d] = "open"
    BY <1>0, <2>1 DEF AnswersOK, OneOutstanding
  <2>3. OneOutstanding'
    BY <1>0, <1>1, <1>2, <2>1, <2>2 DEF OneOutstanding, Sending
  <2>4. AnswersOK' /\ StillMine'
    BY <1>0, <1>1, <2>1, <2>2 DEF AnswersOK, StillMine, Sending
  <2>5. Delivered'
    BY <1>0, <1>1, <2>2 DEF Delivered
  <2>. QED
    BY <2>3, <2>4, <2>5 DEF DInv
<1>. QED
  BY <1>3, <1>4, <1>5

\* A worker reads a request.
LEMMA DeliveryOfRead ==
  ASSUME IInv, DInv, NEW w \in Workers, Read(w)
  PROVE  DInv'
<1>. DEFINE h == work[w].h
            c == Source(h)
            job == [pc |-> "send", h |-> h, fd |-> sockfd[h], conn |-> c, n |-> asked[c]]
<1>0. /\ work \in [Workers -> [pc : {"idle", "read", "send", "close"}, h : {-1} \cup Fds,
                              fd : {-1} \cup Fds, conn : Conns \cup {None}, n : Nat]]
      /\ asked \in [Conns -> Nat]
      /\ AnswersOK /\ OneOutstanding /\ StillMine /\ Delivered
  BY DEF IInv, TypeOK, DInv
<1>1. /\ c # None /\ unread' = unread \ {c} /\ work' = [work EXCEPT ![w] = job]
      /\ UNCHANGED <<peer, asked, answers, file, early, dropped>>
  BY DEF Read, Consumed, clients, loop, history
<1>2. c \in unread /\ file[sockfd[h]] = c /\ c \in Conns
  BY <1>0, <1>1 DEF Source, AnswersOK
<1>. HIDE DEF c, h
<1>3. /\ work'[w] = job /\ Sending(w)'
      /\ \A v \in Workers : v # w => work'[v] = work[v] /\ (Sending(v)' <=> Sending(v))
  BY <1>0, <1>1 DEF Sending
<1>4. \A d \in Conns : Answered(d)' = Answered(d)
  BY <1>1 DEF Answered
<1>5. asked[c] = Answered(c) + 1 /\ \A v \in Workers : Sending(v) => work[v].conn # c
  BY <1>0, <1>2 DEF OneOutstanding
<1>6. ~Sending(w)
  BY DEF Read, Sending
<1>7. AnswersOK'
  BY <1>0, <1>1, <1>2, <1>3 DEF AnswersOK
<1>8. OneOutstanding'
  <2>. SUFFICES ASSUME NEW d \in Conns
                PROVE  /\ asked'[d] = Answered(d)' \/ asked'[d] = Answered(d)' + 1
                       /\ d \in unread' => asked'[d] = Answered(d)' + 1
                       /\ asked'[d] # Answered(d)' => d \in early' \/ peer'[d] = "open"
                       /\ \A v \in Workers : Sending(v)' /\ work'[v].conn = d =>
                            /\ d \notin unread'
                            /\ asked'[d] = Answered(d)' + 1 /\ work'[v].n = asked'[d]
                            /\ \A u \in Workers : Sending(u)' /\ work'[u].conn = d => u = v
    BY DEF OneOutstanding
  <2>1. CASE d = c
    <3>1. \A v \in Workers : Sending(v)' /\ work'[v].conn = d => v = w
      BY <1>3, <1>5, <2>1
    <3>. QED
      BY <1>0, <1>1, <1>3, <1>4, <1>5, <2>1, <3>1 DEF OneOutstanding
  <2>2. CASE d # c
    <3>1. \A v \in Workers : Sending(v)' /\ work'[v].conn = d => v # w /\ Sending(v)
                                                               /\ work'[v] = work[v]
      BY <1>3, <2>2
    <3>. QED
      BY <1>0, <1>1, <1>4, <2>2, <3>1 DEF OneOutstanding
  <2>. QED
    BY <2>1, <2>2
<1>9. StillMine'
  <2>. SUFFICES ASSUME dropped' = {}, NEW v \in Workers, Sending(v)'
                PROVE  work'[v].conn \in early' \/ file'[work'[v].fd] = work'[v].conn
    BY DEF StillMine
  <2>1. CASE v = w
    BY <1>1, <1>2, <1>3, <2>1
  <2>2. CASE v # w
    BY <1>0, <1>1, <1>3, <2>2 DEF StillMine
  <2>. QED
    BY <2>1, <2>2
<1>10. Delivered'
  BY <1>0, <1>1 DEF Delivered
<1>. QED
  BY <1>7, <1>8, <1>9, <1>10 DEF DInv

\* A worker answers a request.
LEMMA DeliveryOfRespond ==
  ASSUME IInv, DInv, NEW w \in Workers, NEW then \in {"read", "close"}, Respond(w, then)
  PROVE  DInv'
<1>. DEFINE d == file[work[w].fd]
            c == work[w].conn
            a == [conn |-> c, n |-> work[w].n]
<1>0. /\ work \in [Workers -> [pc : {"idle", "read", "send", "close"}, h : {-1} \cup Fds,
                              fd : {-1} \cup Fds, conn : Conns \cup {None}, n : Nat]]
      /\ asked \in [Conns -> Nat] /\ file \in [Fds -> Conns \cup {None}]
      /\ AnswersOK /\ OneOutstanding /\ StillMine /\ Delivered
  BY DEF IInv, TypeOK, DInv
<1>1. /\ Sending(w) /\ work' = [work EXCEPT ![w].pc = then]
      /\ UNCHANGED <<peer, asked, unread, file, early, dropped>>
      /\ answers' = IF d = None \/ peer[d] = "closed" THEN answers
                    ELSE [answers EXCEPT ![d] = Append(answers[d], a)]
  BY DEF Respond, Sending, kernel, loop, history
<1>2. ~Sending(w)' /\ \A v \in Workers : v # w => work'[v] = work[v]
  BY <1>0, <1>1 DEF Sending
<1>3. \A v \in Workers : Sending(v)' => v # w /\ Sending(v) /\ work'[v] = work[v]
  BY <1>2 DEF Sending
<1>4. CASE d = None \/ peer[d] = "closed"
  <2>1. UNCHANGED answers
    BY <1>1, <1>4
  <2>. QED
    BY <1>1, <1>3, <2>1, DeliveryStays
<1>5. CASE ~(d = None \/ peer[d] = "closed")
  <2>1. work[w].fd \in Fds
    BY <1>1 DEF IInv, Named, Sending
  <2>2. d \in Conns /\ c \in Conns /\ a \in [conn : Conns, n : Nat]
    BY <1>0, <1>1, <1>5, <2>1 DEF AnswersOK
  <2>3. answers' = [answers EXCEPT ![d] = Append(answers[d], a)]
    BY <1>1, <1>5
  <2>a. a.conn = c /\ a.n = work[w].n
    OBVIOUS
  <2>. HIDE DEF d, a
  <2>4. /\ answers' \in [Conns -> Seq([conn : Conns, n : Nat])]
        /\ \A e \in Conns : e # d => answers'[e] = answers[e]
        /\ \A e \in Conns :
             Answered(e)' = IF e = d /\ a.conn = d THEN Answered(e) + 1 ELSE Answered(e)
        /\ DOMAIN answers'[d] = DOMAIN answers[d] \cup {Len(answers[d]) + 1}
        /\ \A k \in DOMAIN answers[d] : answers'[d][k] = answers[d][k]
        /\ answers'[d][Len(answers[d]) + 1] = a
    <3>1. AnswersOK
      BY <1>0
    <3>. QED
      BY ONLY <2>2, <2>3, <3>1, OneMoreAnswer
  <2>5. /\ c \notin unread /\ asked[c] = Answered(c) + 1 /\ work[w].n = asked[c]
        /\ \A v \in Workers : Sending(v) /\ work[v].conn = c => v = w
    BY <1>0, <1>1, <2>2 DEF OneOutstanding
  <2>6. AnswersOK'
    BY <1>0, <1>1, <1>3, <2>4 DEF AnswersOK
  <2>7. OneOutstanding'
    <3>. SUFFICES ASSUME NEW e \in Conns
                  PROVE  /\ asked'[e] = Answered(e)' \/ asked'[e] = Answered(e)' + 1
                         /\ e \in unread' => asked'[e] = Answered(e)' + 1
                         /\ asked'[e] # Answered(e)' => e \in early' \/ peer'[e] = "open"
                         /\ \A v \in Workers : Sending(v)' /\ work'[v].conn = e =>
                              /\ e \notin unread'
                              /\ asked'[e] = Answered(e)' + 1 /\ work'[v].n = asked'[e]
                              /\ \A u \in Workers : Sending(u)' /\ work'[u].conn = e => u = v
      BY DEF OneOutstanding
    <3>1. CASE e = d /\ e = c
      <4>1. Answered(e)' = asked'[e] /\ e \notin unread'
        BY <1>1, <2>a, <2>4, <2>5, <3>1
      <4>2. \A v \in Workers : ~(Sending(v)' /\ work'[v].conn = e)
        BY <1>3, <2>5, <3>1
      <4>. QED
        BY <4>1, <4>2
    <3>2. CASE ~(e = d /\ e = c)
      <4>1. Answered(e)' = Answered(e)
        BY <2>a, <2>4, <3>2
      <4>. QED
        BY <1>0, <1>1, <1>3, <4>1 DEF OneOutstanding
    <3>. QED
      BY <3>1, <3>2
  <2>8. StillMine'
    BY <1>0, <1>1, <1>3 DEF StillMine
  <2>9. ASSUME dropped' = {}, NEW e \in Conns, NEW k \in DOMAIN answers'[e]
        PROVE  /\ answers'[e][k].conn \in {e} \cup early'
               /\ early' = {} => answers'[e][k].n = k
    <3>1. CASE e # d \/ k \in DOMAIN answers[d]
      <4>1. k \in DOMAIN answers[e] /\ answers'[e][k] = answers[e][k]
        BY <2>4, <3>1
      <4>. QED
        BY <1>0, <1>1, <2>9, <4>1 DEF Delivered
    <3>2. CASE e = d /\ k = Len(answers[d]) + 1
      <4>1. answers'[e][k] = a
        BY <2>4, <3>2
      <4>2. c \in early \/ c = d
        BY <1>0, <1>1, <2>9 DEF StillMine, d
      <4>3. ASSUME early = {}
            PROVE  work[w].n = k
        <5>1. \A j \in DOMAIN answers[d] : answers[d][j].conn = d
          BY <1>0, <1>1, <2>2, <2>9, <4>3 DEF Delivered
        <5>2. Answered(d) = Len(answers[d])
          BY <1>0, <2>2, <5>1, AllOwn
        <5>. QED
          BY <2>5, <3>2, <4>2, <4>3, <5>2
      <4>. QED
        BY <1>1, <2>a, <3>2, <4>1, <4>2, <4>3
    <3>. QED
      BY <2>4, <3>1, <3>2
  <2>10. Delivered'
    BY <2>9 DEF Delivered
  <2>. QED
    BY <2>6, <2>7, <2>8, <2>10 DEF DInv
<1>. QED
  BY <1>4, <1>5

\* A connection that is to be answered loses its descriptor only when its client has left,
\* or by a CGI error.
LEMMA DeliveryStep == IInv /\ EInv /\ DInv /\ [Next]_vars => DInv'
<1>. SUFFICES ASSUME IInv, EInv, DInv, [Next]_vars
              PROVE  DInv'
  OBVIOUS
<1>0. /\ work \in [Workers -> [pc : {"idle", "read", "send", "close"}, h : {-1} \cup Fds,
                              fd : {-1} \cup Fds, conn : Conns \cup {None}, n : Nat]]
      /\ file \in [Fds -> Conns \cup {None}] /\ AnswersOK /\ OneOutstanding
  BY DEF IInv, TypeOK, DInv
<1>1. ASSUME NEW w \in Workers, Sending(w)
      PROVE  work[w].fd \in Fds /\ work[w].conn \in Conns
  BY <1>0, <1>1 DEF IInv, Named, Sending, AnswersOK
<1>2. ASSUME NEW c \in Conns, Client(c) /\ ~Stall(c)
      PROVE  DInv'
  BY <1>2, DeliveryOfClients DEF Client
<1>3. CASE EpollWait
  BY <1>3, DeliveryStays DEF EpollWait, Sending, clients, loop, history
<1>4. ASSUME NEW fd \in Fds, NEW c \in Conns,
             Accept(fd, c) \/ AcceptTooMany(fd, c) \/ AcceptAtLimit(fd, c)
      PROVE  DInv'
  <2>1. /\ file[fd] = None /\ file' = [file EXCEPT ![fd] = c]
        /\ UNCHANGED <<peer, asked, answers, unread, early, dropped, work>>
    BY <1>4 DEF Accept, AcceptTooMany, AcceptAtLimit, Takes, Free, clients
  <2>2. \A w \in Workers : Sending(w) /\ file[work[w].fd] = work[w].conn
          => file'[work[w].fd] = work[w].conn
    BY <1>0, <1>1, <2>1, NoneAssumption
  <2>. QED
    BY <2>1, <2>2, DeliveryStays DEF Sending
<1>5. CASE AcceptFails
  BY <1>5, DeliveryStays DEF AcceptFails, Sending, clients, kernel, loop
<1>6. ASSUME NEW fd \in Fds, HangUp(fd)
      PROVE  DInv'
  <2>1. UNCHANGED <<peer, asked, answers, unread, early, dropped, work>>
    BY <1>6 DEF HangUp, clients
  <2>2. CASE file' = file
    BY <2>1, <2>2, DeliveryStays DEF Sending
  <2>3. CASE file' # file
    <3>1. file' = [file EXCEPT ![fd] = None]
      BY <1>6, <2>3 DEF HangUp, Close
    <3>2. /\ batch # <<>> /\ NextEvent /\ ReadyOK /\ StillTrue
          /\ fd = Head(batch).fd /\ Head(batch).hup
      BY <1>6 DEF HangUp, Handles, AtBranch, IsHangUp, IsNewConn, EInv
    <3>3. 1 \in DOMAIN batch /\ Head(batch) = batch[1]
      BY <3>2, NextOfBatch
    <3>4. fd # ListenFd
      BY FdsAssumption DEF Fds, ListenFd
    <3>5. dropped = {} => peer[file[fd]] # "open"
      BY <3>2, <3>3, <3>4 DEF StillTrue
    <3>6. ASSUME dropped = {}, NEW w \in Workers, Sending(w), work[w].conn \notin early,
                 file[work[w].fd] = work[w].conn
          PROVE  file'[work[w].fd] = work[w].conn
      <4>1. work[w].fd \in Fds /\ work[w].conn \in Conns
        BY <1>1, <3>6
      <4>2. asked[work[w].conn] = Answered(work[w].conn) + 1 /\ Answered(work[w].conn) \in Nat
        BY <1>0, <3>6, <4>1, AnsweredIs DEF OneOutstanding
      <4>3. peer[work[w].conn] = "open"
        BY <1>0, <3>6, <4>1, <4>2 DEF OneOutstanding
      <4>4. work[w].fd # fd
        BY <3>5, <3>6, <4>3
      <4>. QED
        BY <1>0, <3>1, <3>6, <4>1, <4>4
    <3>. QED
      BY <2>1, <3>6, DeliveryStays DEF Sending
  <2>. QED
    BY <2>2, <2>3
<1>7. ASSUME NEW fd \in Fds, Submit(fd)
      PROVE  DInv'
  BY <1>7, DeliveryStays DEF Submit, Sending, clients, kernel, loop, history
<1>8. ASSUME NEW w \in Workers, Take(w) \/ ReadNothing(w)
      PROVE  DInv'
  <2>1. /\ UNCHANGED <<peer, asked, answers, unread, early, file, dropped>>
        /\ \A v \in Workers : v # w => work'[v] = work[v]
        /\ ~Sending(w)'
    <3>1. UNCHANGED <<peer, asked, answers, unread, early, file, dropped>>
      BY <1>8 DEF Take, ReadNothing, clients, kernel, loop, history
    <3>2. PICK job : work' = [work EXCEPT ![w] = job] /\ job.pc # "send"
      <4>1. CASE Take(w)
        <5>1. work' = [work EXCEPT ![w] = [Idle EXCEPT !.pc = "read", !.h = Head(queue)]]
          BY <4>1 DEF Take
        <5>2. [Idle EXCEPT !.pc = "read", !.h = Head(queue)].pc = "read"
          BY DEF Idle
        <5>. QED
          BY <5>1, <5>2
      <4>2. CASE ReadNothing(w)
        <5>1. work' = [work EXCEPT ![w] = Idle] /\ Idle.pc = "idle"
          BY <4>2 DEF ReadNothing, Idle
        <5>. QED
          BY <5>1
      <4>. QED
        BY <1>8, <4>1, <4>2
    <3>. QED
      BY <1>0, <3>1, <3>2 DEF Sending
  <2>2. \A v \in Workers : Sending(v)' => Sending(v) /\ work'[v] = work[v]
    BY <2>1 DEF Sending
  <2>. QED
    BY <2>1, <2>2, DeliveryStays
<1>9. ASSUME NEW w \in Workers, ReadAtLimit(w)
      PROVE  DInv'
  BY <1>9, DeliveryStays DEF ReadAtLimit, Sending, clients, kernel, loop, history
<1>10. ASSUME NEW w \in Workers, Read(w)
       PROVE  DInv'
  BY <1>10, DeliveryOfRead
<1>11. ASSUME NEW w \in Workers, NEW then \in {"read", "close"}, Respond(w, then)
       PROVE  DInv'
  BY <1>11, DeliveryOfRespond
<1>12. ASSUME NEW w \in Workers, CgiClose(w)
       PROVE  DInv'
  <2>1. /\ UNCHANGED <<peer, asked, answers, unread, early>>
        /\ work' = [work EXCEPT ![w].pc = "read"]
        /\ work[w].fd \in Fds /\ file' = [file EXCEPT ![work[w].fd] = None]
        /\ dropped' = dropped \cup ({file[work[w].fd]} \ {None})
    BY <1>12 DEF CgiClose, Close, IInv, Named, clients
  <2>2. ~Sending(w)' /\ \A v \in Workers : v # w => work'[v] = work[v]
    BY <1>0, <2>1 DEF Sending
  <2>3. \A v \in Workers : Sending(v)' => Sending(v) /\ work'[v] = work[v]
    BY <2>2 DEF Sending
  <2>4. dropped' = {} => dropped = {} /\ file' = file
    BY <1>0, <2>1
  <2>. QED
    BY <2>1, <2>3, <2>4, DeliveryStays
<1>13. CASE Quiet
  BY <1>13, DeliveryStays DEF Quiet, Sending, clients, kernel, loop, history
<1>. QED
  BY <1>2, <1>3, <1>4, <1>5, <1>6, <1>7, <1>8, <1>9, <1>10, <1>11, <1>12, <1>13, QuietSteps
     DEF Next, Loop, Worker

-----------------------------------------------------------------------------
(* Answers: what holds in every state.                                     *)

\* However numbers are used again and workers are late, an answer reaches the client that
\* asked, and a client gets its answers in order, unless a client left with a request
\* outstanding or a CGI error closed a descriptor (http_handler.cc:162-183, server.cc:77-120).
THEOREM AlwaysDelivered == Spec => []Delivered
<1>1. Init => DInv
  <2>. SUFFICES ASSUME Init
                PROVE  DInv
    OBVIOUS
  <2>1. AnswersOK /\ StillMine /\ Delivered
    BY DEF Init, AnswersOK, StillMine, Delivered, Sending, Idle
  <2>2. \A c \in Conns : Answered(c) = 0
    <3>1. \A c \in Conns : {k \in DOMAIN answers[c] : answers[c][k].conn = c} = {}
      BY DEF Init
    <3>. QED
      BY <3>1, FS_EmptySet DEF Answered
  <2>3. OneOutstanding
    BY <2>2 DEF Init, OneOutstanding, Sending, Idle
  <2>. QED
    BY <2>1, <2>3 DEF DInv
<1>2. IInv /\ EInv /\ DInv /\ [Next]_vars => DInv'
  BY DeliveryStep
<1>3. DInv => Delivered
  BY DEF DInv
<1>. QED
  BY <1>1, <1>2, <1>3, ServerInvariant, EventInvariant, PTL DEF Spec
=============================================================================
