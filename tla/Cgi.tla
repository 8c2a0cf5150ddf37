--------------------------------- MODULE Cgi ---------------------------------
(***************************************************************************)
(* Calls of process_cgi() by several workers at once                       *)
(* (src/src/http/processor.cc:35-111, 156-221), and the scripts they start *)
(* (src/src/cgi/example_cgi.cc).                                           *)
(*                                                                         *)
(* The workers share what belongs to the process: its environment, its     *)
(* descriptors and its children.  A child is named after its call.  A      *)
(* handler's Request keeps the headers of all its calls.  What a child     *)
(* whose execl() failed does with the server's sockets afterwards is not   *)
(* followed.                                                               *)
(***************************************************************************)
EXTENDS Integers, Sequences, FiniteSets

CONSTANTS
  Workers,
  Handlers,
  FieldSets,   \* the sets of header fields that requests have
  Lengths,     \* the values of Content-Length
  MaxCalls,    \* bound on the calls
  NFds,        \* how many descriptors the calls may use
  NEvents,     \* the length of the array of events
  PipeSize     \* what a pipe holds

Fields == {"Content-Length", "Connection"}

ASSUME WorkersAssumption == IsFiniteSet(Workers)
ASSUME BoundsAssumption == MaxCalls \in Nat /\ NFds \in Nat /\ NEvents \in Nat /\ PipeSize \in Nat
ASSUME RequestsAssumption == FieldSets \subseteq SUBSET Fields /\ Lengths \subseteq Nat

Calls == 1 .. MaxCalls

VARIABLES
  stdin,     \* whether descriptor 0 can be polled for output: a terminal can, a file cannot
  pc,        \* where each worker is in process_cgi()
  id,        \* the call each worker is in
  calls,     \* the calls so far: handler, header fields, script, and the length of the body
  headers,   \* the headers of each handler's Request: which calls have sent a field, in order
  env,       \* the process's environment: whose field, or URL, each variable is
  kid,       \* the state of each call's child
  kidEnv,    \* the environment it was started with
  readers,   \* who has the read end of each call's pipe: children, and 0, the server
  written,   \* calls whose body is in the pipe
  epolls,    \* calls whose epoll_create() has succeeded
  fds,       \* descriptors the calls have opened and not closed
  answers,   \* what was sent to each call's client
  dead,      \* whether SIGPIPE has ended the server
  raced,     \* history: calls that set the environment while another one did
  leaks      \* history: descriptors left open by calls that have returned

process == <<env, readers, fds, leaks>>
children == <<kid, kidEnv>>
requests == <<calls, headers>>
vars == <<stdin, pc, id, written, epolls, answers, dead, raced, requests, process, children>>

alive == ~dead
Made == DOMAIN calls
Unreaped == {k \in Calls : kid[k] \notin {"none", "reaped"}}
Goto(w, place) == pc' = [pc EXCEPT ![w] = place]
Answered(k, what) == answers' = [answers EXCEPT ![k] = Append(@, what)]

Init ==
  /\ stdin \in BOOLEAN
  /\ pc = [w \in Workers |-> "idle"] /\ id = [w \in Workers |-> 0]
  /\ calls = <<>>
  /\ headers = [h \in Handlers |-> [f \in Fields |-> <<>>]]
  /\ env = [v \in Fields \cup {"url"} |-> 0]
  /\ kid = [k \in Calls |-> "none"] /\ kidEnv = [k \in Calls |-> env]
  /\ readers = [k \in Calls |-> {}]
  /\ written = {} /\ epolls = {} /\ fds = 0
  /\ answers = [k \in Calls |-> <<>>]
  /\ dead = FALSE
  /\ raced = {} /\ leaks = 0

-----------------------------------------------------------------------------
(* process_cgi().                                                          *)

\* Calls between their first setenv() and their fork().
Setting == {id[v] : v \in {u \in Workers : pc[u] \in {"last", "pipe", "fork"}}}

\* set_header() for each field of call k: nothing is ever taken away.
SetHeaders(h, fields, k) ==
  [f \in Fields |-> IF f \in fields THEN Append(headers[h][f], k) ELSE headers[h][f]]

\* Mutant: the first field of a name counts.
GetFirstValue(sent) == IF sent = <<>> THEN 0 ELSE Head(sent)

\* The last field of a name counts, or there is none and the value is empty.
GetHeaderValue(sent) == IF sent = <<>> THEN 0 ELSE sent[Len(sent)]

\* The first Content-Length counts, whoever sent it.
GetBodyLength(h, fields, len) ==
  LET sent == headers[h]["Content-Length"] IN
  IF sent # <<>> THEN calls[Head(sent)].len
  ELSE IF "Content-Length" \in fields THEN len ELSE 0

Serves(h) == {w \in Workers : pc[w] # "idle" /\ calls[id[w]].handler = h}

\* A call of handler h, whose parser has added its fields to the Request.  A script
\* that does not exist is answered at once (Server has the close()); for another the
\* first of its variables, and one that is not from a field, are set.
Begin(w, h, script, fields, len) ==
  LET k == Len(calls) + 1 IN
  /\ alive /\ pc[w] = "idle" /\ Serves(h) = {} /\ k \in Calls
  /\ headers' = [headers EXCEPT ![h] = SetHeaders(h, fields, k)]
  /\ calls' = Append(calls, [handler |-> h, fields |-> fields, script |-> script,
                             len |-> GetBodyLength(h, fields, len)])
  /\ id' = [id EXCEPT ![w] = k]
  /\ IF script = "missing"
     THEN Answered(k, "404") /\ UNCHANGED <<pc, env, raced>>
     ELSE /\ env' = [env EXCEPT !["Content-Length"] = GetHeaderValue(headers'[h]["Content-Length"]),
                                !["url"] = k]
          /\ Goto(w, "last")
          /\ raced' = IF Setting = {} THEN raced ELSE raced \cup Setting \cup {k}
          /\ UNCHANGED answers
  /\ UNCHANGED <<stdin, written, epolls, dead, readers, fds, leaks, children>>

\* The last of the variables of _set_cgi_env_variable().
SetEnv(w) ==
  /\ alive /\ pc[w] = "last"
  /\ env' = [env EXCEPT !["Connection"] =
                GetHeaderValue(headers[calls[id[w]].handler]["Connection"])]
  /\ Goto(w, "pipe")
  /\ UNCHANGED <<stdin, id, requests, readers, written, epolls, fds, answers, dead, raced, leaks, children>>

Pipe(w) ==
  /\ alive /\ pc[w] = "pipe"
  /\ IF fds + 2 <= NFds
     THEN /\ fds' = fds + 2
          /\ readers' = [readers EXCEPT ![id[w]] = {0}]
          /\ Goto(w, "fork")
          /\ UNCHANGED answers
     ELSE /\ Answered(id[w], "500")
          /\ Goto(w, "idle")
          /\ UNCHANGED <<fds, readers>>
  /\ UNCHANGED <<stdin, id, requests, env, written, epolls, dead, raced, leaks, children>>

\* Mutant: the child closes its read end too.
InheritsNot(j, k) == readers[j] \cup (IF 0 \in readers[j] /\ j # k THEN {k} ELSE {})

\* Child k has a copy of every read end the server has.
Inherits(j, k) == IF 0 \in readers[j] THEN readers[j] \cup {k} ELSE readers[j]

Fork(w) ==
  /\ alive /\ pc[w] = "fork"
  /\ kid' = [kid EXCEPT ![id[w]] = "forked"]
  /\ kidEnv' = [kidEnv EXCEPT ![id[w]] = env]
  /\ readers' = [j \in Calls |-> Inherits(j, id[w])]
  /\ Goto(w, "close")
  /\ UNCHANGED <<stdin, id, requests, env, written, epolls, fds, answers, dead, raced, leaks>>

\* Mutant: no return.
NoReturn == "close"
Return == "idle"

\* No answer, and the pipe stays open.
ForkFails(w) ==
  /\ alive /\ pc[w] = "fork"
  /\ leaks' = leaks + 2
  /\ Goto(w, Return)
  /\ UNCHANGED <<stdin, id, requests, env, readers, written, epolls, fds, answers, dead, raced, children>>

\* close(pipe_fd[0])
CloseRead(w) ==
  /\ alive /\ pc[w] = "close"
  /\ readers' = [readers EXCEPT ![id[w]] = @ \ {0}]
  /\ fds' = fds - 1
  /\ Goto(w, "epoll")
  /\ UNCHANGED <<stdin, id, requests, env, written, epolls, answers, dead, raced, leaks, children>>

\* epoll_create() returns a descriptor, or -1, which nobody looks at.
EpollCreate(w) ==
  /\ alive /\ pc[w] = "epoll"
  /\ IF fds < NFds
     THEN fds' = fds + 1 /\ epolls' = epolls \cup {id[w]}
     ELSE UNCHANGED <<fds, epolls>>
  /\ Goto(w, IF calls[id[w]].len > 0 THEN "write" ELSE "end")
  /\ UNCHANGED <<stdin, id, requests, env, readers, written, answers, dead, raced, leaks, children>>

\* epoll_wait() reports descriptor 0, or nothing for ever, and a worker without
\* an epoll instance goes round without end.
CanWrite(w) == stdin /\ id[w] \in epolls

\* The body is written, at once if the pipe holds it and as the script reads it if not;
\* a pipe that nobody can read from ends the process.  The length written is also the
\* new bound of the loop over the events: behind the array there is memory the process
\* may read, or not.  (An entry that looks like the pipe's event writes nothing more.)
Write(w) ==
  LET k == id[w] IN
  /\ alive /\ pc[w] = "write" /\ CanWrite(w)
  /\ \/ readers[k] = {} /\ dead' = TRUE /\ UNCHANGED <<pc, written>>
     \/ /\ readers[k] # {}
        /\ calls[k].len <= PipeSize \/ kid[k] = "script"
        /\ written' = written \cup {k} /\ Goto(w, "end")
        /\ UNCHANGED dead \/ (calls[k].len > NEvents /\ dead' = TRUE)
  /\ UNCHANGED <<stdin, id, requests, epolls, answers, raced, process, children>>

\* Mutant: the write end stays open.
WriteEndKept == fds' = fds
WriteEndClosed == fds' = fds - 1

\* close(pipe_fd[1])
CloseWrite(w) ==
  /\ alive /\ pc[w] = "end"
  /\ WriteEndClosed
  /\ Goto(w, "wait")
  /\ UNCHANGED <<stdin, id, requests, env, readers, written, epolls, answers, dead, raced, leaks, children>>

\* Mutants: any status is taken for a failure; the call goes on waiting for an exit.
NotExitedAlways(k) == TRUE
ReapsExited(k) == kid[k] = "ended"

\* !WIFEXITED(status)
NotExited(k) == kid[k] = "crashed"

\* wait(&status) takes any child that has ended.
Reaps(k) == kid[k] \in {"ended", "crashed"}

Wait(w, k) ==
  /\ alive /\ pc[w] = "wait"
  /\ Reaps(k)
  /\ kid' = [kid EXCEPT ![k] = "reaped"]
  /\ IF NotExited(k) THEN Answered(id[w], "500") ELSE UNCHANGED answers
  /\ leaks' = leaks + (IF id[w] \in epolls THEN 1 ELSE 0)
  /\ Goto(w, "idle")
  /\ UNCHANGED <<stdin, id, requests, env, kidEnv, readers, written, epolls, fds, dead, raced>>

Call(w) ==
  \/ SetEnv(w) \/ Pipe(w) \/ Fork(w) \/ ForkFails(w)
  \/ CloseRead(w) \/ EpollCreate(w) \/ Write(w) \/ CloseWrite(w)
  \/ \E k \in Calls : Wait(w, k)

-----------------------------------------------------------------------------
(* The children.                                                           *)

Becomes(k, state) == kid' = [kid EXCEPT ![k] = state]
ChildOnly == UNCHANGED <<stdin, pc, id, requests, written, epolls, dead, raced, env, fds, leaks,
                         kidEnv>>

\* The child writes to the log before it becomes the script; a lock of the log that
\* another thread held at the fork() is held for ever.
ChildBlocks(k) ==
  /\ kid[k] = "forked"
  /\ Becomes(k, "blocked")
  /\ ChildOnly /\ UNCHANGED <<readers, answers>>

\* execl(), which fails for a file that cannot be executed.
Exec(k) ==
  /\ kid[k] = "forked"
  /\ Becomes(k, IF calls[k].script = "fails" THEN "clone" ELSE "script")
  /\ ChildOnly /\ UNCHANGED <<readers, answers>>

\* The child goes on as the server: with a body it polls a pipe's read end for
\* output and never stops; without one its own wait() fails, an uninitialized
\* status decides whether it answers, and then it waits for work that never comes.
CloneGoesOn(k) ==
  /\ kid[k] = "clone" /\ calls[k].len = 0
  /\ Becomes(k, "asleep")
  /\ Answered(k, "500") \/ UNCHANGED answers
  /\ ChildOnly /\ UNCHANGED readers

\* A child's copies of the descriptors go with it.
Drops(k) == readers' = [j \in Calls |-> readers[j] \ {k}]

\* The script has read the body, and answers.
ScriptEnds(k) ==
  /\ kid[k] = "script" /\ calls[k].script = "ends"
  /\ calls[k].len > 0 => k \in written
  /\ Becomes(k, "ended")
  /\ Answered(k, "script")
  /\ Drops(k) /\ ChildOnly

\* A signal ends the script, at any time and before it answers.
ScriptCrashes(k) ==
  /\ kid[k] = "script" /\ calls[k].script = "crashes"
  /\ Becomes(k, "crashed")
  /\ Drops(k) /\ ChildOnly /\ UNCHANGED answers

Child(k) == ChildBlocks(k) \/ Exec(k) \/ CloneGoesOn(k) \/ ScriptEnds(k) \/ ScriptCrashes(k)

Scripts == {"missing", "fails", "ends", "crashes"}

Next ==
  \/ \E w \in Workers, h \in Handlers, script \in Scripts, fields \in FieldSets, len \in Lengths :
       Begin(w, h, script, fields, len)
  \/ \E w \in Workers : Call(w)
  \/ \E k \in Calls : Child(k)

Spec == Init /\ [][Next]_vars

\* The threads and the children are scheduled, and a script comes to its end.
FairSpec ==
  /\ Spec
  /\ \A w \in Workers : WF_vars(Call(w))
  /\ \A k \in Calls : WF_vars(Child(k))

-----------------------------------------------------------------------------
(* Properties.                                                             *)

\* There is a child for every call that waits or will: wait() never fails, whoever
\* reaps whose child, and status is never read without having been set
\* (processor.cc:103-105).
WaitsMatchChildren ==
  Cardinality(Unreaped)
    = Cardinality({w \in Workers : pc[w] \in {"close", "epoll", "write", "end", "wait"}})

\* Unless another call was between its first setenv() and its fork() at the same time,
\* a script gets its own request's URL, and for a header field the value last sent on
\* its handler: its own if its request has the field, and never that of a request of
\* another handler; an earlier client's, if its request has none
\* (processor.cc:48-57, 156-221, request.cc:68-76).
Senders(k, f) == {j \in 1 .. k : calls[j].handler = calls[k].handler /\ f \in calls[j].fields}
EnvIsOfHandler ==
  \A k \in Unreaped \ raced :
    /\ kidEnv[k]["url"] = k
    /\ \A f \in Fields : /\ kidEnv[k][f] \in {0} \cup Senders(k, f)
                        /\ \A j \in Senders(k, f) : j <= kidEnv[k][f]

\* As long as no script crashes, a script's answer is all its client gets
\* (processor.cc:104-110).
OneAnswer ==
  (\A k \in Made : calls[k].script # "crashes") =>
    \A k \in Made : kid[k] \in {"ended", "reaped"} => answers[k] = <<"script">>

\* A pipe() fails only when calls that have returned have left so many descriptors
\* open that this one, and the two that each running call may hold, do not find
\* room (processor.cc:50, 77).
PipeFails(w) == pc[w] = "pipe" /\ pc'[w] = "idle"
Running(v) == pc[v] \in {"fork", "close", "epoll", "write", "end", "wait"}
PipeFailsOfLeaks ==
  [][\A w \in Workers : PipeFails(w) =>
       leaks >= NFds - 1 - 2 * Cardinality({v \in Workers : Running(v)})]_vars

\* The server dies only of a script that ended before its body was written, or behind
\* the write of a body that is longer than the array of events, and of no other order
\* of forks, writes and ends (processor.cc:86-92).
DiesOfWrites ==
  dead => \/ \E k \in Made \ written : calls[k].len > 0 /\ kid[k] \in {"crashed", "reaped"}
          \/ \E k \in written : calls[k].len > NEvents

\* In the end every call has returned, but for those that wait, of which there are
\* no more than children that never end, whoever's they are, those that poll for
\* nothing, and those whose body fills a pipe that only such children hold open
\* (processor.cc:86, 89, 104).
Endless == {k \in Calls : kid[k] \in {"blocked", "clone", "asleep"}}
Stuck(w) ==
  /\ pc[w] = "write"
  /\ ~CanWrite(w) \/ (calls[id[w]].len > PipeSize /\ readers[id[w]] \cap Endless # {})
Settled ==
  \/ dead
  \/ /\ Cardinality({w \in Workers : pc[w] = "wait"}) <= Cardinality(Endless)
     /\ \A w \in Workers : pc[w] \in {"idle", "wait"} \/ Stuck(w)
Settles == <>[]Settled
=============================================================================
