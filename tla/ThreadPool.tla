----------------------------- MODULE ThreadPool -----------------------------
(***************************************************************************)
(* The worker pool (src/src/common/threadpool.cc) together with the one    *)
(* caller it has, the submission loop of the event loop                    *)
(* (src/src/http/server.cc, lines 109-116).                                *)
(*                                                                         *)
(* A step of this module is one atomic access to state that threads share: *)
(* the mutex, the semaphore, the flag, or what the mutex protects.  A job  *)
(* is the HttpHandler of a connection; running it is one step here and     *)
(* is opened up in module HttpHandler.                                     *)
(***************************************************************************)
EXTENDS Naturals, Sequences, FiniteSets

CONSTANTS Workers,      \* the threads that execute run(); N_THREADS = 8
          Handlers,     \* the handlers the event loop may submit
          MaxRequests,  \* max_requests; MAX_FD = 1024
          MaxTries,     \* the bound of the submission loop; 10
          StopAllowed,  \* whether somebody calls stop()
          Server,       \* the thread of the event loop, as a mutex owner
          Free,         \* the owner of a mutex nobody holds
          None          \* no handler

ASSUME WorkersAssumption == IsFiniteSet(Workers) /\ Server \notin Workers
ASSUME FreeAssumption == Free \notin Workers /\ Free # Server
ASSUME NoneAssumption == None \notin Handlers
ASSUME BoundsAssumption == MaxRequests \in Nat \ {0} /\ MaxTries \in Nat \ {0, 1}
ASSUME StopAssumption == StopAllowed \in BOOLEAN

VARIABLES
  queue,    \* worker_queue
  lock,     \* the owner of the mutex
  sem,      \* the value of the semaphore
  stoped,   \* the flag stop() sets
  wpc,      \* where each worker is in run()
  job,      \* the local variable request of each worker
  spc,      \* where the event loop is: outside or inside submit()
  arg,      \* the handler being submitted
  tries,    \* try_count
  late      \* history: jobs each worker took after stop() was called

workerVars == <<wpc, job, late>>
serverVars == <<spc, arg, tries>>
vars == <<queue, lock, sem, stoped, wpc, job, spc, arg, tries, late>>

WorkerPlaces == {"test", "wait", "lock", "critical", "run", "exited"}
ServerPlaces == {"idle", "lock", "check", "post"}

TypeOK ==
  /\ queue \in Seq(Handlers)
  /\ lock \in Workers \cup {Server, Free}
  /\ sem \in Nat
  /\ stoped \in BOOLEAN
  /\ wpc \in [Workers -> WorkerPlaces]
  /\ job \in [Workers -> Handlers \cup {None}]
  /\ spc \in ServerPlaces
  /\ arg \in Handlers \cup {None}
  /\ spc # "idle" => arg \in Handlers
  /\ tries \in Nat
  /\ late \in [Workers -> Nat]

Init ==
  /\ queue = <<>> /\ lock = Free /\ sem = 0 /\ stoped = FALSE
  /\ wpc = [w \in Workers |-> "test"]
  /\ job = [w \in Workers |-> None]
  /\ spc = "idle" /\ arg = None /\ tries = 0
  /\ late = [w \in Workers |-> 0]

-----------------------------------------------------------------------------
(* The mutex and the semaphore.                                            *)

\* Mutants: the result of a try_lock() is ignored; the mutex is recursive.
AcquireTry(t) == lock' = t
AcquireRecursive(t) == lock \in {Free, t} /\ lock' = t

\* lock.lock() and lock.unlock(): a std::mutex is not recursive, so a thread that
\* already owns it waits for itself.
Acquire(t) == lock = Free /\ lock' = t
Release(t) == lock' = Free

\* Mutants: a wait that a signal interrupted is taken for a successful one;
\* sem_post() is forgotten.
TakeTokenInterrupted == sem' \in {sem, sem - 1}
PostTokenForgotten == sem' = sem

\* sem_wait(&sem) blocks until a token can be taken; sem_post(&sem). The result of the wait
\* is not looked at, but the process has no signal handler that would interrupt it.
TakeToken == sem > 0 /\ sem' = sem - 1
PostToken == sem' = sem + 1

-----------------------------------------------------------------------------
(* run(): the loop every worker executes.                                  *)

\* Mutant: the flag is never looked at.
GoesOnAlways == TRUE
GoesOn == ~stoped

\* while (!stoped)
TestStop(w) ==
  /\ wpc[w] = "test"
  /\ wpc' = [wpc EXCEPT ![w] = IF GoesOn THEN "wait" ELSE "exited"]
  /\ UNCHANGED <<queue, lock, sem, stoped, job, late, serverVars>>

SemWait(w) ==
  /\ wpc[w] = "wait"
  /\ TakeToken
  /\ wpc' = [wpc EXCEPT ![w] = "lock"]
  /\ UNCHANGED <<queue, lock, stoped, job, late, serverVars>>

WorkerLock(w) ==
  /\ wpc[w] = "lock"
  /\ Acquire(w)
  /\ wpc' = [wpc EXCEPT ![w] = "critical"]
  /\ UNCHANGED <<queue, sem, stoped, job, late, serverVars>>

\* Mutant: the newest handler is taken.
PopBack(w) ==
  /\ job' = [job EXCEPT ![w] = queue[Len(queue)]]
  /\ queue' = SubSeq(queue, 1, Len(queue) - 1)

\* request = worker_queue.front(); worker_queue.pop_front()
PopFront(w) ==
  /\ job' = [job EXCEPT ![w] = Head(queue)]
  /\ queue' = Tail(queue)

\* Under the mutex: go round again if the queue is empty, else take its
\* front; both ways out unlock.
Pop(w) ==
  /\ wpc[w] = "critical"
  /\ Release(w)
  /\ IF queue = <<>>
       THEN /\ wpc' = [wpc EXCEPT ![w] = "test"]
            /\ UNCHANGED <<queue, job, late>>
       ELSE /\ PopFront(w)
            /\ wpc' = [wpc EXCEPT ![w] = "run"]
            /\ late' = [late EXCEPT ![w] = @ + IF stoped THEN 1 ELSE 0]
  /\ UNCHANGED <<sem, stoped, serverVars>>

\* request->process() returns
Process(w) ==
  /\ wpc[w] = "run"
  /\ job' = [job EXCEPT ![w] = None]
  /\ wpc' = [wpc EXCEPT ![w] = "test"]
  /\ UNCHANGED <<queue, lock, sem, stoped, late, serverVars>>

Worker(w) == TestStop(w) \/ SemWait(w) \/ WorkerLock(w) \/ Pop(w) \/ Process(w)

-----------------------------------------------------------------------------
(* submit(), called in a loop by HttpServer::start().                      *)

\* Data arrived for a connection: enter the submission loop.
Event(h) ==
  /\ spc = "idle"
  /\ spc' = "lock" /\ arg' = h /\ tries' = 0
  /\ UNCHANGED <<queue, lock, sem, stoped, workerVars>>

SubmitLock ==
  /\ spc = "lock"
  /\ Acquire(Server)
  /\ spc' = "check"
  /\ UNCHANGED <<queue, sem, stoped, arg, tries, workerVars>>

Full == Len(queue) >= MaxRequests

\* The queue is full: return false, without unlocking.  The loop tries again
\* until MaxTries attempts were made.
SubmitRefuse ==
  /\ spc = "check" /\ Full
  /\ tries' = tries + 1
  /\ spc' = IF tries + 1 >= MaxTries THEN "idle" ELSE "lock"
  /\ UNCHANGED <<queue, lock, sem, stoped, arg, workerVars>>

\* push_back and unlock()
SubmitPush ==
  /\ spc = "check" /\ ~Full
  /\ queue' = Append(queue, arg)
  /\ Release(Server)
  /\ spc' = "post"
  /\ UNCHANGED <<sem, stoped, arg, tries, workerVars>>

\* sem_post(&sem), return true: the submission loop ends
SubmitPost ==
  /\ spc = "post"
  /\ PostToken
  /\ tries' = tries + 1 /\ spc' = "idle" /\ arg' = None
  /\ UNCHANGED <<queue, lock, stoped, workerVars>>

Submit == SubmitLock \/ SubmitRefuse \/ SubmitPush \/ SubmitPost

\* stop(): sets the flag, wakes nobody
Stop ==
  /\ StopAllowed
  /\ ~stoped
  /\ stoped' = TRUE
  /\ UNCHANGED <<queue, lock, sem, workerVars, serverVars>>

-----------------------------------------------------------------------------
Next == \/ \E w \in Workers : Worker(w)
        \/ \E h \in Handlers : Event(h)
        \/ Submit
        \/ Stop

Spec == Init /\ [][Next]_vars

\* Every thread is scheduled: a worker or the event loop that can take its
\* next step eventually does.  Events and stop() are up to the environment.
FairSpec == /\ Spec
            /\ \A w \in Workers : WF_vars(Worker(w))
            /\ WF_vars(Submit)

-----------------------------------------------------------------------------
(* Properties.                                                             *)

\* Workers that have taken a token and not yet popped.
TokenHolders == {w \in Workers : wpc[w] \in {"lock", "critical"}}

\* A submission between its push and its sem_post.
Unposted == IF spc = "post" THEN 1 ELSE 0

\* The mutex is owned by the event loop although it is not inside the
\* critical section: a refused submit() returned without unlocking.
Leaked == lock = Server /\ spc # "check"

\* Who owns the mutex is where it says it is.
LockOwner ==
  /\ \A w \in Workers : wpc[w] = "critical" <=> lock = w
  /\ spc = "check" => lock = Server

\* Every queued handler has exactly one token: in the semaphore, in the hands
\* of a woken worker, or about to be posted.  (sem and worker_queue are
\* updated in different critical sections, threadpool.cc:57-59 and 39-46.)
TokensMatchQueue ==
  sem + Cardinality(TokenHolders) + Unposted = Len(queue)

\* A worker that was woken finds the queue non-empty: the branch at
\* threadpool.cc:41-44 is never taken, no wake-up is wasted.
WokenFindsWork == \A w \in Workers : wpc[w] = "critical" => queue # <<>>

\* The mutex is lost only by a submission that found the queue full, and
\* the queue then stays full (threadpool.cc:54-56).
LeakOnlyWhenFull == Leaked => Len(queue) = MaxRequests

\* The submission loop at server.cc:111-116 never gets to a second attempt:
\* a first one succeeds, or it blocks the loop for good.
NoSecondAttempt == tries <= 1 /\ (spc = "check" => tries = 0)

\* Once the mutex is lost no handler is ever queued or taken again.
LeakIsPermanent == [][Leaked => Leaked' /\ UNCHANGED queue]_vars

\* After stop() a worker starts at most one more handler (threadpool.cc:38:
\* the flag is looked at once per round).
AtMostOneLateJob == \A w \in Workers : late[w] <= 1

\* What makes the properties above inductive: the queue never exceeds its
\* bound, a refused submission owns the mutex, a worker that took a job after
\* stop() is on its way out, and exactly the workers in process() hold a job.
QueueBounded == Len(queue) <= MaxRequests
RefusedOwnsLock == /\ spc = "lock" /\ tries > 0 => lock = Server
                   /\ spc = "post" => tries = 0
LateIsLast ==
  \A w \in Workers :
    late[w] > 0 => stoped /\ wpc[w] \in {"run", "test", "exited"}
BusyHasJob == \A w \in Workers : wpc[w] = "run" <=> job[w] # None

\* The inductive invariant of the pool.
IInv == /\ TypeOK
        /\ LockOwner
        /\ TokensMatchQueue
        /\ QueueBounded
        /\ LeakOnlyWhenFull
        /\ NoSecondAttempt
        /\ RefusedOwnsLock
        /\ AtMostOneLateJob
        /\ LateIsLast
        /\ BusyHasJob

\* An accepted handler is eventually run, unless a later refusal loses the
\* mutex or the pool is stopped.
QueuedIsRun ==
  \A h \in Handlers :
    (\E i \in DOMAIN queue : queue[i] = h)
      ~> (Leaked \/ stoped \/ \E w \in Workers : job[w] = h)

\* Losing the mutex (once is for good) ends in a pool that runs nothing
\* although its queue is full.
LeakStopsPool == []<>Leaked => <>[](\A w \in Workers : job[w] = None)

\* The pool implements the bounded FIFO queue of module JobQueue.
JQ == INSTANCE JobQueue WITH Capacity <- MaxRequests, pending <- queue, running <- job
JobQueueSpec == JQ!Spec
=============================================================================
