------------------------------ MODULE JobQueue ------------------------------
(***************************************************************************)
(* What the thread pool promises to the event loop: a bounded first-in     *)
(* first-out queue.  A handler whose submission was accepted is started by *)
(* exactly one worker, in the order of acceptance, and a worker runs one   *)
(* handler at a time.  No mutex, semaphore or retry appears here.          *)
(***************************************************************************)
EXTENDS Naturals, Sequences

CONSTANTS Workers,    \* the worker threads
          Handlers,   \* what is submitted: the HttpHandler of a connection
          Capacity,   \* the most handlers that may wait at a time
          None        \* a worker that runs nothing

VARIABLES pending,    \* accepted and not yet started, oldest first
          running     \* the handler each worker runs, or None

vars == <<pending, running>>

Init == /\ pending = <<>>
        /\ running = [w \in Workers |-> None]

Accept(h) == /\ Len(pending) < Capacity
             /\ pending' = Append(pending, h)
             /\ UNCHANGED running

Start(w) == /\ running[w] = None
            /\ pending # <<>>
            /\ running' = [running EXCEPT ![w] = Head(pending)]
            /\ pending' = Tail(pending)

Finish(w) == /\ running[w] # None
             /\ running' = [running EXCEPT ![w] = None]
             /\ UNCHANGED pending

Next == \/ \E h \in Handlers : Accept(h)
        \/ \E w \in Workers : Start(w) \/ Finish(w)

Spec == Init /\ [][Next]_vars
=============================================================================
