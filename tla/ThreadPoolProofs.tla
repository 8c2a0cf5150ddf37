-------------------------- MODULE ThreadPoolProofs --------------------------
(***************************************************************************)
(* Proofs about ThreadPool, for every number of workers, every queue bound *)
(* and every set of handlers.                                              *)
(***************************************************************************)
EXTENDS ThreadPool, FiniteSetTheorems, TLAPS

-----------------------------------------------------------------------------
(* Facts about the token holders.                                          *)

(* The token holders are finitely many.                                    *)
LEMMA HoldersFinite ==
  /\ IsFiniteSet(TokenHolders)
  /\ Cardinality(TokenHolders) \in Nat
<1>1. TokenHolders \in SUBSET Workers
  BY DEF TokenHolders
<1> QED
  BY <1>1, WorkersAssumption, FS_Subset, FS_CardinalityType

(* A worker that becomes a token holder adds one to their number.          *)
LEMMA HolderGained ==
  ASSUME NEW w, w \notin TokenHolders, TokenHolders' = TokenHolders \cup {w}
  PROVE  Cardinality(TokenHolders)' = Cardinality(TokenHolders) + 1
BY HoldersFinite, FS_AddElement

(* A worker that ceases to be one takes one away, so there was one.        *)
LEMMA HolderLost ==
  ASSUME NEW w, w \in TokenHolders, TokenHolders' = TokenHolders \ {w}
  PROVE  /\ Cardinality(TokenHolders)' = Cardinality(TokenHolders) - 1
         /\ Cardinality(TokenHolders) > 0
<1>1. Cardinality(TokenHolders)' = Cardinality(TokenHolders) - 1
  BY HoldersFinite, FS_RemoveElement
<1>2. Cardinality(TokenHolders \ {w}) \in Nat
  BY HoldersFinite, FS_RemoveElement, FS_CardinalityType
<1> QED
  BY <1>1, <1>2, HoldersFinite

-----------------------------------------------------------------------------
(* Type correctness.                                                       *)

(* Every reachable state is well typed.                                    *)
LEMMA InitTypeOK == Init => TypeOK
<1> SUFFICES ASSUME Init PROVE TypeOK
  OBVIOUS
<1>1. stoped \in BOOLEAN
  BY DEF Init
<1>2. queue \in Seq(Handlers)
  BY DEF Init
<1>3. /\ wpc \in [Workers -> WorkerPlaces]
      /\ job \in [Workers -> Handlers \cup {None}]
      /\ late \in [Workers -> Nat]
  BY SMT DEF Init, WorkerPlaces
<1>4. /\ lock \in Workers \cup {Server, Free}
      /\ sem \in Nat
      /\ spc \in ServerPlaces
      /\ arg \in Handlers \cup {None}
      /\ spc # "idle" => arg \in Handlers
      /\ tries \in Nat
  BY SMT DEF Init, ServerPlaces
<1> QED
  BY <1>1, <1>2, <1>3, <1>4 DEF TypeOK

(* Every step preserves the types.                                         *)
LEMMA NextTypeOK == TypeOK /\ [Next]_vars => TypeOK'
<1> SUFFICES ASSUME TypeOK, [Next]_vars PROVE TypeOK'
  OBVIOUS
<1> USE DEF TypeOK, WorkerPlaces, ServerPlaces, serverVars, workerVars
<1>1. ASSUME NEW w \in Workers, TestStop(w) PROVE TypeOK'
  BY <1>1 DEF TestStop, GoesOn
<1>2. ASSUME NEW w \in Workers, SemWait(w) PROVE TypeOK'
  BY <1>2 DEF SemWait, TakeToken
<1>3. ASSUME NEW w \in Workers, WorkerLock(w) PROVE TypeOK'
  BY <1>3 DEF WorkerLock, Acquire
<1>4. ASSUME NEW w \in Workers, Pop(w) PROVE TypeOK'
  <2>1. CASE queue = <<>>
    BY <1>4, <2>1 DEF Pop, Release, PopFront
  <2>2. CASE queue # <<>>
    <3>1. Head(queue) \in Handlers /\ Tail(queue) \in Seq(Handlers)
      BY <2>2
    <3>2. late' \in [Workers -> Nat]
      BY <1>4, <2>2 DEF Pop, Release, PopFront
    <3> QED
      BY <1>4, <2>2, <3>1, <3>2 DEF Pop, Release, PopFront
  <2> QED
    BY <2>1, <2>2
<1>5. ASSUME NEW w \in Workers, Process(w) PROVE TypeOK'
  BY <1>5 DEF Process
<1>6. ASSUME NEW h \in Handlers, Event(h) PROVE TypeOK'
  BY <1>6 DEF Event
<1>7. CASE SubmitLock
  BY <1>7 DEF SubmitLock, Acquire
<1>8. CASE SubmitRefuse
  BY <1>8 DEF SubmitRefuse, Full
<1>9. CASE SubmitPush
  BY <1>9 DEF SubmitPush, Release, Full
<1>10. CASE SubmitPost
  BY <1>10 DEF SubmitPost, PostToken
<1>11. CASE Stop
  BY <1>11 DEF Stop
<1>12. CASE UNCHANGED vars
  BY <1>12 DEF vars
<1> QED
  BY <1>1, <1>2, <1>3, <1>4, <1>5, <1>6, <1>7, <1>8, <1>9, <1>10, <1>11, <1>12
  DEF Next, Worker, Submit

-----------------------------------------------------------------------------
(* The inductive invariant.                                                *)

(* Initially every part of the invariant holds.                            *)
LEMMA InitIInv == Init => IInv
<1> SUFFICES ASSUME Init PROVE IInv
  OBVIOUS
<1>1. TokensMatchQueue
  <2>1. TokenHolders = {}
    BY DEF Init, TokenHolders
  <2>2. Cardinality(TokenHolders) = 0
    BY <2>1, FS_EmptySet
  <2>3. sem = 0 /\ Unposted = 0 /\ Len(queue) = 0
    BY DEF Init, Unposted
  <2> QED
    BY <2>2, <2>3 DEF TokensMatchQueue
<1>2. LockOwner
  BY WorkersAssumption, FreeAssumption DEF Init, LockOwner
<1>3. QueueBounded /\ LeakOnlyWhenFull
  BY FreeAssumption, BoundsAssumption
  DEF Init, QueueBounded, LeakOnlyWhenFull, Leaked
<1>4. NoSecondAttempt /\ RefusedOwnsLock
  BY DEF Init, NoSecondAttempt, RefusedOwnsLock
<1>5. AtMostOneLateJob /\ LateIsLast
  BY DEF Init, AtMostOneLateJob, LateIsLast
<1>6. BusyHasJob
  BY DEF Init, BusyHasJob
<1> QED
  BY <1>1, <1>2, <1>3, <1>4, <1>5, <1>6, InitTypeOK DEF IInv

(* Mutual exclusion: the owner of the mutex is in its critical section.    *)
LEMMA NextLockOwner == IInv /\ [Next]_vars => LockOwner'
<1> SUFFICES ASSUME IInv, [Next]_vars PROVE LockOwner'
  OBVIOUS
<1> USE WorkersAssumption, FreeAssumption
    DEF IInv, TypeOK, LockOwner, WorkerPlaces, ServerPlaces, serverVars, workerVars
<1>1. ASSUME NEW w \in Workers, TestStop(w) PROVE LockOwner'
  BY <1>1 DEF TestStop, GoesOn
<1>2. ASSUME NEW w \in Workers, SemWait(w) PROVE LockOwner'
  BY <1>2 DEF SemWait, TakeToken
<1>3. ASSUME NEW w \in Workers, WorkerLock(w) PROVE LockOwner'
  BY <1>3 DEF WorkerLock, Acquire
<1>4. ASSUME NEW w \in Workers, Pop(w) PROVE LockOwner'
  <2>1. CASE queue = <<>>
    BY <1>4, <2>1 DEF Pop, Release, PopFront
  <2>2. CASE queue # <<>>
    BY <1>4, <2>2 DEF Pop, Release, PopFront
  <2> QED
    BY <2>1, <2>2
<1>5. ASSUME NEW w \in Workers, Process(w) PROVE LockOwner'
  BY <1>5 DEF Process
<1>6. ASSUME NEW h \in Handlers, Event(h) PROVE LockOwner'
  BY <1>6 DEF Event
<1>7. CASE Submit
  BY <1>7 DEF Submit, SubmitLock, Acquire, SubmitRefuse, Full, SubmitPush, Release, SubmitPost, PostToken
<1>8. CASE Stop
  BY <1>8 DEF Stop
<1>9. CASE UNCHANGED vars
  BY <1>9 DEF vars
<1> QED
  BY <1>1, <1>2, <1>3, <1>4, <1>5, <1>6, <1>7, <1>8, <1>9 DEF Next, Worker

(* Tokens and queued handlers are added and taken together.                *)
LEMMA NextTokens == IInv /\ [Next]_vars => TokensMatchQueue'
<1> SUFFICES ASSUME IInv, [Next]_vars PROVE TokensMatchQueue'
  OBVIOUS
<1> USE HoldersFinite DEF IInv, TypeOK, TokensMatchQueue, Unposted, serverVars, workerVars
<1>1. ASSUME NEW w \in Workers, TestStop(w) PROVE TokensMatchQueue'
  <2>1. TokenHolders' = TokenHolders
    BY <1>1 DEF TestStop, GoesOn, TokenHolders
  <2> QED
    BY <1>1, <2>1 DEF TestStop, GoesOn
<1>2. ASSUME NEW w \in Workers, SemWait(w) PROVE TokensMatchQueue'
  <2>1. w \notin TokenHolders /\ TokenHolders' = TokenHolders \cup {w}
    BY <1>2 DEF SemWait, TakeToken, TokenHolders
  <2>2. Cardinality(TokenHolders)' = Cardinality(TokenHolders) + 1
    BY <2>1, HolderGained
  <2> QED
    BY <1>2, <2>2 DEF SemWait, TakeToken
<1>3. ASSUME NEW w \in Workers, WorkerLock(w) PROVE TokensMatchQueue'
  <2>1. TokenHolders' = TokenHolders
    BY <1>3 DEF WorkerLock, Acquire, TokenHolders
  <2> QED
    BY <1>3, <2>1 DEF WorkerLock, Acquire
<1>4. ASSUME NEW w \in Workers, Pop(w) PROVE TokensMatchQueue'
  <2>1. w \in TokenHolders
    BY <1>4 DEF Pop, Release, PopFront, TokenHolders
  <2>2. TokenHolders' = TokenHolders \ {w}
    BY <1>4 DEF Pop, Release, PopFront, TokenHolders
  <2>3. /\ Cardinality(TokenHolders)' = Cardinality(TokenHolders) - 1
        /\ Cardinality(TokenHolders) > 0
    BY <2>1, <2>2, HolderLost
  <2>4. queue # <<>>
    BY <2>3
  <2>5. Len(queue') = Len(queue) - 1
    BY <1>4, <2>4 DEF Pop, Release, PopFront
  <2>6. sem' = sem /\ Unposted' = Unposted
    BY <1>4 DEF Pop, Release, PopFront
  <2>7. sem + Cardinality(TokenHolders) + Unposted = Len(queue)
    OBVIOUS
  <2>8. Unposted \in Nat /\ Len(queue) \in Nat /\ sem \in Nat
    OBVIOUS
  <2> HIDE DEF IInv, TypeOK, Unposted
  <2> QED
    BY <2>3, <2>5, <2>6, <2>7, <2>8
<1>5. ASSUME NEW w \in Workers, Process(w) PROVE TokensMatchQueue'
  <2>1. TokenHolders' = TokenHolders
    BY <1>5 DEF Process, TokenHolders
  <2> QED
    BY <1>5, <2>1 DEF Process
<1>6. CASE (\E h \in Handlers : Event(h)) \/ Submit \/ Stop \/ UNCHANGED vars
  <2>1. TokenHolders' = TokenHolders
    BY <1>6 DEF Event, Submit, SubmitLock, Acquire, SubmitRefuse, Full, SubmitPush, Release,
                SubmitPost, PostToken, Stop,
       vars, TokenHolders
  <2>2. CASE SubmitPush
    <3>1. spc = "check" /\ spc' = "post" /\ sem' = sem
      BY <2>2 DEF SubmitPush, Release, Full
    <3>2. Len(queue') = Len(queue) + 1
      BY <2>2 DEF SubmitPush, Release, Full
    <3> QED
      BY <2>1, <3>1, <3>2
  <2>3. CASE SubmitPost
    BY <2>1, <2>3 DEF SubmitPost, PostToken
  <2>4. CASE SubmitLock \/ SubmitRefuse \/ Stop \/ UNCHANGED vars
    <3>1. \/ sem' = sem /\ queue' = queue /\ spc # "post" /\ spc' # "post"
          \/ UNCHANGED <<sem, queue, spc>>
      BY <2>4 DEF SubmitLock, Acquire, SubmitRefuse, Full, Stop, vars
    <3> QED
      BY <2>1, <3>1
  <2>5. CASE \E h \in Handlers : Event(h)
    BY <2>1, <2>5 DEF Event
  <2> QED
    BY <1>6, <2>2, <2>3, <2>4, <2>5 DEF Submit
<1> QED
  BY <1>1, <1>2, <1>3, <1>4, <1>5, <1>6 DEF Next, Worker

(* A refused submission owns the mutex and met a full queue; while it does *)
(* nobody touches the queue.                                               *)
LeakParts == QueueBounded /\ LeakOnlyWhenFull /\ NoSecondAttempt /\ RefusedOwnsLock

LEMMA NextLeakParts == IInv /\ [Next]_vars => LeakParts'
<1> SUFFICES ASSUME IInv, [Next]_vars PROVE LeakParts'
  OBVIOUS
<1> USE WorkersAssumption, FreeAssumption, BoundsAssumption
    DEF IInv, TypeOK, LeakParts, QueueBounded, LeakOnlyWhenFull, Leaked,
        NoSecondAttempt, RefusedOwnsLock, LockOwner, serverVars, workerVars
<1>1. ASSUME NEW w \in Workers, TestStop(w) \/ SemWait(w) \/ Process(w)
      PROVE  LeakParts'
  BY <1>1 DEF TestStop, GoesOn, SemWait, TakeToken, Process
<1>2. ASSUME NEW w \in Workers, WorkerLock(w) PROVE LeakParts'
  BY <1>2 DEF WorkerLock, Acquire
<1>3. ASSUME NEW w \in Workers, Pop(w) PROVE LeakParts'
  <2>1. lock = w /\ lock' = Free /\ Len(queue') <= Len(queue)
    BY <1>3 DEF Pop, Release, PopFront
  <2>2. UNCHANGED <<spc, tries>>
    BY <1>3 DEF Pop, Release, PopFront
  <2>3. spc # "lock" \/ tries = 0
    BY <2>1
  <2> QED
    BY <2>1, <2>2, <2>3
<1>4. ASSUME NEW h \in Handlers, Event(h) PROVE LeakParts'
  BY <1>4 DEF Event
<1>5. CASE SubmitLock
  BY <1>5 DEF SubmitLock, Acquire
<1>6. CASE SubmitRefuse
  BY <1>6 DEF SubmitRefuse, Full
<1>7. CASE SubmitPush
  BY <1>7 DEF SubmitPush, Release, Full
<1>8. CASE SubmitPost
  BY <1>8 DEF SubmitPost, PostToken
<1>9. CASE Stop
  BY <1>9 DEF Stop
<1>10. CASE UNCHANGED vars
  BY <1>10 DEF vars
<1> QED
  BY <1>1, <1>2, <1>3, <1>4, <1>5, <1>6, <1>7, <1>8, <1>9, <1>10
  DEF Next, Worker, Submit

(* A worker that took a job after stop() finishes it and leaves.           *)
LEMMA NextLate == IInv /\ [Next]_vars => (AtMostOneLateJob /\ LateIsLast)'
<1> SUFFICES ASSUME IInv, [Next]_vars PROVE (AtMostOneLateJob /\ LateIsLast)'
  OBVIOUS
<1> USE DEF IInv, TypeOK, AtMostOneLateJob, LateIsLast, WorkerPlaces,
            serverVars, workerVars
<1>1. ASSUME NEW w \in Workers, TestStop(w)
      PROVE  (AtMostOneLateJob /\ LateIsLast)'
  BY <1>1 DEF TestStop, GoesOn
<1>2. ASSUME NEW w \in Workers, SemWait(w) \/ WorkerLock(w) \/ Process(w)
      PROVE  (AtMostOneLateJob /\ LateIsLast)'
  BY <1>2 DEF SemWait, TakeToken, WorkerLock, Acquire, Process
<1>3. ASSUME NEW w \in Workers, Pop(w)
      PROVE  (AtMostOneLateJob /\ LateIsLast)'
  <2>1. late[w] = 0
    BY <1>3 DEF Pop, Release, PopFront
  <2>2. stoped' = stoped
    BY <1>3 DEF Pop, Release, PopFront
  <2>3. \A v \in Workers : v # w => late'[v] = late[v] /\ wpc'[v] = wpc[v]
    BY <1>3 DEF Pop, Release, PopFront
  <2>4. late'[w] <= 1 /\ (late'[w] > 0 => stoped /\ wpc'[w] = "run")
    <3>1. CASE queue = <<>>
      BY <1>3, <2>1, <3>1 DEF Pop, Release, PopFront
    <3>2. CASE queue # <<>> /\ stoped
      BY <1>3, <2>1, <3>2 DEF Pop, Release, PopFront
    <3>3. CASE queue # <<>> /\ ~stoped
      BY <1>3, <2>1, <3>3 DEF Pop, Release, PopFront
    <3> QED
      BY <3>1, <3>2, <3>3
  <2> QED
    BY <2>2, <2>3, <2>4
<1>4. CASE \/ \E h \in Handlers : Event(h)
           \/ Submit
           \/ UNCHANGED vars
  BY <1>4 DEF Event, Submit, SubmitLock, Acquire, SubmitRefuse, Full, SubmitPush, Release,
              SubmitPost, PostToken, vars
<1>5. CASE Stop
  BY <1>5 DEF Stop
<1> QED
  BY <1>1, <1>2, <1>3, <1>4, <1>5 DEF Next, Worker

(* A worker holds a job exactly while it runs it.                          *)
LEMMA NextBusy == IInv /\ [Next]_vars => BusyHasJob'
<1> SUFFICES ASSUME IInv, [Next]_vars PROVE BusyHasJob'
  OBVIOUS
<1> USE NoneAssumption DEF IInv, TypeOK, BusyHasJob, serverVars, workerVars
<1>1. ASSUME NEW w \in Workers, TestStop(w) \/ SemWait(w) \/ WorkerLock(w)
      PROVE  BusyHasJob'
  BY <1>1 DEF TestStop, GoesOn, SemWait, TakeToken, WorkerLock, Acquire
<1>2. ASSUME NEW w \in Workers, Pop(w) PROVE BusyHasJob'
  <2>1. CASE queue = <<>>
    BY <1>2, <2>1 DEF Pop, Release, PopFront
  <2>2. CASE queue # <<>>
    <3>1. Head(queue) \in Handlers
      BY <2>2
    <3> QED
      BY <1>2, <2>2, <3>1 DEF Pop, Release, PopFront
  <2> QED
    BY <2>1, <2>2
<1>3. ASSUME NEW w \in Workers, Process(w) PROVE BusyHasJob'
  BY <1>3 DEF Process
<1>4. CASE \/ \E h \in Handlers : Event(h)
           \/ Submit
           \/ Stop
           \/ UNCHANGED vars
  BY <1>4 DEF Event, Submit, SubmitLock, Acquire, SubmitRefuse, Full, SubmitPush, Release,
              SubmitPost, PostToken, Stop, vars
<1> QED
  BY <1>1, <1>2, <1>3, <1>4 DEF Next, Worker

(* The inductive invariant holds in every reachable state.                 *)
THEOREM PoolInvariant == Spec => []IInv
<1>1. IInv /\ [Next]_vars => IInv'
  BY NextTypeOK, NextLockOwner, NextTokens, NextLeakParts, NextLate, NextBusy
  DEF IInv, LeakParts
<1> QED
  BY InitIInv, <1>1, PTL DEF Spec

-----------------------------------------------------------------------------
(* The properties the runs check.                                          *)

(* Every queued handler has exactly one token, in the semaphore, with a    *)
(* woken worker, or about to be posted (threadpool.cc:39-47, 57-59).       *)
THEOREM Tokens == Spec => []TokensMatchQueue
BY PoolInvariant, PTL DEF IInv

(* A worker never wakes up to an empty queue: threadpool.cc:41-44 is dead  *)
(* code, whatever the number of workers.                                   *)
THEOREM NoWastedWakeup == Spec => []WokenFindsWork
<1>1. IInv => WokenFindsWork
  <2> SUFFICES ASSUME IInv, NEW w \in Workers, wpc[w] = "critical"
               PROVE  queue # <<>>
    BY DEF WokenFindsWork
  <2>1. w \in TokenHolders
    BY DEF TokenHolders
  <2>2. Cardinality(TokenHolders) # 0
    BY <2>1, HoldersFinite, FS_EmptySet
  <2> QED
    BY <2>2, HoldersFinite DEF IInv, TypeOK, TokensMatchQueue, Unposted
<1> QED
  BY <1>1, PoolInvariant, PTL

(* The mutex is lost only to a submission that met a full queue.           *)
THEOREM LeakCause == Spec => []LeakOnlyWhenFull
BY PoolInvariant, PTL DEF IInv

(* The retry loop of the event loop never makes a second attempt.          *)
THEOREM OneAttempt == Spec => []NoSecondAttempt
BY PoolInvariant, PTL DEF IInv

(* A worker starts at most one handler after stop().                       *)
THEOREM LateJobs == Spec => []AtMostOneLateJob
BY PoolInvariant, PTL DEF IInv

(* A refused submission freezes the queue for good (threadpool.cc:54-56).  *)
THEOREM LeakFreezesPool == Spec => LeakIsPermanent
<1>1. IInv /\ [Next]_vars => [Leaked => Leaked' /\ UNCHANGED queue]_vars
  <2> SUFFICES ASSUME IInv, [Next]_vars, Leaked
               PROVE  Leaked' /\ UNCHANGED queue
    OBVIOUS
  <2> USE WorkersAssumption, FreeAssumption
      DEF IInv, TypeOK, LockOwner, Leaked, serverVars, workerVars
  <2>1. ASSUME NEW w \in Workers, Worker(w) PROVE Leaked' /\ UNCHANGED queue
    BY <2>1 DEF Worker, TestStop, SemWait, WorkerLock, Acquire, Pop, Release, PopFront, Process
  <2>2. CASE \E h \in Handlers : Event(h)
    BY <2>2 DEF Event
  <2>3. CASE Submit
    BY <2>3 DEF Submit, SubmitLock, Acquire, SubmitRefuse, Full, SubmitPush, Release, SubmitPost, PostToken
  <2>4. CASE Stop \/ UNCHANGED vars
    BY <2>4 DEF Stop, vars
  <2> QED
    BY <2>1, <2>2, <2>3, <2>4 DEF Next
<1> QED
  BY <1>1, PoolInvariant, PTL DEF LeakIsPermanent, Spec

-----------------------------------------------------------------------------
(* Refinement.                                                             *)

(* Every step of the pool is a step of the abstract queue or leaves it     *)
(* alone.                                                                  *)
LEMMA NextJobQueue == IInv /\ [Next]_vars => [JQ!Next]_(JQ!vars)
<1> SUFFICES ASSUME IInv, [Next]_vars PROVE [JQ!Next]_(JQ!vars)
  OBVIOUS
<1> USE DEF IInv, TypeOK, serverVars, workerVars, JQ!vars
<1>1. ASSUME NEW w \in Workers, TestStop(w) \/ SemWait(w) \/ WorkerLock(w)
      PROVE  UNCHANGED JQ!vars
  BY <1>1 DEF TestStop, GoesOn, SemWait, TakeToken, WorkerLock, Acquire
<1>2. ASSUME NEW w \in Workers, Pop(w)
      PROVE  JQ!Start(w) \/ UNCHANGED JQ!vars
  <2>1. job[w] = None
    BY <1>2 DEF Pop, Release, PopFront, BusyHasJob
  <2> QED
    BY <1>2, <2>1 DEF Pop, Release, PopFront, JQ!Start
<1>3. ASSUME NEW w \in Workers, Process(w) PROVE JQ!Finish(w)
  BY <1>3 DEF Process, JQ!Finish, BusyHasJob
<1>4. CASE SubmitPush
  <2>1. arg \in Handlers
    BY <1>4 DEF SubmitPush
  <2>2. Len(queue) < MaxRequests
    BY <1>4, BoundsAssumption DEF SubmitPush, Full
  <2>3. JQ!Accept(arg)
    BY <1>4, <2>2 DEF SubmitPush, JQ!Accept
  <2> QED
    BY <2>1, <2>3 DEF JQ!Next
<1>5. CASE \/ \E h \in Handlers : Event(h)
           \/ SubmitLock \/ SubmitRefuse \/ SubmitPost
           \/ Stop
           \/ UNCHANGED vars
  BY <1>5 DEF Event, SubmitLock, Acquire, SubmitRefuse, Full, SubmitPost, PostToken, Stop, vars
<1> QED
  BY <1>1, <1>2, <1>3, <1>4, <1>5 DEF Next, Worker, Submit, JQ!Next

(* The pool implements the bounded first-in first-out queue the event loop *)
(* relies on: accepted handlers are started once, in the order of their    *)
(* acceptance, one at a time per worker.                                   *)
THEOREM PoolImplementsJobQueue == Spec => JobQueueSpec
<1>1. Init => JQ!Init
  BY DEF Init, JQ!Init
<1> QED
  BY <1>1, NextJobQueue, PoolInvariant, PTL DEF Spec, JobQueueSpec, JQ!Spec

=============================================================================
