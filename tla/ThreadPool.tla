----------------------------- MODULE ThreadPool -----------------------------
(***************************************************************************)
(* src/server/thread_pool.c: a mutex, one condition variable, a ring       *)
(* buffer of client descriptors, WORKER_COUNT worker threads, and the      *)
(* thread that owns the pool (the accept thread, "main" below), which is   *)
(* the only caller of init, submit, shutdown and destroy.                  *)
(*                                                                         *)
(* Main's critical sections (submit, shutdown) are one step each, enabled  *)
(* when the mutex is free: nothing outside the pool can see them half      *)
(* done.  A worker's critical section is split at the place where it       *)
(* matters, between testing the wait condition and going to sleep.         *)
(***************************************************************************)
EXTENDS Naturals, FiniteSets

CONSTANTS WORKER_COUNT,    \* pool->worker_count
          QUEUE_CAPACITY,  \* pool->queue_capacity
          Fds,             \* descriptors accept() may return, reused once closed
          NoFd,            \* no descriptor
          NoThread,        \* the mutex is free
          CreateMayFail    \* whether pthread_create may fail

ASSUME WorkerCountAssumption == WORKER_COUNT \in Nat \ {0}
ASSUME CapacityAssumption == QUEUE_CAPACITY \in Nat \ {0}
ASSUME NoFdAssumption == NoFd \notin Fds
ASSUME CreateMayFailAssumption == CreateMayFail \in BOOLEAN

Worker == 0 .. WORKER_COUNT - 1
Slot   == 0 .. QUEUE_CAPACITY - 1

ASSUME NoThreadAssumption == NoThread \notin Worker

VARIABLES
  jobs,            \* pool->jobs, the ring buffer
  head, tail,      \* next slot to take from, next slot to put into
  size,            \* occupied slots
  stop_requested,
  mutex,           \* the worker that holds pool->mutex, or NoThread
  wpc,             \* where each worker is
  wfd,             \* wfd[w]: client_fd of worker w
  call,            \* where main is in the pool's interface
  index,           \* main's loop counter over pool->workers
  mfd,             \* the descriptor main got from accept and still owns
  open             \* the client descriptors that are open in the process

queueVars == <<jobs, head, tail, size>>
vars == <<jobs, head, tail, size, stop_requested, mutex, wpc, wfd, call,
          index, mfd, open>>

(***************************************************************************)
(* A worker is "unborn", then runs the loop of thread_pool_worker_main:    *)
(* "lock" (wants the mutex), "test" (has it), "wait" (has it and found     *)
(* nothing to do), "asleep" (in pthread_cond_wait), "handle", "close"; and *)
(* in the end "exited".                                                    *)
(***************************************************************************)
WorkerPC == {"unborn", "lock", "test", "wait", "asleep", "handle", "close",
             "exited"}

(***************************************************************************)
(* Main is before init ("none"), in init ("create", and on its failure     *)
(* path "init_broadcast", "init_join", "init_failed"), between calls       *)
(* ("ready"; "holding" with an accepted descriptor; "refused" with one the *)
(* pool turned down), in destroy ("join"), or done ("destroyed").          *)
(***************************************************************************)
CallPC == {"none", "create", "init_broadcast", "init_join", "init_failed",
           "ready", "holding", "refused", "join", "destroyed"}

Init == /\ jobs = [s \in Slot |-> NoFd]
        /\ head = 0 /\ tail = 0 /\ size = 0
        /\ stop_requested = FALSE
        /\ mutex = NoThread
        /\ wpc = [w \in Worker |-> "unborn"]
        /\ wfd = [w \in Worker |-> NoFd]
        /\ call = "none"
        /\ index = 0
        /\ mfd = NoFd
        /\ open = {}

\* Mutants: the index runs off the end, or wraps one slot late.
NextSlotUnwrapped(s) == s + 1
NextSlotLate(s) == IF s + 1 > QUEUE_CAPACITY THEN 0 ELSE s + 1

NextSlot(s) == (s + 1) % QUEUE_CAPACITY

(***************************************************************************)
(* The condition variable.  pthread_cond_signal wakes one sleeper if there *)
(* is one, pthread_cond_broadcast wakes all; a woken worker has to take    *)
(* the mutex again, and then re-tests the condition as one that just       *)
(* arrived does, so both are "lock".                                       *)
(***************************************************************************)
Asleep == {w \in Worker : wpc[w] = "asleep"}

WakeOne == \/ /\ Asleep = {}
              /\ UNCHANGED wpc
           \/ \E w \in Asleep : wpc' = [wpc EXCEPT ![w] = "lock"]

\* Mutants: signal only when the queue was empty, or not at all.
SignalFirstOnly == IF size = 0 THEN WakeOne ELSE UNCHANGED wpc
SignalForgotten == UNCHANGED wpc
CondSignal == WakeOne

\* Mutant: wake one sleeper instead of all.
BroadcastOne == WakeOne
CondBroadcast == wpc' = [w \in Worker |->
                           IF wpc[w] = "asleep" THEN "lock" ELSE wpc[w]]

-----------------------------------------------------------------------------
(* The worker thread.                                                      *)

Lock(w) == /\ wpc[w] = "lock"
           /\ mutex = NoThread
           /\ mutex' = w
           /\ wpc' = [wpc EXCEPT ![w] = "test"]
           /\ UNCHANGED <<queueVars, stop_requested, wfd, call, index, mfd,
                          open>>

\* The two conditions of the loop: nothing to do yet, nothing to do any more.
NothingToDo == ~stop_requested /\ size = 0

\* Mutant: leave at once when told to stop, whatever is queued.
DoneOnStop == stop_requested
AllDone == stop_requested /\ size = 0

\* About to call pthread_cond_wait, still holding the mutex.
MustWait(w) == /\ wpc[w] = "test"
               /\ NothingToDo
               /\ wpc' = [wpc EXCEPT ![w] = "wait"]
               /\ UNCHANGED <<queueVars, stop_requested, mutex, wfd, call,
                              index, mfd, open>>

\* pthread_cond_wait releases the mutex and goes to sleep atomically.
CondWait(w) == /\ wpc[w] = "wait"
               /\ mutex' = NoThread
               /\ wpc' = [wpc EXCEPT ![w] = "asleep"]
               /\ UNCHANGED <<queueVars, stop_requested, wfd, call, index,
                              mfd, open>>

\* POSIX lets pthread_cond_wait return without a signal.
SpuriousWake(w) == /\ wpc[w] = "asleep"
                   /\ wpc' = [wpc EXCEPT ![w] = "lock"]
                   /\ UNCHANGED <<queueVars, stop_requested, mutex, wfd, call,
                                  index, mfd, open>>

Exit(w) == /\ wpc[w] = "test"
           /\ AllDone
           /\ mutex' = NoThread
           /\ wpc' = [wpc EXCEPT ![w] = "exited"]
           /\ UNCHANGED <<queueVars, stop_requested, wfd, call, index, mfd,
                          open>>

Dequeue(w) == /\ wpc[w] = "test"
              /\ size > 0
              /\ wfd' = [wfd EXCEPT ![w] = jobs[head]]
              /\ head' = NextSlot(head)
              /\ size' = size - 1
              /\ mutex' = NoThread
              /\ wpc' = [wpc EXCEPT ![w] = "handle"]
              /\ UNCHANGED <<jobs, tail, stop_requested, call, index, mfd,
                             open>>

\* pool->handler(context, client_fd) returns.
Handle(w) == /\ wpc[w] = "handle"
             /\ wpc' = [wpc EXCEPT ![w] = "close"]
             /\ UNCHANGED <<queueVars, stop_requested, mutex, wfd, call,
                            index, mfd, open>>

Close(w) == /\ wpc[w] = "close"
            /\ open' = open \ {wfd[w]}
            /\ wfd' = [wfd EXCEPT ![w] = NoFd]
            /\ wpc' = [wpc EXCEPT ![w] = "lock"]
            /\ UNCHANGED <<queueVars, stop_requested, mutex, call, index, mfd>>

-----------------------------------------------------------------------------
(* thread_pool_init.                                                       *)

\* A failed calloc, pthread_mutex_init or pthread_cond_init: return 0
\* before any worker exists.
InitFails == /\ call = "none"
             /\ call' = "init_failed"
             /\ UNCHANGED <<queueVars, stop_requested, mutex, wpc, wfd, index,
                            mfd, open>>

InitAllocates == /\ call = "none"
                 /\ call' = "create"
                 /\ UNCHANGED <<queueVars, stop_requested, mutex, wpc, wfd,
                                index, mfd, open>>

\* pthread_create succeeds; after the last worker init returns 1.
CreateWorker ==
  /\ call = "create"
  /\ wpc' = [wpc EXCEPT ![index] = "lock"]
  /\ index' = index + 1
  /\ call' = IF index + 1 = WORKER_COUNT THEN "ready" ELSE "create"
  /\ UNCHANGED <<queueVars, stop_requested, mutex, wfd, mfd, open>>

\* pthread_create fails.  The store to stop_requested is made WITHOUT the
\* mutex: it is enabled whoever holds it.
CreateFails == /\ CreateMayFail
               /\ call = "create"
               /\ stop_requested' = TRUE
               /\ call' = "init_broadcast"
               /\ UNCHANGED <<queueVars, mutex, wpc, wfd, index, mfd, open>>

InitBroadcast == /\ call = "init_broadcast"
                 /\ CondBroadcast
                 /\ call' = "init_join"
                 /\ UNCHANGED <<queueVars, stop_requested, mutex, wfd, index,
                                mfd, open>>

\* while (index > 0) { index--; pthread_join(workers[index]) }
InitJoin == /\ call = "init_join"
            /\ index > 0
            /\ wpc[index - 1] = "exited"
            /\ index' = index - 1
            /\ UNCHANGED <<queueVars, stop_requested, mutex, wpc, wfd, call,
                           mfd, open>>

InitReturnsZero == /\ call = "init_join"
                   /\ index = 0
                   /\ call' = "init_failed"
                   /\ UNCHANGED <<queueVars, stop_requested, mutex, wpc, wfd,
                                  index, mfd, open>>

-----------------------------------------------------------------------------
(* The caller's side of a connection, and thread_pool_submit.              *)

\* accept() returned fd, which main now owns.
Accept(fd) == /\ call = "ready"
              /\ fd \notin open
              /\ open' = open \cup {fd}
              /\ mfd' = fd
              /\ call' = "holding"
              /\ UNCHANGED <<queueVars, stop_requested, mutex, wpc, wfd, index>>

\* Mutants: the full queue is not refused, the stopped pool is not refused.
CanSubmitWhenFull == ~stop_requested
CanSubmitWhenStopped == size < QUEUE_CAPACITY
CanSubmit == ~stop_requested /\ size < QUEUE_CAPACITY

SubmitAccepted == /\ call = "holding"
                  /\ mutex = NoThread
                  /\ CanSubmit
                  /\ jobs' = [jobs EXCEPT ![tail] = mfd]
                  /\ tail' = NextSlot(tail)
                  /\ size' = size + 1
                  /\ CondSignal
                  /\ mfd' = NoFd
                  /\ call' = "ready"
                  /\ UNCHANGED <<head, stop_requested, mutex, wfd, index, open>>

SubmitRefused == /\ call = "holding"
                 /\ mutex = NoThread
                 /\ ~CanSubmit
                 /\ call' = "refused"
                 /\ UNCHANGED <<queueVars, stop_requested, mutex, wpc, wfd,
                                index, mfd, open>>

\* Main closes a descriptor it could not prepare, or that was refused.
CallerClose == /\ call \in {"holding", "refused"}
               /\ open' = open \ {mfd}
               /\ mfd' = NoFd
               /\ call' = "ready"
               /\ UNCHANGED <<queueVars, stop_requested, mutex, wpc, wfd, index>>

-----------------------------------------------------------------------------
(* thread_pool_shutdown and thread_pool_destroy.                           *)

Shutdown == /\ call = "ready"
            /\ mutex = NoThread
            /\ stop_requested' = TRUE
            /\ CondBroadcast
            /\ UNCHANGED <<queueVars, mutex, wfd, call, index, mfd, open>>

\* destroy begins with a shutdown of its own.
Destroy == /\ call = "ready"
           /\ mutex = NoThread
           /\ stop_requested' = TRUE
           /\ CondBroadcast
           /\ index' = 0
           /\ call' = "join"
           /\ UNCHANGED <<queueVars, mutex, wfd, mfd, open>>

JoinWorker == /\ call = "join"
              /\ index < WORKER_COUNT
              /\ wpc[index] = "exited"
              /\ index' = index + 1
              /\ UNCHANGED <<queueVars, stop_requested, mutex, wpc, wfd, call,
                             mfd, open>>

\* The arrays are freed and every field is reset.
DestroyReturns == /\ call = "join"
                  /\ index = WORKER_COUNT
                  /\ call' = "destroyed"
                  /\ jobs' = [s \in Slot |-> NoFd]
                  /\ head' = 0 /\ tail' = 0 /\ size' = 0
                  /\ stop_requested' = FALSE
                  /\ UNCHANGED <<mutex, wpc, wfd, index, mfd, open>>

-----------------------------------------------------------------------------
\* What a worker does when it is scheduled.
WorkerStep(w) == \/ Lock(w) \/ MustWait(w) \/ CondWait(w) \/ Exit(w)
                 \/ Dequeue(w) \/ Handle(w) \/ Close(w)

\* What main does inside a call, or with a descriptor in its hands.
MainStep == \/ CreateWorker \/ InitBroadcast \/ InitJoin \/ InitReturnsZero
            \/ SubmitAccepted \/ SubmitRefused \/ CallerClose
            \/ JoinWorker \/ DestroyReturns

\* What main may choose to do, and what may befall it.
MainCall == \/ InitAllocates \/ InitFails \/ CreateFails
            \/ \E fd \in Fds : Accept(fd)
            \/ Shutdown \/ Destroy

\* Both ends of the pool's life.
Terminated == /\ call \in {"init_failed", "destroyed"}
              /\ UNCHANGED vars

Next == \/ \E w \in Worker : WorkerStep(w) \/ SpuriousWake(w)
        \/ MainStep
        \/ MainCall
        \/ Terminated

Spec == Init /\ [][Next]_vars

(***************************************************************************)
(* Threads keep running: a worker, or main inside a call, that can take a  *)
(* step eventually takes one.  Nothing is assumed of accept, of when main  *)
(* calls shutdown or destroy, or of spurious wake-ups.  WF_vars(Handle)    *)
(* says that the handler returns, which the socket time-outs of server.c   *)
(* are there to ensure.                                                    *)
(***************************************************************************)
Fairness == /\ \A w \in Worker : WF_vars(WorkerStep(w))
            /\ WF_vars(MainStep)

FairSpec == Spec /\ Fairness

-----------------------------------------------------------------------------
(* Properties.                                                             *)

\* Every variable has a value of its type.
TypeOK == /\ jobs \in [Slot -> Fds \cup {NoFd}]
          /\ head \in Slot /\ tail \in Slot
          /\ size \in 0 .. QUEUE_CAPACITY
          /\ stop_requested \in BOOLEAN
          /\ mutex \in Worker \cup {NoThread}
          /\ wpc \in [Worker -> WorkerPC]
          /\ wfd \in [Worker -> Fds \cup {NoFd}]
          /\ call \in CallPC
          /\ index \in 0 .. WORKER_COUNT
          /\ mfd \in Fds \cup {NoFd}
          /\ open \in SUBSET Fds

\* The slots that hold a queued descriptor: size of them from head, around
\* the end of the array.
Occupied == {s \in Slot : \/ s >= head /\ s < head + size
                          \/ s + QUEUE_CAPACITY < head + size}

\* Of head, tail and size any two determine the third, so that a put at
\* tail never overwrites a queued descriptor and a take at head never
\* returns a stale one (thread_pool.c keeps all three).
RingConsistent == /\ head + size < QUEUE_CAPACITY => tail = head + size
                  /\ head + size >= QUEUE_CAPACITY =>
                       tail = head + size - QUEUE_CAPACITY

\* A descriptor has one owner at a time, a queue slot, a worker or main,
\* and the open descriptors are the owned ones: none is leaked, served
\* twice, closed twice, or touched after the kernel may have reused it.
Serving == {w \in Worker : wpc[w] \in {"handle", "close"}}
MainOwns == call \in {"holding", "refused"}
DescriptorOwnership ==
  /\ open = {jobs[s] : s \in Occupied} \cup {wfd[w] : w \in Serving}
              \cup (IF MainOwns THEN {mfd} ELSE {})
  /\ \A s, t \in Occupied : s # t => jobs[s] # jobs[t]
  /\ \A v, w \in Serving : v # w => wfd[v] # wfd[w]
  /\ \A s \in Occupied, w \in Serving : jobs[s] # wfd[w]
  /\ MainOwns => /\ \A s \in Occupied : jobs[s] # mfd
                 /\ \A w \in Serving : wfd[w] # mfd

\* No wake-up is lost: while some worker sleeps, there are at least as many
\* workers on their way to the queue as there are queued descriptors.
\* submit signals one worker per descriptor; the test of the loop and the
\* sleep are under one mutex.
OnTheWay == {w \in Worker : wpc[w] \in {"lock", "test"}}
NoLostWakeup == Asleep # {} => size <= Cardinality(OnTheWay)

\* Once init has succeeded, nobody sleeps, or is about to, after the pool
\* was told to stop: the joins of destroy wait for workers that are awake.
InitFailing == call \in {"init_broadcast", "init_join", "init_failed"}
NoSleepAfterStop ==
  stop_requested /\ ~InitFailing =>
    \A w \in Worker : wpc[w] \notin {"wait", "asleep"}

\* A worker leaves only a stopped and drained pool, and the arrays are
\* freed only after every worker has left: an accepted connection is
\* never dropped by shutdown.
DrainedBeforeExit ==
  /\ (\E w \in Worker : wpc[w] = "exited") => size = 0
  /\ call = "destroyed" => /\ \A w \in Worker : wpc[w] = "exited"
                           /\ open = {}

\* The pool implements the queue it promises.
queue == [i \in 1 .. size |->
            jobs[(head + i - 1) % QUEUE_CAPACITY]]
JQ == INSTANCE JobQueue WITH
        Capacity <- QUEUE_CAPACITY,
        queue    <- queue,
        held     <- wfd,
        stopped  <- stop_requested \/ call = "destroyed",
        gone     <- {w \in Worker : wpc[w] = "exited"}

ImplementsJobQueue == JQ!Spec

\* It also keeps the progress half of the promise: what is queued is taken
\* and finished, and after shutdown every worker leaves.  The exception is
\* an init that fails, after which some workers do not even exist.
KeepsQueueProgress == (<>InitFailing) \/ JQ!Progress

\* Every open connection is closed in the end, by whoever owns it.
EveryConnectionClosed == \A fd \in Fds : fd \in open ~> fd \notin open

\* destroy returns: no join waits for ever.
DestroyReturnsEventually == call = "join" ~> call = "destroyed"

\* init returns when it fails: its own joins do not wait for ever either.
InitFailureReturns == call = "init_broadcast" ~> call = "init_failed"
=============================================================================
