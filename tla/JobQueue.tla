------------------------------ MODULE JobQueue ------------------------------
(***************************************************************************)
(* What the thread pool of src/server/thread_pool.c promises its caller:   *)
(* a bounded FIFO of client descriptors served by a fixed set of workers.  *)
(* A descriptor that was put is taken by exactly one worker, in order;     *)
(* after Stop nothing more is put, but what is queued is still served, and *)
(* a worker leaves only when the stopped queue is empty.  There is no      *)
(* mutex, no condition variable and no ring buffer here.                   *)
(***************************************************************************)
EXTENDS Naturals, Sequences

CONSTANTS Worker,    \* the worker threads
          Capacity,  \* the most descriptors that may be queued
          Fds,       \* client descriptors
          NoFd       \* "no descriptor"

VARIABLES queue,     \* the accepted descriptors nobody has taken yet
          held,      \* held[w]: the descriptor worker w is serving
          stopped,   \* Stop has happened
          gone       \* the workers that have left

vars == <<queue, held, stopped, gone>>

InFlight == {queue[i] : i \in DOMAIN queue} \cup {held[w] : w \in Worker}

Init == /\ queue = <<>>
        /\ held = [w \in Worker |-> NoFd]
        /\ stopped = FALSE
        /\ gone = {}

Put(fd) == /\ ~stopped
           /\ Len(queue) < Capacity
           /\ fd \notin InFlight
           /\ queue' = Append(queue, fd)
           /\ UNCHANGED <<held, stopped, gone>>

Take(w) == /\ w \notin gone
           /\ held[w] = NoFd
           /\ queue # <<>>
           /\ held' = [held EXCEPT ![w] = Head(queue)]
           /\ queue' = Tail(queue)
           /\ UNCHANGED <<stopped, gone>>

Finish(w) == /\ held[w] # NoFd
             /\ held' = [held EXCEPT ![w] = NoFd]
             /\ UNCHANGED <<queue, stopped, gone>>

Stop == /\ stopped' = TRUE
        /\ UNCHANGED <<queue, held, gone>>

Leave(w) == /\ stopped
            /\ queue = <<>>
            /\ held[w] = NoFd
            /\ gone' = gone \cup {w}
            /\ UNCHANGED <<queue, held, stopped>>

Next == \/ \E fd \in Fds : Put(fd)
        \/ Stop
        \/ \E w \in Worker : Take(w) \/ Finish(w) \/ Leave(w)

Spec == Init /\ [][Next]_vars

(***************************************************************************)
(* The progress half of the promise: while something is queued and a       *)
(* worker is free some worker takes it, what is taken is finished, and     *)
(* after Stop every worker leaves.                                         *)
(***************************************************************************)
Progress == /\ WF_vars(\E w \in Worker : Take(w))
            /\ \A w \in Worker : WF_vars(Finish(w)) /\ WF_vars(Leave(w))

FairSpec == Spec /\ Progress
=============================================================================
