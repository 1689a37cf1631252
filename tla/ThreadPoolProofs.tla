-------------------------- MODULE ThreadPoolProofs --------------------------
(***************************************************************************)
(* Proofs about ThreadPool, for every number of workers, every queue       *)
(* capacity and every set of descriptors.                                  *)
(*                                                                         *)
(* The inductive invariant is built in layers, each proved from the ones   *)
(* before it: types and where main and the workers can be (Control), the   *)
(* ring buffer, who owns a descriptor, and the count of wake-ups.          *)
(***************************************************************************)
EXTENDS ThreadPool, Sequences, TLAPS, FiniteSetTheorems

USE DEF Worker, Slot, WorkerPC, CallPC

(***************************************************************************)
(* The ring index as the code uses it: the next slot, or slot 0.           *)
(***************************************************************************)
LEMMA NextSlotValue ==
  ASSUME NEW s \in Slot
  PROVE  NextSlot(s) = IF s + 1 = QUEUE_CAPACITY THEN 0 ELSE s + 1
BY CapacityAssumption DEF NextSlot

-----------------------------------------------------------------------------
(***************************************************************************)
(* While init creates workers the ones from index on do not exist yet; if  *)
(* it fails it joins them downwards from index.  destroy has joined the    *)
(* ones below index.                                                       *)
(***************************************************************************)
MainProgress ==
  /\ call \in {"none", "create"} =>
       /\ index < WORKER_COUNT
       /\ \A w \in Worker : w >= index => wpc[w] = "unborn"
  /\ call = "join" =>
       /\ stop_requested
       /\ \A w \in Worker : w < index => wpc[w] = "exited"
  /\ call = "init_broadcast" =>
       \A w \in Worker : w >= index => wpc[w] = "unborn"
  /\ call \in {"init_join", "init_failed"} =>
       \A w \in Worker : w >= index => wpc[w] \in {"unborn", "exited"}
  /\ call \in {"none", "init_failed"} => index = 0
  /\ call \in {"none", "create"} \/ InitFailing => size = 0
  /\ call = "destroyed" => \A w \in Worker : wpc[w] = "exited"

\* The mutex is held exactly by the worker between lock and unlock.
MutexOwner == \A w \in Worker : wpc[w] \in {"test", "wait"} <=> mutex = w

\* A worker decides to sleep, or to leave, only on an empty queue, and
\* leaves only a stopped pool.
WaitEmpty == \A w \in Worker : wpc[w] = "wait" => size = 0
ExitedStopped ==
  \A w \in Worker : wpc[w] = "exited" =>
     size = 0 /\ (stop_requested \/ call = "destroyed")

\* Outside "handle" and "close" a worker holds no descriptor, and main
\* holds one only between accept and the end of its submit.
HandsEmpty == /\ \A w \in Worker : w \notin Serving => wfd[w] = NoFd
              /\ ~MainOwns => mfd = NoFd

Control == /\ TypeOK
           /\ MainProgress
           /\ MutexOwner
           /\ WaitEmpty
           /\ ExitedStopped
           /\ NoSleepAfterStop
           /\ HandsEmpty

LEMMA ControlInit == Init => Control
<1> SUFFICES ASSUME Init PROVE Control
  OBVIOUS
<1> USE WorkerCountAssumption, CapacityAssumption, NoThreadAssumption
    DEF Init
<1>1. TypeOK
  <2>1. jobs \in [Slot -> Fds \cup {NoFd}] /\ wfd \in [Worker -> Fds \cup {NoFd}]
    OBVIOUS
  <2>2. wpc \in [Worker -> WorkerPC]
    OBVIOUS
  <2>3. stop_requested \in BOOLEAN
    OBVIOUS
  <2>4. head \in Slot /\ tail \in Slot /\ size \in 0 .. QUEUE_CAPACITY
    OBVIOUS
  <2>5. index \in 0 .. WORKER_COUNT /\ call \in CallPC /\ mfd \in Fds \cup {NoFd}
    OBVIOUS
  <2>6. mutex \in Worker \cup {NoThread} /\ open \in SUBSET Fds
    OBVIOUS
  <2> QED
    BY <2>1, <2>2, <2>3, <2>4, <2>5, <2>6, Zenon DEF TypeOK
<1>2. MainProgress /\ MutexOwner /\ WaitEmpty /\ ExitedStopped
  BY DEF MainProgress, InitFailing, MutexOwner, WaitEmpty, ExitedStopped
<1>3. NoSleepAfterStop /\ HandsEmpty
  BY DEF NoSleepAfterStop, HandsEmpty, MainOwns
<1> QED
  BY <1>1, <1>2, <1>3 DEF Control

LEMMA ControlStep == Control /\ [Next]_vars => Control'
<1> SUFFICES ASSUME Control, [Next]_vars PROVE Control'
  OBVIOUS
<1> USE WorkerCountAssumption, CapacityAssumption, NoThreadAssumption,
        NoFdAssumption
    DEF Control, TypeOK, MainProgress, MutexOwner, WaitEmpty, ExitedStopped,
        NoSleepAfterStop, InitFailing, HandsEmpty, Serving, MainOwns,
        queueVars, NothingToDo, AllDone, CanSubmit
<1>1. ASSUME NEW w \in Worker, Lock(w) PROVE Control'
  BY <1>1 DEF Lock
<1>2. ASSUME NEW w \in Worker, MustWait(w) PROVE Control'
  BY <1>2 DEF MustWait
<1>3. ASSUME NEW w \in Worker, CondWait(w) PROVE Control'
  BY <1>3 DEF CondWait
<1>4. ASSUME NEW w \in Worker, SpuriousWake(w) PROVE Control'
  BY <1>4 DEF SpuriousWake
<1>5. ASSUME NEW w \in Worker, Exit(w) PROVE Control'
  BY <1>5 DEF Exit
<1>6. ASSUME NEW w \in Worker, Dequeue(w) PROVE Control'
  <2>1. NextSlot(head) \in Slot
    BY NextSlotValue
  <2> QED
    BY <1>6, <2>1 DEF Dequeue
<1>7. ASSUME NEW w \in Worker, Handle(w) PROVE Control'
  BY <1>7 DEF Handle
<1>8. ASSUME NEW w \in Worker, Close(w) PROVE Control'
  BY <1>8 DEF Close
<1>9. CASE InitFails \/ InitAllocates
  BY <1>9 DEF InitFails, InitAllocates
<1>10. CASE CreateWorker
  BY <1>10 DEF CreateWorker
<1>11. CASE CreateFails
  BY <1>11 DEF CreateFails
<1>12. CASE InitBroadcast
  BY <1>12 DEF InitBroadcast, CondBroadcast
<1>13. CASE InitJoin \/ InitReturnsZero
  BY <1>13 DEF InitJoin, InitReturnsZero
<1>14. ASSUME NEW fd \in Fds, Accept(fd) PROVE Control'
  BY <1>14 DEF Accept
<1>15. CASE SubmitAccepted
  <2>1. NextSlot(tail) \in Slot
    BY NextSlotValue
  <2>2. CASE Asleep = {} /\ UNCHANGED wpc
    BY <1>15, <2>1, <2>2 DEF SubmitAccepted
  <2>3. ASSUME NEW v \in Asleep, wpc' = [wpc EXCEPT ![v] = "lock"]
        PROVE  Control'
    BY <1>15, <2>1, <2>3 DEF SubmitAccepted, Asleep
  <2> QED
    BY <1>15, <2>2, <2>3 DEF SubmitAccepted, CondSignal, WakeOne
<1>16. CASE SubmitRefused \/ CallerClose
  BY <1>16 DEF SubmitRefused, CallerClose
<1>17. CASE Shutdown
  BY <1>17 DEF Shutdown, CondBroadcast
<1>18. CASE Destroy
  BY <1>18 DEF Destroy, CondBroadcast
<1>19. CASE JoinWorker
  BY <1>19 DEF JoinWorker
<1>20. CASE DestroyReturns
  <2>1. jobs' \in [Slot -> Fds \cup {NoFd}]
    BY <1>20 DEF DestroyReturns
  <2>2. /\ head' = 0 /\ tail' = 0 /\ size' = 0 /\ stop_requested' = FALSE
        /\ call = "join" /\ call' = "destroyed" /\ index = WORKER_COUNT
        /\ UNCHANGED <<mutex, wpc, wfd, index, mfd, open>>
    BY <1>20 DEF DestroyReturns
  <2>3. stop_requested' \in BOOLEAN
    BY <2>2
  <2>4. TypeOK'
    BY <2>1, <2>2, <2>3
  <2>5. (MainProgress /\ MutexOwner /\ WaitEmpty /\ ExitedStopped)'
    BY <2>2
  <2>6. (NoSleepAfterStop /\ HandsEmpty)'
    BY <2>2
  <2> QED
    BY <2>4, <2>5, <2>6, Zenon DEF Control
<1>21. CASE UNCHANGED vars
  BY <1>21 DEF vars
<1> QED
  BY <1>1, <1>2, <1>3, <1>4, <1>5, <1>6, <1>7, <1>8, <1>9, <1>10, <1>11,
     <1>12, <1>13, <1>14, <1>15, <1>16, <1>17, <1>18, <1>19, <1>20, <1>21
  DEF Next, WorkerStep, MainStep, MainCall, Terminated

(***************************************************************************)
(* Every reachable state is well-typed and respects the control invariant. *)
(***************************************************************************)
THEOREM ControlCorrect == Spec => []Control
BY ControlInit, ControlStep, PTL DEF Spec

(***************************************************************************)
(* Type correctness of the pool: in particular head and tail stay inside   *)
(* the array and size never exceeds the capacity.                          *)
(***************************************************************************)
THEOREM TypeCorrect == Spec => []TypeOK
<1>1. Control => TypeOK
  BY DEF Control
<1> QED
  BY <1>1, ControlCorrect, PTL

-----------------------------------------------------------------------------
(***************************************************************************)
(* The ring buffer.                                                        *)
(***************************************************************************)
\* Only these two steps and the reset at the end of destroy touch the ring.
RingQuiet == UNCHANGED queueVars

LEMMA RingSteps ==
  ASSUME [Next]_vars
  PROVE  \/ RingQuiet
         \/ \E w \in Worker : Dequeue(w)
         \/ SubmitAccepted
         \/ DestroyReturns
BY DEF Next, WorkerStep, MainStep, MainCall, Terminated, vars, queueVars,
       RingQuiet, Lock, MustWait, CondWait, SpuriousWake, Exit, Handle, Close,
       InitFails, InitAllocates, CreateWorker, CreateFails, InitBroadcast,
       InitJoin, InitReturnsZero, Accept, SubmitRefused, CallerClose,
       Shutdown, Destroy, JoinWorker

LEMMA RingStep ==
  Control /\ RingConsistent /\ [Next]_vars => RingConsistent'
<1> SUFFICES ASSUME Control, RingConsistent, [Next]_vars
             PROVE  RingConsistent'
  OBVIOUS
<1> USE CapacityAssumption DEF Control, TypeOK, RingConsistent
<1>1. CASE RingQuiet
  BY <1>1 DEF RingQuiet, queueVars
<1>2. ASSUME NEW w \in Worker, Dequeue(w) PROVE RingConsistent'
  <2>1. head' = IF head + 1 = QUEUE_CAPACITY THEN 0 ELSE head + 1
    BY <1>2, NextSlotValue DEF Dequeue
  <2> QED
    BY <1>2, <2>1 DEF Dequeue
<1>3. CASE SubmitAccepted
  <2>1. tail' = IF tail + 1 = QUEUE_CAPACITY THEN 0 ELSE tail + 1
    BY <1>3, NextSlotValue DEF SubmitAccepted
  <2> QED
    BY <1>3, <2>1 DEF SubmitAccepted, CanSubmit
<1>4. CASE DestroyReturns
  BY <1>4 DEF DestroyReturns
<1> QED
  BY <1>1, <1>2, <1>3, <1>4, RingSteps

(***************************************************************************)
(* head, tail and size always agree.                                       *)
(***************************************************************************)
THEOREM RingCorrect == Spec => []RingConsistent
<1>1. Init => RingConsistent
  BY CapacityAssumption DEF Init, RingConsistent
<1> QED
  BY <1>1, RingStep, ControlCorrect, PTL DEF Spec

\* A take frees the slot at head, which was occupied.
LEMMA OccupiedAfterDequeue ==
  ASSUME Control, NEW w \in Worker, Dequeue(w)
  PROVE  /\ head \in Occupied
         /\ Occupied' = Occupied \ {head}
<1> USE CapacityAssumption DEF Control, TypeOK
<1>1. head' = IF head + 1 = QUEUE_CAPACITY THEN 0 ELSE head + 1
  BY NextSlotValue DEF Dequeue
<1>2. size > 0 /\ size' = size - 1
  BY DEF Dequeue
<1> QED
  BY <1>1, <1>2 DEF Occupied

\* A put fills the slot at tail, which was free.
LEMMA OccupiedAfterSubmit ==
  ASSUME Control, RingConsistent, SubmitAccepted
  PROVE  /\ tail \in Slot
         /\ tail \notin Occupied
         /\ Occupied' = Occupied \cup {tail}
<1> USE CapacityAssumption DEF Control, TypeOK
<1>1. size < QUEUE_CAPACITY /\ size' = size + 1 /\ head' = head
  BY DEF SubmitAccepted, CanSubmit
<1> QED
  BY <1>1 DEF Occupied, RingConsistent

-----------------------------------------------------------------------------
(***************************************************************************)
(* Who owns a descriptor.                                                  *)
(***************************************************************************)
\* A step that moves no descriptor.
HandsQuiet == /\ UNCHANGED <<jobs, head, size, wfd, mfd, open>>
              /\ Serving' = Serving
              /\ MainOwns' <=> MainOwns

LEMMA OwnershipFrame ==
  DescriptorOwnership /\ HandsQuiet => DescriptorOwnership'
<1> SUFFICES ASSUME DescriptorOwnership, HandsQuiet PROVE DescriptorOwnership'
  OBVIOUS
<1>1. Occupied' = Occupied
  BY DEF HandsQuiet, Occupied
<1> QED
  BY <1>1 DEF HandsQuiet, DescriptorOwnership

LEMMA QuietSteps ==
  ASSUME Control, [Next]_vars
  PROVE  \/ HandsQuiet
         \/ \E w \in Worker : Dequeue(w) \/ Close(w)
         \/ \E fd \in Fds : Accept(fd)
         \/ SubmitAccepted \/ CallerClose \/ DestroyReturns
<1> USE DEF Control, TypeOK, HandsQuiet, Serving, MainOwns, queueVars
<1>1. ASSUME NEW w \in Worker,
             \/ Lock(w) \/ MustWait(w) \/ CondWait(w) \/ SpuriousWake(w)
             \/ Exit(w) \/ Handle(w)
      PROVE  HandsQuiet
  BY <1>1 DEF Lock, MustWait, CondWait, SpuriousWake, Exit, Handle
<1>2. CASE InitFails \/ InitAllocates \/ CreateFails \/ InitJoin
           \/ InitReturnsZero \/ SubmitRefused \/ JoinWorker
  BY <1>2 DEF InitFails, InitAllocates, CreateFails, InitJoin,
              InitReturnsZero, SubmitRefused, JoinWorker
<1>3. CASE CreateWorker
  BY <1>3 DEF CreateWorker, MainProgress
<1>4. CASE InitBroadcast \/ Shutdown \/ Destroy
  BY <1>4 DEF InitBroadcast, Shutdown, Destroy, CondBroadcast
<1>5. CASE UNCHANGED vars
  BY <1>5 DEF vars
<1> QED
  BY <1>1, <1>2, <1>3, <1>4, <1>5
  DEF Next, WorkerStep, MainStep, MainCall, Terminated

LEMMA OwnershipStep ==
  Control /\ RingConsistent /\ DescriptorOwnership /\ [Next]_vars
    => DescriptorOwnership'
<1> SUFFICES ASSUME Control, RingConsistent, DescriptorOwnership, [Next]_vars
             PROVE  DescriptorOwnership'
  OBVIOUS
<1> USE DEF Control, TypeOK
<1>1. ASSUME NEW w \in Worker, Dequeue(w) PROVE DescriptorOwnership'
  <2>1. /\ head \in Occupied
        /\ Occupied' = Occupied \ {head}
    BY <1>1, OccupiedAfterDequeue
  <2>2. /\ Serving' = Serving \cup {w} /\ w \notin Serving
        /\ MainOwns' = MainOwns /\ mfd' = mfd
        /\ jobs' = jobs /\ open' = open
        /\ wfd' = [wfd EXCEPT ![w] = jobs[head]]
    BY <1>1 DEF Dequeue, Serving, MainOwns
  <2> QED
    BY <2>1, <2>2 DEF DescriptorOwnership, Serving
<1>2. ASSUME NEW w \in Worker, Close(w) PROVE DescriptorOwnership'
  <2>1. Occupied' = Occupied
    BY <1>2 DEF Close, Occupied, queueVars
  <2>2. /\ Serving' = Serving \ {w} /\ w \in Serving
        /\ MainOwns' = MainOwns /\ mfd' = mfd /\ jobs' = jobs
        /\ open' = open \ {wfd[w]}
        /\ wfd' = [wfd EXCEPT ![w] = NoFd]
    BY <1>2 DEF Close, Serving, MainOwns, queueVars
  <2> QED
    BY <2>1, <2>2 DEF DescriptorOwnership, Serving
<1>3. ASSUME NEW fd \in Fds, Accept(fd) PROVE DescriptorOwnership'
  <2>1. Occupied' = Occupied /\ Serving' = Serving
    BY <1>3 DEF Accept, Occupied, Serving, queueVars
  <2>2. /\ ~MainOwns /\ MainOwns' /\ mfd' = fd
        /\ jobs' = jobs /\ wfd' = wfd
        /\ fd \notin open /\ open' = open \cup {fd}
    BY <1>3 DEF Accept, MainOwns, queueVars
  <2> QED
    BY <2>1, <2>2 DEF DescriptorOwnership
<1>4. CASE SubmitAccepted
  <2>1. /\ tail \in Slot /\ tail \notin Occupied
        /\ Occupied' = Occupied \cup {tail}
    BY <1>4, OccupiedAfterSubmit
  <2>2. Serving' = Serving
    BY <1>4 DEF SubmitAccepted, CondSignal, WakeOne, Asleep, Serving
  <2>3. /\ MainOwns /\ ~MainOwns' /\ wfd' = wfd /\ open' = open
        /\ jobs' = [jobs EXCEPT ![tail] = mfd]
    BY <1>4 DEF SubmitAccepted, MainOwns
  <2>4. Occupied \subseteq Slot
    BY DEF Occupied
  <2> QED
    BY <2>1, <2>2, <2>3, <2>4 DEF DescriptorOwnership
<1>5. CASE CallerClose
  <2>1. Occupied' = Occupied /\ Serving' = Serving
    BY <1>5 DEF CallerClose, Occupied, Serving, queueVars
  <2>2. /\ MainOwns /\ ~MainOwns' /\ jobs' = jobs /\ wfd' = wfd
        /\ open' = open \ {mfd}
    BY <1>5 DEF CallerClose, MainOwns, queueVars
  <2> QED
    BY <2>1, <2>2 DEF DescriptorOwnership
<1>6. CASE DestroyReturns
  <2>1. \A w \in Worker : wpc[w] = "exited"
    BY <1>6, WorkerCountAssumption DEF DestroyReturns, MainProgress
  <2>2. size = 0 /\ 0 \in Worker
    BY <2>1, WorkerCountAssumption DEF ExitedStopped
  <2>3. Occupied = {} /\ Occupied' = {}
    BY <1>6, <2>2, CapacityAssumption DEF DestroyReturns, Occupied
  <2>4. Serving = {} /\ Serving' = {} /\ ~MainOwns /\ ~MainOwns'
    BY <1>6, <2>1 DEF DestroyReturns, Serving, MainOwns
  <2>5. open' = open
    BY <1>6 DEF DestroyReturns
  <2> QED
    BY <2>3, <2>4, <2>5 DEF DescriptorOwnership
<1> QED
  BY <1>1, <1>2, <1>3, <1>4, <1>5, <1>6, QuietSteps, OwnershipFrame

(***************************************************************************)
(* Every open client descriptor has exactly one owner: none is leaked,     *)
(* served twice or closed twice, however main and the workers interleave.  *)
(***************************************************************************)
THEOREM OwnershipCorrect == Spec => []DescriptorOwnership
<1>1. Init => DescriptorOwnership
  <2> SUFFICES ASSUME Init PROVE DescriptorOwnership
    OBVIOUS
  <2>1. Occupied = {} /\ Serving = {} /\ ~MainOwns /\ open = {}
    BY CapacityAssumption DEF Init, Occupied, Serving, MainOwns
  <2> QED
    BY <2>1 DEF DescriptorOwnership
<1> QED
  BY <1>1, OwnershipStep, ControlCorrect, RingCorrect, PTL DEF Spec

-----------------------------------------------------------------------------
(***************************************************************************)
(* Wake-ups.                                                               *)
(***************************************************************************)
LEMMA FiniteWorkers ==
  ASSUME NEW S \in SUBSET Worker
  PROVE  IsFiniteSet(S) /\ Cardinality(S) \in Nat
<1>1. IsFiniteSet(Worker)
  BY WorkerCountAssumption, FS_Interval
<1> QED
  BY <1>1, FS_Subset, FS_CardinalityType

LEMMA OnTheWayFinite ==
  /\ IsFiniteSet(OnTheWay) /\ Cardinality(OnTheWay) \in Nat
  /\ IsFiniteSet(OnTheWay') /\ Cardinality(OnTheWay') \in Nat
<1>1. OnTheWay \in SUBSET Worker /\ OnTheWay' \in SUBSET Worker
  BY DEF OnTheWay
<1> QED
  BY <1>1, FiniteWorkers

\* An empty queue owes nobody a wake-up.
LEMMA EmptyOwesNothing == /\ size = 0 => NoLostWakeup
                          /\ size' = 0 => NoLostWakeup'
BY OnTheWayFinite DEF NoLostWakeup

\* More workers on the way, fewer asleep and as much to do: still enough.
LEMMA WakeupFrame ==
  ASSUME Control, NoLostWakeup,
         OnTheWay \subseteq OnTheWay', Asleep' \subseteq Asleep, size' = size
  PROVE  NoLostWakeup'
<1>1. Cardinality(OnTheWay) <= Cardinality(OnTheWay')
  BY OnTheWayFinite, FS_Subset
<1> QED
  BY <1>1, OnTheWayFinite DEF NoLostWakeup, Control, TypeOK

LEMMA WakeupStep ==
  Control /\ NoLostWakeup /\ [Next]_vars => NoLostWakeup'
<1> SUFFICES ASSUME Control, NoLostWakeup, [Next]_vars PROVE NoLostWakeup'
  OBVIOUS
<1> USE DEF Control, TypeOK, OnTheWay, Asleep, queueVars
<1>1. ASSUME NEW w \in Worker, Lock(w) \/ SpuriousWake(w) \/ Handle(w) \/ Close(w)
      PROVE  NoLostWakeup'
  <2>1. OnTheWay \subseteq OnTheWay' /\ Asleep' \subseteq Asleep /\ size' = size
    BY <1>1 DEF Lock, SpuriousWake, Handle, Close
  <2> QED
    BY <2>1, WakeupFrame
<1>2. ASSUME NEW w \in Worker, MustWait(w) \/ CondWait(w) \/ Exit(w)
      PROVE  NoLostWakeup'
  <2>1. size' = 0
    BY <1>2 DEF MustWait, CondWait, Exit, NothingToDo, AllDone, WaitEmpty
  <2> QED
    BY <2>1, EmptyOwesNothing
<1>3. ASSUME NEW w \in Worker, Dequeue(w) PROVE NoLostWakeup'
  <2>1. w \in OnTheWay /\ OnTheWay' = OnTheWay \ {w} /\ Asleep' = Asleep
    BY <1>3 DEF Dequeue
  <2>2. size' = size - 1
    BY <1>3 DEF Dequeue
  <2> HIDE DEF OnTheWay, Asleep
  <2>3. Cardinality(OnTheWay') = Cardinality(OnTheWay) - 1
    BY <2>1, OnTheWayFinite, FS_RemoveElement
  <2> QED
    BY <2>1, <2>2, <2>3, OnTheWayFinite DEF NoLostWakeup
<1>4. CASE SubmitAccepted
  <2>1. size' = size + 1
    BY <1>4 DEF SubmitAccepted
  <2>2. CASE Asleep = {} /\ UNCHANGED wpc
    BY <2>2 DEF NoLostWakeup
  <2>3. ASSUME NEW v \in Asleep, wpc' = [wpc EXCEPT ![v] = "lock"]
        PROVE  NoLostWakeup'
    <3>1. v \notin OnTheWay /\ OnTheWay' = OnTheWay \cup {v}
      BY <2>3
    <3>2. Cardinality(OnTheWay') = Cardinality(OnTheWay) + 1
      BY <3>1, OnTheWayFinite, FS_AddElement
    <3> QED
      BY <2>1, <3>2, <2>3, OnTheWayFinite DEF NoLostWakeup
  <2> QED
    BY <1>4, <2>2, <2>3 DEF SubmitAccepted, CondSignal, WakeOne
<1>5. CASE CreateWorker
  <2>1. OnTheWay \subseteq OnTheWay' /\ Asleep' \subseteq Asleep /\ size' = size
    BY <1>5 DEF CreateWorker
  <2> QED
    BY <2>1, WakeupFrame
<1>6. CASE InitBroadcast \/ Shutdown \/ Destroy
  <2>1. OnTheWay \subseteq OnTheWay' /\ Asleep' \subseteq Asleep /\ size' = size
    BY <1>6 DEF InitBroadcast, Shutdown, Destroy, CondBroadcast
  <2> QED
    BY <2>1, WakeupFrame
<1>7. CASE DestroyReturns
  <2>1. size' = 0
    BY <1>7 DEF DestroyReturns
  <2> QED
    BY <2>1, EmptyOwesNothing
<1>8. CASE UNCHANGED <<wpc, size>>
  BY <1>8 DEF NoLostWakeup
<1>9. \/ \E w \in Worker : WorkerStep(w) \/ SpuriousWake(w)
      \/ CreateWorker \/ InitBroadcast \/ Shutdown \/ Destroy
      \/ SubmitAccepted \/ DestroyReturns
      \/ UNCHANGED <<wpc, size>>
  BY DEF Next, MainStep, MainCall, Terminated, vars, InitFails,
         InitAllocates, CreateFails, InitJoin, InitReturnsZero, Accept,
         SubmitRefused, CallerClose, JoinWorker
<1> QED
  BY <1>1, <1>2, <1>3, <1>4, <1>5, <1>6, <1>7, <1>8, <1>9 DEF WorkerStep

(***************************************************************************)
(* submit never leaves a queued descriptor without a worker on its way to  *)
(* it while another worker sleeps.                                         *)
(***************************************************************************)
THEOREM WakeupCorrect == Spec => []NoLostWakeup
<1>1. Init => NoLostWakeup
  BY EmptyOwesNothing DEF Init
<1> QED
  BY <1>1, WakeupStep, ControlCorrect, PTL DEF Spec

(***************************************************************************)
(* After shutdown nobody sleeps, so the joins of destroy wait only for     *)
(* workers that will see stop_requested.  The failure path of init is      *)
(* excluded, and has to be: see InitFailureReturns.                        *)
(***************************************************************************)
THEOREM StopWakesAll == Spec => []NoSleepAfterStop
<1>1. Control => NoSleepAfterStop
  BY DEF Control
<1> QED
  BY <1>1, ControlCorrect, PTL

(***************************************************************************)
(* Shutdown drops no accepted connection: workers leave a drained pool,    *)
(* and a destroyed pool has left no descriptor open.                       *)
(***************************************************************************)
THEOREM DrainCorrect == Spec => []DrainedBeforeExit
<1>1. Control /\ DescriptorOwnership => DrainedBeforeExit
  <2> SUFFICES ASSUME Control, DescriptorOwnership PROVE DrainedBeforeExit
    OBVIOUS
  <2>1. (\E w \in Worker : wpc[w] = "exited") => size = 0
    BY DEF Control, ExitedStopped
  <2>2. ASSUME call = "destroyed"
        PROVE  (\A w \in Worker : wpc[w] = "exited") /\ open = {}
    <3>1. \A w \in Worker : wpc[w] = "exited"
      BY <2>2 DEF Control, MainProgress
    <3>2. size = 0
      BY <2>1, <3>1, WorkerCountAssumption
    <3>3. Occupied = {} /\ Serving = {} /\ ~MainOwns
      BY <2>2, <3>1, <3>2, CapacityAssumption
      DEF Control, TypeOK, Occupied, Serving, MainOwns
    <3> QED
      BY <3>1, <3>3 DEF DescriptorOwnership
  <2> QED
    BY <2>1, <2>2 DEF DrainedBeforeExit
<1> QED
  BY <1>1, ControlCorrect, OwnershipCorrect, PTL

-----------------------------------------------------------------------------
(***************************************************************************)
(* The pool implements the abstract queue.                                 *)
(***************************************************************************)
LEMMA RingIndex ==
  ASSUME NEW h \in Slot, NEW i \in 1 .. QUEUE_CAPACITY
  PROVE  (h + i - 1) % QUEUE_CAPACITY =
           IF h + i - 1 < QUEUE_CAPACITY THEN h + i - 1
                                         ELSE h + i - 1 - QUEUE_CAPACITY
BY CapacityAssumption

LEMMA QueueType ==
  ASSUME TypeOK
  PROVE  /\ queue \in Seq(Fds \cup {NoFd})
         /\ Len(queue) = size
         /\ DOMAIN queue = 1 .. size
<1> USE CapacityAssumption DEF TypeOK
<1>1. \A i \in 1 .. size : (head + i - 1) % QUEUE_CAPACITY \in Slot
  BY RingIndex
<1>2. queue \in [1 .. size -> Fds \cup {NoFd}]
  BY <1>1 DEF queue
<1>3. size \in Nat
  OBVIOUS
<1> QED
  BY <1>2, <1>3

\* The i-th queued descriptor sits in an occupied slot.
LEMMA QueueSlots ==
  ASSUME TypeOK, NEW i \in 1 .. size
  PROVE  /\ (head + i - 1) % QUEUE_CAPACITY \in Occupied
         /\ queue[i] = jobs[(head + i - 1) % QUEUE_CAPACITY]
<1> USE CapacityAssumption DEF TypeOK
<1>1. i \in 1 .. QUEUE_CAPACITY
  OBVIOUS
<1> QED
  BY <1>1, RingIndex DEF Occupied, queue

\* Sequences of the same length with the same elements are equal.
LEMMA SeqEqual ==
  ASSUME NEW S, NEW s \in Seq(S), NEW t \in Seq(S), NEW n \in Int,
         Len(s) = n, Len(t) = n, \A i \in 1 .. n : s[i] = t[i]
  PROVE  s = t
OBVIOUS

LEMMA DequeueIsTail ==
  ASSUME Control, Control', NEW w \in Worker, Dequeue(w)
  PROVE  /\ queue # <<>>
         /\ Head(queue) = jobs[head]
         /\ queue' = Tail(queue)
<1> USE CapacityAssumption
<1>t. TypeOK /\ TypeOK'
  BY DEF Control
<1>1. /\ size > 0 /\ size' = size - 1 /\ jobs' = jobs
      /\ head' = IF head + 1 = QUEUE_CAPACITY THEN 0 ELSE head + 1
  BY <1>t, NextSlotValue DEF Dequeue, TypeOK
<1>2. Len(queue) = size /\ queue \in Seq(Fds \cup {NoFd})
  BY <1>t, QueueType
<1>3. queue[1] = jobs[head]
  <2>1. 1 \in 1 .. size /\ head + 1 - 1 = head /\ head \in Slot
    BY <1>1, <1>t DEF TypeOK
  <2>2. head % QUEUE_CAPACITY = head
    BY <2>1, CapacityAssumption
  <2> QED
    BY <2>1, <2>2, <1>t, QueueSlots
<1>4. \A i \in 1 .. size - 1 : queue'[i] = queue[i + 1]
  <2> SUFFICES ASSUME NEW i \in 1 .. size - 1
               PROVE  queue'[i] = queue[i + 1]
    OBVIOUS
  <2>1. queue[i + 1] = jobs[(head + i) % QUEUE_CAPACITY]
    BY <1>t DEF queue, TypeOK
  <2>2. queue'[i] = jobs[(head' + i - 1) % QUEUE_CAPACITY]
    BY <1>1 DEF queue
  <2>3. (head' + i - 1) % QUEUE_CAPACITY = (head + (i + 1) - 1) % QUEUE_CAPACITY
    <3>1. i \in 1 .. QUEUE_CAPACITY /\ i + 1 \in 1 .. QUEUE_CAPACITY
      BY <1>t DEF TypeOK
    <3>2. head \in Slot /\ head' \in Slot
      BY <1>t DEF TypeOK
    <3>3. (head' + i - 1) % QUEUE_CAPACITY =
             IF head' + i - 1 < QUEUE_CAPACITY THEN head' + i - 1
                                          ELSE head' + i - 1 - QUEUE_CAPACITY
      BY <3>1, <3>2, RingIndex
    <3>4. (head + (i + 1) - 1) % QUEUE_CAPACITY =
             IF head + (i + 1) - 1 < QUEUE_CAPACITY THEN head + (i + 1) - 1
                                     ELSE head + (i + 1) - 1 - QUEUE_CAPACITY
      BY <3>1, <3>2, RingIndex
    <3> QED
      BY <3>1, <3>2, <3>3, <3>4, <1>1
  <2>4. head + (i + 1) - 1 = head + i
    BY <1>t DEF TypeOK
  <2> QED
    BY <2>1, <2>2, <2>3, <2>4
<1>5. /\ Len(queue') = size - 1 /\ queue' \in Seq(Fds \cup {NoFd})
  <2>1. ASSUME TypeOK' PROVE (Len(queue) = size /\ queue \in Seq(Fds \cup {NoFd}))'
    BY <2>1, QueueType, PTL
  <2> QED
    BY <1>1, <1>t, <2>1
<1>6. size \in Nat
  BY <1>t, CapacityAssumption DEF TypeOK
<1>7. queue # <<>> /\ Head(queue) = queue[1]
  <2>1. Len(queue) # 0
    BY <1>1, <1>2, <1>6
  <2> QED
    BY <1>2, <2>1
<1>8. /\ Tail(queue) \in Seq(Fds \cup {NoFd}) /\ Len(Tail(queue)) = size - 1
      /\ \A i \in 1 .. size - 1 : Tail(queue)[i] = queue[i + 1]
  BY <1>2, <1>6, <1>7
<1>9. queue' = Tail(queue)
  BY <1>4, <1>5, <1>8, SeqEqual
<1> QED
  BY <1>3, <1>7, <1>9

LEMMA SubmitIsAppend ==
  ASSUME Control, Control', RingConsistent, SubmitAccepted
  PROVE  queue' = Append(queue, mfd)
<1> USE CapacityAssumption
<1>t. TypeOK /\ TypeOK'
  BY DEF Control
<1>1. /\ size < QUEUE_CAPACITY /\ size' = size + 1 /\ head' = head
      /\ jobs' = [jobs EXCEPT ![tail] = mfd]
  BY DEF SubmitAccepted, CanSubmit
<1>2. Len(queue) = size /\ queue \in Seq(Fds \cup {NoFd})
  BY <1>t, QueueType
<1>3. size \in Nat /\ mfd \in Fds \cup {NoFd} /\ head \in Slot
  BY <1>t DEF TypeOK
<1>4. /\ tail \in Slot /\ tail \notin Occupied
  BY OccupiedAfterSubmit
<1>5. /\ Len(queue') = size + 1 /\ queue' \in Seq(Fds \cup {NoFd})
  <2>1. ASSUME TypeOK' PROVE (Len(queue) = size /\ queue \in Seq(Fds \cup {NoFd}))'
    BY <2>1, QueueType, PTL
  <2> QED
    BY <1>1, <1>t, <2>1
<1>6. /\ Append(queue, mfd) \in Seq(Fds \cup {NoFd})
      /\ Len(Append(queue, mfd)) = size + 1
      /\ \A i \in 1 .. size : Append(queue, mfd)[i] = queue[i]
      /\ Append(queue, mfd)[size + 1] = mfd
  BY <1>2, <1>3
<1>7. \A i \in 1 .. size + 1 :
         queue'[i] = jobs'[(head + i - 1) % QUEUE_CAPACITY]
  BY <1>1 DEF queue
<1>8. ASSUME NEW i \in 1 .. size PROVE queue'[i] = queue[i]
  <2>1. /\ (head + i - 1) % QUEUE_CAPACITY \in Occupied
        /\ queue[i] = jobs[(head + i - 1) % QUEUE_CAPACITY]
    BY <1>t, QueueSlots
  <2>2. Occupied \subseteq Slot
    BY DEF Occupied
  <2>3. jobs'[(head + i - 1) % QUEUE_CAPACITY]
           = jobs[(head + i - 1) % QUEUE_CAPACITY]
    BY <1>1, <1>4, <1>t, <2>1, <2>2 DEF TypeOK
  <2>4. queue'[i] = jobs'[(head + i - 1) % QUEUE_CAPACITY]
    BY <1>7, <1>3
  <2> QED
    BY <2>1, <2>3, <2>4
<1>9. queue'[size + 1] = mfd
  <2>1. size + 1 \in 1 .. QUEUE_CAPACITY /\ size + 1 \in 1 .. size + 1
    BY <1>1, <1>3
  <2>2. (head + (size + 1) - 1) % QUEUE_CAPACITY =
           IF head + (size + 1) - 1 < QUEUE_CAPACITY
             THEN head + (size + 1) - 1
             ELSE head + (size + 1) - 1 - QUEUE_CAPACITY
    BY <2>1, <1>3, RingIndex
  <2>3. (head + (size + 1) - 1) % QUEUE_CAPACITY = tail
    BY <2>2, <1>3, <1>4 DEF RingConsistent
  <2>4. queue'[size + 1] = jobs'[tail]
    BY <1>7, <2>1, <2>3
  <2> QED
    BY <2>4, <1>1, <1>4, <1>t DEF TypeOK
<1>10. \A i \in 1 .. size + 1 : queue'[i] = Append(queue, mfd)[i]
  BY <1>3, <1>6, <1>8, <1>9
<1> QED
  BY <1>3, <1>5, <1>6, <1>10, SeqEqual

LEMMA QueueEmpty == size = 0 => queue = <<>>
BY DEF queue

\* A step that leaves the abstract queue as it is.
LEMMA JQStutter ==
  ASSUME UNCHANGED <<jobs, head, size, wfd>>,
         stop_requested' = stop_requested,
         call # "destroyed", call' # "destroyed",
         \A w \in Worker : wpc'[w] = "exited" <=> wpc[w] = "exited"
  PROVE  UNCHANGED JQ!vars
<1>1. queue' = queue
  BY DEF queue
<1>2. {w \in Worker : wpc[w] = "exited"}' = {w \in Worker : wpc[w] = "exited"}
  OBVIOUS
<1>3. (stop_requested \/ call = "destroyed")'
        = (stop_requested \/ call = "destroyed")
  OBVIOUS
<1> QED
  BY <1>1, <1>2, <1>3 DEF JQ!vars

\* What is queued, or in a worker's hands, is open.
LEMMA InFlightOpen ==
  ASSUME Control, DescriptorOwnership
  PROVE  /\ \A i \in 1 .. size : queue[i] \in open
         /\ \A w \in Serving : wfd[w] \in Fds
<1>1. ASSUME NEW i \in 1 .. size PROVE queue[i] \in open
  BY <1>1, QueueSlots DEF Control, DescriptorOwnership
<1>2. ASSUME NEW w \in Serving PROVE wfd[w] \in Fds
  BY <1>2 DEF Control, TypeOK, DescriptorOwnership
<1> QED
  BY <1>1, <1>2

LEMMA JQStep ==
  ASSUME Control, Control', RingConsistent, DescriptorOwnership, [Next]_vars
  PROVE  [JQ!Next]_(JQ!vars)
<1> USE DEF queueVars
<1>t. TypeOK
  BY DEF Control
<1>1. ASSUME NEW w \in Worker,
             \/ Lock(w) \/ MustWait(w) \/ CondWait(w) \/ SpuriousWake(w)
             \/ Handle(w)
      PROVE  UNCHANGED JQ!vars
  <2>1. call # "destroyed"
    BY <1>1 DEF Control, MainProgress, Lock, MustWait, CondWait,
                SpuriousWake, Handle
  <2> QED
    BY <1>1, <1>t, <2>1, JQStutter
    DEF TypeOK, Lock, MustWait, CondWait, SpuriousWake, Handle
<1>2. ASSUME NEW w \in Worker, Exit(w) PROVE JQ!Leave(w)
  <2>1. queue = <<>> /\ queue' = queue
    BY <1>2, QueueEmpty DEF Exit, AllDone, queue
  <2>2. wfd[w] = NoFd /\ wfd' = wfd
    BY <1>2 DEF Exit, Control, HandsEmpty, Serving
  <2>3. {v \in Worker : wpc[v] = "exited"}'
           = {v \in Worker : wpc[v] = "exited"} \cup {w}
    BY <1>2, <1>t DEF Exit, TypeOK
  <2>4. stop_requested /\ UNCHANGED <<stop_requested, call>>
    BY <1>2 DEF Exit, AllDone
  <2> QED
    BY <2>1, <2>2, <2>3, <2>4 DEF JQ!Leave
<1>3. ASSUME NEW w \in Worker, Dequeue(w) PROVE JQ!Take(w)
  <2>1. queue # <<>> /\ Head(queue) = jobs[head] /\ queue' = Tail(queue)
    BY <1>3, DequeueIsTail
  <2>2. /\ wpc[w] # "exited" /\ wfd[w] = NoFd
        /\ wfd' = [wfd EXCEPT ![w] = jobs[head]]
        /\ UNCHANGED <<stop_requested, call>>
    BY <1>3 DEF Dequeue, Control, HandsEmpty, Serving
  <2>3. {v \in Worker : wpc[v] = "exited"}' = {v \in Worker : wpc[v] = "exited"}
    BY <1>3, <1>t DEF Dequeue, TypeOK
  <2> QED
    BY <2>1, <2>2, <2>3 DEF JQ!Take
<1>4. ASSUME NEW w \in Worker, Close(w) PROVE JQ!Finish(w)
  <2>1. wfd[w] # NoFd
    BY <1>4, InFlightOpen, NoFdAssumption DEF Close, Serving
  <2>2. /\ wfd' = [wfd EXCEPT ![w] = NoFd] /\ queue' = queue
        /\ UNCHANGED <<stop_requested, call>>
    BY <1>4 DEF Close, queue
  <2>3. {v \in Worker : wpc[v] = "exited"}' = {v \in Worker : wpc[v] = "exited"}
    BY <1>4, <1>t DEF Close, TypeOK
  <2> QED
    BY <2>1, <2>2, <2>3 DEF JQ!Finish
<1>5. CASE InitFails \/ InitAllocates \/ InitJoin \/ InitReturnsZero
           \/ SubmitRefused \/ CallerClose \/ JoinWorker
           \/ \E fd \in Fds : Accept(fd)
  <2>1. UNCHANGED JQ!vars
    BY <1>5, JQStutter DEF InitFails, InitAllocates, InitJoin,
       InitReturnsZero, SubmitRefused, CallerClose, JoinWorker, Accept
  <2> QED
    BY <2>1
<1>6. CASE CreateWorker
  <2>1. index \in Worker /\ wpc[index] = "unborn"
    BY <1>6 DEF CreateWorker, Control, TypeOK, MainProgress
  <2>2. UNCHANGED JQ!vars
    BY <1>6, <2>1, <1>t, JQStutter DEF CreateWorker, TypeOK
  <2> QED
    BY <2>2
<1>7. CASE InitBroadcast
  <2>1. UNCHANGED JQ!vars
    BY <1>7, JQStutter DEF InitBroadcast, CondBroadcast
  <2> QED
    BY <2>1
<1>8. CASE CreateFails \/ Shutdown \/ Destroy
  <2>1. queue' = queue /\ wfd' = wfd /\ stop_requested' = TRUE
    BY <1>8 DEF CreateFails, Shutdown, Destroy, queue
  <2>2. {v \in Worker : wpc[v] = "exited"}' = {v \in Worker : wpc[v] = "exited"}
    BY <1>8, <1>t DEF CreateFails, Shutdown, Destroy, CondBroadcast, TypeOK
  <2>3. JQ!Stop
    BY <2>1, <2>2 DEF JQ!Stop
  <2> QED
    BY <2>3 DEF JQ!Next
<1>9. CASE SubmitAccepted
  <2>1. queue' = Append(queue, mfd)
    BY <1>9, SubmitIsAppend
  <2>2. MainOwns /\ mfd \in Fds
    BY <1>9 DEF SubmitAccepted, MainOwns, DescriptorOwnership, Control, TypeOK
  <2>3. \A i \in DOMAIN queue : queue[i] # mfd
    <3>1. \A s \in Occupied : jobs[s] # mfd
      BY <2>2 DEF DescriptorOwnership
    <3> QED
      BY <3>1, <1>t, QueueType, QueueSlots
  <2>4. \A w \in Worker : wfd[w] # mfd
    BY <2>2, NoFdAssumption DEF Control, HandsEmpty, DescriptorOwnership
  <2>5. Len(queue) < QUEUE_CAPACITY
    BY <1>9, <1>t, QueueType DEF SubmitAccepted, CanSubmit
  <2>6. {v \in Worker : wpc[v] = "exited"}' = {v \in Worker : wpc[v] = "exited"}
    BY <1>9, <1>t DEF SubmitAccepted, CondSignal, WakeOne, Asleep, TypeOK
  <2>7. /\ ~(stop_requested \/ call = "destroyed")
        /\ ~(stop_requested \/ call = "destroyed")'
        /\ wfd' = wfd
    BY <1>9 DEF SubmitAccepted, CanSubmit
  <2>8. JQ!Put(mfd)
    BY <2>1, <2>3, <2>4, <2>5, <2>6, <2>7 DEF JQ!Put, JQ!InFlight
  <2> QED
    BY <2>2, <2>8 DEF JQ!Next
<1>10. CASE DestroyReturns
  <2>1. \A w \in Worker : wpc[w] = "exited"
    BY <1>10, WorkerCountAssumption DEF DestroyReturns, Control, TypeOK,
                                        MainProgress
  <2>2. size = 0
    BY <2>1, WorkerCountAssumption DEF Control, ExitedStopped
  <2>3. size' = 0
    BY <1>10 DEF DestroyReturns
  <2>4. queue = <<>> /\ queue' = <<>>
    BY <2>2, <2>3, QueueEmpty DEF queue
  <2>5. /\ (stop_requested \/ call = "destroyed") = TRUE
        /\ (stop_requested \/ call = "destroyed")' = TRUE
    BY <1>10 DEF DestroyReturns, Control, MainProgress
  <2>6. UNCHANGED <<wfd, wpc>>
    BY <1>10 DEF DestroyReturns
  <2>7. UNCHANGED JQ!vars
    BY <2>4, <2>5, <2>6 DEF JQ!vars
  <2> QED
    BY <2>7
<1>11. CASE UNCHANGED vars
  <2>1. UNCHANGED JQ!vars
    BY <1>11 DEF vars, JQ!vars, queue
  <2> QED
    BY <2>1
<1> QED
  BY <1>1, <1>2, <1>3, <1>4, <1>5, <1>6, <1>7, <1>8, <1>9, <1>10, <1>11
  DEF Next, WorkerStep, MainStep, MainCall, Terminated, JQ!Next

(***************************************************************************)
(* The ring buffer, mutex and condition variable implement the abstract    *)
(* bounded queue: first in, first out, each descriptor taken once, nothing *)
(* accepted after stop, and no worker leaves work behind.                  *)
(***************************************************************************)
THEOREM Refinement == Spec => ImplementsJobQueue
<1>1. Init => JQ!Init
  <2> SUFFICES ASSUME Init PROVE JQ!Init
    OBVIOUS
  <2>1. queue = <<>>
    BY QueueEmpty DEF Init
  <2>2. {w \in Worker : wpc[w] = "exited"} = {}
    BY DEF Init
  <2> QED
    BY <2>1, <2>2 DEF Init, JQ!Init
<1>2. Control /\ Control' /\ RingConsistent /\ DescriptorOwnership
        /\ [Next]_vars => [JQ!Next]_(JQ!vars)
  BY JQStep
<1> QED
  BY <1>1, <1>2, ControlCorrect, RingCorrect, OwnershipCorrect, PTL
  DEF Spec, ImplementsJobQueue, JQ!Spec
=============================================================================
