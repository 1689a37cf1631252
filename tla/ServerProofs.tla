---------------------------- MODULE ServerProofs ----------------------------
(***************************************************************************)
(* Proofs about Server.  The server is first shown to use the pool within  *)
(* the pool's specification; every theorem of ThreadPoolProofs then holds  *)
(* inside the server, and what is left is to tie main's place in server.c  *)
(* to the state of the pool and of the table.                              *)
(***************************************************************************)
EXTENDS Server, ThreadPoolProofs

USE DEF Worker, Slot

(***************************************************************************)
(* A call server.c makes of the pool is a step of the pool; a step between *)
(* two calls leaves the pool alone.                                        *)
(***************************************************************************)
LEMMA ServerStepIsPoolStep == [ServerNext]_allVars => [Next]_vars
<1> SUFFICES ASSUME [ServerNext]_allVars PROVE [Next]_vars
  OBVIOUS
<1>1. CASE MainRuns
  <2>1. CASE CreateTable \/ MakeListenSocket \/ TestFlag \/ Block \/ Release
    BY <2>1 DEF CreateTable, MakeListenSocket, TestFlag, Block, Release
  <2>2. CASE InitPool
    BY <2>2 DEF InitPool, Next, MainStep, MainCall
  <2>3. CASE SetTimeouts \/ SubmitClient \/ RejectBusy
    BY <2>3 DEF SetTimeouts, SubmitClient, RejectBusy, Next, MainStep
  <2>4. CASE StopPool \/ DestroyPool \/ JoinPool
    BY <2>4 DEF StopPool, DestroyPool, JoinPool, Next, MainStep, MainCall
  <2> QED
    BY <1>1, <2>1, <2>2, <2>3, <2>4 DEF MainRuns
<1>2. ASSUME NEW fd \in Fds, AcceptClient(fd) PROVE [Next]_vars
  BY <1>2 DEF AcceptClient, Next, MainCall
<1>3. CASE AcceptFails \/ SignalMain \/ SignalWorker \/ Sigpipe \/ Ended
  BY <1>3 DEF AcceptFails, SignalMain, SignalWorker, Sigpipe, Ended, allVars
<1>4. ASSUME NEW w \in Worker, WorkerRuns(w) \/ WorkerWakes(w)
      PROVE  [Next]_vars
  BY <1>4 DEF WorkerRuns, WorkerWakes, Next
<1>5. CASE UNCHANGED allVars
  BY <1>5 DEF allVars
<1> QED
  BY <1>1, <1>2, <1>3, <1>4, <1>5 DEF ServerNext

(***************************************************************************)
(* Inside the server the pool behaves as ThreadPool specifies: ownership   *)
(* of descriptors, wake-ups and drain, proved of the pool, carry over.     *)
(***************************************************************************)
LEMMA ServerUsesPool == ServerSpec => Spec
<1>1. ServerInit => Init
  BY DEF ServerInit
<1> QED
  BY <1>1, ServerStepIsPoolStep, PTL DEF ServerSpec, Spec

-----------------------------------------------------------------------------
\* Where the pool is for each place in server.c, and that the table lives
\* from the end of "table" to the end of "release".
PoolPlace ==
  /\ spc = "table" => call = "none"
  /\ spc = "pool" => call \in {"none", "create", "init_broadcast", "init_join"}
  /\ spc \in {"listen", "undo_pool", "loop", "accept", "blocked", "stop",
              "destroy"} => call = "ready"
  /\ spc \in {"prepare", "submit"} => call = "holding"
  /\ spc = "busy" => call = "refused"
  /\ spc = "joining" => call = "join"
  /\ spc = "release" => call \in {"destroyed", "init_failed"}
  /\ spc = "exited" => call \in {"none", "destroyed", "init_failed"}

TablePlace ==
  /\ spc = "table" => table = "none"
  /\ spc \notin {"table", "exited", "killed"} => table = "live"
  /\ spc = "exited" => table # "live" /\ ~listening
  /\ spc \in {"table", "pool", "listen"} => ~listening

ServerControl == /\ spc \in ServerPC
                 /\ PoolPlace
                 /\ TablePlace

LEMMA ServerControlStep ==
  Control /\ ServerControl /\ [ServerNext]_allVars => ServerControl'
<1> SUFFICES ASSUME Control, ServerControl, [ServerNext]_allVars
             PROVE  ServerControl'
  OBVIOUS
<1> USE DEF ServerControl, PoolPlace, TablePlace, ServerPC, Goto
<1>1. CASE CreateTable \/ MakeListenSocket \/ TestFlag \/ Block \/ Release
  BY <1>1 DEF CreateTable, MakeListenSocket, TestFlag, Block, Release, vars
<1>2. CASE InitPool
  BY <1>2 DEF InitPool, InitAllocates, InitFails, CreateWorker, CreateFails,
              InitBroadcast, InitJoin, InitReturnsZero
<1>3. CASE SetTimeouts \/ SubmitClient \/ RejectBusy
  BY <1>3 DEF SetTimeouts, SubmitClient, RejectBusy, SubmitAccepted,
              SubmitRefused, CallerClose, vars
<1>4. CASE StopPool \/ DestroyPool \/ JoinPool
  BY <1>4 DEF StopPool, DestroyPool, JoinPool, Shutdown, Destroy, JoinWorker,
              DestroyReturns
<1>5. ASSUME NEW fd \in Fds, AcceptClient(fd) PROVE ServerControl'
  BY <1>5 DEF AcceptClient, Accept
<1>6. CASE AcceptFails \/ SignalMain \/ SignalWorker \/ Sigpipe \/ Ended
           \/ UNCHANGED allVars
  BY <1>6 DEF AcceptFails, SignalMain, SignalWorker, Sigpipe, Ended, allVars,
              serverVars, vars, Running
<1>7. ASSUME NEW w \in Worker, WorkerRuns(w) \/ WorkerWakes(w)
      PROVE  ServerControl'
  <2>1. UNCHANGED <<call, spc, table, listening>>
    BY <1>7 DEF WorkerRuns, WorkerWakes, WorkerStep, serverVars, Lock,
       MustWait, CondWait, SpuriousWake, Exit, Dequeue, Handle, Close
  <2> QED
    BY <2>1
<1> QED
  BY <1>1, <1>2, <1>3, <1>4, <1>5, <1>6, <1>7 DEF ServerNext, MainRuns

(***************************************************************************)
(* That invariant holds of every reachable state.                          *)
(***************************************************************************)
THEOREM ServerControlCorrect == ServerSpec => []ServerControl
<1>1. ServerInit => ServerControl
  BY DEF ServerInit, Init, ServerControl, PoolPlace, TablePlace, ServerPC
<1>2. ServerSpec => []Control
  BY ServerUsesPool, ControlCorrect, PTL
<1> QED
  BY <1>1, <1>2, ServerControlStep, PTL DEF ServerSpec

(***************************************************************************)
(* No handler runs on a freed table: both server_destroy and the failure   *)
(* paths of server_create release it only once the workers are gone.       *)
(***************************************************************************)
THEOREM TableSafe == ServerSpec => []TableOutlivesHandlers
<1>1. Control /\ ServerControl => TableOutlivesHandlers
  <2> SUFFICES ASSUME Control, ServerControl, spc # "killed",
                      NEW w \in Worker, wpc[w] = "handle"
               PROVE  table = "live"
    BY DEF TableOutlivesHandlers
  <2>1. call \notin {"none", "destroyed"}
    BY WorkerCountAssumption DEF Control, MainProgress
  <2>2. call # "init_failed"
    BY WorkerCountAssumption DEF Control, MainProgress
  <2>3. spc \notin {"table", "exited"}
    BY <2>1, <2>2 DEF ServerControl, PoolPlace
  <2> QED
    BY <2>3 DEF ServerControl, TablePlace
<1>2. ServerSpec => []Control
  BY ServerUsesPool, ControlCorrect, PTL
<1> QED
  BY <1>1, <1>2, ServerControlCorrect, PTL

(***************************************************************************)
(* Whenever main returns, by whatever path, no worker is left and every    *)
(* descriptor and the table have been released.                            *)
(***************************************************************************)
THEOREM ExitClean == ServerSpec => []NothingLeftAtExit
<1>1. Control /\ DescriptorOwnership /\ ServerControl => NothingLeftAtExit
  <2> SUFFICES ASSUME Control, DescriptorOwnership, ServerControl,
                      spc = "exited"
               PROVE  /\ \A w \in Worker : wpc[w] \in {"unborn", "exited"}
                      /\ open = {} /\ ~listening /\ table # "live"
    BY DEF NothingLeftAtExit
  <2>1. ~listening /\ table # "live"
    BY DEF ServerControl, TablePlace
  <2>2. call \in {"none", "destroyed", "init_failed"}
    BY DEF ServerControl, PoolPlace
  <2>3. \A w \in Worker : wpc[w] \in {"unborn", "exited"}
    BY <2>2, WorkerCountAssumption DEF Control, MainProgress
  <2>4. size = 0
    BY <2>2, WorkerCountAssumption
    DEF Control, MainProgress, ExitedStopped, InitFailing
  <2>5. Occupied = {} /\ Serving = {} /\ ~MainOwns
    BY <2>2, <2>3, <2>4, CapacityAssumption
    DEF Control, TypeOK, Occupied, Serving, MainOwns
  <2>6. open = {}
    BY <2>5 DEF DescriptorOwnership
  <2> QED
    BY <2>1, <2>3, <2>6
<1>2. ServerSpec => []Control /\ []DescriptorOwnership
  BY ServerUsesPool, ControlCorrect, OwnershipCorrect, PTL
<1> QED
  BY <1>1, <1>2, ServerControlCorrect, PTL

-----------------------------------------------------------------------------
\* After a late connection main cannot get back to accept.
LateInv == \/ late = 0
           \/ late = 1 /\ g_shutdown_requested /\ spc \notin {"accept", "blocked"}

LEMMA LateStep == LateInv /\ [ServerNext]_allVars => LateInv'
<1> SUFFICES ASSUME LateInv, [ServerNext]_allVars PROVE LateInv'
  OBVIOUS
<1> USE DEF LateInv, Goto
<1>1. CASE CreateTable \/ MakeListenSocket \/ TestFlag \/ Block \/ Release
  BY <1>1 DEF CreateTable, MakeListenSocket, TestFlag, Block, Release
<1>2. CASE InitPool
  BY <1>2 DEF InitPool
<1>3. CASE SetTimeouts \/ SubmitClient \/ RejectBusy
  BY <1>3 DEF SetTimeouts, SubmitClient, RejectBusy
<1>4. CASE StopPool \/ DestroyPool \/ JoinPool
  BY <1>4 DEF StopPool, DestroyPool, JoinPool
<1>5. ASSUME NEW fd \in Fds, AcceptClient(fd) PROVE LateInv'
  BY <1>5 DEF AcceptClient
<1>6. CASE AcceptFails \/ SignalMain \/ SignalWorker \/ Sigpipe \/ Ended
           \/ UNCHANGED allVars
  BY <1>6 DEF AcceptFails, SignalMain, SignalWorker, Sigpipe, Ended, allVars,
              serverVars
<1>7. ASSUME NEW w \in Worker, WorkerRuns(w) \/ WorkerWakes(w)
      PROVE  LateInv'
  BY <1>7 DEF WorkerRuns, WorkerWakes, serverVars
<1> QED
  BY <1>1, <1>2, <1>3, <1>4, <1>5, <1>6, <1>7 DEF ServerNext, MainRuns

(***************************************************************************)
(* However signals, clients and workers interleave, server_run takes at    *)
(* most one connection after the shutdown signal.                          *)
(***************************************************************************)
THEOREM LateBound == ServerSpec => []AtMostOneLateConnection
<1>1. ServerInit => LateInv
  BY DEF ServerInit, LateInv
<1>2. LateInv => AtMostOneLateConnection
  BY DEF LateInv, AtMostOneLateConnection
<1> QED
  BY <1>1, <1>2, LateStep, PTL DEF ServerSpec

-----------------------------------------------------------------------------
Flags == /\ g_shutdown_requested \in BOOLEAN
         /\ listening \in BOOLEAN
         /\ table \in {"none", "live", "freed"}

(***************************************************************************)
(* The flags and the table stay what they are.                             *)
(***************************************************************************)
LEMMA FlagsStep == Flags /\ [ServerNext]_allVars => Flags'
<1> SUFFICES ASSUME Flags, [ServerNext]_allVars PROVE Flags'
  OBVIOUS
<1>1. g_shutdown_requested' \in {g_shutdown_requested, TRUE}
  BY DEF ServerNext, MainRuns, CreateTable, InitPool, MakeListenSocket, TestFlag, Block,
         SetTimeouts, SubmitClient, RejectBusy, StopPool, DestroyPool, JoinPool, Release,
         AcceptClient, AcceptFails, SignalMain, SignalWorker, Sigpipe, WorkerRuns,
         WorkerWakes, Ended, allVars, serverVars
<1>2. /\ listening' \in {listening, TRUE, FALSE}
      /\ table' \in {table, "live", "freed"}
  BY DEF ServerNext, MainRuns, CreateTable, InitPool, MakeListenSocket, TestFlag, Block,
         SetTimeouts, SubmitClient, RejectBusy, StopPool, DestroyPool, JoinPool, Release,
         AcceptClient, AcceptFails, SignalMain, SignalWorker, Sigpipe, WorkerRuns,
         WorkerWakes, Ended, allVars, serverVars
<1> QED
  BY <1>1, <1>2, Zenon DEF Flags

(***************************************************************************)
(* Every variable of the server and of the pool inside it has a value of   *)
(* its type: head and tail are slots, size never exceeds the capacity.     *)
(***************************************************************************)
THEOREM ServerTypeCorrect == ServerSpec => []ServerTypeOK
<1>1. ServerInit => Flags /\ LateInv
  BY DEF ServerInit, Flags, LateInv
<1>2. TypeOK /\ ServerControl /\ LateInv /\ Flags => ServerTypeOK
  BY DEF ServerControl, LateInv, Flags, ServerTypeOK
<1>3. ServerSpec => []TypeOK
  BY ServerUsesPool, TypeCorrect, PTL
<1> QED
  BY <1>1, <1>2, <1>3, FlagsStep, LateStep, ServerControlCorrect, PTL DEF ServerSpec
=============================================================================
