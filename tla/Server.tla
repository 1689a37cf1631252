------------------------------- MODULE Server -------------------------------
(***************************************************************************)
(* src/server/server.c and src/server_main.c: the life of the process.     *)
(* Main creates the table, the pool and the listening socket, accepts      *)
(* connections and submits them, and on SIGINT or SIGTERM stops accepting, *)
(* drains the pool and frees everything.                                   *)
(*                                                                         *)
(* The pool is ThreadPool: every step main takes on it is one of that      *)
(* module's actions, taken where server.c makes the call.  What is added   *)
(* is main's own control, the signal flag, and the two resources whose     *)
(* lifetime matters, the table the handlers use and the listening socket.  *)
(***************************************************************************)
EXTENDS ThreadPool

VARIABLES
  spc,                   \* where main is in server.c
  g_shutdown_requested,  \* set by the signal handler
  table,                 \* server->table: "none", "live" or "freed"
  listening,             \* server->listen_fd is open
  late                   \* history: connections accepted since the signal

serverVars == <<spc, g_shutdown_requested, table, listening, late>>
allVars == <<vars, serverVars>>

(***************************************************************************)
(* server_create: "table", "pool", "listen", and "undo_pool" when the      *)
(* socket cannot be made.  server_run: "loop" (about to test the flag),    *)
(* "accept" (tested it, about to call accept), "blocked" (asleep in        *)
(* accept), "prepare" (socket time-outs), "submit", "busy" (503), "stop".  *)
(* server_destroy: "destroy", "joining", "release".  Then "exited"; or     *)
(* "killed" by a SIGPIPE, which the program leaves at its default.         *)
(***************************************************************************)
ServerPC == {"table", "pool", "listen", "undo_pool", "loop", "accept",
             "blocked", "prepare", "submit", "busy", "stop", "destroy",
             "joining", "release", "exited", "killed"}

ServerInit == /\ Init
              /\ spc = "table"
              /\ g_shutdown_requested = FALSE
              /\ table = "none"
              /\ listening = FALSE
              /\ late = 0

Goto(from, to) == spc = from /\ spc' = to

-----------------------------------------------------------------------------
(* server_create.                                                          *)

\* calloc of the server and table_create; either may fail.
CreateTable == /\ \/ Goto("table", "pool") /\ table' = "live"
                  \/ Goto("table", "exited") /\ UNCHANGED table
               /\ UNCHANGED <<vars, g_shutdown_requested, listening, late>>

InitPool ==
  /\ spc = "pool"
  /\ \/ InitAllocates \/ InitFails \/ CreateWorker \/ CreateFails
     \/ InitBroadcast \/ InitJoin \/ InitReturnsZero
  /\ spc' = CASE call' = "ready"       -> "listen"
              [] call' = "init_failed" -> "release"
              [] OTHER                 -> "pool"
  /\ UNCHANGED <<g_shutdown_requested, table, listening, late>>

MakeListenSocket ==
  /\ \/ Goto("listen", "loop") /\ listening' = TRUE
     \/ Goto("listen", "undo_pool") /\ UNCHANGED listening
  /\ UNCHANGED <<vars, g_shutdown_requested, table, late>>

-----------------------------------------------------------------------------
(* server_run.                                                             *)

\* Mutant: the loop never looks at the flag.
TestFlagMissed == /\ Goto("loop", "accept")
                  /\ UNCHANGED <<vars, g_shutdown_requested, table, listening, late>>

TestFlag == /\ \/ ~g_shutdown_requested /\ Goto("loop", "accept")
               \/ g_shutdown_requested /\ Goto("loop", "stop")
            /\ UNCHANGED <<vars, g_shutdown_requested, table, listening, late>>

\* No connection is pending.
Block == /\ Goto("accept", "blocked")
         /\ UNCHANGED <<vars, g_shutdown_requested, table, listening, late>>

AcceptClient(fd) ==
  /\ Goto("accept", "prepare") \/ Goto("blocked", "prepare")
  /\ Accept(fd)
  /\ late' = IF g_shutdown_requested THEN late + 1 ELSE late
  /\ UNCHANGED <<g_shutdown_requested, table, listening>>

\* Any error of accept other than EINTR ends the loop.
AcceptFails == /\ Goto("accept", "stop") \/ Goto("blocked", "stop")
               /\ UNCHANGED <<vars, g_shutdown_requested, table, listening, late>>

\* server_set_client_socket_timeouts.
SetTimeouts == /\ \/ Goto("prepare", "submit") /\ UNCHANGED vars
                  \/ Goto("prepare", "loop") /\ CallerClose
               /\ UNCHANGED <<g_shutdown_requested, table, listening, late>>

SubmitClient == /\ \/ Goto("submit", "loop") /\ SubmitAccepted
                   \/ Goto("submit", "busy") /\ SubmitRefused
                /\ UNCHANGED <<g_shutdown_requested, table, listening, late>>

\* Mutant: a refused connection is not closed.
RejectBusyLeaks == /\ Goto("busy", "loop")
                   /\ call' = "ready" /\ mfd' = NoFd
                   /\ UNCHANGED <<queueVars, stop_requested, mutex, wpc, wfd,
                                  index, open>>
                   /\ UNCHANGED <<g_shutdown_requested, table, listening, late>>

\* The 503 is sent by the accept thread itself.
RejectBusy == /\ Goto("busy", "loop")
              /\ CallerClose
              /\ UNCHANGED <<g_shutdown_requested, table, listening, late>>

StopPool == /\ Goto("stop", "destroy")
            /\ Shutdown
            /\ UNCHANGED <<g_shutdown_requested, table, listening, late>>

-----------------------------------------------------------------------------
(* server_destroy, and the failure paths of server_create.                 *)

\* Mutant: destroy the pool without waiting for its workers.
DestroyWithoutJoin == /\ Goto("destroy", "release") \/ Goto("undo_pool", "release")
                      /\ call' = "destroyed"
                      /\ UNCHANGED <<queueVars, stop_requested, mutex, wpc, wfd,
                                     index, mfd, open>>
                      /\ UNCHANGED <<g_shutdown_requested, table, listening, late>>

DestroyPool == /\ Goto("destroy", "joining") \/ Goto("undo_pool", "joining")
               /\ Destroy
               /\ UNCHANGED <<g_shutdown_requested, table, listening, late>>

JoinPool == /\ \/ spc = "joining" /\ JoinWorker /\ UNCHANGED spc
               \/ Goto("joining", "release") /\ DestroyReturns
            /\ UNCHANGED <<g_shutdown_requested, table, listening, late>>

\* Mutant: the table is freed, the listening socket is left open.
ReleaseTableOnly == /\ Goto("release", "exited")
                    /\ table' = "freed"
                    /\ UNCHANGED <<vars, g_shutdown_requested, listening, late>>

Release == /\ Goto("release", "exited")
           /\ listening' = FALSE
           /\ table' = "freed"
           /\ UNCHANGED <<vars, g_shutdown_requested, late>>

-----------------------------------------------------------------------------
(* Signals and workers.                                                    *)

Running == spc \notin {"exited", "killed"}

\* SIGINT or SIGTERM, handled on main: the handler sets the flag and, since
\* sa_flags is 0, a blocked accept returns EINTR and the loop continues.
SignalMain == /\ Running
              /\ g_shutdown_requested' = TRUE
              /\ spc' = IF spc = "blocked" THEN "loop" ELSE spc
              /\ UNCHANGED <<vars, table, listening, late>>

\* The signal goes to the process: any thread may run the handler.
SignalWorker == /\ Running
                /\ \E w \in Worker : wpc[w] \notin {"unborn", "exited"}
                /\ g_shutdown_requested' = TRUE
                /\ UNCHANGED <<vars, spc, table, listening, late>>

\* A peer that has gone away while a response is being sent: send() without
\* MSG_NOSIGNAL raises SIGPIPE, whose default action ends the process.
Sigpipe == /\ Running
           /\ spc = "busy" \/ \E w \in Worker : wpc[w] = "handle"
           /\ spc' = "killed"
           /\ UNCHANGED <<vars, g_shutdown_requested, table, listening, late>>

WorkerRuns(w) == /\ Running
                 /\ WorkerStep(w)
                 /\ UNCHANGED serverVars

WorkerWakes(w) == /\ Running
                  /\ SpuriousWake(w)
                  /\ UNCHANGED serverVars

\* Main's own code.  Block is here: a thread that calls accept gets there.
MainRuns == \/ CreateTable \/ InitPool \/ MakeListenSocket \/ TestFlag \/ Block
            \/ SetTimeouts \/ SubmitClient \/ RejectBusy \/ StopPool
            \/ DestroyPool \/ JoinPool \/ Release

Ended == ~Running /\ UNCHANGED allVars

ServerNext == \/ MainRuns
              \/ \E fd \in Fds : AcceptClient(fd)
              \/ AcceptFails
              \/ SignalMain \/ SignalWorker \/ Sigpipe
              \/ \E w \in Worker : WorkerRuns(w) \/ WorkerWakes(w)
              \/ Ended

ServerSpec == ServerInit /\ [][ServerNext]_allVars

(***************************************************************************)
(* Threads keep running.  Nothing is assumed of clients or of signals: a   *)
(* connection may never come, and no signal needs to come twice.  Spurious *)
(* wake-ups are taken to be finitely many: a pool that woke up for nothing *)
(* for ever could keep the mutex from main for ever, since a pthread mutex *)
(* promises no order among those who want it.                              *)
(***************************************************************************)
ServerFairness == /\ WF_allVars(MainRuns)
                  /\ \A w \in Worker : WF_allVars(WorkerRuns(w))
                  /\ <>[][\A w \in Worker : ~WorkerWakes(w)]_allVars

FairServerSpec == ServerSpec /\ ServerFairness

-----------------------------------------------------------------------------
(* Properties.                                                             *)

\* Every variable has a value of its type, those of the pool included.
ServerTypeOK == /\ TypeOK
                /\ spc \in ServerPC
                /\ g_shutdown_requested \in BOOLEAN
                /\ table \in {"none", "live", "freed"}
                /\ listening \in BOOLEAN
                /\ late \in Nat

\* A worker in its handler finds server->table alive: server_destroy joins
\* the workers before it frees the table, and so does a failed server_create.
TableOutlivesHandlers ==
  (\E w \in Worker : wpc[w] = "handle") /\ spc # "killed" => table = "live"

\* When main returns nothing is left behind: no worker, no open client, no
\* listening socket, no table, on every path out of server_create too.
NothingLeftAtExit ==
  spc = "exited" => /\ \A w \in Worker : wpc[w] \in {"unborn", "exited"}
                    /\ open = {}
                    /\ ~listening
                    /\ table # "live"

\* server_run tests the flag and then calls accept: a connection that slips
\* in between is the only one taken after the signal.
AtMostOneLateConnection == late <= 1

\* Once main notices, the server goes down: it drains the queue, joins the
\* workers and returns.  So does a server_create that has to give up.
LeavingLoop == \/ spc = "loop" /\ g_shutdown_requested
               \/ spc \in {"stop", "undo_pool", "release"}
TeardownCompletes == LeavingLoop ~> ~Running

\* Every accepted connection is closed, also during shutdown.
ConnectionsClosed ==
  \A fd \in Fds : fd \in open ~> fd \notin open \/ spc = "killed"

\* A signal, whatever main is doing when it comes and on whichever thread the
\* handler runs, is never forgotten: the server goes down, unless main ends up
\* in an accept that nobody interrupts or connects to (server_run tests the
\* flag before it calls accept), or in a thread_pool_init that failed and waits
\* for a worker it did not wake.  Clients that keep coming do not keep it up.
SignalHeldUpOnlyByAccept ==
  (g_shutdown_requested ~> ~Running) \/ <>[](spc = "blocked") \/ <>[](spc = "pool")

\* What docs/plan/07-test-and-quality-plan.md asks to be verified: a graceful
\* shutdown does not hang.  (A signal that does not interrupt accept leaves
\* main asleep in it.)
SignalStopsServer == g_shutdown_requested ~> ~Running
=============================================================================
