--------------------------- MODULE SandboxRuntime ---------------------------
(***************************************************************************)
(* One box of a worker: the engine process in which jobs run, over several *)
(* connections of the worker to the API.                                   *)
(*                                                                         *)
(*   worker.ts             connect, disconnect, the poll loop              *)
(*   sandbox/src/lib/sandbox.ts          execute: acquire, provision, run  *)
(*   sandbox/src/lib/sandbox-manager.ts  acquire, invalidate, release      *)
(*   sandbox/src/lib/sandbox/sandbox.ts  start, execute, shutdown          *)
(*   engine: worker-socket.ts            the engine's side of the socket   *)
(*                                                                         *)
(* Every connection brings up a runtime and a poll loop of its own; the    *)
(* loop of a lost connection goes on until its awaits end.  The boxes of a *)
(* worker share no state, hence one box per instance.                      *)
(***************************************************************************)
EXTENDS Naturals, FiniteSets

CONSTANTS
  MaxConnects, \* bound: connections of the worker
  MaxJobs,     \* bound: jobs handed to the worker
  MaxBinds,    \* maxAttempts of createSocketServer
  MaxFaults,   \* bound: engine crashes, lost sockets, slow kills, errors
  Exposures    \* situations the teardown does not provide for that may occur

ASSUME RuntimeAssumption ==
  /\ MaxConnects \in Nat \ {0} /\ MaxJobs \in Nat /\ MaxBinds \in Nat \ {0}
  /\ MaxFaults \in Nat
  /\ Exposures \subseteq {"abort", "drop", "kill"}

Loops == 1..MaxConnects
Boxes == 1..MaxJobs    \* a job gets the ready sandbox or a new one, named after the job
NoBox == 0

Preparing == {"resolve", "provision", "bind", "create"}
Places    == {"off", "poll", "connect", "run", "closing", "finish", "over"} \cup Preparing
Results   == {"none", "ok", "timeout", "memory", "error"}

VARIABLES
  setup,  \* whether sandboxes are reusable, and run by isolate on a fixed port
  up,     \* whether the worker is connected
  gen,    \* the connection: connections so far
  loop,   \* loop[g]: the poll loop of connection g and its job
  cur,    \* cur[g]: currentSandbox of the manager of connection g
  box,    \* box[s]: a sandbox and its engine process
  strays, \* processes and servers no variable of the worker refers to
  taken,  \* jobs handed over so far
  faults

vars == <<setup, up, gen, loop, cur, box, strays, taken, faults>>

(***************************************************************************)
(* A sandbox: its child process; whether its server listens, its socket is *)
(* connected and its handshake token is set; how far a shutdown got; its   *)
(* killedByShutdown; how its process ended; the operations its engine is   *)
(* executing; and whether a kill by the run's timer is on its way.         *)
(***************************************************************************)
Sandboxes ==
  [child : {"none", "boot", "up", "dead"}, server : BOOLEAN, socket : BOOLEAN,
   token : BOOLEAN, closing : {"no", "kill", "close"}, own : BOOLEAN,
   how : {"no", "exit", "oom", "killed"}, ops : SUBSET Boxes, killing : BOOLEAN]

Unused == [child |-> "none", server |-> FALSE, socket |-> FALSE, token |-> FALSE,
           closing |-> "no", own |-> FALSE, how |-> "no", ops |-> {}, killing |-> FALSE]

Off == [at |-> "off", job |-> 0, sb |-> NoBox, tries |-> 0, timedOut |-> FALSE,
        result |-> "none"]

TypeOK ==
  /\ setup \in [reusable : BOOLEAN, isolate : BOOLEAN]
  /\ up \in BOOLEAN /\ gen \in 0..MaxConnects
  /\ loop \in [Loops -> [at : Places, job : 0..MaxJobs, sb : Boxes \cup {NoBox},
                         tries : 0..(MaxBinds - 1), timedOut : BOOLEAN, result : Results]]
  /\ cur \in [Loops -> Boxes \cup {NoBox}]
  /\ box \in [Boxes -> Sandboxes]
  /\ strays \subseteq {"process", "server"}
  /\ taken \in 0..MaxJobs /\ faults \in 0..MaxFaults

Init ==
  /\ setup \in [reusable : BOOLEAN, isolate : BOOLEAN]
  /\ up = FALSE /\ gen = 0
  /\ loop = [g \in Loops |-> Off]
  /\ cur = [g \in Loops |-> NoBox]
  /\ box = [s \in Boxes |-> Unused]
  /\ strays = {} /\ taken = 0 /\ faults = 0

-----------------------------------------------------------------------------
Alive(s)     == box[s].child \in {"boot", "up"}
Ready(s)     == box[s].child = "up" /\ box[s].socket
Abandoned(g) == ~up \/ g # gen
PortFree     == setup.isolate => \A s \in Boxes : ~box[s].server

Fault == faults < MaxFaults /\ faults' = faults + 1

Goto(g, place) == loop' = [loop EXCEPT ![g].at = place]

\* The process is gone, and with it the socket and what it was executing.
Ended(b, how) == [b EXCEPT !.child = "dead", !.how = how, !.socket = FALSE, !.ops = {}]

Forked(b) == [b EXCEPT !.child = "boot", !.how = "no"]

\* Mutant of Sever: forgets the server instead of closing it.
SeverKeepsServer(b) == [b EXCEPT !.child = "none", !.socket = FALSE, !.token = FALSE,
                                 !.closing = "no"]

\* shutdown after the kill: the socket goes and the server begins to close.
Sever(b) == [b EXCEPT !.child = "none", !.socket = FALSE, !.token = b.token /\ b.server,
                      !.closing = IF b.server THEN "close" ELSE "no"]

\* Mutant of Shut: gives the port back before the process is killed.
ShutFreesPort(b) ==
  IF b.child = "none" THEN Sever(b)
  ELSE [b EXCEPT !.own = TRUE, !.closing = "kill", !.server = FALSE]

\* shutdown up to its first await.
Shut(b) == IF b.child = "none" THEN Sever(b)
           ELSE [b EXCEPT !.own = TRUE, !.closing = "kill"]

\* manager.invalidate up to its first await.
Invalidate(g) ==
  /\ cur' = [cur EXCEPT ![g] = NoBox]
  /\ box' = IF cur[g] = NoBox THEN box ELSE [box EXCEPT ![cur[g]] = Shut(@)]

\* Mutant of Fail: keeps a reusable sandbox for the next job.
FailKeepsSandbox(g, result) ==
  /\ loop' = [loop EXCEPT ![g].at = "finish", ![g].result = result]
  /\ UNCHANGED <<cur, box>>

\* execute throws: the manager's sandbox is shut down before the error goes on.
Fail(g, result) ==
  /\ loop' = [loop EXCEPT ![g].at = IF cur[g] = NoBox THEN "finish" ELSE "closing",
                          ![g].result = result]
  /\ Invalidate(g)

-----------------------------------------------------------------------------
(* The connection to the API and the poll loop. *)

Connect ==
  /\ ~up /\ gen < MaxConnects
  /\ up' = TRUE /\ gen' = gen + 1
  /\ loop' = [loop EXCEPT ![gen + 1].at = "poll"]
  /\ UNCHANGED <<setup, cur, box, strays, taken, faults>>

\* Mutant of Disconnect: leaves the runtime alone.
DisconnectOnly ==
  /\ up /\ (loop[gen].at \in Preparing => "abort" \in Exposures)
  /\ up' = FALSE
  /\ loop' = IF loop[gen].at = "poll" THEN [loop EXCEPT ![gen].at = "over"] ELSE loop
  /\ UNCHANGED <<setup, gen, cur, box, strays, taken, faults>>

\* The disconnect listener, with abortInFlightRuntime.
Disconnect ==
  /\ up /\ (loop[gen].at \in Preparing => "abort" \in Exposures)
  /\ up' = FALSE
  /\ loop' = IF loop[gen].at = "poll" THEN [loop EXCEPT ![gen].at = "over"] ELSE loop
  /\ Invalidate(gen)
  /\ UNCHANGED <<setup, gen, strays, taken, faults>>

TakeJob(g) ==
  /\ ~Abandoned(g) /\ loop[g].at = "poll" /\ taken < MaxJobs
  /\ taken' = taken + 1
  /\ loop' = [loop EXCEPT ![g] = [Off EXCEPT !.at = "resolve", !.job = taken + 1]]
  /\ UNCHANGED <<setup, up, gen, cur, box, strays, faults>>

\* executeJob is over; a lost connection ends the loop.
Finish(g) ==
  /\ \/ loop[g].at = "finish"
     \/ loop[g].at = "closing" /\ box[loop[g].sb].closing = "no"
  /\ loop' = [loop EXCEPT ![g] = [Off EXCEPT !.at = IF Abandoned(g) THEN "over" ELSE "poll"]]
  /\ UNCHANGED <<setup, up, gen, cur, box, strays, taken, faults>>

-----------------------------------------------------------------------------
(* execute: acquire, provision, start. *)

\* The workflow cannot be resolved, or is not to be run.
ResolveEnds(g) ==
  /\ loop[g].at = "resolve" /\ Fault
  /\ Goto(g, "finish")
  /\ UNCHANGED <<setup, up, gen, cur, box, strays, taken>>

\* manager.acquire: a sandbox that is not ready is shut down, not awaited.
Acquire(g) ==
  /\ loop[g].at = "resolve"
  /\ LET old   == cur[g]
         reuse == setup.reusable /\ old # NoBox /\ Ready(old)
         s     == IF reuse THEN old ELSE loop[g].job IN
       /\ loop' = [loop EXCEPT ![g].at = "provision", ![g].sb = s]
       /\ cur' = [cur EXCEPT ![g] = s]
       /\ box' = IF reuse \/ old = NoBox THEN box ELSE [box EXCEPT ![old] = Shut(@)]
  /\ UNCHANGED <<setup, up, gen, strays, taken, faults>>

ProvisionFails(g) ==
  /\ loop[g].at = "provision" /\ Fault
  /\ Fail(g, "error")
  /\ UNCHANGED <<setup, up, gen, strays, taken>>

\* sandbox.execute: the operation is sent to the engine.
Run(g) ==
  /\ loop' = [loop EXCEPT ![g].at = "run"]
  /\ box' = [box EXCEPT ![loop[g].sb].ops = @ \cup {loop[g].job}]
  /\ UNCHANGED cur

\* start: nothing to do for a sandbox that is ready.
Start(g) ==
  /\ loop[g].at = "provision"
  /\ IF Ready(loop[g].sb)
     THEN Run(g)
     ELSE Goto(g, "bind") /\ box' = [box EXCEPT ![loop[g].sb].token = TRUE] /\ UNCHANGED cur
  /\ UNCHANGED <<setup, up, gen, strays, taken, faults>>

\* createSocketServer, then processMaker.create: fork is done at once, isolate
\* prepares its box first and refuses an environment without the token.  A server
\* or a process the sandbox already has is forgotten.
Bind(g) ==
  /\ loop[g].at = "bind" /\ PortFree
  /\ LET s == loop[g].sb
         b == [box[s] EXCEPT !.server = TRUE] IN
       /\ Goto(g, CASE ~setup.isolate -> "connect"
                    [] setup.isolate /\ b.token -> "create"
                    [] OTHER -> "finish")
       /\ box' = [box EXCEPT ![s] = IF setup.isolate THEN b ELSE Forked(b)]
       /\ strays' = strays \cup (IF box[s].server THEN {"server"} ELSE {})
                           \cup (IF Alive(s) THEN {"process"} ELSE {})
  /\ UNCHANGED <<setup, up, gen, cur, taken, faults>>

\* Mutant of BindBusy: never gives up.
BindBusyForEver(g) ==
  /\ loop[g].at = "bind" /\ ~PortFree
  /\ loop' = [loop EXCEPT ![g].tries = @ + 1] /\ UNCHANGED <<cur, box>>
  /\ UNCHANGED <<setup, up, gen, strays, taken, faults>>

\* EADDRINUSE: tried again a few times.
BindBusy(g) ==
  /\ loop[g].at = "bind" /\ ~PortFree
  /\ IF loop[g].tries + 1 = MaxBinds
     THEN Fail(g, "error")
     ELSE loop' = [loop EXCEPT ![g].tries = @ + 1] /\ UNCHANGED <<cur, box>>
  /\ UNCHANGED <<setup, up, gen, strays, taken, faults>>

\* isolate has cleaned and initialised the box, and starts the engine in it.
Create(g) ==
  /\ loop[g].at = "create"
  /\ Goto(g, "connect")
  /\ box' = [box EXCEPT ![loop[g].sb] = Forked(@)]
  /\ UNCHANGED <<setup, up, gen, cur, strays, taken, faults>>

CreateFails(g) ==
  /\ loop[g].at = "create" /\ Fault
  /\ Fail(g, "error")
  /\ UNCHANGED <<setup, up, gen, strays, taken>>

Connected(g) ==
  /\ loop[g].at = "connect" /\ Ready(loop[g].sb)
  /\ Run(g)
  /\ UNCHANGED <<setup, up, gen, strays, taken, faults>>

\* The caller's deadline passed while the sandbox was starting.
DeadlinePassed(g) ==
  /\ \/ loop[g].at = "provision" /\ Ready(loop[g].sb)
     \/ loop[g].at = "connect" /\ Ready(loop[g].sb)
  /\ Fault /\ Fail(g, "timeout")
  /\ UNCHANGED <<setup, up, gen, strays, taken>>

\* Mutant of ConnectTimeout: waits for the connection without a timeout.
ConnectOnly(g) ==
  /\ loop[g].at = "connect" /\ ~Alive(loop[g].sb)
  /\ Fail(g, "error")
  /\ UNCHANGED <<setup, up, gen, strays, taken, faults>>

\* waitForConnection gives up, or the process closed before it connected.
ConnectTimeout(g) ==
  /\ loop[g].at = "connect" /\ ~Ready(loop[g].sb)
  /\ Fail(g, "error")
  /\ UNCHANGED <<setup, up, gen, strays, taken, faults>>

-----------------------------------------------------------------------------
(* execute: the run and its end. *)

\* The engine's answer; release shuts a sandbox down that is not reusable.
Answer(g) ==
  /\ loop[g].at = "run"
  /\ LET s == loop[g].sb IN
       /\ Ready(s) /\ loop[g].job \in box[s].ops
       /\ box[s].killing => "kill" \in Exposures
       /\ LET b == [box[s] EXCEPT !.ops = @ \ {loop[g].job}] IN
          IF setup.reusable \/ cur[g] = NoBox
          THEN /\ loop' = [loop EXCEPT ![g].at = "finish", ![g].result = "ok"]
               /\ box' = [box EXCEPT ![s] = b] /\ UNCHANGED cur
          ELSE /\ loop' = [loop EXCEPT ![g].at = "closing", ![g].result = "ok"]
               /\ box' = [box EXCEPT ![s] = Shut(b)] /\ cur' = [cur EXCEPT ![g] = NoBox]
  /\ UNCHANGED <<setup, up, gen, strays, taken, faults>>

\* The run's timeout: the process is looked up and killed.
Timer(g) ==
  /\ loop[g].at = "run" /\ ~loop[g].timedOut
  /\ loop' = [loop EXCEPT ![g].timedOut = TRUE]
  /\ box' = [box EXCEPT ![loop[g].sb].killing = TRUE]
  /\ UNCHANGED <<setup, up, gen, cur, strays, taken, faults>>

KillLands(s) ==
  /\ box[s].killing
  /\ box' = [box EXCEPT ![s] = [IF Alive(s) THEN Ended(@, "killed") ELSE @
                                  EXCEPT !.killing = FALSE]]
  /\ UNCHANGED <<setup, up, gen, loop, cur, strays, taken, faults>>

\* Mutant of ExitResult: every SIGKILL is a memory issue.
ExitResultNoShutdown(g) ==
  LET b == box[loop[g].sb] IN
  CASE loop[g].timedOut -> "timeout"
    [] ~loop[g].timedOut /\ b.how \in {"oom", "killed"} -> "memory"
    [] OTHER -> "error"

\* handleProcessExit: a SIGKILL that is not ours is the kernel's.
ExitResult(g) ==
  LET b == box[loop[g].sb] IN
  CASE loop[g].timedOut -> "timeout"
    [] ~loop[g].timedOut /\ b.how \in {"oom", "killed"} /\ ~b.own -> "memory"
    [] OTHER -> "error"

ProcessCloses(g) ==
  /\ loop[g].at = "run" /\ ~Alive(loop[g].sb)
  /\ Fail(g, ExitResult(g))
  /\ UNCHANGED <<setup, up, gen, strays, taken, faults>>

\* The call to the engine times out five seconds after the run: the kill failed
\* or is slow.
RpcTimeout(g) ==
  /\ loop[g].at = "run" /\ loop[g].timedOut /\ Alive(loop[g].sb) /\ Fault
  /\ Fail(g, "error")
  /\ UNCHANGED <<setup, up, gen, strays, taken>>

-----------------------------------------------------------------------------
(* shutdown after its awaits, and the engine process. *)

Kill(s) ==
  /\ box[s].closing = "kill"
  /\ box' = [box EXCEPT ![s] = Sever(IF Alive(s) THEN Ended(@, "killed") ELSE @)]
  /\ UNCHANGED <<setup, up, gen, loop, cur, strays, taken, faults>>

CloseServer(s) ==
  /\ box[s].closing = "close"
  /\ box' = [box EXCEPT ![s].closing = "no", ![s].server = FALSE, ![s].token = FALSE]
  /\ UNCHANGED <<setup, up, gen, loop, cur, strays, taken, faults>>

Reachable(s) == box[s].server /\ box[s].token /\ box[s].closing # "close"

EngineConnects(s) ==
  /\ box[s].child = "boot" /\ Reachable(s)
  /\ box' = [box EXCEPT ![s].child = "up", ![s].socket = TRUE]
  /\ UNCHANGED <<setup, up, gen, loop, cur, strays, taken, faults>>

\* The engine exits when it cannot connect, or has lost its socket.
EngineExits(s) ==
  /\ \/ box[s].child = "boot" /\ ~Reachable(s)
     \/ box[s].child = "up" /\ ~box[s].socket
  /\ box' = [box EXCEPT ![s] = Ended(@, "exit")]
  /\ UNCHANGED <<setup, up, gen, loop, cur, strays, taken, faults>>

\* A sandbox found ready by acquire and not yet used by start.
Chosen(s) == \E g \in Loops : loop[g].at = "provision" /\ loop[g].sb = s

Crash(s) ==
  /\ Alive(s) /\ Fault /\ (Chosen(s) => "drop" \in Exposures)
  /\ \E how \in {"exit", "oom"} : box' = [box EXCEPT ![s] = Ended(@, how)]
  /\ UNCHANGED <<setup, up, gen, loop, cur, strays, taken>>

\* An engine that does not answer pings loses its socket and goes on for a while.
LoseSocket(s) ==
  /\ Ready(s) /\ Fault /\ (Chosen(s) => "drop" \in Exposures)
  /\ box' = [box EXCEPT ![s].socket = FALSE]
  /\ UNCHANGED <<setup, up, gen, loop, cur, strays, taken>>

-----------------------------------------------------------------------------
Prepare(g) == Acquire(g) \/ Start(g) \/ Bind(g) \/ BindBusy(g) \/ Create(g)

LoopStep(g) ==
  \/ Prepare(g) \/ Connected(g) \/ ConnectTimeout(g) \/ Timer(g) \/ ProcessCloses(g)
  \/ Finish(g)

LoopFault(g) ==
  \/ ResolveEnds(g) \/ ProvisionFails(g) \/ CreateFails(g) \/ DeadlinePassed(g)
  \/ RpcTimeout(g)

ShutdownStep(s) == Kill(s) \/ CloseServer(s) \/ KillLands(s)

EngineStep(s) == EngineConnects(s) \/ EngineExits(s) \/ Crash(s) \/ LoseSocket(s)

Next ==
  \/ Connect \/ Disconnect
  \/ \E g \in Loops : TakeJob(g) \/ LoopStep(g) \/ LoopFault(g) \/ Answer(g)
  \/ \E s \in Boxes : ShutdownStep(s) \/ EngineStep(s)

Spec == Init /\ [][Next]_vars

\* Timers fire, awaits end and kills land; the engine, which runs the users'
\* code, owes nothing.
Fairness ==
  /\ \A g \in Loops : WF_vars(LoopStep(g))
  /\ \A s \in Boxes : WF_vars(ShutdownStep(s))

FairSpec == Spec /\ Fairness

-----------------------------------------------------------------------------
(* Properties. *)

\* An engine executes one operation at a time: a sandbox whose operation failed
\* or was given up is never handed to the next job.
OneOperation == \A s \in Boxes : Cardinality(box[s].ops) <= 1

\* When the worker loses its connection, the API gives its job to another worker;
\* here no engine goes on with it except one that is about to be killed.
NoAbandonedRun ==
  \A s \in Boxes : \A g \in Loops :
    loop[g].at = "run" /\ loop[g].sb = s /\ Abandoned(g) /\ box[s].ops # {}
      => box[s].closing = "kill"

\* A box of isolate, with its fixed port and directory, never has two processes:
\* the port is given back after the kill and taken before the next process is
\* created.
OneProcessPerBox ==
  setup.isolate => \A s, t \in Boxes : Alive(s) /\ Alive(t) => s = t

\* A process or a server belongs to the manager of the current connection, to a
\* job in progress, or to a shutdown in progress: nothing is left running.
NothingLeaks ==
  /\ strays = {}
  /\ \A s \in Boxes : Alive(s) \/ box[s].server =>
       \/ box[s].closing # "no"
       \/ \E g \in Loops : ~Abandoned(g) /\ cur[g] = s
       \/ \E g \in Loops : loop[g].sb = s /\ loop[g].at \in Preparing \cup {"connect", "run"}

\* A run is reported as out of memory only if the kernel killed its process, not
\* when the worker did.
NoFalseBlame ==
  \A g \in Loops : loop[g].result = "memory" => box[loop[g].sb].how = "oom"

\* Every job the worker has taken comes to an end, whatever the engine does.
EveryJobEnds ==
  \A g \in Loops : loop[g].at \notin {"off", "poll", "over"} ~> loop[g].at \in {"poll", "over"}
=============================================================================
