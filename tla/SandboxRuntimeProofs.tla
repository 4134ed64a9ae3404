------------------------ MODULE SandboxRuntimeProofs ------------------------
(***************************************************************************)
(* One box of a worker, for any number of connections, jobs, bind attempts *)
(* and faults: types always; and, while none of the situations of          *)
(* Exposures occurs, what the teardown promises.                           *)
(***************************************************************************)
EXTENDS SandboxRuntime, FiniteSetTheorems, TLAPS

(***************************************************************************)
(* The manager of a connection keeps at most one sandbox, and it is the    *)
(* manager of the current connection: a disconnect takes the sandbox of    *)
(* the old one away.  A sandbox that runs or listens is kept, or is being  *)
(* shut down.  So a job that goes on after its connection was lost has a   *)
(* sandbox whose kill is under way or over, and a new process is created   *)
(* only in a sandbox that has none.                                        *)
(***************************************************************************)

Idle   == {"off", "poll", "resolve", "over"}
Active == {"connect", "run"}

\* A loop that has a job knows which.
HasJob == \A g \in Loops : loop[g].at \notin {"off", "poll", "over"} => loop[g].job \in Boxes

Types == TypeOK /\ HasJob

\* Only the current connection prepares a sandbox or keeps one; a connection to
\* come has no loop yet.
CurrentOnly ==
  /\ up => gen \in Loops
  /\ \A g \in Loops : g > gen => loop[g].at = "off"
  /\ \A g \in Loops : loop[g].at \in Preparing \/ cur[g] # NoBox => ~Abandoned(g)

\* No two loops have the same sandbox, and no manager keeps another loop's.
Separate ==
  \A g, h \in Loops :
    loop[g].sb # NoBox /\ (loop[g].sb = loop[h].sb \/ loop[g].sb = cur[h]) => g = h

Fresh(s) == box[s] = Unused /\ \A g \in Loops : cur[g] # s /\ loop[g].sb # s

\* A sandbox is named after a job: it is new until that job needs it.
Unnamed ==
  /\ \A s \in Boxes : s > taken => Fresh(s)
  /\ \A g \in Loops : loop[g].at = "resolve" => loop[g].job <= taken /\ Fresh(loop[g].job)

\* The sandbox of a loop, by where the loop is.  A loop whose manager lost the
\* sandbox to a disconnect has one that is being killed or has been.
LoopShape ==
  \A g \in Loops :
    LET s == loop[g].sb IN
    /\ loop[g].at \in Idle => s = NoBox /\ loop[g].result = "none"
    /\ loop[g].at \in {"provision", "bind", "create"} => s \in Boxes /\ cur[g] = s
    /\ loop[g].at \in Active =>
         /\ s \in Boxes
         /\ cur[g] = s \/ (cur[g] = NoBox /\ (box[s].closing = "kill" \/ box[s].child = "none"))
    /\ loop[g].at = "closing" => s \in Boxes /\ cur[g] = NoBox

\* What a sandbox has, by the state of its process and of its shutdown.
BoxShape ==
  \A s \in Boxes :
    /\ box[s].child # "up" => ~box[s].socket /\ box[s].ops = {}
    /\ Alive(s) => box[s].how = "no"
    /\ box[s].closing = "kill" => box[s].child # "none" /\ box[s].own
    /\ box[s].closing = "close" => box[s].child = "none" /\ box[s].server

\* A sandbox that runs or listens and is not being shut down has a manager, and
\* a manager has no sandbox that is being shut down.
Kept ==
  \A s \in Boxes :
    /\ (Alive(s) \/ box[s].server) /\ box[s].closing = "no" => \E g \in Loops : cur[g] = s
    /\ \A g \in Loops : cur[g] = s => box[s].closing = "no"

\* How far the start of a sandbox got.
Started ==
  \A g \in Loops :
    LET s == loop[g].sb IN
    /\ loop[g].at = "provision" =>
         Ready(s) \/ (box[s].child = "none" /\ ~box[s].server)
    /\ loop[g].at = "bind" => box[s].child = "none" /\ ~box[s].server /\ box[s].token
    /\ loop[g].at = "create" => box[s].child = "none" /\ box[s].server

\* Between two runs the engine of a kept sandbox is idle and no kill is on its
\* way to it; during a run it has at most that run's operation.
Quiet ==
  /\ \A g \in Loops : loop[g].at # "run" /\ cur[g] # NoBox =>
       box[cur[g]].ops = {} /\ ~box[cur[g]].killing
  /\ \A g \in Loops : loop[g].at = "connect" =>
       box[loop[g].sb].ops = {} /\ ~box[loop[g].sb].killing
  /\ \A s \in Boxes : \A a, b \in box[s].ops : a = b

\* A process that the worker kills is killed by a shutdown or by the run's timer.
Blame ==
  \A g \in Loops :
    LET s == loop[g].sb IN
    /\ loop[g].at \in Active /\ (box[s].killing \/ box[s].how = "killed") =>
         box[s].own \/ (loop[g].at = "run" /\ loop[g].timedOut)
    /\ loop[g].result = "memory" =>
         /\ loop[g].at \in {"closing", "finish"} /\ s \in Boxes
         /\ ~Alive(s) /\ box[s].how = "oom"

\* Under isolate one sandbox has the port, and only it can have a process.
Port ==
  setup.isolate =>
    /\ \A s, t \in Boxes : box[s].server /\ box[t].server => s = t
    /\ \A s \in Boxes : Alive(s) => box[s].server

RuntimeInv ==
  /\ Types /\ CurrentOnly /\ Separate /\ Unnamed /\ LoopShape /\ BoxShape
  /\ Kept /\ Started /\ Quiet /\ Blame /\ Port /\ strays = {}

-----------------------------------------------------------------------------
Jobs  == [at : Places, job : 0..MaxJobs, sb : Boxes \cup {NoBox},
          tries : 0..(MaxBinds - 1), timedOut : BOOLEAN, result : Results]

LEMMA NoBoxIsNoBox == NoBox \notin Boxes
  BY DEF NoBox, Boxes

LEMMA BoxUpdates ==
  ASSUME NEW b \in Sandboxes, NEW how \in {"no", "exit", "oom", "killed"}
  PROVE  /\ Ended(b, how) \in Sandboxes /\ Forked(b) \in Sandboxes
         /\ Sever(b) \in Sandboxes /\ Shut(b) \in Sandboxes
<1>1. Ended(b, how) \in Sandboxes BY DEF Ended, Sandboxes
<1>2. Forked(b) \in Sandboxes BY DEF Forked, Sandboxes
<1>3. Sever(b) \in Sandboxes BY DEF Sever, Sandboxes
<1>4. [b EXCEPT !.own = TRUE, !.closing = "kill"] \in Sandboxes BY DEF Sandboxes
<1>5. Shut(b) \in Sandboxes BY <1>3, <1>4 DEF Shut
<1>6. QED BY <1>1, <1>2, <1>3, <1>5

LEMMA FlagUpdates ==
  ASSUME NEW b \in Sandboxes
  PROVE  /\ [b EXCEPT !.server = TRUE] \in Sandboxes
         /\ [b EXCEPT !.token = TRUE] \in Sandboxes
         /\ [b EXCEPT !.killing = TRUE] \in Sandboxes
  BY DEF Sandboxes

\* One job and one sandbox may change in a step.
LEMMA SetLoop ==
  ASSUME TypeOK, NEW g, NEW j \in Jobs
  PROVE  [loop EXCEPT ![g] = j] \in [Loops -> Jobs]
  BY DEF TypeOK, Jobs

LEMMA SetBox ==
  ASSUME TypeOK, NEW s, NEW b, s \in Boxes => b \in Sandboxes
  PROVE  [box EXCEPT ![s] = b] \in [Boxes -> Sandboxes]
  BY DEF TypeOK

LEMMA InvalidateTypes ==
  ASSUME TypeOK, NEW g \in Loops, Invalidate(g)
  PROVE  cur' \in [Loops -> Boxes \cup {NoBox}] /\ box' \in [Boxes -> Sandboxes]
<1>1. cur[g] \in Boxes => Shut(box[cur[g]]) \in Sandboxes
  BY BoxUpdates DEF TypeOK
<1>2. box' \in [Boxes -> Sandboxes]
  BY <1>1, SetBox DEF Invalidate, TypeOK
<1>3. cur' \in [Loops -> Boxes \cup {NoBox}]
  BY DEF Invalidate, TypeOK
<1>4. QED BY <1>2, <1>3

LEMMA FailTypes ==
  ASSUME TypeOK, NEW g \in Loops, NEW result \in Results, Fail(g, result)
  PROVE  /\ loop' \in [Loops -> Jobs] /\ cur' \in [Loops -> Boxes \cup {NoBox}]
         /\ box' \in [Boxes -> Sandboxes]
<1> DEFINE place == IF cur[g] = NoBox THEN "finish" ELSE "closing"
<1>1. [loop[g] EXCEPT !.at = place, !.result = result] \in Jobs
  BY DEF TypeOK, Jobs, Places
<1>2. loop' = [loop EXCEPT ![g] = [loop[g] EXCEPT !.at = place, !.result = result]]
  BY DEF Fail, TypeOK
<1>3. loop' \in [Loops -> Jobs]
  BY <1>1, <1>2, SetLoop
<1>4. QED BY <1>3, InvalidateTypes DEF Fail

LEMMA OffIsJob == Off \in Jobs /\ Unused \in Sandboxes
<1>1. Off \in Jobs BY RuntimeAssumption DEF Off, Jobs, Places, Results
<1>2. Unused \in Sandboxes BY DEF Unused, Sandboxes
<1>3. QED BY <1>1, <1>2

LEMMA InitTypes == Init => Types
<1> SUFFICES ASSUME Init PROVE Types OBVIOUS
<1>1. loop \in [Loops -> Jobs] /\ box \in [Boxes -> Sandboxes] BY OffIsJob DEF Init
<1>2. HasJob BY DEF Init, HasJob, Off
<1>3. cur \in [Loops -> Boxes \cup {NoBox}] BY DEF Init
<1>4. gen \in 0..MaxConnects /\ taken \in 0..MaxJobs /\ faults \in 0..MaxFaults
  BY RuntimeAssumption DEF Init
<1>5. up \in BOOLEAN BY DEF Init
<1>6. QED BY <1>1, <1>2, <1>3, <1>4, <1>5 DEF Init, Types, TypeOK, Jobs

LEMMA FaultTypes == ASSUME TypeOK, Fault PROVE faults' \in 0..MaxFaults
  BY RuntimeAssumption DEF TypeOK, Fault

\* A step that sends a loop somewhere else, and what it does to the sandboxes.
LEMMA GotoTypes ==
  ASSUME Types, NEW g \in Loops, NEW place \in Places, Goto(g, place),
         place \in {"off", "poll", "over"} \/ loop[g].job \in Boxes
  PROVE  loop' \in [Loops -> Jobs] /\ HasJob'
<1>1. [loop[g] EXCEPT !.at = place] \in Jobs BY DEF Types, TypeOK, Jobs
<1>2. loop' = [loop EXCEPT ![g] = [loop[g] EXCEPT !.at = place]]
  BY DEF Goto, Types, TypeOK
<1>3. loop' \in [Loops -> Jobs] BY <1>1, <1>2, SetLoop DEF Types
<1>4. HasJob' BY <1>2 DEF Types, TypeOK, HasJob
<1>5. QED BY <1>3, <1>4

LEMMA RunTypes ==
  ASSUME Types, NEW g \in Loops, loop[g].job \in Boxes, Run(g)
  PROVE  loop' \in [Loops -> Jobs] /\ HasJob' /\ box' \in [Boxes -> Sandboxes]
<1>1. loop' \in [Loops -> Jobs] /\ HasJob'
  BY GotoTypes DEF Run, Goto, Places
<1>2. ASSUME loop[g].sb \in Boxes
      PROVE  [box[loop[g].sb] EXCEPT !.ops = @ \cup {loop[g].job}] \in Sandboxes
  <2>1. box[loop[g].sb] \in Sandboxes BY <1>2 DEF Types, TypeOK
  <2>2. box[loop[g].sb].ops \cup {loop[g].job} \in SUBSET Boxes BY <2>1 DEF Sandboxes
  <2>3. QED BY <2>1, <2>2 DEF Sandboxes
<1>3. box' \in [Boxes -> Sandboxes]
  BY <1>2, SetBox DEF Run, Types
<1>4. QED BY <1>1, <1>3

LEMMA FailHasJob ==
  ASSUME Types, NEW g \in Loops, loop[g].job \in Boxes, NEW result, Fail(g, result)
  PROVE  HasJob'
  BY DEF Types, TypeOK, HasJob, Fail

LEMMA ConnectionTypes ==
  ASSUME Types, Connect \/ Disconnect PROVE Types'
<1> USE RuntimeAssumption
<1>1. CASE Connect
  <2>1. gen + 1 \in Loops BY <1>1 DEF Connect, Types, TypeOK, Loops
  <2>2. Goto(gen + 1, "poll") BY <1>1 DEF Connect, Goto
  <2>3. loop' \in [Loops -> Jobs] /\ HasJob' BY <2>1, <2>2, GotoTypes DEF Places
  <2>4. QED BY <1>1, <2>1, <2>3 DEF Connect, Types, TypeOK, Jobs, Loops
<1>2. CASE Disconnect
  <2>1. loop' \in [Loops -> Jobs] /\ HasJob'
    <3>1. CASE gen \in Loops /\ loop[gen].at = "poll"
      BY <1>2, <3>1, GotoTypes DEF Disconnect, Goto, Places
    <3>2. CASE ~(gen \in Loops /\ loop[gen].at = "poll")
      BY <1>2, <3>2 DEF Disconnect, Types, TypeOK, HasJob, Jobs
    <3>3. QED BY <3>1, <3>2
  <2>2. cur' \in [Loops -> Boxes \cup {NoBox}] /\ box' \in [Boxes -> Sandboxes]
    <3>1. cur' \in [Loops -> Boxes \cup {NoBox}]
      BY <1>2 DEF Disconnect, Invalidate, Types, TypeOK
    <3>2. cur[gen] \in Boxes => Shut(box[cur[gen]]) \in Sandboxes
      BY BoxUpdates DEF Types, TypeOK
    <3>3. box' \in [Boxes -> Sandboxes]
      BY <1>2, <3>2, SetBox DEF Disconnect, Invalidate, Types, TypeOK
    <3>4. QED BY <3>1, <3>3
  <2>3. QED BY <1>2, <2>1, <2>2 DEF Disconnect, Types, TypeOK, Jobs
<1>3. QED BY <1>1, <1>2

LEMMA PrepareTypes ==
  ASSUME Types, NEW g \in Loops, Prepare(g) PROVE Types'
<1> USE RuntimeAssumption
<1>1. CASE Acquire(g)
  <2> DEFINE old   == cur[g]
             reuse == setup.reusable /\ old # NoBox /\ Ready(old)
             s     == IF reuse THEN old ELSE loop[g].job
  <2>1. loop[g].job \in Boxes BY <1>1 DEF Acquire, Types, HasJob
  <2>2. s \in Boxes \cup {NoBox} BY <2>1 DEF Types, TypeOK
  <2>3. [loop[g] EXCEPT !.at = "provision", !.sb = s] \in Jobs
    <3>1. loop[g] \in Jobs BY DEF Types, TypeOK, Jobs
    <3> HIDE DEF s
    <3>2. QED BY <2>2, <3>1 DEF Jobs, Places, Preparing
  <2>4. loop' = [loop EXCEPT ![g] = [loop[g] EXCEPT !.at = "provision", !.sb = s]]
    BY <1>1 DEF Acquire, Types, TypeOK
  <2>5. loop' \in [Loops -> Jobs] BY <2>3, <2>4, SetLoop DEF Types
  <2>6. HasJob' BY <2>1, <2>4 DEF Types, TypeOK, HasJob
  <2>7. cur' \in [Loops -> Boxes \cup {NoBox}] BY <1>1, <2>2 DEF Acquire, Types, TypeOK
  <2>8. old \in Boxes => Shut(box[old]) \in Sandboxes BY BoxUpdates DEF Types, TypeOK
  <2>9. box' \in [Boxes -> Sandboxes]
    BY <1>1, <2>8, SetBox DEF Acquire, Types, TypeOK
  <2>10. QED BY <1>1, <2>5, <2>6, <2>7, <2>9 DEF Acquire, Types, TypeOK, Jobs
<1>2. CASE Start(g)
  <2>1. loop[g].job \in Boxes BY <1>2 DEF Start, Types, HasJob
  <2>2. CASE Ready(loop[g].sb)
    BY <1>2, <2>1, <2>2, RunTypes DEF Start, Run, Types, TypeOK, Jobs
  <2>3. CASE ~Ready(loop[g].sb)
    <3>1. loop' \in [Loops -> Jobs] /\ HasJob'
      BY <1>2, <2>1, <2>3, GotoTypes DEF Start, Places, Preparing
    <3>2. loop[g].sb \in Boxes => [box[loop[g].sb] EXCEPT !.token = TRUE] \in Sandboxes
      BY FlagUpdates DEF Types, TypeOK
    <3>3. box' \in [Boxes -> Sandboxes]
      BY <1>2, <2>3, <3>2, SetBox DEF Start, Types
    <3>4. QED BY <1>2, <2>3, <3>1, <3>3 DEF Start, Types, TypeOK, Jobs
  <2>4. QED BY <2>2, <2>3
<1>3. CASE Bind(g)
  <2> DEFINE s == loop[g].sb
             b == [box[s] EXCEPT !.server = TRUE]
  <2>1. loop[g].job \in Boxes BY <1>3 DEF Bind, Types, HasJob
  <2>2. \E place \in Places : Goto(g, place)
    BY <1>3 DEF Bind, Places, Preparing
  <2>3. loop' \in [Loops -> Jobs] /\ HasJob' BY <2>1, <2>2, GotoTypes
  <2>4. s \in Boxes => b \in Sandboxes BY FlagUpdates DEF Types, TypeOK
  <2>5. s \in Boxes => Forked(b) \in Sandboxes BY <2>4, BoxUpdates
  <2>6. box' \in [Boxes -> Sandboxes]
    BY <1>3, <2>4, <2>5, SetBox DEF Bind, Types
  <2>7. strays' \subseteq {"process", "server"} BY <1>3 DEF Bind, Types, TypeOK
  <2>8. QED BY <1>3, <2>3, <2>6, <2>7 DEF Bind, Types, TypeOK, Jobs
<1>4. CASE BindBusy(g)
  <2>1. loop[g].job \in Boxes BY <1>4 DEF BindBusy, Types, HasJob
  <2>2. CASE loop[g].tries + 1 = MaxBinds
    BY <1>4, <2>1, <2>2, FailTypes, FailHasJob DEF BindBusy, Types, TypeOK, Jobs, Results
  <2>3. CASE loop[g].tries + 1 # MaxBinds
    <3>1. [loop[g] EXCEPT !.tries = @ + 1] \in Jobs
      BY <2>3 DEF Types, TypeOK, Jobs
    <3>2. loop' = [loop EXCEPT ![g] = [loop[g] EXCEPT !.tries = @ + 1]]
      BY <1>4, <2>3 DEF BindBusy, Types, TypeOK
    <3>3. loop' \in [Loops -> Jobs] BY <3>1, <3>2, SetLoop DEF Types
    <3>4. HasJob' BY <3>2 DEF Types, TypeOK, HasJob
    <3>5. QED BY <1>4, <2>3, <3>3, <3>4 DEF BindBusy, Types, TypeOK, Jobs
  <2>4. QED BY <2>2, <2>3
<1>5. CASE Create(g)
  <2>1. loop[g].job \in Boxes BY <1>5 DEF Create, Types, HasJob
  <2>2. loop' \in [Loops -> Jobs] /\ HasJob'
    BY <1>5, <2>1, GotoTypes DEF Create, Places
  <2>3. loop[g].sb \in Boxes => Forked(box[loop[g].sb]) \in Sandboxes
    BY BoxUpdates DEF Types, TypeOK
  <2>4. box' \in [Boxes -> Sandboxes] BY <1>5, <2>3, SetBox DEF Create, Types
  <2>5. QED BY <1>5, <2>2, <2>4 DEF Create, Types, TypeOK, Jobs
<1>6. QED BY <1>1, <1>2, <1>3, <1>4, <1>5 DEF Prepare

\* The steps of a job that fail it: nothing but what Fail says.
LEMMA FailStepTypes ==
  ASSUME Types, NEW g \in Loops,
         \/ ConnectTimeout(g) \/ ProcessCloses(g) \/ ProvisionFails(g) \/ CreateFails(g)
         \/ DeadlinePassed(g) \/ RpcTimeout(g)
  PROVE  Types'
<1>1. loop[g].job \in Boxes
  BY DEF ConnectTimeout, ProcessCloses, ProvisionFails, CreateFails, DeadlinePassed,
         RpcTimeout, Types, HasJob
<1>2. \E result \in Results : Fail(g, result)
  BY DEF ConnectTimeout, ProcessCloses, ProvisionFails, CreateFails, DeadlinePassed,
         RpcTimeout, Results, ExitResult
<1>3. faults' \in 0..MaxFaults
  BY FaultTypes DEF ConnectTimeout, ProcessCloses, ProvisionFails, CreateFails,
     DeadlinePassed, RpcTimeout, Types, TypeOK
<1>4. UNCHANGED <<setup, up, gen, strays, taken>>
  BY DEF ConnectTimeout, ProcessCloses, ProvisionFails, CreateFails, DeadlinePassed,
         RpcTimeout
<1>5. QED BY <1>1, <1>2, <1>3, <1>4, FailTypes, FailHasJob DEF Types, TypeOK, Jobs

LEMMA JobTypes ==
  ASSUME Types, NEW g \in Loops,
         \/ TakeJob(g) \/ Connected(g) \/ Timer(g) \/ Finish(g) \/ ResolveEnds(g)
         \/ Answer(g)
  PROVE  Types'
<1> USE RuntimeAssumption
<1>1. CASE TakeJob(g) \/ Finish(g)
  <2> DEFINE Began == [Off EXCEPT !.at = "resolve", !.job = taken + 1]
             Over  == [Off EXCEPT !.at = IF Abandoned(g) THEN "over" ELSE "poll"]
  <2>1. taken < MaxJobs => Began \in Jobs /\ Began.job \in Boxes
    <3> SUFFICES ASSUME taken < MaxJobs PROVE Began \in Jobs /\ Began.job \in Boxes OBVIOUS
    <3>1. taken + 1 \in 0..MaxJobs /\ taken + 1 \in Boxes BY DEF Types, TypeOK, Boxes
    <3>2. Began.job = taken + 1 BY DEF Off
    <3>3. Began \in Jobs BY <3>1, OffIsJob DEF Jobs, Places, Preparing
    <3>4. QED BY <3>1, <3>2, <3>3
  <2>2. Over \in Jobs /\ Over.at \in {"over", "poll"} BY OffIsJob DEF Off, Jobs, Places
  <2>3. PICK j \in {Began, Over} : j \in Jobs /\ loop' = [loop EXCEPT ![g] = j]
        /\ (j.at \in {"poll", "over"} \/ j.job \in Boxes)
    BY <1>1, <2>1, <2>2 DEF TakeJob, Finish
  <2>4. loop' \in [Loops -> Jobs] BY <2>3, SetLoop DEF Types
  <2>5. HasJob' BY <2>3 DEF Types, TypeOK, HasJob
  <2>6. taken' \in 0..MaxJobs BY <1>1 DEF TakeJob, Finish, Types, TypeOK
  <2>7. QED BY <1>1, <2>4, <2>5, <2>6 DEF TakeJob, Finish, Types, TypeOK, Jobs
<1>2. CASE Connected(g)
  <2>1. loop[g].job \in Boxes BY <1>2 DEF Connected, Types, HasJob
  <2>2. QED BY <1>2, <2>1, RunTypes DEF Connected, Run, Types, TypeOK, Jobs
<1>3. CASE Timer(g)
  <2>1. [loop[g] EXCEPT !.timedOut = TRUE] \in Jobs BY DEF Types, TypeOK, Jobs
  <2>2. loop' = [loop EXCEPT ![g] = [loop[g] EXCEPT !.timedOut = TRUE]]
    BY <1>3 DEF Timer, Types, TypeOK
  <2>3. loop' \in [Loops -> Jobs] BY <2>1, <2>2, SetLoop DEF Types
  <2>4. HasJob' BY <2>2 DEF Types, TypeOK, HasJob
  <2>5. loop[g].sb \in Boxes => [box[loop[g].sb] EXCEPT !.killing = TRUE] \in Sandboxes
    BY FlagUpdates DEF Types, TypeOK
  <2>6. box' \in [Boxes -> Sandboxes] BY <1>3, <2>5, SetBox DEF Timer, Types
  <2>7. QED BY <1>3, <2>3, <2>4, <2>6 DEF Timer, Types, TypeOK, Jobs
<1>4. CASE ResolveEnds(g)
  <2>1. loop[g].job \in Boxes BY <1>4 DEF ResolveEnds, Types, HasJob
  <2>2. QED BY <1>4, <2>1, GotoTypes, FaultTypes DEF ResolveEnds, Types, TypeOK, Jobs, Places
<1>5. CASE Answer(g)
  <2> DEFINE s == loop[g].sb
             b == [box[s] EXCEPT !.ops = @ \ {loop[g].job}]
  <2>1. loop[g].job \in Boxes BY <1>5 DEF Answer, Types, HasJob
  <2>2. s \in Boxes => b \in Sandboxes
    <3> SUFFICES ASSUME s \in Boxes PROVE b \in Sandboxes OBVIOUS
    <3>1. box[s] \in Sandboxes BY DEF Types, TypeOK
    <3>2. box[s].ops \ {loop[g].job} \in SUBSET Boxes BY <3>1 DEF Sandboxes
    <3>3. QED BY <3>1, <3>2 DEF Sandboxes
  <2>3. s \in Boxes => Shut(b) \in Sandboxes BY <2>2, BoxUpdates
  <2>4. box' \in [Boxes -> Sandboxes]
    BY <1>5, <2>2, <2>3, SetBox DEF Answer, Types
  <2>5. PICK place \in {"finish", "closing"} :
          loop' = [loop EXCEPT ![g].at = place, ![g].result = "ok"]
    BY <1>5 DEF Answer
  <2>6. loop' = [loop EXCEPT ![g] = [loop[g] EXCEPT !.at = place, !.result = "ok"]]
    BY <2>5 DEF Types, TypeOK
  <2>7. [loop[g] EXCEPT !.at = place, !.result = "ok"] \in Jobs
    <3>1. loop[g] \in Jobs BY DEF Types, TypeOK, Jobs
    <3>2. QED BY <3>1 DEF Jobs, Places, Results
  <2>8. loop' \in [Loops -> Jobs] BY <2>6, <2>7, SetLoop DEF Types
  <2>9. HasJob' BY <2>1, <2>6 DEF Types, TypeOK, HasJob
  <2>10. cur' \in [Loops -> Boxes \cup {NoBox}] BY <1>5 DEF Answer, Types, TypeOK
  <2>11. QED BY <1>5, <2>4, <2>8, <2>9, <2>10 DEF Answer, Types, TypeOK, Jobs
<1>6. QED BY <1>1, <1>2, <1>3, <1>4, <1>5

LEMMA BoxTypes ==
  ASSUME Types, NEW s \in Boxes, ShutdownStep(s) \/ EngineStep(s) PROVE Types'
<1>0. box[s] \in Sandboxes BY DEF Types, TypeOK
<1>1. CASE ShutdownStep(s)
  <2>1. PICK b \in Sandboxes : box' = [box EXCEPT ![s] = b]
    <3>1. CASE Kill(s)
      <4>1. Ended(box[s], "killed") \in Sandboxes BY <1>0, BoxUpdates
      <4>2. Sever(IF Alive(s) THEN Ended(box[s], "killed") ELSE box[s]) \in Sandboxes
        BY <1>0, <4>1, BoxUpdates
      <4>3. QED BY <3>1, <4>2 DEF Kill
    <3>2. CASE CloseServer(s)
      <4>1. [box[s] EXCEPT !.closing = "no", !.server = FALSE, !.token = FALSE] \in Sandboxes
        BY <1>0 DEF Sandboxes
      <4>2. box' = [box EXCEPT ![s] = [box[s] EXCEPT !.closing = "no", !.server = FALSE,
                                                     !.token = FALSE]]
        BY <3>2 DEF CloseServer, Types, TypeOK
      <4>3. QED BY <4>1, <4>2
    <3>3. CASE KillLands(s)
      <4> DEFINE b == IF Alive(s) THEN Ended(box[s], "killed") ELSE box[s]
      <4>1. b \in Sandboxes BY <1>0, BoxUpdates
      <4>2. [b EXCEPT !.killing = FALSE] \in Sandboxes BY <4>1 DEF Sandboxes
      <4>3. QED BY <3>3, <4>2 DEF KillLands
    <3>4. QED BY <1>1, <3>1, <3>2, <3>3 DEF ShutdownStep
  <2>2. UNCHANGED <<setup, up, gen, loop, cur, strays, taken, faults>>
    BY <1>1 DEF ShutdownStep, Kill, CloseServer, KillLands
  <2>3. box' \in [Boxes -> Sandboxes] BY <2>1, SetBox DEF Types
  <2>4. QED BY <2>2, <2>3 DEF Types, TypeOK, HasJob
<1>2. CASE EngineStep(s)
  <2>1. PICK b \in Sandboxes : box' = [box EXCEPT ![s] = b]
    <3>1. CASE EngineConnects(s)
      <4>1. [box[s] EXCEPT !.child = "up", !.socket = TRUE] \in Sandboxes
        BY <1>0 DEF Sandboxes
      <4>2. box' = [box EXCEPT ![s] = [box[s] EXCEPT !.child = "up", !.socket = TRUE]]
        BY <3>1 DEF EngineConnects, Types, TypeOK
      <4>3. QED BY <4>1, <4>2
    <3>2. CASE EngineExits(s) BY <1>0, <3>2, BoxUpdates DEF EngineExits
    <3>3. CASE Crash(s)
      <4>1. \A how \in {"exit", "oom"} : Ended(box[s], how) \in Sandboxes
        BY <1>0, BoxUpdates
      <4>2. QED BY <3>3, <4>1 DEF Crash
    <3>4. CASE LoseSocket(s)
      <4>1. [box[s] EXCEPT !.socket = FALSE] \in Sandboxes BY <1>0 DEF Sandboxes
      <4>2. QED BY <3>4, <4>1 DEF LoseSocket
    <3>5. QED BY <1>2, <3>1, <3>2, <3>3, <3>4 DEF EngineStep
  <2>2. UNCHANGED <<setup, up, gen, loop, cur, strays, taken>>
    BY <1>2 DEF EngineStep, EngineConnects, EngineExits, Crash, LoseSocket
  <2>3. faults' \in 0..MaxFaults
    BY <1>2, FaultTypes DEF EngineStep, EngineConnects, EngineExits, Crash, LoseSocket,
       Types, TypeOK
  <2>4. box' \in [Boxes -> Sandboxes] BY <2>1, SetBox DEF Types
  <2>5. QED BY <2>2, <2>3, <2>4 DEF Types, TypeOK, HasJob
<1>3. QED BY <1>1, <1>2

LEMMA NextTypes == Types /\ [Next]_vars => Types'
<1> SUFFICES ASSUME Types, [Next]_vars PROVE Types'
  OBVIOUS
<1>1. CASE Connect \/ Disconnect BY <1>1, ConnectionTypes
<1>2. ASSUME NEW g \in Loops, TakeJob(g) \/ LoopStep(g) \/ LoopFault(g) \/ Answer(g)
      PROVE  Types'
  BY <1>2, PrepareTypes, FailStepTypes, JobTypes DEF LoopStep, LoopFault
<1>3. ASSUME NEW s \in Boxes, ShutdownStep(s) \/ EngineStep(s)
      PROVE  Types'
  BY <1>3, BoxTypes
<1>4. CASE UNCHANGED vars BY <1>4 DEF vars, Types, TypeOK, HasJob
<1>5. QED BY <1>1, <1>2, <1>3, <1>4 DEF Next

\* The runtime's state keeps its shape whatever happens, exposed situations
\* included: a bind is tried at most maxAttempts times, and an engine executes
\* operations of jobs the worker was given.
THEOREM TypesHold == Spec => []TypeOK
<1>1. Types => TypeOK BY DEF Types
<1>2. QED BY InitTypes, NextTypes, <1>1, PTL DEF Spec

-----------------------------------------------------------------------------
\* A step of one sandbox and its engine that takes nothing of what the loops and
\* the manager rely on.
Safe(s, b) ==
  LET a == box[s] IN
  /\ b.child # "up" => ~b.socket /\ b.ops = {}
  /\ b.child \in {"boot", "up"} => Alive(s) /\ b.how = "no" /\ (b.server <=> a.server)
  /\ b.closing = "kill" => b.child # "none" /\ b.own
  /\ b.closing = "close" => b.child = "none" /\ b.server
  /\ b.closing = "no" /\ b.server => a.closing = "no"
  /\ b.closing = "no" /\ b.child \in {"boot", "up"} => a.closing = "no"
  /\ a.closing = "no" => b.closing = "no" /\ (b.server <=> a.server) /\ (b.token <=> a.token)
  /\ a.child = "none" => b.child = "none"
  /\ a.closing = "kill" => b.closing = "kill" \/ b.child = "none"
  /\ b.server => a.server
  /\ Chosen(s) /\ Ready(s) /\ ~a.killing /\ a.closing = "no" => b.child = "up" /\ b.socket
  /\ b.ops \subseteq a.ops /\ (b.killing => a.killing) /\ (a.own => b.own)
  /\ b.how = "killed" => a.how = "killed" \/ a.killing \/ b.own
  /\ ~Alive(s) => b.how = a.how

LEMMA SafeBox ==
  ASSUME RuntimeInv, NEW s \in Boxes, NEW b \in Sandboxes, box' = [box EXCEPT ![s] = b],
         UNCHANGED <<setup, up, gen, loop, cur, strays, taken>>, Types',
         box[s] # Unused, Safe(s, b)
  PROVE  RuntimeInv'
<1> USE DEF Alive, Ready, Abandoned
<1>0. box \in [Boxes -> Sandboxes] BY DEF RuntimeInv, Types, TypeOK
<1>a. box'[s] = b /\ \A t \in Boxes : t # s => box'[t] = box[t] BY <1>0
<1>1. CurrentOnly' /\ Separate' BY DEF RuntimeInv, CurrentOnly, Separate
<1>2. Unnamed' BY <1>a DEF RuntimeInv, Unnamed, Fresh, Types, HasJob
<1>3. LoopShape' BY <1>a DEF RuntimeInv, LoopShape, Kept, Safe
<1>4. BoxShape' BY <1>a DEF RuntimeInv, BoxShape, Safe
<1>5. Kept' BY <1>a DEF RuntimeInv, Kept, Safe
<1>6. Started'
  <2> SUFFICES ASSUME NEW g \in Loops, loop[g].at \in {"provision", "bind", "create"},
                      loop[g].sb = s
               PROVE  /\ loop[g].at = "provision" =>
                           (b.child = "up" /\ b.socket) \/ (b.child = "none" /\ ~b.server)
                      /\ loop[g].at = "bind" => b.child = "none" /\ ~b.server /\ b.token
                      /\ loop[g].at = "create" => b.child = "none" /\ b.server
    BY <1>a DEF RuntimeInv, Started, LoopShape
  <2>1. cur[g] = s /\ s # NoBox /\ loop[g].at # "run"
    BY DEF RuntimeInv, LoopShape, Boxes, NoBox
  <2>2. box[s].closing = "no" /\ ~box[s].killing BY <2>1 DEF RuntimeInv, Kept, Quiet
  <2>3. loop[g].at = "provision" => Chosen(s) BY DEF Chosen
  <2>4. /\ loop[g].at = "provision" => Ready(s) \/ (box[s].child = "none" /\ ~box[s].server)
        /\ loop[g].at = "bind" => box[s].child = "none" /\ ~box[s].server /\ box[s].token
        /\ loop[g].at = "create" => box[s].child = "none" /\ box[s].server
    BY DEF RuntimeInv, Started
  <2>5. QED BY <2>2, <2>3, <2>4 DEF Safe
<1>7. Quiet' BY <1>a DEF RuntimeInv, Quiet, LoopShape, Safe
<1>8. Blame' BY <1>a DEF RuntimeInv, Blame, LoopShape, Safe
<1>9. Port' BY <1>a DEF RuntimeInv, Port, Safe
<1>10. QED
  BY <1>1, <1>2, <1>3, <1>4, <1>5, <1>6, <1>7, <1>8, <1>9 DEF RuntimeInv

LEMMA BoxInv ==
  ASSUME RuntimeInv, NEW s \in Boxes, ShutdownStep(s) \/ EngineStep(s), Exposures = {}
  PROVE  RuntimeInv'
<1>1. Types' BY BoxTypes DEF RuntimeInv
<1>2. UNCHANGED <<setup, up, gen, loop, cur, strays, taken>>
  BY DEF ShutdownStep, Kill, CloseServer, KillLands, EngineStep, EngineConnects, EngineExits,
         Crash, LoseSocket
<1>3. box \in [Boxes -> Sandboxes] BY DEF RuntimeInv, Types, TypeOK
<1>4. box[s] \in Sandboxes BY <1>3
<1>5. /\ box[s].child # "up" => ~box[s].socket /\ box[s].ops = {}
      /\ Alive(s) => box[s].how = "no"
      /\ box[s].closing = "kill" => box[s].child # "none" /\ box[s].own
      /\ box[s].closing = "close" => box[s].child = "none" /\ box[s].server
  BY DEF RuntimeInv, BoxShape
<1>6. box'[s] \in Sandboxes /\ box' = [box EXCEPT ![s] = box'[s]]
  <2>1. box' \in [Boxes -> Sandboxes] BY <1>1 DEF Types, TypeOK
  <2>2. \A t \in Boxes : t # s => box'[t] = box[t]
    BY <1>3 DEF ShutdownStep, Kill, CloseServer, KillLands, EngineStep, EngineConnects,
       EngineExits, Crash, LoseSocket
  <2>3. QED BY <1>3, <2>1, <2>2
<1>7. box[s] # Unused
  BY DEF Unused, Alive, Ready, ShutdownStep, Kill, CloseServer, KillLands, EngineStep,
     EngineConnects, EngineExits, Crash, LoseSocket
<1>8. Safe(s, box'[s])
  <2> USE <1>3, <1>4, <1>5 DEF Safe, Alive, Ready
  <2>1. CASE Kill(s) BY <2>1 DEF Kill, Sever, Ended, Sandboxes
  <2>2. CASE CloseServer(s) BY <2>2 DEF CloseServer, Sandboxes
  <2>3. CASE KillLands(s) BY <2>3 DEF KillLands, Ended, Sandboxes
  <2>4. CASE EngineConnects(s) BY <2>4 DEF EngineConnects, Sandboxes
  <2>5. CASE EngineExits(s) BY <2>5 DEF EngineExits, Ended, Sandboxes
  <2>6. CASE Crash(s) BY <2>6 DEF Crash, Ended, Sandboxes
  <2>7. CASE LoseSocket(s) BY <2>7 DEF LoseSocket, Sandboxes
  <2>8. QED BY <2>1, <2>2, <2>3, <2>4, <2>5, <2>6, <2>7 DEF ShutdownStep, EngineStep
<1>9. QED BY <1>1, <1>2, <1>6, <1>7, <1>8, SafeBox

-----------------------------------------------------------------------------
\* b is shut down into c, which may have lost operations.
ShutTo(b, c) ==
  /\ c.how = b.how /\ c.ops \subseteq b.ops /\ (c.killing <=> b.killing)
  /\ (c.server <=> b.server) /\ (b.own => c.own)
  /\ b.child = "none" => /\ c.child = "none" /\ ~c.socket /\ c.ops = b.ops
                         /\ c.closing = IF b.server THEN "close" ELSE "no"
  /\ b.child # "none" => /\ c.child = b.child /\ (c.socket <=> b.socket)
                         /\ c.closing = "kill" /\ c.own

LEMMA ShutFields ==
  ASSUME NEW b \in Sandboxes PROVE ShutTo(b, Shut(b)) /\ Shut(b).ops = b.ops
<1>1. CASE b.child = "none" BY <1>1 DEF ShutTo, Shut, Sever, Sandboxes
<1>2. CASE b.child # "none" BY <1>2 DEF ShutTo, Shut, Sandboxes
<1>3. QED BY <1>1, <1>2

\* A job that ends gives its manager's sandbox up.
LEMMA GiveUpInv ==
  ASSUME RuntimeInv, NEW g \in Loops, NEW j \in Jobs, NEW c \in Sandboxes, NEW s,
         s = loop[g].sb,
         loop[g].at \in {"provision", "bind", "create", "connect", "run"},
         j.sb = s, j.at \in {"finish", "closing"},
         j.result = "memory" => ~Alive(s) /\ box[s].how = "oom",
         loop' = [loop EXCEPT ![g] = j], cur' = [cur EXCEPT ![g] = NoBox],
         box' = [box EXCEPT ![s] = c], cur[g] = NoBox => c = box[s],
         cur[g] # NoBox => ShutTo(box[s], c),
         UNCHANGED <<setup, up, gen, strays, taken>>, Types'
  PROVE  RuntimeInv'
<1>1. s \in Boxes /\ s # NoBox /\ (cur[g] = s \/ cur[g] = NoBox)
  BY DEF RuntimeInv, LoopShape, Active, Boxes, NoBox
<1>2. /\ box \in [Boxes -> Sandboxes] /\ cur \in [Loops -> Boxes \cup {NoBox}]
      /\ loop \in [Loops -> Jobs]
  BY DEF RuntimeInv, Types, TypeOK, Jobs
<1>3. /\ cur'[g] = NoBox /\ \A h \in Loops : h # g => cur'[h] = cur[h]
      /\ cur[g] = NoBox => cur' = cur
  BY <1>2
<1>4. loop'[g] = j /\ \A h \in Loops : h # g => loop'[h] = loop[h] BY <1>2
<1>5. /\ \A t \in Boxes : t # s => box'[t] = box[t]
      /\ box'[s] = c /\ (cur[g] = NoBox => box' = box)
  BY <1>1, <1>2
<1>7. cur[g] = s => ShutTo(box[s], c) BY <1>1
<1>8. \A h \in Loops : h # g => loop[h].sb # s /\ cur[h] # s
  BY <1>1 DEF RuntimeInv, Separate
<1> USE NoBoxIsNoBox, <1>1, <1>3, <1>4, <1>5, <1>8 DEF Alive, Ready, Abandoned
<1>11. CurrentOnly' BY DEF RuntimeInv, CurrentOnly, Preparing
<1>12. Separate' BY DEF RuntimeInv, Separate
<1>13. Unnamed'
  <2>1. ~(s > taken) /\ \A h \in Loops : loop[h].at = "resolve" => loop[h].job # s
    BY DEF RuntimeInv, Unnamed, Fresh
  <2>2. QED BY <2>1 DEF RuntimeInv, Unnamed, Fresh, Types, HasJob
<1>14. LoopShape' BY <1>7 DEF ShutTo, RuntimeInv, LoopShape, Idle, Active
<1>15. BoxShape' BY <1>7 DEF ShutTo, RuntimeInv, BoxShape
<1>16. Kept' BY <1>7 DEF ShutTo, RuntimeInv, Kept
<1>17. Started' BY DEF RuntimeInv, Started, LoopShape
<1>18. Quiet'
  <2>1. \A h \in Loops : h # g /\ cur[h] # NoBox => box'[cur[h]] = box[cur[h]] BY <1>2
  <2>2. \A h \in Loops : h # g /\ loop[h].at = "connect" => box'[loop[h].sb] = box[loop[h].sb]
    BY DEF RuntimeInv, LoopShape, Active
  <2>3. \A t \in Boxes : box'[t].ops \subseteq box[t].ops BY <1>7 DEF ShutTo
  <2>4. QED BY <2>1, <2>2, <2>3 DEF RuntimeInv, Quiet
<1>19. Blame'
  <2>1. \A h \in Loops : h # g /\ loop[h].sb \in Boxes => box'[loop[h].sb] = box[loop[h].sb]
    OBVIOUS
  <2>2. \A h \in Loops : loop[h].at \in Active => loop[h].sb \in Boxes
    BY DEF RuntimeInv, LoopShape
  <2>3. j.result = "memory" => box'[s].child \notin {"boot", "up"} /\ box'[s].how = "oom"
    BY <1>7 DEF ShutTo
  <2>4. QED BY <2>1, <2>2, <2>3 DEF RuntimeInv, Blame, Active
<1>20. Port' BY <1>7 DEF ShutTo, RuntimeInv, Port
<1>21. QED
  BY <1>11, <1>12, <1>13, <1>14, <1>15, <1>16, <1>17, <1>18, <1>19, <1>20 DEF RuntimeInv

LEMMA FailInv ==
  ASSUME RuntimeInv, NEW g \in Loops, NEW result \in Results, Fail(g, result),
         loop[g].at \in {"provision", "bind", "create", "connect", "run"},
         result = "memory" => ~Alive(loop[g].sb) /\ box[loop[g].sb].how = "oom",
         UNCHANGED <<setup, up, gen, strays, taken>>, Types'
  PROVE  RuntimeInv'
<1> DEFINE s == loop[g].sb
           j == [loop[g] EXCEPT !.at = IF cur[g] = NoBox THEN "finish" ELSE "closing",
                                !.result = result]
           c == IF cur[g] = NoBox THEN box[s] ELSE Shut(box[s])
<1>1. s \in Boxes /\ s # NoBox /\ (cur[g] = s \/ cur[g] = NoBox)
  BY DEF RuntimeInv, LoopShape, Active, Boxes, NoBox
<1>2. box \in [Boxes -> Sandboxes] /\ loop \in [Loops -> Jobs]
  BY DEF RuntimeInv, Types, TypeOK, Jobs
<1>3. loop[g] \in Jobs /\ box[s] \in Sandboxes BY <1>1, <1>2
<1>4. j \in Jobs BY <1>3 DEF Jobs, Places
<1>5. j.sb = s /\ j.at \in {"finish", "closing"} /\ j.result = result BY <1>3 DEF Jobs
<1>6. c \in Sandboxes BY <1>3, BoxUpdates
<1>7. /\ loop' = [loop EXCEPT ![g] = j] /\ cur' = [cur EXCEPT ![g] = NoBox]
      /\ box' = [box EXCEPT ![s] = c]
  BY <1>1, <1>2 DEF Fail, Invalidate
<1>8. cur[g] # NoBox => ShutTo(box[s], c) BY <1>1, <1>3, ShutFields
<1>9. cur[g] = NoBox => c = box[s] OBVIOUS
<1> HIDE DEF j, c
<1>10. QED BY <1>4, <1>5, <1>6, <1>7, <1>8, <1>9, GiveUpInv

LEMMA FailStepInv ==
  ASSUME RuntimeInv, NEW g \in Loops,
         \/ ConnectTimeout(g) \/ ProcessCloses(g) \/ ProvisionFails(g) \/ CreateFails(g)
         \/ DeadlinePassed(g) \/ RpcTimeout(g)
  PROVE  RuntimeInv'
<1>1. Types' BY FailStepTypes DEF RuntimeInv
<1>2. UNCHANGED <<setup, up, gen, strays, taken>>
  BY DEF ConnectTimeout, ProcessCloses, ProvisionFails, CreateFails, DeadlinePassed,
         RpcTimeout
<1>3. loop[g].at \in {"provision", "bind", "create", "connect", "run"}
  BY DEF ConnectTimeout, ProcessCloses, ProvisionFails, CreateFails, DeadlinePassed,
         RpcTimeout
<1>4. CASE ProcessCloses(g)
  <2>1. loop[g].at = "run" /\ ~Alive(loop[g].sb) /\ Fail(g, ExitResult(g))
    BY <1>4 DEF ProcessCloses
  <2>2. ExitResult(g) \in Results BY DEF ExitResult, Results
  <2>3. ExitResult(g) = "memory" => box[loop[g].sb].how = "oom"
    BY <2>1 DEF ExitResult, RuntimeInv, Blame, Active
  <2>4. QED BY <1>1, <1>2, <1>3, <2>1, <2>2, <2>3, FailInv
<1>5. CASE ~ProcessCloses(g)
  <2>1. PICK result \in {"error", "timeout"} : Fail(g, result)
    BY <1>5 DEF ConnectTimeout, ProvisionFails, CreateFails, DeadlinePassed, RpcTimeout
  <2>2. result \in Results /\ result # "memory" BY DEF Results
  <2>3. QED BY <1>1, <1>2, <1>3, <2>1, <2>2, FailInv
<1>6. QED BY <1>4, <1>5

\* Steps that only move a loop on.
LEMMA LoopOnly ==
  ASSUME RuntimeInv, NEW g \in Loops, NEW j \in Jobs, loop' = [loop EXCEPT ![g] = j],
         UNCHANGED <<setup, up, gen, cur, box, strays, taken>>, Types',
         loop[g].at \notin {"off", "run"}, j.at \in {"poll", "over", "finish", loop[g].at},
         j.sb \in {loop[g].sb, NoBox}, j.result \in {loop[g].result, "none"},
         j.at \in {"poll", "over"} => j.sb = NoBox /\ j.result = "none",
         j.at = "finish" => j.result = "none",
         j.at = loop[g].at /\ j.at \notin {"poll", "over"} =>
           j.sb = loop[g].sb /\ j.job = loop[g].job /\ j.result = loop[g].result
  PROVE  RuntimeInv'
<1>1. loop'[g] = j /\ \A h \in Loops : h # g => loop'[h] = loop[h]
  BY DEF RuntimeInv, Types, TypeOK
<1> USE <1>1, NoBoxIsNoBox DEF Alive, Ready, Abandoned
<1>2. CurrentOnly' BY DEF RuntimeInv, CurrentOnly, Preparing
<1>3. Separate' BY DEF RuntimeInv, Separate
<1>4. Unnamed' BY DEF RuntimeInv, Unnamed, Fresh, Types, HasJob
<1>5. LoopShape' BY DEF RuntimeInv, LoopShape, Idle, Active
<1>6. BoxShape' BY DEF RuntimeInv, BoxShape
<1>7. Kept' BY DEF RuntimeInv, Kept
<1>8. Started' BY DEF RuntimeInv, Started
<1>9. Quiet'
  <2>1. \A h \in Loops : loop'[h].at # "run" => loop[h].at # "run" OBVIOUS
  <2>2. \A h \in Loops : loop'[h].at = "connect" =>
          loop[h].at = "connect" /\ loop'[h].sb = loop[h].sb
    OBVIOUS
  <2>3. QED BY <2>1, <2>2 DEF RuntimeInv, Quiet
<1>10. Blame' BY DEF RuntimeInv, Blame, Active
<1>11. Port' BY DEF RuntimeInv, Port
<1>12. QED
  BY <1>2, <1>3, <1>4, <1>5, <1>6, <1>7, <1>8, <1>9, <1>10, <1>11 DEF RuntimeInv

LEMMA MoveInv ==
  ASSUME RuntimeInv, NEW g \in Loops, Finish(g) \/ ResolveEnds(g) \/ BindBusy(g)
  PROVE  RuntimeInv'
<1>0. loop \in [Loops -> Jobs] /\ loop[g] \in Jobs BY DEF RuntimeInv, Types, TypeOK, Jobs
<1>1. CASE Finish(g)
  <2>1. Types' BY <1>1, JobTypes DEF RuntimeInv
  <2> DEFINE j == [Off EXCEPT !.at = IF Abandoned(g) THEN "over" ELSE "poll"]
  <2>2. loop' = [loop EXCEPT ![g] = j] BY <1>1 DEF Finish
  <2>3. j \in Jobs BY OffIsJob DEF Jobs, Places
  <2>4. j.at \in {"poll", "over"} /\ j.sb = NoBox /\ j.result = "none" BY DEF Off
  <2>5. loop[g].at \notin {"off", "run"} /\ UNCHANGED <<setup, up, gen, cur, box, strays, taken>>
    BY <1>1 DEF Finish
  <2> HIDE DEF j
  <2>6. QED BY <2>1, <2>2, <2>3, <2>4, <2>5, LoopOnly
<1>2. CASE ResolveEnds(g)
  <2>1. Types' BY <1>2, JobTypes DEF RuntimeInv
  <2> DEFINE j == [loop[g] EXCEPT !.at = "finish"]
  <2>2. loop' = [loop EXCEPT ![g] = j] BY <1>0, <1>2 DEF ResolveEnds, Goto
  <2>3. j \in Jobs BY <1>0 DEF Jobs, Places
  <2>4. j.at = "finish" /\ j.sb = loop[g].sb /\ j.result = loop[g].result
    BY <1>0 DEF Jobs
  <2>5. loop[g].result = "none" /\ loop[g].at = "resolve"
    BY <1>2 DEF ResolveEnds, RuntimeInv, LoopShape, Idle
  <2>6. UNCHANGED <<setup, up, gen, cur, box, strays, taken>> BY <1>2 DEF ResolveEnds
  <2> HIDE DEF j
  <2>7. QED BY <2>1, <2>2, <2>3, <2>4, <2>5, <2>6, LoopOnly
<1>3. CASE BindBusy(g)
  <2>1. Types' BY <1>3, PrepareTypes DEF RuntimeInv, Prepare
  <2>2. CASE loop[g].tries + 1 = MaxBinds
    BY <1>3, <2>1, <2>2, FailInv DEF BindBusy, Results
  <2>3. CASE loop[g].tries + 1 # MaxBinds
    <3> DEFINE j == [loop[g] EXCEPT !.tries = @ + 1]
    <3>1. loop' = [loop EXCEPT ![g] = j] BY <1>0, <1>3, <2>3 DEF BindBusy
    <3>2. j \in Jobs
      <4>1. loop' \in [Loops -> Jobs] BY <2>1 DEF Types, TypeOK, Jobs
      <4>2. loop'[g] = j BY <1>0, <3>1
      <4>3. QED BY <4>1, <4>2
    <3>3. /\ j.at = loop[g].at /\ j.sb = loop[g].sb /\ j.result = loop[g].result
          /\ j.job = loop[g].job
      BY <1>0 DEF Jobs
    <3>4. loop[g].at = "bind" /\ UNCHANGED <<setup, up, gen, cur, box, strays, taken>>
      BY <1>3, <2>3 DEF BindBusy
    <3> HIDE DEF j
    <3>5. QED BY <2>1, <3>1, <3>2, <3>3, <3>4, LoopOnly
  <2>4. QED BY <2>2, <2>3
<1>4. QED BY <1>1, <1>2, <1>3

LEMMA TakeJobInv ==
  ASSUME RuntimeInv, NEW g \in Loops, TakeJob(g) PROVE RuntimeInv'
<1>0. Types' BY JobTypes DEF RuntimeInv
<1>n. PICK n : n = taken + 1 OBVIOUS
<1>1. /\ loop'[g].at = "resolve" /\ loop'[g].job = n /\ loop'[g].sb = NoBox
      /\ loop'[g].result = "none"
      /\ \A h \in Loops : h # g => loop'[h] = loop[h]
  BY <1>n DEF TakeJob, RuntimeInv, Types, TypeOK, Off
<1>2. /\ n \in Boxes /\ n > taken /\ taken \in Nat /\ taken' = n
      /\ \A t \in Boxes : t \in Nat
  BY <1>n, RuntimeAssumption DEF TakeJob, RuntimeInv, Types, TypeOK, Boxes
<1>3. Fresh(n) BY <1>2 DEF RuntimeInv, Unnamed
<1>4. UNCHANGED <<setup, up, gen, cur, box, strays, faults>> BY DEF TakeJob
<1>5. loop[g].at = "poll" /\ ~Abandoned(g) BY DEF TakeJob
<1>6. loop[g].sb = NoBox BY <1>5 DEF RuntimeInv, LoopShape, Idle
<1> USE <1>1, <1>4, <1>5, <1>6, NoBoxIsNoBox DEF Alive, Ready, Abandoned
<1>11. CurrentOnly' BY DEF RuntimeInv, CurrentOnly
<1>12. Separate' BY DEF RuntimeInv, Separate
<1>13. \A t \in Boxes : Fresh(t) => Fresh(t)' BY DEF Fresh
<1>14. Unnamed'
  <2>1. \A t \in Boxes : t > taken' => Fresh(t)'
    BY <1>2, <1>13 DEF RuntimeInv, Unnamed
  <2>2. n <= taken' /\ Fresh(n)' BY <1>2, <1>3, <1>13
  <2>3. \A h \in Loops : h # g => loop[h].at # "resolve"
    BY DEF RuntimeInv, CurrentOnly, Preparing
  <2>4. \A h \in Loops : loop'[h].at = "resolve" => loop'[h].job = n BY <2>3
  <2>5. QED BY <2>1, <2>2, <2>4 DEF Unnamed, Fresh
<1>15. LoopShape' BY DEF RuntimeInv, LoopShape, Idle, Active
<1>16. BoxShape' BY DEF RuntimeInv, BoxShape
<1>17. Kept' BY DEF RuntimeInv, Kept
<1>18. Started' BY DEF RuntimeInv, Started
<1>19. Quiet' BY DEF RuntimeInv, Quiet
<1>20. Blame' BY DEF RuntimeInv, Blame, Active
<1>21. Port' BY DEF RuntimeInv, Port
<1>22. QED
  BY <1>0, <1>11, <1>12, <1>14, <1>15, <1>16, <1>17, <1>18, <1>19, <1>20, <1>21
  DEF RuntimeInv

LEMMA ConnectInv ==
  ASSUME RuntimeInv, Connect PROVE RuntimeInv'
<1>0. Types' BY ConnectionTypes DEF RuntimeInv
<1> DEFINE n == gen + 1
<1>1. n \in Loops /\ gen' = n /\ n # gen
  BY RuntimeAssumption DEF Connect, RuntimeInv, Types, TypeOK, Loops
<1>2. /\ loop'[n].at = "poll" /\ loop'[n].sb = loop[n].sb /\ loop'[n].result = loop[n].result
      /\ \A h \in Loops : h # n => loop'[h] = loop[h]
  BY <1>1 DEF Connect, RuntimeInv, Types, TypeOK
<1>3. UNCHANGED <<setup, cur, box, strays, taken>> /\ ~up /\ up' BY DEF Connect
<1>4. loop[n].at = "off" BY <1>1 DEF RuntimeInv, CurrentOnly, Types, TypeOK, Loops
<1>5. loop[n].sb = NoBox /\ loop[n].result = "none" BY <1>1, <1>4 DEF RuntimeInv, LoopShape, Idle
<1>6. \A g \in Loops : loop[g].at \notin Preparing /\ cur[g] = NoBox
  BY <1>3 DEF RuntimeInv, CurrentOnly, Abandoned
<1>11. CurrentOnly'
  <2>1. \A g \in Loops : g > n => g > gen /\ g # n
    BY <1>1 DEF RuntimeInv, Types, TypeOK, Loops
  <2>2. QED BY <1>1, <1>2, <1>3, <1>6, <2>1 DEF RuntimeInv, CurrentOnly, Abandoned, Preparing
<1> HIDE DEF n
<1> USE <1>1, <1>2, <1>3, <1>4, <1>5, <1>6, NoBoxIsNoBox DEF Alive, Ready, Preparing
<1>12. Separate' BY DEF RuntimeInv, Separate
<1>14. Unnamed' BY DEF RuntimeInv, Unnamed, Fresh
<1>15. LoopShape' BY DEF RuntimeInv, LoopShape, Idle, Active
<1>16. BoxShape' BY DEF RuntimeInv, BoxShape
<1>17. Kept' BY DEF RuntimeInv, Kept
<1>18. Started' BY DEF RuntimeInv, Started
<1>19. Quiet' BY DEF RuntimeInv, Quiet
<1>20. Blame' BY DEF RuntimeInv, Blame, Active
<1>21. Port' BY DEF RuntimeInv, Port
<1>22. QED
  BY <1>0, <1>11, <1>12, <1>14, <1>15, <1>16, <1>17, <1>18, <1>19, <1>20, <1>21
  DEF RuntimeInv

\* A disconnect takes the sandbox away from the manager of the lost connection.
LEMMA DisconnectInv ==
  ASSUME RuntimeInv, Disconnect, Exposures = {} PROVE RuntimeInv'
<1>0. Types' BY ConnectionTypes DEF RuntimeInv
<1> DEFINE g == gen
           s == cur[gen]
<1>1. g \in Loops /\ up BY DEF Disconnect, RuntimeInv, CurrentOnly
<1>2. /\ box \in [Boxes -> Sandboxes] /\ cur \in [Loops -> Boxes \cup {NoBox}]
      /\ loop \in [Loops -> Jobs]
  BY DEF RuntimeInv, Types, TypeOK, Jobs
<1>3. \A h \in Loops : cur'[h] = NoBox /\ (h # g => cur[h] = NoBox) /\ loop[h].at \notin Preparing
  BY <1>1, <1>2 DEF Disconnect, Invalidate, RuntimeInv, CurrentOnly, Abandoned
<1>4. \A h \in Loops : /\ loop'[h].sb = loop[h].sb /\ loop'[h].result = loop[h].result
                       /\ loop'[h].timedOut = loop[h].timedOut
                       /\ \/ loop'[h].at = loop[h].at
                          \/ loop'[h].at = "over" /\ loop[h].at = "poll"
  BY <1>1, <1>2 DEF Disconnect, Jobs
<1>5. /\ \A t \in Boxes : t # s => box'[t] = box[t]
      /\ s \in Boxes => box'[s] = Shut(box[s])
  BY <1>1, <1>2, NoBoxIsNoBox DEF Disconnect, Invalidate
<1>6. s \in Boxes => box[s] \in Sandboxes BY <1>2
<1>7. s \in Boxes => ShutTo(box[s], box'[s]) /\ box'[s].ops = box[s].ops
  BY <1>5, <1>6, ShutFields
<1>8. \A h \in Loops : loop[h].sb = s /\ s # NoBox => h = g
  BY <1>1 DEF RuntimeInv, Separate
<1>9. UNCHANGED <<setup, gen, strays, taken>> /\ ~up' BY DEF Disconnect
<1>11. CurrentOnly' BY <1>3, <1>4, <1>9 DEF RuntimeInv, CurrentOnly, Preparing
<1>10. s \in Boxes \cup {NoBox} BY <1>1, <1>2
<1> HIDE DEF s, g
<1> USE NoBoxIsNoBox, <1>1, <1>3, <1>4, <1>5, <1>8, <1>9 DEF Alive, Ready
<1>12. Separate' BY DEF RuntimeInv, Separate
<1>13. Unnamed'
  <2>1. s \in Boxes => ~(s > taken) BY DEF RuntimeInv, Unnamed, Fresh, s, g
  <2>2. QED BY <2>1 DEF RuntimeInv, Unnamed, Fresh, Preparing
<1>14. LoopShape'
  <2>1. \A h \in Loops : loop[h].at \in Active =>
          \/ box'[loop[h].sb].closing = "kill" \/ box'[loop[h].sb].child = "none"
    <3> SUFFICES ASSUME NEW h \in Loops, loop[h].at \in Active
                 PROVE  \/ box'[loop[h].sb].closing = "kill"
                        \/ box'[loop[h].sb].child = "none"
      OBVIOUS
    <3>1. loop[h].sb \in Boxes BY DEF RuntimeInv, LoopShape
    <3>2. CASE loop[h].sb = s BY <1>7, <3>1, <3>2 DEF ShutTo
    <3>3. CASE loop[h].sb # s
      BY <3>1, <3>3 DEF RuntimeInv, LoopShape, s, g
    <3>4. QED BY <3>2, <3>3
  <2>2. QED BY <2>1 DEF RuntimeInv, LoopShape, Idle, Active, Preparing
<1>15. BoxShape' BY <1>7 DEF ShutTo, RuntimeInv, BoxShape
<1>16. Kept'
  <2>1. \A t \in Boxes : t # s => \A h \in Loops : cur[h] # t BY DEF s, g
  <2>2. \A t \in Boxes : ~((Alive(t) \/ box[t].server) /\ box[t].closing = "no")'
    BY <1>7, <2>1 DEF ShutTo, RuntimeInv, Kept
  <2>3. QED BY <2>2 DEF Kept
<1>17. Started' BY DEF RuntimeInv, Started, Preparing
<1>18. Quiet'
  <2>1. \A t \in Boxes : box'[t].ops = box[t].ops /\ (box'[t].killing <=> box[t].killing)
    BY <1>7 DEF ShutTo
  <2>2. \A h \in Loops : loop'[h].at = "connect" => loop[h].at = "connect" /\ loop[h].sb \in Boxes
    BY DEF RuntimeInv, LoopShape, Active
  <2>3. QED BY <2>1, <2>2 DEF RuntimeInv, Quiet
<1>19. Blame'
  <2>1. \A t \in Boxes : /\ box'[t].how = box[t].how /\ (box'[t].killing <=> box[t].killing)
                         /\ (box[t].own => box'[t].own)
                         /\ (box[t].child \notin {"boot", "up"} =>
                               box'[t].child \notin {"boot", "up"})
    BY <1>7 DEF ShutTo
  <2>2. \A h \in Loops : loop'[h].at \in Active => loop'[h].at = loop[h].at /\ loop[h].sb \in Boxes
    BY DEF RuntimeInv, LoopShape, Active
  <2>3. QED BY <2>1, <2>2 DEF RuntimeInv, Blame
<1>20. Port' BY <1>7 DEF ShutTo, RuntimeInv, Port
<1>21. QED
  BY <1>0, <1>11, <1>12, <1>13, <1>14, <1>15, <1>16, <1>17, <1>18, <1>19, <1>20
  DEF RuntimeInv

\* What a loop that goes on from its sandbox a to b needs of b.
Fits(g, j, a, b) ==
  /\ b.child # "up" => ~b.socket /\ b.ops = {}
  /\ b.child \in {"boot", "up"} => b.how = "no"
  /\ b.closing = a.closing /\ (a.own => b.own)
  /\ b.closing = "kill" => b.child # "none"
  /\ b.closing = "close" => b.child = "none" /\ b.server
  /\ cur[g] = NoBox => /\ b.child = a.child /\ (b.server <=> a.server)
                       /\ j.at \in {"run", "finish"}
  /\ j.at = "bind" => b.child = "none" /\ ~b.server /\ b.token
  /\ j.at = "create" => b.child = "none" /\ b.server
  /\ j.at # "run" /\ cur[g] # NoBox => b.ops = {} /\ ~b.killing
  /\ \A x, y \in b.ops : x = y
  /\ j.at \in Active /\ (b.killing \/ b.how = "killed") =>
       b.own \/ (j.at = "run" /\ j.timedOut)
  /\ setup.isolate => /\ b.server => a.server \/ PortFree
                      /\ b.child \in {"boot", "up"} => b.server

LEMMA OwnSandbox ==
  ASSUME RuntimeInv, NEW g \in Loops, NEW j \in Jobs, NEW b \in Sandboxes, NEW s,
         s = loop[g].sb,
         loop[g].at \in {"provision", "bind", "create", "connect", "run"},
         j.sb = s, j.result # "memory", j.at \in {"bind", "create", "connect", "run", "finish"},
         j.at \in {"bind", "create"} => loop[g].at \in Preparing,
         loop' = [loop EXCEPT ![g] = j], box' = [box EXCEPT ![s] = b],
         Fits(g, j, box[s], b),
         UNCHANGED <<setup, up, gen, cur, strays, taken>>, Types'
  PROVE  RuntimeInv'
<1>1. s \in Boxes /\ s # NoBox /\ (cur[g] = s \/ cur[g] = NoBox)
  BY DEF RuntimeInv, LoopShape, Active, Boxes, NoBox
<1>2. /\ box \in [Boxes -> Sandboxes] /\ cur \in [Loops -> Boxes \cup {NoBox}]
      /\ loop \in [Loops -> Jobs]
  BY DEF RuntimeInv, Types, TypeOK, Jobs
<1>4. loop'[g] = j /\ \A h \in Loops : h # g => loop'[h] = loop[h] BY <1>2
<1>5. box'[s] = b /\ \A t \in Boxes : t # s => box'[t] = box[t]
  BY <1>1, <1>2
<1>8. \A h \in Loops : h # g => loop[h].sb # s /\ cur[h] # s
  BY <1>1 DEF RuntimeInv, Separate
<1>9. cur[g] = s => box[s].closing = "no" BY <1>1 DEF RuntimeInv, Kept
<1> USE NoBoxIsNoBox, <1>1, <1>4, <1>5, <1>8 DEF Alive, Ready, Abandoned
<1>11. CurrentOnly' BY DEF RuntimeInv, CurrentOnly, Preparing
<1>12. Separate' BY DEF RuntimeInv, Separate
<1>13. Unnamed'
  <2>1. ~(s > taken) /\ \A h \in Loops : loop[h].at = "resolve" => loop[h].job # s
    BY DEF RuntimeInv, Unnamed, Fresh
  <2>2. QED BY <2>1 DEF RuntimeInv, Unnamed, Fresh, Types, HasJob
<1>14. LoopShape'
  <2>1. j.at \in {"bind", "create"} => cur[g] = s
    BY DEF RuntimeInv, LoopShape, Preparing
  <2>2. cur[g] = NoBox /\ j.at \in Active => b.closing = "kill" \/ b.child = "none"
    BY DEF RuntimeInv, LoopShape, Active, Fits
  <2>3. QED BY <2>1, <2>2 DEF RuntimeInv, LoopShape, Idle, Active
<1>15. BoxShape' BY DEF RuntimeInv, BoxShape, Fits
<1>16. Kept' BY <1>9 DEF RuntimeInv, Kept, Fits
<1>17. Started' BY DEF RuntimeInv, Started, LoopShape, Fits
<1>18. Quiet'
  <2>1. \A h \in Loops : h # g /\ cur[h] # NoBox => box'[cur[h]] = box[cur[h]] BY <1>2
  <2>2. \A h \in Loops : h # g /\ loop[h].at = "connect" => box'[loop[h].sb] = box[loop[h].sb]
    BY DEF RuntimeInv, LoopShape, Active
  <2>3. j.at # "run" /\ cur[g] # NoBox => b.ops = {} /\ ~b.killing BY DEF Fits
  <2>4. j.at = "connect" => cur[g] # NoBox BY DEF Fits
  <2>5. \A t \in Boxes : \A x, y \in box'[t].ops : x = y BY DEF RuntimeInv, Quiet, Fits
  <2>6. \A h \in Loops : loop'[h].at # "run" /\ cur[h] # NoBox =>
          box'[cur[h]].ops = {} /\ ~box'[cur[h]].killing
    BY <2>1, <2>3 DEF RuntimeInv, Quiet
  <2>7. \A h \in Loops : loop'[h].at = "connect" =>
          box'[loop'[h].sb].ops = {} /\ ~box'[loop'[h].sb].killing
    BY <2>2, <2>3, <2>4 DEF RuntimeInv, Quiet
  <2>8. QED BY <2>5, <2>6, <2>7 DEF Quiet
<1>19. Blame'
  <2>1. \A h \in Loops : h # g /\ loop[h].sb \in Boxes => box'[loop[h].sb] = box[loop[h].sb]
    OBVIOUS
  <2>2. \A h \in Loops : loop[h].at \in Active => loop[h].sb \in Boxes
    BY DEF RuntimeInv, LoopShape
  <2>3. QED BY <2>1, <2>2 DEF RuntimeInv, Blame, Fits
<1>20. Port' BY DEF RuntimeInv, Port, PortFree, Fits
<1>21. QED
  BY <1>11, <1>12, <1>13, <1>14, <1>15, <1>16, <1>17, <1>18, <1>19, <1>20 DEF RuntimeInv

\* The operation goes to an engine that is idle.
LEMMA RunInv ==
  ASSUME RuntimeInv, NEW g \in Loops, Run(g), loop[g].at \in {"provision", "connect"},
         Ready(loop[g].sb), UNCHANGED <<setup, up, gen, strays, taken>>, Types'
  PROVE  RuntimeInv'
<1> DEFINE s == loop[g].sb
           j == [loop[g] EXCEPT !.at = "run"]
           b == [box[s] EXCEPT !.ops = @ \cup {loop[g].job}]
<1>1. s \in Boxes /\ s # NoBox /\ (cur[g] = s \/ cur[g] = NoBox)
  BY DEF RuntimeInv, LoopShape, Active, Boxes, NoBox
<1>2. box \in [Boxes -> Sandboxes] /\ loop \in [Loops -> Jobs]
  BY DEF RuntimeInv, Types, TypeOK, Jobs
<1>3. loop[g] \in Jobs /\ box[s] \in Sandboxes BY <1>1, <1>2
<1>4. loop' = [loop EXCEPT ![g] = j] /\ box' = [box EXCEPT ![s] = b] /\ UNCHANGED cur
  BY <1>2 DEF Run
<1>5. j \in Jobs /\ b \in Sandboxes
  <2>1. loop'[g] = j /\ box'[s] = b BY <1>1, <1>2, <1>4
  <2>2. QED BY <1>1, <2>1 DEF Types, TypeOK, Jobs
<1>6. /\ j.sb = s /\ j.at = "run" /\ j.result = loop[g].result
      /\ (j.timedOut <=> loop[g].timedOut)
  BY <1>3 DEF Jobs
<1>7. loop[g].result # "memory" BY DEF RuntimeInv, Blame
<1>8. box[s].ops = {} /\ ~box[s].killing
  BY <1>1 DEF RuntimeInv, Quiet, LoopShape
<1>9. Fits(g, j, box[s], b)
  <2>1. /\ box[s].child = "up" /\ box[s].socket /\ box[s].how = "no"
        /\ box[s].closing = "kill" => box[s].own
        /\ box[s].closing # "close"
    BY <1>1 DEF Ready, RuntimeInv, BoxShape, Alive
  <2>2. setup.isolate => box[s].server BY <1>1, <2>1 DEF RuntimeInv, Port, Alive
  <2>3. b.ops = {loop[g].job} BY <1>3, <1>8 DEF Sandboxes
  <2>4. /\ b.child = box[s].child /\ (b.server <=> box[s].server) /\ b.how = box[s].how
        /\ b.closing = box[s].closing /\ (b.own <=> box[s].own)
        /\ (b.killing <=> box[s].killing)
    BY <1>3 DEF Sandboxes
  <2> HIDE DEF b, j
  <2>5. QED BY <1>6, <1>8, <2>1, <2>2, <2>3, <2>4 DEF Fits
<1> HIDE DEF j, b
<1>10. QED BY <1>4, <1>5, <1>6, <1>7, <1>9, OwnSandbox

LEMMA StartInv ==
  ASSUME RuntimeInv, NEW g \in Loops, Start(g) \/ Bind(g) \/ Create(g)
  PROVE  RuntimeInv'
<1> DEFINE s == loop[g].sb
<1>0. Types' BY PrepareTypes DEF RuntimeInv, Prepare
<1>1. /\ s \in Boxes /\ s # NoBox /\ cur[g] = s /\ box[s].closing = "no"
      /\ loop[g].at \in {"provision", "bind", "create"}
  BY DEF Start, Bind, Create, RuntimeInv, LoopShape, Boxes, NoBox, Kept
<1>2. box \in [Boxes -> Sandboxes] /\ loop \in [Loops -> Jobs]
  BY DEF RuntimeInv, Types, TypeOK, Jobs
<1>3. loop[g] \in Jobs /\ box[s] \in Sandboxes BY <1>1, <1>2
<1>4. loop[g].result # "memory" BY <1>1 DEF RuntimeInv, Blame
<1>5. box[s].ops = {} /\ ~box[s].killing BY <1>1 DEF RuntimeInv, Quiet
<1>6. box[s].child # "up" => ~box[s].socket BY <1>1 DEF RuntimeInv, BoxShape
<1>7. CASE Start(g)
  <2>1. CASE Ready(s) BY <1>0, <1>7, <2>1, RunInv DEF Start
  <2>2. CASE ~Ready(s)
    <3> DEFINE j == [loop[g] EXCEPT !.at = "bind"]
               b == [box[s] EXCEPT !.token = TRUE]
    <3>1. /\ loop' = [loop EXCEPT ![g] = j] /\ box' = [box EXCEPT ![s] = b]
          /\ UNCHANGED <<setup, up, gen, cur, strays, taken>>
      BY <1>2, <1>7, <2>2 DEF Start, Goto
    <3>2. j \in Jobs /\ b \in Sandboxes
      BY <1>3 DEF Jobs, Sandboxes, Places, Preparing
    <3>3. j.sb = s /\ j.at = "bind" /\ j.result = loop[g].result BY <1>3 DEF Jobs
    <3>4. loop[g].at = "provision" BY <1>7 DEF Start
    <3>5. box[s].child = "none" /\ ~box[s].server BY <2>2, <3>4 DEF RuntimeInv, Started
    <3>6. Fits(g, j, box[s], b)
      BY <1>1, <1>3, <1>5, <1>6, <3>3, <3>5 DEF Fits, Sandboxes, Active
    <3> HIDE DEF j, b
    <3>7. QED BY <1>0, <1>1, <1>4, <3>1, <3>2, <3>3, <3>4, <3>6, OwnSandbox DEF Preparing
  <2>3. QED BY <2>1, <2>2
<1>8. CASE Bind(g)
  <2> DEFINE b0 == [box[s] EXCEPT !.server = TRUE]
             b  == IF setup.isolate THEN b0 ELSE Forked(b0)
             j  == [loop[g] EXCEPT !.at = IF setup.isolate THEN "create" ELSE "connect"]
  <2>1. loop[g].at = "bind" /\ PortFree BY <1>8 DEF Bind
  <2>2. box[s].child = "none" /\ ~box[s].server /\ box[s].token
    BY <2>1 DEF RuntimeInv, Started
  <2>3. b0.token = box[s].token BY <1>3 DEF Sandboxes
  <2>4. loop' = [loop EXCEPT ![g] = j] BY <1>2, <1>8, <2>2, <2>3 DEF Bind, Goto
  <2>5. box' = [box EXCEPT ![s] = b] BY <1>8 DEF Bind
  <2>6. strays' = strays BY <1>8, <2>2 DEF Bind, Alive
  <2>7. UNCHANGED <<setup, up, gen, cur, taken>> BY <1>8 DEF Bind
  <2>8. b0 \in Sandboxes BY <1>3, FlagUpdates
  <2>9. b \in Sandboxes BY <2>8, BoxUpdates
  <2>10. j \in Jobs BY <1>3 DEF Jobs, Places, Preparing
  <2>11. /\ j.sb = s /\ j.result = loop[g].result
         /\ j.at = IF setup.isolate THEN "create" ELSE "connect"
    BY <1>3 DEF Jobs
  <2>12. /\ b.server /\ (b.socket <=> box[s].socket) /\ b.ops = box[s].ops
         /\ b.closing = box[s].closing /\ (b.own <=> box[s].own)
         /\ (b.killing <=> box[s].killing)
         /\ setup.isolate => b.child = box[s].child
         /\ ~setup.isolate => b.child = "boot" /\ b.how = "no"
    <3>1. /\ b0.server /\ (b0.socket <=> box[s].socket) /\ b0.ops = box[s].ops
          /\ b0.closing = box[s].closing /\ (b0.own <=> box[s].own)
          /\ (b0.killing <=> box[s].killing) /\ b0.child = box[s].child
      BY <1>3 DEF Sandboxes
    <3> HIDE DEF b0
    <3>2. QED BY <2>8, <3>1 DEF Forked, Sandboxes
  <2> HIDE DEF b, j
  <2>13. Fits(g, j, box[s], b)
    BY <1>1, <1>5, <1>6, <2>1, <2>2, <2>11, <2>12 DEF Fits, Active
  <2>14. QED
    BY <1>0, <1>1, <1>4, <2>1, <2>4, <2>5, <2>6, <2>7, <2>9, <2>10, <2>11, <2>13, OwnSandbox
    DEF Preparing
<1>9. CASE Create(g)
  <2> DEFINE b == Forked(box[s])
             j == [loop[g] EXCEPT !.at = "connect"]
  <2>1. /\ loop' = [loop EXCEPT ![g] = j] /\ box' = [box EXCEPT ![s] = b]
        /\ UNCHANGED <<setup, up, gen, cur, strays, taken>>
    BY <1>2, <1>9 DEF Create, Goto
  <2>2. b \in Sandboxes BY <1>3, BoxUpdates
  <2>3. j \in Jobs BY <1>3 DEF Jobs, Places
  <2>4. j.sb = s /\ j.at = "connect" /\ j.result = loop[g].result BY <1>3 DEF Jobs
  <2>5. loop[g].at = "create" BY <1>9 DEF Create
  <2>6. box[s].child = "none" /\ box[s].server BY <2>5 DEF RuntimeInv, Started
  <2>7. Fits(g, j, box[s], b)
    BY <1>1, <1>3, <1>5, <1>6, <2>4, <2>6 DEF Fits, Forked, Sandboxes, Active
  <2> HIDE DEF b, j
  <2>8. QED BY <1>0, <1>1, <1>4, <2>1, <2>2, <2>3, <2>4, <2>7, OwnSandbox
<1>10. QED BY <1>7, <1>8, <1>9

LEMMA TimerInv ==
  ASSUME RuntimeInv, NEW g \in Loops, Timer(g) PROVE RuntimeInv'
<1> DEFINE s == loop[g].sb
           j == [loop[g] EXCEPT !.timedOut = TRUE]
           b == [box[s] EXCEPT !.killing = TRUE]
<1>0. Types' BY JobTypes DEF RuntimeInv
<1>1. s \in Boxes /\ loop[g].at = "run" BY DEF Timer, RuntimeInv, LoopShape, Active
<1>2. box \in [Boxes -> Sandboxes] /\ loop \in [Loops -> Jobs]
  BY DEF RuntimeInv, Types, TypeOK, Jobs
<1>3. loop[g] \in Jobs /\ box[s] \in Sandboxes BY <1>1, <1>2
<1>4. /\ loop' = [loop EXCEPT ![g] = j] /\ box' = [box EXCEPT ![s] = b]
      /\ UNCHANGED <<setup, up, gen, cur, strays, taken>>
  BY <1>2 DEF Timer
<1>5. j \in Jobs BY <1>3 DEF Jobs
<1>6. b \in Sandboxes BY <1>3, FlagUpdates
<1>7. j.sb = s /\ j.at = "run" /\ j.result = loop[g].result /\ j.timedOut
  BY <1>1, <1>3 DEF Jobs
<1>8. loop[g].result # "memory" BY <1>1 DEF RuntimeInv, Blame
<1>9. Fits(g, j, box[s], b)
  <2>1. /\ b.child = box[s].child /\ (b.server <=> box[s].server) /\ b.how = box[s].how
        /\ b.closing = box[s].closing /\ (b.own <=> box[s].own)
        /\ (b.socket <=> box[s].socket) /\ b.ops = box[s].ops
    BY <1>3 DEF Sandboxes
  <2>2. /\ box[s].child # "up" => ~box[s].socket /\ box[s].ops = {}
        /\ box[s].child \in {"boot", "up"} => box[s].how = "no"
        /\ box[s].closing = "kill" => box[s].child # "none" /\ box[s].own
        /\ box[s].closing = "close" => box[s].child = "none" /\ box[s].server
    BY <1>1 DEF RuntimeInv, BoxShape, Alive
  <2>3. \A x, y \in box[s].ops : x = y BY <1>1 DEF RuntimeInv, Quiet
  <2>4. setup.isolate /\ box[s].child \in {"boot", "up"} => box[s].server
    BY <1>1 DEF RuntimeInv, Port, Alive
  <2> HIDE DEF b, j
  <2>5. QED BY <1>7, <2>1, <2>2, <2>3, <2>4 DEF Fits
<1> HIDE DEF j, b
<1>10. QED BY <1>0, <1>1, <1>4, <1>5, <1>6, <1>7, <1>8, <1>9, OwnSandbox

LEMMA AnswerInv ==
  ASSUME RuntimeInv, NEW g \in Loops, Answer(g), Exposures = {} PROVE RuntimeInv'
<1> DEFINE s == loop[g].sb
           b == [box[s] EXCEPT !.ops = @ \ {loop[g].job}]
<1>0. Types' BY JobTypes DEF RuntimeInv
<1>1. /\ s \in Boxes /\ s # NoBox /\ (cur[g] = s \/ cur[g] = NoBox) /\ loop[g].at = "run"
      /\ box[s].child = "up" /\ box[s].socket /\ ~box[s].killing /\ loop[g].job \in box[s].ops
  BY DEF Answer, Ready, RuntimeInv, LoopShape, Active, Boxes, NoBox
<1>2. box \in [Boxes -> Sandboxes] /\ loop \in [Loops -> Jobs]
  BY DEF RuntimeInv, Types, TypeOK, Jobs
<1>3. loop[g] \in Jobs /\ box[s] \in Sandboxes BY <1>1, <1>2
<1>4. \A x, y \in box[s].ops : x = y BY <1>1 DEF RuntimeInv, Quiet
<1>5. /\ b.child = box[s].child /\ (b.server <=> box[s].server) /\ b.how = box[s].how
      /\ b.closing = box[s].closing /\ (b.own <=> box[s].own)
      /\ (b.socket <=> box[s].socket) /\ (b.killing <=> box[s].killing)
      /\ b.ops = box[s].ops \ {loop[g].job}
  BY <1>3 DEF Sandboxes
<1>6. b \in Sandboxes
  <2>1. box[s].ops \ {loop[g].job} \in SUBSET Boxes BY <1>3 DEF Sandboxes
  <2>2. QED BY <1>3, <2>1 DEF Sandboxes
<1>7. b.ops = {} BY <1>1, <1>4, <1>5
<1>8. UNCHANGED <<setup, up, gen, strays, taken>> BY DEF Answer
<1>9. CASE setup.reusable \/ cur[g] = NoBox
  <2> DEFINE j == [loop[g] EXCEPT !.at = "finish", !.result = "ok"]
  <2>1. loop' = [loop EXCEPT ![g] = j] /\ box' = [box EXCEPT ![s] = b] /\ UNCHANGED cur
    BY <1>2, <1>9 DEF Answer
  <2>2. j \in Jobs BY <1>3 DEF Jobs, Places, Results
  <2>3. j.sb = s /\ j.at = "finish" /\ j.result = "ok" BY <1>3 DEF Jobs
  <2>4. /\ box[s].how = "no"
        /\ box[s].closing # "close"
        /\ setup.isolate => box[s].server
    BY <1>1 DEF RuntimeInv, BoxShape, Port, Alive
  <2> HIDE DEF j, b
  <2>5. Fits(g, j, box[s], b)
    BY <1>1, <1>5, <1>7, <2>3, <2>4 DEF Fits, Active
  <2>6. QED BY <1>0, <1>1, <1>6, <1>8, <2>1, <2>2, <2>3, <2>5, OwnSandbox
<1>10. CASE ~(setup.reusable \/ cur[g] = NoBox)
  <2> DEFINE j == [loop[g] EXCEPT !.at = "closing", !.result = "ok"]
             c == Shut(b)
  <2>1. /\ loop' = [loop EXCEPT ![g] = j] /\ box' = [box EXCEPT ![s] = c]
        /\ cur' = [cur EXCEPT ![g] = NoBox]
    BY <1>2, <1>10 DEF Answer
  <2>2. j \in Jobs BY <1>3 DEF Jobs, Places, Results
  <2>3. j.sb = s /\ j.at = "closing" /\ j.result = "ok" BY <1>3 DEF Jobs
  <2>4. c \in Sandboxes BY <1>6, BoxUpdates
  <2>5. ShutTo(b, c) /\ c.ops = b.ops BY <1>6, ShutFields
  <2> HIDE DEF j, b, c
  <2>6. ShutTo(box[s], c) BY <1>1, <1>5, <1>7, <2>5 DEF ShutTo
  <2>7. QED BY <1>0, <1>1, <1>8, <1>10, <2>1, <2>2, <2>3, <2>4, <2>6, GiveUpInv
<1>11. QED BY <1>9, <1>10

\* A job gets the sandbox that is ready or one that nobody has used, and what
\* the manager does not hand on is shut down.
LEMMA AcquireInv ==
  ASSUME RuntimeInv, NEW g \in Loops, Acquire(g) PROVE RuntimeInv'
<1>0. Types' BY PrepareTypes DEF RuntimeInv, Prepare
<1>p. PICK old, n : old = cur[g] /\ n = loop[g].job OBVIOUS
<1>1. /\ loop[g].at = "resolve" /\ loop[g].sb = NoBox /\ loop[g].result = "none"
      /\ n \in Boxes /\ n # NoBox /\ ~(n > taken) /\ Fresh(n) /\ ~Abandoned(g)
  <2>1. loop[g].at = "resolve" BY DEF Acquire
  <2>2. n \in Boxes BY <1>p, <2>1 DEF RuntimeInv, Types, HasJob
  <2>3. ~(n > taken)
    BY <1>p, <2>1, <2>2 DEF RuntimeInv, Unnamed, Types, TypeOK, Boxes
  <2>4. Fresh(n) /\ ~Abandoned(g)
    BY <1>p, <2>1 DEF RuntimeInv, Unnamed, CurrentOnly, Preparing
  <2>5. QED BY <2>1, <2>2, <2>3, <2>4, NoBoxIsNoBox DEF RuntimeInv, LoopShape, Idle
<1>2. /\ box \in [Boxes -> Sandboxes] /\ cur \in [Loops -> Boxes \cup {NoBox}]
      /\ loop \in [Loops -> Jobs] /\ old \in Boxes \cup {NoBox}
  BY <1>p DEF RuntimeInv, Types, TypeOK, Jobs
<1>3. \A h \in Loops : h # g => cur[h] = NoBox /\ loop[h].at \notin Preparing
  BY <1>1 DEF RuntimeInv, CurrentOnly, Abandoned
<1>4. UNCHANGED <<setup, up, gen, strays, taken, faults>> BY DEF Acquire
<1>5. PICK s : s = IF setup.reusable /\ old # NoBox /\ Ready(old) THEN old ELSE n OBVIOUS
<1>6. s \in Boxes /\ s # NoBox BY <1>1, <1>2, <1>5, NoBoxIsNoBox
<1>7. /\ loop'[g].at = "provision" /\ loop'[g].sb = s /\ loop'[g].result = "none"
      /\ loop'[g].job = n
      /\ \A h \in Loops : h # g => loop'[h] = loop[h]
  BY <1>p, <1>1, <1>2, <1>5 DEF Acquire, Jobs
<1>8. cur'[g] = s /\ \A h \in Loops : h # g => cur'[h] = NoBox
  BY <1>p, <1>2, <1>3, <1>5 DEF Acquire
<1>9. /\ \A t \in Boxes : t # old => box'[t] = box[t]
      /\ s = old => box' = box
      /\ s # old /\ old # NoBox => box'[old] = Shut(box[old])
  <2>1. n # old BY <1>p, <1>1 DEF Fresh
  <2>2. QED BY <1>p, <1>2, <1>5, <1>6, <2>1 DEF Acquire
<1>10. s # old /\ old # NoBox => ShutTo(box[old], box'[old]) /\ box'[old].ops = box[old].ops
  BY <1>2, <1>9, ShutFields
<1>11. s # old => s = n BY <1>5
<1>12. \A h \in Loops : old # NoBox => loop[h].sb # old
  BY <1>p, <1>1 DEF RuntimeInv, Separate
<1>13. \A h \in Loops : loop[h].sb # s
  BY <1>1, <1>6, <1>11, <1>12 DEF Fresh
<1> USE NoBoxIsNoBox, <1>1, <1>3, <1>4, <1>6, <1>7, <1>8, <1>9, <1>12, <1>13
    DEF Alive, Ready, Abandoned
<1>14. CurrentOnly' BY DEF RuntimeInv, CurrentOnly, Preparing
<1>15. Separate' BY DEF RuntimeInv, Separate
<1>16. Unnamed'
  <2>1. old \in Boxes => ~(old > taken) BY <1>p DEF RuntimeInv, Unnamed, Fresh
  <2>2. ~(s > taken) BY <1>11, <2>1
  <2>3. QED BY <2>1, <2>2 DEF RuntimeInv, Unnamed, Fresh, Preparing
<1>17. LoopShape'
  <2>1. \A h \in Loops : h # g /\ loop[h].sb \in Boxes => box'[loop[h].sb] = box[loop[h].sb]
    OBVIOUS
  <2>2. QED BY <2>1 DEF RuntimeInv, LoopShape, Idle, Active, Preparing
<1>18. BoxShape' BY <1>2, <1>10 DEF ShutTo, RuntimeInv, BoxShape
<1>19. Kept'
  <2>1. \A t \in Boxes : cur[g] # t => \A h \in Loops : cur[h] # t OBVIOUS
  <2>2. box[s].closing = "no" /\ box'[s].closing = "no"
    BY <1>p, <1>11 DEF RuntimeInv, Kept, Fresh, Unused
  <2>3. \A t \in Boxes : t # s => ~((Alive(t) \/ box[t].server) /\ box[t].closing = "no")'
    BY <1>p, <1>10, <2>1 DEF ShutTo, RuntimeInv, Kept
  <2>4. QED BY <2>2, <2>3 DEF Kept
<1>20. Started'
  <2>1. (box'[s].child = "up" /\ box'[s].socket) \/ (box'[s].child = "none" /\ ~box'[s].server)
    BY <1>5, <1>11 DEF Fresh, Unused
  <2>2. QED BY <2>1 DEF RuntimeInv, Started, Preparing
<1>21. Quiet'
  <2>1. box'[s].ops = {} /\ ~box'[s].killing
    BY <1>p, <1>11 DEF Fresh, Unused, RuntimeInv, Quiet
  <2>2. \A h \in Loops : h # g /\ loop[h].at = "connect" => box'[loop[h].sb] = box[loop[h].sb]
    BY DEF RuntimeInv, LoopShape, Active
  <2>3. \A t \in Boxes : box'[t].ops = box[t].ops BY <1>2, <1>10
  <2>4. QED BY <2>1, <2>2, <2>3 DEF RuntimeInv, Quiet
<1>22. Blame'
  <2>1. \A h \in Loops : h # g /\ loop[h].sb \in Boxes => box'[loop[h].sb] = box[loop[h].sb]
    OBVIOUS
  <2>2. \A h \in Loops : loop[h].at \in Active => loop[h].sb \in Boxes
    BY DEF RuntimeInv, LoopShape
  <2>3. QED BY <2>1, <2>2 DEF RuntimeInv, Blame, Active
<1>23. Port' BY <1>2, <1>10 DEF ShutTo, RuntimeInv, Port
<1>24. QED
  BY <1>0, <1>14, <1>15, <1>16, <1>17, <1>18, <1>19, <1>20, <1>21, <1>22, <1>23
  DEF RuntimeInv

-----------------------------------------------------------------------------
LEMMA InitRuntimeInv == Init => RuntimeInv
<1> SUFFICES ASSUME Init PROVE RuntimeInv OBVIOUS
<1>0. Types BY InitTypes
<1> USE NoBoxIsNoBox DEF Init, Alive, Ready, Abandoned, Off, Unused
<1>1. CurrentOnly BY DEF CurrentOnly, Preparing
<1>2. Separate BY DEF Separate
<1>3. Unnamed BY DEF Unnamed, Fresh
<1>4. LoopShape BY DEF LoopShape, Idle, Active
<1>5. BoxShape BY DEF BoxShape
<1>6. Kept BY DEF Kept
<1>7. Started BY DEF Started
<1>8. Quiet BY DEF Quiet
<1>9. Blame BY DEF Blame, Active
<1>10. Port BY DEF Port
<1>11. QED
  BY <1>0, <1>1, <1>2, <1>3, <1>4, <1>5, <1>6, <1>7, <1>8, <1>9, <1>10 DEF RuntimeInv

LEMMA NextRuntimeInv ==
  ASSUME Exposures = {}
  PROVE  RuntimeInv /\ [Next]_vars => RuntimeInv'
<1> SUFFICES ASSUME RuntimeInv, [Next]_vars PROVE RuntimeInv'
  OBVIOUS
<1>1. CASE Connect \/ Disconnect BY <1>1, ConnectInv, DisconnectInv
<1>2. ASSUME NEW g \in Loops, TakeJob(g) \/ LoopStep(g) \/ LoopFault(g) \/ Answer(g)
      PROVE  RuntimeInv'
  <2>1. CASE Connected(g)
    <3>1. Types' BY <2>1, JobTypes DEF RuntimeInv
    <3>2. QED BY <2>1, <3>1, RunInv DEF Connected
  <2>2. QED
    BY <1>2, <2>1, TakeJobInv, AcquireInv, StartInv, MoveInv, FailStepInv, TimerInv, AnswerInv
    DEF LoopStep, LoopFault, Prepare
<1>3. ASSUME NEW s \in Boxes, ShutdownStep(s) \/ EngineStep(s)
      PROVE  RuntimeInv'
  BY <1>3, BoxInv
<1>4. CASE UNCHANGED vars
  <2> USE <1>4 DEF vars, Alive, Ready, Abandoned
  <2>1. Types' BY DEF RuntimeInv, Types, TypeOK, HasJob
  <2>2. CurrentOnly' /\ Separate' /\ Unnamed'
    BY DEF RuntimeInv, CurrentOnly, Separate, Unnamed, Fresh
  <2>3. LoopShape' /\ BoxShape' /\ Kept' BY DEF RuntimeInv, LoopShape, BoxShape, Kept
  <2>4. Started' /\ Quiet' BY DEF RuntimeInv, Started, Quiet
  <2>5. Blame' /\ Port' BY DEF RuntimeInv, Blame, Port
  <2>6. QED BY <2>1, <2>2, <2>3, <2>4, <2>5 DEF RuntimeInv
<1>5. QED BY <1>1, <1>2, <1>3, <1>4 DEF Next

LEMMA RuntimeInvHolds == ASSUME Exposures = {} PROVE Spec => []RuntimeInv
  BY InitRuntimeInv, NextRuntimeInv, PTL DEF Spec

\* An engine executes one operation at a time, however jobs fail, time out or
\* are given up and however often the worker reconnects: execute of the sandbox
\* manager never hands on a sandbox that is still busy.
THEOREM OneOperationHolds == ASSUME Exposures = {} PROVE Spec => []OneOperation
<1>1. RuntimeInv => OneOperation
  <2> SUFFICES ASSUME RuntimeInv, NEW s \in Boxes PROVE Cardinality(box[s].ops) <= 1
    BY DEF OneOperation
  <2>1. \A a, b \in box[s].ops : a = b BY DEF RuntimeInv, Quiet
  <2>2. CASE box[s].ops = {} BY <2>2, FS_EmptySet
  <2>3. CASE box[s].ops # {}
    <3>1. PICK a : box[s].ops = {a} BY <2>1, <2>3
    <3>2. QED BY <3>1, FS_Singleton
  <2>4. QED BY <2>2, <2>3
<1>2. QED BY <1>1, RuntimeInvHolds, PTL

\* After a disconnect no engine goes on with the job of the lost connection
\* unless its kill is under way: abortInFlightRuntime reaches every run.
THEOREM NoAbandonedRunHolds == ASSUME Exposures = {} PROVE Spec => []NoAbandonedRun
<1>1. RuntimeInv => NoAbandonedRun
  <2> SUFFICES ASSUME RuntimeInv, NEW g \in Loops, loop[g].at = "run", Abandoned(g),
                      box[loop[g].sb].ops # {}
               PROVE  box[loop[g].sb].closing = "kill"
    BY DEF NoAbandonedRun
  <2>1. cur[g] = NoBox BY DEF RuntimeInv, CurrentOnly
  <2>2. loop[g].sb \in Boxes
    BY DEF RuntimeInv, LoopShape, Active
  <2>3. box[loop[g].sb].child = "up" BY <2>2 DEF RuntimeInv, BoxShape
  <2>4. QED BY <2>1, <2>2, <2>3, NoBoxIsNoBox DEF RuntimeInv, LoopShape, Active
<1>2. QED BY <1>1, RuntimeInvHolds, PTL

\* A box of isolate never has two processes: createSocketServer takes the port
\* before a process is created and shutdown gives it back after the kill.
THEOREM OneProcessPerBoxHolds == ASSUME Exposures = {} PROVE Spec => []OneProcessPerBox
<1>1. RuntimeInv => OneProcessPerBox BY DEF RuntimeInv, Port, OneProcessPerBox
<1>2. QED BY <1>1, RuntimeInvHolds, PTL

\* No process and no server outlives what refers to it: start finds neither in
\* the sandbox it starts, and whatever the manager drops is being shut down.
THEOREM NothingLeaksHolds == ASSUME Exposures = {} PROVE Spec => []NothingLeaks
<1>1. RuntimeInv => NothingLeaks
  <2> SUFFICES ASSUME RuntimeInv, NEW s \in Boxes, Alive(s) \/ box[s].server,
                      box[s].closing = "no"
               PROVE  \E g \in Loops : ~Abandoned(g) /\ cur[g] = s
    BY DEF NothingLeaks, RuntimeInv
  <2>1. PICK g \in Loops : cur[g] = s BY DEF RuntimeInv, Kept
  <2>2. ~Abandoned(g) BY <2>1, NoBoxIsNoBox DEF RuntimeInv, CurrentOnly
  <2>3. QED BY <2>1, <2>2
<1>2. QED BY <1>1, RuntimeInvHolds, PTL

\* handleProcessExit blames the memory limit only for a SIGKILL of the kernel's:
\* every kill by the worker has set killedByShutdown or the run's timeout first.
THEOREM NoFalseBlameHolds == ASSUME Exposures = {} PROVE Spec => []NoFalseBlame
<1>1. RuntimeInv => NoFalseBlame BY DEF RuntimeInv, Blame, NoFalseBlame
<1>2. QED BY <1>1, RuntimeInvHolds, PTL
=============================================================================
