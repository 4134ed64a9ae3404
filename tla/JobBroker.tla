------------------------------ MODULE JobBroker ------------------------------
(***************************************************************************)
(* How run jobs travel between BullMQ and the workers' connections of one  *)
(* API instance and one queue.                                             *)
(*                                                                         *)
(*   job-broker.ts              tryDequeue, runInterceptors, completeJob,  *)
(*                              returnJobToQueue, releaseConnectionJobs    *)
(*   queue-dispatcher.ts        waiters and the dequeue loop               *)
(*   job-assignment-tracker.ts  which connection holds which job           *)
(*   rate-limiter-interceptor.ts, instance-concurrency-interceptor.ts,     *)
(*   tenant-suspension-interceptor.ts                                      *)
(*   worker.ts                  poll loop, lock extension, disconnect      *)
(*                                                                         *)
(* BullMQ (external) gives a dequeued job a lock with a token.  Moving an  *)
(* active job needs its current token; a lock nobody extends lapses, and   *)
(* the stalled scan puts the job back.  Steps end where the code awaits.   *)
(***************************************************************************)
EXTENDS Naturals, Sequences, FiniteSets

CONSTANTS
  Jobs,            \* run jobs (EXECUTE_WORKFLOW, production), all queued at first
  Conns,           \* socket ids of worker connections; a closed one never returns
  None,            \* no connection, no job
  Concurrency,     \* WORKER_CONCURRENCY: poll loops per connection
  Capacity,        \* Capacity[p]: limit of concurrency pool p
  Suspendable,     \* jobs of a tenant that may be found suspended
  Unreadable,      \* jobs whose data fails the schema after migration
  MaxAttempts,     \* BullMQ attempts of a run job
  MaxStalledCount, \* BullMQ maxStalledCount
  TokenBound,      \* tokens told apart at the same time
  MaxTimeouts,     \* bound: polls that give up waiting
  MaxDisconnects,  \* bound: connections that close
  MaxLapses,       \* bound: locks that lapse although a worker holds the job
  MaxErrors,       \* bound: dequeues that throw half-way, Redis errors
  MaxFaults        \* bound: all of these together

Pools  == {"project", "tenant", "instance"}
Tokens == 1..TokenBound

ASSUME JobsAssumption == None \notin Jobs /\ IsFiniteSet(Jobs)
ASSUME ConnsAssumption == None \notin Conns /\ IsFiniteSet(Conns) /\ Concurrency \in Nat \ {0}
ASSUME CapacityAssumption == Capacity \in [Pools -> Nat \ {0}]
ASSUME DataAssumption == Suspendable \subseteq Jobs /\ Unreadable \subseteq Jobs
ASSUME BoundAssumption ==
  /\ MaxAttempts \in Nat \ {0} /\ MaxStalledCount \in Nat
  /\ TokenBound \in Nat \ {0} /\ MaxTimeouts \in Nat
  /\ MaxDisconnects \in Nat /\ MaxLapses \in Nat /\ MaxErrors \in Nat
  /\ MaxFaults \in Nat

VARIABLES
  job,       \* job[j]: state of job j in BullMQ
  owner,     \* owner[j]: token of the lock of job j, 0 without lock
  attempts,  \* attempts[j]: failed attempts
  stalls,    \* stalls[j]: times the stalled scan took job j back
  waiters,   \* dispatcher: polls waiting for a job, by connection
  loop,      \* dispatcher: where the dequeue loop is, and with which job
  slots,     \* slots[p]: members of the Redis set of pool p
  inherited, \* inherited[p]: members that a later dispatch found there
  disturbed, \* history: jobs taken back from a worker or served by an error path
  conn,      \* conn[c]: whether the API still has connection c
  assign,    \* tracker: assignmentByKey
  keys,      \* tracker: keysByConnectionId
  runs,      \* jobs executing on workers
  calls,     \* completeJob calls in progress
  returns,   \* returnJobToQueue calls of closed connections in progress
  faults     \* how much of each bound is used up

vars == <<job, owner, attempts, stalls, waiters, loop, slots, inherited, disturbed,
          conn, assign, keys, runs, calls, returns, faults>>

bullVars    == <<job, owner, attempts, stalls>>
slotVars    == <<slots, inherited, disturbed>>
trackerVars == <<assign, keys>>

NoAssignment == [conn |-> None, token |-> 0]
Stages  == {"suspension", "project", "tenant", "instance", "gate", "hand",
            "return", "release"}
Idle(at) == [at |-> at, job |-> None, token |-> 0]

TypeOK ==
  /\ job \in [Jobs -> {"waiting", "active", "backoff", "gone", "failed"}]
  /\ owner \in [Jobs -> 0..TokenBound]
  /\ attempts \in [Jobs -> 0..MaxAttempts]
  /\ stalls \in [Jobs -> 0..(MaxStalledCount + 1)]
  /\ waiters \in Seq(Conns)
  /\ loop \in [at : {"off", "dequeue"}, job : {None}, token : {0}]
         \cup [at : Stages, job : Jobs, token : Tokens]
  /\ slots \in [Pools -> SUBSET Jobs] /\ inherited \in [Pools -> SUBSET Jobs]
  /\ disturbed \subseteq Jobs
  /\ conn \in [Conns -> {"up", "closed"}]
  /\ assign \in [Jobs -> [conn : Conns, token : Tokens] \cup {NoAssignment}]
  /\ keys \in [Conns -> SUBSET Jobs]
  /\ runs \subseteq [conn : Conns, job : Jobs, token : Tokens]
  /\ calls \subseteq [conn : Conns, job : Jobs, token : Tokens, ok : BOOLEAN,
                      at : {"move", "clear", "release"}]
  /\ returns \subseteq [job : Jobs, token : Tokens, at : {"move", "release"}]
  /\ faults \in [timeouts : 0..MaxTimeouts, disconnects : 0..MaxDisconnects,
                 lapses : 0..MaxLapses, errors : 0..MaxErrors]

Init ==
  /\ job = [j \in Jobs |-> "waiting"]
  /\ owner = [j \in Jobs |-> 0]
  /\ attempts = [j \in Jobs |-> 0]
  /\ stalls = [j \in Jobs |-> 0]
  /\ waiters = <<>>
  /\ loop = Idle("off")
  /\ slots = [p \in Pools |-> {}] /\ inherited = [p \in Pools |-> {}] /\ disturbed = {}
  /\ conn = [c \in Conns |-> "up"]
  /\ assign = [j \in Jobs |-> NoAssignment]
  /\ keys = [c \in Conns |-> {}]
  /\ runs = {} /\ calls = {} /\ returns = {}
  /\ faults = [timeouts |-> 0, disconnects |-> 0, lapses |-> 0, errors |-> 0]

FaultLeft ==
  faults.timeouts + faults.disconnects + faults.lapses + faults.errors < MaxFaults

-----------------------------------------------------------------------------
(* BullMQ. *)

TokensInUse ==
  {owner[j] : j \in Jobs} \cup {assign[j].token : j \in Jobs} \cup {loop.token}
    \cup {r.token : r \in runs \cup calls \cup returns}

\* A random token differs from every token still in use.
IsNewToken(t) ==
  t \in Tokens \ TokensInUse /\ \A u \in Tokens \ TokensInUse : t <= u

Holds(j, t) == job[j] = "active" /\ owner[j] = t

\* moveToCompleted, moveToFailed, moveToDelayed: need the current token.
Move(j, state) ==
  /\ job' = [job EXCEPT ![j] = state]
  /\ owner' = [owner EXCEPT ![j] = 0]

NoMove == UNCHANGED <<job, owner>>

-----------------------------------------------------------------------------
(* Dispatcher: poll, waiter timeout, the loop's exit test. *)

\* Mutant of NextRound: the loop stops after each round.
NextRoundStops(ws) == loop' = Idle("off")

\* The loop goes on while somebody waits and stops otherwise.
NextRound(ws) == loop' = Idle(IF ws = <<>> THEN "off" ELSE "dequeue")

\* A poll loop waits, executes its job, or has completeJob unanswered.
FreeLoop(c) ==
  Cardinality({i \in 1..Len(waiters) : waiters[i] = c})
    + Cardinality({r \in runs \cup calls : r.conn = c}) < Concurrency

Poll(c) ==
  /\ conn[c] = "up" /\ FreeLoop(c)
  /\ waiters' = Append(waiters, c)
  /\ loop' = IF loop.at = "off" THEN Idle("dequeue") ELSE loop
  /\ UNCHANGED <<bullVars, slotVars, conn, trackerVars, runs, calls, returns, faults>>

WaiterTimeout(c) ==
  /\ faults.timeouts < MaxTimeouts /\ FaultLeft
  /\ faults' = [faults EXCEPT !.timeouts = @ + 1]
  /\ \E i \in 1..Len(waiters) :
       /\ waiters[i] = c
       /\ waiters' = SubSeq(waiters, 1, i - 1) \o SubSeq(waiters, i + 1, Len(waiters))
  /\ UNCHANGED <<bullVars, loop, slotVars, conn, trackerVars, runs, calls, returns>>

-----------------------------------------------------------------------------
(* tryDequeue.  A failed, discarded or rejected job makes it try the next. *)

NothingQueued ==
  /\ loop.at = "dequeue"
  /\ \A j \in Jobs : job[j] # "waiting"
  /\ NextRound(waiters)
  /\ UNCHANGED <<bullVars, waiters, slotVars, conn, trackerVars, runs, calls, returns, faults>>

TakeJob(j, t) ==
  /\ loop.at = "dequeue" /\ job[j] = "waiting"
  /\ stalls[j] <= MaxStalledCount /\ j \notin Unreadable
  /\ IsNewToken(t)
  /\ job' = [job EXCEPT ![j] = "active"]
  /\ owner' = [owner EXCEPT ![j] = t]
  /\ loop' = [at |-> "suspension", job |-> j, token |-> t]
  /\ UNCHANGED <<attempts, stalls, waiters, slotVars, conn, trackerVars, runs, calls,
                 returns, faults>>

\* A deferred failure or data of the wrong schema: failed, no interceptor told.
TakeBadJob(j) ==
  /\ loop.at = "dequeue" /\ job[j] = "waiting"
  /\ stalls[j] > MaxStalledCount \/ j \in Unreadable
  /\ job' = [job EXCEPT ![j] = "failed"]
  /\ UNCHANGED <<owner, attempts, stalls, waiters, loop, slotVars, conn, trackerVars,
                 runs, calls, returns, faults>>

\* The loop's job leaves it; with a lapsed lock the move throws instead.
LoopMove(state) ==
  IF Holds(loop.job, loop.token)
  THEN Move(loop.job, state) /\ loop' = Idle("dequeue")
  ELSE NoMove /\ NextRound(waiters)

CheckSuspension ==
  /\ loop.at = "suspension"
  /\ \/ loop.job \in Suspendable /\ LoopMove("gone")
     \/ loop' = [loop EXCEPT !.at = "project"] /\ NoMove
  /\ UNCHANGED <<attempts, stalls, waiters, slotVars, conn, trackerVars, runs, calls,
                 returns, faults>>

Before(p) == CASE p = "project"  -> {}
               [] p = "tenant"   -> {"project"}
               [] p = "instance" -> {"project", "tenant"}
               [] p = "gate"     -> Pools

After(p) == CASE p = "project"  -> "tenant"
              [] p = "tenant"   -> "instance"
              [] p = "instance" -> "gate"
              [] p = "gate"     -> "hand"

\* The slots of j in the pools of S, given back.
Without(table, S, j) == [p \in Pools |-> IF p \in S THEN table[p] \ {j} ELSE table[p]]

Free(S, j) == slots' = Without(slots, S, j) /\ inherited' = Without(inherited, S, j)

\* Another fault of the bound MaxErrors.
Error ==
  faults.errors < MaxErrors /\ FaultLeft /\ faults' = [faults EXCEPT !.errors = @ + 1]

Disturb(j) == disturbed' = disturbed \cup {j}

\* A member's score is not refreshed: its slot keeps the age of an earlier dispatch.
Inherit(p) ==
  inherited' = [inherited EXCEPT ![p] = IF loop.job \in slots[p] THEN @ \cup {loop.job} ELSE @]

HasRoom(p) == loop.job \in slots[p] \/ Cardinality(slots[p]) < Capacity[p]

\* Mutant of AcquireSlot: one slot too many.
AcquireOneMore(p) ==
  /\ loop.at = p
  /\ IF loop.job \in slots[p] \/ Cardinality(slots[p]) <= Capacity[p]
     THEN /\ slots' = [slots EXCEPT ![p] = @ \cup {loop.job}] /\ Inherit(p)
          /\ loop' = [loop EXCEPT !.at = After(p)]
          /\ NoMove
     ELSE /\ Free(Before(p), loop.job)
          /\ LoopMove("waiting")
  /\ UNCHANGED <<attempts, stalls, waiters, disturbed, conn, trackerVars, runs, calls,
                 returns, faults>>

\* The acquire script of a pool: a member keeps its slot, a full pool rejects.
AcquireSlot(p) ==
  /\ loop.at = p
  /\ IF HasRoom(p)
     THEN /\ slots' = [slots EXCEPT ![p] = @ \cup {loop.job}] /\ Inherit(p)
          /\ loop' = [loop EXCEPT !.at = After(p)]
          /\ NoMove
     ELSE /\ Free(Before(p), loop.job)
          /\ LoopMove("waiting")
  /\ UNCHANGED <<attempts, stalls, waiters, disturbed, conn, trackerVars, runs, calls,
                 returns, faults>>

\* The instance's interceptor allows the run when Redis does not answer.
AllowUnchecked ==
  /\ loop.at = "instance" /\ Error
  /\ loop' = [loop EXCEPT !.at = After("instance")]
  /\ Inherit("instance") /\ Disturb(loop.job)
  /\ UNCHANGED <<bullVars, waiters, slots, conn, trackerVars, runs, calls, returns>>

\* The workflow gate (module ConcurrencyGate) admits or rejects.
PassGate ==
  /\ loop.at = "gate"
  /\ loop' = [loop EXCEPT !.at = After("gate")]
  /\ UNCHANGED <<bullVars, waiters, slotVars, conn, trackerVars, runs, calls, returns, faults>>

RejectAtGate ==
  /\ loop.at = "gate"
  /\ Free(Before("gate"), loop.job)
  /\ LoopMove("waiting")
  /\ UNCHANGED <<attempts, stalls, waiters, disturbed, conn, trackerVars, runs, calls, returns,
                 faults>>

\* tryDequeue throws: the job stays active, its slots stay taken.
DequeueError ==
  /\ loop.at \in Stages \ {"return", "release"}
  /\ Error
  /\ NextRound(waiters)
  /\ UNCHANGED <<bullVars, waiters, slotVars, conn, trackerVars, runs, calls, returns>>

-----------------------------------------------------------------------------
(* Handing the job over: the first waiter gets it, whether or not its      *)
(* connection is still there, and the tracker records it.                  *)

\* jobAssignmentTracker.record: replaces an assignment, adds to the index.
Record(c, j, t) ==
  /\ assign' = [assign EXCEPT ![j] = [conn |-> c, token |-> t]]
  /\ keys' = [keys EXCEPT ![c] = @ \cup {j}]

HandOver ==
  /\ loop.at = "hand" /\ waiters # <<>>
  /\ LET c == Head(waiters) IN
       /\ waiters' = Tail(waiters)
       /\ Record(c, loop.job, loop.token)
       /\ runs' = IF conn[c] = "up"
                  THEN runs \cup {[conn |-> c, job |-> loop.job, token |-> loop.token]}
                  ELSE runs
  /\ NextRound(waiters')
  /\ UNCHANGED <<bullVars, slotVars, conn, calls, returns, faults>>

NoWaiterLeft ==
  /\ loop.at = "hand" /\ waiters = <<>>
  /\ loop' = [loop EXCEPT !.at = "return"]
  /\ UNCHANGED <<bullVars, waiters, slotVars, conn, trackerVars, runs, calls, returns, faults>>

\* onOrphanedJob = returnJobToQueue, awaited by the loop.
ReturnOrphan ==
  /\ loop.at = "return"
  /\ IF Holds(loop.job, loop.token)
     THEN Move(loop.job, "waiting") /\ loop' = [loop EXCEPT !.at = "release"]
     ELSE NoMove /\ NextRound(waiters)
  /\ UNCHANGED <<attempts, stalls, waiters, slotVars, conn, trackerVars, runs, calls,
                 returns, faults>>

ReleaseOrphan ==
  /\ loop.at = "release"
  /\ Free(Pools, loop.job)
  /\ NextRound(waiters)
  /\ UNCHANGED <<bullVars, waiters, disturbed, conn, trackerVars, runs, calls, returns, faults>>

-----------------------------------------------------------------------------
(* completeJob. *)

WorkerDone(r, ok) ==
  /\ conn[r.conn] = "up"
  /\ runs' = runs \ {r}
  /\ calls' = calls \cup {[conn |-> r.conn, job |-> r.job, token |-> r.token,
                           ok |-> ok, at |-> "move"]}
  /\ UNCHANGED <<bullVars, waiters, loop, slotVars, conn, trackerVars, returns, faults>>

Advance(S, x, at) == (S \ {x}) \cup {[x EXCEPT !.at = at]}

\* Mutant of CompleteMove: a failed attempt is always retried.
CompleteMoveRetries(x) ==
  /\ x.at = "move"
  /\ calls' = IF job[x.job] = "gone" THEN calls \ {x} ELSE Advance(calls, x, "clear")
  /\ IF ~Holds(x.job, x.token)
     THEN NoMove /\ UNCHANGED attempts
     ELSE IF x.ok
     THEN Move(x.job, "gone") /\ UNCHANGED attempts
     ELSE Move(x.job, "backoff") /\ attempts' = [attempts EXCEPT ![x.job] = @ + 1]
  /\ UNCHANGED <<stalls, waiters, loop, slotVars, conn, trackerVars, runs, returns, faults>>

\* A job that is no longer in Redis ends the call; a stale token is logged and
\* the call goes on.
CompleteMove(x) ==
  /\ x.at = "move"
  /\ calls' = IF job[x.job] = "gone" THEN calls \ {x} ELSE Advance(calls, x, "clear")
  /\ IF ~Holds(x.job, x.token)
     THEN NoMove /\ UNCHANGED attempts
     ELSE IF x.ok
     THEN Move(x.job, "gone") /\ UNCHANGED attempts
     ELSE /\ attempts' = [attempts EXCEPT ![x.job] = @ + 1]
          /\ Move(x.job, IF attempts[x.job] + 1 < MaxAttempts THEN "backoff" ELSE "failed")
  /\ UNCHANGED <<stalls, waiters, loop, slotVars, conn, trackerVars, runs, returns, faults>>

\* The move fails, which is logged: the job stays active under its lock.
CompleteMoveFails(x) ==
  /\ x.at = "move" /\ Holds(x.job, x.token) /\ Error
  /\ calls' = Advance(calls, x, "clear")
  /\ UNCHANGED <<bullVars, waiters, loop, slotVars, conn, trackerVars, runs, returns>>

\* Mutant of CompleteClear: the index of the connection keeps the job.
CompleteClearKeepsKey(x) ==
  /\ x.at = "clear"
  /\ calls' = Advance(calls, x, "release")
  /\ assign' = [assign EXCEPT ![x.job] = NoAssignment]
  /\ UNCHANGED <<bullVars, waiters, loop, slotVars, conn, keys, runs, returns, faults>>

\* jobAssignmentTracker.clear: by job, whoever holds it.
CompleteClear(x) ==
  /\ x.at = "clear"
  /\ calls' = Advance(calls, x, "release")
  /\ LET c == assign[x.job].conn IN
       /\ assign' = [assign EXCEPT ![x.job] = NoAssignment]
       /\ keys' = IF c = None THEN keys ELSE [keys EXCEPT ![c] = @ \ {x.job}]
  /\ UNCHANGED <<bullVars, waiters, loop, slotVars, conn, runs, returns, faults>>

CompleteRelease(x) ==
  /\ x.at = "release"
  /\ calls' = calls \ {x}
  /\ Free(Pools, x.job)
  /\ UNCHANGED <<bullVars, waiters, loop, disturbed, conn, trackerVars, runs, returns, faults>>

\* The backoff of a failed attempt (8 minutes) outlasts the rest of completeJob.
BackoffEnds(j) ==
  /\ job[j] = "backoff"
  /\ \A x \in calls : x.job = j => x.at = "move"
  /\ job' = [job EXCEPT ![j] = "waiting"]
  /\ UNCHANGED <<owner, attempts, stalls, waiters, loop, slotVars, conn, trackerVars,
                 runs, calls, returns, faults>>

-----------------------------------------------------------------------------
(* A connection closes: takeByConnection, then returnJobToQueue per job.   *)

Taken(c) == {j \in keys[c] : assign[j] # NoAssignment}

\* Mutant of Disconnect: takes the index entry and leaves the assignments.
DisconnectKeepsAssignments(c) ==
  /\ conn[c] = "up" /\ faults.disconnects < MaxDisconnects /\ FaultLeft
  /\ faults' = [faults EXCEPT !.disconnects = @ + 1]
  /\ conn' = [conn EXCEPT ![c] = "closed"]
  /\ keys' = [keys EXCEPT ![c] = {}]
  /\ returns' = returns \cup
       {[job |-> j, token |-> assign[j].token, at |-> "move"] : j \in Taken(c)}
  /\ UNCHANGED <<bullVars, waiters, loop, slotVars, assign, runs, calls>>

Disconnect(c) ==
  /\ conn[c] = "up" /\ faults.disconnects < MaxDisconnects /\ FaultLeft
  /\ faults' = [faults EXCEPT !.disconnects = @ + 1]
  /\ conn' = [conn EXCEPT ![c] = "closed"]
  /\ keys' = [keys EXCEPT ![c] = {}]
  /\ assign' = [j \in Jobs |-> IF j \in Taken(c) THEN NoAssignment ELSE assign[j]]
  /\ returns' = returns \cup
       {[job |-> j, token |-> assign[j].token, at |-> "move"] : j \in Taken(c)}
  /\ UNCHANGED <<bullVars, waiters, loop, slotVars, runs, calls>>

\* moveToDelayed throws on a stale token: then nothing is released either.
ReturnMove(x) ==
  /\ x.at = "move"
  /\ IF Holds(x.job, x.token)
     THEN /\ Move(x.job, "waiting") /\ Disturb(x.job)
          /\ returns' = Advance(returns, x, "release")
     ELSE NoMove /\ UNCHANGED disturbed /\ returns' = returns \ {x}
  /\ UNCHANGED <<attempts, stalls, waiters, loop, slots, inherited, conn, trackerVars, runs,
                 calls, faults>>

ReturnRelease(x) ==
  /\ x.at = "release"
  /\ returns' = returns \ {x}
  /\ Free(Pools, x.job)
  /\ UNCHANGED <<bullVars, waiters, loop, disturbed, conn, trackerVars, runs, calls, faults>>

\* A command of an interceptor's cleanup fails, which is logged: the slots that
\* this interceptor had yet to give back stay taken.
LeakSlots(j) ==
  /\ Error /\ Disturb(j)
  /\ \E kept \in {{"project", "tenant"}, {"tenant"}, {"instance"}} : Free(Pools \ kept, j)

CompleteLeaks(x) ==
  /\ x.at = "release" /\ calls' = calls \ {x} /\ LeakSlots(x.job)
  /\ UNCHANGED <<bullVars, waiters, loop, conn, trackerVars, runs, returns>>

ReturnLeaks(x) ==
  /\ x.at = "release" /\ returns' = returns \ {x} /\ LeakSlots(x.job)
  /\ UNCHANGED <<bullVars, waiters, loop, conn, trackerVars, runs, calls>>

OrphanLeaks ==
  /\ loop.at = "release" /\ NextRound(waiters) /\ LeakSlots(loop.job)
  /\ UNCHANGED <<bullVars, waiters, conn, trackerVars, runs, calls, returns>>

RejectLeaks ==
  /\ loop.at = "gate" \/ (loop.at = "instance" /\ ~HasRoom("instance"))
  /\ LoopMove("waiting") /\ LeakSlots(loop.job)
  /\ UNCHANGED <<attempts, stalls, waiters, conn, trackerVars, runs, calls, returns>>

\* The worker notices, kills its runtime and reports nothing.
AbortRun(r) ==
  /\ conn[r.conn] = "closed"
  /\ runs' = runs \ {r}
  /\ UNCHANGED <<bullVars, waiters, loop, slotVars, conn, trackerVars, calls, returns, faults>>

-----------------------------------------------------------------------------
(* Lock expiry and recovery. *)

\* Mutant of Handled: a worker does not extend the lock of its job.
HandledUnextended(j) ==
  \/ loop.token = owner[j]
  \/ \E x \in calls \cup returns : x.token = owner[j]

\* Somebody still works with the current token: the lock is young or extended.
Handled(j) ==
  \/ loop.token = owner[j]
  \/ \E r \in runs : r.token = owner[j] /\ conn[r.conn] = "up"
  \/ \E x \in calls \cup returns : x.token = owner[j]

LockLapses(j) ==
  /\ owner[j] # 0
  /\ IF Handled(j)
     THEN /\ faults.lapses < MaxLapses /\ FaultLeft
          /\ faults' = [faults EXCEPT !.lapses = @ + 1]
     ELSE UNCHANGED faults
  /\ owner' = [owner EXCEPT ![j] = 0]
  /\ UNCHANGED <<job, attempts, stalls, waiters, loop, slotVars, conn, trackerVars,
                 runs, calls, returns>>

StalledScan(j) ==
  /\ job[j] = "active" /\ owner[j] = 0
  /\ job' = [job EXCEPT ![j] = "waiting"]
  /\ stalls' = [stalls EXCEPT ![j] = @ + 1]
  /\ Disturb(j)
  /\ UNCHANGED <<owner, attempts, waiters, loop, slots, inherited, conn, trackerVars, runs,
                 calls, returns, faults>>

\* Mutant of SlotExpires: the acquire scripts prune nothing.
SlotNeverExpires(p, j) ==
  /\ j \in slots[p]
  /\ UNCHANGED vars

\* The score of a slot falls out of the TTL, a minute more than a run may last:
\* once its dispatch is over, or during a later dispatch that inherited it.
SlotExpires(p, j) ==
  /\ j \in slots[p]
  /\ j \in inherited[p] \/ (job[j] # "active" /\ \A r \in runs : r.job # j)
  /\ Free({p}, j)
  /\ UNCHANGED <<bullVars, waiters, loop, disturbed, conn, trackerVars, runs, calls, returns, faults>>

-----------------------------------------------------------------------------
LoopStep ==
  \/ NothingQueued \/ \E j \in Jobs : TakeBadJob(j) \/ \E t \in Tokens : TakeJob(j, t)
  \/ CheckSuspension \/ \E p \in Pools : AcquireSlot(p)
  \/ RejectAtGate \/ HandOver \/ NoWaiterLeft \/ ReturnOrphan \/ ReleaseOrphan

\* Errors that Redis answers with.
LoopFault      == DequeueError \/ AllowUnchecked \/ OrphanLeaks \/ RejectLeaks
CallFault(x)   == CompleteMoveFails(x) \/ CompleteLeaks(x)

CallStep(x)   == CompleteMove(x) \/ CompleteClear(x) \/ CompleteRelease(x)
ReturnStep(x) == ReturnMove(x) \/ ReturnRelease(x)

Settled(j) == job[j] \in {"gone", "failed"}

Next ==
  \/ \E c \in Conns : Poll(c) \/ WaiterTimeout(c) \/ Disconnect(c)
  \/ LoopStep \/ PassGate \/ LoopFault
  \/ \E r \in runs : AbortRun(r) \/ \E ok \in BOOLEAN : WorkerDone(r, ok)
  \/ \E x \in calls : CallStep(x) \/ CallFault(x)
  \/ \E x \in returns : ReturnStep(x) \/ ReturnLeaks(x)
  \/ \E j \in Jobs : LockLapses(j) \/ StalledScan(j) \/ BackoffEnds(j)
                      \/ \E p \in Pools : SlotExpires(p, j)

Spec == Init /\ [][Next]_vars

\* Connected workers keep polling and finish their runs, a worker notices that
\* its connection is gone; the event loop, the stalled scan and time go on; the
\* gate does not reject for ever (EveryRunSettles of ConcurrencyGate).
Fairness ==
  /\ \A c \in Conns :
       /\ WF_vars(Poll(c))
       /\ WF_vars(\E r \in runs : r.conn = c /\ \E ok \in BOOLEAN : WorkerDone(r, ok))
  /\ WF_vars(LoopStep) /\ SF_vars(PassGate)
  /\ WF_vars(\E r \in runs : AbortRun(r))
  /\ WF_vars(\E x \in calls : CallStep(x)) /\ WF_vars(\E x \in returns : ReturnStep(x))
  /\ \A j \in Jobs : /\ WF_vars(LockLapses(j) \/ StalledScan(j) \/ BackoffEnds(j))
                     /\ WF_vars(\E p \in Pools : SlotExpires(p, j))

FairSpec == Spec /\ Fairness

-----------------------------------------------------------------------------
(* Properties. *)

\* No lost wake-up: while a poll waits, the dequeue loop is running.
LoopRunsForWaiters == waiters # <<>> => loop.at # "off"

\* Every assignment is in the index of its connection, so a disconnect finds it.
TrackerIndexed == \A j \in Jobs : assign[j] # NoAssignment => j \in keys[assign[j].conn]

LiveRuns(j) == {r \in runs : r.job = j /\ conn[r.conn] = "up"}

\* A job executes on at most one connected worker at a time.
OneLiveRun == \A j \in Jobs : Cardinality(LiveRuns(j)) <= 1

\* No more jobs execute than any pool has room for, not counting the disturbed
\* ones: the fault of one job costs no other job its slot.
RunsWithinCapacity ==
  \A p \in Pools : Cardinality({j \in Jobs \ disturbed : LiveRuns(j) # {}}) <= Capacity[p]

\* A closing connection reclaims only jobs that were dispatched to it.
ReclaimsOnlyItsOwn ==
  [][\A c \in Conns : conn[c] = "up" /\ conn'[c] = "closed"
        => \A j \in Taken(c) : assign[j].conn = c]_vars

\* A connection that is gone holds no job: its jobs went back to the queue.
NoJobOnClosedConnection ==
  \A j \in Jobs : assign[j] # NoAssignment => conn[assign[j].conn] = "up"

\* Every job is completed or failed in the end.
EveryJobSettles == <>(\A j \in Jobs : Settled(j))
=============================================================================
