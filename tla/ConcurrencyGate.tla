--------------------------- MODULE ConcurrencyGate ---------------------------
(***************************************************************************)
(* Admission of the runs of ONE workflow: the order-key queue and the      *)
(* concurrency limit of a trigger.                                         *)
(*                                                                         *)
(*   workflow-concurrency-gate.ts          enqueue / admit / release       *)
(*   workflow-concurrency-interceptor.ts   isJobAlive and the Redis store  *)
(*   execution-service.ts (addToQueue)     register, then add the job      *)
(*   job-broker.ts                         dequeue, reject, return, finish *)
(*                                                                         *)
(* admit runs under a Redis lock of the workflow, one Redis command per    *)
(* step; enqueue and release run outside that lock, so they interleave     *)
(* with every step of an admission.  The keys of different workflows are   *)
(* disjoint (gateKeys), hence one workflow per instance of this module.    *)
(***************************************************************************)
EXTENDS Naturals, FiniteSets

CONSTANTS
  Jobs,            \* BullMQ job ids of the workflow's runs
  NoJob,           \* no job: a free lock, an empty queue
  NoKey,           \* a ticket without orderKey
  OrderKey,        \* ticket.orderKey of each job
  EnqueuedAt,      \* ticket.enqueuedAt of each job, ties already broken by member
  MaxRuns,         \* ticket.maxConcurrentRuns of each job, 0: unlimited
  Limit,           \* an upper bound of every MaxRuns
  MaxStaleHeads,   \* MAX_STALE_HEADS_PER_CHECK
  MaxAttempts,     \* BullMQ attempts of a run job
  MaxStalledCount, \* BullMQ maxStalledCount
  ParallelStarts,  \* TRUE: the events of a batch are started in parallel
  MaxFaults        \* bound: lost workers, orphaned jobs, crashed API calls

Gated(j) == MaxRuns[j] > 0 \/ OrderKey[j] # NoKey

ASSUME JobsAssumption == IsFiniteSet(Jobs) /\ NoJob \notin Jobs

ASSUME TicketAssumption ==
  /\ MaxRuns \in [Jobs -> Nat] /\ Limit \in Nat
  /\ \A j \in Jobs : MaxRuns[j] <= Limit /\ Gated(j)
  /\ EnqueuedAt \in [Jobs -> Nat]
  /\ \A i, j \in Jobs : EnqueuedAt[i] = EnqueuedAt[j] => i = j
  /\ DOMAIN OrderKey = Jobs

ASSUME BoundAssumption ==
  /\ MaxStaleHeads \in Nat \ {0} /\ MaxAttempts \in Nat \ {0}
  /\ MaxStalledCount \in Nat /\ MaxFaults \in Nat
  /\ ParallelStarts \in BOOLEAN

VARIABLES
  start,     \* start[j]: how far addToQueue got for job j
  bull,      \* bull[j]: state of job j in BullMQ
  attempts,  \* attempts[j]: failed attempts of job j
  stalls,    \* stalls[j]: times the stalled scan took job j back
  phase,     \* phase[j]: step of the dispatch that holds job j
  starts,    \* starts[j]: dispatches of job j that reached a worker
  lock,      \* holder of the workflow's gate lock
  check,     \* locals of liveQueueHead: the head read, the heads dropped
  orderq,    \* members of the order-key sorted sets (scores are EnqueuedAt)
  slot,      \* slot[j]: the entry of job j in the active sorted set
  releases,  \* gate.release calls in progress
  faults     \* faults that happened so far

vars == <<start, bull, attempts, stalls, phase, starts, lock, check, orderq,
          slot, releases, faults>>

(***************************************************************************)
(* A slot is "live" while the dispatch that marked it goes on, "left" when *)
(* that dispatch is over, and "old" once its score has passed activeTtlMs  *)
(* (run timeout plus one minute, so never while "live").                   *)
(***************************************************************************)
SlotStates == {"none", "live", "left", "old"}
Locked     == {"enqueue", "head", "alive", "drop", "limit", "holds", "count",
               "mark", "grant", "reject"}
Phases     == {"idle", "lock", "running", "lost"} \cup Locked
Causes     == {"end", "return"}
Calls      == [job : Jobs, run : Nat, at : {"slot", "queue"}, cause : Causes]

TypeOK ==
  /\ start \in [Jobs -> {"new", "registered", "added", "abandoned"}]
  /\ bull \in [Jobs -> {"absent", "queued", "active", "failed"}]
  /\ attempts \in [Jobs -> 0..MaxAttempts]
  /\ stalls \in [Jobs -> 0..(MaxStalledCount + 1)]
  /\ phase \in [Jobs -> Phases]
  /\ starts \in [Jobs -> Nat]
  /\ lock \in Jobs \cup {NoJob}
  /\ check \in [head : Jobs \cup {NoJob}, dropped : 0..MaxStaleHeads]
  /\ orderq \in SUBSET Jobs
  /\ slot \in [Jobs -> SlotStates]
  /\ releases \in SUBSET Calls
  /\ faults \in 0..MaxFaults

Init ==
  /\ start = [j \in Jobs |-> "new"]
  /\ bull = [j \in Jobs |-> "absent"]
  /\ attempts = [j \in Jobs |-> 0]
  /\ stalls = [j \in Jobs |-> 0]
  /\ phase = [j \in Jobs |-> "idle"]
  /\ starts = [j \in Jobs |-> 0]
  /\ lock = NoJob
  /\ check = [head |-> NoJob, dropped |-> 0]
  /\ orderq = {}
  /\ slot = [j \in Jobs |-> "none"]
  /\ releases = {}
  /\ faults = 0

-----------------------------------------------------------------------------
(* The Redis sorted sets. *)

SameKey(i, j) == OrderKey[i] = OrderKey[j] /\ OrderKey[i] # NoKey
QueueOf(j)    == {i \in orderq : SameKey(i, j)}
Active        == {j \in Jobs : slot[j] # "none"}

\* Mutant of QueueHead: the newest member instead of the oldest.
NewestOfQueue(j) ==
  IF QueueOf(j) = {} THEN NoJob
  ELSE CHOOSE i \in QueueOf(j) :
         \A k \in QueueOf(j) : EnqueuedAt[i] >= EnqueuedAt[k]

\* zrange key 0 0: the member with the lowest score, or nil.
QueueHead(j) ==
  IF QueueOf(j) = {} THEN NoJob
  ELSE CHOOSE i \in QueueOf(j) :
         \A k \in QueueOf(j) : EnqueuedAt[i] <= EnqueuedAt[k]

\* getJob finds the job, in a state other than completed, failed or unknown.
IsJobAlive(j) == bull[j] \in {"queued", "active"}

Fault == faults < MaxFaults /\ faults' = faults + 1

\* The dispatch of j ends and leaves its slot, if it marked one, behind.
LeaveSlot(j) == IF slot[j] = "live" THEN [slot EXCEPT ![j] = "left"] ELSE slot

Release(j, cause) == [job |-> j, run |-> starts[j], at |-> "slot", cause |-> cause]

-----------------------------------------------------------------------------
(* addToQueue: gate.enqueue (outside the lock), then jobQueue.add. *)

EarlierStarted(j) ==
  \A i \in Jobs : SameKey(i, j) /\ EnqueuedAt[i] < EnqueuedAt[j]
                    => start[i] \in {"added", "abandoned"}

Register(j) ==
  /\ start[j] = "new"
  /\ ParallelStarts \/ EarlierStarted(j)
  /\ start' = [start EXCEPT ![j] = "registered"]
  /\ orderq' = IF OrderKey[j] = NoKey THEN orderq ELSE orderq \cup {j}
  /\ UNCHANGED <<bull, attempts, stalls, phase, starts, lock, check, slot,
                 releases, faults>>

AddJob(j) ==
  /\ start[j] = "registered"
  /\ start' = [start EXCEPT ![j] = "added"]
  /\ bull' = [bull EXCEPT ![j] = "queued"]
  /\ UNCHANGED <<attempts, stalls, phase, starts, lock, check, orderq, slot,
                 releases, faults>>

\* The API fails between the two: the order set keeps a job nobody added.
AbandonStart(j) ==
  /\ start[j] = "registered"
  /\ Fault
  /\ start' = [start EXCEPT ![j] = "abandoned"]
  /\ UNCHANGED <<bull, attempts, stalls, phase, starts, lock, check, orderq,
                 slot, releases>>

-----------------------------------------------------------------------------
(* tryDequeue up to the gate. *)

\* The backoff of a failed attempt (8 minutes) and the recheck delay of a
\* rejected one outlast the release that follows them; the 100 ms of
\* returnJobToQueue does not.
Dequeue(j) ==
  /\ bull[j] = "queued" /\ phase[j] = "idle"
  /\ stalls[j] <= MaxStalledCount
  /\ \A r \in releases : r.job = j => r.cause = "return"
  /\ bull' = [bull EXCEPT ![j] = "active"]
  /\ phase' = [phase EXCEPT ![j] = "lock"]
  /\ UNCHANGED <<start, attempts, stalls, starts, lock, check, orderq, slot,
                 releases, faults>>

\* job.deferredFailure: the stalled limit is exceeded, the job fails without
\* any interceptor being told.
DequeueDeferred(j) ==
  /\ bull[j] = "queued" /\ phase[j] = "idle"
  /\ stalls[j] > MaxStalledCount
  /\ bull' = [bull EXCEPT ![j] = "failed"]
  /\ UNCHANGED <<start, attempts, stalls, phase, starts, lock, check, orderq,
                 slot, releases, faults>>

-----------------------------------------------------------------------------
(* gate.admit, under the lock of the workflow. *)

Goto(j, p) == phase' = [phase EXCEPT ![j] = p]

NoGateChange == UNCHANGED <<start, attempts, stalls, releases, faults>>

Acquire(j) ==
  /\ phase[j] = "lock" /\ lock = NoJob
  /\ lock' = j
  /\ Goto(j, IF OrderKey[j] = NoKey THEN "limit" ELSE "enqueue")
  /\ NoGateChange /\ UNCHANGED <<bull, starts, check, orderq, slot>>

AddToQueue(j) ==
  /\ phase[j] = "enqueue"
  /\ orderq' = orderq \cup {j}
  /\ check' = [head |-> NoJob, dropped |-> 0]
  /\ Goto(j, "head")
  /\ NoGateChange /\ UNCHANGED <<bull, starts, lock, slot>>

ReadHead(j) ==
  /\ phase[j] = "head"
  /\ LET h == QueueHead(j) IN
       /\ check' = [check EXCEPT !.head = h]
       /\ Goto(j, CASE h = j -> "limit"
                    [] h # j /\ (h = NoJob \/ check.dropped = MaxStaleHeads) -> "reject"
                    [] OTHER -> "alive")
  /\ NoGateChange /\ UNCHANGED <<bull, starts, lock, orderq, slot>>

CheckHeadAlive(j) ==
  /\ phase[j] = "alive"
  /\ Goto(j, IF IsJobAlive(check.head) THEN "reject" ELSE "drop")
  /\ NoGateChange /\ UNCHANGED <<bull, starts, lock, check, orderq, slot>>

DropStaleHead(j) ==
  /\ phase[j] = "drop"
  /\ orderq' = orderq \ {check.head}
  /\ check' = [check EXCEPT !.dropped = @ + 1]
  /\ Goto(j, "head")
  /\ NoGateChange /\ UNCHANGED <<bull, starts, lock, slot>>

\* Mutant of PruneActive: keeps the slots whose score is past the TTL.
PruneNothing(j) ==
  /\ phase[j] = "limit"
  /\ Goto(j, IF MaxRuns[j] = 0 THEN "grant" ELSE "holds")
  /\ NoGateChange /\ UNCHANGED <<bull, starts, lock, check, orderq, slot>>

\* Mutant of PruneActive: a TTL shorter than the run.
PruneEarly(j) ==
  /\ phase[j] = "limit"
  /\ IF MaxRuns[j] = 0
     THEN Goto(j, "grant") /\ UNCHANGED slot
     ELSE slot' = [i \in Jobs |-> "none"] /\ Goto(j, "holds")
  /\ NoGateChange /\ UNCHANGED <<bull, starts, lock, check, orderq>>

PruneActive(j) ==
  /\ phase[j] = "limit"
  /\ IF MaxRuns[j] = 0
     THEN Goto(j, "grant") /\ UNCHANGED slot
     ELSE /\ slot' = [i \in Jobs |-> IF slot[i] = "old" THEN "none" ELSE slot[i]]
          /\ Goto(j, "holds")
  /\ NoGateChange /\ UNCHANGED <<bull, starts, lock, check, orderq>>

IsActive(j) ==
  /\ phase[j] = "holds"
  /\ Goto(j, IF j \in Active THEN "grant" ELSE "count")
  /\ NoGateChange /\ UNCHANGED <<bull, starts, lock, check, orderq, slot>>

\* Mutant of CountActive: one slot too many.
CountActiveOneMore(j) ==
  /\ phase[j] = "count"
  /\ Goto(j, IF Cardinality(Active) > MaxRuns[j] THEN "reject" ELSE "mark")
  /\ NoGateChange /\ UNCHANGED <<bull, starts, lock, check, orderq, slot>>

\* Mutant of CountActive: the workflow's largest limit, not the ticket's.
CountActiveLargestLimit(j) ==
  /\ phase[j] = "count"
  /\ Goto(j, IF Cardinality(Active) >= Limit THEN "reject" ELSE "mark")
  /\ NoGateChange /\ UNCHANGED <<bull, starts, lock, check, orderq, slot>>

CountActive(j) ==
  /\ phase[j] = "count"
  /\ Goto(j, IF Cardinality(Active) >= MaxRuns[j] THEN "reject" ELSE "mark")
  /\ NoGateChange /\ UNCHANGED <<bull, starts, lock, check, orderq, slot>>

MarkActive(j) ==
  /\ phase[j] = "mark"
  /\ slot' = [slot EXCEPT ![j] = "live"]
  /\ Goto(j, "grant")
  /\ NoGateChange /\ UNCHANGED <<bull, starts, lock, check, orderq>>

\* Mutant of Grant: the run leaves its order queue when it starts.
GrantLeavesQueue(j) ==
  /\ phase[j] = "grant"
  /\ lock' = NoJob
  /\ orderq' = orderq \ {j}
  /\ starts' = [starts EXCEPT ![j] = @ + 1]
  /\ Goto(j, "running")
  /\ NoGateChange /\ UNCHANGED <<bull, check, slot>>

\* admit returned true: the lock is released and the job goes to a worker.
Grant(j) ==
  /\ phase[j] = "grant"
  /\ lock' = NoJob
  /\ starts' = [starts EXCEPT ![j] = @ + 1]
  /\ Goto(j, "running")
  /\ NoGateChange /\ UNCHANGED <<bull, check, orderq, slot>>

\* admit returned false: moveToDelayed, to be dequeued again in 3 seconds.
Reject(j) ==
  /\ phase[j] = "reject"
  /\ lock' = NoJob
  /\ bull' = [bull EXCEPT ![j] = "queued"]
  /\ Goto(j, "idle")
  /\ NoGateChange /\ UNCHANGED <<starts, check, orderq, slot>>

-----------------------------------------------------------------------------
(* completeJob and returnJobToQueue: the job moves first, release follows. *)

EndDispatch(j, state, cause) ==
  /\ phase[j] = "running"
  /\ bull' = [bull EXCEPT ![j] = state]
  /\ Goto(j, "idle")
  /\ slot' = LeaveSlot(j)
  /\ releases' = releases \cup {Release(j, cause)}
  /\ UNCHANGED <<start, stalls, starts, lock, check, orderq>>

Complete(j) ==
  /\ EndDispatch(j, "absent", "end")
  /\ UNCHANGED <<attempts, faults>>

\* Mutant of FailAttempt: the attempts are not limited.
FailForEver(j) ==
  /\ EndDispatch(j, "queued", "end")
  /\ attempts' = [attempts EXCEPT ![j] = @ + 1]
  /\ UNCHANGED faults

\* moveToFailed: retried after the backoff until the attempts are used up.
FailAttempt(j) ==
  /\ EndDispatch(j, IF attempts[j] + 1 < MaxAttempts THEN "queued" ELSE "failed", "end")
  /\ attempts' = [attempts EXCEPT ![j] = @ + 1]
  /\ UNCHANGED faults

\* No waiter took the job, or the worker's connection closed.
ReturnToQueue(j) ==
  /\ EndDispatch(j, "queued", "return")
  /\ Fault
  /\ UNCHANGED attempts

\* completeJob's move throws: the job stays active for the stalled scan, and its
\* place is released all the same.
MoveFails(j) ==
  /\ phase[j] = "running"
  /\ Fault
  /\ Goto(j, "lost")
  /\ slot' = LeaveSlot(j)
  /\ releases' = releases \cup {Release(j, "end")}
  /\ UNCHANGED <<start, bull, attempts, stalls, starts, lock, check, orderq>>

\* gate.release: removeActive, then removeFromQueue, without the lock.
RemoveActive(r) ==
  /\ r.at = "slot"
  /\ slot' = [slot EXCEPT ![r.job] = "none"]
  /\ releases' = (releases \ {r}) \cup
                   (IF OrderKey[r.job] = NoKey THEN {} ELSE {[r EXCEPT !.at = "queue"]})
  /\ UNCHANGED <<start, bull, attempts, stalls, phase, starts, lock, check,
                 orderq, faults>>

RemoveFromQueue(r) ==
  /\ r.at = "queue"
  /\ orderq' = orderq \ {r.job}
  /\ releases' = releases \ {r}
  /\ UNCHANGED <<start, bull, attempts, stalls, phase, starts, lock, check,
                 slot, faults>>

-----------------------------------------------------------------------------
(* Failures and time. *)

\* The process handling an active job dies: during the admission (its lock
\* expires), waiting for the lock in vain, or while a worker runs the job.
LoseDispatch(j) ==
  /\ phase[j] \in {"lock", "running"} \cup Locked
  /\ Fault
  /\ Goto(j, "lost")
  /\ lock' = IF lock = j THEN NoJob ELSE lock
  /\ slot' = LeaveSlot(j)
  /\ UNCHANGED <<start, bull, attempts, stalls, starts, check, orderq, releases>>

\* BullMQ's stalled scan takes back an active job whose token lock expired.
StalledScan(j) ==
  /\ phase[j] = "lost"
  /\ bull' = [bull EXCEPT ![j] = "queued"]
  /\ stalls' = [stalls EXCEPT ![j] = @ + 1]
  /\ Goto(j, "idle")
  /\ UNCHANGED <<start, attempts, starts, lock, check, orderq, slot, releases, faults>>

\* The API dies between moving a job and releasing its place in the gate.
LoseRelease(r) ==
  /\ Fault
  /\ releases' = releases \ {r}
  /\ UNCHANGED <<start, bull, attempts, stalls, phase, starts, lock, check,
                 orderq, slot>>

\* Time passes: the score of a slot left behind falls out of the TTL.
SlotExpires(j) ==
  /\ slot[j] = "left"
  /\ slot' = [slot EXCEPT ![j] = "old"]
  /\ UNCHANGED <<start, bull, attempts, stalls, phase, starts, lock, check,
                 orderq, releases, faults>>

-----------------------------------------------------------------------------
Admission(j) ==
  \/ AddToQueue(j) \/ ReadHead(j) \/ CheckHeadAlive(j) \/ DropStaleHead(j)
  \/ PruneActive(j) \/ IsActive(j) \/ CountActive(j) \/ MarkActive(j)
  \/ Grant(j) \/ Reject(j)

JobStep(j) ==
  \/ Register(j) \/ AddJob(j) \/ AbandonStart(j)
  \/ Dequeue(j) \/ DequeueDeferred(j) \/ Acquire(j) \/ Admission(j)
  \/ Complete(j) \/ FailAttempt(j) \/ ReturnToQueue(j) \/ MoveFails(j)
  \/ LoseDispatch(j) \/ StalledScan(j) \/ SlotExpires(j)

ReleaseStep(r) == RemoveActive(r) \/ RemoveFromQueue(r) \/ LoseRelease(r)

Settled(j) ==
  \/ start[j] = "abandoned"
  \/ start[j] = "added" /\ bull[j] \in {"absent", "failed"}

Done == (\A j \in Jobs : Settled(j)) /\ releases = {} /\ UNCHANGED vars

Next ==
  \/ \E j \in Jobs : JobStep(j)
  \/ \E r \in releases : ReleaseStep(r)
  \/ Done

Spec == Init /\ [][Next]_vars

Fairness ==
  /\ \A j \in Jobs :
       /\ WF_vars(Register(j)) /\ WF_vars(AddJob(j))
       /\ WF_vars(Dequeue(j)) /\ WF_vars(DequeueDeferred(j))
       /\ SF_vars(Acquire(j)) /\ WF_vars(Admission(j))
       /\ WF_vars(Complete(j) \/ FailAttempt(j))
       /\ WF_vars(StalledScan(j)) /\ WF_vars(SlotExpires(j))
  /\ WF_vars(\E r \in releases : RemoveActive(r) \/ RemoveFromQueue(r))

FairSpec == Spec /\ Fairness

-----------------------------------------------------------------------------
(* Properties. *)

\* The active set never holds more jobs than the largest limit: two admissions
\* never both see a free slot and both take it, and a job that comes back is
\* not counted twice.
SlotsBounded == Cardinality(Active) <= Limit

Pool == INSTANCE SlotPool WITH held <- Active

\* The gate implements a pool of slots: however the commands of an admission
\* interleave with releases, the set of active jobs changes as if a job checked
\* the limit of its own ticket and took its slot in one step.
ImplementsPool == Pool!Spec

Running == {j \in Jobs : phase[j] = "running"}

\* No more limited runs are on workers at once than the limit.
RunsBounded == Cardinality({j \in Running : MaxRuns[j] > 0}) <= Limit

\* Runs with the same order key are on workers one at a time.
OneRunPerKey == \A i, j \in Running : SameKey(i, j) => i = j

\* A run reaches a worker only when every earlier run of its order key is over.
ArrivalOrder ==
  [][\A j \in Jobs : starts'[j] > starts[j] =>
       \A i \in Jobs : SameKey(i, j) /\ EnqueuedAt[i] < EnqueuedAt[j] => Settled(i)]_vars

\* Every run of the workflow settles: neither a leaked slot, nor a dead head of
\* an order queue, nor a rejection postpones a run for ever.
EveryRunSettles == \A j \in Jobs : <>Settled(j)
=============================================================================
