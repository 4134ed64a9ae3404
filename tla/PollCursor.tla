----------------------------- MODULE PollCursor -----------------------------
(***************************************************************************)
(* The cursor of one polling trigger as a transaction: a poll moves it in  *)
(* the store before its events are handed over, so the broker keeps a      *)
(* snapshot that is deleted once the runs exist and restored otherwise.    *)
(*                                                                         *)
(*   poll-cursor-guard.ts       begin, markSubmitting, commit, settle      *)
(*   job-broker.ts              begin on dequeue, settle on completion     *)
(*   worker-rpc-service.ts      submitPayloads                             *)
(*   execute-polling.ts         the poll on the worker                     *)
(*   polling/index.ts           pollingHelper: read, fetch, move           *)
(*   trigger-source-service.ts  enable, disable, publish                   *)
(*                                                                         *)
(* Events are numbered in the order of the source.  The cursor is the      *)
(* newest event a poll has fetched; 0 stands for a store with no entries.  *)
(***************************************************************************)
EXTENDS Naturals

CONSTANTS
  MaxJobs,     \* ids of the scheduled poll jobs
  MaxEvents,   \* bound: events of the source
  MaxAttempts, \* attempts of a job
  MaxFaults,   \* bound: what crashes and failures cost together
  StrayCost,   \* the cost of a lost worker or a guard that fails to begin
  MaxEdits,    \* bound: times the trigger is disabled or published
  Exposures    \* situations outside the guard's protection that may occur

ASSUME PollAssumption ==
  /\ MaxJobs \in Nat /\ MaxEvents \in Nat \ {0} /\ MaxAttempts \in Nat \ {0}
  /\ MaxFaults \in Nat /\ StrayCost \in Nat /\ MaxEdits \in Nat
  /\ Exposures \subseteq {"emptyStore", "lostAnswer", "overlap", "republish"}

Slots  == 1..2
Events == 1..MaxEvents
Jobs   == 1..MaxJobs
NoJob  == 0
NoSnap == [job |-> NoJob, phase |-> "POLLING", cursor |-> 0, fresh |-> FALSE]
Idle   == [at |-> "idle", job |-> NoJob, from |-> 0, to |-> 0, todo |-> {}, failed |-> FALSE,
           orphan |-> FALSE]

\* The states of a trigger that is disabled and enabled, and of one that is
\* published with the same settings: scheduler and snapshot are gone, the trigger
\* source is gone, the new trigger source is saved but its ON_ENABLE has not run.
Restarting  == {"disabling", "off", "enabling"}
Republished == {"replacing", "replaced", "republishing"}

VARIABLES
  strategy, \* how the trigger deduplicates: TIMEBASED or LAST_ITEM
  source,   \* the newest event
  cursor,   \* the trigger's entry in the store
  snap,     \* poll-snapshot of the workflow
  jobs,     \* jobs[j]: free, queued, active, backoff
  made,     \* made[j]: attempts of job j that failed
  slot,     \* slot[d]: a dispatch on its way through worker and API
  trigger,  \* on, or where the user's change of the trigger has come to
  zombies,  \* jobs of a version that has no trigger source any more
  done,     \* events that have a run, or predate the trigger's enabling
  floor,    \* history: the cursor the trigger was enabled with
  late,     \* history: polls from before the last enabling that can reach beyond it
  spent, edits

vars == <<strategy, source, cursor, snap, jobs, made, slot, trigger, zombies, done, floor,
          late, spent, edits>>

Phases == {"idle", "read", "fetch", "put", "mark", "start", "complete", "settle"}

Dispatches == [at : Phases, job : Jobs \cup {NoJob}, from : 0..MaxEvents,
               to : 0..MaxEvents, todo : SUBSET Events, failed : BOOLEAN, orphan : BOOLEAN]

StoreTyped ==
  /\ cursor \in 0..MaxEvents
  /\ snap \in [job : Jobs \cup {NoJob}, phase : {"POLLING", "SUBMITTING"},
               cursor : 0..MaxEvents, fresh : BOOLEAN]

QueueTyped ==
  /\ jobs \in [Jobs -> {"free", "queued", "active", "backoff"}]
  /\ made \in [Jobs -> 0..MaxAttempts - 1]
  /\ zombies \subseteq Jobs

SlotsTyped ==
  /\ slot \in [Slots -> Dispatches]
  /\ \A d \in Slots : slot[d].at = "idle" <=> slot[d].job = NoJob
  /\ \A d \in Slots : slot[d].at = "idle" => slot[d].todo = {} /\ ~slot[d].orphan

OutsideTyped ==
  /\ strategy \in {"TIMEBASED", "LAST_ITEM"} 
  /\ trigger \in {"on"} \cup Restarting \cup Republished /\ late \subseteq {"begun", "crossing"}
  /\ source \in 0..MaxEvents /\ floor \in 0..MaxEvents /\ done \subseteq Events
  /\ spent \in Nat /\ edits \in 0..MaxEdits

TypeOK == StoreTyped /\ QueueTyped /\ SlotsTyped /\ OutsideTyped

\* A trigger that keeps the last item has nothing to keep while the source is empty.
Init ==
  /\ strategy \in {"TIMEBASED", "LAST_ITEM"}
  /\ source \in {1} \cup (IF "emptyStore" \in Exposures /\ strategy = "LAST_ITEM"
                          THEN {0} ELSE {})
  /\ cursor = source /\ floor = source /\ done = 1..source
  /\ snap = NoSnap
  /\ jobs = [j \in Jobs |-> "free"] /\ made = [j \in Jobs |-> 0]
  /\ slot = [d \in Slots |-> Idle]
  /\ trigger = "on" /\ zombies = {} /\ late = {}
  /\ spent = 0 /\ edits = 0

-----------------------------------------------------------------------------
Store   == <<cursor, snap>>
Queue   == <<jobs, made, zombies>>
Outside == <<strategy, source, trigger, done, floor, late, edits>>

Becomes(d, s) == slot' = [slot EXCEPT ![d] = s]
Leave(d)      == Becomes(d, Idle)
Go(d, next)   == Becomes(d, [slot[d] EXCEPT !.at = next])

\* The answer of submitPayloads, which nobody waits for when the worker is gone.
Return(d) == IF slot[d].orphan THEN Leave(d) ELSE Go(d, "complete")
Fail(d)   == IF slot[d].orphan THEN Leave(d)
             ELSE Becomes(d, [slot[d] EXCEPT !.at = "complete", !.failed = TRUE])

Fault(cost) == spent + cost <= MaxFaults /\ spent' = spent + cost
HasSnap     == snap.job # NoJob
Served(j)   == \E d \in Slots : slot[d].job = j /\ ~slot[d].orphan
InFlight    == \E d \in Slots : slot[d].at # "idle"

-----------------------------------------------------------------------------
(* The source, the schedule and the queue. *)

NewEvent ==
  /\ source < MaxEvents /\ source' = source + 1
  /\ UNCHANGED <<strategy, Store, Queue, slot, trigger, done, floor, late, spent, edits>>

\* Mutant of Schedule: the new job names the version that was replaced.
ScheduleOldVersion(j) ==
  /\ trigger = "on"
  /\ jobs[j] = "free" /\ snap.job # j /\ \A d \in Slots : slot[d].job # j
  /\ \A k \in Jobs : jobs[k] # "queued"
  /\ jobs' = [jobs EXCEPT ![j] = "queued"] /\ made' = [made EXCEPT ![j] = 0]
  /\ UNCHANGED <<Store, zombies, slot, Outside, spent>>

\* The scheduler of the enabled trigger adds its next job, under an id of its own.
Schedule(j) ==
  /\ trigger = "on"
  /\ jobs[j] = "free" /\ snap.job # j /\ \A d \in Slots : slot[d].job # j
  /\ \A k \in Jobs : jobs[k] # "queued"
  /\ jobs' = [jobs EXCEPT ![j] = "queued"] /\ made' = [made EXCEPT ![j] = 0]
  /\ zombies' = zombies \ {j}
  /\ UNCHANGED <<Store, slot, Outside, spent>>

\* Eight minutes later, when the failed attempt has long been settled.
BackoffEnds(j) ==
  /\ jobs[j] = "backoff" /\ ~Served(j) /\ jobs' = [jobs EXCEPT ![j] = "queued"]
  /\ UNCHANGED <<Store, made, zombies, slot, Outside, spent>>

StalledScan(j) ==
  /\ jobs[j] = "active" /\ ~Served(j) /\ jobs' = [jobs EXCEPT ![j] = "queued"]
  /\ UNCHANGED <<Store, made, zombies, slot, Outside, spent>>

\* zombiePollingInterceptor: the job's version has a trigger source.
HasSource(j) == trigger \notin {"off", "replaced"} /\ j \notin zombies

DiscardZombie(j) ==
  /\ jobs[j] = "queued" /\ ~HasSource(j)
  /\ jobs' = [jobs EXCEPT ![j] = "free"]
  /\ UNCHANGED <<Store, made, zombies, slot, Outside, spent>>

\* Polls of a trigger begin three minutes apart, or one after the other.
Apart(j) ==
  \/ "overlap" \in Exposures
  \/ /\ snap.job \in {NoJob, j} \/ ~snap.fresh
     /\ \A d \in Slots : slot[d].job \in {NoJob, j}

Dequeue(d, j) ==
  /\ jobs[j] = "queued" /\ HasSource(j) /\ Apart(j)
  /\ slot[d].at = "idle" /\ \A c \in Slots : c < d => slot[c].at # "idle"
  /\ Becomes(d, [Idle EXCEPT !.at = "read", !.job = j])
  /\ jobs' = [jobs EXCEPT ![j] = "active"]
  /\ late' = IF trigger \in Restarting THEN late \cup {"begun"} ELSE late
  /\ UNCHANGED <<made, zombies, strategy, source, trigger, done, floor, edits>>

-----------------------------------------------------------------------------
(* The guard. *)

InWindow(j) == HasSnap /\ snap.job # j /\ snap.fresh
RolledBack  == IF HasSnap THEN snap.cursor ELSE cursor

\* begin: rolls back what another poll left behind, then takes its own snapshot.
Begin(d, j) ==
  /\ Dequeue(d, j)
  /\ IF InWindow(j) THEN UNCHANGED Store
     ELSE /\ cursor' = RolledBack
          /\ snap' = IF cursor' = 0 THEN NoSnap
                     ELSE [job |-> j, phase |-> "POLLING", cursor |-> cursor', fresh |-> TRUE]
  /\ UNCHANGED spent

\* begin fails, perhaps after the roll-back: the poll runs unprotected.
BeginFails(d, j) ==
  /\ Dequeue(d, j) /\ Fault(StrayCost)
  /\ \/ UNCHANGED Store
     \/ ~InWindow(j) /\ cursor' = RolledBack /\ snap' = NoSnap

MarkSubmitting(d) ==
  /\ slot[d].at = "mark" /\ Go(d, "start")
  /\ snap' = IF HasSnap THEN [snap EXCEPT !.phase = "SUBMITTING"] ELSE snap
  /\ UNCHANGED <<cursor, Queue, Outside, spent>>

Commit(d) ==
  /\ slot[d].at = "start" /\ slot[d].todo = {} /\ ~slot[d].failed
  /\ snap' = NoSnap
  /\ Return(d)
  /\ UNCHANGED <<cursor, Queue, Outside, spent>>

\* Mutant of Settle: a failed poll is settled like a successful one.
SettleDeletes(d) ==
  /\ slot[d].at = "settle" /\ Leave(d)
  /\ snap' = IF snap.job = slot[d].job THEN NoSnap ELSE snap
  /\ UNCHANGED <<cursor, Queue, Outside, spent>>

Settle(d) ==
  /\ slot[d].at = "settle" /\ Leave(d)
  /\ cursor' = IF snap.job = slot[d].job /\ (slot[d].failed \/ snap.phase = "SUBMITTING")
               THEN snap.cursor ELSE cursor
  /\ snap' = IF snap.job = slot[d].job THEN NoSnap ELSE snap
  /\ UNCHANGED <<Queue, Outside, spent>>

-----------------------------------------------------------------------------
(* The poll: worker, engine and submitPayloads. *)

ReadCursor(d) ==
  /\ slot[d].at = "read"
  /\ Becomes(d, [slot[d] EXCEPT !.at = "fetch", !.from = cursor])
  /\ UNCHANGED <<Store, Queue, Outside, spent>>

Fetch(d) ==
  /\ slot[d].at = "fetch"
  /\ Becomes(d, [slot[d] EXCEPT !.at = "put", !.to = source])
  /\ UNCHANGED <<Store, Queue, Outside, spent>>

\* What pollingHelper.poll leaves in the store: a trigger that keeps the last item
\* writes nothing when there is no new one.
HasNew(d) == slot[d].to > slot[d].from
Moved(d)  == IF HasNew(d) \/ strategy = "TIMEBASED" THEN slot[d].to ELSE cursor

PutCursor(d) ==
  /\ slot[d].at = "put"
  /\ cursor' = Moved(d)
  /\ Becomes(d, [slot[d] EXCEPT !.at = IF HasNew(d) THEN "mark" ELSE "complete",
                                !.todo = slot[d].from + 1 .. slot[d].to])
  /\ UNCHANGED <<snap, Queue, Outside, spent>>

\* The trigger throws, which is no failure of the job; the answer to its write of
\* the cursor may be all that failed.
TriggerFails(d) ==
  /\ slot[d].at \in {"read", "fetch", "put"} /\ Fault(1)
  /\ Go(d, "complete")
  /\ cursor' \in {cursor} \cup (IF "lostAnswer" \in Exposures /\ slot[d].at = "put"
                                THEN {Moved(d)} ELSE {})
  /\ UNCHANGED <<snap, Queue, Outside>>

\* The engine is killed at its timeout, before or after it moved the cursor, or a
\* step of submitPayloads throws.
PollFails(d) ==
  /\ slot[d].at \in {"read", "fetch", "put", "mark"} \/ (slot[d].at = "start" /\ slot[d].todo = {})
  /\ Fault(1) /\ Fail(d)
  /\ UNCHANGED <<Store, Queue, Outside>>

StartRun(d, e) ==
  /\ slot[d].at = "start" /\ e \in slot[d].todo
  /\ Becomes(d, [slot[d] EXCEPT !.todo = @ \ {e}])
  /\ done' = done \cup {e}
  /\ UNCHANGED <<Store, Queue, strategy, source, trigger, floor, late, edits, spent>>

StartFails(d, e) ==
  /\ slot[d].at = "start" /\ e \in slot[d].todo /\ Fault(1)
  /\ Becomes(d, [slot[d] EXCEPT !.todo = @ \ {e}, !.failed = TRUE])
  /\ UNCHANGED <<Store, Queue, Outside>>

\* startRuns throws once every event was tried.
BatchFails(d) ==
  /\ slot[d].at = "start" /\ slot[d].todo = {} /\ slot[d].failed /\ Fail(d)
  /\ UNCHANGED <<Store, Queue, Outside, spent>>

\* Mutant of CompleteJob: one attempt too many.
CompleteJobOneMore(d) ==
  LET j == slot[d].job
      retry == slot[d].failed /\ made[j] + 1 <= MaxAttempts IN
  /\ slot[d].at = "complete" /\ Go(d, "settle")
  /\ jobs' = [jobs EXCEPT ![j] = IF retry THEN "backoff" ELSE "free"]
  /\ made' = IF retry THEN [made EXCEPT ![j] = @ + 1] ELSE made
  /\ UNCHANGED <<Store, zombies, Outside, spent>>

\* completeJob: the job is moved first, the cursor settled afterwards.
CompleteJob(d) ==
  LET j == slot[d].job
      retry == slot[d].failed /\ made[j] + 1 < MaxAttempts IN
  /\ slot[d].at = "complete" /\ Go(d, "settle")
  /\ jobs' = [jobs EXCEPT ![j] = IF retry THEN "backoff" ELSE "free"]
  /\ made' = IF retry THEN [made EXCEPT ![j] = @ + 1] ELSE made
  /\ UNCHANGED <<Store, zombies, Outside, spent>>

\* The move fails: the job stays active and the poll is settled as failed.
MoveFails(d) ==
  /\ slot[d].at = "complete" /\ Fault(1)
  /\ Becomes(d, [slot[d] EXCEPT !.at = "settle", !.failed = TRUE])
  /\ UNCHANGED <<Store, Queue, Outside>>

-----------------------------------------------------------------------------
(* Crashes, time and the user. *)

\* The API dies, or its guard cannot settle: what the dispatch did stays as it is.
Crash(d) ==
  /\ slot[d].at # "idle" /\ Fault(1) /\ Leave(d)
  /\ UNCHANGED <<Store, Queue, Outside>>

\* The worker disconnects.  Its job is queued again at once; a submission goes on.
LoseWorker(d) ==
  /\ slot[d].at \notin {"idle", "settle"} /\ ~slot[d].orphan /\ Fault(StrayCost)
  /\ Becomes(d, IF slot[d].at \in {"mark", "start"}
                THEN [slot[d] EXCEPT !.orphan = TRUE] ELSE Idle)
  /\ jobs' = [jobs EXCEPT ![slot[d].job] = "queued"]
  /\ UNCHANGED <<Store, made, zombies, Outside>>

\* IN_FLIGHT_WINDOW_MS passes.
SnapshotAges ==
  /\ HasSnap /\ snap.fresh
  /\ "overlap" \in Exposures \/ \A d \in Slots : slot[d].job # snap.job
  /\ snap' = [snap EXCEPT !.fresh = FALSE]
  /\ UNCHANGED <<cursor, Queue, slot, Outside, spent>>

\* Mutant of Discard: the snapshot survives.
DiscardNothing(next) ==
  /\ trigger = "on" /\ edits < MaxEdits /\ edits' = edits + 1
  /\ next = "replacing" => "republish" \in Exposures \/ ~HasSnap
  /\ trigger' = next
  /\ late' = IF next = "disabling" THEN {} ELSE late
  /\ UNCHANGED <<Store, Queue, slot, strategy, source, done, floor, spent>>

\* The trigger is disabled, or disabled to be published with the same settings: the
\* scheduler is removed and the snapshot discarded.
Discard(next) ==
  /\ trigger = "on" /\ edits < MaxEdits /\ edits' = edits + 1
  /\ next = "replacing" => "republish" \in Exposures \/ ~HasSnap
  /\ trigger' = next
  /\ snap' = NoSnap
  /\ late' = IF next = "disabling" THEN {} ELSE late
  /\ UNCHANGED <<cursor, Queue, slot, strategy, source, done, floor, spent>>

\* Only now do the jobs of the version lose their trigger source.
SoftDelete ==
  /\ \/ trigger = "disabling" /\ trigger' = "off"
     \/ trigger = "replacing" /\ trigger' = "replaced"
  /\ zombies' = {j \in Jobs : jobs[j] # "free"}
  /\ UNCHANGED <<Store, jobs, made, slot, strategy, source, done, floor, late, spent, edits>>

\* The new trigger source is saved, for the version there was or for a new one.
SaveSource ==
  /\ \/ trigger = "off" /\ trigger' = "enabling" /\ zombies' \in {zombies, {}}
     \/ trigger = "replaced" /\ trigger' = "republishing" /\ zombies' = zombies
  /\ UNCHANGED <<Store, jobs, made, slot, strategy, source, done, floor, late, spent, edits>>

\* ON_ENABLE: a republished trigger keeps its cursor, any other starts now, even
\* with a poll under way.
OnEnable ==
  /\ trigger \in {"enabling", "republishing"} /\ trigger' = "on"
  /\ IF trigger = "republishing" /\ cursor # 0 THEN UNCHANGED <<cursor, floor, done, late>>
     ELSE /\ cursor' = source /\ floor' = source /\ done' = done \cup 1..source
          /\ late' = IF InFlight THEN late \cup {"crossing"} ELSE late
  /\ UNCHANGED <<snap, Queue, slot, strategy, source, spent, edits>>

-----------------------------------------------------------------------------
Polling(d) ==
  \/ ReadCursor(d) \/ Fetch(d) \/ PutCursor(d) \/ MarkSubmitting(d) \/ Commit(d)
  \/ BatchFails(d) \/ CompleteJob(d) \/ Settle(d)
  \/ \E e \in Events : StartRun(d, e)

Failure(d) ==
  \/ TriggerFails(d) \/ PollFails(d) \/ MoveFails(d) \/ Crash(d) \/ LoseWorker(d)
  \/ \E e \in Events : StartFails(d, e)

Queueing(j) == Schedule(j) \/ BackoffEnds(j) \/ StalledScan(j) \/ DiscardZombie(j)

Editing ==
  \/ \E next \in {"disabling", "replacing"} : Discard(next)
  \/ SoftDelete \/ SaveSource \/ OnEnable

Next ==
  \/ NewEvent \/ SnapshotAges \/ Editing
  \/ \E j \in Jobs : Queueing(j) \/ \E d \in Slots : Begin(d, j) \/ BeginFails(d, j)
  \/ \E d \in Slots : Polling(d) \/ Failure(d)

Spec == Init /\ [][Next]_vars

Fairness ==
  /\ \A d \in Slots : WF_vars(Polling(d))
  /\ \A j \in Jobs : WF_vars(\E d \in Slots : Begin(d, j))
  /\ \A j \in Jobs : WF_vars(BackoffEnds(j) \/ StalledScan(j) \/ DiscardZombie(j))
  /\ WF_vars(\E j \in Jobs : Schedule(j))
  /\ WF_vars(SnapshotAges)

FairSpec == Spec /\ Fairness

-----------------------------------------------------------------------------
(* Properties. *)

\* Every event behind the cursor of an enabled trigger has its run, is about to
\* be handed over, or comes back when the snapshot is restored; unless a poll was
\* under way while the trigger was enabled, whose snapshot may have been discarded.
NoEventLost ==
  trigger = "on" /\ "crossing" \notin late => \A e \in 1..cursor :
    \/ e \in done
    \/ HasSnap /\ e > snap.cursor
    \/ \E d \in Slots : e \in slot[d].todo

\* An enabled trigger goes back behind the cursor it was enabled with only by a poll
\* that began after the disabling had discarded the snapshot, or that was still under
\* way when the trigger was enabled.
OwnCursor == trigger = "on" /\ late = {} => cursor >= floor

\* Once the source is quiet, every event of an enabled trigger gets its run, whatever
\* failed on the way; with the same exception as NoEventLost.
EveryEventRuns ==
  []<>(1..source \subseteq done \/ trigger # "on" \/ "crossing" \in late)
=============================================================================
