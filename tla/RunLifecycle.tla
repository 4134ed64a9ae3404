---------------------------- MODULE RunLifecycle ----------------------------
(***************************************************************************)
(* One production run from start to end: its row, the metadata that        *)
(* travels to the row through Redis, its waitpoints, and the jobs that     *)
(* execute it.                                                             *)
(*                                                                         *)
(*   runs-metadata-queue-factory.ts  merge into a hash, add a job          *)
(*   executions-queue.ts             the metadata worker                   *)
(*   waitpoint-service.ts, resume-service.ts, execution-module.ts          *)
(*   execution-service.ts            start, cancel                         *)
(*   engine: workflow.operation.ts, execution-progress-reporter.ts         *)
(*                                                                         *)
(* The metadata worker, a resume signal and a cancellation take the lock   *)
(* runs_metadata_<id>; the engine's calls do not.  The workflow is a chain *)
(* of Steps steps that each pause once.                                    *)
(***************************************************************************)
EXTENDS Naturals, FiniteSets

CONSTANTS
  Steps,         \* number of pausing steps of the workflow
  Delays,        \* the steps that pause with a DELAY waitpoint
  MaxWaitpoints, \* bound: waitpoints created
  MaxSignals,    \* bound: resume calls per waitpoint
  MaxBackups,    \* bound: RUNNING snapshots per job
  MaxErrors,     \* bound: failed metadata jobs (below their 5 attempts) and resumes
  MetaFails,     \* whether metadata jobs may fail, or resumes alone
  Cancels        \* whether a user may cancel the run

ASSUME StepsAssumption == Steps \in Nat /\ Delays \subseteq 1..Steps
ASSUME BoundAssumption ==
  /\ MaxWaitpoints \in Nat /\ MaxSignals \in Nat /\ MaxBackups \in Nat
  /\ MaxErrors \in Nat /\ MetaFails \in BOOLEAN /\ Cancels \in BOOLEAN

VARIABLES
  row,       \* the execution row: status, and whether finishTime is set
  hash,      \* the metadata hash in Redis
  last,      \* history: the status merged last
  adds,      \* callers between the merge and the queue.add of a metadata add
  dedup,     \* whether the deduplication key of the run is set
  metaq,     \* metadata jobs waiting
  lock,      \* holder of runs_metadata_<id>
  meta,      \* locals of the metadata worker that holds the lock
  wps,       \* waitpoint rows
  created,   \* waitpoint ids used so far
  timer,     \* the system job resume-delay-<id>
  signals,   \* signals[w]: resume calls made for waitpoint w
  calls,     \* waitpoints with a resume call in progress
  jobs,      \* jobs[i]: BullMQ job of the run, 0 begins it, i resumes waitpoint i
  eng,       \* eng[i]: the engine executing job i
  log,       \* the run log file: steps done, and whether the next one is paused
  hooks,     \* history: runs of executionSideEffects.onFinish
  cancel,    \* a cancellation: not asked for, past its filter, or done
  errors     \* failed metadata jobs and resumes

vars == <<row, hash, last, adds, dedup, metaq, lock, meta, wps, created, timer,
          signals, calls, jobs, eng, log, hooks, cancel, errors>>

rowVars  == <<row, hash, last, adds, dedup, metaq, lock, meta, hooks, errors>>
waitVars == <<wps, created, timer, signals, calls>>
runVars  == <<jobs, eng, log>>

Statuses == {"QUEUED", "RUNNING", "PAUSED", "SUCCEEDED", "CANCELED"}
Terminal == {"SUCCEEDED", "CANCELED"}
Ids      == 1..MaxWaitpoints
JobIds   == 0..MaxWaitpoints
Rids     == 1..2
Starter  == MaxWaitpoints + 1
Canceler == MaxWaitpoints + 2
Adders   == 0..Canceler

NoHash == [rid |-> 0, status |-> "none", finish |-> FALSE]
NoMeta == [at |-> "idle", rid |-> 0, status |-> "none", finish |-> FALSE, wasDone |-> FALSE]
Off    == [at |-> "off", done |-> 0, paused |-> FALSE, backups |-> 0]
NoTimer == [at |-> "none", id |-> 0]

TypeOK ==
  /\ row \in [status : Statuses \cup {"none"}, finish : BOOLEAN]
  /\ hash \in [rid : Rids, status : Statuses, finish : BOOLEAN] \cup {NoHash}
  /\ last \in Statuses
  /\ adds \subseteq Adders /\ dedup \in BOOLEAN /\ metaq \in Nat
  /\ lock \in {"free", "meta", "cancel"}
  /\ meta \in [at : {"read", "save", "delete", "finish", "resume"}, rid : Rids \cup {0},
               status : Statuses \cup {"none"}, finish : BOOLEAN, wasDone : BOOLEAN]
            \cup {NoMeta}
  /\ wps \subseteq [id : Ids, step : 1..Steps, status : {"PENDING", "COMPLETED"}]
  /\ created \in 0..MaxWaitpoints
  /\ timer \in [at : {"scheduled", "active"}, id : Ids] \cup {NoTimer}
  /\ signals \in [Ids -> 0..MaxSignals] /\ calls \subseteq Ids
  /\ jobs \in [JobIds -> {"absent", "prioritized", "delayed", "active"}]
  /\ eng \in [JobIds -> [at : {"off", "run", "pause", "report", "end"}, done : 0..Steps,
                         paused : BOOLEAN, backups : 0..MaxBackups]]
  /\ log \in [done : 0..Steps, paused : BOOLEAN]
  /\ hooks \in Nat
  /\ cancel \in {"no", "chosen", "done"} /\ errors \in 0..MaxErrors

\* start: the QUEUED metadata is merged, the job of the run comes after it.
Init ==
  /\ row = [status |-> "none", finish |-> FALSE]
  /\ hash = [rid |-> 1, status |-> "QUEUED", finish |-> FALSE]
  /\ last = "QUEUED" /\ adds = {Starter} /\ dedup = FALSE /\ metaq = 0
  /\ lock = "free" /\ meta = NoMeta
  /\ wps = {} /\ created = 0 /\ timer = NoTimer
  /\ signals = [w \in Ids |-> 0] /\ calls = {}
  /\ jobs = [i \in JobIds |-> "absent"]
  /\ eng = [i \in JobIds |-> Off]
  /\ log = [done |-> 0, paused |-> FALSE]
  /\ hooks = 0
  /\ cancel = "no" /\ errors = 0

-----------------------------------------------------------------------------
(* runsMetadataQueue.add: merge with a new requestId, then queue.add.      *)

\* hset keeps the fields that are not set again: finishTime stays.
Merge(caller, status, finish) ==
  /\ hash' = [rid |-> CHOOSE r \in Rids : r # meta.rid, status |-> status,
              finish |-> hash.finish \/ finish]
  /\ last' = status
  /\ adds' = adds \cup {caller}

\* jobQueue.add: run jobs have a priority; BullMQ ignores an id it still has.
Added(S) == [i \in JobIds |-> IF i \in S /\ jobs[i] = "absent" THEN "prioritized" ELSE jobs[i]]

\* A job whose deduplication key exists is not added again.  After the first
\* add of a run its job follows.
AddMetaJob(caller) ==
  /\ caller \in adds
  /\ adds' = adds \ {caller}
  /\ dedup' = TRUE
  /\ metaq' = IF dedup THEN metaq ELSE metaq + 1
  /\ lock' = IF caller = Canceler THEN "free" ELSE lock
  /\ jobs' = Added(IF caller = Starter THEN {0} ELSE {})
  /\ UNCHANGED <<row, hash, last, meta, hooks, errors, waitVars, eng, log, cancel>>

-----------------------------------------------------------------------------
(* The metadata worker, under the lock. *)

MetaIs(at) == lock = "meta" /\ meta.at = at

MetaStart ==
  /\ metaq > 0 /\ lock = "free"
  /\ lock' = "meta" /\ metaq' = metaq - 1
  /\ dedup' = FALSE
  /\ meta' = [NoMeta EXCEPT !.at = "read"]
  /\ UNCHANGED <<row, hash, last, adds, hooks, errors, waitVars, runVars, cancel>>

MetaRead ==
  /\ MetaIs("read")
  /\ IF hash = NoHash
     THEN lock' = "free" /\ meta' = NoMeta
     ELSE /\ meta' = [at |-> "save", rid |-> hash.rid, status |-> hash.status,
                      finish |-> hash.finish, wasDone |-> FALSE]
          /\ UNCHANGED lock
  /\ UNCHANGED <<row, hash, last, adds, dedup, metaq, hooks, errors, waitVars, runVars, cancel>>

\* Mutant of MetaSave: compares with the row after the update.
MetaSaveThenCompare ==
  /\ MetaIs("save")
  /\ row' = [status |-> meta.status, finish |-> row.finish \/ meta.finish]
  /\ meta' = [meta EXCEPT !.at = "delete",
                          !.wasDone = row'.finish /\ row'.status \in Terminal]
  /\ UNCHANGED <<hash, last, adds, dedup, metaq, lock, hooks, errors, waitVars, runVars, cancel>>

\* findOneBy, then update or save, under the run's lock.
MetaSave ==
  /\ MetaIs("save")
  /\ row' = [status |-> meta.status, finish |-> row.finish \/ meta.finish]
  /\ meta' = [meta EXCEPT !.at = "delete",
                          !.wasDone = row.finish /\ row.status \in Terminal]
  /\ UNCHANGED <<hash, last, adds, dedup, metaq, lock, hooks, errors, waitVars, runVars, cancel>>

\* Mutant of MetaDelete: deletes whatever was merged since the read.
MetaDeleteAlways ==
  /\ MetaIs("delete")
  /\ hash' = NoHash
  /\ meta' = [meta EXCEPT !.at = "finish"]
  /\ UNCHANGED <<row, last, adds, dedup, metaq, lock, hooks, errors, waitVars, runVars, cancel>>

\* deleteKeyIfFieldValueMatches: not if somebody merged since the read.
MetaDelete ==
  /\ MetaIs("delete")
  /\ hash' = IF hash.rid = meta.rid THEN NoHash ELSE hash
  /\ meta' = [meta EXCEPT !.at = "finish"]
  /\ UNCHANGED <<row, last, adds, dedup, metaq, lock, hooks, errors, waitVars, runVars, cancel>>

NewlyTerminal == meta.finish /\ meta.status \in Terminal /\ ~meta.wasDone

MetaFinish ==
  /\ MetaIs("finish")
  /\ wps' = IF NewlyTerminal THEN {} ELSE wps
  /\ hooks' = IF NewlyTerminal THEN hooks + 1 ELSE hooks
  /\ meta' = [meta EXCEPT !.at = "resume"]
  /\ UNCHANGED <<row, hash, last, adds, dedup, metaq, lock, errors, created, timer,
                 signals, calls, runVars, cancel>>

Completed(S) == {w \in S : w.status = "COMPLETED"}

\* enqueueResume: the job id is made of the run and the waitpoint.
Enqueued(S) == Added({w.id : w \in S})

\* handleResumeSignal for a PAUSED row consumes the waitpoint w; then one that
\* is found completed is consumed too.
Consume(w) ==
  LET rest == Completed(wps \ {w}) IN
  \E also \in IF rest = {} THEN {{}} ELSE {{v} : v \in rest} :
    /\ wps' = wps \ ({w} \cup also)
    /\ jobs' = Enqueued({w} \cup also)

\* Mutant of MetaResume: does not look for a completed waitpoint.
MetaResumeSkips ==
  /\ MetaIs("resume")
  /\ lock' = "free" /\ meta' = NoMeta
  /\ UNCHANGED <<row, hash, last, adds, dedup, metaq, hooks, errors, waitVars, runVars, cancel>>

\* A run saved as PAUSED whose waitpoint is already completed resumes at once.
MetaResume ==
  /\ MetaIs("resume")
  /\ IF meta.status = "PAUSED" /\ Completed(wps) # {}
     THEN \E w \in Completed(wps) : Consume(w)
     ELSE UNCHANGED <<wps, jobs>>
  /\ lock' = "free" /\ meta' = NoMeta
  /\ UNCHANGED <<row, hash, last, adds, dedup, metaq, hooks, errors, created, timer,
                 signals, calls, eng, log, cancel>>

Error == errors < MaxErrors /\ errors' = errors + 1

\* The worker's job ends with an error: BullMQ runs it again after a backoff.
MetaThrows ==
  /\ MetaFails /\ lock = "meta" /\ Error
  /\ lock' = "free" /\ meta' = NoMeta
  /\ metaq' = metaq + 1
  /\ UNCHANGED <<row, hash, last, adds, dedup, hooks, waitVars, eng, log, cancel>>

MetaError == MetaThrows /\ UNCHANGED jobs

\* The transaction of handleResumeSignal enqueues the resume first: when it rolls
\* back, the waitpoint is there again and so is the job.
MetaResumeRollsBack ==
  /\ MetaThrows
  /\ meta.at = "resume" /\ meta.status = "PAUSED"
  /\ \E w \in Completed(wps) : jobs' = Enqueued({w})

-----------------------------------------------------------------------------
(* Resume signals. *)

\* The holder of a resume URL calls it, perhaps more than once.
Call(w) ==
  /\ w <= created /\ signals[w] < MaxSignals /\ w \notin calls
  /\ signals' = [signals EXCEPT ![w] = @ + 1]
  /\ calls' = calls \cup {w}
  /\ UNCHANGED <<rowVars, wps, created, timer, runVars, cancel>>

\* markParentRunAsFailed: completes the pending waitpoint without the lock, then
\* signals it.
ChildFails(w) ==
  /\ w \in wps /\ w.status = "PENDING" /\ signals[w.id] < MaxSignals /\ w.id \notin calls
  /\ row.status \notin Terminal \cup {"none"}
  /\ wps' = (wps \ {w}) \cup {[w EXCEPT !.status = "COMPLETED"]}
  /\ signals' = [signals EXCEPT ![w.id] = @ + 1]
  /\ calls' = calls \cup {w.id}
  /\ UNCHANGED <<rowVars, created, timer, runVars, cancel>>

\* The resume-delay job: skipped unless the row says PAUSED.
DelayFires ==
  /\ timer.at = "scheduled"
  /\ IF row.status = "PAUSED"
     THEN /\ timer' = [timer EXCEPT !.at = "active"]
          /\ calls' = calls \cup {timer.id}
     ELSE timer' = NoTimer /\ UNCHANGED calls
  /\ UNCHANGED <<rowVars, wps, created, signals, runVars, cancel>>

\* Mutant of Resume: does not wait for PAUSED.
ResumeAtOnce(id) ==
  /\ id \in calls /\ lock = "free" /\ row.status # "none"
  /\ calls' = calls \ {id}
  /\ timer' = IF timer = [at |-> "active", id |-> id] THEN NoTimer ELSE timer
  /\ IF row.status \notin Terminal /\ \E w \in wps : w.id = id
     THEN \E w \in wps : w.id = id /\ Consume(w)
     ELSE UNCHANGED <<wps, jobs>>
  /\ UNCHANGED <<rowVars, created, signals, eng, log, cancel>>

\* resumeFromWaitpoint, under the lock.  Before the row exists it throws: the
\* caller gets an error and calls again.
Resume(id) ==
  /\ id \in calls /\ lock = "free" /\ row.status # "none"
  /\ calls' = calls \ {id}
  /\ timer' = IF timer = [at |-> "active", id |-> id] THEN NoTimer ELSE timer
  /\ LET found == {w \in wps : w.id = id} IN
       CASE row.status = "PAUSED" /\ found # {} ->
              \E w \in found : Consume(w)
         [] row.status \in {"RUNNING", "QUEUED"} ->
              /\ wps' = {IF w \in found THEN [w EXCEPT !.status = "COMPLETED"] ELSE w : w \in wps}
              /\ UNCHANGED jobs
         [] OTHER -> UNCHANGED <<wps, jobs>>
  /\ UNCHANGED <<rowVars, created, signals, eng, log, cancel>>

\* The same transaction rolled back: the caller gets an error and calls again.
ResumeRollsBack(id) ==
  /\ id \in calls /\ lock = "free" /\ row.status = "PAUSED" /\ Error
  /\ \E w \in wps : w.id = id /\ jobs' = Enqueued({w})
  /\ UNCHANGED <<row, hash, last, adds, dedup, metaq, lock, meta, hooks, waitVars, eng, log,
                 cancel>>

-----------------------------------------------------------------------------
(* Jobs and the engine. *)

\* An interceptor rejects the job, or its delay is over.
Defer(i) ==
  /\ jobs[i] \in {"prioritized", "delayed"}
  /\ jobs' = [jobs EXCEPT ![i] = IF @ = "delayed" THEN "prioritized" ELSE "delayed"]
  /\ UNCHANGED <<rowVars, waitVars, eng, log, cancel>>

\* The worker takes the job; the engine loads the run log.
StartJob(i) ==
  /\ jobs[i] = "prioritized"
  /\ jobs' = [jobs EXCEPT ![i] = "active"]
  /\ eng' = [eng EXCEPT ![i] = [at |-> "run", done |-> log.done, paused |-> log.paused,
                                backups |-> 0]]
  /\ UNCHANGED <<rowVars, waitVars, log, cancel>>

Snapshot(i) == log' = [done |-> eng[i].done, paused |-> eng[i].paused]

\* backup while the run goes on: the log file, then the metadata.
Backup(i) ==
  /\ eng[i].at = "run" /\ eng[i].backups < MaxBackups /\ i \notin adds
  /\ eng' = [eng EXCEPT ![i].backups = @ + 1]
  /\ Snapshot(i)
  /\ Merge(i, "RUNNING", FALSE)
  /\ UNCHANGED <<row, dedup, metaq, lock, meta, hooks, errors, waitVars, jobs, cancel>>

\* Mutant of ResumeStep: the step stays paused after its RESUME branch.
ResumeStepStaysPaused(i) ==
  /\ eng[i].at = "run" /\ eng[i].paused
  /\ eng' = [eng EXCEPT ![i].done = @ + 1]
  /\ UNCHANGED <<rowVars, waitVars, jobs, log, cancel>>

\* A step that the log calls PAUSED runs its RESUME branch.
ResumeStep(i) ==
  /\ eng[i].at = "run" /\ eng[i].paused
  /\ eng' = [eng EXCEPT ![i].done = @ + 1, ![i].paused = FALSE]
  /\ UNCHANGED <<rowVars, waitVars, jobs, log, cancel>>

OfStep(s) == {w \in wps : w.step = s}

\* createForPause: one waitpoint per step; the delay job is not replaced.
PauseStep(i) ==
  /\ eng[i].at = "run" /\ ~eng[i].paused /\ eng[i].done < Steps
  /\ LET s == eng[i].done + 1 IN
       /\ IF OfStep(s) # {}
          THEN UNCHANGED <<wps, created>>
          ELSE /\ created < MaxWaitpoints /\ created' = created + 1
               /\ wps' = wps \cup {[id |-> created + 1, step |-> s, status |-> "PENDING"]}
       /\ timer' = IF s \in Delays /\ timer = NoTimer /\ Completed(OfStep(s)) = {}
                   THEN [at |-> "scheduled", id |-> (CHOOSE w \in wps' : w.step = s).id]
                   ELSE timer
  /\ eng' = [eng EXCEPT ![i].at = "pause", ![i].paused = TRUE]
  /\ UNCHANGED <<rowVars, signals, calls, jobs, log, cancel>>

\* The final backup, in two calls: the log file and the metadata.
Checkpoint(i) ==
  /\ eng[i].at = "pause" \/ (eng[i].at = "run" /\ eng[i].done = Steps)
  /\ i \notin adds
  /\ Snapshot(i)
  /\ eng' = [eng EXCEPT ![i].at = "report"]
  /\ UNCHANGED <<rowVars, waitVars, jobs, cancel>>

Report(i) ==
  /\ eng[i].at = "report"
  /\ IF eng[i].paused THEN Merge(i, "PAUSED", FALSE) ELSE Merge(i, "SUCCEEDED", TRUE)
  /\ eng' = [eng EXCEPT ![i].at = "end"]
  /\ UNCHANGED <<row, dedup, metaq, lock, meta, hooks, errors, waitVars, jobs, log,
                 cancel>>

\* completeJob: the job is removed, so its id may be used again.
EndJob(i) ==
  /\ eng[i].at = "end" /\ i \notin adds
  /\ jobs' = [jobs EXCEPT ![i] = "absent"]
  /\ eng' = [eng EXCEPT ![i] = Off]
  /\ UNCHANGED <<rowVars, waitVars, log, cancel>>

-----------------------------------------------------------------------------
(* cancel: chooses runs by the status of their row, then locks each.       *)

ChooseCancel ==
  /\ Cancels /\ cancel = "no" /\ row.status \in {"PAUSED", "QUEUED"}
  /\ cancel' = "chosen"
  /\ UNCHANGED <<rowVars, waitVars, runVars>>

\* removeAllExecutionJobs looks at waiting and delayed jobs; run jobs have a
\* priority and wait among the prioritized ones.
Removed == [i \in JobIds |-> IF jobs[i] = "delayed" THEN "absent" ELSE jobs[i]]

CancelRun ==
  /\ cancel = "chosen" /\ lock = "free"
  /\ cancel' = "done"
  /\ lock' = "cancel"
  /\ jobs' = Removed
  /\ wps' = {}
  /\ Merge(Canceler, "CANCELED", FALSE)
  /\ UNCHANGED <<row, dedup, metaq, meta, hooks, errors, created, timer, signals, calls,
                 eng, log>>

-----------------------------------------------------------------------------
MetaStep == MetaStart \/ MetaRead \/ MetaSave \/ MetaDelete \/ MetaFinish \/ MetaResume

EngineStep(i) == StartJob(i) \/ ResumeStep(i) \/ PauseStep(i) \/ Checkpoint(i)
                   \/ Report(i) \/ EndJob(i)

Next ==
  \/ \E a \in Adders : AddMetaJob(a)
  \/ MetaStep \/ MetaError \/ MetaResumeRollsBack
  \/ \E w \in Ids : Call(w) \/ Resume(w) \/ ResumeRollsBack(w)
  \/ \E w \in wps : ChildFails(w)
  \/ DelayFires
  \/ \E i \in JobIds : EngineStep(i) \/ Backup(i) \/ Defer(i)
  \/ ChooseCancel \/ CancelRun

Spec == Init /\ [][Next]_vars

\* The event loops, BullMQ and the engine go on, a lock that is asked for again
\* and again is obtained, a delay ends, and every resume URL is called once.
Fairness ==
  /\ \A a \in Adders : WF_vars(AddMetaJob(a))
  /\ WF_vars(MetaStep) /\ WF_vars(DelayFires)
  /\ \A w \in Ids : SF_vars(Resume(w)) /\ WF_vars(signals[w] = 0 /\ Call(w))
  /\ \A i \in JobIds : WF_vars(EngineStep(i)) /\ WF_vars(jobs[i] = "delayed" /\ Defer(i))
                        /\ SF_vars(StartJob(i))

FairSpec == Spec /\ Fairness

-----------------------------------------------------------------------------
(* Properties. *)

\* An update of the run is never lost: once the hash is gone the row holds the
\* status merged last, and while it is there a metadata job is on its way.
NoUpdateLost ==
  /\ hash = NoHash => row.status = last
  /\ hash # NoHash => metaq > 0 \/ adds # {} \/ lock = "meta"

Cell ==
  INSTANCE WriteBehind WITH
    Values <- Statuses, NoValue <- "none",
    latest <- last, stored <- row.status, pending <- (hash # NoHash),
    copy <- (IF meta.at = "save" THEN meta.status ELSE "none")

\* The metadata queue implements a write-behind cell: what reaches the row was
\* the newest update when the worker read the hash, and the hash goes only when
\* the row has caught up with it.
ImplementsWriteBehind == Cell!Spec

Executing == {i \in JobIds : eng[i].at \in {"run", "pause"}}

\* At most one engine executes steps of the run: the next one starts from the
\* log the previous one left.
OneEngine == \A i, j \in Executing : i = j

\* A signal that came before PAUSED was written is not lost: the run ends.
RunEnds == <>(row.status \in Terminal)

\* The side effects of a finished run happen.
FinishSeen == [](row.status = "SUCCEEDED" => <>(hooks > 0))

\* A canceled run stays canceled.
CanceledStays == [][row.status = "CANCELED" => row'.status = "CANCELED"]_vars
=============================================================================
