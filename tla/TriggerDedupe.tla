---------------------------- MODULE TriggerDedupe ----------------------------
(***************************************************************************)
(* One event key of one workflow inside its dedupe window: a claim in      *)
(* Redis, the attempts to submit the event, and the runs they start.       *)
(*                                                                         *)
(*   dedupe-service.ts       claim, take over, reclaim, bind, release      *)
(*   trigger-run-policy.ts   startRuns: claim, start, bind or release      *)
(*                                                                         *)
(* An attempt is one startRuns call that carries the event; several run    *)
(* at once, on several servers, one Redis command or query per step.  It   *)
(* is one try of a job, which has the name of its first attempt; a run has *)
(* the name of the attempt that started it.  The claim in Redis does not   *)
(* say who made it.                                                        *)
(***************************************************************************)
EXTENDS Naturals, FiniteSets

CONSTANTS
  MaxAttempts,  \* bound: submissions of the event
  MaxSends,     \* bound: submissions that repeat no other one
  JobAttempts,  \* attempts of a job: failures until BullMQ gives it up
  MaxStalled,   \* maxStalledCount: times the stalled scan queues a job again
  MaxFaults,    \* bound: failed starts and batches, dead servers, lost workers
  MaxRunFails,  \* bound: runs that fail
  MaxWindows,   \* bound: windows that end
  MaxEvents,    \* bound: all of these together
  SlowStarts    \* whether a start may outlast STALE_PENDING_CLAIM_MS

ASSUME BoundAssumption ==
  /\ MaxAttempts \in Nat /\ MaxSends \in Nat /\ MaxFaults \in Nat
  /\ JobAttempts \in Nat \ {0} /\ MaxStalled \in Nat
  /\ MaxRunFails \in Nat /\ MaxWindows \in Nat /\ MaxEvents \in Nat /\ SlowStarts \in BOOLEAN

Attempts == 1..MaxAttempts
None     == 0

VARIABLES
  key,      \* the Redis key; by is history: who wrote its value
  legacy,   \* the key of the previous implementation: never there, there, expired
  job,      \* job[a]: the job whose try attempt a is
  at,       \* at[a]: the next step of attempt a
  seen,     \* seen[a]: the run attempt a read from the key
  run,      \* run[a]: the run that attempt a started
  past,     \* history: the runs of earlier windows
  orphans,  \* attempts whose worker is gone: nobody hears their error
  retried,  \* attempts that were repeated
  count     \* how often each bounded event happened

vars == <<key, legacy, job, at, seen, run, past, orphans, retried, count>>

Holding == {"start", "bind", "release"}
Failed  == {"error", "unwritten"}
Dead    == {"crashed", "unbound"}
Busy    == {"claim", "takeover", "get", "lookup", "reclaim", "answer"} \cup Holding
Over    == {"unused", "duplicate", "done"} \cup Failed \cup Dead

Free       == [value |-> "free", run |-> None, by |-> None, stale |-> FALSE]
Pending(a) == [value |-> "pending", run |-> None, by |-> a, stale |-> FALSE]
Bound(a)   == [value |-> "bound", run |-> a, by |-> a, stale |-> FALSE]

Counters == {"sends", "faults", "runFails", "windows"}

TypeOK ==
  /\ key \in [value : {"free", "pending", "bound"}, run : Attempts \cup {None},
              by : Attempts \cup {None}, stale : BOOLEAN]
  /\ key.value = "bound" <=> key.run # None
  /\ key.value # "free" <=> key.by # None
  /\ legacy \in {"never", "there", "expired"}
  /\ job \in [Attempts -> Attempts \cup {None}]
  /\ at \in [Attempts -> Busy \cup Over]
  /\ seen \in [Attempts -> Attempts \cup {None}]
  /\ \A a \in Attempts : at[a] \in {"lookup", "reclaim"} => seen[a] # None
  /\ run \in [Attempts -> {"none", "live", "failed"}]
  /\ past \in SUBSET Attempts /\ orphans \in SUBSET Attempts
  /\ retried \in SUBSET Attempts
  /\ count \in [Counters -> Nat]

Init ==
  /\ key = Free
  /\ legacy \in {"never", "there"}
  /\ job = [a \in Attempts |-> None]
  /\ at = [a \in Attempts |-> "unused"]
  /\ seen = [a \in Attempts |-> None]
  /\ run = [a \in Attempts |-> "none"]
  /\ past = {} /\ orphans = {} /\ retried = {}
  /\ count = [c \in Counters |-> 0]

-----------------------------------------------------------------------------
Step(a, from, to) == at[a] = from /\ at' = [at EXCEPT ![a] = to]

Bounded(c, bound) ==
  /\ count[c] < bound
  /\ count["sends"] + count["faults"] + count["runFails"] + count["windows"] < MaxEvents
  /\ count' = [count EXCEPT ![c] = @ + 1]

\* The next attempt begins, as a try of job j.
Begin(a, j) ==
  /\ Step(a, "unused", "claim") /\ \A b \in Attempts : b < a => at[b] # "unused"
  /\ job' = [job EXCEPT ![a] = j]

\* A submission of the event: a webhook call, a poll, a batch that has it twice.
Send(a) ==
  /\ Begin(a, a) /\ Bounded("sends", MaxSends)
  /\ UNCHANGED <<key, legacy, seen, run, past, orphans, retried>>

\* The tries of b's job that ended like b, with a worker to report it.
Ended(b, how) ==
  Cardinality({c \in Attempts \ orphans : job[c] = job[b] /\ at[c] \in how})

\* Failures and stalls are limited separately.
TriesLeft(b) ==
  IF at[b] \in Failed THEN Ended(b, Failed) < JobAttempts ELSE Ended(b, Dead) <= MaxStalled

Repeats(b) ==
  /\ at[b] \in Failed \cup Dead /\ b \notin retried \cup orphans
  /\ TriesLeft(b)

\* The job of a failed or dead attempt is tried again: after the backoff of a
\* failed job (8 minutes), or by the stalled scan once the job's lock of two
\* minutes has run out.  Both outlast the take-over age of the claim.
Retry(a, b) ==
  /\ Repeats(b) /\ Begin(a, job[b])
  /\ ~(key.value = "pending" /\ key.by = b /\ ~key.stale)
  /\ retried' = retried \cup {b}
  /\ UNCHANGED <<key, legacy, seen, run, past, orphans, count>>

\* The worker of a submission disconnects: the job goes to another worker at
\* once, while the server still handles the submission.
LoseWorker(a, b) ==
  /\ Begin(b, job[a])
  /\ at[a] \in Busy /\ a \notin orphans /\ Bounded("faults", MaxFaults)
  /\ orphans' = orphans \cup {a}
  /\ UNCHANGED <<key, legacy, seen, run, past, retried>>

-----------------------------------------------------------------------------
(* claimWorkflowDedupe *)

\* EXISTS of the old key, then SET NX.
Claim(a) ==
  /\ Step(a, "claim", CASE legacy = "there" -> "get"
                        [] legacy # "there" /\ key.value = "free" -> "start"
                        [] OTHER -> "takeover")
  /\ key' = IF at'[a] = "start" THEN Pending(a) ELSE key
  /\ UNCHANGED <<job, legacy, seen, run, past, orphans, retried, count>>

\* Mutant of TakeOver: a claim left behind stays.
TakeOverNever(a) ==
  /\ Step(a, "takeover", "get")
  /\ UNCHANGED <<job, key, legacy, seen, run, past, orphans, retried, count>>

\* Mutant of TakeOver: does not look at the age of the claim.
TakeOverAny(a) ==
  /\ Step(a, "takeover", IF key.value = "pending" THEN "start" ELSE "get")
  /\ key' = IF at'[a] = "start" THEN Pending(a) ELSE key
  /\ UNCHANGED <<job, legacy, seen, run, past, orphans, retried, count>>

\* TAKE_OVER_SCRIPT: a claim that is still pending after two minutes.
TakeOver(a) ==
  /\ Step(a, "takeover", IF key.value = "pending" /\ key.stale THEN "start" ELSE "get")
  /\ key' = IF at'[a] = "start" THEN Pending(a) ELSE key
  /\ UNCHANGED <<job, legacy, seen, run, past, orphans, retried, count>>

\* Mutant of Get: takes the pending marker for the id of a run.
GetMarker(a) ==
  /\ Step(a, "get", IF key.value = "free" THEN "duplicate" ELSE "lookup")
  /\ seen' = [seen EXCEPT ![a] = key.run]
  /\ UNCHANGED <<job, key, legacy, run, past, orphans, retried, count>>

\* GET: a pending or vanished claim names no run.
Get(a) ==
  /\ Step(a, "get", IF key.value = "bound" THEN "lookup" ELSE "duplicate")
  /\ seen' = [seen EXCEPT ![a] = key.run]
  /\ UNCHANGED <<job, key, legacy, run, past, orphans, retried, count>>

\* findFailedExecutionIds
Lookup(a) ==
  /\ Step(a, "lookup", IF run[seen[a]] = "failed" THEN "reclaim" ELSE "duplicate")
  /\ UNCHANGED <<job, key, legacy, seen, run, past, orphans, retried, count>>

\* RECLAIM_FAILED_SCRIPT: only while the key still names the failed run.
Reclaim(a) ==
  /\ Step(a, "reclaim", IF key.value = "bound" /\ key.run = seen[a]
                        THEN "start" ELSE "duplicate")
  /\ key' = IF at'[a] = "start" THEN Pending(a) ELSE key
  /\ UNCHANGED <<job, legacy, seen, run, past, orphans, retried, count>>

-----------------------------------------------------------------------------
(* startRuns after the claim. *)

StartRun(a) ==
  /\ Step(a, "start", "bind")
  /\ run' = [run EXCEPT ![a] = "live"]
  /\ UNCHANGED <<job, key, legacy, seen, past, orphans, retried, count>>

StartFails(a) ==
  /\ Step(a, "start", "release") /\ Bounded("faults", MaxFaults)
  /\ UNCHANGED <<job, key, legacy, seen, run, past, orphans, retried>>

\* BIND_SCRIPT writes over any value, but not a key that is gone.
Bind(a) ==
  /\ Step(a, "bind", "answer")
  /\ key' = IF key.value = "free" THEN key ELSE Bound(a)
  /\ UNCHANGED <<job, legacy, seen, run, past, orphans, retried, count>>

\* RELEASE_SCRIPT deletes a pending claim, whoever made it.
Release(a) ==
  /\ Step(a, "release", "error")
  /\ key' = IF key.value = "pending" THEN Free ELSE key
  /\ UNCHANGED <<job, legacy, seen, run, past, orphans, retried, count>>

Answer(a) ==
  /\ Step(a, "answer", "done")
  /\ UNCHANGED <<job, key, legacy, seen, run, past, orphans, retried, count>>

\* Another event of the batch could not be started: the call throws.
BatchFails(a) ==
  /\ Step(a, "answer", "error") /\ Bounded("faults", MaxFaults)
  /\ UNCHANGED <<job, key, legacy, seen, run, past, orphans, retried>>

-----------------------------------------------------------------------------
(* Failures and time. *)

\* A Redis command of a living server throws, or one for another event of the
\* batch: the claim stays as it is, and a run that was started has no bound key.
RedisFails(a) ==
  /\ at[a] \in Busy \ {"answer"} /\ Bounded("faults", MaxFaults)
  /\ at' = [at EXCEPT ![a] = IF @ = "bind" THEN "unwritten" ELSE "error"]
  /\ UNCHANGED <<job, key, legacy, seen, run, past, orphans, retried>>

Crash(a) ==
  /\ at[a] \in Busy /\ Bounded("faults", MaxFaults)
  /\ at' = [at EXCEPT ![a] = IF @ = "bind" THEN "unbound" ELSE "crashed"]
  /\ UNCHANGED <<job, key, legacy, seen, run, past, orphans, retried>>

RunFails(a) ==
  /\ run[a] = "live" /\ Bounded("runFails", MaxRunFails)
  /\ run' = [run EXCEPT ![a] = "failed"]
  /\ UNCHANGED <<job, key, legacy, at, seen, past, orphans, retried>>

\* Two minutes pass.
ClaimAges ==
  /\ key.value = "pending" /\ ~key.stale
  /\ SlowStarts \/ at[key.by] \notin Busy
  /\ key' = [key EXCEPT !.stale = TRUE]
  /\ UNCHANGED <<job, legacy, at, seen, run, past, orphans, retried, count>>

\* The window, of an hour or more, ends; no start lasts that long, and a job that
\* is tried again takes over the claim it left behind minutes later.
WindowEnds ==
  /\ \/ key.value = "bound"
     \/ /\ key.value = "pending"
        /\ \A b \in Attempts : ~Repeats(b) /\ (at[b] \in Busy => job[b] = b)
  /\ \A a \in Attempts : at[a] \notin Holding
  /\ Bounded("windows", MaxWindows)
  /\ key' = Free
  /\ past' = past \cup {a \in Attempts : run[a] # "none"}
  /\ UNCHANGED <<job, legacy, at, seen, run, orphans, retried>>

LegacyExpires ==
  /\ legacy = "there" /\ legacy' = "expired"
  /\ UNCHANGED <<job, key, at, seen, run, past, orphans, retried, count>>

-----------------------------------------------------------------------------
ClaimStep(a) == Claim(a) \/ TakeOver(a) \/ Get(a) \/ Lookup(a) \/ Reclaim(a)
StartStep(a) == StartRun(a) \/ Bind(a) \/ Release(a) \/ Answer(a)
Fault(a)     == StartFails(a) \/ BatchFails(a) \/ RedisFails(a) \/ Crash(a) \/ RunFails(a)

Next ==
  \/ \E a \in Attempts : Send(a) \/ ClaimStep(a) \/ StartStep(a) \/ Fault(a)
  \/ \E a, b \in Attempts : Retry(a, b) \/ LoseWorker(a, b)
  \/ ClaimAges \/ WindowEnds \/ LegacyExpires

Spec == Init /\ [][Next]_vars

\* A server that lives goes on, time passes, and failed jobs are repeated.
Fairness ==
  /\ \A a \in Attempts : WF_vars(ClaimStep(a) \/ StartStep(a))
  /\ WF_vars(\E a, b \in Attempts : Retry(a, b))
  /\ WF_vars(ClaimAges)

FairSpec == Spec /\ Fairness

-----------------------------------------------------------------------------
(* Properties. *)

\* A run of this window that did not fail.
Counts(a) == run[a] = "live" /\ a \notin past

Unbound(a) == at[a] \in {"unbound", "unwritten"}

\* Events with the same key are processed once in a window, apart from runs whose
\* id was not written, because the server died or Redis failed after the start:
\* nobody can tell such a run from one never started.
OneBoundRun ==
  \A a, b \in Attempts :
    Counts(a) /\ Counts(b) /\ ~Unbound(a) /\ ~Unbound(b) => a = b

Ran == legacy # "never" \/ \E a \in Attempts : run[a] # "none"

\* The job of a given-up attempt is not tried again: its worker was lost, so that
\* nobody heard of the failure, or it has used up its tries.
GivenUp(b) == at[b] \in Failed \cup Dead /\ (b \in orphans \/ ~TriesLeft(b))

\* An event that was answered as a duplicate, or as started, has a run in the
\* end, unless a submission whose claim made it a duplicate was given up.
NotSwallowed ==
  (\E a \in Attempts : at[a] \in {"duplicate", "done"})
    ~> (Ran \/ \E b \in Attempts : GivenUp(b))
=============================================================================
