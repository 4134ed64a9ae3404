--------------------------- MODULE JobBrokerProofs ---------------------------
(***************************************************************************)
(* For every number of jobs, connections and faults, and whatever the      *)
(* pools hold: the dispatcher misses no poll, the tracker no assignment,   *)
(* no pool exceeds its limit, nor do the runs of the jobs that no fault    *)
(* has disturbed.  While no lock lapses under whoever extends it, a job    *)
(* has one live run and a disconnect takes only its own.                   *)
(***************************************************************************)
EXTENDS JobBroker, FiniteSetTheorems, TLAPS

(***************************************************************************)
(* The two invariants need the types of the waiters, of the tracker and of *)
(* the loop: a job handed over goes to a connection the tracker knows.     *)
(***************************************************************************)
TrackerTypes ==
  /\ waiters \in Seq(Conns)
  /\ loop \in [at : {"off", "dequeue"}, job : {None}, token : {0}]
         \cup [at : Stages, job : Jobs, token : Nat]
  /\ assign \in [Jobs -> [conn : Conns, token : Nat] \cup {NoAssignment}]
  /\ keys \in [Conns -> SUBSET Jobs]
  /\ runs \subseteq [conn : Conns, job : Jobs, token : Nat]
  /\ calls \subseteq [conn : Conns, job : Jobs, token : Nat, ok : BOOLEAN,
                      at : {"move", "clear", "release"}]

DispatchInv == TrackerTypes /\ LoopRunsForWaiters /\ TrackerIndexed

LEMMA InitDispatchInv == Init => DispatchInv
  BY DEF Init, DispatchInv, TrackerTypes, LoopRunsForWaiters, TrackerIndexed, NoAssignment,
         Idle, Stages

\* The end of a round keeps the loop running if and only if somebody waits.
LEMMA RoundKeeps ==
  ASSUME NEW ws, NextRound(ws)
  PROVE  /\ ws # <<>> => loop'.at = "dequeue"
         /\ loop' \in [at : {"off", "dequeue"}, job : {None}, token : {0}]
  BY DEF NextRound, Idle

LEMMA NextDispatchInv == DispatchInv /\ [Next]_vars => DispatchInv'
<1> SUFFICES ASSUME DispatchInv, [Next]_vars PROVE DispatchInv'
  OBVIOUS
<1> USE ConnsAssumption DEF DispatchInv, TrackerTypes, LoopRunsForWaiters, TrackerIndexed,
        NoAssignment, Stages, trackerVars, slotVars
<1>1. ASSUME NEW c \in Conns, Poll(c) PROVE DispatchInv'
  BY <1>1 DEF Poll, Idle
<1>2. ASSUME NEW c \in Conns, WaiterTimeout(c) PROVE DispatchInv'
  <2>1. PICK i \in 1..Len(waiters) :
          waiters' = SubSeq(waiters, 1, i - 1) \o SubSeq(waiters, i + 1, Len(waiters))
    BY <1>2 DEF WaiterTimeout
  <2>2. waiters' \in Seq(Conns) BY <2>1
  <2>3. waiters # <<>> BY <2>1
  <2>4. QED BY <1>2, <2>2, <2>3 DEF WaiterTimeout
<1>3. ASSUME NEW c \in Conns, Disconnect(c) PROVE DispatchInv'
  BY <1>3 DEF Disconnect, Taken
<1>4. CASE LoopStep \/ PassGate \/ LoopFault
  <2>1. CASE NothingQueued
    BY <2>1, RoundKeeps DEF NothingQueued
  <2>2. ASSUME NEW j \in Jobs, TakeBadJob(j) PROVE DispatchInv'
    BY <2>2 DEF TakeBadJob
  <2>3. ASSUME NEW j \in Jobs, NEW t \in Tokens, TakeJob(j, t) PROVE DispatchInv'
    <3>1. loop' \in [at : Stages, job : Jobs, token : Nat] /\ loop'.at # "off"
      BY <2>3, BoundAssumption DEF TakeJob, Tokens
    <3>2. QED BY <2>3, <3>1 DEF TakeJob
  <2>4. CASE CheckSuspension
    BY <2>4, RoundKeeps DEF CheckSuspension, LoopMove, Idle
  <2>5. ASSUME NEW p \in Pools, AcquireSlot(p) PROVE DispatchInv'
    <3>1. \/ loop' \in [at : Stages, job : Jobs, token : Nat]
          \/ loop' = Idle("dequeue")
          \/ NextRound(waiters)
      BY <2>5 DEF AcquireSlot, LoopMove, After, Pools
    <3>2. UNCHANGED <<waiters, assign, keys, runs, calls>>
      BY <2>5 DEF AcquireSlot
    <3>3. QED BY <3>1, <3>2, RoundKeeps DEF Idle
  <2>6. CASE RejectAtGate \/ PassGate
    BY <2>6, RoundKeeps DEF RejectAtGate, PassGate, LoopMove, Idle, After
  <2>7. CASE HandOver
    <3> DEFINE c == Head(waiters)
    <3>1. c \in Conns /\ waiters' \in Seq(Conns) BY <2>7 DEF HandOver
    <3>2. loop.job \in Jobs /\ loop.token \in Nat BY <2>7 DEF HandOver
    <3>3. assign' = [assign EXCEPT ![loop.job] = [conn |-> c, token |-> loop.token]]
      BY <2>7 DEF HandOver, Record
    <3>4. keys' = [keys EXCEPT ![c] = @ \cup {loop.job}] BY <2>7 DEF HandOver, Record
    <3>5. NextRound(waiters') /\ UNCHANGED calls BY <2>7 DEF HandOver
    <3>6. runs' \subseteq [conn : Conns, job : Jobs, token : Nat] BY <2>7, <3>1, <3>2 DEF HandOver
    <3> HIDE DEF c
    <3>7. TrackerIndexed' BY <3>1, <3>2, <3>3, <3>4
    <3>8. QED BY <3>1, <3>2, <3>3, <3>4, <3>5, <3>6, <3>7, RoundKeeps
  <2>8. CASE NoWaiterLeft
    BY <2>8 DEF NoWaiterLeft
  <2>9. CASE ReturnOrphan
    BY <2>9, RoundKeeps DEF ReturnOrphan
  <2>10. CASE ReleaseOrphan
    BY <2>10, RoundKeeps DEF ReleaseOrphan
  <2>11. CASE DequeueError \/ OrphanLeaks
    BY <2>11, RoundKeeps DEF DequeueError, OrphanLeaks
  <2>12. CASE AllowUnchecked
    BY <2>12 DEF AllowUnchecked, After
  <2>13. CASE RejectLeaks
    BY <2>13, RoundKeeps DEF RejectLeaks, LoopMove, Idle
  <2>14. QED
    BY <1>4, <2>1, <2>2, <2>3, <2>4, <2>5, <2>6, <2>7, <2>8, <2>9, <2>10, <2>11, <2>12, <2>13
       DEF LoopStep, LoopFault
<1>5. ASSUME NEW r \in runs, AbortRun(r) PROVE DispatchInv'
  BY <1>5 DEF AbortRun
<1>6. ASSUME NEW r \in runs, NEW ok \in BOOLEAN, WorkerDone(r, ok) PROVE DispatchInv'
  BY <1>6 DEF WorkerDone
<1>7. ASSUME NEW x \in calls, CallStep(x) \/ CallFault(x) PROVE DispatchInv'
  <2>1. x.job \in Jobs OBVIOUS
  <2>2. calls' \subseteq [conn : Conns, job : Jobs, token : Nat, ok : BOOLEAN,
                          at : {"move", "clear", "release"}]
    <3>1. calls' = calls \ {x} \/ \E at \in {"clear", "release"} : calls' = Advance(calls, x, at)
      BY <1>7 DEF CallStep, CompleteMove, CompleteClear, CompleteRelease, CallFault,
         CompleteMoveFails, CompleteLeaks
    <3>2. ASSUME NEW at \in {"clear", "release"}
          PROVE  [x EXCEPT !.at = at] \in [conn : Conns, job : Jobs, token : Nat, ok : BOOLEAN,
                                           at : {"move", "clear", "release"}]
      OBVIOUS
    <3>3. QED BY <3>1, <3>2 DEF Advance
  <2>3. CASE CompleteMove(x) \/ CompleteRelease(x) \/ CallFault(x)
    BY <2>2, <2>3 DEF CompleteMove, CompleteRelease, CallFault, CompleteMoveFails, CompleteLeaks
  <2>4. CASE CompleteClear(x)
    BY <2>1, <2>2, <2>4 DEF CompleteClear
  <2>5. QED BY <1>7, <2>3, <2>4 DEF CallStep
<1>8. ASSUME NEW x \in returns, ReturnStep(x) \/ ReturnLeaks(x) PROVE DispatchInv'
  BY <1>8 DEF ReturnStep, ReturnMove, ReturnRelease, ReturnLeaks
<1>9. ASSUME NEW j \in Jobs, LockLapses(j) \/ StalledScan(j) \/ BackoffEnds(j)
      PROVE  DispatchInv'
  BY <1>9 DEF LockLapses, StalledScan, BackoffEnds
<1>10. ASSUME NEW j \in Jobs, NEW p \in Pools, SlotExpires(p, j) PROVE DispatchInv'
  BY <1>10 DEF SlotExpires
<1>11. CASE UNCHANGED vars
  BY <1>11 DEF vars
<1>12. QED
  BY <1>1, <1>2, <1>3, <1>4, <1>5, <1>6, <1>7, <1>8, <1>9, <1>10, <1>11 DEF Next

\* While a poll waits the dequeue loop runs, and every assignment is found by
\* the disconnect of its connection.
THEOREM DispatchInvariant == Spec => []DispatchInv
  BY InitDispatchInv, NextDispatchInv, PTL DEF Spec

\* No poll misses its wake-up, whatever dequeue throws or returns.
THEOREM NoLostWakeup == Spec => []LoopRunsForWaiters
<1>1. DispatchInv => LoopRunsForWaiters BY DEF DispatchInv
<1>2. QED BY <1>1, DispatchInvariant, PTL

\* The tracker's two maps agree after any sequence of dispatches, completions
\* and disconnects.
THEOREM AssignmentsIndexed == Spec => []TrackerIndexed
<1>1. DispatchInv => TrackerIndexed BY DEF DispatchInv
<1>2. QED BY <1>1, DispatchInvariant, PTL

-----------------------------------------------------------------------------
(***************************************************************************)
(* Types.  The counters stay in range because a job that can still be      *)
(* taken has attempts left, and one that is active was not yet taken back  *)
(* too often.                                                              *)
(***************************************************************************)
CountersInRange ==
  \A j \in Jobs :
    /\ job[j] \in {"waiting", "active", "backoff"} => attempts[j] < MaxAttempts
    /\ job[j] = "active" => stalls[j] <= MaxStalledCount

JobStates == {"waiting", "active", "backoff", "gone", "failed"}
Busy      == [at : Stages, job : Jobs, token : Tokens]
IdleLoop  == [at : {"off", "dequeue"}, job : {None}, token : {0}]
Held      == [conn : Conns, token : Tokens]
Runs      == [conn : Conns, job : Jobs, token : Tokens]
Calls     == [conn : Conns, job : Jobs, token : Tokens, ok : BOOLEAN,
              at : {"move", "clear", "release"}]
Returns   == [job : Jobs, token : Tokens, at : {"move", "release"}]
Faults    == [timeouts : 0..MaxTimeouts, disconnects : 0..MaxDisconnects,
              lapses : 0..MaxLapses, errors : 0..MaxErrors]

Types ==
  /\ job \in [Jobs -> JobStates] /\ owner \in [Jobs -> 0..TokenBound]
  /\ attempts \in [Jobs -> 0..MaxAttempts] /\ stalls \in [Jobs -> 0..(MaxStalledCount + 1)]
  /\ waiters \in Seq(Conns) /\ loop \in IdleLoop \cup Busy
  /\ slots \in [Pools -> SUBSET Jobs] /\ inherited \in [Pools -> SUBSET Jobs]
  /\ disturbed \subseteq Jobs /\ conn \in [Conns -> {"up", "closed"}]
  /\ assign \in [Jobs -> Held \cup {NoAssignment}] /\ keys \in [Conns -> SUBSET Jobs]
  /\ runs \subseteq Runs /\ calls \subseteq Calls /\ returns \subseteq Returns
  /\ faults \in Faults
  /\ CountersInRange

(***************************************************************************)
(* One worker per job, while no lock lapses under the one that works with  *)
(* it.  The token of a dispatch is in one place at a time: the loop, a run *)
(* or a completeJob; a closed connection adds a returnJobToQueue with it.  *)
(* Whoever works with it over an open connection holds the job's lock.     *)
(***************************************************************************)

\* What the loop works with is locked by it.
LoopHolds == loop.at \in Stages \ {"release"} => Holds(loop.job, loop.token)

\* A token is in one place.
TokensApart ==
  /\ \A y \in runs \cup calls \cup returns : y.token # loop.token
  /\ \A j \in Jobs : assign[j] # NoAssignment => assign[j].token # loop.token
  /\ \A r, q \in runs : r.token = q.token => r = q
  /\ \A x, y \in calls : x.token = y.token => x = y
  /\ \A r \in runs : \A x \in calls : r.token # x.token

\* A job that executes or is being completed over an open connection is locked
\* by that dispatch, and it is not queued again before the call is over.
Over(x) == x.at # "move" /\ job[x.job] \in {"backoff", "failed", "gone"}

LiveHolds ==
  /\ \A r \in runs : conn[r.conn] = "up" => Holds(r.job, r.token)
  /\ \A x \in calls : conn[x.conn] = "up" => Holds(x.job, x.token) \/ Over(x)

\* What is returned to the queue has lost its connection.
ReturnsAreLost ==
  \A x \in returns : \A y \in runs \cup calls : y.token = x.token => conn[y.conn] = "closed"

\* The index of an open connection has only jobs that are assigned to it, and
\* on which it works.
IndexIsOwn ==
  \A c \in Conns : \A j \in keys[c] : conn[c] = "up" =>
    /\ assign[j].conn = c
    /\ \/ \E r \in runs : r.conn = c /\ r.job = j /\ r.token = assign[j].token
       \/ \E x \in calls : /\ x.conn = c /\ x.job = j /\ x.token = assign[j].token
                           /\ x.at # "release"

DeliveryInv ==
  /\ Types /\ LoopHolds /\ TokensApart /\ LiveHolds /\ ReturnsAreLost /\ IndexIsOwn

(***************************************************************************)
(* Slots, for any faults.  A job that was neither taken back from a worker *)
(* nor served by an error path is in one dispatch at a time, and whatever  *)
(* this dispatch reserved belongs to it alone: it leaves the loop, the     *)
(* worker and completeJob in this order, and is queued with no slot left.  *)
(***************************************************************************)
SlotsBounded == \A p \in Pools : Cardinality(slots[p]) <= Capacity[p]

NoSlot(j)     == \A p \in Pools : j \notin slots[p]
Elsewhere(j)  == \A y \in runs \cup calls : y.job # j

\* The pools in which the loop's job has a slot.
Reserved(at) ==
  IF at \in {"gate", "hand", "return"} THEN Pools
  ELSE IF at \in {"tenant", "instance"} THEN Before(at) ELSE {}

Queued(j) == job[j] = "waiting" => Elsewhere(j) /\ (loop.job # j => NoSlot(j))

InLoop(j) ==
  loop.job = j =>
    /\ Elsewhere(j)
    /\ IF loop.at = "release" THEN job[j] = "waiting"
       ELSE job[j] = "active" /\ \A p \in Pools : j \in slots[p] <=> p \in Reserved(loop.at)

Executing(j) ==
  \A r \in runs : r.job = j =>
    /\ job[j] = "active" /\ \A p \in Pools : j \in slots[p]
    /\ \A q \in runs : q.job = j => q = r
    /\ \A x \in calls : x.job # j

Completing(j) == \A x, y \in calls : x.job = j /\ y.job = j => x = y

Retrying(j) ==
  job[j] = "backoff" =>
    /\ \A x \in calls : x.job = j => x.at # "move"
    /\ (\A x \in calls : x.job # j) => NoSlot(j)

NotInherited(j) == \A p \in Pools : j \notin inherited[p]

Orderly(j) ==
  /\ Queued(j) /\ InLoop(j) /\ Executing(j) /\ Completing(j) /\ Retrying(j) /\ NotInherited(j)

ReturnsDisturb == \A x \in returns : x.at = "release" => x.job \in disturbed

CapacityInv ==
  Types /\ SlotsBounded /\ ReturnsDisturb /\ \A j \in Jobs \ disturbed : Orderly(j)

-----------------------------------------------------------------------------
LEMMA TokenFacts ==
  /\ Tokens \subseteq 0..TokenBound /\ 0 \in 0..TokenBound /\ 0 \notin Tokens
  /\ Tokens \subseteq Nat
  BY BoundAssumption DEF Tokens

\* Which loops the helpers of the dispatcher leave behind.
LEMMA IdleIsLoop ==
  ASSUME NEW ws
  PROVE  /\ Idle("dequeue") \in IdleLoop /\ Idle("off") \in IdleLoop
         /\ NextRound(ws) => loop' \in IdleLoop
  BY DEF Idle, NextRound, IdleLoop

LEMMA BusyMoves ==
  ASSUME loop \in Busy, NEW at \in Stages PROVE [loop EXCEPT !.at = at] \in Busy
  BY DEF Busy

LEMMA MoveTypes ==
  ASSUME Types, NEW j, NEW state \in JobStates \ {"active"}, Move(j, state),
         UNCHANGED stalls,
         \/ UNCHANGED attempts /\ job[j] = "active"
         \/ /\ attempts' = [attempts EXCEPT ![j] = @ + 1] /\ job[j] = "active"
            /\ state = "backoff" => attempts[j] + 1 < MaxAttempts
            /\ state # "waiting"
  PROVE  /\ job' \in [Jobs -> JobStates] /\ owner' \in [Jobs -> 0..TokenBound]
         /\ attempts' \in [Jobs -> 0..MaxAttempts] /\ CountersInRange'
<1>1. /\ job \in [Jobs -> JobStates] /\ owner \in [Jobs -> 0..TokenBound]
      /\ attempts \in [Jobs -> 0..MaxAttempts]
  BY DEF Types
<1>2. job' \in [Jobs -> JobStates] /\ owner' \in [Jobs -> 0..TokenBound]
  BY <1>1, TokenFacts DEF Move
<1>3. \A i \in Jobs : i # j => job'[i] = job[i] /\ attempts'[i] = attempts[i]
  BY <1>1 DEF Move
<1>4. j \in Jobs => job'[j] = state BY <1>1 DEF Move
<1>5. attempts' \in [Jobs -> 0..MaxAttempts]
  <2>1. j \in Jobs => attempts[j] < MaxAttempts BY DEF Types, CountersInRange
  <2>2. QED BY <1>1, <2>1, BoundAssumption
<1>6. CountersInRange'
  <2>1. ASSUME j \in Jobs
        PROVE  job'[j] \in {"waiting", "active", "backoff"} => attempts'[j] < MaxAttempts
    BY <1>1, <1>4, <2>1 DEF Types, CountersInRange, JobStates
  <2>2. QED BY <1>3, <1>4, <2>1 DEF Types, CountersInRange
<1>7. QED BY <1>2, <1>5, <1>6

LEMMA FaultTypes ==
  ASSUME faults \in Faults
  PROVE  /\ faults.timeouts < MaxTimeouts => [faults EXCEPT !.timeouts = @ + 1] \in Faults
         /\ faults.disconnects < MaxDisconnects => [faults EXCEPT !.disconnects = @ + 1] \in Faults
         /\ faults.lapses < MaxLapses => [faults EXCEPT !.lapses = @ + 1] \in Faults
         /\ faults.errors < MaxErrors => [faults EXCEPT !.errors = @ + 1] \in Faults
  BY BoundAssumption DEF Faults

LEMMA LoopMoveTypes ==
  ASSUME Types, loop \in Busy, NEW state \in {"waiting", "gone"}, LoopMove(state),
         UNCHANGED <<attempts, stalls>>
  PROVE  /\ loop' \in IdleLoop \cup Busy
         /\ job' \in [Jobs -> JobStates] /\ owner' \in [Jobs -> 0..TokenBound]
         /\ CountersInRange'
<1>1. CASE Holds(loop.job, loop.token)
  <2>1. Move(loop.job, state) /\ loop' = Idle("dequeue") /\ job[loop.job] = "active"
    BY <1>1 DEF LoopMove, Holds
  <2>2. state \in JobStates \ {"active"} BY DEF JobStates
  <2>3. QED BY <2>1, <2>2, MoveTypes, IdleIsLoop
<1>2. CASE ~Holds(loop.job, loop.token)
  <2>1. NoMove /\ NextRound(waiters) BY <1>2 DEF LoopMove
  <2>2. QED BY <2>1, IdleIsLoop DEF NoMove, Types, CountersInRange
<1>3. QED BY <1>1, <1>2

\* What the steps on slots leave behind.
LEMMA FreeTypes ==
  ASSUME Types, NEW S, NEW j, Free(S, j)
  PROVE  slots' \in [Pools -> SUBSET Jobs] /\ inherited' \in [Pools -> SUBSET Jobs]
<1>1. slots \in [Pools -> SUBSET Jobs] /\ inherited \in [Pools -> SUBSET Jobs] BY DEF Types
<1>2. QED BY <1>1 DEF Free, Without

LEMMA InheritTypes ==
  ASSUME Types, NEW p \in Pools, Inherit(p) PROVE inherited' \in [Pools -> SUBSET Jobs]
<1>1. slots[p] \subseteq Jobs /\ inherited \in [Pools -> SUBSET Jobs] BY DEF Types
<1>2. PICK S \in SUBSET Jobs : inherited' = [inherited EXCEPT ![p] = S]
  <2>1. CASE loop.job \in slots[p]
    BY <1>1, <2>1 DEF Inherit
  <2>2. CASE loop.job \notin slots[p] BY <1>1, <2>2 DEF Inherit
  <2>3. QED BY <2>1, <2>2
<1>3. QED BY <1>1, <1>2

LEMMA LeakTypes ==
  ASSUME Types, NEW j \in Jobs, LeakSlots(j)
  PROVE  /\ slots' \in [Pools -> SUBSET Jobs] /\ inherited' \in [Pools -> SUBSET Jobs]
         /\ disturbed' \subseteq Jobs /\ faults' \in Faults
<1>1. faults' \in Faults BY FaultTypes DEF LeakSlots, Error, Types
<1>2. disturbed' \subseteq Jobs BY DEF LeakSlots, Disturb, Types
<1>3. \E S : Free(S, j) BY DEF LeakSlots
<1>4. QED BY <1>1, <1>2, <1>3, FreeTypes

LEMMA InitTypes == Init => Types
<1> SUFFICES ASSUME Init PROVE Types OBVIOUS
<1>1. loop \in IdleLoop BY IdleIsLoop DEF Init
<1>2. faults \in Faults BY BoundAssumption DEF Init, Faults
<1>3. /\ job \in [Jobs -> JobStates] /\ owner \in [Jobs -> 0..TokenBound]
      /\ attempts \in [Jobs -> 0..MaxAttempts] /\ stalls \in [Jobs -> 0..(MaxStalledCount + 1)]
  BY BoundAssumption DEF Init, JobStates
<1>4. /\ waiters \in Seq(Conns) /\ slots \in [Pools -> SUBSET Jobs]
      /\ inherited \in [Pools -> SUBSET Jobs] /\ disturbed \subseteq Jobs
      /\ conn \in [Conns -> {"up", "closed"}] /\ keys \in [Conns -> SUBSET Jobs]
      /\ assign \in [Jobs -> Held \cup {NoAssignment}]
      /\ runs \subseteq Runs /\ calls \subseteq Calls /\ returns \subseteq Returns
  BY DEF Init
<1>5. CountersInRange BY BoundAssumption DEF Init, CountersInRange
<1>6. QED BY <1>1, <1>2, <1>3, <1>4, <1>5 DEF Types

\* The steps of the dispatcher.
LEMMA PollTypes ==
  ASSUME Types, NEW c \in Conns, Poll(c) \/ WaiterTimeout(c) \/ Disconnect(c)
  PROVE  Types'
<1> USE DEF Types, CountersInRange, bullVars, trackerVars, slotVars
<1>1. CASE Poll(c)
  <2>1. waiters' \in Seq(Conns) BY <1>1 DEF Poll
  <2>2. loop' \in IdleLoop \cup Busy BY <1>1, IdleIsLoop DEF Poll
  <2>3. QED BY <1>1, <2>1, <2>2 DEF Poll
<1>2. CASE WaiterTimeout(c)
  <2>1. PICK i \in 1..Len(waiters) :
          waiters' = SubSeq(waiters, 1, i - 1) \o SubSeq(waiters, i + 1, Len(waiters))
    BY <1>2 DEF WaiterTimeout
  <2>2. waiters' \in Seq(Conns) BY <2>1
  <2>3. faults' \in Faults BY <1>2, FaultTypes DEF WaiterTimeout
  <2>4. QED BY <1>2, <2>2, <2>3 DEF WaiterTimeout
<1>3. CASE Disconnect(c)
  <2>1. faults' \in Faults BY <1>3, FaultTypes DEF Disconnect
  <2>2. conn' \in [Conns -> {"up", "closed"}] /\ keys' \in [Conns -> SUBSET Jobs]
    BY <1>3 DEF Disconnect
  <2>3. assign' \in [Jobs -> Held \cup {NoAssignment}] BY <1>3 DEF Disconnect
  <2>4. \A j \in Taken(c) : j \in Jobs /\ assign[j] \in Held BY DEF Taken
  <2>5. \A j \in Taken(c) : [job |-> j, token |-> assign[j].token, at |-> "move"] \in Returns
    BY <2>4 DEF Held, Returns
  <2>6. returns' \subseteq Returns BY <1>3, <2>5 DEF Disconnect
  <2>7. QED BY <1>3, <2>1, <2>2, <2>3, <2>6 DEF Disconnect
<1>4. QED BY <1>1, <1>2, <1>3

LEMMA LoopTypes ==
  ASSUME Types, LoopStep \/ PassGate \/ LoopFault
  PROVE  Types'
<1>0. loop.at \in Stages => loop \in Busy /\ loop.job \in Jobs /\ loop.token \in Tokens
  BY DEF Types, IdleLoop, Busy, Stages
<1>a. slots \in [Pools -> SUBSET Jobs] /\ inherited \in [Pools -> SUBSET Jobs] BY DEF Types
<1> USE DEF bullVars, trackerVars, slotVars
<1>1. CASE NothingQueued
  BY <1>1, IdleIsLoop DEF NothingQueued, Types, CountersInRange
<1>2. ASSUME NEW j \in Jobs, TakeBadJob(j) PROVE Types'
  BY <1>2 DEF TakeBadJob, Types, CountersInRange, JobStates
<1>3. ASSUME NEW j \in Jobs, NEW t \in Tokens, TakeJob(j, t) PROVE Types'
  <2>1. loop' \in Busy BY <1>3 DEF TakeJob, Busy, Stages
  <2>2. job' \in [Jobs -> JobStates] /\ owner' \in [Jobs -> 0..TokenBound]
    BY <1>3, TokenFacts DEF TakeJob, Types, JobStates
  <2>3. CountersInRange' BY <1>3 DEF TakeJob, Types, CountersInRange
  <2>4. QED BY <1>3, <2>1, <2>2, <2>3 DEF TakeJob, Types
<1>4. CASE CheckSuspension
  <2>1. loop \in Busy BY <1>0, <1>4 DEF CheckSuspension, Stages
  <2>2. CASE LoopMove("gone")
    BY <1>4, <2>1, <2>2, LoopMoveTypes DEF CheckSuspension, Types
  <2>3. CASE loop' = [loop EXCEPT !.at = "project"] /\ NoMove
    <3>1. loop' \in Busy BY <2>1, <2>3, BusyMoves DEF Stages
    <3>2. QED BY <1>4, <2>3, <3>1 DEF CheckSuspension, Types, CountersInRange, NoMove
  <2>4. QED BY <1>4, <2>2, <2>3 DEF CheckSuspension
<1>5. ASSUME NEW p \in Pools, AcquireSlot(p) PROVE Types'
  <2>1. loop \in Busy /\ loop.job \in Jobs BY <1>0, <1>5 DEF AcquireSlot, Stages, Pools
  <2>2. CASE HasRoom(p)
    <3>1. After(p) \in Stages BY DEF After, Pools, Stages
    <3>2. loop' \in Busy BY <1>5, <2>1, <2>2, <3>1, BusyMoves DEF AcquireSlot
    <3>3. slots' \in [Pools -> SUBSET Jobs] BY <1>a, <1>5, <2>1, <2>2 DEF AcquireSlot
    <3>4. inherited' \in [Pools -> SUBSET Jobs] BY <1>5, <2>2, InheritTypes DEF AcquireSlot
    <3>5. QED
      BY <1>5, <2>2, <3>2, <3>3, <3>4 DEF AcquireSlot, Types, CountersInRange, NoMove
  <2>3. CASE ~HasRoom(p)
    <3>1. Free(Before(p), loop.job) /\ LoopMove("waiting") BY <1>5, <2>3 DEF AcquireSlot
    <3>2. QED
      BY <1>5, <2>1, <3>1, FreeTypes, LoopMoveTypes DEF AcquireSlot, Types
  <2>4. QED BY <2>2, <2>3
<1>6. CASE PassGate
  <2>1. loop' \in Busy BY <1>0, <1>6, BusyMoves DEF PassGate, After, Stages
  <2>2. QED BY <1>6, <2>1 DEF PassGate, Types, CountersInRange
<1>7. CASE RejectAtGate
  <2>1. loop \in Busy /\ loop.job \in Jobs BY <1>0, <1>7 DEF RejectAtGate, Stages
  <2>2. QED BY <1>7, <2>1, FreeTypes, LoopMoveTypes DEF RejectAtGate, Types
<1>8. CASE HandOver
  <2> DEFINE c == Head(waiters)
  <2>1. c \in Conns /\ waiters' \in Seq(Conns) BY <1>8 DEF HandOver, Types
  <2>2. loop.job \in Jobs /\ loop.token \in Tokens BY <1>0, <1>8 DEF HandOver, Stages
  <2>3. [conn |-> c, token |-> loop.token] \in Held BY <2>1, <2>2 DEF Held
  <2>4. [conn |-> c, job |-> loop.job, token |-> loop.token] \in Runs BY <2>1, <2>2 DEF Runs
  <2>5. assign' \in [Jobs -> Held \cup {NoAssignment}] /\ keys' \in [Conns -> SUBSET Jobs]
    BY <1>8, <2>1, <2>2, <2>3 DEF HandOver, Record, Types
  <2>6. runs' \subseteq Runs BY <1>8, <2>4 DEF HandOver, Types
  <2>7. loop' \in IdleLoop BY <1>8, IdleIsLoop DEF HandOver
  <2>8. UNCHANGED <<bullVars, slotVars, conn, calls, returns, faults>> BY <1>8 DEF HandOver
  <2> HIDE DEF c
  <2>9. QED BY <2>1, <2>5, <2>6, <2>7, <2>8 DEF Types, CountersInRange
<1>9. CASE NoWaiterLeft
  <2>1. loop' \in Busy BY <1>0, <1>9, BusyMoves DEF NoWaiterLeft, Stages
  <2>2. QED BY <1>9, <2>1 DEF NoWaiterLeft, Types, CountersInRange
<1>10. CASE ReturnOrphan
  <2>1. loop \in Busy BY <1>0, <1>10 DEF ReturnOrphan, Stages
  <2>2. CASE Holds(loop.job, loop.token)
    <3>1. Move(loop.job, "waiting") /\ loop' = [loop EXCEPT !.at = "release"]
      BY <1>10, <2>2 DEF ReturnOrphan
    <3>2. loop' \in Busy BY <2>1, <3>1, BusyMoves DEF Stages
    <3>3. job[loop.job] = "active" BY <2>2 DEF Holds
    <3>4. QED
      BY <1>10, <3>1, <3>2, <3>3, MoveTypes DEF ReturnOrphan, Types, JobStates
  <2>3. CASE ~Holds(loop.job, loop.token)
    BY <1>10, <2>3, IdleIsLoop DEF ReturnOrphan, Types, CountersInRange, NoMove
  <2>4. QED BY <2>2, <2>3
<1>11. CASE ReleaseOrphan
  BY <1>11, FreeTypes, IdleIsLoop DEF ReleaseOrphan, Types, CountersInRange
<1>12. CASE DequeueError
  BY <1>12, FaultTypes, IdleIsLoop DEF DequeueError, Error, Types, CountersInRange
<1>13. CASE AllowUnchecked
  <2>1. loop \in Busy /\ loop.job \in Jobs BY <1>0, <1>13 DEF AllowUnchecked, Stages
  <2>2. loop' \in Busy BY <1>13, <2>1, BusyMoves DEF AllowUnchecked, After, Stages
  <2>3. inherited' \in [Pools -> SUBSET Jobs] BY <1>13, InheritTypes DEF AllowUnchecked, Pools
  <2>4. disturbed' \subseteq Jobs /\ faults' \in Faults
    BY <1>13, <2>1, FaultTypes DEF AllowUnchecked, Disturb, Error, Types
  <2>5. QED BY <1>13, <2>2, <2>3, <2>4 DEF AllowUnchecked, Types, CountersInRange
<1>14. CASE OrphanLeaks
  <2>1. loop.job \in Jobs BY <1>0, <1>14 DEF OrphanLeaks, Stages
  <2>2. QED BY <1>14, <2>1, LeakTypes, IdleIsLoop DEF OrphanLeaks, Types, CountersInRange
<1>15. CASE RejectLeaks
  <2>1. loop \in Busy /\ loop.job \in Jobs BY <1>0, <1>15 DEF RejectLeaks, Stages
  <2>2. QED BY <1>15, <2>1, LeakTypes, LoopMoveTypes DEF RejectLeaks, Types
<1>16. QED
  BY <1>1, <1>2, <1>3, <1>4, <1>5, <1>6, <1>7, <1>8, <1>9, <1>10, <1>11, <1>12, <1>13, <1>14,
     <1>15 DEF LoopStep, LoopFault

LEMMA WorkTypes ==
  ASSUME Types
  PROVE  /\ \A r \in runs : AbortRun(r) => Types'
         /\ \A r \in runs, ok \in BOOLEAN : WorkerDone(r, ok) => Types'
         /\ \A x \in calls : CallStep(x) \/ CallFault(x) => Types'
         /\ \A x \in returns : ReturnStep(x) \/ ReturnLeaks(x) => Types'
<1>0. runs \subseteq Runs /\ calls \subseteq Calls /\ returns \subseteq Returns
  BY DEF Types
<1> USE DEF bullVars, trackerVars, slotVars
<1>1. ASSUME NEW r \in runs, AbortRun(r) PROVE Types'
  BY <1>1 DEF AbortRun, Types, CountersInRange
<1>2. ASSUME NEW r \in runs, NEW ok \in BOOLEAN, WorkerDone(r, ok) PROVE Types'
  <2>1. [conn |-> r.conn, job |-> r.job, token |-> r.token, ok |-> ok, at |-> "move"] \in Calls
    BY <1>0 DEF Runs, Calls
  <2>2. calls' \subseteq Calls /\ runs' \subseteq Runs BY <1>0, <1>2, <2>1 DEF WorkerDone
  <2>3. QED BY <1>2, <2>2 DEF WorkerDone, Types, CountersInRange
<1>3. ASSUME NEW x \in calls, CallStep(x) \/ CallFault(x) PROVE Types'
  <2>1. x.job \in Jobs BY <1>0 DEF Calls
  <2>2. \A at \in {"clear", "release"} : [x EXCEPT !.at = at] \in Calls BY <1>0 DEF Calls
  <2>3. calls' \subseteq Calls
    <3>1. calls' = calls \ {x} \/ \E at \in {"clear", "release"} : calls' = Advance(calls, x, at)
      BY <1>3 DEF CallStep, CompleteMove, CompleteClear, CompleteRelease, CallFault,
         CompleteMoveFails, CompleteLeaks
    <3>2. QED BY <1>0, <2>2, <3>1 DEF Advance
  <2>4. CASE CompleteMove(x)
    <3>1. UNCHANGED <<stalls, waiters, loop, slotVars, conn, assign, keys, runs, returns, faults>>
      BY <2>4 DEF CompleteMove
    <3>2. CASE ~Holds(x.job, x.token)
      BY <2>3, <2>4, <3>1, <3>2 DEF CompleteMove, Types, CountersInRange, NoMove
    <3>3. CASE Holds(x.job, x.token)
      <4>1. job[x.job] = "active" BY <3>3 DEF Holds
      <4>2. PICK state \in {"gone", "backoff", "failed"} :
              /\ Move(x.job, state)
              /\ \/ UNCHANGED attempts
                 \/ /\ attempts' = [attempts EXCEPT ![x.job] = @ + 1]
                    /\ state = "backoff" => attempts[x.job] + 1 < MaxAttempts
        BY <2>4, <3>3 DEF CompleteMove
      <4>3. QED BY <2>3, <3>1, <4>1, <4>2, MoveTypes DEF Types, JobStates
    <3>4. QED BY <3>2, <3>3
  <2>5. CASE CompleteClear(x)
    <3>1. assign' \in [Jobs -> Held \cup {NoAssignment}] /\ keys' \in [Conns -> SUBSET Jobs]
      BY <2>5 DEF CompleteClear, Types
    <3>2. QED BY <2>3, <2>5, <3>1 DEF CompleteClear, Types, CountersInRange
  <2>6. CASE CompleteRelease(x)
    BY <2>3, <2>6, FreeTypes DEF CompleteRelease, Types, CountersInRange
  <2>7. CASE CompleteMoveFails(x)
    BY <2>3, <2>7, FaultTypes DEF CompleteMoveFails, Error, Types, CountersInRange
  <2>8. CASE CompleteLeaks(x)
    BY <2>1, <2>3, <2>8, LeakTypes DEF CompleteLeaks, Types, CountersInRange
  <2>9. QED BY <1>3, <2>4, <2>5, <2>6, <2>7, <2>8 DEF CallStep, CallFault
<1>4. ASSUME NEW x \in returns, ReturnStep(x) \/ ReturnLeaks(x) PROVE Types'
  <2>1. x.job \in Jobs BY <1>0 DEF Returns
  <2>2. [x EXCEPT !.at = "release"] \in Returns BY <1>0 DEF Returns
  <2>3. returns' \subseteq Returns
    BY <1>0, <1>4, <2>2 DEF ReturnStep, ReturnMove, ReturnRelease, ReturnLeaks, Advance
  <2>4. CASE ReturnMove(x)
    <3>0. disturbed' \subseteq Jobs BY <2>1, <2>4 DEF ReturnMove, Disturb, Types
    <3>1. CASE Holds(x.job, x.token)
      <4>1. Move(x.job, "waiting") /\ job[x.job] = "active"
        BY <2>4, <3>1 DEF ReturnMove, Holds
      <4>2. QED BY <2>3, <2>4, <3>0, <4>1, MoveTypes DEF ReturnMove, Types, JobStates
    <3>2. CASE ~Holds(x.job, x.token)
      BY <2>3, <2>4, <3>0, <3>2 DEF ReturnMove, Types, CountersInRange, NoMove
    <3>3. QED BY <3>1, <3>2
  <2>5. CASE ReturnRelease(x)
    BY <2>3, <2>5, FreeTypes DEF ReturnRelease, Types, CountersInRange
  <2>6. CASE ReturnLeaks(x)
    BY <2>1, <2>3, <2>6, LeakTypes DEF ReturnLeaks, Types, CountersInRange
  <2>7. QED BY <1>4, <2>4, <2>5, <2>6 DEF ReturnStep
<1>5. QED BY <1>1, <1>2, <1>3, <1>4

LEMMA RecoveryTypes ==
  ASSUME Types, NEW j \in Jobs,
         LockLapses(j) \/ StalledScan(j) \/ BackoffEnds(j) \/ \E p \in Pools : SlotExpires(p, j)
  PROVE  Types'
<1> USE DEF bullVars, trackerVars, slotVars
<1>1. CASE LockLapses(j)
  <2>1. owner' \in [Jobs -> 0..TokenBound]
    BY <1>1, TokenFacts DEF LockLapses, Types
  <2>2. faults' \in Faults BY <1>1, FaultTypes DEF LockLapses, Types
  <2>3. QED BY <1>1, <2>1, <2>2 DEF LockLapses, Types, CountersInRange
<1>2. CASE StalledScan(j)
  <2>1. stalls[j] <= MaxStalledCount BY <1>2 DEF StalledScan, Types, CountersInRange
  <2>2. stalls' \in [Jobs -> 0..(MaxStalledCount + 1)]
    BY <1>2, <2>1, BoundAssumption DEF StalledScan, Types
  <2>3. job' \in [Jobs -> JobStates] BY <1>2 DEF StalledScan, Types, JobStates
  <2>4. CountersInRange' BY <1>2 DEF StalledScan, Types, CountersInRange
  <2>5. disturbed' \subseteq Jobs BY <1>2 DEF StalledScan, Disturb, Types
  <2>6. QED BY <1>2, <2>2, <2>3, <2>4, <2>5 DEF StalledScan, Types
<1>3. CASE BackoffEnds(j)
  BY <1>3 DEF BackoffEnds, Types, CountersInRange, JobStates
<1>4. ASSUME NEW p \in Pools, SlotExpires(p, j) PROVE Types'
  BY <1>4, FreeTypes DEF SlotExpires, Types, CountersInRange
<1>5. QED BY <1>1, <1>2, <1>3, <1>4

LEMMA NextTypes == Types /\ [Next]_vars => Types'
<1> SUFFICES ASSUME Types, [Next]_vars PROVE Types'
  OBVIOUS
<1>1. CASE UNCHANGED vars
  BY <1>1 DEF vars, Types, CountersInRange
<1>2. QED BY <1>1, PollTypes, LoopTypes, WorkTypes, RecoveryTypes DEF Next

\* Types, for any faults: in particular no job is tried more often than BullMQ's
\* attempts allow, nor taken back by the stalled scan more than once too often.
THEOREM TypesHold == Spec => []TypeOK
<1>1. Types => TypeOK
  BY DEF Types, TypeOK, JobStates, Busy, IdleLoop, Held, Runs, Calls, Returns, Faults
<1>2. QED BY <1>1, InitTypes, NextTypes, PTL DEF Spec

-----------------------------------------------------------------------------
\* Tokens in use are never the idle loop's 0, and jobs and connections are typed.
Shaped ==
  /\ \A r \in runs : r.job \in Jobs /\ r.conn \in Conns /\ r.token \in Tokens
  /\ \A x \in calls : /\ x.job \in Jobs /\ x.conn \in Conns /\ x.token \in Tokens
                      /\ x.at \in {"move", "clear", "release"}
  /\ \A x \in returns : x.job \in Jobs /\ x.token \in Tokens /\ x.at \in {"move", "release"}
  /\ \A j \in Jobs : assign[j] # NoAssignment =>
       assign[j].token \in Tokens /\ assign[j].conn \in Conns
  /\ loop.at \in Stages => loop.job \in Jobs /\ loop.token \in Tokens
  /\ loop.at \notin Stages => loop.token = 0
  /\ loop.at \in Stages \cup {"off", "dequeue"}

LEMMA Shapes == ASSUME Types PROVE Shaped
  BY DEF Shaped, Types, Runs, Calls, Returns, Held, IdleLoop, Busy, Stages, NoAssignment

LEMMA ShapesNext == ASSUME Types' PROVE Shaped'
  BY DEF Shaped, Types, Runs, Calls, Returns, Held, IdleLoop, Busy, Stages, NoAssignment

LEMMA InitDeliveryInv == Init => DeliveryInv
<1> SUFFICES ASSUME Init PROVE DeliveryInv OBVIOUS
<1>1. Types BY InitTypes
<1>2. LoopHolds BY DEF Init, LoopHolds, Idle, Stages
<1>3. TokensApart BY DEF Init, TokensApart
<1>4. LiveHolds /\ ReturnsAreLost /\ IndexIsOwn
  BY DEF Init, LiveHolds, ReturnsAreLost, IndexIsOwn
<1>5. QED BY <1>1, <1>2, <1>3, <1>4 DEF DeliveryInv

\* The loop drops its job, and with it its token.
LEMMA LoopDrops ==
  ASSUME DeliveryInv, Types', loop'.at \notin Stages,
         UNCHANGED <<conn, assign, keys, runs, calls, returns>>,
         \/ UNCHANGED <<job, owner>>
         \/ Holds(loop.job, loop.token) /\ \E state \in {"waiting", "gone"} : Move(loop.job, state)
  PROVE  DeliveryInv'
<1>1. Shaped BY Shapes DEF DeliveryInv
<1>2. loop'.token = 0 /\ 0 \notin Tokens BY ShapesNext, TokenFacts DEF Shaped
<1>3. LoopHolds' BY DEF LoopHolds
<1>4. TokensApart' BY <1>1, <1>2 DEF DeliveryInv, TokensApart, Shaped
<1>5. LiveHolds'
  <2>1. CASE UNCHANGED <<job, owner>> BY <2>1 DEF DeliveryInv, LiveHolds, Holds, Over
  <2>2. ASSUME Holds(loop.job, loop.token), NEW state \in {"waiting", "gone"},
               Move(loop.job, state)
        PROVE  LiveHolds'
    <3>1. \A y \in runs \cup calls : Holds(y.job, y.token) => y.job # loop.job
      BY <2>2 DEF DeliveryInv, TokensApart, Holds
    <3>2. \A y \in runs \cup calls : y.job # loop.job =>
            job'[y.job] = job[y.job] /\ owner'[y.job] = owner[y.job]
      BY <1>1, <2>2 DEF Move, Shaped, DeliveryInv, Types
    <3>3. \A x \in calls : Over(x) => x.job # loop.job
      BY <2>2 DEF Holds, Over
    <3>4. QED BY <3>1, <3>2, <3>3 DEF DeliveryInv, LiveHolds, Holds, Over
  <2>3. QED BY <2>1, <2>2
<1>6. ReturnsAreLost' BY DEF DeliveryInv, ReturnsAreLost
<1>7. IndexIsOwn' BY DEF DeliveryInv, IndexIsOwn
<1>8. QED BY <1>3, <1>4, <1>5, <1>6, <1>7 DEF DeliveryInv

\* The loop takes its job one stage further.
LEMMA LoopAdvances ==
  ASSUME DeliveryInv, Types', loop'.at \in Stages \ {"release"}, loop.at \in Stages \ {"release"},
         loop'.job = loop.job, loop'.token = loop.token,
         UNCHANGED <<job, owner, conn, assign, keys, runs, calls, returns>>
  PROVE  DeliveryInv'
  BY DEF DeliveryInv, LoopHolds, TokensApart, LiveHolds, ReturnsAreLost, IndexIsOwn, Holds, Over

LEMMA TakeInv ==
  ASSUME DeliveryInv, NEW j \in Jobs, NEW t \in Tokens, TakeJob(j, t) PROVE DeliveryInv'
<1>0. Types' BY LoopTypes DEF DeliveryInv, LoopStep
<1>1. Shaped BY Shapes DEF DeliveryInv
<1>2. /\ job[j] = "waiting" /\ job'[j] = "active" /\ owner'[j] = t
      /\ \A i \in Jobs : i # j => job'[i] = job[i] /\ owner'[i] = owner[i]
  BY DEF TakeJob, DeliveryInv, Types
<1>3. loop'.at = "suspension" /\ loop'.job = j /\ loop'.token = t BY DEF TakeJob
<1>4. UNCHANGED <<conn, assign, keys, runs, calls, returns>> BY DEF TakeJob, trackerVars
<1>5. /\ \A i \in Jobs : assign[i].token # t
      /\ \A y \in runs \cup calls \cup returns : y.token # t
  BY DEF TakeJob, IsNewToken, TokensInUse
<1>6. LoopHolds' BY <1>2, <1>3 DEF LoopHolds, Holds
<1>7. TokensApart' BY <1>3, <1>4, <1>5 DEF DeliveryInv, TokensApart
<1>8. LiveHolds' BY <1>1, <1>2, <1>4 DEF DeliveryInv, LiveHolds, Holds, Over, Shaped
<1>9. ReturnsAreLost' BY <1>4 DEF DeliveryInv, ReturnsAreLost
<1>10. IndexIsOwn' BY <1>4 DEF DeliveryInv, IndexIsOwn
<1>11. QED BY <1>0, <1>6, <1>7, <1>8, <1>9, <1>10 DEF DeliveryInv

LEMMA HandOverInv ==
  ASSUME DeliveryInv, HandOver PROVE DeliveryInv'
<1>0. Types' BY LoopTypes DEF DeliveryInv, LoopStep
<1>1. Shaped BY Shapes DEF DeliveryInv
<1>2. PICK c, j, t : c = Head(waiters) /\ j = loop.job /\ t = loop.token OBVIOUS
<1>3. c \in Conns /\ j \in Jobs /\ t \in Tokens /\ loop.at = "hand"
  BY <1>1, <1>2 DEF HandOver, DeliveryInv, Types, Shaped, Stages
<1>4. job[j] = "active" /\ owner[j] = t
  BY <1>2, <1>3 DEF DeliveryInv, LoopHolds, Holds, Stages
<1>5. /\ assign'[j].conn = c /\ assign'[j].token = t
      /\ \A i \in Jobs : i # j => assign'[i] = assign[i]
  BY <1>2, <1>3 DEF HandOver, Record, DeliveryInv, Types
<1>6. /\ keys'[c] = keys[c] \cup {j}
      /\ \A d \in Conns : d # c => keys'[d] = keys[d]
  BY <1>2, <1>3 DEF HandOver, Record, DeliveryInv, Types
<1>7. PICK r : r = [conn |-> c, job |-> j, token |-> t] OBVIOUS
<1>8. r.conn = c /\ r.job = j /\ r.token = t BY <1>7
<1>9. runs' = IF conn[c] = "up" THEN runs \cup {r} ELSE runs BY <1>2, <1>7 DEF HandOver
<1>10. UNCHANGED <<job, owner, conn, calls, returns>> BY DEF HandOver, bullVars
<1>11. loop'.at \in {"off", "dequeue"} /\ loop'.token = 0
  BY DEF HandOver, NextRound, Idle
<1>12. \A y \in runs \cup calls \cup returns : y.token # t
  BY <1>2 DEF DeliveryInv, TokensApart
<1>13. LoopHolds' BY <1>11 DEF LoopHolds, Stages
<1>14. TokensApart'
  <2>1. 0 \notin Tokens BY TokenFacts
  <2>2. \A y \in (runs \cup calls \cup returns)' : y.token # loop'.token
    BY <1>1, <1>3, <1>8, <1>9, <1>10, <1>11, <2>1 DEF Shaped
  <2>3. \A i \in Jobs : assign'[i] # NoAssignment => assign'[i].token # loop'.token
    BY <1>1, <1>3, <1>5, <1>11, <2>1 DEF Shaped
  <2>4. QED
    BY <1>8, <1>9, <1>10, <1>12, <2>2, <2>3 DEF DeliveryInv, TokensApart
<1>15. LiveHolds' BY <1>4, <1>8, <1>9, <1>10 DEF DeliveryInv, LiveHolds, Holds, Over
<1>16. ReturnsAreLost' BY <1>8, <1>9, <1>10, <1>12 DEF DeliveryInv, ReturnsAreLost
<1>17. IndexIsOwn'
  <2>1. \A d \in Conns : j \in keys[d] => conn[d] # "up"
    BY <1>3, <1>4, <1>12 DEF DeliveryInv, IndexIsOwn, LiveHolds, Holds, Over
  <2>2. \A d \in Conns : keys[d] \subseteq Jobs BY DEF DeliveryInv, Types
  <2>3. ASSUME NEW d \in Conns, NEW i \in keys'[d], conn[d] = "up", i # j
        PROVE  /\ assign'[i].conn = d
               /\ \/ \E q \in runs' : q.conn = d /\ q.job = i /\ q.token = assign'[i].token
                  \/ \E x \in calls' : /\ x.conn = d /\ x.job = i /\ x.token = assign'[i].token
                                       /\ x.at # "release"
    <3>1. i \in keys[d] /\ i \in Jobs BY <1>6, <2>2, <2>3
    <3>2. assign'[i] = assign[i] BY <1>5, <2>3, <3>1
    <3>3. QED BY <1>9, <1>10, <2>3, <3>1, <3>2 DEF DeliveryInv, IndexIsOwn
  <2>4. ASSUME NEW d \in Conns, conn[d] = "up", j \in keys'[d]
        PROVE  d = c /\ r \in runs'
    BY <1>6, <1>9, <2>1, <2>4
  <2>5. QED BY <1>5, <1>8, <1>10, <2>3, <2>4 DEF IndexIsOwn
<1>18. QED BY <1>0, <1>13, <1>14, <1>15, <1>16, <1>17 DEF DeliveryInv

\* Steps that leave the tokens where they are; a job that changes is not active.
LEMMA SameTokens ==
  ASSUME DeliveryInv, Types', NEW j \in Jobs,
         UNCHANGED <<owner, loop, conn, assign, keys, runs, calls, returns>>,
         \A i \in Jobs : i # j => job'[i] = job[i],
         \/ job'[j] = job[j]
         \/ job[j] # "active" /\ job'[j] = "failed"
         \/ job[j] = "active" /\ owner[j] = 0
         \/ job[j] = "backoff" /\ \A x \in calls : x.job = j => x.at = "move"
  PROVE  DeliveryInv'
<1>1. Shaped /\ 0 \notin Tokens BY Shapes, TokenFacts DEF DeliveryInv
<1>2. \A i \in Jobs, t \in Tokens : Holds(i, t) => Holds(i, t)' BY <1>1 DEF Holds
<1>3. LoopHolds'
  <2>1. loop.at \in Stages \ {"release"} => Holds(loop.job, loop.token)'
    BY <1>1, <1>2 DEF DeliveryInv, LoopHolds, Shaped, Holds
  <2>2. QED BY <2>1 DEF LoopHolds, Holds
<1>4. TokensApart' BY DEF DeliveryInv, TokensApart
<1>5. LiveHolds'
  <2>1. \A r \in runs : conn[r.conn] = "up" => job'[r.job] = "active" /\ owner[r.job] = r.token
    BY <1>1, <1>2 DEF DeliveryInv, LiveHolds, Shaped, Holds
  <2>2. \A x \in calls : Holds(x.job, x.token) =>
          job'[x.job] = "active" /\ owner[x.job] = x.token
    BY <1>1, <1>2 DEF Shaped, Holds
  <2>3. \A x \in calls : Over(x) => job'[x.job] \in {"backoff", "failed", "gone"}
    BY <1>1 DEF Over, Shaped
  <2>4. QED BY <2>1, <2>2, <2>3 DEF DeliveryInv, LiveHolds, Holds, Over
<1>6. ReturnsAreLost' BY DEF DeliveryInv, ReturnsAreLost
<1>7. IndexIsOwn' BY DEF DeliveryInv, IndexIsOwn
<1>8. QED BY <1>3, <1>4, <1>5, <1>6, <1>7 DEF DeliveryInv

\* Steps that only concern waiters, pools or counters.
LEMMA Bystanders ==
  ASSUME DeliveryInv, Types', loop' = loop \/ (loop.at \notin Stages /\ loop'.at \notin Stages),
         UNCHANGED <<job, owner, conn, assign, keys, runs, calls, returns>>
  PROVE  DeliveryInv'
<1>1. Shaped /\ Shaped' BY Shapes, ShapesNext DEF DeliveryInv
<1>2. loop'.token = loop.token BY <1>1 DEF Shaped
<1>3. LoopHolds' BY DEF DeliveryInv, LoopHolds, Holds
<1>4. TokensApart' BY <1>2 DEF DeliveryInv, TokensApart
<1>5. LiveHolds' /\ ReturnsAreLost' /\ IndexIsOwn'
  BY DEF DeliveryInv, LiveHolds, ReturnsAreLost, IndexIsOwn, Holds, Over
<1>6. QED BY <1>3, <1>4, <1>5 DEF DeliveryInv

LEMMA LoopInv ==
  ASSUME DeliveryInv, LoopStep \/ PassGate \/ LoopFault PROVE DeliveryInv'
<1>0. Types' BY LoopTypes DEF DeliveryInv
<1>1. Shaped /\ Shaped' BY <1>0, Shapes, ShapesNext DEF DeliveryInv
<1>2. \A ws : NextRound(ws) => loop'.at \notin Stages BY DEF NextRound, Idle, Stages
<1>3. Idle("dequeue").at \notin Stages BY DEF Idle, Stages
<1>4. ASSUME NEW state \in {"waiting", "gone"}, LoopMove(state), loop.at \in Stages,
             UNCHANGED <<conn, assign, keys, runs, calls, returns>>
      PROVE  DeliveryInv'
  BY <1>0, <1>2, <1>3, <1>4, LoopDrops DEF LoopMove, NoMove
<1> USE DEF bullVars, trackerVars, slotVars
<1>5. CASE NothingQueued
  <2>1. loop.at \notin Stages BY <1>5 DEF NothingQueued, Stages
  <2>2. QED BY <1>0, <1>2, <1>5, <2>1, Bystanders DEF NothingQueued
<1>6. ASSUME NEW j \in Jobs, TakeBadJob(j) PROVE DeliveryInv'
  <2>1. job[j] = "waiting" /\ job'[j] = "failed" /\ \A i \in Jobs : i # j => job'[i] = job[i]
    BY <1>6 DEF TakeBadJob, DeliveryInv, Types
  <2>2. UNCHANGED <<owner, loop, conn, assign, keys, runs, calls, returns>>
    BY <1>6 DEF TakeBadJob
  <2>3. QED BY <1>0, <2>1, <2>2, SameTokens
<1>7. ASSUME NEW j \in Jobs, NEW t \in Tokens, TakeJob(j, t) PROVE DeliveryInv'
  BY <1>7, TakeInv
<1>8. CASE CheckSuspension
  <2>1. CASE LoopMove("gone") BY <1>4, <1>8, <2>1 DEF CheckSuspension, Stages
  <2>2. CASE loop' = [loop EXCEPT !.at = "project"] /\ NoMove
    <3>1. loop' = [loop EXCEPT !.at = "project"] /\ loop.at = "suspension"
      BY <1>8, <2>2 DEF CheckSuspension
    <3>2. loop \in Busy BY <3>1 DEF DeliveryInv, Types, IdleLoop
    <3>3. loop'.at = "project" /\ loop'.job = loop.job /\ loop'.token = loop.token
      BY <3>1, <3>2 DEF Busy
    <3>4. QED BY <1>0, <1>8, <2>2, <3>1, <3>3, LoopAdvances DEF CheckSuspension, Stages, NoMove
  <2>3. QED BY <1>8, <2>1, <2>2 DEF CheckSuspension
<1>9. ASSUME NEW p \in Pools, AcquireSlot(p) PROVE DeliveryInv'
  <2>1. loop.at \in Stages \ {"release"} BY <1>9 DEF AcquireSlot, Pools, Stages
  <2>2. CASE HasRoom(p)
    <3>1. loop' = [loop EXCEPT !.at = After(p)] BY <1>9, <2>2 DEF AcquireSlot
    <3>2. loop \in Busy BY <2>1 DEF DeliveryInv, Types, IdleLoop, Stages
    <3>3. loop'.at = After(p) /\ loop'.job = loop.job /\ loop'.token = loop.token
      BY <3>1, <3>2 DEF Busy
    <3>4. After(p) \in Stages \ {"release"} BY DEF After, Pools, Stages
    <3>5. QED BY <1>0, <1>9, <2>1, <2>2, <3>3, <3>4, LoopAdvances DEF AcquireSlot, NoMove
  <2>3. CASE ~HasRoom(p)
    BY <1>4, <1>9, <2>1, <2>3 DEF AcquireSlot
  <2>4. QED BY <2>2, <2>3
<1>10. CASE PassGate \/ NoWaiterLeft
  <2>1. /\ \/ loop' = [loop EXCEPT !.at = "hand"] \/ loop' = [loop EXCEPT !.at = "return"]
        /\ loop.at \in {"gate", "hand"}
    BY <1>10 DEF PassGate, NoWaiterLeft, After
  <2>2. loop \in Busy BY <2>1 DEF DeliveryInv, Types, IdleLoop
  <2>3. loop'.at \in {"hand", "return"} /\ loop'.job = loop.job /\ loop'.token = loop.token
    BY <2>1, <2>2 DEF Busy
  <2>4. QED BY <1>0, <1>10, <2>1, <2>3, LoopAdvances DEF PassGate, NoWaiterLeft, Stages
<1>11. CASE RejectAtGate BY <1>4, <1>11 DEF RejectAtGate, Stages
<1>12. CASE HandOver BY <1>12, HandOverInv
<1>13. CASE ReturnOrphan
  <2>1. CASE ~Holds(loop.job, loop.token)
    BY <1>0, <1>2, <1>13, <2>1, LoopDrops DEF ReturnOrphan, NoMove
  <2>2. CASE Holds(loop.job, loop.token)
    <3>1. /\ loop' = [loop EXCEPT !.at = "release"] /\ loop.at = "return"
          /\ Move(loop.job, "waiting")
      BY <1>13, <2>2 DEF ReturnOrphan
    <3>2. loop \in Busy BY <3>1 DEF DeliveryInv, Types, IdleLoop
    <3>3. loop'.at = "release" /\ loop'.job = loop.job /\ loop'.token = loop.token
      BY <3>1, <3>2 DEF Busy
    <3>4. UNCHANGED <<conn, assign, keys, runs, calls, returns>> BY <1>13 DEF ReturnOrphan
    <3>5. LoopHolds' BY <3>3 DEF LoopHolds
    <3>6. TokensApart' BY <3>3, <3>4 DEF DeliveryInv, TokensApart
    <3>7. LiveHolds'
      <4>1. \A y \in runs \cup calls : Holds(y.job, y.token) => y.job # loop.job
        BY <2>2 DEF DeliveryInv, TokensApart, Holds
      <4>2. \A y \in runs \cup calls : y.job # loop.job =>
              job'[y.job] = job[y.job] /\ owner'[y.job] = owner[y.job]
        BY <1>1, <3>1 DEF Move, Shaped, DeliveryInv, Types
      <4>3. \A x \in calls : Over(x) => x.job # loop.job BY <2>2 DEF Holds, Over
      <4>4. QED BY <3>4, <4>1, <4>2, <4>3 DEF DeliveryInv, LiveHolds, Holds, Over
    <3>8. ReturnsAreLost' /\ IndexIsOwn' BY <3>4 DEF DeliveryInv, ReturnsAreLost, IndexIsOwn
    <3>9. QED BY <1>0, <3>5, <3>6, <3>7, <3>8 DEF DeliveryInv
  <2>3. QED BY <2>1, <2>2
<1>14. CASE ReleaseOrphan BY <1>0, <1>2, <1>14, LoopDrops DEF ReleaseOrphan
<1>15. CASE DequeueError \/ OrphanLeaks
  BY <1>0, <1>2, <1>15, LoopDrops DEF DequeueError, OrphanLeaks
<1>16. CASE RejectLeaks BY <1>4, <1>16 DEF RejectLeaks, Stages
<1>17. CASE AllowUnchecked
  <2>1. loop' = [loop EXCEPT !.at = "gate"] /\ loop.at = "instance"
    BY <1>17 DEF AllowUnchecked, After
  <2>2. loop \in Busy BY <2>1 DEF DeliveryInv, Types, IdleLoop
  <2>3. loop'.at = "gate" /\ loop'.job = loop.job /\ loop'.token = loop.token
    BY <2>1, <2>2 DEF Busy
  <2>4. QED BY <1>0, <1>17, <2>1, <2>3, LoopAdvances DEF AllowUnchecked, Stages
<1>18. QED
  BY <1>5, <1>6, <1>7, <1>8, <1>9, <1>10, <1>11, <1>12, <1>13, <1>14, <1>15, <1>16, <1>17
     DEF LoopStep, LoopFault

LEMMA PollInv ==
  ASSUME DeliveryInv, NEW c \in Conns, Poll(c) \/ WaiterTimeout(c) PROVE DeliveryInv'
<1>0. Types' BY PollTypes DEF DeliveryInv
<1>1. CASE Poll(c)
  <2>1. loop' = loop \/ (loop.at \notin Stages /\ loop'.at \notin Stages)
    BY <1>1 DEF Poll, Idle, Stages
  <2>2. QED BY <1>0, <1>1, <2>1, Bystanders DEF Poll, bullVars, trackerVars
<1>2. CASE WaiterTimeout(c)
  BY <1>0, <1>2, Bystanders DEF WaiterTimeout, bullVars, trackerVars
<1>3. QED BY <1>1, <1>2

\* A closing connection: what it takes back was dispatched to it and nobody
\* else works with the tokens of those dispatches.
LEMMA DisconnectInv ==
  ASSUME DeliveryInv, NEW c \in Conns, Disconnect(c) PROVE DeliveryInv'
<1>0. Types' BY PollTypes DEF DeliveryInv
<1>1. Shaped BY Shapes DEF DeliveryInv
<1>2. conn[c] = "up" /\ conn'[c] = "closed" /\ \A d \in Conns : d # c => conn'[d] = conn[d]
  BY DEF Disconnect, DeliveryInv, Types
<1>3. keys'[c] = {} /\ \A d \in Conns : d # c => keys'[d] = keys[d]
  BY DEF Disconnect, DeliveryInv, Types
<1>4. \A j \in Jobs : assign'[j] = IF j \in Taken(c) THEN NoAssignment ELSE assign[j]
  BY DEF Disconnect
<1>5. UNCHANGED <<job, owner, loop, runs, calls>> BY DEF Disconnect, bullVars
<1>6. \A x \in returns' : x \in returns \/ \E j \in Taken(c) : x.token = assign[j].token
  BY DEF Disconnect
<1>7. ASSUME NEW j \in Taken(c)
      PROVE  /\ j \in Jobs /\ assign[j] # NoAssignment /\ assign[j].conn = c
             /\ \E y \in runs \cup calls : y.conn = c /\ y.token = assign[j].token
  <2>1. j \in keys[c] /\ assign[j] # NoAssignment BY DEF Taken
  <2>2. j \in Jobs BY <2>1 DEF DeliveryInv, Types
  <2>3. QED BY <1>2, <2>1, <2>2 DEF DeliveryInv, IndexIsOwn
<1>8. LoopHolds' BY <1>5 DEF DeliveryInv, LoopHolds, Holds
<1>9. TokensApart'
  <2>1. \A y \in runs \cup calls \cup returns' : y.token # loop.token
    BY <1>6, <1>7 DEF DeliveryInv, TokensApart
  <2>2. \A j \in Jobs : assign'[j] # NoAssignment => assign'[j].token # loop.token
    BY <1>4 DEF DeliveryInv, TokensApart
  <2>3. QED BY <1>5, <2>1, <2>2 DEF DeliveryInv, TokensApart
<1>10. LiveHolds'
  <2>1. \A y \in runs \cup calls : conn'[y.conn] = "up" => conn[y.conn] = "up"
    BY <1>1, <1>2 DEF Shaped
  <2>2. QED BY <1>5, <2>1 DEF DeliveryInv, LiveHolds, Holds, Over
<1>11. ReturnsAreLost'
  <2>1. ASSUME NEW x \in returns', NEW y \in runs \cup calls, y.token = x.token
        PROVE  conn'[y.conn] = "closed"
    <3>1. CASE x \in returns
      <4>1. conn[y.conn] = "closed" BY <2>1, <3>1 DEF DeliveryInv, ReturnsAreLost
      <4>2. QED BY <1>1, <1>2, <4>1 DEF Shaped
    <3>2. CASE \E j \in Taken(c) : x.token = assign[j].token
      <4>1. PICK z \in runs \cup calls : z.conn = c /\ z.token = x.token BY <1>7, <3>2
      <4>2. y = z BY <2>1, <4>1 DEF DeliveryInv, TokensApart
      <4>3. QED BY <1>2, <4>1, <4>2
    <3>3. QED BY <1>6, <3>1, <3>2
  <2>2. QED BY <1>5, <2>1 DEF ReturnsAreLost
<1>12. IndexIsOwn'
  <2>1. ASSUME NEW d \in Conns, NEW j \in keys'[d], conn'[d] = "up"
        PROVE  d # c /\ conn[d] = "up" /\ j \in keys[d] /\ assign'[j] = assign[j]
    <3>1. d # c BY <1>3
    <3>2. conn[d] = "up" /\ j \in keys[d] BY <1>2, <1>3, <2>1, <3>1
    <3>3. j \in Jobs BY <3>2 DEF DeliveryInv, Types
    <3>4. assign[j].conn = d BY <3>2 DEF DeliveryInv, IndexIsOwn
    <3>5. QED BY <1>4, <1>7, <3>1, <3>2, <3>3, <3>4
  <2>2. QED BY <1>5, <2>1 DEF DeliveryInv, IndexIsOwn
<1>13. QED BY <1>0, <1>8, <1>9, <1>10, <1>11, <1>12 DEF DeliveryInv

LEMMA AbortInv ==
  ASSUME DeliveryInv, NEW r \in runs, AbortRun(r) PROVE DeliveryInv'
<1>0. Types' BY WorkTypes DEF DeliveryInv
<1>1. conn[r.conn] = "closed" /\ runs' = runs \ {r} BY DEF AbortRun
<1>2. UNCHANGED <<job, owner, loop, conn, assign, keys, calls, returns>>
  BY DEF AbortRun, bullVars, trackerVars
<1>3. LoopHolds' BY <1>2 DEF DeliveryInv, LoopHolds, Holds
<1>4. TokensApart' BY <1>1, <1>2 DEF DeliveryInv, TokensApart
<1>5. LiveHolds' BY <1>1, <1>2 DEF DeliveryInv, LiveHolds, Holds, Over
<1>6. ReturnsAreLost' BY <1>1, <1>2 DEF DeliveryInv, ReturnsAreLost
<1>7. IndexIsOwn' BY <1>1, <1>2 DEF DeliveryInv, IndexIsOwn
<1>8. QED BY <1>0, <1>3, <1>4, <1>5, <1>6, <1>7 DEF DeliveryInv

\* A run turns into a completeJob call with its token.
LEMMA DoneInv ==
  ASSUME DeliveryInv, NEW r \in runs, NEW ok \in BOOLEAN, WorkerDone(r, ok) PROVE DeliveryInv'
<1>0. Types' BY WorkTypes DEF DeliveryInv
<1>1. PICK n : n = [conn |-> r.conn, job |-> r.job, token |-> r.token, ok |-> ok, at |-> "move"]
  OBVIOUS
<1>2. n.conn = r.conn /\ n.job = r.job /\ n.token = r.token /\ n.at = "move" BY <1>1
<1>3. conn[r.conn] = "up" /\ runs' = runs \ {r} /\ calls' = calls \cup {n}
  BY <1>1 DEF WorkerDone
<1>4. UNCHANGED <<job, owner, loop, conn, assign, keys, returns>>
  BY DEF WorkerDone, bullVars, trackerVars
<1>5. LoopHolds' BY <1>4 DEF DeliveryInv, LoopHolds, Holds
<1>6. TokensApart' BY <1>2, <1>3, <1>4 DEF DeliveryInv, TokensApart
<1>7. LiveHolds' BY <1>2, <1>3, <1>4 DEF DeliveryInv, LiveHolds, Holds, Over
<1>8. ReturnsAreLost' BY <1>2, <1>3, <1>4 DEF DeliveryInv, ReturnsAreLost
<1>9. IndexIsOwn'
  <2>1. ASSUME NEW c \in Conns, NEW j \in keys[c], conn[c] = "up"
        PROVE  /\ assign[j].conn = c
               /\ \/ \E q \in runs' : q.conn = c /\ q.job = j /\ q.token = assign[j].token
                  \/ \E x \in calls' : /\ x.conn = c /\ x.job = j /\ x.token = assign[j].token
                                       /\ x.at # "release"
    BY <1>2, <1>3, <2>1 DEF DeliveryInv, IndexIsOwn
  <2>2. QED BY <1>4, <2>1 DEF IndexIsOwn
<1>10. QED BY <1>0, <1>5, <1>6, <1>7, <1>8, <1>9 DEF DeliveryInv

\* A call of completeJob moves the job only with the job's lock: then nobody
\* else works with that dispatch.
LEMMA CallInv ==
  ASSUME DeliveryInv, NEW x \in calls, CallStep(x) \/ CallFault(x) PROVE DeliveryInv'
<1>0. Types' BY WorkTypes DEF DeliveryInv
<1>1. Shaped BY Shapes DEF DeliveryInv
<1>2. x.job \in Jobs /\ x.conn \in Conns /\ x.token \in Tokens BY <1>1 DEF Shaped
<1>3. UNCHANGED <<loop, conn, runs, returns>>
  BY DEF CallStep, CallFault, CompleteMove, CompleteMoveFails, CompleteClear, CompleteRelease,
     CompleteLeaks
<1>4. ASSUME NEW at \in {"clear", "release"}, NEW n, n = [x EXCEPT !.at = at]
      PROVE  n.job = x.job /\ n.conn = x.conn /\ n.token = x.token /\ n.at = at
  BY <1>4 DEF DeliveryInv, Types, Calls
<1>5. PICK n : /\ n.job = x.job /\ n.conn = x.conn /\ n.token = x.token
               /\ \/ calls' = (calls \ {x}) \cup {n} /\ x.at = "move" /\ n.at = "clear"
                  \/ calls' = (calls \ {x}) \cup {n} /\ x.at = "clear" /\ n.at = "release"
                  \/ calls' = calls \ {x} /\ x.at = "release"
                  \/ calls' = calls \ {x} /\ x.at = "move" /\ job[x.job] = "gone"
  BY <1>4 DEF CallStep, CallFault, CompleteMove, CompleteMoveFails, CompleteClear, CompleteRelease,
     CompleteLeaks, Advance
<1>6. conn[x.conn] = "up" /\ x.at = "move" => Holds(x.job, x.token)
  BY DEF DeliveryInv, LiveHolds, Over
<1>7. \/ UNCHANGED <<job, owner>>
      \/ /\ x.at = "move" /\ Holds(x.job, x.token)
         /\ \E state \in {"gone", "backoff", "failed"} : Move(x.job, state)
  BY DEF CallStep, CallFault, CompleteMove, CompleteMoveFails, CompleteClear, CompleteRelease,
     CompleteLeaks, NoMove, bullVars
<1>8. /\ \A i \in Jobs : i # x.job => job'[i] = job[i] /\ owner'[i] = owner[i]
      /\ \/ job'[x.job] = job[x.job] /\ owner'[x.job] = owner[x.job]
         \/ /\ x.at = "move" /\ Holds(x.job, x.token)
            /\ job'[x.job] \in {"gone", "backoff", "failed"}
  BY <1>2, <1>7 DEF Move, DeliveryInv, Types
<1>9. LoopHolds'
  <2>1. loop.at \in Stages \ {"release"} /\ loop.job = x.job => ~Holds(x.job, x.token)
    BY DEF DeliveryInv, LoopHolds, TokensApart, Holds
  <2>2. loop.at \in Stages => loop.job \in Jobs BY <1>1 DEF Shaped
  <2>3. QED BY <1>3, <1>8, <2>1, <2>2 DEF DeliveryInv, LoopHolds, Holds
<1>10. \A j \in Jobs : assign'[j] # NoAssignment => assign'[j] = assign[j]
  BY DEF CallStep, CallFault, CompleteMove, CompleteMoveFails, CompleteClear, CompleteRelease,
     CompleteLeaks, DeliveryInv, Types, trackerVars
<1>11. TokensApart' BY <1>3, <1>5, <1>10 DEF DeliveryInv, TokensApart
<1>12. LiveHolds'
  <2>1. ASSUME NEW y \in runs \cup calls, y # x, Holds(y.job, y.token)
        PROVE  job'[y.job] = "active" /\ owner'[y.job] = y.token
    <3>1. y.token # x.token
      <4>1. CASE y \in runs BY <4>1 DEF DeliveryInv, TokensApart
      <4>2. CASE y \in calls BY <2>1, <4>2 DEF DeliveryInv, TokensApart
      <4>3. QED BY <4>1, <4>2
    <3>2. y.job \in Jobs BY <1>1 DEF Shaped
    <3>3. QED BY <1>8, <2>1, <3>1, <3>2 DEF Holds
  <2>2. \A r \in runs : r # x
    BY DEF DeliveryInv, TokensApart
  <2>3. \A r \in runs : conn[r.conn] = "up" => job'[r.job] = "active" /\ owner'[r.job] = r.token
    BY <2>1, <2>2 DEF DeliveryInv, LiveHolds
  <2>4. ASSUME NEW y \in calls, y # x, conn[y.conn] = "up"
        PROVE  Holds(y.job, y.token)' \/ Over(y)'
    <3>1. CASE Holds(y.job, y.token) BY <2>1, <2>4, <3>1 DEF Holds
    <3>2. CASE Over(y)
      <4>1. y.job \in Jobs BY <1>1 DEF Shaped
      <4>2. QED BY <1>8, <3>2, <4>1 DEF Over
    <3>3. QED BY <2>4, <3>1, <3>2 DEF DeliveryInv, LiveHolds
  <2>5. n \in calls' /\ conn[n.conn] = "up" /\ ~(n \in calls /\ n # x)
          => Holds(n.job, n.token)' \/ Over(n)'
    <3>1. conn[x.conn] = "up" => Holds(x.job, x.token) \/ Over(x) BY DEF DeliveryInv, LiveHolds
    <3>2. n \in calls' /\ ~(n \in calls /\ n # x) => n.at # "move"
      BY <1>5
    <3>3. QED BY <1>5, <1>8, <3>1, <3>2 DEF Holds, Over
  <2>6. QED BY <1>3, <1>5, <2>3, <2>4, <2>5 DEF LiveHolds, Holds, Over
<1>13. ReturnsAreLost' BY <1>3, <1>5 DEF DeliveryInv, ReturnsAreLost
<1>14. IndexIsOwn'
  <2>1. ASSUME NEW c \in Conns, NEW j \in keys'[c], conn[c] = "up"
        PROVE  j \in keys[c] /\ assign'[j] = assign[j] /\ (x.at = "clear" => j # x.job)
    <3>1. CASE x.at # "clear"
      BY <2>1, <3>1 DEF CallStep, CallFault, CompleteMove, CompleteMoveFails, CompleteClear, CompleteRelease,
     CompleteLeaks, trackerVars
    <3>2. CASE x.at = "clear"
      <4>1. CompleteClear(x)
        BY <3>2 DEF CallStep, CallFault, CompleteMove, CompleteMoveFails, CompleteRelease,
           CompleteLeaks
      <4>2. j \in keys[c] /\ j \in Jobs BY <2>1, <4>1 DEF CompleteClear, DeliveryInv, Types
      <4>3. assign[j].conn = c BY <2>1, <4>2 DEF DeliveryInv, IndexIsOwn
      <4>4. c # None BY ConnsAssumption
      <4>5. j # x.job BY <2>1, <4>1, <4>3, <4>4 DEF CompleteClear, DeliveryInv, Types
      <4>6. QED BY <4>1, <4>2, <4>5 DEF CompleteClear, DeliveryInv, Types
    <3>3. QED BY <3>1, <3>2
  <2>2. ASSUME NEW c \in Conns, NEW j \in keys'[c], conn[c] = "up"
        PROVE  /\ assign[j].conn = c
               /\ \/ \E r \in runs : r.conn = c /\ r.job = j /\ r.token = assign[j].token
                  \/ \E y \in calls' : /\ y.conn = c /\ y.job = j /\ y.token = assign[j].token
                                       /\ y.at # "release"
    <3>1. /\ assign[j].conn = c
          /\ \/ \E r \in runs : r.conn = c /\ r.job = j /\ r.token = assign[j].token
             \/ \E y \in calls : /\ y.conn = c /\ y.job = j /\ y.token = assign[j].token
                                 /\ y.at # "release"
      BY <2>1, <2>2 DEF DeliveryInv, IndexIsOwn
    <3>2. ASSUME x.conn = c, x.job = j, x.at # "release"
          PROVE  n \in calls' /\ n.at # "release"
      BY <1>5, <1>6, <2>1, <2>2, <3>2 DEF Holds
    <3>3. QED BY <1>5, <3>1, <3>2
  <2>3. QED BY <1>3, <2>1, <2>2 DEF IndexIsOwn
<1>15. QED BY <1>0, <1>9, <1>11, <1>12, <1>13, <1>14 DEF DeliveryInv

\* returnJobToQueue moves the job only with the lock of the lost dispatch.
LEMMA ReturnInv ==
  ASSUME DeliveryInv, NEW x \in returns, ReturnStep(x) \/ ReturnLeaks(x) PROVE DeliveryInv'
<1>0. Types' BY WorkTypes DEF DeliveryInv
<1>1. Shaped BY Shapes DEF DeliveryInv
<1>2. x.job \in Jobs /\ x.token \in Tokens BY <1>1 DEF Shaped
<1>3. UNCHANGED <<loop, conn, assign, keys, runs, calls>>
  BY DEF ReturnStep, ReturnMove, ReturnRelease, ReturnLeaks, trackerVars
<1>4. PICK n : n = [x EXCEPT !.at = "release"] OBVIOUS
<1>5. n.token = x.token BY <1>4 DEF DeliveryInv, Types, Returns
<1>6. returns' \subseteq returns \cup {n}
  BY <1>4 DEF ReturnStep, ReturnMove, ReturnRelease, ReturnLeaks, Advance
<1>7. /\ \A i \in Jobs : i # x.job => job'[i] = job[i] /\ owner'[i] = owner[i]
      /\ \/ job'[x.job] = job[x.job] /\ owner'[x.job] = owner[x.job]
         \/ Holds(x.job, x.token)
  BY <1>2 DEF ReturnStep, ReturnMove, ReturnRelease, ReturnLeaks, Move, NoMove, DeliveryInv,
     Types, bullVars
<1>8. LoopHolds'
  <2>1. loop.at \in Stages \ {"release"} /\ loop.job = x.job => ~Holds(x.job, x.token)
    BY DEF DeliveryInv, LoopHolds, TokensApart, Holds
  <2>2. loop.at \in Stages => loop.job \in Jobs BY <1>1 DEF Shaped
  <2>3. QED BY <1>3, <1>7, <2>1, <2>2 DEF DeliveryInv, LoopHolds, Holds
<1>9. TokensApart' BY <1>3, <1>5, <1>6 DEF DeliveryInv, TokensApart
<1>10. LiveHolds'
  <2>1. ASSUME NEW y \in runs \cup calls, conn[y.conn] = "up", Holds(y.job, y.token)
        PROVE  job'[y.job] = "active" /\ owner'[y.job] = y.token
    <3>1. y.token # x.token BY <2>1 DEF DeliveryInv, ReturnsAreLost
    <3>2. y.job \in Jobs BY <1>1 DEF Shaped
    <3>3. QED BY <1>7, <2>1, <3>1, <3>2 DEF Holds
  <2>2. \A r \in runs : conn[r.conn] = "up" => job'[r.job] = "active" /\ owner'[r.job] = r.token
    BY <2>1 DEF DeliveryInv, LiveHolds
  <2>3. \A y \in calls : Over(y) => job'[y.job] \in {"backoff", "failed", "gone"}
    BY <1>1, <1>7 DEF Over, Shaped, Holds
  <2>4. QED BY <1>3, <2>1, <2>2, <2>3 DEF DeliveryInv, LiveHolds, Holds, Over
<1>11. ReturnsAreLost' BY <1>3, <1>5, <1>6 DEF DeliveryInv, ReturnsAreLost
<1>12. IndexIsOwn' BY <1>3 DEF DeliveryInv, IndexIsOwn
<1>13. QED BY <1>0, <1>8, <1>9, <1>10, <1>11, <1>12 DEF DeliveryInv

\* No lock lapses while somebody works with it; nobody holds what the stalled
\* scan takes back.
LEMMA RecoveryInv ==
  ASSUME MaxLapses = 0, DeliveryInv, NEW j \in Jobs,
         LockLapses(j) \/ StalledScan(j) \/ BackoffEnds(j) \/ \E p \in Pools : SlotExpires(p, j)
  PROVE  DeliveryInv'
<1>0. Types' BY RecoveryTypes DEF DeliveryInv
<1>1. Shaped BY Shapes DEF DeliveryInv
<1>2. CASE LockLapses(j)
  <2>1. ~Handled(j)
    <3>1. faults.lapses \in 0..MaxLapses BY DEF DeliveryInv, Types, Faults
    <3>2. QED BY <1>2, <3>1 DEF LockLapses
  <2>2. \A i \in Jobs : i # j => owner'[i] = owner[i]
    BY <1>2 DEF LockLapses, DeliveryInv, Types
  <2>3. UNCHANGED <<job, loop, conn, assign, keys, runs, calls, returns>>
    BY <1>2 DEF LockLapses, trackerVars
  <2>4. LoopHolds'
    <3>1. loop.at \in Stages \ {"release"} => loop.job # j
      BY <2>1 DEF DeliveryInv, LoopHolds, Holds, Handled
    <3>2. QED BY <1>1, <2>2, <2>3, <3>1 DEF DeliveryInv, LoopHolds, Holds, Shaped
  <2>5. TokensApart' BY <2>3 DEF DeliveryInv, TokensApart
  <2>6. LiveHolds'
    <3>1. \A r \in runs : conn[r.conn] = "up" => r.job # j
      BY <2>1 DEF DeliveryInv, LiveHolds, Holds, Handled
    <3>2. \A x \in calls : Holds(x.job, x.token) => x.job # j
      BY <2>1 DEF Holds, Handled
    <3>3. QED BY <1>1, <2>2, <2>3, <3>1, <3>2 DEF DeliveryInv, LiveHolds, Holds, Over, Shaped
  <2>7. ReturnsAreLost' /\ IndexIsOwn' BY <2>3 DEF DeliveryInv, ReturnsAreLost, IndexIsOwn
  <2>8. QED BY <1>0, <2>4, <2>5, <2>6, <2>7 DEF DeliveryInv
<1>3. CASE StalledScan(j) \/ BackoffEnds(j)
  <2>1. /\ \A i \in Jobs : i # j => job'[i] = job[i]
        /\ UNCHANGED <<owner, loop, conn, assign, keys, runs, calls, returns>>
        /\ \/ job[j] = "active" /\ owner[j] = 0
           \/ job[j] = "backoff" /\ \A x \in calls : x.job = j => x.at = "move"
    BY <1>3 DEF StalledScan, BackoffEnds, DeliveryInv, Types, trackerVars
  <2>2. QED BY <1>0, <2>1, SameTokens
<1>4. ASSUME NEW p \in Pools, SlotExpires(p, j) PROVE DeliveryInv'
  BY <1>0, <1>4, Bystanders DEF SlotExpires, bullVars, trackerVars
<1>5. QED BY <1>2, <1>3, <1>4

LEMMA NextDeliveryInv ==
  ASSUME MaxLapses = 0 PROVE DeliveryInv /\ [Next]_vars => DeliveryInv'
<1> SUFFICES ASSUME DeliveryInv, [Next]_vars PROVE DeliveryInv'
  OBVIOUS
<1>1. CASE UNCHANGED vars
  <2>1. Types' BY NextTypes DEF DeliveryInv
  <2>2. QED BY <1>1, <2>1, Bystanders DEF vars
<1>2. QED
  BY <1>1, PollInv, DisconnectInv, LoopInv, AbortInv, DoneInv, CallInv, ReturnInv, RecoveryInv
     DEF Next

\* At most one connected worker executes a job, for any number of jobs, closing
\* connections, time-outs and dequeues that throw, as long as no lock lapses
\* under a worker that still extends it: every other way of queueing the job
\* again needs the token of the dispatch or waits until nobody works with it.
THEOREM OneLiveRunHolds == ASSUME MaxLapses = 0 PROVE Spec => []OneLiveRun
<1>1. DeliveryInv => OneLiveRun
  <2> SUFFICES ASSUME DeliveryInv, NEW j \in Jobs PROVE Cardinality(LiveRuns(j)) <= 1
    BY DEF OneLiveRun
  <2>1. \A r, q \in LiveRuns(j) : r = q
    BY DEF LiveRuns, DeliveryInv, LiveHolds, TokensApart, Holds
  <2>2. CASE LiveRuns(j) = {} BY <2>2, FS_EmptySet
  <2>3. ASSUME NEW r \in LiveRuns(j) PROVE Cardinality(LiveRuns(j)) <= 1
    <3>1. LiveRuns(j) = {r} BY <2>1
    <3>2. Cardinality({r}) = 1 BY FS_Singleton
    <3>3. QED BY <3>1, <3>2
  <2>4. QED BY <2>2, <2>3
<1>2. QED BY <1>1, InitDeliveryInv, NextDeliveryInv, PTL DEF Spec

\* takeByConnection of a closing connection finds only jobs that were dispatched
\* to it and to nobody since, under the same condition.
THEOREM ReclaimsOnlyItsOwnHolds == ASSUME MaxLapses = 0 PROVE Spec => ReclaimsOnlyItsOwn
<1>1. ASSUME DeliveryInv, NEW c \in Conns, conn[c] = "up", NEW j \in Taken(c)
      PROVE  assign[j].conn = c
  BY <1>1 DEF Taken, DeliveryInv, IndexIsOwn
<1>2. DeliveryInv /\ [Next]_vars =>
        [\A c \in Conns : conn[c] = "up" /\ conn'[c] = "closed"
            => \A j \in Taken(c) : assign[j].conn = c]_vars
  BY <1>1
<1>3. QED BY <1>2, InitDeliveryInv, NextDeliveryInv, PTL DEF Spec, ReclaimsOnlyItsOwn

-----------------------------------------------------------------------------
(***************************************************************************)
(* Slots.                                                                  *)
(***************************************************************************)

\* Giving slots back never fills a pool; a member or a free slot is needed to
\* enter one.
LEMMA SlotsShrink ==
  ASSUME Types, SlotsBounded, \A p \in Pools : slots'[p] \subseteq slots[p]
  PROVE  SlotsBounded'
<1> SUFFICES ASSUME NEW p \in Pools PROVE Cardinality(slots'[p]) <= Capacity[p]
  BY DEF SlotsBounded
<1>1. slots[p] \subseteq Jobs /\ IsFiniteSet(Jobs) BY JobsAssumption DEF Types
<1>2. IsFiniteSet(slots[p]) BY <1>1, FS_Subset
<1>3. IsFiniteSet(slots'[p]) /\ Cardinality(slots'[p]) <= Cardinality(slots[p])
  BY <1>2, FS_Subset
<1>4. Cardinality(slots[p]) <= Capacity[p] BY DEF SlotsBounded
<1>5. /\ Cardinality(slots[p]) \in Nat /\ Cardinality(slots'[p]) \in Nat /\ Capacity[p] \in Nat
  BY <1>2, <1>3, FS_CardinalityType, CapacityAssumption
<1>6. QED BY <1>3, <1>4, <1>5

LEMMA SlotsGrow ==
  ASSUME Types, SlotsBounded, NEW p \in Pools, NEW j \in Jobs,
         j \in slots[p] \/ Cardinality(slots[p]) < Capacity[p],
         slots' = [slots EXCEPT ![p] = @ \cup {j}]
  PROVE  SlotsBounded'
<1>1. slots'[p] = slots[p] \cup {j} /\ \A q \in Pools : q # p => slots'[q] = slots[q]
  BY DEF Types
<1>2. slots[p] \subseteq Jobs /\ IsFiniteSet(Jobs) BY JobsAssumption DEF Types
<1>3. IsFiniteSet(slots[p]) BY <1>2, FS_Subset
<1>4. Cardinality(slots[p]) \in Nat /\ Capacity[p] \in Nat
  BY <1>3, FS_CardinalityType, CapacityAssumption
<1>5. Cardinality(slots[p] \cup {j}) =
        IF j \in slots[p] THEN Cardinality(slots[p]) ELSE Cardinality(slots[p]) + 1
  BY <1>3, FS_AddElement
<1>6. Cardinality(slots'[p]) <= Capacity[p]
  <2>1. Cardinality(slots[p]) <= Capacity[p] BY DEF SlotsBounded
  <2>2. Cardinality(slots'[p]) = Cardinality(slots[p] \cup {j}) BY <1>1
  <2>3. CASE j \in slots[p]
    <3>1. Cardinality(slots'[p]) = Cardinality(slots[p]) BY <1>5, <2>2, <2>3
    <3>2. QED BY <2>1, <3>1
  <2>4. CASE j \notin slots[p]
    <3>1. Cardinality(slots'[p]) = Cardinality(slots[p]) + 1 BY <1>5, <2>2, <2>4
    <3>2. Cardinality(slots[p]) < Capacity[p] BY <2>4
    <3>3. QED BY <1>4, <3>1, <3>2
  <2>5. QED BY <2>3, <2>4
<1>7. QED BY <1>1, <1>6 DEF SlotsBounded

\* The jobs that lose slots in a step, and the pool that gains one.
LEMMA FreeShrinks ==
  ASSUME NEW S, NEW j, Free(S, j)
  PROVE  \A p \in Pools : /\ slots'[p] \subseteq slots[p]
                          /\ \A i \in slots[p] : i # j => i \in slots'[p]
  BY DEF Free, Without

LEMMA InitSlotsBounded == Init => SlotsBounded
  BY FS_EmptySet, CapacityAssumption DEF Init, SlotsBounded

\* Which slots a step takes or gives back: one slot when there is room, or those
\* of one job.
SlotStep ==
  \/ UNCHANGED slots
  \/ \E p \in Pools, j \in Jobs :
       /\ j \in slots[p] \/ Cardinality(slots[p]) < Capacity[p]
       /\ slots' = [slots EXCEPT ![p] = @ \cup {j}]
  \/ \E j : \A p \in Pools : /\ slots'[p] \subseteq slots[p]
                             /\ \A i \in slots[p] : i # j => i \in slots'[p]

LEMMA SlotSteps == ASSUME Types, [Next]_vars PROVE SlotStep
<1>1. ASSUME NEW S, NEW j, Free(S, j) PROVE SlotStep
  BY <1>1, FreeShrinks DEF SlotStep
<1>2. ASSUME NEW p \in Pools, AcquireSlot(p) PROVE SlotStep
  <2>1. loop.job \in Jobs
    BY <1>2, Shapes DEF AcquireSlot, Shaped, Pools, Stages
  <2>2. CASE HasRoom(p)
    BY <1>2, <2>1, <2>2 DEF AcquireSlot, SlotStep, HasRoom
  <2>3. CASE ~HasRoom(p)
    BY <1>1, <1>2, <2>3 DEF AcquireSlot
  <2>4. QED BY <2>2, <2>3
<1>3. ASSUME NEW p \in Pools, NEW j \in Jobs, SlotExpires(p, j) PROVE SlotStep
  BY <1>1, <1>3 DEF SlotExpires
<1>4. CASE RejectAtGate \/ ReleaseOrphan BY <1>1, <1>4 DEF RejectAtGate, ReleaseOrphan
<1>5. ASSUME NEW j, LeakSlots(j) PROVE SlotStep BY <1>1, <1>5 DEF LeakSlots
<1> USE DEF slotVars
<1>6. CASE UNCHANGED slots BY <1>6 DEF SlotStep
<1>7. ASSUME NEW x \in calls, CallStep(x) \/ CallFault(x) PROVE SlotStep
  BY <1>1, <1>5, <1>6, <1>7 DEF CallStep, CompleteMove, CompleteClear, CompleteRelease, CallFault,
     CompleteMoveFails, CompleteLeaks
<1>8. ASSUME NEW x \in returns, ReturnStep(x) \/ ReturnLeaks(x) PROVE SlotStep
  BY <1>1, <1>5, <1>6, <1>8 DEF ReturnStep, ReturnMove, ReturnRelease, ReturnLeaks
<1>9. ASSUME LoopStep \/ PassGate \/ LoopFault PROVE SlotStep
  BY <1>2, <1>4, <1>5, <1>6, <1>9 DEF LoopStep, NothingQueued, TakeBadJob, TakeJob,
     CheckSuspension, HandOver, NoWaiterLeft, ReturnOrphan, PassGate, LoopFault, DequeueError,
     AllowUnchecked, OrphanLeaks, RejectLeaks
<1>10. ASSUME NEW c \in Conns, Poll(c) \/ WaiterTimeout(c) \/ Disconnect(c) PROVE SlotStep
  BY <1>6, <1>10 DEF Poll, WaiterTimeout, Disconnect
<1>11. ASSUME NEW r \in runs, AbortRun(r) \/ \E ok \in BOOLEAN : WorkerDone(r, ok)
       PROVE  SlotStep
  BY <1>6, <1>11 DEF AbortRun, WorkerDone
<1>12. ASSUME NEW j \in Jobs, LockLapses(j) \/ StalledScan(j) \/ BackoffEnds(j)
       PROVE  SlotStep
  BY <1>6, <1>12 DEF LockLapses, StalledScan, BackoffEnds
<1>13. CASE UNCHANGED vars BY <1>6, <1>13 DEF vars
<1>14. QED BY <1>3, <1>7, <1>8, <1>9, <1>10, <1>11, <1>12, <1>13 DEF Next

\* The acquire script keeps every pool within its limit, for any faults and any
\* number of leaked, lost or twice released slots.
THEOREM PoolsBounded == Spec => []SlotsBounded
<1>1. Types /\ SlotsBounded /\ [Next]_vars => SlotsBounded'
  <2> SUFFICES ASSUME Types, SlotsBounded, [Next]_vars PROVE SlotsBounded'
    OBVIOUS
  <2>1. SlotStep BY SlotSteps
  <2>2. CASE UNCHANGED slots BY <2>2 DEF SlotsBounded
  <2>3. QED BY <2>1, <2>2, SlotsShrink, SlotsGrow DEF SlotStep
<1>2. QED BY <1>1, InitTypes, NextTypes, InitSlotsBounded, PTL DEF Spec

\* What a step does not touch of a job.
Untouched(j) ==
  /\ job'[j] = job[j]
  /\ loop' = loop \/ (loop.job # j /\ loop'.job # j)
  /\ \A r \in runs \cup runs' : r.job = j => r \in runs /\ r \in runs'
  /\ \A x \in calls \cup calls' : x.job = j => x \in calls /\ x \in calls'
  /\ \A p \in Pools : j \in slots'[p] <=> j \in slots[p]
  /\ \A p \in Pools : j \in inherited'[p] => j \in inherited[p]

LEMMA UntouchedOrderly ==
  ASSUME NEW j \in Jobs, Orderly(j), Untouched(j) PROVE Orderly(j)'
<1> USE DEF Untouched
<1>1. Elsewhere(j) <=> Elsewhere(j)' BY DEF Elsewhere
<1>2. NoSlot(j) <=> NoSlot(j)' BY DEF NoSlot
<1>3. Queued(j)' BY <1>1, <1>2 DEF Orderly, Queued, InLoop
<1>4. InLoop(j)' BY <1>1 DEF Orderly, InLoop
<1>5. Executing(j)' BY DEF Orderly, Executing
<1>6. Completing(j)' BY DEF Orderly, Completing
<1>7. Retrying(j)' BY <1>2 DEF Orderly, Retrying
<1>8. NotInherited(j)' BY DEF Orderly, NotInherited
<1>9. QED BY <1>3, <1>4, <1>5, <1>6, <1>7, <1>8 DEF Orderly

\* Slots of another job are given back.
LEMMA FreeOthers ==
  ASSUME NEW S, NEW j, NEW i, i # j, Free(S, j)
  PROVE  \A p \in Pools : /\ i \in slots'[p] <=> i \in slots[p]
                          /\ i \in inherited'[p] => i \in inherited[p]
  BY DEF Free, Without

LEMMA FreeOwn ==
  ASSUME NEW S, NEW j, Free(S, j)
  PROVE  \A p \in Pools : /\ p \in S => j \notin slots'[p]
                          /\ p \notin S => (j \in slots'[p] <=> j \in slots[p])
                          /\ j \in inherited'[p] => j \in inherited[p]
  BY DEF Free, Without

\* A job that nobody works with any more.
LEMMA IdleOrderly ==
  ASSUME NEW j \in Jobs, Elsewhere(j)', loop'.job # j, NotInherited(j)',
         job'[j] \in {"waiting", "backoff"} => NoSlot(j)'
  PROVE  Orderly(j)'
<1>1. Queued(j)' /\ InLoop(j)' BY DEF Queued, InLoop
<1>2. Executing(j)' /\ Completing(j)' BY DEF Executing, Completing, Elsewhere
<1>3. Retrying(j)' BY DEF Retrying, Elsewhere
<1>4. QED BY <1>1, <1>2, <1>3 DEF Orderly

\* A job in the loop's hands.
LEMMA BusyOrderly ==
  ASSUME NEW j \in Jobs, InLoop(j)', loop'.job = j, NotInherited(j)' PROVE Orderly(j)'
<1>1. Elsewhere(j)' /\ job'[j] \in {"waiting", "active"} BY DEF InLoop
<1>2. Queued(j)' BY <1>1 DEF Queued
<1>3. Executing(j)' /\ Completing(j)' BY <1>1 DEF Executing, Completing, Elsewhere
<1>4. Retrying(j)' BY <1>1 DEF Retrying
<1>5. QED BY <1>2, <1>3, <1>4 DEF Orderly

LEMMA LoopOrderly ==
  ASSUME Types, NEW i \in Jobs, i \notin disturbed', Orderly(i),
         LoopStep \/ PassGate \/ LoopFault
  PROVE  Orderly(i)'
<1>0. Shaped BY Shapes
<1>a. None # i BY JobsAssumption
<1>b. \A ws : NextRound(ws) => loop'.job = None BY DEF NextRound, Idle
<1>c. \A state : LoopMove(state) => loop'.job = None BY <1>b DEF LoopMove, Idle
<1>d. job \in [Jobs -> JobStates] /\ slots \in [Pools -> SUBSET Jobs]
      /\ inherited \in [Pools -> SUBSET Jobs]
  BY DEF Types
<1>e. \A at : loop.at \in Stages /\ loop' = [loop EXCEPT !.at = at]
                => loop'.at = at /\ loop'.job = loop.job
  <2>1. loop.at \in Stages => loop \in Busy BY DEF Types, IdleLoop, Stages
  <2>2. QED BY <2>1 DEF Busy
<1>f. NotInherited(i) BY DEF Orderly
<1> USE DEF bullVars, slotVars
\* The loop drops a job with the slots it had.
<1>1. ASSUME UNCHANGED <<slots, inherited, job, runs, calls>>, loop'.job = None,
             loop.job = i => loop.at # "release"
      PROVE  Orderly(i)'
  <2>1. CASE loop.job # i BY <1>a, <1>1, <2>1, UntouchedOrderly DEF Untouched
  <2>2. CASE loop.job = i
    <3>1. job[i] = "active" /\ Elsewhere(i) BY <1>1, <2>2 DEF Orderly, InLoop
    <3>2. QED BY <1>a, <1>f, <1>1, <3>1, IdleOrderly DEF Elsewhere, NotInherited
  <2>3. QED BY <2>1, <2>2
\* The loop queues its job again, without its slots.
<1>2. ASSUME NEW S, Free(S, loop.job), LoopMove("waiting"), UNCHANGED <<runs, calls>>,
             loop.at \in Stages \ {"release"}, Reserved(loop.at) \subseteq S
      PROVE  Orderly(i)'
  <2>1. CASE loop.job # i
    <3>1. job'[i] = job[i] BY <1>d, <1>2, <2>1 DEF LoopMove, Move, NoMove
    <3>2. QED BY <1>a, <1>c, <1>2, <2>1, <3>1, UntouchedOrderly, FreeOthers DEF Untouched
  <2>2. CASE loop.job = i
    <3>1. Elsewhere(i)' BY <1>2, <2>2 DEF Orderly, InLoop, Elsewhere
    <3>2. NoSlot(i)' BY <1>2, <2>2, FreeOwn DEF Orderly, InLoop, NoSlot
    <3>3. NotInherited(i)' BY <1>f, <1>2, <2>2, FreeOwn DEF NotInherited
    <3>4. QED BY <1>a, <1>c, <1>2, <3>1, <3>2, <3>3, IdleOrderly
  <2>3. QED BY <2>1, <2>2
\* The loop takes its job one stage further.
<1>3. ASSUME NEW at \in Stages \ {"release"}, loop.at \in Stages \ {"release"},
             loop' = [loop EXCEPT !.at = at], UNCHANGED <<job, runs, calls>>,
             \A p \in Pools : \A j \in Jobs : j # loop.job =>
                /\ j \in slots'[p] <=> j \in slots[p]
                /\ j \in inherited'[p] <=> j \in inherited[p],
             \A p \in Pools : loop.job = i =>
                /\ i \in slots'[p] <=> i \in slots[p] \/ (loop.at = p /\ p \in Reserved(at))
                /\ i \notin inherited'[p],
             \A p \in Pools : p \in Reserved(at) <=> p \in Reserved(loop.at) \/ loop.at = p
      PROVE  Orderly(i)'
  <2>1. loop'.at = at /\ loop'.job = loop.job BY <1>e, <1>3
  <2>2. CASE loop.job # i BY <1>3, <2>1, <2>2, UntouchedOrderly DEF Untouched
  <2>3. CASE loop.job = i
    <3>1. /\ Elsewhere(i) /\ job[i] = "active"
          /\ \A p \in Pools : i \in slots[p] <=> p \in Reserved(loop.at)
      BY <1>3, <2>3 DEF Orderly, InLoop
    <3>2. \A p \in Pools : i \in slots'[p] <=> p \in Reserved(at) BY <1>3, <2>3, <3>1
    <3>3. Elsewhere(i)' BY <1>3, <3>1 DEF Elsewhere
    <3>4. InLoop(i)' BY <1>3, <2>1, <3>1, <3>2, <3>3 DEF InLoop
    <3>5. NotInherited(i)' BY <1>3, <2>3 DEF NotInherited
    <3>6. QED BY <2>1, <2>3, <3>4, <3>5, BusyOrderly
  <2>4. QED BY <2>2, <2>3
<1>4. CASE NothingQueued
  <2>1. loop.job = None BY <1>4 DEF NothingQueued, Types, IdleLoop, Busy, Stages
  <2>2. QED BY <1>a, <1>b, <1>1, <1>4, <2>1 DEF NothingQueued
<1>5. ASSUME NEW j \in Jobs, TakeBadJob(j) PROVE Orderly(i)'
  <2>1. CASE i # j
    <3>1. job'[i] = job[i] BY <1>d, <1>5, <2>1 DEF TakeBadJob
    <3>2. QED BY <1>5, <3>1, UntouchedOrderly DEF TakeBadJob, Untouched
  <2>2. CASE i = j
    <3>1. job'[i] = "failed" /\ job[i] = "waiting" BY <1>d, <1>5, <2>2 DEF TakeBadJob
    <3>2. loop.job = None BY <1>5 DEF TakeBadJob, Types, IdleLoop, Busy, Stages
    <3>3. Elsewhere(i)' BY <1>5, <3>1 DEF TakeBadJob, Orderly, Queued, Elsewhere
    <3>4. QED BY <1>a, <1>f, <1>5, <3>1, <3>2, <3>3, IdleOrderly DEF TakeBadJob, NotInherited
  <2>3. QED BY <2>1, <2>2
<1>6. ASSUME NEW j \in Jobs, NEW t \in Tokens, TakeJob(j, t) PROVE Orderly(i)'
  <2>1. loop.job = None BY <1>6 DEF TakeJob, Types, IdleLoop, Busy, Stages
  <2>2. loop'.job = j /\ loop'.at = "suspension" BY <1>6 DEF TakeJob
  <2>3. CASE i # j
    <3>1. job'[i] = job[i] BY <1>d, <1>6, <2>3 DEF TakeJob
    <3>2. QED BY <1>a, <1>6, <2>1, <2>2, <2>3, <3>1, UntouchedOrderly DEF TakeJob, Untouched
  <2>4. CASE i = j
    <3>1. job'[i] = "active" /\ job[i] = "waiting" BY <1>d, <1>6, <2>4 DEF TakeJob
    <3>2. Elsewhere(i) /\ NoSlot(i) BY <1>a, <2>1, <3>1 DEF Orderly, Queued
    <3>3. InLoop(i)'
      BY <1>6, <2>2, <3>1, <3>2 DEF TakeJob, InLoop, Elsewhere, NoSlot, Reserved
    <3>4. NotInherited(i)' BY <1>f, <1>6 DEF TakeJob, NotInherited
    <3>5. QED BY <2>2, <2>4, <3>3, <3>4, BusyOrderly
  <2>5. QED BY <2>3, <2>4
<1>7. CASE CheckSuspension
  <2>1. loop.at = "suspension" /\ UNCHANGED <<slots, inherited, runs, calls>>
    BY <1>7 DEF CheckSuspension
  <2>2. CASE LoopMove("gone")
    <3>1. CASE loop.job # i
      <4>1. job'[i] = job[i] BY <1>d, <2>2, <3>1 DEF LoopMove, Move, NoMove
      <4>2. QED BY <1>a, <1>c, <2>1, <2>2, <3>1, <4>1, UntouchedOrderly DEF Untouched
    <3>2. CASE loop.job = i
      <4>1. job[i] = "active" /\ Elsewhere(i) BY <2>1, <3>2 DEF Orderly, InLoop
      <4>2. job'[i] \in {"gone", "active"} BY <1>d, <2>2, <3>2, <4>1 DEF LoopMove, Move, NoMove
      <4>3. QED
        BY <1>a, <1>c, <1>f, <2>1, <2>2, <4>1, <4>2, IdleOrderly DEF Elsewhere, NotInherited
    <3>3. QED BY <3>1, <3>2
  <2>3. CASE loop' = [loop EXCEPT !.at = "project"] /\ NoMove
    <3>1. Reserved("suspension") = {} /\ Reserved("project") = {} BY DEF Reserved
    <3>2. "suspension" \notin Pools BY DEF Pools
    <3>3. \A p \in Pools : p \in Reserved("project") <=> p \in Reserved(loop.at) \/ loop.at = p
      BY <2>1, <3>1, <3>2
    <3>4. \A p \in Pools : loop.job = i =>
            /\ i \in slots'[p] <=> i \in slots[p] \/ (loop.at = p /\ p \in Reserved("project"))
            /\ i \notin inherited'[p]
      BY <1>f, <2>1, <3>1 DEF NotInherited
    <3>5. QED BY <1>3, <2>1, <2>3, <3>3, <3>4 DEF NoMove, Stages
  <2>4. QED BY <1>7, <2>2, <2>3 DEF CheckSuspension
<1>8. ASSUME NEW p \in Pools, AcquireSlot(p) PROVE Orderly(i)'
  <2>1. loop.at = p /\ UNCHANGED <<runs, calls>> BY <1>8 DEF AcquireSlot
  <2>2. p \in Stages \ {"release"} /\ After(p) \in Stages \ {"release"}
    BY DEF Pools, Stages, After
  <2>3. \A q \in Pools : q \in Reserved(After(p)) <=> q \in Reserved(p) \/ q = p
    BY DEF Reserved, After, Before, Pools
  <2>4. p \notin Reserved(p) /\ Reserved(p) \subseteq Before(p) BY DEF Reserved, Before, Pools
  <2>5. CASE HasRoom(p)
    <3>1. /\ slots' = [slots EXCEPT ![p] = @ \cup {loop.job}] /\ Inherit(p) /\ NoMove
          /\ loop' = [loop EXCEPT !.at = After(p)]
      BY <1>8, <2>5 DEF AcquireSlot
    <3>2. \A q \in Pools : \A j \in Jobs : j # loop.job =>
            /\ j \in slots'[q] <=> j \in slots[q]
            /\ j \in inherited'[q] <=> j \in inherited[q]
      BY <1>d, <3>1 DEF Inherit
    <3>3. ASSUME loop.job = i, NEW q \in Pools
          PROVE  /\ i \in slots'[q] <=> i \in slots[q] \/ (p = q /\ q \in Reserved(After(p)))
                 /\ i \notin inherited'[q]
      <4>1. i \notin slots[p] BY <2>1, <2>2, <2>4, <3>3 DEF Orderly, InLoop
      <4>2. inherited' = [inherited EXCEPT ![p] = @] BY <3>1, <3>3, <4>1 DEF Inherit
      <4>3. i \notin inherited'[q] BY <1>d, <1>f, <4>2 DEF NotInherited
      <4>4. i \in slots'[q] <=> i \in slots[q] \/ p = q BY <1>d, <3>1, <3>3
      <4>5. QED BY <2>3, <4>3, <4>4
    <3>4. QED BY <1>3, <2>1, <2>2, <2>3, <3>1, <3>2, <3>3 DEF NoMove
  <2>6. CASE ~HasRoom(p)
    <3>1. Free(Before(p), loop.job) /\ LoopMove("waiting") BY <1>8, <2>6 DEF AcquireSlot
    <3>2. QED BY <1>2, <2>1, <2>2, <2>4, <3>1
  <2>7. QED BY <2>5, <2>6
<1>9. CASE PassGate \/ NoWaiterLeft
  <2>1. UNCHANGED <<job, runs, calls, slots, inherited>> BY <1>9 DEF PassGate, NoWaiterLeft
  <2>2. PICK at \in {"hand", "return"} :
          loop' = [loop EXCEPT !.at = at] /\ loop.at \in {"gate", "hand"}
    BY <1>9 DEF PassGate, NoWaiterLeft, After
  <2>3. Reserved(at) = Pools /\ Reserved(loop.at) = Pools BY <2>2 DEF Reserved
  <2>4. at \in Stages \ {"release"} /\ loop.at \in Stages \ {"release"} /\ loop.at \notin Pools
    BY <2>2 DEF Stages, Pools
  <2>5. \A p \in Pools : loop.job = i =>
            /\ i \in slots'[p] <=> i \in slots[p] \/ (loop.at = p /\ p \in Reserved(at))
            /\ i \notin inherited'[p]
    BY <1>f, <2>1, <2>4 DEF NotInherited
  <2>6. QED BY <1>3, <2>1, <2>2, <2>3, <2>4, <2>5
<1>10. CASE RejectAtGate
  <2>1. Reserved("gate") = Before("gate") BY DEF Reserved, Before
  <2>2. QED BY <1>2, <1>10, <2>1 DEF RejectAtGate, Stages
<1>11. CASE HandOver
  <2>1. loop.at = "hand" /\ loop'.job = None /\ UNCHANGED <<job, slots, inherited, calls>>
    BY <1>b, <1>11 DEF HandOver
  <2>2. PICK n : n.job = loop.job /\ runs' \in {runs, runs \cup {n}}
    <3>1. PICK n : n = [conn |-> Head(waiters), job |-> loop.job, token |-> loop.token] OBVIOUS
    <3>2. n.job = loop.job BY <3>1
    <3>3. runs' \in {runs, runs \cup {n}} BY <1>11, <3>1 DEF HandOver
    <3>4. QED BY <3>2, <3>3
  <2>3. CASE loop.job # i
    <3>1. \A r \in runs \cup runs' : r.job = i => r \in runs /\ r \in runs' BY <2>2, <2>3
    <3>2. QED BY <1>a, <2>1, <2>3, <3>1, UntouchedOrderly DEF Untouched
  <2>4. CASE loop.job = i
    <3>1. Reserved("hand") = Pools BY DEF Reserved
    <3>2. Elsewhere(i) /\ job[i] = "active" /\ \A p \in Pools : i \in slots[p]
      BY <2>1, <2>4, <3>1 DEF Orderly, InLoop
    <3>3. Executing(i)' BY <2>1, <2>2, <3>2 DEF Executing, Elsewhere
    <3>4. Queued(i)' /\ InLoop(i)' /\ Completing(i)' /\ Retrying(i)'
      BY <1>a, <2>1, <3>2 DEF Queued, InLoop, Completing, Retrying, Elsewhere
    <3>5. NotInherited(i)' BY <1>f, <2>1 DEF NotInherited
    <3>6. QED BY <3>3, <3>4, <3>5 DEF Orderly
  <2>5. QED BY <2>3, <2>4
<1>12. CASE ReturnOrphan
  <2>1. loop.at = "return" /\ UNCHANGED <<slots, inherited, runs, calls>>
    BY <1>12 DEF ReturnOrphan
  <2>2. CASE ~Holds(loop.job, loop.token)
    BY <1>b, <1>1, <1>12, <2>1, <2>2 DEF ReturnOrphan, NoMove
  <2>3. CASE Holds(loop.job, loop.token)
    <3>1. loop'.at = "release" /\ loop'.job = loop.job /\ Move(loop.job, "waiting")
      BY <1>e, <1>12, <2>1, <2>3 DEF ReturnOrphan, Stages
    <3>2. CASE loop.job # i
      <4>1. job'[i] = job[i] BY <1>d, <3>1, <3>2 DEF Move
      <4>2. QED BY <2>1, <3>1, <3>2, <4>1, UntouchedOrderly DEF Untouched
    <3>3. CASE loop.job = i
      <4>1. job'[i] = "waiting" BY <1>d, <3>1, <3>3 DEF Move
      <4>2. Elsewhere(i)' BY <2>1, <3>3 DEF Orderly, InLoop, Elsewhere
      <4>3. InLoop(i)' BY <3>1, <4>1, <4>2 DEF InLoop
      <4>4. NotInherited(i)' BY <1>f, <2>1 DEF NotInherited
      <4>5. QED BY <3>1, <3>3, <4>3, <4>4, BusyOrderly
    <3>4. QED BY <3>2, <3>3
  <2>4. QED BY <2>2, <2>3
<1>13. CASE ReleaseOrphan
  <2>1. /\ loop.at = "release" /\ Free(Pools, loop.job) /\ loop'.job = None
        /\ UNCHANGED <<job, runs, calls>>
    BY <1>b, <1>13 DEF ReleaseOrphan
  <2>2. CASE loop.job # i
    BY <1>a, <2>1, <2>2, UntouchedOrderly, FreeOthers DEF Untouched
  <2>3. CASE loop.job = i
    <3>1. Elsewhere(i)' BY <2>1, <2>3 DEF Orderly, InLoop, Elsewhere
    <3>2. NoSlot(i)' /\ NotInherited(i)' BY <1>f, <2>1, <2>3, FreeOwn DEF NoSlot, NotInherited
    <3>3. QED BY <1>a, <2>1, <3>1, <3>2, IdleOrderly
  <2>4. QED BY <2>2, <2>3
<1>14. CASE DequeueError
  BY <1>b, <1>1, <1>14 DEF DequeueError
\* The remaining errors disturb the loop's job.
<1>15. CASE AllowUnchecked
  <2>1. loop.job # i BY <1>15 DEF AllowUnchecked, Disturb
  <2>2. loop'.job = loop.job BY <1>e, <1>15 DEF AllowUnchecked, Stages
  <2>3. \A p \in Pools : i \in inherited'[p] => i \in inherited[p]
    BY <1>d, <1>15, <2>1 DEF AllowUnchecked, Inherit
  <2>4. QED BY <1>15, <2>1, <2>2, <2>3, UntouchedOrderly DEF AllowUnchecked, Untouched
<1>16. CASE OrphanLeaks \/ RejectLeaks
  <2>1. loop.job # i /\ \E S : Free(S, loop.job)
    BY <1>16 DEF OrphanLeaks, RejectLeaks, LeakSlots, Disturb
  <2>2. loop'.job = None /\ UNCHANGED <<runs, calls>>
    BY <1>b, <1>c, <1>16 DEF OrphanLeaks, RejectLeaks
  <2>3. job'[i] = job[i]
    BY <1>d, <1>16, <2>1 DEF OrphanLeaks, RejectLeaks, LoopMove, Move, NoMove
  <2>4. QED BY <1>a, <2>1, <2>2, <2>3, UntouchedOrderly, FreeOthers DEF Untouched
<1>17. QED
  BY <1>4, <1>5, <1>6, <1>7, <1>8, <1>9, <1>10, <1>11, <1>12, <1>13, <1>14, <1>15, <1>16
     DEF LoopStep, LoopFault

\* completeJob gives back the slots of a job that no longer executes.
LEMMA CallOrderly ==
  ASSUME Types, NEW i \in Jobs, i \notin disturbed', Orderly(i),
         NEW x \in calls, CallStep(x) \/ CallFault(x)
  PROVE  Orderly(i)'
<1>0. job \in [Jobs -> JobStates] /\ x.job \in Jobs BY Shapes DEF Types, Shaped
<1>1. UNCHANGED <<loop, runs>>
  BY DEF CallStep, CallFault, CompleteMove, CompleteMoveFails, CompleteClear, CompleteRelease,
     CompleteLeaks
<1>2. PICK n : /\ n.job = x.job /\ n.at # "move"
               /\ calls' \in {calls \ {x}, (calls \ {x}) \cup {n}}
               /\ x.at # "release" /\ job[x.job] # "gone" => n \in calls'
  <2>1. \A at : [x EXCEPT !.at = at].job = x.job /\ [x EXCEPT !.at = at].at = at
    BY DEF Types, Calls
  <2>2. \/ calls' = calls \ {x} /\ (x.at = "release" \/ job[x.job] = "gone")
        \/ calls' = (calls \ {x}) \cup {[x EXCEPT !.at = "clear"]}
        \/ calls' = (calls \ {x}) \cup {[x EXCEPT !.at = "release"]}
    BY DEF CallStep, CallFault, CompleteMove, CompleteMoveFails, CompleteClear, CompleteRelease,
       CompleteLeaks, Advance
  <2>3. QED BY <2>1, <2>2
<1>3. CASE x.job # i
  <2>1. job'[i] = job[i]
    BY <1>0, <1>3 DEF CallStep, CallFault, CompleteMove, CompleteMoveFails, CompleteClear,
       CompleteRelease, CompleteLeaks, Move, NoMove, bullVars
  <2>2. \A y \in calls \cup calls' : y.job = i => y \in calls /\ y \in calls' BY <1>2, <1>3
  <2>3. UNCHANGED <<slots, inherited>> \/ \E S : Free(S, x.job)
    BY DEF CallStep, CallFault, CompleteMove, CompleteMoveFails, CompleteClear, CompleteRelease,
       CompleteLeaks, LeakSlots, slotVars
  <2>4. QED BY <1>1, <1>3, <2>1, <2>2, <2>3, UntouchedOrderly, FreeOthers DEF Untouched
<1>4. CASE x.job = i
  <2>1. /\ \A r \in runs : r.job # i
        /\ \A y \in calls : y.job = i => y = x
        /\ loop.job # i /\ job[i] # "waiting" /\ NotInherited(i)
    BY <1>4 DEF Orderly, Queued, InLoop, Executing, Completing, Elsewhere
  <2>2. /\ \A y \in calls' : y.job = i => y = n
        /\ \A r \in runs' : r.job # i
    BY <1>1, <1>2, <2>1
  <2>3. Executing(i)' /\ Completing(i)' BY <2>2 DEF Executing, Completing
  <2>4. InLoop(i)' BY <1>1, <2>1 DEF InLoop
  <2>5. CASE CompleteMove(x) \/ CompleteMoveFails(x) \/ CompleteClear(x)
    <3>1. job'[i] # "waiting" /\ (job'[i] = "backoff" => job[i] # "gone")
      BY <1>0, <1>4, <2>1, <2>5 DEF CompleteMove, CompleteMoveFails, CompleteClear, Move, NoMove,
         Holds, bullVars
    <3>2. x.at # "release" BY <2>5 DEF CompleteMove, CompleteMoveFails, CompleteClear
    <3>3. Retrying(i)' BY <1>2, <1>4, <2>2, <3>1, <3>2 DEF Retrying
    <3>4. NotInherited(i)'
      BY <2>1, <2>5 DEF CompleteMove, CompleteMoveFails, CompleteClear, NotInherited, slotVars
    <3>5. QED BY <2>3, <2>4, <3>1, <3>3, <3>4 DEF Orderly, Queued
  <2>6. CASE CompleteRelease(x)
    <3>1. NoSlot(i)' /\ NotInherited(i)'
      BY <1>4, <2>1, <2>6, FreeOwn DEF CompleteRelease, NoSlot, NotInherited
    <3>2. Elsewhere(i)' BY <2>1, <2>2, <2>6 DEF CompleteRelease, Elsewhere
    <3>3. QED BY <1>1, <2>1, <3>1, <3>2, IdleOrderly
  <2>7. ~CompleteLeaks(x) BY <1>4 DEF CompleteLeaks, LeakSlots, Disturb
  <2>8. QED BY <2>5, <2>6, <2>7 DEF CallStep, CallFault
<1>5. QED BY <1>3, <1>4

\* What closed connections, the stalled scan and time do.
LEMMA OtherOrderly ==
  ASSUME Types, ReturnsDisturb, NEW i \in Jobs, i \notin disturbed', i \notin disturbed, Orderly(i)
  PROVE  /\ \A x \in returns : ReturnStep(x) \/ ReturnLeaks(x) => Orderly(i)'
         /\ \A j \in Jobs : LockLapses(j) \/ StalledScan(j) \/ BackoffEnds(j) => Orderly(i)'
         /\ \A p \in Pools, j \in Jobs : SlotExpires(p, j) => Orderly(i)'
<1>0. job \in [Jobs -> JobStates] BY DEF Types
<1>1. NotInherited(i) BY DEF Orderly
<1> USE DEF bullVars, slotVars
<1>2. ASSUME NEW x \in returns, ReturnStep(x) \/ ReturnLeaks(x) PROVE Orderly(i)'
  <2>1. UNCHANGED <<loop, runs, calls>>
    BY <1>2 DEF ReturnStep, ReturnMove, ReturnRelease, ReturnLeaks
  <2>2. CASE x.job = i
    <3>1. x.at # "release" BY <2>2 DEF ReturnsDisturb
    <3>2. UNCHANGED <<job, slots, inherited>>
      BY <1>2, <2>2, <3>1 DEF ReturnStep, ReturnMove, ReturnRelease, ReturnLeaks, Disturb, NoMove
    <3>3. QED BY <2>1, <3>2, UntouchedOrderly DEF Untouched
  <2>3. CASE x.job # i
    <3>1. job'[i] = job[i]
      BY <1>0, <1>2, <2>3 DEF ReturnStep, ReturnMove, ReturnRelease, ReturnLeaks, Move, NoMove
    <3>2. UNCHANGED <<slots, inherited>> \/ \E S : Free(S, x.job)
      BY <1>2 DEF ReturnStep, ReturnMove, ReturnRelease, ReturnLeaks, LeakSlots
    <3>3. QED BY <2>1, <2>3, <3>1, <3>2, UntouchedOrderly, FreeOthers DEF Untouched
  <2>4. QED BY <2>2, <2>3
<1>3. ASSUME NEW j \in Jobs, LockLapses(j) \/ StalledScan(j) \/ BackoffEnds(j)
      PROVE  Orderly(i)'
  <2>1. UNCHANGED <<loop, runs, calls, slots, inherited>>
    BY <1>3 DEF LockLapses, StalledScan, BackoffEnds
  <2>2. CASE job'[i] = job[i] BY <2>1, <2>2, UntouchedOrderly DEF Untouched
  <2>3. CASE job'[i] # job[i]
    <3>1. BackoffEnds(j) /\ i = j
      BY <1>0, <1>3, <2>3 DEF LockLapses, StalledScan, BackoffEnds, Disturb
    <3>2. job[i] = "backoff" /\ \A x \in calls : x.job # i
      BY <3>1 DEF BackoffEnds, Orderly, Retrying
    <3>3. NoSlot(i) /\ loop.job # i /\ \A r \in runs : r.job # i
      BY <3>2 DEF Orderly, Retrying, InLoop, Executing
    <3>4. Elsewhere(i)' BY <2>1, <3>2, <3>3 DEF Elsewhere
    <3>5. NoSlot(i)' /\ NotInherited(i)' BY <1>1, <2>1, <3>3 DEF NoSlot, NotInherited
    <3>6. QED BY <2>1, <3>3, <3>4, <3>5, IdleOrderly
  <2>4. QED BY <2>2, <2>3
<1>4. ASSUME NEW p \in Pools, NEW j \in Jobs, SlotExpires(p, j) PROVE Orderly(i)'
  <2>1. Free({p}, j) /\ UNCHANGED <<job, loop, runs, calls>> BY <1>4 DEF SlotExpires
  <2>2. CASE i # j BY <2>1, <2>2, UntouchedOrderly, FreeOthers DEF Untouched
  <2>3. CASE i = j
    <3>1. job[i] # "active" /\ \A r \in runs : r.job # i
      BY <1>1, <1>4, <2>3 DEF SlotExpires, NotInherited
    <3>2. (NoSlot(i) => NoSlot(i)') /\ NotInherited(i)'
      BY <1>1, <2>1, <2>3, FreeOwn DEF NoSlot, NotInherited
    <3>3. Queued(i)' BY <2>1, <3>2 DEF Orderly, Queued, Elsewhere
    <3>4. InLoop(i)' BY <2>1, <3>1 DEF Orderly, InLoop, Elsewhere
    <3>5. Executing(i)' /\ Completing(i)' BY <2>1, <3>1 DEF Orderly, Executing, Completing
    <3>6. Retrying(i)' BY <2>1, <3>2 DEF Orderly, Retrying
    <3>7. QED BY <3>2, <3>3, <3>4, <3>5, <3>6 DEF Orderly
  <2>4. QED BY <2>2, <2>3
<1>5. QED BY <1>2, <1>3, <1>4

\* A worker finishes with its job, or gives it up.
LEMMA WorkOrderly ==
  ASSUME Types, NEW i \in Jobs, Orderly(i), NEW r \in runs,
         AbortRun(r) \/ \E ok \in BOOLEAN : WorkerDone(r, ok)
  PROVE  Orderly(i)'
<1>1. UNCHANGED <<job, loop, slots, inherited>> /\ runs' = runs \ {r}
  BY DEF AbortRun, WorkerDone, bullVars, slotVars
<1>2. PICK n : n.job = r.job /\ calls' \in {calls, calls \cup {n}}
  <2>1. CASE AbortRun(r) BY <2>1 DEF AbortRun
  <2>2. ASSUME NEW ok \in BOOLEAN, WorkerDone(r, ok)
        PROVE  \E n : n.job = r.job /\ calls' \in {calls, calls \cup {n}}
    <3>1. PICK n : n = [conn |-> r.conn, job |-> r.job, token |-> r.token, ok |-> ok, at |-> "move"]
      OBVIOUS
    <3>2. n.job = r.job BY <3>1
    <3>3. QED BY <2>2, <3>1, <3>2 DEF WorkerDone
  <2>3. QED BY <2>1, <2>2
<1>3. CASE r.job # i BY <1>1, <1>2, <1>3, UntouchedOrderly DEF Untouched
<1>4. CASE r.job = i
  <2>1. /\ job[i] = "active" /\ \A q \in runs : q.job = i => q = r
        /\ \A x \in calls : x.job # i
    BY <1>4 DEF Orderly, Executing
  <2>2. loop.job # i BY <1>4 DEF Orderly, InLoop, Elsewhere
  <2>3. Executing(i)' /\ Completing(i)' BY <1>1, <1>2, <2>1 DEF Executing, Completing
  <2>4. Queued(i)' /\ InLoop(i)' /\ Retrying(i)' BY <1>1, <2>1, <2>2 DEF Queued, InLoop, Retrying
  <2>5. NotInherited(i)' BY <1>1 DEF Orderly, NotInherited
  <2>6. QED BY <2>3, <2>4, <2>5 DEF Orderly
<1>5. QED BY <1>3, <1>4

LEMMA PollOrderly ==
  ASSUME Types, NEW i \in Jobs, Orderly(i),
         NEW c \in Conns, Poll(c) \/ WaiterTimeout(c) \/ Disconnect(c)
  PROVE  Orderly(i)'
<1>1. UNCHANGED <<job, slots, inherited, runs, calls>>
  BY DEF Poll, WaiterTimeout, Disconnect, bullVars, slotVars
<1>2. loop' = loop \/ (loop.at = "off" /\ loop'.job = None)
  BY DEF Poll, WaiterTimeout, Disconnect, Idle
<1>3. loop.at = "off" => loop.job = None BY DEF Types, IdleLoop, Busy, Stages
<1>4. None # i BY JobsAssumption
<1>5. QED BY <1>1, <1>2, <1>3, <1>4, UntouchedOrderly DEF Untouched

\* The history only grows, and every job taken back with its lock is in it.
LEMMA DisturbedGrows ==
  ASSUME Types, ReturnsDisturb, [Next]_vars
  PROVE  disturbed \subseteq disturbed' /\ ReturnsDisturb'
<1>1. CASE \E x \in returns : ReturnStep(x) \/ ReturnLeaks(x)
  <2>1. PICK x \in returns : ReturnStep(x) \/ ReturnLeaks(x) BY <1>1
  <2>2. disturbed \subseteq disturbed'
    BY <2>1 DEF ReturnStep, ReturnMove, ReturnRelease, ReturnLeaks, LeakSlots, Disturb
  <2>3. \A y \in returns' : y \in returns \/ (y.job = x.job /\ x.job \in disturbed')
    <3>1. [x EXCEPT !.at = "release"].job = x.job BY DEF Types, Returns
    <3>2. QED
      BY <2>1, <3>1 DEF ReturnStep, ReturnMove, ReturnRelease, ReturnLeaks, Disturb, Advance
  <2>4. QED BY <2>2, <2>3 DEF ReturnsDisturb
<1>2. CASE \E c \in Conns : Disconnect(c)
  <2>1. \A y \in returns' : y \in returns \/ y.at = "move" BY <1>2 DEF Disconnect
  <2>2. UNCHANGED disturbed BY <1>2 DEF Disconnect, slotVars
  <2>3. QED BY <2>1, <2>2 DEF ReturnsDisturb
<1>3. ASSUME UNCHANGED returns, disturbed' = disturbed \/ \E j : Disturb(j)
      PROVE  disturbed \subseteq disturbed' /\ ReturnsDisturb'
  BY <1>3 DEF ReturnsDisturb, Disturb
<1> USE DEF slotVars
<1>4. CASE LoopStep \/ PassGate \/ LoopFault
  BY <1>3, <1>4 DEF LoopStep, NothingQueued, TakeBadJob, TakeJob, CheckSuspension, AcquireSlot,
     RejectAtGate, HandOver, NoWaiterLeft, ReturnOrphan, ReleaseOrphan, PassGate, LoopFault,
     DequeueError, AllowUnchecked, OrphanLeaks, RejectLeaks, LeakSlots
<1>5. ASSUME NEW x \in calls, CallStep(x) \/ CallFault(x)
      PROVE  disturbed \subseteq disturbed' /\ ReturnsDisturb'
  BY <1>3, <1>5 DEF CallStep, CallFault, CompleteMove, CompleteMoveFails, CompleteClear,
     CompleteRelease, CompleteLeaks, LeakSlots
<1>6. ASSUME NEW r \in runs, AbortRun(r) \/ \E ok \in BOOLEAN : WorkerDone(r, ok)
      PROVE  disturbed \subseteq disturbed' /\ ReturnsDisturb'
  BY <1>3, <1>6 DEF AbortRun, WorkerDone
<1>7. ASSUME NEW c \in Conns, Poll(c) \/ WaiterTimeout(c)
      PROVE  disturbed \subseteq disturbed' /\ ReturnsDisturb'
  BY <1>3, <1>7 DEF Poll, WaiterTimeout
<1>8. ASSUME NEW j \in Jobs, LockLapses(j) \/ StalledScan(j) \/ BackoffEnds(j)
                               \/ \E p \in Pools : SlotExpires(p, j)
      PROVE  disturbed \subseteq disturbed' /\ ReturnsDisturb'
  BY <1>3, <1>8 DEF LockLapses, StalledScan, BackoffEnds, SlotExpires
<1>9. CASE UNCHANGED vars BY <1>3, <1>9 DEF vars
<1>10. QED BY <1>1, <1>2, <1>4, <1>5, <1>6, <1>7, <1>8, <1>9 DEF Next

LEMMA NextCapacityInv == CapacityInv /\ [Next]_vars => CapacityInv'
<1> SUFFICES ASSUME CapacityInv, [Next]_vars PROVE CapacityInv'
  OBVIOUS
<1>1. Types' /\ Types /\ ReturnsDisturb /\ SlotsBounded BY NextTypes DEF CapacityInv
<1>2. SlotsBounded'
  <2>1. SlotStep BY <1>1, SlotSteps
  <2>2. CASE UNCHANGED slots BY <1>1, <2>2 DEF SlotsBounded
  <2>3. QED BY <1>1, <2>1, <2>2, SlotsShrink, SlotsGrow DEF SlotStep
<1>3. disturbed \subseteq disturbed' /\ ReturnsDisturb' BY <1>1, DisturbedGrows
<1>4. ASSUME NEW i \in Jobs, i \notin disturbed' PROVE Orderly(i)'
  <2>1. i \notin disturbed /\ Orderly(i) BY <1>3, <1>4 DEF CapacityInv
  <2>2. CASE UNCHANGED vars BY <2>1, <2>2, UntouchedOrderly DEF vars, Untouched
  <2>3. CASE LoopStep \/ PassGate \/ LoopFault BY <1>1, <1>4, <2>1, <2>3, LoopOrderly
  <2>4. CASE \E x \in calls : CallStep(x) \/ CallFault(x) BY <1>1, <1>4, <2>1, <2>4, CallOrderly
  <2>5. CASE \E x \in returns : ReturnStep(x) \/ ReturnLeaks(x)
    BY <1>1, <1>4, <2>1, <2>5, OtherOrderly
  <2>6. CASE \E r \in runs : AbortRun(r) \/ \E ok \in BOOLEAN : WorkerDone(r, ok)
    BY <1>1, <2>1, <2>6, WorkOrderly
  <2>7. CASE \E c \in Conns : Poll(c) \/ WaiterTimeout(c) \/ Disconnect(c)
    BY <1>1, <2>1, <2>7, PollOrderly
  <2>8. CASE \E j \in Jobs : LockLapses(j) \/ StalledScan(j) \/ BackoffEnds(j)
                               \/ \E p \in Pools : SlotExpires(p, j)
    BY <1>1, <1>4, <2>1, <2>8, OtherOrderly
  <2>9. QED BY <2>2, <2>3, <2>4, <2>5, <2>6, <2>7, <2>8 DEF Next
<1>5. QED BY <1>1, <1>2, <1>3, <1>4 DEF CapacityInv

\* No more jobs execute than any pool has room for, counting the jobs that were
\* neither taken back from a worker nor served by an error path of an interceptor:
\* such a job holds its own slot in every pool while it executes, whatever leaked,
\* expired, twice released or wrongly admitted slots the faults of the others
\* leave behind.  For any number of jobs and any bound on faults and lapses.
THEOREM RunsWithinCapacityHolds == Spec => []RunsWithinCapacity
<1>1. Init => CapacityInv
  <2>1. Init => ReturnsDisturb BY DEF Init, ReturnsDisturb
  <2>2. ASSUME Init, NEW j \in Jobs PROVE Orderly(j)
    <3>1. /\ runs = {} /\ calls = {} /\ job[j] = "waiting" /\ loop.job = None
          /\ \A p \in Pools : slots[p] = {} /\ inherited[p] = {}
      BY <2>2 DEF Init, Idle
    <3>2. loop.job # j BY <3>1, JobsAssumption
    <3>3. QED
      BY <3>1, <3>2 DEF Orderly, Queued, InLoop, Executing, Completing, Retrying, NotInherited,
         Elsewhere, NoSlot
  <2>3. QED BY <2>1, <2>2, InitTypes, InitSlotsBounded DEF CapacityInv
<1>2. CapacityInv => RunsWithinCapacity
  <2> SUFFICES ASSUME CapacityInv, NEW p \in Pools
               PROVE  Cardinality({j \in Jobs \ disturbed : LiveRuns(j) # {}}) <= Capacity[p]
    BY DEF RunsWithinCapacity
  <2>1. PICK L : L = {j \in Jobs \ disturbed : LiveRuns(j) # {}} OBVIOUS
  <2>2. L \subseteq slots[p] BY <2>1 DEF LiveRuns, CapacityInv, Orderly, Executing
  <2>3. slots[p] \subseteq Jobs /\ IsFiniteSet(Jobs) BY JobsAssumption DEF CapacityInv, Types
  <2>4. IsFiniteSet(slots[p]) BY <2>3, FS_Subset
  <2>5. IsFiniteSet(L) /\ Cardinality(L) <= Cardinality(slots[p]) BY <2>2, <2>4, FS_Subset
  <2>6. Cardinality(L) \in Nat /\ Cardinality(slots[p]) \in Nat /\ Capacity[p] \in Nat
    BY <2>4, <2>5, FS_CardinalityType, CapacityAssumption
  <2>7. Cardinality(slots[p]) <= Capacity[p] BY DEF CapacityInv, SlotsBounded
  <2>8. Cardinality(L) <= Capacity[p] BY <2>5, <2>6, <2>7
  <2>9. QED BY <2>1, <2>8
<1>3. QED BY <1>1, <1>2, NextCapacityInv, PTL DEF Spec
=============================================================================
