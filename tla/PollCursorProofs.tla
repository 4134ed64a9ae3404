-------------------------- MODULE PollCursorProofs --------------------------
(***************************************************************************)
(* The cursor's transaction loses no event, for any number of jobs,        *)
(* events, crashes, failures and changes of the trigger, as long as no     *)
(* poll overlaps another one or runs unprotected.                          *)
(***************************************************************************)
EXTENDS PollCursor, TLAPS

(***************************************************************************)
(* NoEventLost speaks of the cursor, which every poll moves before its     *)
(* events are handed over.  What makes it inductive is that the snapshot,  *)
(* or the cursor when there is none, is never ahead of the runs (Safe),    *)
(* and that the one poll under way is the owner of the snapshot (Owned),   *)
(* so that only the poll that knows what became of the events may delete   *)
(* it (HandsOver).  A disabling takes the snapshot from a poll under way,  *)
(* so these hold of a trigger that is not on its way through a restart     *)
(* and was not enabled across a poll (Guarded); the rest always holds.     *)
(***************************************************************************)

\* At most one dispatch is under way, its worker connected, its job not queued.
OnePoll ==
  /\ \A c, d \in Slots : slot[c].at # "idle" /\ slot[d].at # "idle" => c = d
  /\ \A d \in Slots : ~slot[d].orphan
  /\ \A d \in Slots : slot[d].at # "idle" =>
       slot[d].job \in Jobs /\ jobs[slot[d].job] # "queued"

\* No entry of the store, and none on its way there, is ahead of the source, and
\* there is always a cursor to take a snapshot of.
Within ==
  /\ source >= 1 /\ cursor >= 1 /\ cursor <= source
  /\ HasSnap => snap.cursor >= 1 /\ snap.cursor <= source
  /\ \A d \in Slots : slot[d].at = "fetch" => slot[d].from >= 1 /\ slot[d].from <= source
  /\ \A d \in Slots : slot[d].at = "put" =>
       slot[d].from >= 1 /\ slot[d].from <= slot[d].to /\ slot[d].to <= source

\* The poll under way has its snapshot until it hands its events over.
Owned ==
  \A d \in Slots :
    /\ slot[d].at \in {"read", "fetch", "put", "mark", "start"} => snap.job = slot[d].job
    /\ slot[d].at \in {"complete", "settle"} => snap.job \in {NoJob, slot[d].job}

\* What became of the events between the snapshot and the cursor.
HandsOver ==
  \A d \in Slots :
    /\ slot[d].at \in {"read", "fetch", "put"} => cursor = snap.cursor /\ ~slot[d].failed
    /\ slot[d].at \in {"fetch", "put"} => slot[d].from = cursor
    /\ slot[d].at \in {"mark", "start"} /\ ~slot[d].failed =>
         \A e \in 1..cursor : e <= snap.cursor \/ e \in slot[d].todo \/ e \in done
    /\ slot[d].at \in {"complete", "settle"} /\ ~slot[d].failed /\ HasSnap =>
         cursor = snap.cursor

\* Every event up to the point a poll would go back to has its run.
Safe ==
  /\ HasSnap => \A e \in 1..snap.cursor : e \in done
  /\ ~HasSnap => \A e \in 1..cursor : e \in done

Settled == trigger \notin Restarting /\ "crossing" \notin late
Guarded == Settled => Owned /\ HandsOver /\ Safe

\* With no late poll there is no snapshot of before the enabling to go back to.
Bounds ==
  late = {} =>
    /\ trigger \in Restarting => ~HasSnap
    /\ trigger \notin Restarting => cursor >= floor /\ (HasSnap => snap.cursor >= floor)

PollInv == TypeOK /\ OnePoll /\ Within /\ Guarded /\ Bounds

-----------------------------------------------------------------------------
LEMMA NoJobIsNoJob == NoJob \notin Jobs
  BY PollAssumption DEF NoJob, Jobs

LEMMA InitTypes == Init => TypeOK
<1> SUFFICES ASSUME Init PROVE TypeOK OBVIOUS
<1> USE PollAssumption DEF Init
<1>1. StoreTyped BY DEF StoreTyped, NoSnap
<1>2. QueueTyped BY DEF QueueTyped
<1>3. SlotsTyped BY DEF SlotsTyped, Idle, Dispatches, Phases
<1>4. OutsideTyped BY DEF OutsideTyped, Events
<1>5. QED BY <1>1, <1>2, <1>3, <1>4 DEF TypeOK

\* A dispatch that changes to a well-formed one.
LEMMA OneSlot ==
  ASSUME SlotsTyped, NEW d \in Slots, NEW s \in Dispatches, Becomes(d, s),
         s.at = "idle" <=> s.job = NoJob,
         s.at = "idle" => s.todo = {} /\ ~s.orphan
  PROVE  SlotsTyped'
  BY DEF SlotsTyped, Becomes

LEMMA IdleType == Idle \in Dispatches
  BY PollAssumption DEF Idle, Dispatches, Phases

LEMMA IdleSlot ==
  ASSUME SlotsTyped, NEW d \in Slots, Leave(d)
  PROVE  SlotsTyped'
  BY IdleType, OneSlot DEF Leave, Idle

LEMMA MovedSlot ==
  ASSUME SlotsTyped, NEW d \in Slots, slot[d].at # "idle", NEW next \in Phases \ {"idle"},
         Go(d, next)
  PROVE  SlotsTyped'
<1>1. [slot[d] EXCEPT !.at = next] \in Dispatches BY DEF SlotsTyped, Dispatches
<1>2. QED BY <1>1, OneSlot DEF Go, SlotsTyped, Dispatches

LEMMA FailedSlot ==
  ASSUME SlotsTyped, NEW d \in Slots, slot[d].at # "idle", Fail(d)
  PROVE  SlotsTyped'
<1>1. CASE slot[d].orphan BY <1>1, IdleSlot DEF Fail
<1>2. CASE ~slot[d].orphan
  <2>1. [slot[d] EXCEPT !.at = "complete", !.failed = TRUE] \in Dispatches
    BY DEF SlotsTyped, Dispatches, Phases
  <2>2. QED BY <1>2, <2>1, OneSlot DEF Fail, SlotsTyped, Dispatches
<1>3. QED BY <1>1, <1>2

\* Steps of the source, the queue and the user leave the dispatches alone.
LEMMA OutsideTypes ==
  ASSUME TypeOK,
         \/ NewEvent \/ SnapshotAges \/ Editing \/ UNCHANGED vars
         \/ \E j \in Jobs : Queueing(j)
  PROVE  TypeOK'
<1>0. SlotsTyped'
  BY DEF TypeOK, SlotsTyped, NewEvent, SnapshotAges, Editing, Discard, SoftDelete, SaveSource,
         OnEnable, Queueing, Schedule, BackoffEnds, StalledScan, DiscardZombie, vars
<1> USE <1>0, PollAssumption
    DEF TypeOK, StoreTyped, QueueTyped, OutsideTyped, Store, Queue, Outside
<1>1. CASE NewEvent BY <1>1 DEF NewEvent
<1>2. CASE SnapshotAges
  <2>1. StoreTyped' BY <1>2 DEF SnapshotAges, HasSnap
  <2>2. QED BY <1>2, <2>1 DEF SnapshotAges
<1>3. CASE OnEnable
  <2>1. source \in 0..MaxEvents /\ 1..source \subseteq Events BY DEF Events
  <2>2. StoreTyped' BY <1>3, <2>1 DEF OnEnable
  <2>3. QueueTyped' BY <1>3 DEF OnEnable
  <2>4. OutsideTyped' BY <1>3, <2>1 DEF OnEnable
  <2>5. QED BY <2>2, <2>3, <2>4
<1>4. ASSUME NEW next \in {"disabling", "replacing"}, Discard(next) PROVE TypeOK'
  <2>1. StoreTyped' BY <1>4 DEF Discard, NoSnap
  <2>2. QueueTyped' BY <1>4 DEF Discard
  <2>3. OutsideTyped'
    <3>1. /\ UNCHANGED <<strategy, source, done, floor, spent>> /\ edits' = edits + 1
          /\ edits < MaxEdits /\ trigger' \in Restarting \cup Republished
      BY <1>4 DEF Discard, Restarting, Republished
    <3>2. late' \subseteq {"begun", "crossing"} BY <1>4 DEF Discard
    <3>3. edits' \in 0..MaxEdits BY <3>1
    <3>4. QED BY <3>1, <3>2, <3>3
  <2>4. QED BY <2>1, <2>2, <2>3
<1>5. CASE SoftDelete BY <1>5 DEF SoftDelete, Restarting, Republished
<1>6. CASE SaveSource BY <1>6 DEF SaveSource, Restarting, Republished
<1>7. ASSUME NEW j \in Jobs, Queueing(j) PROVE TypeOK'
  <2>1. UNCHANGED <<cursor, snap, strategy, source, trigger, done, floor, late, edits, spent>>
    BY <1>7 DEF Queueing, Schedule, BackoffEnds, StalledScan, DiscardZombie
  <2>2. StoreTyped' /\ OutsideTyped' BY <2>1
  <2>3. QueueTyped'
    BY <1>7 DEF Queueing, Schedule, BackoffEnds, StalledScan, DiscardZombie
  <2>4. QED BY <2>2, <2>3
<1>8. CASE UNCHANGED vars BY <1>8 DEF vars
<1>9. QED BY <1>1, <1>2, <1>3, <1>4, <1>5, <1>6, <1>7, <1>8 DEF Editing

LEMMA BeginTypes ==
  ASSUME TypeOK, NEW d \in Slots, NEW j \in Jobs, Begin(d, j) \/ BeginFails(d, j)
  PROVE  TypeOK'
<1> USE PollAssumption, NoJobIsNoJob DEF TypeOK
<1>1. Dequeue(d, j) BY DEF Begin, BeginFails
<1>2. StoreTyped'
  <2>1. RolledBack \in 0..MaxEvents BY DEF RolledBack, StoreTyped
  <2>2. CASE UNCHANGED Store BY <2>2 DEF StoreTyped, Store
  <2>3. CASE cursor' = RolledBack /\ snap' = NoSnap
    BY <2>1, <2>3 DEF StoreTyped, NoSnap
  <2>4. CASE /\ cursor' = RolledBack
             /\ snap' = [job |-> j, phase |-> "POLLING", cursor |-> cursor', fresh |-> TRUE]
    BY <2>1, <2>4 DEF StoreTyped
  <2>5. QED BY <2>2, <2>3, <2>4 DEF Begin, BeginFails
<1>3. SlotsTyped'
  <2> DEFINE new == [Idle EXCEPT !.at = "read", !.job = j]
  <2>1. new \in Dispatches /\ new.at = "read" /\ new.job = j
    BY IdleType DEF Dispatches, Phases
  <2>2. Becomes(d, new) BY <1>1 DEF Dequeue
  <2> HIDE DEF new
  <2>3. QED BY <2>1, <2>2, OneSlot
<1>4. QueueTyped' BY <1>1 DEF QueueTyped, Dequeue
<1>5. OutsideTyped' BY <1>1 DEF OutsideTyped, Dequeue, Outside, Begin, BeginFails, Fault
<1>6. QED BY <1>2, <1>3, <1>4, <1>5

LEMMA PollingSlots ==
  ASSUME TypeOK, NEW d \in Slots, Polling(d) \/ Failure(d)
  PROVE  SlotsTyped'
<1>0. SlotsTyped /\ slot[d] \in Dispatches BY DEF TypeOK, SlotsTyped
<1> USE <1>0 DEF Phases
<1>1. CASE ReadCursor(d)
  <2>1. [slot[d] EXCEPT !.at = "fetch", !.from = cursor] \in Dispatches
    BY DEF TypeOK, StoreTyped, Dispatches
  <2>2. QED BY <1>1, <2>1, OneSlot DEF ReadCursor, SlotsTyped, Dispatches
<1>11. CASE Fetch(d)
  <2>1. [slot[d] EXCEPT !.at = "put", !.to = source] \in Dispatches
    BY DEF TypeOK, OutsideTyped, Dispatches
  <2>2. QED BY <1>11, <2>1, OneSlot DEF Fetch, SlotsTyped, Dispatches
<1>2. CASE PutCursor(d)
  <2> DEFINE at == IF HasNew(d) THEN "mark" ELSE "complete"
             todo == slot[d].from + 1 .. slot[d].to
  <2>1. todo \subseteq Events /\ at \in Phases \ {"idle"}
    BY PollAssumption DEF TypeOK, OutsideTyped, Dispatches, Events
  <2>2. [slot[d] EXCEPT !.at = at, !.todo = todo] \in Dispatches
    BY <2>1 DEF Dispatches
  <2>3. Becomes(d, [slot[d] EXCEPT !.at = at, !.todo = todo]) /\ slot[d].job # NoJob
    BY <1>2 DEF PutCursor, SlotsTyped
  <2> HIDE DEF at, todo
  <2>4. QED BY <2>1, <2>2, <2>3, OneSlot DEF Dispatches
<1>3. CASE MarkSubmitting(d) \/ CompleteJob(d) \/ TriggerFails(d)
  BY <1>3, MovedSlot DEF MarkSubmitting, CompleteJob, TriggerFails
<1>4. CASE Commit(d)
  BY <1>4, MovedSlot, IdleSlot DEF Commit, Return
<1>5. CASE Settle(d) \/ Crash(d)
  BY <1>5, IdleSlot DEF Settle, Crash
<1>6. CASE BatchFails(d) \/ PollFails(d)
  BY <1>6, FailedSlot DEF BatchFails, PollFails
<1>7. ASSUME NEW e \in Events, StartRun(d, e) \/ StartFails(d, e) PROVE SlotsTyped'
  <2>1. /\ [slot[d] EXCEPT !.todo = @ \ {e}] \in Dispatches
        /\ [slot[d] EXCEPT !.todo = @ \ {e}, !.failed = TRUE] \in Dispatches
    BY DEF Dispatches
  <2>2. QED BY <1>7, <2>1, OneSlot DEF StartRun, StartFails, SlotsTyped, Dispatches
<1>8. CASE MoveFails(d)
  <2>1. [slot[d] EXCEPT !.at = "settle", !.failed = TRUE] \in Dispatches
    BY DEF Dispatches
  <2>2. QED BY <1>8, <2>1, OneSlot DEF MoveFails, SlotsTyped, Dispatches
<1>9. CASE LoseWorker(d)
  <2>1. [slot[d] EXCEPT !.orphan = TRUE] \in Dispatches
    BY DEF Dispatches
  <2>2. CASE slot[d].at \in {"mark", "start"}
    BY <1>9, <2>1, <2>2, OneSlot DEF LoseWorker, SlotsTyped, Dispatches
  <2>3. CASE slot[d].at \notin {"mark", "start"}
    BY <1>9, <2>3, IdleSlot DEF LoseWorker, Leave
  <2>4. QED BY <2>2, <2>3
<1>10. QED
  BY <1>1, <1>2, <1>3, <1>4, <1>5, <1>6, <1>7, <1>8, <1>9, <1>11 DEF Polling, Failure

LEMMA PollingTypes ==
  ASSUME TypeOK, NEW d \in Slots, Polling(d) \/ Failure(d)
  PROVE  TypeOK'
<1>1. SlotsTyped' BY PollingSlots
<1> USE PollAssumption DEF TypeOK, SlotsTyped, Dispatches
<1>2. StoreTyped'
  <2>1. Moved(d) \in 0..MaxEvents BY DEF StoreTyped, Moved
  <2>2. CASE PutCursor(d) \/ TriggerFails(d)
    BY <2>1, <2>2 DEF PutCursor, TriggerFails, StoreTyped
  <2>3. CASE MarkSubmitting(d) BY <2>3 DEF MarkSubmitting, StoreTyped
  <2>4. CASE Commit(d) BY <2>4 DEF Commit, StoreTyped, NoSnap
  <2>5. CASE Settle(d) BY <2>5 DEF Settle, StoreTyped, NoSnap
  <2>6. CASE UNCHANGED Store BY <2>6 DEF Store, StoreTyped
  <2>7. QED
    BY <2>2, <2>3, <2>4, <2>5, <2>6
    DEF Polling, Failure, ReadCursor, Fetch, BatchFails, CompleteJob, StartRun, PollFails, MoveFails,
        Crash, LoseWorker, StartFails
<1>3. QueueTyped'
  <2>1. CASE CompleteJob(d) BY <2>1 DEF CompleteJob, QueueTyped
  <2>2. CASE LoseWorker(d) BY <2>2 DEF LoseWorker, QueueTyped
  <2>3. CASE UNCHANGED Queue BY <2>3 DEF Queue, QueueTyped
  <2>4. QED
    BY <2>1, <2>2, <2>3
    DEF Polling, Failure, ReadCursor, Fetch, PutCursor, MarkSubmitting, Commit, BatchFails, Settle,
        StartRun, TriggerFails, PollFails, MoveFails, Crash, StartFails
<1>4. OutsideTyped'
  <2>1. ASSUME NEW e \in Events, StartRun(d, e) PROVE OutsideTyped'
    BY <2>1 DEF StartRun, OutsideTyped
  <2>2. CASE UNCHANGED <<Outside, spent>> BY <2>2 DEF Outside, OutsideTyped
  <2>3. ASSUME NEW cost \in Nat, UNCHANGED Outside, Fault(cost) PROVE OutsideTyped'
    BY <2>3 DEF Outside, OutsideTyped, Fault
  <2>4. CASE Polling(d)
    BY <2>1, <2>2, <2>4
    DEF Polling, ReadCursor, Fetch, PutCursor, MarkSubmitting, Commit, BatchFails, CompleteJob,
        Settle
  <2>5. CASE Failure(d)
    BY <2>3, <2>5
    DEF Failure, TriggerFails, PollFails, MoveFails, Crash, LoseWorker, StartFails
  <2>6. QED BY <2>4, <2>5
<1>5. QED BY <1>1, <1>2, <1>3, <1>4

LEMMA NextTypes == TypeOK /\ [Next]_vars => TypeOK'
  BY OutsideTypes, BeginTypes, PollingTypes DEF Next

\* Attempts stay below their limit, an idle dispatch refers to nothing, and a
\* missing snapshot has no remains.
THEOREM TypesHold == Spec => []TypeOK
  BY InitTypes, NextTypes, PTL DEF Spec

-----------------------------------------------------------------------------
\* What the guard protects: no poll outside its window, every store with a
\* cursor, and no lost worker or failing begin.
Protected == Exposures = {} /\ StrayCost > MaxFaults

LEMMA NoStray == Protected /\ TypeOK => ~Fault(StrayCost)
  BY PollAssumption DEF Protected, Fault, TypeOK, OutsideTyped

LEMMA InitPollInv == Protected /\ Init => PollInv
<1> SUFFICES ASSUME Protected, Init PROVE PollInv OBVIOUS
<1>1. TypeOK BY InitTypes
<1>2. OnePoll /\ Owned /\ HandsOver BY DEF Init, OnePoll, Owned, HandsOver, Idle
<1>3. Safe BY DEF Init, Safe, HasSnap, NoSnap
<1>4. Within BY DEF Init, Protected, Within, HasSnap, NoSnap, Idle
<1>5. Bounds BY DEF Init, Protected, Bounds, HasSnap, NoSnap, Restarting
<1>6. QED BY <1>1, <1>2, <1>3, <1>4, <1>5 DEF PollInv, Guarded

\* What a change of the trigger, which leaves the dispatches alone, has to show.
LEMMA StepOutside ==
  ASSUME PollInv, TypeOK', UNCHANGED <<slot, jobs>>, Within', Guarded', Bounds'
  PROVE  PollInv'
  BY DEF PollInv, OnePoll

LEMMA EditingPollInv ==
  ASSUME Protected, PollInv, Editing
  PROVE  PollInv'
<1>0. TypeOK /\ TypeOK' BY OutsideTypes DEF PollInv
<1> USE <1>0, PollAssumption, NoJobIsNoJob DEF HasSnap
<1>1. ASSUME NEW next \in {"disabling", "replacing"}, Discard(next) PROVE PollInv'
  <2>1. /\ UNCHANGED <<slot, jobs, cursor, source, done, floor>>
        /\ snap'.job = NoJob /\ trigger' = next
        /\ late' = IF next = "disabling" THEN {} ELSE late
    BY <1>1 DEF Discard, NoSnap, Queue
  <2>2. Within' BY <2>1 DEF PollInv, Within
  <2>3. Guarded'
    <3>1. SUFFICES ASSUME Settled' PROVE Owned' /\ HandsOver' /\ Safe' BY DEF Guarded
    <3>2. Settled /\ ~HasSnap
      BY <1>1, <2>1, <3>1 DEF Settled, Restarting, Discard, Protected
    <3>3. Owned /\ HandsOver /\ Safe BY <3>2 DEF PollInv, Guarded
    <3>4. \A d \in Slots : slot[d].at \notin {"read", "fetch", "put", "mark", "start"}
      BY <3>2, <3>3 DEF Owned, PollInv, OnePoll
    <3>5. Owned' /\ HandsOver' BY <2>1, <3>4 DEF Owned, HandsOver
    <3>6. Safe' BY <2>1, <3>2, <3>3 DEF Safe
    <3>7. QED BY <3>5, <3>6
  <2>4. Bounds' BY <1>1, <2>1 DEF PollInv, Bounds, Restarting, Discard
  <2>5. QED BY <2>1, <2>2, <2>3, <2>4, StepOutside
<1>2. CASE SoftDelete \/ SaveSource
  <2>1. /\ UNCHANGED <<slot, jobs, cursor, snap, source, done, floor, late>>
        /\ trigger \in Restarting <=> trigger' \in Restarting
    BY <1>2 DEF SoftDelete, SaveSource, Store, Restarting
  <2>2. Within' BY <2>1 DEF PollInv, Within
  <2>3. Guarded' BY <2>1 DEF PollInv, Guarded, Settled, Owned, HandsOver, Safe
  <2>4. Bounds' BY <2>1 DEF PollInv, Bounds
  <2>5. QED BY <2>1, <2>2, <2>3, <2>4, StepOutside
<1>3. CASE OnEnable /\ trigger = "republishing"
  <2>1. /\ UNCHANGED <<slot, jobs, cursor, snap, source, done, floor, late>>
        /\ trigger \notin Restarting /\ trigger' \notin Restarting
    BY <1>3 DEF OnEnable, Queue, Restarting, PollInv, Within
  <2>2. Within' BY <2>1 DEF PollInv, Within
  <2>3. Guarded' BY <2>1 DEF PollInv, Guarded, Settled, Owned, HandsOver, Safe
  <2>4. Bounds' BY <2>1 DEF PollInv, Bounds
  <2>5. QED BY <2>1, <2>2, <2>3, <2>4, StepOutside
<1>4. CASE OnEnable /\ trigger = "enabling"
  <2>1. /\ UNCHANGED <<slot, jobs, snap, source>>
        /\ cursor' = source /\ floor' = source /\ done' = done \cup 1..source
        /\ late' = IF InFlight THEN late \cup {"crossing"} ELSE late
        /\ trigger \in Restarting /\ trigger' = "on"
    BY <1>4 DEF OnEnable, Queue, Restarting
  <2>2. source \in Nat /\ snap.cursor \in Nat BY DEF TypeOK, StoreTyped, OutsideTyped
  <2>3. Within' BY <2>1, <2>2 DEF PollInv, Within
  <2>4. Guarded'
    <3>1. SUFFICES ASSUME Settled' PROVE Owned' /\ HandsOver' /\ Safe' BY DEF Guarded
    <3>2. \A d \in Slots : slot'[d].at = "idle"
      BY <2>1, <3>1 DEF Settled, InFlight
    <3>3. Owned' /\ HandsOver' BY <3>2 DEF Owned, HandsOver
    <3>4. snap.job # NoJob => snap.cursor <= source BY DEF PollInv, Within
    <3>5. Safe' BY <2>1, <2>2, <3>4 DEF Safe
    <3>6. QED BY <3>3, <3>5
  <2>5. Bounds'
    <3>1. late' = {} => late = {} BY <2>1
    <3>2. late = {} => snap.job = NoJob BY <2>1 DEF PollInv, Bounds
    <3>3. QED BY <2>1, <2>2, <3>1, <3>2 DEF Bounds, Restarting
  <2>6. QED BY <2>1, <2>3, <2>4, <2>5, StepOutside
<1>5. QED BY <1>1, <1>2, <1>3, <1>4 DEF Editing, OnEnable

LEMMA OutsidePollInv ==
  ASSUME Protected, PollInv,
         \/ NewEvent \/ SnapshotAges \/ Editing \/ UNCHANGED vars
         \/ \E j \in Jobs : Queueing(j)
  PROVE  PollInv'
<1>0. TypeOK /\ TypeOK' BY OutsideTypes DEF PollInv
<1> USE <1>0, PollAssumption, NoJobIsNoJob
    DEF PollInv, OnePoll, Within, Guarded, Settled, Owned, HandsOver, Safe, Bounds, HasSnap,
        Store, Queue, Outside
<1>1. CASE NewEvent
  <2>1. /\ UNCHANGED <<slot, jobs, cursor, snap, done, floor, late, trigger>>
        /\ source \in Nat /\ source' = source + 1
    BY <1>1 DEF NewEvent, TypeOK, OutsideTyped
  <2>2. /\ cursor \in Nat /\ snap.cursor \in Nat
        /\ \A d \in Slots : slot[d].from \in Nat /\ slot[d].to \in Nat
    BY DEF TypeOK, StoreTyped, SlotsTyped, Dispatches
  <2>3. Within' BY <2>1, <2>2
  <2>4. Guarded' BY <2>1
  <2>5. Bounds' BY <2>1
  <2>6. QED BY <2>1, <2>3, <2>4, <2>5, StepOutside
<1>2. CASE SnapshotAges
  <2>1. /\ UNCHANGED <<slot, jobs, cursor, source, done, floor, late, trigger>>
        /\ snap'.job = snap.job /\ snap'.cursor = snap.cursor
    BY <1>2 DEF SnapshotAges, TypeOK, StoreTyped
  <2>2. QED BY <2>1
<1>3. CASE Editing BY <1>3, EditingPollInv
<1>5. ASSUME NEW j \in Jobs, Queueing(j) PROVE PollInv'
  <2>1. OnePoll'
    BY <1>5 DEF Queueing, Schedule, BackoffEnds, StalledScan, DiscardZombie, Served, TypeOK,
                QueueTyped
  <2>2. UNCHANGED <<slot, cursor, snap, source, done, floor, late, trigger>>
    BY <1>5 DEF Queueing, Schedule, BackoffEnds, StalledScan, DiscardZombie
  <2>3. QED BY <2>1, <2>2
<1>6. CASE UNCHANGED vars BY <1>6 DEF vars
<1>7. QED BY <1>1, <1>2, <1>3, <1>5, <1>6

LEMMA BeginPollInv ==
  ASSUME Protected, PollInv, NEW d \in Slots, NEW j \in Jobs, Begin(d, j) \/ BeginFails(d, j)
  PROVE  PollInv'
<1>0. TypeOK /\ TypeOK' BY BeginTypes DEF PollInv
<1>1. Begin(d, j) BY <1>0, NoStray DEF BeginFails
<1>2. Dequeue(d, j) BY <1>1 DEF Begin
<1>3. \A c \in Slots : slot[c].at = "idle"
  BY <1>0, <1>2, NoJobIsNoJob DEF PollInv, OnePoll, Dequeue, Apart, Protected, TypeOK, SlotsTyped
<1>4. /\ cursor' = RolledBack /\ RolledBack \in Nat /\ RolledBack >= 1 /\ RolledBack <= source
      /\ snap' = [job |-> j, phase |-> "POLLING", cursor |-> cursor', fresh |-> TRUE]
  BY <1>0, <1>1, <1>2
  DEF PollInv, Within, Begin, InWindow, Dequeue, Apart, Protected, HasSnap, RolledBack, TypeOK,
      StoreTyped
<1>5. /\ slot'[d] = [Idle EXCEPT !.at = "read", !.job = j]
      /\ \A c \in Slots \ {d} : slot'[c] = slot[c]
      /\ jobs'[j] = "active"
  BY <1>0, <1>2 DEF Dequeue, Becomes, TypeOK, SlotsTyped, QueueTyped
<1>6. /\ slot'[d].at = "read" /\ slot'[d].job = j
      /\ ~slot'[d].failed /\ ~slot'[d].orphan
  BY <1>5 DEF Idle
<1>7. /\ UNCHANGED <<source, done, floor, trigger>>
      /\ late' = IF trigger \in Restarting THEN late \cup {"begun"} ELSE late
  BY <1>2 DEF Dequeue
<1>8. OnePoll'
  <2>1. \A c \in Slots : slot'[c].at # "idle" => c = d BY <1>3, <1>5
  <2>2. \A c \in Slots : ~slot'[c].orphan BY <1>5, <1>6 DEF PollInv, OnePoll
  <2>3. QED BY <1>5, <1>6, <2>1, <2>2 DEF OnePoll
<1>9. snap'.job = j /\ snap'.cursor = RolledBack BY <1>4
<1>10. Within'
  <2>1. \A c \in Slots : slot'[c].at \notin {"fetch", "put"} BY <1>3, <1>5, <1>6
  <2>2. QED BY <1>4, <1>7, <1>9, <2>1 DEF PollInv, Within, HasSnap
<1>11. Guarded'
  <2>1. SUFFICES ASSUME Settled' PROVE Owned' /\ HandsOver' /\ Safe' BY DEF Guarded
  <2>2. Owned' /\ HandsOver' BY <1>3, <1>4, <1>5, <1>6 DEF Owned, HandsOver
  <2>3. Safe BY <1>7, <2>1 DEF Settled, PollInv, Guarded
  <2>4. \A e \in 1..RolledBack : e \in done BY <2>3 DEF Safe, RolledBack
  <2>5. Safe' BY <1>7, <1>9, <2>4, NoJobIsNoJob DEF Safe, HasSnap
  <2>6. QED BY <2>2, <2>5
<1>12. Bounds'
  <2>1. SUFFICES ASSUME late' = {} PROVE trigger \notin Restarting /\ RolledBack >= floor
    BY <1>4, <1>7, <1>9 DEF Bounds
  <2>2. trigger \notin Restarting /\ late = {} BY <1>7, <2>1
  <2>3. QED BY <2>2 DEF PollInv, Bounds, RolledBack
<1>13. QED BY <1>0, <1>8, <1>10, <1>11, <1>12 DEF PollInv

\* A step of the poll under way: what remains to show is about that dispatch.
LEMMA StepOfPoll ==
  ASSUME PollInv, TypeOK', NEW d \in Slots, slot[d].at # "idle",
         \A c \in Slots \ {d} : slot'[c] = slot[c],
         ~slot'[d].orphan,
         slot'[d].at # "idle" => slot'[d].job = slot[d].job /\ jobs'[slot[d].job] # "queued"
  PROVE  /\ OnePoll'
         /\ \A c \in Slots \ {d} : slot'[c].at = "idle"
  BY DEF PollInv, OnePoll

\* A step that leaves the store alone cannot pass the source or the enabling.
LEMMA StoreAlone ==
  ASSUME PollInv, NEW d \in Slots,
         UNCHANGED <<cursor, source, floor, trigger, late>>,
         snap'.job = snap.job, snap'.cursor = snap.cursor,
         \A c \in Slots \ {d} : slot'[c].at = "idle",
         slot'[d].at \notin {"fetch", "put"}
  PROVE  Within' /\ Bounds'
  BY DEF PollInv, Within, Bounds, HasSnap

\* So does one that deletes the snapshot.
LEMMA SnapGone ==
  ASSUME PollInv, NEW d \in Slots,
         UNCHANGED <<cursor, source, floor, trigger, late>>,
         snap'.job = NoJob,
         \A c \in Slots \ {d} : slot'[c].at = "idle",
         slot'[d].at \notin {"fetch", "put"}
  PROVE  Within' /\ Bounds'
  BY DEF PollInv, Within, Bounds, HasSnap

LEMMA PollingPollInv ==
  ASSUME Protected, PollInv, NEW d \in Slots, Polling(d) \/ Failure(d)
  PROVE  PollInv'
<1>0. TypeOK /\ TypeOK' BY PollingTypes DEF PollInv
<1>1. /\ slot[d].at # "idle" /\ ~slot[d].orphan /\ slot[d].job \in Jobs
      /\ jobs[slot[d].job] # "queued"
      /\ slot \in [Slots -> Dispatches] /\ slot[d] \in Dispatches /\ DOMAIN jobs = Jobs
  <2>1. slot[d].at # "idle"
    BY DEF Polling, Failure, ReadCursor, Fetch, PutCursor, MarkSubmitting, Commit, BatchFails,
           CompleteJob, Settle, StartRun, TriggerFails, PollFails, MoveFails, Crash,
           LoseWorker, StartFails
  <2>2. QED BY <1>0, <2>1 DEF PollInv, OnePoll, TypeOK, SlotsTyped, QueueTyped
<1>2. /\ UNCHANGED <<trigger, late, source, floor>>
      /\ Settled' = Settled /\ (Settled => Owned /\ HandsOver /\ Safe)
  <2>1. UNCHANGED <<trigger, late, source, floor>>
    BY DEF Polling, Failure, ReadCursor, Fetch, PutCursor, MarkSubmitting, Commit, BatchFails,
           CompleteJob, Settle, StartRun, TriggerFails, PollFails, MoveFails, Crash,
           LoseWorker, StartFails, Outside
  <2>2. QED BY <2>1 DEF PollInv, Guarded, Settled
<1> USE <1>0, <1>1, <1>2, NoJobIsNoJob, StepOfPoll DEF Becomes, Go, Leave, Fail, Return
<1>3. CASE ReadCursor(d)
  <2>1. /\ slot'[d].at = "fetch" /\ slot'[d].from = cursor /\ ~slot'[d].orphan
        /\ slot'[d].job = slot[d].job /\ slot'[d].failed = slot[d].failed
        /\ \A c \in Slots \ {d} : slot'[c] = slot[c]
        /\ UNCHANGED <<cursor, snap, jobs, done>>
    BY <1>3 DEF ReadCursor, Store, Queue, Outside, Dispatches
  <2>2. OnePoll' /\ \A c \in Slots \ {d} : slot'[c].at = "idle" BY <2>1
  <2>3. Settled => Owned' /\ HandsOver' BY <1>3, <2>1, <2>2 DEF Owned, HandsOver, ReadCursor
  <2>4. Settled => Safe' BY <2>1 DEF Safe, HasSnap
  <2>5. Within' BY <2>1, <2>2 DEF PollInv, Within, HasSnap
  <2>6. Bounds' BY <2>1 DEF PollInv, Bounds, HasSnap
  <2>7. QED BY <2>2, <2>3, <2>4, <2>5, <2>6 DEF PollInv, Guarded
<1>4. CASE Fetch(d)
  <2>1. /\ slot'[d].at = "put" /\ slot'[d].from = slot[d].from /\ slot'[d].to = source
        /\ slot'[d].job = slot[d].job /\ slot'[d].failed = slot[d].failed /\ ~slot'[d].orphan
        /\ \A c \in Slots \ {d} : slot'[c] = slot[c]
        /\ UNCHANGED <<cursor, snap, jobs, done>>
    BY <1>4 DEF Fetch, Store, Queue, Outside, Dispatches
  <2>2. OnePoll' /\ \A c \in Slots \ {d} : slot'[c].at = "idle" BY <2>1
  <2>3. Settled => Owned' /\ HandsOver' BY <1>4, <2>1, <2>2 DEF Owned, HandsOver, Fetch
  <2>4. Settled => Safe' BY <2>1 DEF Safe, HasSnap
  <2>5. Within'
    <3>1. source \in Nat /\ source' = source BY DEF TypeOK, OutsideTyped
    <3>2. QED BY <1>4, <2>1, <2>2, <3>1 DEF PollInv, Within, HasSnap, Fetch
  <2>6. Bounds' BY <2>1 DEF PollInv, Bounds, HasSnap
  <2>7. QED BY <2>2, <2>3, <2>4, <2>5, <2>6 DEF PollInv, Guarded
<1>5. CASE PutCursor(d)
  <2>1. /\ slot'[d].at = IF slot[d].to > slot[d].from THEN "mark" ELSE "complete"
        /\ slot'[d].todo = slot[d].from + 1 .. slot[d].to /\ ~slot'[d].orphan
        /\ slot'[d].job = slot[d].job /\ slot'[d].failed = slot[d].failed
        /\ \A c \in Slots \ {d} : slot'[c] = slot[c]
        /\ UNCHANGED <<snap, jobs, done>>
    BY <1>5 DEF PutCursor, HasNew, Queue, Outside, Dispatches
  <2>2. OnePoll' /\ \A c \in Slots \ {d} : slot'[c].at = "idle" BY <2>1
  <2>3. /\ cursor \in Nat /\ source \in Nat /\ floor \in Nat /\ snap.cursor \in Nat
        /\ slot[d].from \in Nat /\ slot[d].to \in Nat
        /\ slot[d].from <= slot[d].to /\ slot[d].to <= source /\ slot[d].from >= 1
    BY <1>5 DEF TypeOK, StoreTyped, OutsideTyped, Dispatches, PollInv, Within, PutCursor
  <2>4. cursor' \in {slot[d].to, cursor} BY <1>5 DEF PutCursor, Moved
  <2>5. Within' BY <2>1, <2>2, <2>3, <2>4 DEF PollInv, Within, HasSnap
  <2>6. Settled => /\ snap.job = slot[d].job /\ cursor = snap.cursor /\ ~slot[d].failed
                   /\ slot[d].from = cursor /\ cursor' = slot[d].to
    BY <1>5, <2>3 DEF Owned, HandsOver, PutCursor, Moved, HasNew
  <2>7. Settled => Owned' /\ HandsOver'
    BY <2>1, <2>2, <2>3, <2>6 DEF Owned, HandsOver, HasSnap
  <2>8. Settled => Safe' BY <2>1, <2>6 DEF Safe, HasSnap
  <2>9. Bounds'
    <3>1. SUFFICES ASSUME late = {} PROVE
            /\ trigger \in Restarting => snap.job = NoJob
            /\ trigger \notin Restarting =>
                 cursor' >= floor /\ (snap.job # NoJob => snap.cursor >= floor)
      BY <2>1 DEF Bounds, HasSnap
    <3>2. trigger \notin Restarting => Settled BY <3>1 DEF Settled
    <3>3. QED BY <2>3, <2>6, <3>1, <3>2 DEF PollInv, Bounds, HasSnap
  <2>10. QED BY <2>2, <2>5, <2>7, <2>8, <2>9 DEF PollInv, Guarded
<1>6. CASE MarkSubmitting(d)
  <2>1. /\ slot'[d].at = "start" /\ slot'[d].todo = slot[d].todo /\ ~slot'[d].orphan
        /\ slot'[d].job = slot[d].job /\ slot'[d].failed = slot[d].failed
        /\ \A c \in Slots \ {d} : slot'[c] = slot[c]
        /\ snap'.job = snap.job /\ snap'.cursor = snap.cursor
        /\ UNCHANGED <<cursor, jobs, done>>
    BY <1>6 DEF MarkSubmitting, Queue, Outside, Dispatches, TypeOK, StoreTyped
  <2>2. OnePoll' /\ \A c \in Slots \ {d} : slot'[c].at = "idle" BY <2>1
  <2>3. Settled => Owned' /\ HandsOver' BY <1>6, <2>1, <2>2 DEF Owned, HandsOver, MarkSubmitting
  <2>4. Settled => Safe' BY <2>1 DEF Safe, HasSnap
  <2>5. Within' /\ Bounds' BY <2>1, <2>2, StoreAlone
  <2>6. QED BY <2>2, <2>3, <2>4, <2>5 DEF PollInv, Guarded
<1>7. CASE Commit(d)
  <2>1. /\ slot'[d].at = "complete" /\ ~slot'[d].orphan /\ slot'[d].job = slot[d].job
        /\ \A c \in Slots \ {d} : slot'[c] = slot[c]
        /\ snap'.job = NoJob
        /\ UNCHANGED <<cursor, jobs, done>>
    BY <1>7 DEF Commit, Queue, Outside, Dispatches, NoSnap
  <2>2. OnePoll' /\ \A c \in Slots \ {d} : slot'[c].at = "idle" BY <2>1
  <2>3. Owned' /\ HandsOver' BY <2>1, <2>2 DEF Owned, HandsOver, HasSnap
  <2>4. ASSUME Settled PROVE \A e \in 1..cursor : e \in done
    <3>1. HasSnap BY <1>7, <2>4 DEF Owned, Commit, HasSnap
    <3>2. \A e \in 1..cursor : e <= snap.cursor \/ e \in done
      BY <1>7, <2>4 DEF HandsOver, Commit
    <3>3. cursor \in Nat /\ snap.cursor \in Nat BY DEF TypeOK, StoreTyped
    <3>4. QED BY <2>4, <3>1, <3>2, <3>3 DEF Safe
  <2>5. Settled => Safe' BY <2>1, <2>4 DEF Safe, HasSnap
  <2>6. Within' /\ Bounds' BY <2>1, <2>2, SnapGone
  <2>7. QED BY <2>2, <2>3, <2>5, <2>6 DEF PollInv, Guarded
<1>8. CASE Settle(d)
  <2>1. /\ slot'[d].at = "idle" /\ ~slot'[d].orphan
        /\ \A c \in Slots \ {d} : slot'[c] = slot[c]
        /\ UNCHANGED <<jobs, done>>
    BY <1>8 DEF Settle, Queue, Outside, Idle
  <2>2. OnePoll' /\ \A c \in Slots : slot'[c].at = "idle" BY <2>1
  <2>3. Owned' /\ HandsOver' BY <2>2 DEF Owned, HandsOver
  <2>4. CASE snap.job = slot[d].job
    <3>1. snap'.job = NoJob /\ cursor' \in {snap.cursor, cursor} /\ HasSnap
      BY <1>8, <2>4 DEF Settle, NoSnap, HasSnap
    <3>2. Settled => cursor' = snap.cursor
      BY <1>8, <2>4, <3>1 DEF HandsOver, Settle
    <3>3. Settled => Safe' BY <2>1, <3>1, <3>2 DEF Safe, HasSnap
    <3>4. Within' BY <2>2, <3>1 DEF PollInv, Within, HasSnap
    <3>5. Bounds' BY <3>1 DEF PollInv, Bounds, HasSnap
    <3>6. QED BY <2>2, <2>3, <3>3, <3>4, <3>5 DEF PollInv, Guarded
  <2>5. CASE snap.job # slot[d].job
    <3>1. cursor' = cursor /\ snap' = snap BY <1>8, <2>5 DEF Settle
    <3>2. Settled => Safe' BY <2>1, <3>1 DEF Safe, HasSnap
    <3>3. Within' /\ Bounds' BY <2>1, <2>2, <3>1, StoreAlone
    <3>4. QED BY <2>2, <2>3, <3>2, <3>3 DEF PollInv, Guarded
  <2>6. QED BY <2>4, <2>5
<1>9. ASSUME NEW e \in Events, StartRun(d, e) PROVE PollInv'
  <2>1. /\ slot'[d].at = "start" /\ slot'[d].todo = slot[d].todo \ {e} /\ ~slot'[d].orphan
        /\ slot'[d].job = slot[d].job /\ slot'[d].failed = slot[d].failed
        /\ \A c \in Slots \ {d} : slot'[c] = slot[c]
        /\ done' = done \cup {e}
        /\ UNCHANGED <<cursor, snap, jobs>>
    BY <1>9 DEF StartRun, Store, Queue, Dispatches
  <2>2. OnePoll' /\ \A c \in Slots \ {d} : slot'[c].at = "idle" BY <2>1
  <2>3. Settled => Owned' /\ HandsOver' BY <1>9, <2>1, <2>2 DEF Owned, HandsOver, StartRun
  <2>4. Settled => Safe' BY <2>1 DEF Safe, HasSnap
  <2>5. Within' /\ Bounds' BY <2>1, <2>2, StoreAlone
  <2>6. QED BY <2>2, <2>3, <2>4, <2>5 DEF PollInv, Guarded
<1>10. CASE CompleteJob(d)
  <2>1. /\ slot'[d].at = "settle" /\ ~slot'[d].orphan
        /\ slot'[d].job = slot[d].job /\ slot'[d].failed = slot[d].failed
        /\ \A c \in Slots \ {d} : slot'[c] = slot[c]
        /\ jobs'[slot[d].job] # "queued"
        /\ UNCHANGED <<cursor, snap, done>>
    BY <1>10 DEF CompleteJob, Store, Outside, Dispatches
  <2>2. OnePoll' /\ \A c \in Slots \ {d} : slot'[c].at = "idle" BY <2>1
  <2>3. Settled => Owned' /\ HandsOver'
    BY <1>10, <2>1, <2>2 DEF Owned, HandsOver, HasSnap, CompleteJob
  <2>4. Settled => Safe' BY <2>1 DEF Safe, HasSnap
  <2>5. Within' /\ Bounds' BY <2>1, <2>2, StoreAlone
  <2>6. QED BY <2>2, <2>3, <2>4, <2>5 DEF PollInv, Guarded
<1>11. CASE TriggerFails(d)
  <2>1. /\ slot'[d].at = "complete" /\ ~slot'[d].orphan /\ slot'[d].job = slot[d].job
        /\ \A c \in Slots \ {d} : slot'[c] = slot[c]
        /\ UNCHANGED <<cursor, snap, jobs, done>>
    BY <1>11 DEF TriggerFails, Protected, Queue, Outside, Dispatches
  <2>2. OnePoll' /\ \A c \in Slots \ {d} : slot'[c].at = "idle" BY <2>1
  <2>3. Settled => Owned' /\ HandsOver'
    BY <1>11, <2>1, <2>2 DEF Owned, HandsOver, HasSnap, TriggerFails
  <2>4. Settled => Safe' BY <2>1 DEF Safe, HasSnap
  <2>5. Within' /\ Bounds' BY <2>1, <2>2, StoreAlone
  <2>6. QED BY <2>2, <2>3, <2>4, <2>5 DEF PollInv, Guarded
\* A failure that only marks the dispatch as failed, or ends it.
<1>12. ASSUME \/ slot'[d].at \in {"complete", "settle", "start"} /\ slot'[d].failed
              \/ slot'[d].at = "idle",
              slot'[d].at = "start" => slot[d].at = "start",
              slot'[d].at # "idle" => slot'[d].job = slot[d].job,
              ~slot'[d].orphan, \A c \in Slots \ {d} : slot'[c] = slot[c],
              UNCHANGED <<cursor, snap, jobs, done>>
       PROVE  PollInv'
  <2>1. OnePoll' /\ \A c \in Slots \ {d} : slot'[c].at = "idle" BY <1>12
  <2>2. Settled => Owned' /\ HandsOver'
    BY <1>12, <2>1 DEF Owned, HandsOver, TypeOK, SlotsTyped, Dispatches, Phases
  <2>3. Settled => Safe' BY <1>12 DEF Safe, HasSnap
  <2>4. Within' /\ Bounds' BY <1>12, <2>1, StoreAlone
  <2>5. QED BY <2>1, <2>2, <2>3, <2>4 DEF PollInv, Guarded
<1>13. CASE BatchFails(d) \/ PollFails(d) \/ MoveFails(d)
  <2>1. /\ slot'[d].at \in {"complete", "settle"} /\ slot'[d].failed
        /\ slot'[d].job = slot[d].job /\ ~slot'[d].orphan
        /\ \A c \in Slots \ {d} : slot'[c] = slot[c]
    <3>1. CASE BatchFails(d) \/ PollFails(d)
      <4>1. Becomes(d, [slot[d] EXCEPT !.at = "complete", !.failed = TRUE])
        BY <3>1 DEF BatchFails, PollFails
      <4>2. QED BY <4>1 DEF Dispatches
    <3>2. CASE MoveFails(d) BY <3>2 DEF MoveFails, Dispatches
    <3>3. QED BY <1>13, <3>1, <3>2
  <2>2. UNCHANGED <<Store, Queue, Outside>>
    BY <1>13 DEF BatchFails, PollFails, MoveFails
  <2>3. QED BY <1>12, <2>1, <2>2 DEF Store, Queue, Outside
<1>14. CASE Crash(d)
  BY <1>12, <1>14 DEF Crash, Store, Queue, Outside, Idle
<1>15. ASSUME NEW e \in Events, StartFails(d, e) PROVE PollInv'
  BY <1>12, <1>15 DEF StartFails, Store, Queue, Outside, Dispatches
<1>16. CASE LoseWorker(d) BY <1>16, NoStray DEF LoseWorker
<1>17. QED
  BY <1>3, <1>4, <1>5, <1>6, <1>7, <1>8, <1>9, <1>10, <1>11, <1>13, <1>14, <1>15, <1>16
  DEF Polling, Failure

LEMMA NextPollInv ==
  ASSUME Protected
  PROVE  PollInv /\ [Next]_vars => PollInv'
  BY OutsidePollInv, BeginPollInv, PollingPollInv DEF Next

\* No event behind the cursor is ever without a run, a hand-over under way or a
\* snapshot to go back to, for any number of crashes, failed starts, timeouts and
\* failing settlements at any step of any number of polls, and any number of times
\* the trigger is disabled, enabled and published, at any moment; unless a poll was
\* under way while it was enabled.
THEOREM EventsAreKept ==
  ASSUME Protected
  PROVE  Spec => []NoEventLost
<1>1. PollInv => NoEventLost
  <2>1. SUFFICES ASSUME PollInv, trigger = "on", "crossing" \notin late,
                        NEW e \in 1..cursor
                 PROVE  e \in done \/ (HasSnap /\ e > snap.cursor)
    BY DEF NoEventLost
  <2>2. Safe BY <2>1 DEF PollInv, Guarded, Settled, Restarting
  <2>3. cursor \in Nat /\ snap.cursor \in Nat BY <2>1 DEF PollInv, TypeOK, StoreTyped
  <2>4. QED BY <2>2, <2>3 DEF Safe
<1>2. PollInv /\ [Next]_vars => PollInv' BY NextPollInv
<1>3. Init => PollInv BY InitPollInv
<1>4. QED BY <1>1, <1>2, <1>3, PTL DEF Spec

\* A trigger that was disabled and enabled polls from its own cursor on, whatever
\* polls were under way when the disabling began: no snapshot of the time before is
\* restored and no poll of that time moves the cursor back, except for a poll that
\* began between the disabling's discard and the enabling, or was still under way then.
THEOREM CursorIsOwn ==
  ASSUME Protected
  PROVE  Spec => []OwnCursor
<1>1. PollInv => OwnCursor BY DEF PollInv, Bounds, OwnCursor, Restarting
<1>2. PollInv /\ [Next]_vars => PollInv' BY NextPollInv
<1>3. Init => PollInv BY InitPollInv
<1>4. QED BY <1>1, <1>2, <1>3, PTL DEF Spec
=============================================================================
