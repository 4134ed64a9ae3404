------------------------ MODULE ConcurrencyGateProofs ------------------------
(***************************************************************************)
(* For every set of jobs and every assignment of tickets: the active set   *)
(* keeps to the limit under any number of faults; jobs that are tried once *)
(* go one at a time and in arrival order, crashes included; and without    *)
(* faults the executing runs keep to the limit too.                        *)
(***************************************************************************)
EXTENDS ConcurrencyGate, FiniteSetTheorems, WellFoundedInduction, TLAPS

(***************************************************************************)
(* TypeOK and SlotsBounded are not inductive.  What is missing: the locals *)
(* of liveQueueHead are those of the lock's holder, a job is held by a     *)
(* dispatch only while BullMQ has it active, and nothing adds to the       *)
(* active set between the count and the mark of an admission.              *)
(***************************************************************************)

\* A job in the critical section of admit holds the lock of the workflow.
AdmissionHoldsLock == \A j \in Jobs : phase[j] \in Locked => lock = j

\* Between the read of a head and its removal the head is a job, and the bound
\* of the loop is not reached.
HeadWasRead ==
  \A j \in Jobs : phase[j] \in {"alive", "drop"} =>
    check.head \in Jobs /\ check.dropped < MaxStaleHeads

\* A dispatch holds only jobs that BullMQ has active and may still run.
DispatchedIsActive ==
  \A j \in Jobs : phase[j] # "idle" => bull[j] = "active" /\ stalls[j] <= MaxStalledCount

\* Only a failed job has used up its attempts; a job not added is not in BullMQ.
AttemptsLeft ==
  \A j \in Jobs :
    /\ bull[j] # "failed" => attempts[j] < MaxAttempts
    /\ start[j] # "added" => bull[j] = "absent"

\* The count that let an admission through is still right when it marks.
RoomToMark ==
  \A j \in Jobs : phase[j] = "mark" => Cardinality(Active) < MaxRuns[j]

JobInv  == TypeOK /\ HeadWasRead /\ DispatchedIsActive /\ AttemptsLeft
GateInv == JobInv /\ AdmissionHoldsLock /\ RoomToMark /\ SlotsBounded

-----------------------------------------------------------------------------
LEMMA ActiveFinite == IsFiniteSet(Active) /\ Cardinality(Active) \in Nat
  BY JobsAssumption, FS_Subset, FS_CardinalityType DEF Active

\* A non-empty order-key set has a member with the lowest score.
LEMMA LowestScore ==
  ASSUME NEW Q \in SUBSET Jobs, Q # {}
  PROVE  \E i \in Q : \A k \in Q : EnqueuedAt[i] <= EnqueuedAt[k]
<1> DEFINE T == {EnqueuedAt[i] : i \in Q}
           R == {ss \in Nat \X Nat : ss[1] < ss[2]}
<1>1. T \subseteq Nat /\ T # {}
  BY TicketAssumption
<1>2. \E x \in T : \A y \in T : ~ (<<y, x>> \in R)
  <2>1. IsWellFoundedOn(R, Nat) BY NatLessThanWellFounded DEF OpToRel
  <2> HIDE DEF T, R
  <2>2. QED BY <1>1, <2>1, WFMin
<1>3. PICK i \in Q : \A y \in T : ~ (<<y, EnqueuedAt[i]>> \in R)
  BY <1>2
<1>4. ASSUME NEW k \in Q PROVE EnqueuedAt[i] <= EnqueuedAt[k]
  <2>1. EnqueuedAt[k] \in Nat /\ EnqueuedAt[i] \in Nat BY TicketAssumption
  <2>2. ~ (<<EnqueuedAt[k], EnqueuedAt[i]>> \in R) BY <1>3
  <2>3. ~ (EnqueuedAt[k] < EnqueuedAt[i]) BY <2>1, <2>2
  <2>4. QED BY <2>1, <2>3
<1>5. QED BY <1>4

LEMMA QueueHeadType ==
  ASSUME TypeOK, NEW j \in Jobs
  PROVE  QueueHead(j) \in Jobs \cup {NoJob}
<1>1. QueueOf(j) \in SUBSET Jobs BY DEF QueueOf, TypeOK
<1>2. CASE QueueOf(j) = {} BY <1>2 DEF QueueHead
<1>3. CASE QueueOf(j) # {}
  <2> DEFINE P(i) == \A k \in QueueOf(j) : EnqueuedAt[i] <= EnqueuedAt[k]
  <2>1. \E i \in QueueOf(j) : P(i) BY <1>1, <1>3, LowestScore
  <2>2. (CHOOSE i \in QueueOf(j) : P(i)) \in QueueOf(j) BY <2>1
  <2>3. QED BY <1>1, <1>3, <2>2 DEF QueueHead
<1>4. QED BY <1>2, <1>3

-----------------------------------------------------------------------------
(* Types and the state of each job. *)

LEMMA InitJobInv == Init => JobInv
  BY JobsAssumption, TicketAssumption, BoundAssumption
  DEF Init, JobInv, TypeOK, HeadWasRead, DispatchedIsActive, AttemptsLeft, Phases, Locked,
      SlotStates

\* One step of an admission: only its own phase moves.
LEMMA AdmissionJobInv ==
  ASSUME JobInv, AdmissionHoldsLock, NEW j \in Jobs, Admission(j) \/ Acquire(j)
  PROVE  JobInv'
<1> USE JobsAssumption, BoundAssumption
    DEF JobInv, TypeOK, HeadWasRead, DispatchedIsActive, AttemptsLeft, Phases, Locked,
        SlotStates, Goto, NoGateChange
<1>1. CASE Acquire(j) BY <1>1 DEF Acquire
<1>2. CASE AddToQueue(j) BY <1>2 DEF AddToQueue, AdmissionHoldsLock
<1>3. CASE ReadHead(j)
  <2>1. QueueHead(j) \in Jobs \cup {NoJob} BY QueueHeadType
  <2>2. QED BY <1>3, <2>1 DEF ReadHead, AdmissionHoldsLock
<1>4. CASE CheckHeadAlive(j) BY <1>4 DEF CheckHeadAlive
<1>5. CASE DropStaleHead(j) BY <1>5 DEF DropStaleHead, AdmissionHoldsLock
<1>6. CASE PruneActive(j) BY <1>6 DEF PruneActive
<1>7. CASE IsActive(j) BY <1>7 DEF IsActive
<1>8. CASE CountActive(j) BY <1>8 DEF CountActive
<1>9. CASE MarkActive(j) BY <1>9 DEF MarkActive
<1>10. CASE Grant(j) BY <1>10 DEF Grant
<1>11. CASE Reject(j) BY <1>11 DEF Reject
<1>12. QED
  BY <1>1, <1>2, <1>3, <1>4, <1>5, <1>6, <1>7, <1>8, <1>9, <1>10, <1>11 DEF Admission

LEMMA NextJobInv == JobInv /\ AdmissionHoldsLock /\ [Next]_vars => JobInv'
<1> SUFFICES ASSUME JobInv, AdmissionHoldsLock, [Next]_vars PROVE JobInv'
  OBVIOUS
<1> USE JobsAssumption, BoundAssumption
    DEF JobInv, TypeOK, HeadWasRead, DispatchedIsActive, AttemptsLeft, Phases, Locked,
        SlotStates, Goto, Fault, LeaveSlot
<1>1. ASSUME NEW j \in Jobs, Register(j) \/ AddJob(j) \/ AbandonStart(j) PROVE JobInv'
  BY <1>1 DEF Register, AddJob, AbandonStart
<1>2. ASSUME NEW j \in Jobs, Dequeue(j) \/ DequeueDeferred(j) PROVE JobInv'
  BY <1>2 DEF Dequeue, DequeueDeferred
<1>3. ASSUME NEW j \in Jobs, Complete(j) \/ FailAttempt(j) \/ ReturnToQueue(j) \/ MoveFails(j)
      PROVE  JobInv'
  <2>1. \A c \in Causes : Release(j, c) \in Calls
    BY DEF Release, Calls
  <2>2. releases' \in SUBSET Calls
    BY <1>3, <2>1 DEF Complete, FailAttempt, ReturnToQueue, MoveFails, EndDispatch, Causes
  <2>3. CASE Complete(j) BY <2>2, <2>3 DEF Complete, EndDispatch
  <2>4. CASE FailAttempt(j)
    <3>1. attempts[j] < MaxAttempts BY <2>4 DEF FailAttempt, EndDispatch
    <3>2. QED BY <2>2, <2>4, <3>1 DEF FailAttempt, EndDispatch
  <2>5. CASE ReturnToQueue(j) BY <2>2, <2>5 DEF ReturnToQueue, EndDispatch
  <2>6. CASE MoveFails(j) BY <2>2, <2>6 DEF MoveFails
  <2>7. QED BY <1>3, <2>3, <2>4, <2>5, <2>6
<1>4. ASSUME NEW j \in Jobs, LoseDispatch(j) PROVE JobInv'
  BY <1>4 DEF LoseDispatch
<1>5. ASSUME NEW j \in Jobs, StalledScan(j) \/ SlotExpires(j) PROVE JobInv'
  BY <1>5 DEF StalledScan, SlotExpires
<1>6. ASSUME NEW r \in releases, ReleaseStep(r) PROVE JobInv'
  <2>1. r \in Calls /\ [r EXCEPT !.at = "queue"] \in Calls BY DEF Calls
  <2>2. QED BY <1>6, <2>1 DEF ReleaseStep, RemoveActive, RemoveFromQueue, LoseRelease, Calls
<1>7. CASE Done \/ UNCHANGED vars
  BY <1>7 DEF Done, vars
<1>8. QED
  BY <1>1, <1>2, <1>3, <1>4, <1>5, <1>6, <1>7, AdmissionJobInv DEF Next, JobStep

-----------------------------------------------------------------------------
(* The lock of the workflow and the active set. *)

LEMMA NextAdmissionHoldsLock ==
  JobInv /\ AdmissionHoldsLock /\ [Next]_vars => AdmissionHoldsLock'
<1> SUFFICES ASSUME TypeOK, AdmissionHoldsLock, [Next]_vars PROVE AdmissionHoldsLock'
  BY DEF JobInv
<1> USE JobsAssumption DEF TypeOK, AdmissionHoldsLock, Locked, Goto, NoGateChange
<1>1. ASSUME NEW j \in Jobs, Admission(j) \/ Acquire(j) PROVE AdmissionHoldsLock'
  BY <1>1 DEF Admission, Acquire, AddToQueue, ReadHead, CheckHeadAlive, DropStaleHead,
              PruneActive, IsActive, CountActive, MarkActive, Grant, Reject
<1>2. ASSUME NEW j \in Jobs, LoseDispatch(j) PROVE AdmissionHoldsLock'
  BY <1>2 DEF LoseDispatch
<1>3. ASSUME NEW j \in Jobs, Complete(j) \/ FailAttempt(j) \/ ReturnToQueue(j) \/ MoveFails(j)
      PROVE  AdmissionHoldsLock'
  BY <1>3 DEF Complete, FailAttempt, ReturnToQueue, MoveFails, EndDispatch
<1>4. ASSUME NEW j \in Jobs, \/ Register(j) \/ AddJob(j) \/ AbandonStart(j) \/ Dequeue(j)
                             \/ DequeueDeferred(j) \/ StalledScan(j) \/ SlotExpires(j)
      PROVE  AdmissionHoldsLock'
  BY <1>4 DEF Register, AddJob, AbandonStart, Dequeue, DequeueDeferred, StalledScan, SlotExpires
<1>5. ASSUME NEW r \in releases, ReleaseStep(r) PROVE AdmissionHoldsLock'
  BY <1>5 DEF ReleaseStep, RemoveActive, RemoveFromQueue, LoseRelease
<1>6. CASE Done \/ UNCHANGED vars
  BY <1>6 DEF Done, vars
<1>7. QED BY <1>1, <1>2, <1>3, <1>4, <1>5, <1>6 DEF Next, JobStep

\* Only MarkActive adds to the active set, and only CountActive lets a job mark.
LEMMA ActiveShrinks ==
  ASSUME TypeOK, [Next]_vars, \A j \in Jobs : ~ MarkActive(j)
  PROVE  /\ Active' \subseteq Active
         /\ \A j \in Jobs : phase'[j] = "mark" => phase[j] = "mark" \/ CountActive(j)
<1> DEFINE Goal == /\ Active' \subseteq Active
                   /\ \A i \in Jobs : phase'[i] = "mark" => phase[i] = "mark" \/ CountActive(i)
<1> USE DEF TypeOK, Active, Goto, NoGateChange, LeaveSlot
<1>1. ASSUME NEW j \in Jobs, Admission(j) \/ Acquire(j) PROVE Goal
  <2>1. CASE Acquire(j) BY <2>1 DEF Acquire
  <2>2. CASE AddToQueue(j) \/ DropStaleHead(j) BY <2>2 DEF AddToQueue, DropStaleHead
  <2>3. CASE ReadHead(j) BY <2>3 DEF ReadHead
  <2>4. CASE CheckHeadAlive(j) BY <2>4 DEF CheckHeadAlive
  <2>5. CASE PruneActive(j) BY <2>5 DEF PruneActive
  <2>6. CASE IsActive(j) BY <2>6 DEF IsActive
  <2>7. CASE CountActive(j)
    <3>1. UNCHANGED slot /\ \A i \in Jobs : i # j => phase'[i] = phase[i]
      BY <2>7 DEF CountActive
    <3>2. QED BY <2>7, <3>1
  <2>8. CASE Grant(j) \/ Reject(j) BY <2>8 DEF Grant, Reject
  <2>9. QED BY <1>1, <2>1, <2>2, <2>3, <2>4, <2>5, <2>6, <2>7, <2>8 DEF Admission
<1>2. ASSUME NEW j \in Jobs, LoseDispatch(j) PROVE Goal
  BY <1>2 DEF LoseDispatch
<1>3. ASSUME NEW j \in Jobs, Complete(j) \/ FailAttempt(j) \/ ReturnToQueue(j) \/ MoveFails(j)
      PROVE  Goal
  BY <1>3 DEF Complete, FailAttempt, ReturnToQueue, MoveFails, EndDispatch
<1>4. ASSUME NEW j \in Jobs, \/ Register(j) \/ AddJob(j) \/ AbandonStart(j) \/ Dequeue(j)
                             \/ DequeueDeferred(j) \/ StalledScan(j) \/ SlotExpires(j)
      PROVE  Goal
  BY <1>4 DEF Register, AddJob, AbandonStart, Dequeue, DequeueDeferred, StalledScan, SlotExpires
<1>5. ASSUME NEW r \in releases, ReleaseStep(r) PROVE Goal
  BY <1>5 DEF ReleaseStep, RemoveActive, RemoveFromQueue, LoseRelease, Calls
<1>6. CASE Done \/ UNCHANGED vars
  BY <1>6 DEF Done, vars
<1>7. QED BY <1>1, <1>2, <1>3, <1>4, <1>5, <1>6 DEF Next, JobStep

LEMMA NextSlotsBounded == GateInv /\ [Next]_vars => RoomToMark' /\ SlotsBounded'
<1> SUFFICES ASSUME GateInv, [Next]_vars PROVE RoomToMark' /\ SlotsBounded'
  OBVIOUS
<1> USE DEF GateInv, JobInv
<1>1. MaxRuns \in [Jobs -> Nat] /\ Limit \in Nat /\ \A j \in Jobs : MaxRuns[j] <= Limit
  BY TicketAssumption
<1>2. IsFiniteSet(Active) /\ Cardinality(Active) \in Nat
  BY ActiveFinite
<1>3. CASE \E j \in Jobs : MarkActive(j)
  <2>1. PICK j \in Jobs : MarkActive(j) BY <1>3
  <2>2. Active' = Active \cup {j} BY <2>1 DEF MarkActive, Active, TypeOK
  <2>3. Cardinality(Active') <= Cardinality(Active) + 1
    <3>1. Cardinality(Active \cup {j}) =
            IF j \in Active THEN Cardinality(Active) ELSE Cardinality(Active) + 1
      BY <1>2, FS_AddElement
    <3>2. QED BY <1>2, <2>2, <3>1
  <2>4. Cardinality(Active') \in Nat BY <1>2, <2>2, FS_AddElement, FS_CardinalityType
  <2>5. Cardinality(Active) < MaxRuns[j] BY <2>1 DEF MarkActive, RoomToMark
  <2>6. SlotsBounded' BY <1>1, <1>2, <2>3, <2>4, <2>5 DEF SlotsBounded
  <2>7. \A i \in Jobs : phase'[i] # "mark"
    BY <2>1 DEF MarkActive, Goto, AdmissionHoldsLock, Locked, TypeOK
  <2>8. QED BY <2>6, <2>7 DEF RoomToMark
<1>4. CASE \A j \in Jobs : ~ MarkActive(j)
  <2>1. Active' \subseteq Active BY <1>4, ActiveShrinks
  <2>2. Cardinality(Active') <= Cardinality(Active) BY <1>2, <2>1, FS_Subset
  <2>3. Cardinality(Active') \in Nat BY <1>2, <2>1, FS_Subset, FS_CardinalityType
  <2>4. SlotsBounded' BY <1>1, <1>2, <2>2, <2>3 DEF SlotsBounded
  <2>5. ASSUME NEW j \in Jobs, phase'[j] = "mark" PROVE Cardinality(Active') < MaxRuns[j]
    <3>1. CASE phase[j] = "mark"
      BY <1>1, <1>2, <2>2, <2>3, <3>1 DEF RoomToMark
    <3>2. CASE CountActive(j)
      <4>1. Cardinality(Active) < MaxRuns[j]
        BY <1>1, <1>2, <2>5, <3>2 DEF CountActive, Goto, TypeOK
      <4>2. QED BY <1>1, <1>2, <2>2, <2>3, <4>1
    <3>3. QED BY <1>4, <2>5, <3>1, <3>2, ActiveShrinks
  <2>6. QED BY <2>4, <2>5 DEF RoomToMark
<1>5. QED BY <1>3, <1>4

LEMMA InitGateInv == Init => GateInv
<1> SUFFICES ASSUME Init PROVE GateInv
  OBVIOUS
<1>1. AdmissionHoldsLock /\ RoomToMark
  BY DEF Init, AdmissionHoldsLock, RoomToMark, Locked
<1>2. Active = {} BY DEF Init, Active
<1>3. SlotsBounded BY <1>2, FS_EmptySet, TicketAssumption DEF SlotsBounded
<1>4. QED BY <1>1, <1>3, InitJobInv DEF GateInv

\* The invariant of the gate, inductive over every operation and every fault.
THEOREM GateInvariant == Spec => []GateInv
<1>1. GateInv /\ [Next]_vars => GateInv'
  BY NextJobInv, NextAdmissionHoldsLock, NextSlotsBounded DEF GateInv
<1>2. QED BY <1>1, InitGateInv, PTL DEF Spec

\* Every variable keeps its type: in particular attempts and stalls stay within
\* BullMQ's limits and liveQueueHead never drops more heads than its bound.
THEOREM TypesHold == Spec => []TypeOK
<1>1. GateInv => TypeOK BY DEF GateInv, JobInv
<1>2. QED BY <1>1, GateInvariant, PTL

\* The active set of a workflow never exceeds the largest limit of its tickets,
\* whatever interleaves with the unlocked releases and whoever crashes.
THEOREM LimitHolds == Spec => []SlotsBounded
<1>1. GateInv => SlotsBounded BY DEF GateInv
<1>2. QED BY <1>1, GateInvariant, PTL

\* The gate implements the pool of slots: a mark is a Take under the limit of its
\* own ticket, since the count still holds when the job marks, and every other
\* step frees slots or leaves them alone.
THEOREM GateIsPool == Spec => ImplementsPool
<1>1. Init => Pool!Init
  BY DEF Init, Pool!Init, Active
<1>2. GateInv /\ [Next]_vars => [Pool!Next]_Active
  <2> SUFFICES ASSUME GateInv, [Next]_vars PROVE Pool!Next
    OBVIOUS
  <2>1. CASE \E j \in Jobs : MarkActive(j)
    <3>1. PICK j \in Jobs : MarkActive(j) BY <2>1
    <3>2. Active' = Active \cup {j}
      BY <3>1 DEF GateInv, JobInv, MarkActive, Active, TypeOK
    <3>3. Cardinality(Active) < MaxRuns[j]
      BY <3>1 DEF GateInv, RoomToMark, MarkActive
    <3>4. Cardinality(Active) = Pool!Cardinality(Active)
      BY DEF Cardinality, Pool!Cardinality
    <3>5. QED BY <3>2, <3>3, <3>4 DEF Pool!Next, Pool!Take
  <2>2. CASE \A j \in Jobs : ~ MarkActive(j)
    <3>1. Active' \in SUBSET Active
      BY <2>2, ActiveShrinks DEF GateInv, JobInv
    <3>2. QED BY <3>1 DEF Pool!Next, Pool!Free
  <2>3. QED BY <2>1, <2>2
<1>3. QED
  BY <1>1, <1>2, GateInvariant, PTL DEF Spec, ImplementsPool, Pool!Spec

-----------------------------------------------------------------------------
(***************************************************************************)
(* Order.  A job that may still run stays in its order queue, so that only *)
(* settled jobs are ahead of the head.  Crashes do not disturb this; a     *)
(* returned job does, since its release takes it out of the queue while it *)
(* waits to be dequeued again, and so does a retry.                        *)
(***************************************************************************)
Earlier(i, j) == SameKey(i, j) /\ EnqueuedAt[i] < EnqueuedAt[j]

\* A batch is started one event after the other.
StartOrder ==
  \A i, j \in Jobs : Earlier(i, j) /\ start[j] # "new" => start[i] \in {"added", "abandoned"}

\* What may still run is queued.
StaysQueued ==
  \A j \in Jobs : start[j] # "new" /\ OrderKey[j] # NoKey => Settled(j) \/ j \in orderq

ReleasedIsSettled == \A r \in releases : Settled(r.job)

\* The head in hand is ahead of its reader, and settled once it is to be dropped.
HeadIsEarlier ==
  \A j \in Jobs :
    /\ phase[j] \in {"alive", "drop"} => Earlier(check.head, j)
    /\ phase[j] = "drop" => Settled(check.head)

\* Past the head of its queue, a job has only settled jobs before it.
PassedHead ==
  \A i, j \in Jobs :
    phase[j] \in {"limit", "holds", "count", "mark", "grant", "running"} /\ Earlier(i, j)
      => Settled(i)

OrderInv ==
  /\ GateInv
  /\ StartOrder /\ StaysQueued /\ ReleasedIsSettled /\ HeadIsEarlier /\ PassedHead

(***************************************************************************)
(* Limit.  Without faults a limited run has its own live slot, from the    *)
(* mark until it ends; a slot it leaves is removed before it is dequeued   *)
(* again.                                                                  *)
(***************************************************************************)
SlotIsLive ==
  \A j \in Jobs :
    /\ phase[j] \in {"grant", "running"} /\ MaxRuns[j] > 0 => slot[j] = "live"
    /\ phase[j] \notin {"grant", "running"} =>
         slot[j] = "none" \/ \E r \in releases : r.job = j /\ r.at = "slot"

ReleasedIsIdle == \A r \in releases : r.cause = "end" /\ phase[r.job] = "idle"

LimitInv == GateInv /\ SlotIsLive /\ ReleasedIsIdle

-----------------------------------------------------------------------------
(* The effect of any step, by variable. *)

LEMMA StartSteps ==
  ASSUME JobInv, [Next]_vars, NEW i \in Jobs
  PROVE  /\ \/ start'[i] = start[i]
            \/ Register(i) /\ start[i] = "new" /\ start'[i] = "registered"
            \/ start[i] = "registered" /\ start'[i] \in {"added", "abandoned"}
         /\ \/ bull'[i] = bull[i]
            \/ start[i] = "registered" \/ bull[i] \in {"queued", "active"}
<1> DEFINE Goal == /\ \/ start'[i] = start[i]
                      \/ Register(i) /\ start[i] = "new" /\ start'[i] = "registered"
                      \/ start[i] = "registered" /\ start'[i] \in {"added", "abandoned"}
                   /\ \/ bull'[i] = bull[i]
                      \/ start[i] = "registered" \/ bull[i] \in {"queued", "active"}
<1>0. start \in [Jobs -> {"new", "registered", "added", "abandoned"}] /\ DOMAIN bull = Jobs
  BY DEF JobInv, TypeOK
<1>a. \A j \in Jobs : phase[j] # "idle" => bull[j] = "active" BY DEF JobInv, DispatchedIsActive
<1>1. ASSUME NEW j \in Jobs, Admission(j) \/ Acquire(j) PROVE Goal
  BY <1>0, <1>a, <1>1 DEF Admission, Acquire, AddToQueue, ReadHead, CheckHeadAlive, DropStaleHead,
              PruneActive, IsActive, CountActive, MarkActive, Grant, Reject, NoGateChange
<1>2. ASSUME NEW j \in Jobs, LoseDispatch(j) \/ SlotExpires(j) PROVE Goal
  BY <1>2 DEF LoseDispatch, SlotExpires
<1>3. ASSUME NEW j \in Jobs, Complete(j) \/ FailAttempt(j) \/ ReturnToQueue(j) \/ MoveFails(j)
      PROVE  Goal
  BY <1>0, <1>a, <1>3 DEF Complete, FailAttempt, ReturnToQueue, MoveFails, EndDispatch
<1>4. ASSUME NEW j \in Jobs, Register(j) PROVE Goal
  BY <1>0, <1>4 DEF Register
<1>5. ASSUME NEW j \in Jobs, AddJob(j) \/ AbandonStart(j) PROVE Goal
  BY <1>0, <1>5 DEF AddJob, AbandonStart
<1>6. ASSUME NEW j \in Jobs, Dequeue(j) \/ DequeueDeferred(j) \/ StalledScan(j) PROVE Goal
  BY <1>0, <1>a, <1>6 DEF Dequeue, DequeueDeferred, StalledScan
<1>7. ASSUME NEW r \in releases, ReleaseStep(r) PROVE Goal
  BY <1>7 DEF ReleaseStep, RemoveActive, RemoveFromQueue, LoseRelease
<1>8. CASE Done \/ UNCHANGED vars
  BY <1>8 DEF Done, vars
<1>9. QED BY <1>1, <1>2, <1>3, <1>4, <1>5, <1>6, <1>7, <1>8 DEF Next, JobStep

\* A settled run stays settled, whatever happens.
LEMMA SettledStays ==
  ASSUME JobInv, [Next]_vars, NEW i \in Jobs, Settled(i) PROVE Settled(i)'
<1>1. start[i] \in {"added", "abandoned"} BY DEF Settled
<1>2. start'[i] = start[i] BY <1>1, StartSteps
<1>3. bull'[i] = bull[i] \/ bull[i] \in {"queued", "active"} BY <1>1, StartSteps
<1>4. QED BY <1>2, <1>3 DEF Settled

LEMMA QueueSteps ==
  ASSUME JobInv, [Next]_vars
  PROVE  /\ \A i \in orderq : \/ i \in orderq'
                              \/ \E j \in Jobs : phase[j] = "drop" /\ i = check.head
                              \/ \E r \in releases : i = r.job
         /\ \A i \in Jobs : Register(i) /\ OrderKey[i] # NoKey => i \in orderq'
<1> DEFINE Goal == \A i \in orderq : \/ i \in orderq'
                                     \/ \E j \in Jobs : phase[j] = "drop" /\ i = check.head
                                     \/ \E r \in releases : i = r.job
<1>1. ASSUME NEW j \in Jobs, Admission(j) \/ Acquire(j) PROVE Goal
  BY <1>1 DEF Admission, Acquire, AddToQueue, ReadHead, CheckHeadAlive, DropStaleHead,
              PruneActive, IsActive, CountActive, MarkActive, Grant, Reject, NoGateChange
<1>2. ASSUME NEW j \in Jobs, Complete(j) \/ FailAttempt(j) \/ ReturnToQueue(j) \/ MoveFails(j)
      PROVE  Goal
  BY <1>2 DEF Complete, FailAttempt, ReturnToQueue, MoveFails, EndDispatch
<1>3. ASSUME NEW j \in Jobs, Register(j) \/ AddJob(j) \/ AbandonStart(j) PROVE Goal
  BY <1>3 DEF Register, AddJob, AbandonStart
<1>4. ASSUME NEW j \in Jobs, \/ Dequeue(j) \/ DequeueDeferred(j) \/ StalledScan(j)
                             \/ LoseDispatch(j) \/ SlotExpires(j)
      PROVE  Goal
  BY <1>4 DEF Dequeue, DequeueDeferred, StalledScan, LoseDispatch, SlotExpires
<1>5. ASSUME NEW r \in releases, ReleaseStep(r) PROVE Goal
  BY <1>5 DEF ReleaseStep, RemoveActive, RemoveFromQueue, LoseRelease
<1>6. ASSUME Done \/ UNCHANGED vars PROVE Goal
  BY <1>6 DEF Done, vars
<1>7. Goal BY <1>1, <1>2, <1>3, <1>4, <1>5, <1>6 DEF Next, JobStep
<1>8. \A i \in Jobs : Register(i) /\ OrderKey[i] # NoKey => i \in orderq' BY DEF Register
<1>9. QED BY <1>7, <1>8

Past == {"limit", "holds", "count", "mark", "grant", "running"}

LEMMA PhaseSteps ==
  ASSUME JobInv, [Next]_vars, NEW i \in Jobs
  PROVE  /\ phase'[i] \in Past =>
              \/ phase[i] \in Past
              \/ ReadHead(i) /\ QueueHead(i) = i
              \/ Acquire(i) /\ OrderKey[i] = NoKey
         /\ phase'[i] = "alive" => phase[i] = "alive" \/ ReadHead(i)
         /\ phase'[i] = "drop" => phase[i] = "drop" \/ CheckHeadAlive(i)
<1> DEFINE Goal == /\ phase'[i] \in Past => \/ phase[i] \in Past
                                            \/ ReadHead(i) /\ QueueHead(i) = i
                                            \/ Acquire(i) /\ OrderKey[i] = NoKey
                   /\ phase'[i] = "alive" => phase[i] = "alive" \/ ReadHead(i)
                   /\ phase'[i] = "drop" => phase[i] = "drop" \/ CheckHeadAlive(i)
<1>0. DOMAIN phase = Jobs BY DEF JobInv, TypeOK
<1> USE <1>0 DEF Goto, Past
<1>1. ASSUME NEW j \in Jobs, Admission(j) \/ Acquire(j) PROVE Goal
  <2>1. CASE i # j
    <3>1. phase'[i] = phase[i]
      BY <1>1, <2>1 DEF Admission, Acquire, AddToQueue, ReadHead, CheckHeadAlive, DropStaleHead,
                PruneActive, IsActive, CountActive, MarkActive, Grant, Reject
    <3>2. QED BY <3>1
  <2>2. CASE i = j
    <3>1. CASE Acquire(i) BY <3>1 DEF Acquire
    <3>2. CASE ReadHead(i)
      <4>1. phase'[i] = "limit" => QueueHead(i) = i BY <3>2 DEF ReadHead
      <4>2. phase'[i] \in {"limit", "reject", "alive"} BY <3>2 DEF ReadHead
      <4>3. QED BY <3>2, <4>1, <4>2
    <3>3. CASE CheckHeadAlive(i) 
      <4>1. phase'[i] \in {"reject", "drop"} BY <3>3 DEF CheckHeadAlive
      <4>2. QED BY <3>3, <4>1
    <3>4. CASE AddToQueue(i) \/ DropStaleHead(i) BY <3>4 DEF AddToQueue, DropStaleHead
    <3>5. CASE PruneActive(i) \/ IsActive(i) \/ CountActive(i) \/ MarkActive(i) \/ Grant(i)
      <4>1. phase[i] \in Past BY <3>5 DEF PruneActive, IsActive, CountActive, MarkActive, Grant
      <4>2. phase'[i] \notin {"alive", "drop"}
        BY <3>5 DEF PruneActive, IsActive, CountActive, MarkActive, Grant
      <4>3. QED BY <4>1, <4>2
    <3>6. CASE Reject(i) BY <3>6 DEF Reject
    <3>7. QED BY <1>1, <2>2, <3>1, <3>2, <3>3, <3>4, <3>5, <3>6 DEF Admission
  <2>3. QED BY <2>1, <2>2
<1>2. ASSUME NEW j \in Jobs, Complete(j) \/ FailAttempt(j) \/ ReturnToQueue(j) \/ MoveFails(j)
      PROVE  Goal
  BY <1>2 DEF Complete, FailAttempt, ReturnToQueue, MoveFails, EndDispatch
<1>3. ASSUME NEW j \in Jobs, Register(j) \/ AddJob(j) \/ AbandonStart(j) PROVE Goal
  BY <1>3 DEF Register, AddJob, AbandonStart
<1>4. ASSUME NEW j \in Jobs, \/ Dequeue(j) \/ DequeueDeferred(j) \/ StalledScan(j)
                             \/ LoseDispatch(j) \/ SlotExpires(j)
      PROVE  Goal
  BY <1>4 DEF Dequeue, DequeueDeferred, StalledScan, LoseDispatch, SlotExpires
<1>5. ASSUME NEW r \in releases, ReleaseStep(r) PROVE Goal
  BY <1>5 DEF ReleaseStep, RemoveActive, RemoveFromQueue, LoseRelease
<1>6. CASE Done \/ UNCHANGED vars
  BY <1>6 DEF Done, vars
<1>7. QED BY <1>1, <1>2, <1>3, <1>4, <1>5, <1>6 DEF Next, JobStep

\* The locals of liveQueueHead change only by the holder of the lock.
LEMMA CheckSteps ==
  ASSUME JobInv, AdmissionHoldsLock, [Next]_vars, NEW i \in Jobs, phase[i] \in {"alive", "drop"},
         phase'[i] \in {"alive", "drop"}
  PROVE  check' = check
<1>0. DOMAIN phase = Jobs BY DEF JobInv, TypeOK
<1>1. ASSUME NEW j \in Jobs, AddToQueue(j) \/ ReadHead(j) \/ DropStaleHead(j) PROVE FALSE
  <2>1. phase[j] \in Locked /\ phase[i] \in Locked
    BY <1>1 DEF AddToQueue, ReadHead, DropStaleHead, Locked
  <2>2. i = j BY <2>1 DEF AdmissionHoldsLock
  <2>3. DropStaleHead(j) BY <1>1, <2>2 DEF AddToQueue, ReadHead
  <2>4. QED BY <1>0, <2>2, <2>3 DEF DropStaleHead, Goto
<1>2. ASSUME NEW j \in Jobs, Admission(j) \/ Acquire(j) PROVE check' = check
  BY <1>1, <1>2 DEF Admission, Acquire, CheckHeadAlive, PruneActive, IsActive, CountActive,
     MarkActive, Grant, Reject
<1>3. ASSUME NEW j \in Jobs, Complete(j) \/ FailAttempt(j) \/ ReturnToQueue(j) \/ MoveFails(j)
      PROVE  check' = check
  BY <1>3 DEF Complete, FailAttempt, ReturnToQueue, MoveFails, EndDispatch
<1>4. ASSUME NEW j \in Jobs, Register(j) \/ AddJob(j) \/ AbandonStart(j) PROVE check' = check
  BY <1>4 DEF Register, AddJob, AbandonStart
<1>5. ASSUME NEW j \in Jobs, \/ Dequeue(j) \/ DequeueDeferred(j) \/ StalledScan(j)
                             \/ LoseDispatch(j) \/ SlotExpires(j)
      PROVE  check' = check
  BY <1>5 DEF Dequeue, DequeueDeferred, StalledScan, LoseDispatch, SlotExpires
<1>6. ASSUME NEW r \in releases, ReleaseStep(r) PROVE check' = check
  BY <1>6 DEF ReleaseStep, RemoveActive, RemoveFromQueue, LoseRelease
<1>7. CASE Done \/ UNCHANGED vars
  BY <1>7 DEF Done, vars
<1>8. QED BY <1>2, <1>3, <1>4, <1>5, <1>6, <1>7 DEF Next, JobStep

-----------------------------------------------------------------------------
(* Preservation of the order. *)

\* No run that comes back gives up its place.
NoReturn == \A j \in Jobs : ~ReturnToQueue(j) /\ ~MoveFails(j)

LEMMA InitOrderInv == Init => OrderInv
  BY InitGateInv
  DEF Init, OrderInv, StartOrder, StaysQueued, ReleasedIsSettled, HeadIsEarlier, PassedHead

\* zrange key 0 0 of a non-empty set is its member with the lowest score.
LEMMA QueueHeadIsLowest ==
  ASSUME TypeOK, NEW j \in Jobs, QueueHead(j) # NoJob
  PROVE  /\ QueueHead(j) \in QueueOf(j)
         /\ \A k \in QueueOf(j) : EnqueuedAt[QueueHead(j)] <= EnqueuedAt[k]
<1>1. QueueOf(j) \in SUBSET Jobs /\ QueueOf(j) # {} BY DEF QueueOf, TypeOK, QueueHead
<1> DEFINE P(i) == \A k \in QueueOf(j) : EnqueuedAt[i] <= EnqueuedAt[k]
<1>2. \E i \in QueueOf(j) : P(i) BY <1>1, LowestScore
<1>3. PICK h : h = CHOOSE i \in QueueOf(j) : P(i) OBVIOUS
<1>4. h \in QueueOf(j) /\ P(h) BY <1>2, <1>3
<1>5. QueueHead(j) = h BY <1>1, <1>3 DEF QueueHead
<1>6. QED BY <1>4, <1>5

\* A job in hand is added and not settled, hence in its order queue.
LEMMA InHand ==
  ASSUME OrderInv, NEW j \in Jobs, phase[j] # "idle"
  PROVE  /\ start[j] = "added" /\ ~Settled(j)
         /\ OrderKey[j] # NoKey => j \in QueueOf(j)
<1>1. bull[j] = "active" BY DEF OrderInv, GateInv, JobInv, DispatchedIsActive
<1>2. start[j] = "added" BY <1>1 DEF OrderInv, GateInv, JobInv, AttemptsLeft
<1>3. ~Settled(j) BY <1>1, <1>2 DEF Settled
<1>4. OrderKey[j] # NoKey => j \in orderq BY <1>2, <1>3 DEF OrderInv, StaysQueued
<1>5. QED BY <1>2, <1>3, <1>4 DEF QueueOf, SameKey

\* Everything before the head of a queue is settled.
LEMMA HeadOfQueue ==
  ASSUME OrderInv, NEW j \in Jobs, phase[j] # "idle", QueueHead(j) = j,
         NEW i \in Jobs, Earlier(i, j)
  PROVE  Settled(i)
<1>1. SameKey(i, j) /\ EnqueuedAt[i] < EnqueuedAt[j] BY DEF Earlier
<1>2. start[i] \in {"added", "abandoned"} BY InHand DEF OrderInv, StartOrder
<1>3. OrderKey[i] # NoKey BY <1>1 DEF SameKey
<1>4. ASSUME i \in orderq PROVE FALSE
  <2>1. i \in QueueOf(j) BY <1>1, <1>4 DEF QueueOf
  <2>2. QueueHead(j) # NoJob BY JobsAssumption
  <2>3. EnqueuedAt[j] <= EnqueuedAt[i]
    BY <2>1, <2>2, QueueHeadIsLowest DEF OrderInv, GateInv, JobInv
  <2>4. EnqueuedAt[i] \in Nat /\ EnqueuedAt[j] \in Nat BY TicketAssumption
  <2>5. QED BY <1>1, <2>3, <2>4
<1>5. QED BY <1>2, <1>3, <1>4 DEF OrderInv, StaysQueued

LEMMA NextStartOrder ==
  ASSUME ParallelStarts = FALSE, OrderInv, [Next]_vars PROVE StartOrder'
<1>1. JobInv BY DEF OrderInv, GateInv
<1> SUFFICES ASSUME NEW i \in Jobs, NEW j \in Jobs, Earlier(i, j), start'[j] # "new"
             PROVE  start'[i] \in {"added", "abandoned"}
  BY DEF StartOrder, Earlier, SameKey
<1>2. start[i] \in {"added", "abandoned"}
  <2>1. CASE start[j] # "new" BY <2>1 DEF OrderInv, StartOrder
  <2>2. CASE start[j] = "new"
    <3>1. Register(j) BY <1>1, <2>2, StartSteps
    <3>2. QED BY <3>1 DEF Register, EarlierStarted, Earlier
  <2>3. QED BY <2>1, <2>2
<1>3. QED BY <1>1, <1>2, StartSteps

LEMMA NextStaysQueued == ASSUME OrderInv, [Next]_vars PROVE StaysQueued'
<1>1. JobInv BY DEF OrderInv, GateInv
<1> SUFFICES ASSUME NEW j \in Jobs, start'[j] # "new", OrderKey[j] # NoKey
             PROVE  Settled(j)' \/ j \in orderq'
  BY DEF StaysQueued, Settled
<1>2. CASE start[j] = "new"
  <2>1. Register(j) BY <1>1, <1>2, StartSteps
  <2>2. QED BY <1>1, <2>1, QueueSteps
<1>3. CASE start[j] # "new" /\ Settled(j) BY <1>1, <1>3, SettledStays
<1>4. CASE start[j] # "new" /\ ~Settled(j)
  <2>1. j \in orderq BY <1>4 DEF OrderInv, StaysQueued
  <2>2. ~\E r \in releases : j = r.job BY <1>4 DEF OrderInv, ReleasedIsSettled
  <2>3. ~\E i \in Jobs : phase[i] = "drop" /\ j = check.head
    BY <1>4 DEF OrderInv, HeadIsEarlier
  <2>4. QED BY <1>1, <2>1, <2>2, <2>3, QueueSteps
<1>5. QED BY <1>2, <1>3, <1>4

LEMMA NextReleasedIsSettled ==
  ASSUME MaxAttempts = 1, OrderInv, [Next]_vars, NoReturn PROVE ReleasedIsSettled'
<1>1. JobInv /\ TypeOK BY DEF OrderInv, GateInv, JobInv
<1>2. \A r \in releases : r.job \in Jobs BY <1>1 DEF TypeOK, Calls
<1>3. ASSUME NEW q \in releases' PROVE Settled(q.job)'
  <2>1. CASE \E r \in releases : r.job = q.job
    BY <1>1, <1>2, <2>1, SettledStays DEF OrderInv, ReleasedIsSettled
  <2>2. CASE \E j \in Jobs : (Complete(j) \/ FailAttempt(j)) /\ q.job = j
    <3>1. PICK j \in Jobs : (Complete(j) \/ FailAttempt(j)) /\ q.job = j BY <2>2
    <3>2. phase[j] = "running" BY <3>1 DEF Complete, FailAttempt, EndDispatch
    <3>3. start[j] = "added" BY <3>2, InHand
    <3>4. start'[j] = "added" BY <3>1, <3>3 DEF Complete, FailAttempt, EndDispatch
    <3>5. attempts[j] \in Nat BY <1>1 DEF TypeOK
    <3>6. bull'[j] \in {"absent", "failed"}
      BY <1>1, <3>1, <3>5 DEF Complete, FailAttempt, EndDispatch, TypeOK
    <3>7. QED BY <3>1, <3>4, <3>6 DEF Settled
  <2>3. (\E r \in releases : r.job = q.job)
          \/ \E j \in Jobs : (Complete(j) \/ FailAttempt(j)) /\ q.job = j
    <3> DEFINE Goal == \/ \E r \in releases : r.job = q.job
                       \/ \E j \in Jobs : (Complete(j) \/ FailAttempt(j)) /\ q.job = j
    <3>1. ASSUME NEW j \in Jobs, Admission(j) \/ Acquire(j) PROVE Goal
      BY <3>1 DEF Admission, Acquire, AddToQueue, ReadHead, CheckHeadAlive, DropStaleHead,
              PruneActive, IsActive, CountActive, MarkActive, Grant, Reject, NoGateChange
    <3>2. ASSUME NEW j \in Jobs, Complete(j) \/ FailAttempt(j) PROVE Goal
      BY <3>2 DEF Complete, FailAttempt, EndDispatch, Release
    <3>3. ASSUME NEW j \in Jobs, Register(j) \/ AddJob(j) \/ AbandonStart(j) PROVE Goal
      BY <3>3 DEF Register, AddJob, AbandonStart
    <3>4. ASSUME NEW j \in Jobs, \/ Dequeue(j) \/ DequeueDeferred(j) \/ StalledScan(j)
                                 \/ LoseDispatch(j) \/ SlotExpires(j)
          PROVE  Goal
      BY <3>4 DEF Dequeue, DequeueDeferred, StalledScan, LoseDispatch, SlotExpires
    <3>5. ASSUME NEW r \in releases, ReleaseStep(r) PROVE Goal
      <4>1. [r EXCEPT !.at = "queue"].job = r.job BY <1>1 DEF TypeOK, Calls
      <4>2. QED BY <3>5, <4>1 DEF ReleaseStep, RemoveActive, RemoveFromQueue, LoseRelease
    <3>6. ASSUME Done \/ UNCHANGED vars PROVE Goal
      BY <3>6 DEF Done, vars
    <3>7. QED BY <3>1, <3>2, <3>3, <3>4, <3>5, <3>6 DEF Next, JobStep, NoReturn
  <2>4. QED BY <2>1, <2>2, <2>3
<1>4. QED BY <1>3 DEF ReleasedIsSettled

LEMMA NextHeadIsEarlier == ASSUME OrderInv, [Next]_vars PROVE HeadIsEarlier'
<1>1. JobInv /\ TypeOK /\ AdmissionHoldsLock BY DEF OrderInv, GateInv, JobInv
<1> SUFFICES ASSUME NEW j \in Jobs, phase'[j] \in {"alive", "drop"}
             PROVE  /\ Earlier(check'.head, j)
                    /\ phase'[j] = "drop" => Settled(check.head)' /\ check' = check
  BY DEF HeadIsEarlier, Earlier, SameKey, Settled
<1>2. CASE phase[j] \in {"alive", "drop"}
  <2>1. check' = check BY <1>1, <1>2, CheckSteps
  <2>2. Earlier(check.head, j) /\ check.head \in Jobs
    BY <1>1, <1>2 DEF OrderInv, HeadIsEarlier, JobInv, HeadWasRead
  <2>3. ASSUME phase'[j] = "drop" PROVE Settled(check.head)
    <3>1. CASE phase[j] = "drop" BY <3>1 DEF OrderInv, HeadIsEarlier
    <3>2. CASE CheckHeadAlive(j)
      <4>1. start[check.head] \in {"added", "abandoned"}
        <5>1. start[j] = "added" BY <1>2, InHand
        <5>2. QED BY <2>2, <5>1 DEF OrderInv, StartOrder
      <4>2. ~IsJobAlive(check.head) BY <1>1, <2>3, <3>2 DEF CheckHeadAlive, Goto, TypeOK
      <4>3. bull[check.head] \in {"absent", "failed"} BY <1>1, <2>2, <4>2 DEF IsJobAlive, TypeOK
      <4>4. QED BY <4>1, <4>3 DEF Settled
    <3>3. QED BY <1>1, <2>3, <3>1, <3>2, PhaseSteps
  <2>4. phase'[j] = "drop" => Settled(check.head)' BY <1>1, <2>1, <2>2, <2>3, SettledStays DEF Settled
  <2>5. QED BY <2>1, <2>2, <2>4
<1>3. CASE phase[j] \notin {"alive", "drop"}
  <2>1. ReadHead(j) /\ phase'[j] = "alive"
    BY <1>1, <1>3, PhaseSteps DEF CheckHeadAlive
  <2>2. PICK h : h = QueueHead(j) OBVIOUS
  <2>3. h # j /\ h # NoJob BY <1>1, <2>1, <2>2 DEF ReadHead, Goto, TypeOK
  <2>4. check'.head = h BY <1>1, <2>1, <2>2 DEF ReadHead, TypeOK
  <2>5. h \in QueueOf(j) /\ \A k \in QueueOf(j) : EnqueuedAt[h] <= EnqueuedAt[k]
    BY <1>1, <2>2, <2>3, QueueHeadIsLowest
  <2>6. SameKey(h, j) /\ h \in Jobs BY <1>1, <2>5 DEF QueueOf, TypeOK
  <2>7. j \in QueueOf(j) BY <2>1, <2>6, InHand DEF ReadHead, SameKey
  <2>8. EnqueuedAt[h] \in Nat /\ EnqueuedAt[j] \in Nat /\ EnqueuedAt[h] # EnqueuedAt[j]
    BY <2>3, <2>6, TicketAssumption
  <2>9. EnqueuedAt[h] < EnqueuedAt[j] BY <2>5, <2>7, <2>8
  <2>10. QED BY <2>1, <2>4, <2>6, <2>9 DEF Earlier
<1>4. QED BY <1>2, <1>3

LEMMA NextPassedHead == ASSUME OrderInv, [Next]_vars PROVE PassedHead'
<1>1. JobInv BY DEF OrderInv, GateInv
<1> SUFFICES ASSUME NEW i \in Jobs, NEW j \in Jobs, phase'[j] \in Past, Earlier(i, j)
             PROVE  Settled(i)'
  BY DEF PassedHead, Past, Earlier, SameKey, Settled
<1>2. Settled(i)
  <2>1. CASE phase[j] \in Past BY <2>1 DEF OrderInv, PassedHead, Past
  <2>2. CASE ReadHead(j) /\ QueueHead(j) = j BY <2>2, HeadOfQueue DEF ReadHead
  <2>3. CASE OrderKey[j] = NoKey BY <2>3 DEF Earlier, SameKey
  <2>4. QED BY <1>1, <2>1, <2>2, <2>3, PhaseSteps
<1>3. QED BY <1>1, <1>2, SettledStays

LEMMA NextOrderInv ==
  ASSUME MaxAttempts = 1, ParallelStarts = FALSE
  PROVE  OrderInv /\ [Next /\ NoReturn]_vars => OrderInv'
<1> SUFFICES ASSUME OrderInv, [Next /\ NoReturn]_vars PROVE OrderInv'
  OBVIOUS
<1>1. [Next]_vars OBVIOUS
<1>2. GateInv'
  BY <1>1, NextJobInv, NextAdmissionHoldsLock, NextSlotsBounded DEF OrderInv, GateInv
<1>3. NoReturn
  <2>1. CASE UNCHANGED vars
    <3>1. ASSUME NEW j \in Jobs, ReturnToQueue(j) \/ MoveFails(j) PROVE FALSE
      <4>1. faults' = faults + 1 /\ faults' = faults
        BY <2>1, <3>1 DEF ReturnToQueue, MoveFails, Fault, vars
      <4>2. faults \in Nat BY BoundAssumption DEF OrderInv, GateInv, JobInv, TypeOK
      <4>3. QED BY <4>1, <4>2
    <3>2. QED BY <3>1 DEF NoReturn
  <2>2. QED BY <2>1
<1>4. QED
  BY <1>1, <1>2, <1>3, NextStartOrder, NextStaysQueued, NextReleasedIsSettled, NextHeadIsEarlier,
     NextPassedHead DEF OrderInv

\* Two runs of one order key that are past the head: neither is before the other.
LEMMA OrderInvImplies ==
  /\ OrderInv => OneRunPerKey
  /\ OrderInv /\ [Next]_vars =>
       [\A j \in Jobs : starts'[j] > starts[j] =>
          \A i \in Jobs : SameKey(i, j) /\ EnqueuedAt[i] < EnqueuedAt[j] => Settled(i)]_vars
<1>1. ASSUME OrderInv PROVE OneRunPerKey
  <2> SUFFICES ASSUME NEW i \in Running, NEW j \in Running, SameKey(i, j), i # j PROVE FALSE
    BY DEF OneRunPerKey
  <2>1. i \in Jobs /\ j \in Jobs /\ phase[i] = "running" /\ phase[j] = "running" BY DEF Running
  <2>2. ~Settled(i) /\ ~Settled(j) BY <1>1, <2>1, InHand
  <2>3. EnqueuedAt[i] \in Nat /\ EnqueuedAt[j] \in Nat /\ EnqueuedAt[i] # EnqueuedAt[j]
    BY <2>1, TicketAssumption
  <2>4. Earlier(i, j) \/ Earlier(j, i) BY <2>3 DEF Earlier, SameKey
  <2>5. QED BY <1>1, <2>1, <2>2, <2>4 DEF OrderInv, PassedHead
<1>2. ASSUME OrderInv, [Next]_vars, NEW j \in Jobs, starts'[j] > starts[j]
      PROVE  phase[j] = "grant"
  <2>1. starts \in [Jobs -> Nat] BY <1>2 DEF OrderInv, GateInv, JobInv, TypeOK
  <2>2. ASSUME starts' = starts PROVE FALSE BY <1>2, <2>1, <2>2
  <2>3. PICK i \in Jobs : Grant(i)
    BY <1>2, <2>2 DEF Next, JobStep, ReleaseStep, Done, vars, Register, AddJob, AbandonStart,
       Dequeue, DequeueDeferred, Acquire, Admission, AddToQueue, ReadHead, CheckHeadAlive,
       DropStaleHead, PruneActive, IsActive, CountActive, MarkActive, Reject, Complete,
       FailAttempt, ReturnToQueue, MoveFails, EndDispatch, LoseDispatch, StalledScan, SlotExpires,
       RemoveActive, RemoveFromQueue, LoseRelease
  <2>4. i = j BY <1>2, <2>1, <2>3 DEF Grant
  <2>5. QED BY <2>3, <2>4 DEF Grant
<1>3. QED BY <1>1, <1>2 DEF OrderInv, PassedHead, Earlier

\* Runs of one order key reach the workers one at a time and in the order of
\* their events, when the events are started one after the other and tried once,
\* for any number of workers and API processes that die anywhere between two
\* Redis commands, as long as no dispatched job is returned to the queue and no
\* move of a completed one fails: both release the place of a run that comes back.
THEOREM OrderSurvivesCrashes ==
  ASSUME MaxAttempts = 1, ParallelStarts = FALSE
  PROVE  Init /\ [][Next /\ NoReturn]_vars => []OneRunPerKey /\ ArrivalOrder
<1>1. [Next /\ NoReturn]_vars => [Next]_vars OBVIOUS
<1>2. QED BY <1>1, InitOrderInv, NextOrderInv, OrderInvImplies, PTL DEF ArrivalOrder

LEMMA NoFaultNoReturn ==
  ASSUME MaxFaults = 0, GateInv, [Next]_vars
  PROVE  ~Fault /\ [Next /\ NoReturn]_vars
<1>1. faults \in 0..0 BY DEF GateInv, JobInv, TypeOK
<1>2. ~Fault BY <1>1 DEF Fault
<1>3. QED BY <1>2 DEF NoReturn, ReturnToQueue, MoveFails

\* Runs with the same order key are on workers one at a time, without faults.
THEOREM OneRunPerKeyHolds ==
  ASSUME MaxFaults = 0, MaxAttempts = 1, ParallelStarts = FALSE
  PROVE  Spec => []OneRunPerKey
<1>1. OrderInv /\ [Next]_vars => OrderInv'
  BY NoFaultNoReturn, NextOrderInv DEF OrderInv
<1>2. QED BY <1>1, InitOrderInv, OrderInvImplies, PTL DEF Spec

\* A run reaches a worker only when every earlier run of its order key is over,
\* without faults.
THEOREM ArrivalOrderHolds ==
  ASSUME MaxFaults = 0, MaxAttempts = 1, ParallelStarts = FALSE
  PROVE  Spec => ArrivalOrder
<1>1. OrderInv /\ [Next]_vars => OrderInv'
  BY NoFaultNoReturn, NextOrderInv DEF OrderInv
<1>2. QED BY <1>1, InitOrderInv, OrderInvImplies, PTL DEF Spec, ArrivalOrder

-----------------------------------------------------------------------------
(* Limited runs and their slots. *)

LEMMA InitLimitInv == Init => LimitInv
  BY InitGateInv DEF Init, LimitInv, SlotIsLive, ReleasedIsIdle

\* A step in which the slots and the releases stay, and only job j moves between
\* phases, neither into nor out of a run.
LEMMA PhaseOnly ==
  ASSUME LimitInv, NEW j \in Jobs, UNCHANGED <<slot, releases>>,
         \A i \in Jobs : i # j => phase'[i] = phase[i],
         \/ phase'[j] = phase[j]
         \/ phase[j] \notin {"idle", "grant", "running"} /\ phase'[j] \notin {"grant", "running"}
         \/ phase[j] \in {"grant", "running"} /\ phase'[j] \in {"grant", "running"}
  PROVE  SlotIsLive' /\ ReleasedIsIdle'
<1>1. \A r \in releases : r.job \in Jobs BY DEF LimitInv, GateInv, JobInv, TypeOK, Calls
<1>2. SlotIsLive' BY DEF LimitInv, SlotIsLive
<1>3. ReleasedIsIdle' BY <1>1 DEF LimitInv, ReleasedIsIdle
<1>4. QED BY <1>2, <1>3

LEMMA NextLimitInv ==
  ASSUME MaxFaults = 0 PROVE LimitInv /\ [Next]_vars => LimitInv'
<1> SUFFICES ASSUME LimitInv, [Next]_vars PROVE SlotIsLive' /\ ReleasedIsIdle'
  BY NextJobInv, NextAdmissionHoldsLock, NextSlotsBounded DEF LimitInv, GateInv
<1>0. TypeOK /\ ~Fault BY NoFaultNoReturn DEF LimitInv, GateInv, JobInv
<1>1. /\ DOMAIN phase = Jobs /\ slot \in [Jobs -> SlotStates]
      /\ \A r \in releases : r.job \in Jobs /\ r.at \in {"slot", "queue"}
  BY <1>0 DEF TypeOK, Calls
<1>2. /\ \A j \in Jobs : phase[j] \in {"grant", "running"} /\ MaxRuns[j] > 0 => slot[j] = "live"
      /\ \A j \in Jobs : phase[j] \notin {"grant", "running"} =>
           slot[j] = "none" \/ \E r \in releases : r.job = j /\ r.at = "slot"
      /\ \A r \in releases : r.cause = "end" /\ phase[r.job] = "idle"
  BY DEF LimitInv, SlotIsLive, ReleasedIsIdle
<1>3. \A j \in Jobs : phase[j] \notin {"grant", "running", "idle"} => slot[j] = "none"
  BY <1>2
<1>4. ASSUME NEW j \in Jobs, Register(j) \/ AddJob(j) \/ DequeueDeferred(j)
      PROVE  SlotIsLive' /\ ReleasedIsIdle'
  BY <1>4, PhaseOnly DEF Register, AddJob, DequeueDeferred
<1>5. ASSUME NEW j \in Jobs, Dequeue(j) PROVE SlotIsLive' /\ ReleasedIsIdle'
  <2>1. ~\E r \in releases : r.job = j BY <1>2, <1>5 DEF Dequeue
  <2>2. phase[j] = "idle" /\ phase'[j] = "lock" /\ UNCHANGED <<slot, releases>>
        /\ \A i \in Jobs : i # j => phase'[i] = phase[i]
    BY <1>1, <1>5 DEF Dequeue
  <2>3. slot[j] = "none" BY <1>2, <2>1, <2>2
  <2>4. SlotIsLive' BY <1>2, <2>2, <2>3 DEF SlotIsLive
  <2>5. QED BY <1>1, <1>2, <2>1, <2>2, <2>4 DEF ReleasedIsIdle
<1>6. ASSUME NEW j \in Jobs, Acquire(j) \/ AddToQueue(j) \/ ReadHead(j) \/ CheckHeadAlive(j)
                             \/ DropStaleHead(j) \/ CountActive(j)
      PROVE  SlotIsLive' /\ ReleasedIsIdle'
  <2>1. /\ UNCHANGED <<slot, releases>>
        /\ \A i \in Jobs : i # j => phase'[i] = phase[i]
        /\ phase[j] \notin {"idle", "grant", "running"}
        /\ phase'[j] \notin {"grant", "running"}
    BY <1>1, <1>6 DEF Acquire, AddToQueue, ReadHead, CheckHeadAlive, DropStaleHead, CountActive,
       Goto, NoGateChange
  <2>2. QED BY <2>1, PhaseOnly
<1>7. ASSUME NEW j \in Jobs, PruneActive(j) PROVE SlotIsLive' /\ ReleasedIsIdle'
  <2>1. /\ UNCHANGED releases /\ phase[j] = "limit" /\ phase'[j] \in {"grant", "holds"}
        /\ phase'[j] = "grant" => MaxRuns[j] = 0
        /\ \A i \in Jobs : i # j => phase'[i] = phase[i]
        /\ \A i \in Jobs : slot'[i] = slot[i] \/ (slot[i] = "old" /\ slot'[i] = "none")
    BY <1>1, <1>7 DEF PruneActive, Goto, NoGateChange
  <2>2. slot[j] = "none" /\ slot'[j] = "none" BY <1>3, <2>1
  <2>3. SlotIsLive'
    <3>1. ASSUME NEW i \in Jobs, phase'[i] \in {"grant", "running"}, MaxRuns[i] > 0
          PROVE  slot'[i] = "live"
      <4>1. i # j BY <2>1, <3>1
      <4>2. QED BY <1>2, <2>1, <3>1, <4>1
    <3>2. ASSUME NEW i \in Jobs, phase'[i] \notin {"grant", "running"}
          PROVE  slot'[i] = "none" \/ \E r \in releases' : r.job = i /\ r.at = "slot"
      BY <1>2, <2>1, <2>2, <3>2
    <3>3. QED BY <3>1, <3>2 DEF SlotIsLive
  <2>4. QED BY <1>1, <1>2, <2>1, <2>3 DEF ReleasedIsIdle
<1>8. ASSUME NEW j \in Jobs, IsActive(j) PROVE SlotIsLive' /\ ReleasedIsIdle'
  <2>1. j \notin Active BY <1>3, <1>8 DEF IsActive, Active
  <2>2. phase[j] = "holds" /\ phase'[j] = "count" /\ UNCHANGED <<slot, releases>>
        /\ \A i \in Jobs : i # j => phase'[i] = phase[i]
    BY <1>1, <1>8, <2>1 DEF IsActive, Goto, NoGateChange
  <2>3. QED BY <2>2, PhaseOnly
<1>9. ASSUME NEW j \in Jobs, MarkActive(j) PROVE SlotIsLive' /\ ReleasedIsIdle'
  <2>1. /\ phase[j] = "mark" /\ phase'[j] = "grant" /\ slot'[j] = "live" /\ UNCHANGED releases
        /\ \A i \in Jobs : i # j => phase'[i] = phase[i] /\ slot'[i] = slot[i]
    BY <1>1, <1>9 DEF MarkActive, Goto, NoGateChange
  <2>2. SlotIsLive' BY <1>2, <2>1 DEF SlotIsLive
  <2>3. QED BY <1>1, <1>2, <2>1, <2>2 DEF ReleasedIsIdle
<1>10. ASSUME NEW j \in Jobs, Grant(j) PROVE SlotIsLive' /\ ReleasedIsIdle'
  <2>1. /\ phase[j] = "grant" /\ phase'[j] = "running" /\ UNCHANGED <<slot, releases>>
        /\ \A i \in Jobs : i # j => phase'[i] = phase[i]
    BY <1>1, <1>10 DEF Grant, Goto, NoGateChange
  <2>2. QED BY <2>1, PhaseOnly
<1>11. ASSUME NEW j \in Jobs, Reject(j) PROVE SlotIsLive' /\ ReleasedIsIdle'
  <2>1. /\ phase[j] = "reject" /\ phase'[j] = "idle" /\ UNCHANGED <<slot, releases>>
        /\ \A i \in Jobs : i # j => phase'[i] = phase[i]
    BY <1>1, <1>11 DEF Reject, Goto, NoGateChange
  <2>2. QED BY <2>1, PhaseOnly
<1>12. ASSUME NEW j \in Jobs, Complete(j) \/ FailAttempt(j) PROVE SlotIsLive' /\ ReleasedIsIdle'
  <2>1. PICK n : n = Release(j, "end") OBVIOUS
  <2>2. n.job = j /\ n.at = "slot" /\ n.cause = "end" BY <2>1 DEF Release
  <2>3. /\ phase'[j] = "idle" /\ \A i \in Jobs : i # j => phase'[i] = phase[i]
        /\ releases' = releases \cup {n}
        /\ \A i \in Jobs : i # j => slot'[i] = slot[i]
    BY <1>1, <1>12, <2>1 DEF Complete, FailAttempt, EndDispatch, Goto, LeaveSlot
  <2>4. SlotIsLive'
    <3>1. ASSUME NEW i \in Jobs, phase'[i] \in {"grant", "running"}, MaxRuns[i] > 0
          PROVE  slot'[i] = "live"
      BY <1>2, <2>3, <3>1
    <3>2. ASSUME NEW i \in Jobs, phase'[i] \notin {"grant", "running"}
          PROVE  slot'[i] = "none" \/ \E r \in releases' : r.job = i /\ r.at = "slot"
      BY <1>2, <2>2, <2>3, <3>2
    <3>3. QED BY <3>1, <3>2 DEF SlotIsLive
  <2>5. QED BY <1>1, <1>2, <2>2, <2>3, <2>4 DEF ReleasedIsIdle
<1>13. ASSUME NEW j \in Jobs,
              AbandonStart(j) \/ ReturnToQueue(j) \/ MoveFails(j) \/ LoseDispatch(j)
       PROVE  FALSE
  BY <1>0, <1>13 DEF AbandonStart, ReturnToQueue, MoveFails, LoseDispatch
<1>14. ASSUME NEW j \in Jobs, StalledScan(j) PROVE SlotIsLive' /\ ReleasedIsIdle'
  <2>1. /\ phase[j] = "lost" /\ phase'[j] = "idle" /\ UNCHANGED <<slot, releases>>
        /\ \A i \in Jobs : i # j => phase'[i] = phase[i]
    BY <1>1, <1>14 DEF StalledScan, Goto
  <2>2. QED BY <2>1, PhaseOnly
<1>15. ASSUME NEW j \in Jobs, SlotExpires(j) PROVE SlotIsLive' /\ ReleasedIsIdle'
  <2>1. /\ UNCHANGED <<phase, releases>> /\ slot[j] = "left"
        /\ \A i \in Jobs : i # j => slot'[i] = slot[i]
    BY <1>1, <1>15 DEF SlotExpires
  <2>2. SlotIsLive' 
    <3>1. phase[j] \in {"grant", "running"} => ~(MaxRuns[j] > 0) BY <1>2, <2>1
    <3>2. QED BY <1>2, <2>1, <3>1 DEF SlotIsLive
  <2>3. QED BY <1>2, <2>1, <2>2 DEF ReleasedIsIdle
<1>16. ASSUME NEW r \in releases, ReleaseStep(r) PROVE SlotIsLive' /\ ReleasedIsIdle'
  <2>1. CASE RemoveActive(r)
    <3>1. PICK n : n = [r EXCEPT !.at = "queue"] OBVIOUS
    <3>2. n.job = r.job /\ n.cause = r.cause BY <1>0, <3>1 DEF TypeOK, Calls
    <3>3. /\ releases' \subseteq (releases \ {r}) \cup {n} /\ releases \ {r} \subseteq releases'
          /\ UNCHANGED phase /\ slot'[r.job] = "none"
          /\ \A i \in Jobs : i # r.job => slot'[i] = slot[i]
      BY <1>1, <2>1, <3>1 DEF RemoveActive
    <3>4. r.job \in Jobs /\ phase[r.job] = "idle" BY <1>1, <1>2
    <3>5. SlotIsLive' BY <1>2, <3>3, <3>4 DEF SlotIsLive
    <3>6. QED BY <1>2, <3>2, <3>3, <3>5 DEF ReleasedIsIdle
  <2>2. CASE RemoveFromQueue(r)
    <3>1. UNCHANGED <<phase, slot>> /\ releases' = releases \ {r} /\ r.at = "queue"
      BY <2>2 DEF RemoveFromQueue
    <3>2. SlotIsLive' BY <1>2, <3>1 DEF SlotIsLive
    <3>3. QED BY <1>2, <3>1, <3>2 DEF ReleasedIsIdle
  <2>3. QED BY <1>0, <1>16, <2>1, <2>2 DEF ReleaseStep, LoseRelease
<1>17. CASE Done \/ UNCHANGED vars
  BY <1>2, <1>17 DEF Done, vars, SlotIsLive, ReleasedIsIdle
<1>18. QED
  BY <1>4, <1>5, <1>6, <1>7, <1>8, <1>9, <1>10, <1>11, <1>12, <1>13, <1>14, <1>15, <1>16, <1>17
  DEF Next, JobStep, Admission

\* No more limited runs are on workers at once than the largest limit of the
\* tickets, without faults, for any number of attempts and any order of starts:
\* every limited run has its own slot for as long as it is on a worker.
THEOREM RunsBoundedHolds == ASSUME MaxFaults = 0 PROVE Spec => []RunsBounded
<1>1. LimitInv => RunsBounded
  <2> SUFFICES ASSUME LimitInv PROVE Cardinality({j \in Running : MaxRuns[j] > 0}) <= Limit
    BY DEF RunsBounded
  <2>1. PICK L : L = {j \in Running : MaxRuns[j] > 0} OBVIOUS
  <2>2. L \subseteq Active BY <2>1 DEF Running, Active, LimitInv, SlotIsLive
  <2>3. IsFiniteSet(L) /\ Cardinality(L) <= Cardinality(Active) BY <2>2, ActiveFinite, FS_Subset
  <2>4. Cardinality(L) \in Nat /\ Cardinality(Active) \in Nat /\ Limit \in Nat
    BY <2>3, ActiveFinite, FS_CardinalityType, TicketAssumption
  <2>5. Cardinality(Active) <= Limit BY DEF LimitInv, GateInv, SlotsBounded
  <2>6. Cardinality(L) <= Limit BY <2>3, <2>4, <2>5
  <2>7. QED BY <2>1, <2>6
<1>2. QED BY <1>1, InitLimitInv, NextLimitInv, PTL DEF Spec
=============================================================================
