------------------------- MODULE RunLifecycleProofs -------------------------
(***************************************************************************)
(* For every number of waitpoints, signals, snapshots and errors: the      *)
(* metadata of a run reaches its row, the metadata queue is a write-behind *)
(* cell, and a run that pauses at most once has one engine at a time.      *)
(***************************************************************************)
EXTENDS RunLifecycle, TLAPS

(***************************************************************************)
(* The induction needs to know where an update can be: in the hash with a  *)
(* job on its way, or in the hands of the metadata worker, whose requestId *)
(* tells whether anything was merged after it read the hash.               *)
(***************************************************************************)

\* A deduplication key stands for a waiting job.
KeyHasJob == metaq \in Nat /\ (dedup => metaq > 0)

\* Who holds the lock.
LockHeld ==
  /\ lock = "meta" <=> meta.at # "idle"
  /\ lock = "cancel" <=> Canceler \in adds
  /\ lock \in {"free", "meta", "cancel"}
  /\ meta.at \in {"idle", "read", "save", "delete", "finish", "resume"}

\* What the hash holds is the newest, and without it the row is.
Newest ==
  /\ hash = NoHash => row.status = last
  /\ hash # NoHash => hash.rid \in Rids /\ hash.status = last

\* The worker read what the hash still holds if the requestIds agree.
ReadIsNewest ==
  /\ meta.at \in {"save", "delete"} => hash # NoHash /\ meta.rid \in Rids
  /\ meta.at = "save" /\ hash.rid = meta.rid => meta.status = hash.status
  /\ meta.at = "delete" /\ hash.rid = meta.rid => row.status = hash.status

\* Somebody will still save what is in the hash.
Handled ==
  hash # NoHash =>
    \/ metaq > 0 \/ adds # {} \/ meta.at = "read"
    \/ meta.at \in {"save", "delete"} /\ hash.rid = meta.rid

MetaInv == KeyHasJob /\ LockHeld /\ Newest /\ ReadIsNewest /\ Handled

\* A merge takes a requestId the metadata worker has not read.
LEMMA FreshRid ==
  (CHOOSE r \in Rids : r # meta.rid) \in Rids /\ (CHOOSE r \in Rids : r # meta.rid) # meta.rid
<1>1. 1 \in Rids /\ 2 \in Rids BY DEF Rids
<1>2. \E r \in Rids : r # meta.rid BY <1>1
<1>3. QED BY <1>2

\* The merge of a caller that is not the cancellation keeps the invariant.
LEMMA MergeKeeps ==
  ASSUME MetaInv, NEW i \in JobIds, NEW status, NEW finish, Merge(i, status, finish),
         UNCHANGED <<row, dedup, metaq, lock, meta>>
  PROVE  MetaInv'
<1>1. hash'.rid \in Rids /\ hash'.rid # meta.rid /\ hash'.status = status
  BY FreshRid DEF Merge
<1>2. hash' # NoHash
  BY <1>1 DEF Rids, NoHash
<1>3. Canceler # i
  BY BoundAssumption DEF JobIds, Canceler
<1>4. adds' = adds \cup {i} /\ last' = status
  BY DEF Merge
<1>5. KeyHasJob' BY DEF MetaInv, KeyHasJob
<1>6. LockHeld' BY <1>3, <1>4 DEF MetaInv, LockHeld
<1>7. Newest' BY <1>1, <1>2, <1>4 DEF Newest
<1>8. ReadIsNewest' BY <1>1, <1>2 DEF MetaInv, ReadIsNewest
<1>9. Handled' BY <1>4 DEF Handled
<1>10. QED BY <1>5, <1>6, <1>7, <1>8, <1>9 DEF MetaInv

LEMMA InitMetaInv == Init => MetaInv
<1>1. Canceler # Starter BY BoundAssumption DEF Canceler, Starter
<1>2. QED BY <1>1 DEF Init, MetaInv, KeyHasJob, LockHeld, Newest, ReadIsNewest, Handled,
                 NoHash, NoMeta, Rids

LEMMA NextMetaInv == MetaInv /\ [Next]_vars => MetaInv'
<1> SUFFICES ASSUME MetaInv, [Next]_vars PROVE MetaInv'
  OBVIOUS
<1> USE DEF MetaInv, KeyHasJob, LockHeld, Newest, ReadIsNewest, Handled
<1>1. ASSUME NEW a \in Adders, AddMetaJob(a) PROVE MetaInv'
  BY <1>1 DEF AddMetaJob
<1>2. CASE MetaStart
  BY <1>2 DEF MetaStart, NoMeta
<1>3. CASE MetaRead
  BY <1>3 DEF MetaRead, MetaIs, NoMeta
<1>4. CASE MetaSave
  BY <1>4 DEF MetaSave, MetaIs
<1>5. CASE MetaDelete
  BY <1>5 DEF MetaDelete, MetaIs, NoHash, Rids
<1>6. CASE MetaFinish
  BY <1>6 DEF MetaFinish, MetaIs
<1>7. CASE MetaResume
  BY <1>7 DEF MetaResume, MetaIs, NoMeta
<1>8. CASE MetaError \/ MetaResumeRollsBack
  BY <1>8 DEF MetaError, MetaResumeRollsBack, MetaThrows, NoMeta
<1>9. ASSUME NEW w \in Ids, Call(w) \/ Resume(w) \/ ResumeRollsBack(w) PROVE MetaInv'
  BY <1>9 DEF Call, Resume, ResumeRollsBack, rowVars
<1>10. ASSUME NEW w \in wps, ChildFails(w) PROVE MetaInv'
  BY <1>10 DEF ChildFails, rowVars
<1>11. CASE DelayFires
  BY <1>11 DEF DelayFires, rowVars
<1>12. ASSUME NEW i \in JobIds, EngineStep(i) PROVE MetaInv'
  <2>1. CASE Report(i)
    <3>1. PICK status, finish : Merge(i, status, finish)
      BY <2>1 DEF Report
    <3>2. UNCHANGED <<row, dedup, metaq, lock, meta>>
      BY <2>1 DEF Report
    <3>3. QED BY <3>1, <3>2, MergeKeeps
  <2>2. CASE StartJob(i) \/ ResumeStep(i) \/ PauseStep(i) \/ Checkpoint(i) \/ EndJob(i)
    BY <2>2 DEF StartJob, ResumeStep, PauseStep, Checkpoint, EndJob, rowVars
  <2>3. QED BY <1>12, <2>1, <2>2 DEF EngineStep
<1>13. ASSUME NEW i \in JobIds, Backup(i) PROVE MetaInv'
  <2>1. Merge(i, "RUNNING", FALSE) /\ UNCHANGED <<row, dedup, metaq, lock, meta>>
    BY <1>13 DEF Backup
  <2>2. QED BY <2>1, MergeKeeps
<1>14. ASSUME NEW i \in JobIds, Defer(i) PROVE MetaInv'
  BY <1>14 DEF Defer, rowVars
<1>15. CASE ChooseCancel
  BY <1>15 DEF ChooseCancel, rowVars
<1>16. CASE CancelRun
  <2>1. hash'.rid \in Rids /\ hash'.rid # meta.rid /\ hash'.status = last'
    BY <1>16, FreshRid DEF CancelRun, Merge
  <2>2. hash' # NoHash
    BY <2>1 DEF Rids, NoHash
  <2>3. QED BY <1>16, <2>1, <2>2 DEF CancelRun, Merge
<1>17. CASE UNCHANGED vars
  BY <1>17 DEF vars
<1>18. QED
  BY <1>1, <1>2, <1>3, <1>4, <1>5, <1>6, <1>7, <1>8, <1>9, <1>10, <1>11, <1>12, <1>13,
     <1>14, <1>15, <1>16, <1>17 DEF Next, MetaStep

\* The update a run's engine, its start or its cancellation merged last is in
\* the row, or is still in the hash with somebody on the way to save it.
THEOREM UpdatesReachTheRow == Spec => []NoUpdateLost
<1>1. MetaInv => NoUpdateLost
  BY DEF MetaInv, Newest, Handled, LockHeld, NoUpdateLost
<1>2. QED
  BY <1>1, InitMetaInv, NextMetaInv, PTL DEF Spec

-----------------------------------------------------------------------------
(* The metadata queue is a write-behind cell. *)

\* The statuses merged and read are statuses of a run.
Known == last \in Statuses /\ (meta.at = "save" => meta.status \in Statuses)

LEMMA KnownHolds == Spec => []Known
<1>1. Init => Known
  BY DEF Init, Known, Statuses, NoMeta
<1>2. MetaInv /\ Known /\ [Next]_vars => Known'
  <2> SUFFICES ASSUME MetaInv, Known, [Next]_vars PROVE Known'
    OBVIOUS
  <2> USE DEF Known, Statuses
  <2>1. ASSUME NEW a \in Adders, AddMetaJob(a) PROVE Known'
    BY <2>1 DEF AddMetaJob
  <2>2. CASE MetaRead
    BY <2>2 DEF MetaRead, MetaIs, NoMeta, MetaInv, Newest
  <2>3. CASE MetaStep /\ ~MetaRead
    <3>1. UNCHANGED last
      BY <2>3 DEF MetaStep, MetaStart, MetaSave, MetaDelete, MetaFinish, MetaResume
    <3>2. CASE MetaStart \/ MetaResume
      BY <3>1, <3>2 DEF MetaStart, MetaResume, NoMeta
    <3>3. CASE MetaSave
      BY <3>1, <3>3 DEF MetaSave, MetaIs
    <3>4. CASE MetaDelete
      BY <3>1, <3>4 DEF MetaDelete, MetaIs
    <3>5. CASE MetaFinish
      BY <3>1, <3>5 DEF MetaFinish, MetaIs
    <3>6. QED BY <2>3, <3>2, <3>3, <3>4, <3>5 DEF MetaStep
  <2>4. CASE MetaError \/ MetaResumeRollsBack
    BY <2>4 DEF MetaError, MetaResumeRollsBack, MetaThrows, NoMeta
  <2>5. ASSUME NEW w \in Ids, Call(w) \/ Resume(w) \/ ResumeRollsBack(w) PROVE Known'
    BY <2>5 DEF Call, Resume, ResumeRollsBack, rowVars
  <2>6. ASSUME NEW w \in wps, ChildFails(w) PROVE Known'
    BY <2>6 DEF ChildFails, rowVars
  <2>7. CASE DelayFires \/ ChooseCancel \/ CancelRun
    BY <2>7 DEF DelayFires, ChooseCancel, CancelRun, Merge, rowVars
  <2>8. ASSUME NEW i \in JobIds, EngineStep(i) \/ Backup(i) \/ Defer(i) PROVE Known'
    BY <2>8 DEF EngineStep, StartJob, ResumeStep, PauseStep, Checkpoint, Report, EndJob,
                Backup, Defer, Merge, rowVars
  <2>9. CASE UNCHANGED vars
    BY <2>9 DEF vars
  <2>10. QED BY <2>1, <2>2, <2>3, <2>4, <2>5, <2>6, <2>7, <2>8, <2>9 DEF Next
<1>3. QED BY <1>1, <1>2, InitMetaInv, NextMetaInv, PTL DEF Spec

\* A merge writes the cell.
LEMMA MergeWrites ==
  ASSUME NEW caller, NEW status \in Statuses, NEW finish, Merge(caller, status, finish),
         UNCHANGED <<row, meta>>
  PROVE  Cell!Next
<1>1. hash' # NoHash
  BY FreshRid DEF Merge, Rids, NoHash
<1>2. QED BY <1>1 DEF Merge, Cell!Next, Cell!Write

\* The metadata queue of a run implements a write-behind cell: merges write it,
\* the worker's save stores what it read, and the hash is deleted only when the
\* row holds the status merged last.
THEOREM MetadataIsWriteBehind == Spec => ImplementsWriteBehind
<1>1. Init => Cell!Init
  BY DEF Init, Cell!Init, NoMeta, NoHash, Statuses
<1>2. MetaInv /\ Known /\ Known' /\ [Next]_vars => [Cell!Next]_(Cell!vars)
  <2> SUFFICES ASSUME MetaInv, Known, Known', [Next]_vars PROVE [Cell!Next]_(Cell!vars)
    OBVIOUS
  <2>1. CASE UNCHANGED rowVars
    BY <2>1 DEF rowVars, Cell!vars
  <2>2. ASSUME NEW a \in Adders, AddMetaJob(a) PROVE UNCHANGED Cell!vars
    BY <2>2 DEF AddMetaJob, Cell!vars
  <2>3. CASE MetaStart
    BY <2>3 DEF MetaStart, NoMeta, Cell!Next, Cell!Forget
  <2>4. CASE MetaRead
    <3>1. CASE hash = NoHash
      BY <2>4, <3>1 DEF MetaRead, MetaIs, NoMeta, Cell!vars
    <3>2. CASE hash # NoHash
      BY <2>4, <3>2 DEF MetaRead, MetaIs, MetaInv, Newest, Cell!Next, Cell!Read
    <3>3. QED BY <3>1, <3>2
  <2>5. CASE MetaSave
    BY <2>5 DEF MetaSave, MetaIs, Known, Statuses, Cell!Next, Cell!Save
  <2>6. CASE MetaDelete
    <3>1. CASE hash.rid = meta.rid
      BY <2>6, <3>1 DEF MetaDelete, MetaIs, MetaInv, Newest, ReadIsNewest, Cell!Next, Cell!Settle
    <3>2. CASE hash.rid # meta.rid
      BY <2>6, <3>2 DEF MetaDelete, MetaIs, Cell!vars
    <3>3. QED BY <3>1, <3>2
  <2>7. CASE MetaFinish \/ MetaResume
    <3>1. meta.at # "save" /\ meta'.at # "save"
      <4>1. CASE MetaFinish BY <4>1 DEF MetaFinish, MetaIs
      <4>2. CASE MetaResume BY <4>2 DEF MetaResume, MetaIs, NoMeta
      <4>3. QED BY <2>7, <4>1, <4>2
    <3>2. UNCHANGED <<last, row, hash>>
      BY <2>7 DEF MetaFinish, MetaResume
    <3>3. QED BY <3>1, <3>2 DEF Cell!vars
  <2>8. CASE MetaError \/ MetaResumeRollsBack
    BY <2>8 DEF MetaError, MetaResumeRollsBack, MetaThrows, NoMeta, Cell!Next, Cell!Forget
  <2>9. ASSUME NEW w \in Ids, Call(w) \/ Resume(w) \/ ResumeRollsBack(w)
        PROVE  UNCHANGED Cell!vars
    BY <2>9 DEF Call, Resume, ResumeRollsBack, rowVars, Cell!vars
  <2>10. ASSUME NEW w \in wps, ChildFails(w) PROVE UNCHANGED rowVars
    BY <2>10 DEF ChildFails
  <2>11. CASE DelayFires \/ ChooseCancel
    BY <2>1, <2>11 DEF DelayFires, ChooseCancel
  <2>12. CASE CancelRun
    BY <2>12, MergeWrites DEF CancelRun, Statuses
  <2>13. ASSUME NEW i \in JobIds, Report(i) \/ Backup(i) PROVE Cell!Next
    BY <2>13, MergeWrites DEF Report, Backup, Statuses
  <2>14. ASSUME NEW i \in JobIds,
                \/ StartJob(i) \/ ResumeStep(i) \/ PauseStep(i) \/ Checkpoint(i) \/ EndJob(i)
                \/ Defer(i)
         PROVE  UNCHANGED rowVars
    BY <2>14 DEF StartJob, ResumeStep, PauseStep, Checkpoint, EndJob, Defer
  <2>15. CASE UNCHANGED vars
    BY <2>1, <2>15 DEF vars, rowVars
  <2>16. QED
    BY <2>1, <2>2, <2>3, <2>4, <2>5, <2>6, <2>7, <2>8, <2>9, <2>10, <2>11, <2>12, <2>13,
       <2>14, <2>15 DEF Next, MetaStep, EngineStep
<1>3. QED
  BY <1>1, <1>2, InitMetaInv, NextMetaInv, KnownHolds, PTL
  DEF Spec, ImplementsWriteBehind, Cell!Spec

-----------------------------------------------------------------------------
(***************************************************************************)
(* Types.  A paused step is one of the workflow's, so that resuming it     *)
(* never counts past the last one.                                         *)
(***************************************************************************)
RowType    == [status : Statuses \cup {"none"}, finish : BOOLEAN]
HashType   == [rid : Rids, status : Statuses, finish : BOOLEAN] \cup {NoHash}
MetaType   == [at : {"read", "save", "delete", "finish", "resume"}, rid : Rids \cup {0},
               status : Statuses \cup {"none"}, finish : BOOLEAN, wasDone : BOOLEAN]
                \cup {NoMeta}
Waitpoints == [id : Ids, step : 1..Steps, status : {"PENDING", "COMPLETED"}]
TimerType  == [at : {"scheduled", "active"}, id : Ids] \cup {NoTimer}
JobType    == {"absent", "prioritized", "delayed", "active"}
EngineType == [at : {"off", "run", "pause", "report", "end"}, done : 0..Steps,
               paused : BOOLEAN, backups : 0..MaxBackups]
LogType    == [done : 0..Steps, paused : BOOLEAN]

QueueTypes ==
  /\ row \in RowType /\ hash \in HashType /\ last \in Statuses
  /\ adds \subseteq Adders /\ dedup \in BOOLEAN /\ metaq \in Nat
  /\ lock \in {"free", "meta", "cancel"} /\ meta \in MetaType
  /\ hooks \in Nat /\ errors \in 0..MaxErrors /\ cancel \in {"no", "chosen", "done"}

WaitTypes ==
  /\ wps \subseteq Waitpoints /\ created \in 0..MaxWaitpoints /\ timer \in TimerType
  /\ signals \in [Ids -> 0..MaxSignals] /\ calls \subseteq Ids

RunTypes ==
  /\ jobs \in [JobIds -> JobType] /\ eng \in [JobIds -> EngineType] /\ log \in LogType
  /\ log.paused => log.done < Steps
  /\ \A i \in JobIds : eng[i].paused => eng[i].done < Steps

Types == QueueTypes /\ WaitTypes /\ RunTypes

LEMMA IdFacts ==
  /\ Ids \subseteq JobIds /\ 0 \in JobIds /\ 0 \notin Ids /\ JobIds \subseteq Nat
  /\ JobIds \subseteq Adders /\ Starter \in Adders /\ Canceler \in Adders
  /\ Starter \notin JobIds /\ Canceler \notin JobIds /\ Starter # Canceler
  BY BoundAssumption DEF Ids, JobIds, Adders, Starter, Canceler

LEMMA TypesImply == Types => TypeOK
  BY DEF Types, QueueTypes, WaitTypes, RunTypes, TypeOK, RowType, HashType, MetaType, Waitpoints,
         TimerType, JobType, EngineType, LogType

LEMMA InitTypes == Init => Types
<1> SUFFICES ASSUME Init PROVE Types OBVIOUS
<1>1. QueueTypes
  <2>1. row \in RowType BY DEF Init, RowType
  <2>2. hash \in HashType BY DEF Init, HashType, Rids, Statuses
  <2>3. meta \in MetaType /\ last \in Statuses BY DEF Init, MetaType, Statuses
  <2>4. dedup \in BOOLEAN /\ metaq \in Nat /\ hooks \in Nat BY DEF Init
  <2>5. errors \in 0..MaxErrors /\ adds \subseteq Adders BY IdFacts, BoundAssumption DEF Init
  <2>6. lock \in {"free", "meta", "cancel"} /\ cancel \in {"no", "chosen", "done"} BY DEF Init
  <2>7. QED BY <2>1, <2>2, <2>3, <2>4, <2>5, <2>6 DEF QueueTypes
<1>2. WaitTypes BY BoundAssumption DEF Init, WaitTypes, TimerType
<1>3. RunTypes
  <2>1. Off \in EngineType /\ ~Off.paused
    BY StepsAssumption, BoundAssumption DEF Off, EngineType
  <2>2. log \in LogType /\ ~log.paused BY StepsAssumption DEF Init, LogType
  <2>3. QED BY <2>1, <2>2 DEF Init, RunTypes, JobType
<1>4. QED BY <1>1, <1>2, <1>3 DEF Types

\* The helpers that add jobs keep their type.
LEMMA AddedTypes ==
  ASSUME jobs \in [JobIds -> JobType], NEW S
  PROVE  /\ Added(S) \in [JobIds -> JobType] /\ Enqueued(S) \in [JobIds -> JobType]
         /\ Removed \in [JobIds -> JobType]
  BY DEF Added, Enqueued, Removed, JobType

LEMMA MergeTypes ==
  ASSUME QueueTypes, NEW caller \in Adders, NEW status \in Statuses, NEW finish \in BOOLEAN,
         Merge(caller, status, finish)
  PROVE  hash' \in HashType /\ last' \in Statuses /\ adds' \subseteq Adders
<1>1. hash.finish \in BOOLEAN
  <2>1. NoHash.finish \in BOOLEAN BY DEF NoHash
  <2>2. ASSUME hash \in [rid : Rids, status : Statuses, finish : BOOLEAN]
        PROVE  hash.finish \in BOOLEAN
    BY <2>2
  <2>3. QED BY <2>1, <2>2 DEF QueueTypes, HashType
<1>2. PICK f \in BOOLEAN : f = (hash.finish \/ finish) BY <1>1
<1>3. PICK n \in Rids : n = CHOOSE r \in Rids : r # meta.rid BY FreshRid
<1>4. hash' = [rid |-> n, status |-> status, finish |-> f] BY <1>2, <1>3 DEF Merge
<1>5. hash' \in HashType BY <1>4 DEF HashType
<1>6. QED BY <1>5 DEF Merge, QueueTypes

LEMMA ConsumeTypes ==
  ASSUME Types, NEW w, Consume(w)
  PROVE  wps' \subseteq wps /\ jobs' \in [JobIds -> JobType]
  BY AddedTypes DEF Consume, Types, RunTypes

LEMMA MetaTypes ==
  ASSUME Types, MetaStep \/ MetaError \/ MetaResumeRollsBack PROVE Types'
<1>0. meta \in MetaType /\ NoMeta \in MetaType BY DEF Types, QueueTypes, MetaType
<1>1. \A at \in {"delete", "finish", "resume"} :
        meta.at # "idle" => [meta EXCEPT !.at = at] \in MetaType
  BY <1>0 DEF MetaType, NoMeta
<1> USE DEF waitVars, runVars
<1>2. CASE MetaStart
  <2>1. meta' \in MetaType BY <1>2 DEF MetaStart, MetaType, NoMeta
  <2>2. metaq' \in Nat BY <1>2 DEF MetaStart, Types, QueueTypes
  <2>3. QED BY <1>2, <2>1, <2>2 DEF MetaStart, Types, QueueTypes, WaitTypes, RunTypes
<1>3. CASE MetaRead
  <2>1. meta' \in MetaType
    <3>1. CASE hash = NoHash BY <1>0, <1>3, <3>1 DEF MetaRead
    <3>2. CASE hash # NoHash
      <4>1. hash \in [rid : Rids, status : Statuses, finish : BOOLEAN]
        BY <3>2 DEF Types, QueueTypes, HashType
      <4>2. PICK rid \in Rids, status \in Statuses, finish \in BOOLEAN :
              rid = hash.rid /\ status = hash.status /\ finish = hash.finish
        BY <4>1
      <4>3. meta' = [at |-> "save", rid |-> rid, status |-> status, finish |-> finish,
                     wasDone |-> FALSE]
        BY <1>3, <3>2, <4>2 DEF MetaRead
      <4>4. QED BY <4>3 DEF MetaType
    <3>3. QED BY <3>1, <3>2
  <2>2. QED BY <1>3, <2>1 DEF MetaRead, Types, QueueTypes, WaitTypes, RunTypes
<1>4. CASE MetaSave
  <2>1. meta.at = "save" /\ row.finish \in BOOLEAN /\ meta.finish \in BOOLEAN
    BY <1>0, <1>4 DEF MetaSave, MetaIs, Types, QueueTypes, RowType, MetaType, NoMeta
  <2>2. row' \in RowType
    <3>1. meta.status \in Statuses \cup {"none"} BY <1>0 DEF MetaType, NoMeta
    <3>2. PICK f \in BOOLEAN : f = (row.finish \/ meta.finish) BY <2>1
    <3>3. row' = [status |-> meta.status, finish |-> f] BY <1>4, <3>2 DEF MetaSave
    <3>4. QED BY <3>1, <3>3 DEF RowType
  <2>3. meta' \in MetaType
    <3>1. PICK f \in BOOLEAN : f = (row.finish /\ row.status \in Terminal) BY <2>1
    <3>2. meta' = [meta EXCEPT !.at = "delete", !.wasDone = f] BY <1>4, <3>1 DEF MetaSave
    <3>3. meta # NoMeta BY <2>1 DEF NoMeta
    <3>4. meta \in [at : {"read", "save", "delete", "finish", "resume"}, rid : Rids \cup {0},
                    status : Statuses \cup {"none"}, finish : BOOLEAN, wasDone : BOOLEAN]
      BY <1>0, <3>3 DEF MetaType
    <3>5. QED BY <3>2, <3>4 DEF MetaType
  <2>4. QED BY <1>4, <2>2, <2>3 DEF MetaSave, Types, QueueTypes, WaitTypes, RunTypes
<1>5. CASE MetaDelete
  <2>1. meta' \in MetaType BY <1>1, <1>5 DEF MetaDelete, MetaIs
  <2>2. hash' \in HashType BY <1>5 DEF MetaDelete, Types, QueueTypes, HashType
  <2>3. QED BY <1>5, <2>1, <2>2 DEF MetaDelete, Types, QueueTypes, WaitTypes, RunTypes
<1>6. CASE MetaFinish
  <2>1. meta' \in MetaType BY <1>1, <1>6 DEF MetaFinish, MetaIs
  <2>2. hooks' \in Nat /\ wps' \subseteq wps BY <1>6 DEF MetaFinish, Types, QueueTypes
  <2>3. QED BY <1>6, <2>1, <2>2 DEF MetaFinish, Types, QueueTypes, WaitTypes, RunTypes
<1>7. CASE MetaResume
  <2>1. wps' \subseteq wps /\ jobs' \in [JobIds -> JobType]
    BY <1>7, ConsumeTypes DEF MetaResume, Types, RunTypes
  <2>2. QED BY <1>0, <1>7, <2>1 DEF MetaResume, Types, QueueTypes, WaitTypes, RunTypes
<1>8. CASE MetaError \/ MetaResumeRollsBack
  <2>1. jobs' \in [JobIds -> JobType]
    BY <1>8, AddedTypes DEF MetaError, MetaResumeRollsBack, Types, RunTypes
  <2>2. MetaThrows BY <1>8 DEF MetaError, MetaResumeRollsBack
  <2>3. errors' \in 0..MaxErrors /\ metaq' \in Nat
    BY <2>2, BoundAssumption DEF MetaThrows, Error, Types, QueueTypes
  <2>4. QED BY <1>0, <2>1, <2>2, <2>3 DEF MetaThrows, Types, QueueTypes, WaitTypes, RunTypes
<1>9. QED BY <1>2, <1>3, <1>4, <1>5, <1>6, <1>7, <1>8 DEF MetaStep

LEMMA SignalTypes ==
  ASSUME Types,
         \/ \E w \in Ids : Call(w) \/ Resume(w) \/ ResumeRollsBack(w)
         \/ \E w \in wps : ChildFails(w)
         \/ DelayFires \/ ChooseCancel \/ CancelRun
         \/ \E a \in Adders : AddMetaJob(a)
  PROVE  Types'
<1>0. jobs \in [JobIds -> JobType] /\ wps \subseteq Waitpoints BY DEF Types, RunTypes, WaitTypes
<1>1. \A w \in Waitpoints : w.id \in Ids /\ [w EXCEPT !.status = "COMPLETED"] \in Waitpoints
  BY DEF Waitpoints
<1>2. NoTimer \in TimerType BY DEF TimerType
<1> USE DEF rowVars, waitVars, runVars
<1>3. ASSUME NEW w \in Ids, Call(w) PROVE Types'
  <2>1. signals' \in [Ids -> 0..MaxSignals]
    BY <1>3, BoundAssumption DEF Call, Types, WaitTypes
  <2>2. QED BY <1>3, <2>1 DEF Call, Types, QueueTypes, WaitTypes, RunTypes
<1>4. ASSUME NEW w \in Ids, Resume(w) PROVE Types'
  <2>1. wps' \subseteq Waitpoints /\ jobs' \in [JobIds -> JobType]
    <3>1. PICK found : found = {v \in wps : v.id = w} OBVIOUS
    <3>2. CASE row.status = "PAUSED" /\ found # {}
      BY <1>0, <1>4, <3>1, <3>2, ConsumeTypes DEF Resume
    <3>3. CASE ~(row.status = "PAUSED" /\ found # {})
      <4>1. \/ UNCHANGED <<wps, jobs>>
            \/ /\ wps' = {IF v \in found THEN [v EXCEPT !.status = "COMPLETED"] ELSE v : v \in wps}
               /\ UNCHANGED jobs
        BY <1>4, <3>1, <3>3 DEF Resume
      <4>2. QED BY <1>0, <1>1, <4>1
    <3>4. QED BY <3>2, <3>3
  <2>2. timer' \in TimerType BY <1>2, <1>4 DEF Resume, Types, WaitTypes
  <2>3. QED BY <1>4, <2>1, <2>2 DEF Resume, Types, QueueTypes, WaitTypes, RunTypes
<1>5. ASSUME NEW w \in Ids, ResumeRollsBack(w) PROVE Types'
  <2>1. jobs' \in [JobIds -> JobType] BY <1>0, <1>5, AddedTypes DEF ResumeRollsBack
  <2>2. errors' \in 0..MaxErrors
    BY <1>5, BoundAssumption DEF ResumeRollsBack, Error, Types, QueueTypes
  <2>3. QED BY <1>5, <2>1, <2>2 DEF ResumeRollsBack, Types, QueueTypes, WaitTypes, RunTypes
<1>6. ASSUME NEW w \in wps, ChildFails(w) PROVE Types'
  <2>1. signals' \in [Ids -> 0..MaxSignals]
    <3>1. PICK d \in Ids : d = w.id BY <1>0, <1>1
    <3>2. signals' = [signals EXCEPT ![d] = @ + 1] /\ signals[d] < MaxSignals
      BY <1>6, <3>1 DEF ChildFails
    <3>3. QED BY <3>2, BoundAssumption DEF Types, WaitTypes
  <2>2. wps' \subseteq Waitpoints /\ calls' \subseteq Ids
    BY <1>0, <1>1, <1>6 DEF ChildFails, Types, WaitTypes
  <2>3. QED BY <1>6, <2>1, <2>2 DEF ChildFails, Types, QueueTypes, WaitTypes, RunTypes
<1>7. CASE DelayFires
  <2>1. timer.at = "scheduled" => timer.id \in Ids /\ [timer EXCEPT !.at = "active"] \in TimerType
    BY DEF Types, WaitTypes, TimerType, NoTimer
  <2>2. timer' \in TimerType /\ calls' \subseteq Ids
    BY <1>2, <1>7, <2>1 DEF DelayFires, Types, WaitTypes
  <2>3. QED BY <1>7, <2>2 DEF DelayFires, Types, QueueTypes, WaitTypes, RunTypes
<1>8. CASE ChooseCancel
  BY <1>8 DEF ChooseCancel, Types, QueueTypes, WaitTypes, RunTypes
<1>9. CASE CancelRun
  <2>1. hash' \in HashType /\ last' \in Statuses /\ adds' \subseteq Adders
    BY <1>9, MergeTypes, IdFacts DEF CancelRun, Types, Statuses
  <2>2. jobs' \in [JobIds -> JobType] BY <1>0, <1>9, AddedTypes DEF CancelRun
  <2>3. QED BY <1>9, <2>1, <2>2 DEF CancelRun, Types, QueueTypes, WaitTypes, RunTypes
<1>10. ASSUME NEW a \in Adders, AddMetaJob(a) PROVE Types'
  <2>1. jobs' \in [JobIds -> JobType] BY <1>0, <1>10, AddedTypes DEF AddMetaJob
  <2>2. metaq' \in Nat BY <1>10 DEF AddMetaJob, Types, QueueTypes
  <2>3. QED BY <1>10, <2>1, <2>2 DEF AddMetaJob, Types, QueueTypes, WaitTypes, RunTypes
<1>11. QED BY <1>3, <1>4, <1>5, <1>6, <1>7, <1>8, <1>9, <1>10

\* The engine counts steps within the workflow and its snapshots within the
\* bound.
LEMMA EngineTypes ==
  ASSUME Types, NEW i \in JobIds, EngineStep(i) \/ Backup(i) \/ Defer(i) PROVE Types'
<1>0. /\ jobs \in [JobIds -> JobType] /\ eng \in [JobIds -> EngineType] /\ log \in LogType
      /\ eng[i] \in EngineType
  BY DEF Types, RunTypes
<1>1. /\ eng[i].done \in 0..Steps /\ eng[i].paused \in BOOLEAN
      /\ eng[i].backups \in 0..MaxBackups /\ Steps \in Nat
  BY <1>0, StepsAssumption DEF EngineType
<1>2. eng[i].paused => eng[i].done < Steps BY DEF Types, RunTypes
<1>3. ASSUME NEW e \in EngineType, e.paused => e.done < Steps, eng' = [eng EXCEPT ![i] = e]
      PROVE  eng' \in [JobIds -> EngineType] /\ \A k \in JobIds : eng'[k].paused => eng'[k].done < Steps
  BY <1>0, <1>3 DEF Types, RunTypes
<1>4. ASSUME Snapshot(i) PROVE log' \in LogType /\ (log'.paused => log'.done < Steps)
  BY <1>1, <1>2, <1>4 DEF Snapshot, LogType
<1> USE DEF rowVars, waitVars
<1>5. CASE StartJob(i)
  <2>1. PICK e : e = [at |-> "run", done |-> log.done, paused |-> log.paused, backups |-> 0]
    OBVIOUS
  <2>2. /\ log.done \in 0..Steps /\ log.paused \in BOOLEAN BY <1>0 DEF LogType
  <2>3. e \in EngineType BY <2>1, <2>2, BoundAssumption DEF EngineType
  <2>4. e.paused => e.done < Steps BY <2>1 DEF Types, RunTypes
  <2>5. eng' = [eng EXCEPT ![i] = e] BY <1>5, <2>1 DEF StartJob
  <2>6. jobs' \in [JobIds -> JobType] BY <1>0, <1>5 DEF StartJob, JobType
  <2>7. eng' \in [JobIds -> EngineType] /\ \A k \in JobIds : eng'[k].paused => eng'[k].done < Steps
    BY <1>3, <2>3, <2>4, <2>5
  <2>8. QED BY <1>5, <2>6, <2>7 DEF StartJob, Types, QueueTypes, WaitTypes, RunTypes
<1>6. CASE ResumeStep(i)
  <2>1. PICK e : e = [eng[i] EXCEPT !.done = @ + 1, !.paused = FALSE] OBVIOUS
  <2>2. eng[i].done + 1 \in 0..Steps BY <1>1, <1>2, <1>6 DEF ResumeStep
  <2>3. e \in EngineType /\ ~e.paused BY <1>0, <2>1, <2>2 DEF EngineType
  <2>4. eng' = [eng EXCEPT ![i] = e] BY <1>0, <1>6, <2>1 DEF ResumeStep
  <2>5. QED BY <1>3, <1>6, <2>3, <2>4 DEF ResumeStep, Types, QueueTypes, WaitTypes, RunTypes
<1>7. CASE PauseStep(i)
  <2>1. PICK e : e = [eng[i] EXCEPT !.at = "pause", !.paused = TRUE] OBVIOUS
  <2>2. e \in EngineType /\ e.done < Steps BY <1>0, <1>7, <2>1 DEF EngineType, PauseStep
  <2>3. eng' = [eng EXCEPT ![i] = e] BY <1>0, <1>7, <2>1 DEF PauseStep
  <2>4. PICK s \in 1..Steps : s = eng[i].done + 1 BY <1>1, <1>7 DEF PauseStep
  <2>5. /\ created' \in 0..MaxWaitpoints /\ wps' \subseteq Waitpoints
        /\ \E w \in wps' : w.step = s
    <3>1. CASE OfStep(s) # {}
      BY <1>7, <2>4, <3>1 DEF PauseStep, OfStep, Types, WaitTypes
    <3>2. CASE OfStep(s) = {}
      <4>1. PICK n : n = [id |-> created + 1, step |-> s, status |-> "PENDING"] OBVIOUS
      <4>2. created < MaxWaitpoints /\ created' = created + 1 /\ wps' = wps \cup {n}
        BY <1>7, <2>4, <3>2, <4>1 DEF PauseStep
      <4>3. created + 1 \in Ids /\ created + 1 \in 0..MaxWaitpoints
        BY <4>2, BoundAssumption DEF Types, WaitTypes, Ids
      <4>4. n \in Waitpoints /\ n.step = s BY <4>1, <4>3 DEF Waitpoints
      <4>5. QED BY <4>2, <4>3, <4>4 DEF Types, WaitTypes
    <3>3. QED BY <3>1, <3>2
  <2>6. timer' \in TimerType
    <3>1. PICK w : w = CHOOSE v \in wps' : v.step = s OBVIOUS
    <3>2. w \in wps' BY <2>5, <3>1
    <3>3. w.id \in Ids BY <2>5, <3>2 DEF Waitpoints
    <3>4. timer' = timer \/ timer' = [at |-> "scheduled", id |-> w.id]
      BY <1>7, <2>4, <3>1 DEF PauseStep
    <3>5. QED BY <3>3, <3>4 DEF TimerType, Types, WaitTypes
  <2>7. UNCHANGED <<rowVars, signals, calls, jobs, log, cancel>> BY <1>7 DEF PauseStep
  <2>8. eng' \in [JobIds -> EngineType] /\ \A k \in JobIds : eng'[k].paused => eng'[k].done < Steps
    BY <1>3, <2>2, <2>3
  <2>9. QED BY <2>5, <2>6, <2>7, <2>8 DEF Types, QueueTypes, WaitTypes, RunTypes
<1>8. CASE Checkpoint(i)
  <2>1. PICK e : e = [eng[i] EXCEPT !.at = "report"] OBVIOUS
  <2>2. e \in EngineType /\ (e.paused => e.done < Steps) BY <1>0, <1>2, <2>1 DEF EngineType
  <2>3. eng' = [eng EXCEPT ![i] = e] BY <1>0, <1>8, <2>1 DEF Checkpoint
  <2>4. log' \in LogType /\ (log'.paused => log'.done < Steps) BY <1>4, <1>8 DEF Checkpoint
  <2>5. QED BY <1>3, <1>8, <2>2, <2>3, <2>4 DEF Checkpoint, Types, QueueTypes, WaitTypes, RunTypes
<1>9. CASE Report(i)
  <2>1. PICK e : e = [eng[i] EXCEPT !.at = "end"] OBVIOUS
  <2>2. e \in EngineType /\ (e.paused => e.done < Steps) BY <1>0, <1>2, <2>1 DEF EngineType
  <2>3. eng' = [eng EXCEPT ![i] = e] BY <1>0, <1>9, <2>1 DEF Report
  <2>4. hash' \in HashType /\ last' \in Statuses /\ adds' \subseteq Adders
    BY <1>9, MergeTypes, IdFacts DEF Report, Types, Statuses
  <2>5. QED BY <1>3, <1>9, <2>2, <2>3, <2>4 DEF Report, Types, QueueTypes, WaitTypes, RunTypes
<1>10. CASE EndJob(i)
  <2>1. Off \in EngineType /\ ~Off.paused BY StepsAssumption, BoundAssumption DEF Off, EngineType
  <2>2. eng' = [eng EXCEPT ![i] = Off] BY <1>10 DEF EndJob
  <2>3. jobs' \in [JobIds -> JobType] BY <1>0, <1>10 DEF EndJob, JobType
  <2>4. QED BY <1>3, <1>10, <2>1, <2>2, <2>3 DEF EndJob, Types, QueueTypes, WaitTypes, RunTypes
<1>11. CASE Backup(i)
  <2>1. PICK e : e = [eng[i] EXCEPT !.backups = @ + 1] OBVIOUS
  <2>2. eng[i].backups + 1 \in 0..MaxBackups BY <1>1, <1>11, BoundAssumption DEF Backup
  <2>3. e \in EngineType /\ (e.paused => e.done < Steps) BY <1>0, <1>2, <2>1, <2>2 DEF EngineType
  <2>4. eng' = [eng EXCEPT ![i] = e] BY <1>0, <1>11, <2>1 DEF Backup
  <2>5. hash' \in HashType /\ last' \in Statuses /\ adds' \subseteq Adders
    BY <1>11, MergeTypes, IdFacts DEF Backup, Types, Statuses
  <2>6. log' \in LogType /\ (log'.paused => log'.done < Steps) BY <1>4, <1>11 DEF Backup
  <2>7. QED
    BY <1>3, <1>11, <2>3, <2>4, <2>5, <2>6 DEF Backup, Types, QueueTypes, WaitTypes, RunTypes
<1>12. CASE Defer(i)
  <2>1. jobs' \in [JobIds -> JobType] BY <1>0, <1>12 DEF Defer, JobType
  <2>2. QED BY <1>12, <2>1 DEF Defer, Types, QueueTypes, WaitTypes, RunTypes
<1>13. QED
  BY <1>5, <1>6, <1>7, <1>8, <1>9, <1>10, <1>11, <1>12 DEF EngineStep

LEMMA NextTypes == Types /\ [Next]_vars => Types'
<1> SUFFICES ASSUME Types, [Next]_vars PROVE Types'
  OBVIOUS
<1>1. CASE UNCHANGED vars BY <1>1 DEF vars, Types, QueueTypes, WaitTypes, RunTypes
<1>2. QED BY <1>1, MetaTypes, SignalTypes, EngineTypes DEF Next

\* Types, for any number of steps, waitpoints, calls, snapshots, failures and a
\* cancellation at any moment: in particular a resumed step is always a step of
\* the workflow and a resume is always of a waitpoint that was created.
THEOREM TypesHold == Spec => []TypeOK
  BY TypesImply, InitTypes, NextTypes, PTL DEF Spec

-----------------------------------------------------------------------------
(***************************************************************************)
(* One engine, for a workflow that pauses once.  The second engine of such *)
(* a run is the resume of its only waitpoint, and the code lets that one   *)
(* in when the row, the hash or the metadata worker says PAUSED: this is   *)
(* the case only after the first engine has written its final log.         *)
(***************************************************************************)

\* The job that begins the run is still to come, waiting or executing.
Begins == Starter \in adds \/ jobs[0] \in {"prioritized", "delayed"}
            \/ eng[0].at \in {"run", "pause"}

\* Whatever a resumed engine loads, it does not pause in a new step.
LogAhead == log.paused \/ log.done = Steps

\* Some part of the system knows that the run has paused, or has resumed it.
SaysPaused == "PAUSED" \in {last, hash.status, meta.status, row.status}
Resumed    == \E i \in Ids : jobs[i] # "absent"

\* An engine belongs to an active job, and the beginning is added only once.
EngineHasJob ==
  /\ \A i \in JobIds : eng[i].at # "off" => jobs[i] = "active"
  /\ Starter \in adds => jobs[0] = "absent"

\* The run is known as paused only once its first engine has stopped.
PausedIsOver == SaysPaused \/ Resumed \/ eng[0].at \in {"report", "end"} => ~Begins /\ LogAhead

\* A pausing engine has its step paused.
PauseIsPaused == \A i \in JobIds : eng[i].at = "pause" => eng[i].paused

\* Only the first engine creates a waitpoint, and it creates one.
OneWaitpoint ==
  /\ \A w \in wps : w.id = 1
  /\ created <= 1
  /\ Starter \in adds \/ jobs[0] \in {"prioritized", "delayed"} \/ eng[0].at = "run" => created = 0

\* Resumed engines are those of that waitpoint, and finish its step.
ResumesOnce ==
  \A i \in Ids : /\ jobs[i] # "absent" => i = 1
                 /\ eng[i].at # "off" => eng[i].paused \/ eng[i].done = Steps

EngineInv == EngineHasJob /\ PausedIsOver /\ PauseIsPaused /\ OneWaitpoint /\ ResumesOnce

LEMMA InitEngineInv == Init => EngineInv
<1> SUFFICES ASSUME Init PROVE EngineInv OBVIOUS
<1>1. \A i \in JobIds : jobs[i] = "absent" /\ eng[i].at = "off" BY DEF Init, Off
<1>2. ~SaysPaused BY DEF Init, SaysPaused, NoMeta
<1>3. QED
  BY <1>1, <1>2, IdFacts DEF Init, EngineInv, EngineHasJob, PausedIsOver, PauseIsPaused,
     OneWaitpoint, ResumesOnce, Resumed

\* A step that leaves jobs and engines alone may spread that the run has paused,
\* never begin it.
LEMMA QuietKeeps ==
  ASSUME EngineInv, UNCHANGED <<jobs, eng, log, created>>,
         Starter \in adds' => Starter \in adds,
         \A w \in wps' : w.id = 1, SaysPaused' => SaysPaused
  PROVE  EngineInv'
<1>1. EngineHasJob' /\ PauseIsPaused' /\ ResumesOnce'
  BY DEF EngineInv, EngineHasJob, PauseIsPaused, ResumesOnce
<1>2. OneWaitpoint' BY DEF EngineInv, OneWaitpoint
<1>3. PausedIsOver' BY DEF EngineInv, PausedIsOver, Begins, LogAhead, Resumed
<1>4. QED BY <1>1, <1>2, <1>3 DEF EngineInv

\* enqueueResume, called where PAUSED was seen: the first engine has stopped.
LEMMA EnqueueKeeps ==
  ASSUME Types, EngineInv, SaysPaused, NEW S, S \subseteq wps, jobs' = Enqueued(S),
         UNCHANGED <<adds, eng, log, created>>, wps' \subseteq wps
  PROVE  EngineInv'
<1>1. PICK D : D = {w.id : w \in S} OBVIOUS
<1>2. \A d \in D : d = 1 BY <1>1 DEF EngineInv, OneWaitpoint
<1>3. \A i \in JobIds : /\ jobs'[i] = jobs[i] \/ (jobs'[i] = "prioritized" /\ i = 1)
                        /\ jobs[i] # "absent" => jobs'[i] = jobs[i]
  BY <1>1, <1>2 DEF Enqueued, Added
<1>4. jobs'[0] = jobs[0] BY <1>3, IdFacts
<1>5. ~Begins /\ LogAhead BY DEF EngineInv, PausedIsOver
<1>6. ~Begins' /\ LogAhead' BY <1>4, <1>5 DEF Begins, LogAhead
<1>7. EngineHasJob' BY <1>3, <1>4 DEF EngineInv, EngineHasJob
<1>8. PausedIsOver' BY <1>6 DEF PausedIsOver
<1>9. PauseIsPaused' BY DEF EngineInv, PauseIsPaused
<1>10. OneWaitpoint' BY <1>6 DEF EngineInv, OneWaitpoint, Begins
<1>11. ResumesOnce' BY <1>3, IdFacts DEF EngineInv, ResumesOnce
<1>12. QED BY <1>7, <1>8, <1>9, <1>10, <1>11 DEF EngineInv

LEMMA ConsumeKeeps ==
  ASSUME Types, EngineInv, SaysPaused, NEW w \in wps, Consume(w),
         UNCHANGED <<adds, eng, log, created>>
  PROVE  EngineInv'
<1>1. PICK rest : rest = Completed(wps \ {w}) OBVIOUS
<1>2. PICK also \in IF rest = {} THEN {{}} ELSE {{v} : v \in rest} :
        wps' = wps \ ({w} \cup also) /\ jobs' = Enqueued({w} \cup also)
  BY <1>1 DEF Consume
<1>3. also \subseteq wps BY <1>1, <1>2 DEF Completed
<1>4. QED BY <1>2, <1>3, EnqueueKeeps

\* A signal, the metadata worker and a cancellation.
LEMMA OutsideKeeps ==
  ASSUME Types, EngineInv,
         \/ MetaStep \/ MetaError \/ MetaResumeRollsBack
         \/ \E w \in Ids : Call(w) \/ Resume(w) \/ ResumeRollsBack(w)
         \/ \E w \in wps : ChildFails(w)
         \/ DelayFires \/ ChooseCancel
  PROVE  EngineInv'
<1>0. \A w \in wps : w.id = 1 BY DEF EngineInv, OneWaitpoint
<1> USE DEF rowVars, waitVars, runVars
<1>1. CASE MetaStart
  BY <1>0, <1>1, QuietKeeps DEF MetaStart, NoMeta, SaysPaused
<1>2. CASE MetaRead
  <2>1. SaysPaused' => SaysPaused BY <1>2 DEF MetaRead, NoMeta, SaysPaused
  <2>2. QED BY <1>0, <1>2, <2>1, QuietKeeps DEF MetaRead
<1>3. CASE MetaSave
  <2>1. SaysPaused' => SaysPaused
    <3>1. meta'.status = meta.status BY <1>3 DEF MetaSave, Types, QueueTypes, MetaType, NoMeta
    <3>2. QED BY <1>3, <3>1 DEF MetaSave, SaysPaused
  <2>2. QED BY <1>0, <1>3, <2>1, QuietKeeps DEF MetaSave
<1>4. CASE MetaDelete \/ MetaFinish
  <2>1. SaysPaused' => SaysPaused
    <3>1. meta'.status = meta.status
      BY <1>4 DEF MetaDelete, MetaFinish, Types, QueueTypes, MetaType, NoMeta
    <3>2. hash' \in {hash, NoHash} /\ UNCHANGED <<row, last>> BY <1>4 DEF MetaDelete, MetaFinish
    <3>3. QED BY <3>1, <3>2 DEF NoHash, SaysPaused
  <2>2. wps' \subseteq wps /\ UNCHANGED <<jobs, eng, log, created, adds>>
    BY <1>4 DEF MetaDelete, MetaFinish
  <2>3. QED BY <1>0, <2>1, <2>2, QuietKeeps
<1>5. CASE MetaResume
  <2>1. CASE meta.status = "PAUSED" /\ Completed(wps) # {}
    <3>1. PICK w \in Completed(wps) : Consume(w) BY <1>5, <2>1 DEF MetaResume
    <3>2. w \in wps BY DEF Completed
    <3>3. SaysPaused BY <2>1 DEF SaysPaused
    <3>4. QED BY <1>5, <3>1, <3>2, <3>3, ConsumeKeeps DEF MetaResume
  <2>2. CASE ~(meta.status = "PAUSED" /\ Completed(wps) # {})
    <3>1. UNCHANGED <<wps, jobs, eng, log, created, adds, hash, row, last>> /\ meta' = NoMeta
      BY <1>5, <2>2 DEF MetaResume
    <3>2. SaysPaused' => SaysPaused BY <3>1 DEF NoMeta, SaysPaused
    <3>3. QED BY <1>0, <3>1, <3>2, QuietKeeps
  <2>3. QED BY <2>1, <2>2
<1>6. CASE MetaError
  <2>1. SaysPaused' => SaysPaused BY <1>6 DEF MetaError, MetaThrows, NoMeta, SaysPaused
  <2>2. QED BY <1>0, <1>6, <2>1, QuietKeeps DEF MetaError, MetaThrows
<1>7. CASE MetaResumeRollsBack
  <2>1. PICK w \in Completed(wps) : jobs' = Enqueued({w}) BY <1>7 DEF MetaResumeRollsBack
  <2>2. w \in wps /\ SaysPaused BY <1>7 DEF MetaResumeRollsBack, Completed, SaysPaused
  <2>3. UNCHANGED <<adds, eng, log, created, wps>> BY <1>7 DEF MetaResumeRollsBack, MetaThrows
  <2>4. QED BY <2>1, <2>2, <2>3, EnqueueKeeps
<1>8. ASSUME NEW w \in Ids, Call(w) PROVE EngineInv'
  BY <1>0, <1>8, QuietKeeps DEF Call, SaysPaused
<1>9. ASSUME NEW d \in Ids, Resume(d) PROVE EngineInv'
  <2>1. PICK found : found = {w \in wps : w.id = d} OBVIOUS
  <2>2. UNCHANGED <<adds, eng, log, created, row, hash, meta, last>> BY <1>9 DEF Resume
  <2>3. CASE row.status = "PAUSED" /\ found # {}
    <3>1. PICK w \in found : Consume(w) BY <1>9, <2>1, <2>3 DEF Resume
    <3>2. w \in wps /\ SaysPaused BY <2>1, <2>3 DEF SaysPaused
    <3>3. QED BY <2>2, <3>1, <3>2, ConsumeKeeps
  <2>4. CASE ~(row.status = "PAUSED" /\ found # {})
    <3>1. /\ UNCHANGED jobs
          /\ \/ UNCHANGED wps
             \/ wps' = {IF w \in found THEN [w EXCEPT !.status = "COMPLETED"] ELSE w : w \in wps}
      BY <1>9, <2>1, <2>4 DEF Resume
    <3>2. \A w \in wps : [w EXCEPT !.status = "COMPLETED"].id = w.id
      BY DEF Types, WaitTypes, Waitpoints
    <3>3. ASSUME NEW u \in wps' PROVE u.id = 1
      <4>1. u \in wps \/ \E w \in wps : u = w \/ u = [w EXCEPT !.status = "COMPLETED"]
        BY <3>1
      <4>2. QED BY <1>0, <3>2, <4>1
    <3>4. QED BY <2>2, <3>1, <3>3, QuietKeeps DEF SaysPaused
  <2>5. QED BY <2>3, <2>4
<1>10. ASSUME NEW d \in Ids, ResumeRollsBack(d) PROVE EngineInv'
  <2>1. PICK w \in wps : jobs' = Enqueued({w}) BY <1>10 DEF ResumeRollsBack
  <2>2. SaysPaused BY <1>10 DEF ResumeRollsBack, SaysPaused
  <2>3. UNCHANGED <<adds, eng, log, created, wps>> BY <1>10 DEF ResumeRollsBack
  <2>4. QED BY <2>1, <2>2, <2>3, EnqueueKeeps
<1>11. ASSUME NEW w \in wps, ChildFails(w) PROVE EngineInv'
  <2>1. [w EXCEPT !.status = "COMPLETED"].id = w.id BY DEF Types, WaitTypes, Waitpoints
  <2>2. \A v \in wps' : v.id = 1 BY <1>0, <1>11, <2>1 DEF ChildFails
  <2>3. QED BY <1>11, <2>2, QuietKeeps DEF ChildFails, SaysPaused
<1>12. CASE DelayFires
  BY <1>0, <1>12, QuietKeeps DEF DelayFires, SaysPaused
<1>13. CASE ChooseCancel
  BY <1>0, <1>13, QuietKeeps DEF ChooseCancel, SaysPaused
<1>14. QED
  BY <1>1, <1>2, <1>3, <1>4, <1>5, <1>6, <1>7, <1>8, <1>9, <1>10, <1>11, <1>12, <1>13
  DEF MetaStep

\* The metadata jobs, the first of which adds the job that begins the run, and
\* the cancellation, which removes jobs.
LEMMA AddsKeep ==
  ASSUME Types, EngineInv, CancelRun \/ \E a \in Adders : AddMetaJob(a) PROVE EngineInv'
<1>0. \A i \in JobIds : i \in Ids => i # 0 BY IdFacts
<1> USE DEF rowVars, waitVars, runVars
<1>1. CASE CancelRun
  <2>1. \A i \in JobIds : /\ jobs'[i] = jobs[i] \/ (jobs[i] = "delayed" /\ jobs'[i] = "absent")
                          /\ jobs[i] = "active" => jobs'[i] = "active"
    BY <1>1 DEF CancelRun, Removed
  <2>2. UNCHANGED <<eng, log, created>> /\ wps' = {} BY <1>1 DEF CancelRun
  <2>3. Starter \in adds' => Starter \in adds BY <1>1, IdFacts DEF CancelRun, Merge
  <2>4. SaysPaused' => SaysPaused BY <1>1 DEF CancelRun, Merge, SaysPaused
  <2>5. Begins' => Begins BY <2>1, <2>2, <2>3, IdFacts DEF Begins
  <2>6. Resumed' => Resumed BY <2>1, IdFacts DEF Resumed
  <2>7. EngineHasJob' BY <2>1, <2>2, <2>3, IdFacts DEF EngineInv, EngineHasJob
  <2>8. PausedIsOver' BY <2>2, <2>4, <2>5, <2>6 DEF EngineInv, PausedIsOver, LogAhead
  <2>9. PauseIsPaused' BY <2>2 DEF EngineInv, PauseIsPaused
  <2>10. OneWaitpoint' BY <2>1, <2>2, <2>3, IdFacts DEF EngineInv, OneWaitpoint
  <2>11. ResumesOnce' BY <2>1, <2>2, IdFacts DEF EngineInv, ResumesOnce
  <2>12. QED BY <2>7, <2>8, <2>9, <2>10, <2>11 DEF EngineInv
<1>2. ASSUME NEW a \in Adders, AddMetaJob(a) PROVE EngineInv'
  <2>1. UNCHANGED <<eng, log, created, wps, row, hash, last, meta>> /\ adds' = adds \ {a}
    BY <1>2 DEF AddMetaJob
  <2>2. CASE a = Starter
    <3>1. Starter \in adds /\ Begins BY <1>2, <2>2 DEF AddMetaJob, Begins
    <3>2. jobs[0] = "absent" BY <3>1 DEF EngineInv, EngineHasJob
    <3>3. jobs' = Added({0}) BY <1>2, <2>2 DEF AddMetaJob
    <3>4. \A i \in JobIds : jobs'[i] = IF i = 0 THEN "prioritized" ELSE jobs[i]
      BY <3>2, <3>3 DEF Added
    <3>5. eng[0].at = "off" BY <3>2, IdFacts DEF EngineInv, EngineHasJob
    <3>6. ~SaysPaused /\ ~Resumed BY <3>1 DEF EngineInv, PausedIsOver
    <3>7. EngineHasJob' BY <2>1, <2>2, <3>4, <3>5 DEF EngineInv, EngineHasJob
    <3>8. PausedIsOver'
      BY <1>0, <2>1, <3>4, <3>5, <3>6, IdFacts DEF PausedIsOver, SaysPaused, Resumed
    <3>9. PauseIsPaused' BY <2>1 DEF EngineInv, PauseIsPaused
    <3>10. OneWaitpoint' BY <2>1, <3>1 DEF EngineInv, OneWaitpoint
    <3>11. ResumesOnce' BY <1>0, <2>1, <3>4, IdFacts DEF EngineInv, ResumesOnce
    <3>12. QED BY <3>7, <3>8, <3>9, <3>10, <3>11 DEF EngineInv
  <2>3. CASE a # Starter
    <3>1. jobs' = jobs
      <4>1. jobs' = Added({}) BY <1>2, <2>3 DEF AddMetaJob
      <4>2. QED BY <4>1 DEF Added, Types, RunTypes
    <3>2. \A w \in wps' : w.id = 1 BY <2>1 DEF EngineInv, OneWaitpoint
    <3>3. QED BY <2>1, <3>1, <3>2, QuietKeeps DEF SaysPaused
  <2>4. QED BY <2>2, <2>3
<1>3. QED BY <1>1, <1>2

\* The job that begins the run, from its deferral to the end of its engine.
LEMMA BeginKeeps ==
  ASSUME Types, EngineInv, EngineStep(0) \/ Backup(0) \/ Defer(0) PROVE EngineInv'
<1>0. /\ 0 \in JobIds /\ jobs \in [JobIds -> JobType] /\ eng \in [JobIds -> EngineType]
      /\ eng[0] \in EngineType /\ Starter # 0
  BY IdFacts DEF Types, RunTypes
<1>1. \A i \in Ids : i \in JobIds /\ i # 0 BY IdFacts
<1> USE DEF rowVars, waitVars, runVars
\* What a step of job 0 leaves to show.
<1>2. ASSUME NEW e, NEW j, eng' = [eng EXCEPT ![0] = e], jobs' = [jobs EXCEPT ![0] = j],
             e.at # "off" => j = "active", e.at = "pause" => e.paused,
             Starter \in adds' => j = "absent",
             SaysPaused' \/ Resumed \/ e.at \in {"report", "end"} => ~Begins' /\ LogAhead',
             OneWaitpoint'
      PROVE  EngineInv'
  <2>1. eng'[0] = e /\ jobs'[0] = j BY <1>0, <1>2
  <2>2. \A i \in JobIds : i # 0 => eng'[i] = eng[i] /\ jobs'[i] = jobs[i] BY <1>0, <1>2
  <2>3. Resumed' => Resumed BY <1>1, <2>2 DEF Resumed
  <2>4. EngineHasJob' BY <1>2, <2>1, <2>2 DEF EngineInv, EngineHasJob
  <2>5. PausedIsOver' BY <1>2, <2>1, <2>3 DEF PausedIsOver
  <2>6. PauseIsPaused' BY <1>2, <2>1, <2>2 DEF EngineInv, PauseIsPaused
  <2>7. ResumesOnce' BY <1>1, <2>2 DEF EngineInv, ResumesOnce
  <2>8. QED BY <1>2, <2>4, <2>5, <2>6, <2>7 DEF EngineInv
\* While the engine executes, nobody says that the run has paused.
<1>3. ASSUME eng[0].at \in {"run", "pause"} \/ jobs[0] \in {"prioritized", "delayed"}
      PROVE  ~SaysPaused /\ ~Resumed /\ Starter \notin adds
  <2>1. Begins BY <1>3 DEF Begins
  <2>2. jobs[0] # "absent" BY <1>0, <1>3 DEF EngineInv, EngineHasJob
  <2>3. QED BY <2>1, <2>2 DEF EngineInv, PausedIsOver, EngineHasJob
<1>4. jobs = [jobs EXCEPT ![0] = jobs[0]] BY <1>0
<1>5. \A w \in wps : w.id = 1 BY DEF EngineInv, OneWaitpoint
<1>6. created <= 1 BY DEF EngineInv, OneWaitpoint
<1>7. CASE Defer(0)
  <2>1. PICK j : j = IF jobs[0] = "delayed" THEN "prioritized" ELSE "delayed" OBVIOUS
  <2>2. jobs' = [jobs EXCEPT ![0] = j] /\ jobs[0] \in {"prioritized", "delayed"}
    BY <1>7, <2>1 DEF Defer
  <2>3. ~SaysPaused /\ ~Resumed /\ Starter \notin adds BY <1>3, <2>2
  <2>4. eng' = [eng EXCEPT ![0] = eng[0]] BY <1>0, <1>7 DEF Defer
  <2>5. eng[0].at = "off" BY <1>0, <2>2 DEF EngineInv, EngineHasJob
  <2>6. OneWaitpoint'
    BY <1>7, <2>2, <2>5 DEF Defer, EngineInv, OneWaitpoint
  <2>7. ~SaysPaused' /\ adds' = adds BY <1>7, <2>3 DEF Defer, SaysPaused
  <2>8. QED BY <1>2, <2>2, <2>3, <2>4, <2>5, <2>6, <2>7
<1>8. CASE StartJob(0)
  <2>1. PICK e : e = [at |-> "run", done |-> log.done, paused |-> log.paused, backups |-> 0]
    OBVIOUS
  <2>2. eng' = [eng EXCEPT ![0] = e] /\ jobs' = [jobs EXCEPT ![0] = "active"] /\ e.at = "run"
    BY <1>8, <2>1 DEF StartJob
  <2>3. ~SaysPaused /\ ~Resumed /\ Starter \notin adds /\ created = 0
    BY <1>3, <1>8 DEF StartJob, EngineInv, OneWaitpoint
  <2>4. ~SaysPaused' /\ UNCHANGED <<adds, wps, created>>
    BY <1>8, <2>3 DEF StartJob, SaysPaused
  <2>5. OneWaitpoint' BY <1>5, <1>6, <2>3, <2>4 DEF OneWaitpoint
  <2>6. QED BY <1>2, <2>2, <2>3, <2>4, <2>5
<1>9. CASE Backup(0)
  <2>1. PICK e : e = [eng[0] EXCEPT !.backups = @ + 1] OBVIOUS
  <2>2. eng' = [eng EXCEPT ![0] = e] /\ jobs' = [jobs EXCEPT ![0] = jobs[0]]
    BY <1>0, <1>4, <1>9, <2>1 DEF Backup
  <2>3. e.at = "run" BY <1>0, <1>9, <2>1 DEF Backup, EngineType
  <2>4. /\ ~SaysPaused /\ ~Resumed /\ Starter \notin adds /\ created = 0 /\ jobs[0] = "active"
    BY <1>0, <1>3, <1>9 DEF Backup, EngineInv, OneWaitpoint, EngineHasJob
  <2>5. ~SaysPaused' /\ UNCHANGED <<wps, created>> /\ Starter \notin adds'
    BY <1>0, <1>9, <2>4 DEF Backup, Merge, SaysPaused
  <2>6. OneWaitpoint' BY <1>5, <1>6, <2>4, <2>5 DEF OneWaitpoint
  <2>7. QED BY <1>2, <2>2, <2>3, <2>4, <2>5, <2>6
<1>10. CASE ResumeStep(0)
  <2>1. PICK e : e = [eng[0] EXCEPT !.done = @ + 1, !.paused = FALSE] OBVIOUS
  <2>2. eng' = [eng EXCEPT ![0] = e] /\ jobs' = [jobs EXCEPT ![0] = jobs[0]]
    BY <1>0, <1>4, <1>10, <2>1 DEF ResumeStep
  <2>3. e.at = "run" BY <1>0, <1>10, <2>1 DEF ResumeStep, EngineType
  <2>4. /\ ~SaysPaused /\ ~Resumed /\ Starter \notin adds /\ created = 0 /\ jobs[0] = "active"
    BY <1>0, <1>3, <1>10 DEF ResumeStep, EngineInv, OneWaitpoint, EngineHasJob
  <2>5. ~SaysPaused' /\ UNCHANGED <<wps, created, adds>>
    BY <1>10, <2>4 DEF ResumeStep, SaysPaused
  <2>6. OneWaitpoint' BY <1>5, <1>6, <2>4, <2>5 DEF OneWaitpoint
  <2>7. QED BY <1>2, <2>2, <2>3, <2>4, <2>5, <2>6
<1>11. CASE PauseStep(0)
  <2>1. PICK e : e = [eng[0] EXCEPT !.at = "pause", !.paused = TRUE] OBVIOUS
  <2>2. eng' = [eng EXCEPT ![0] = e] /\ jobs' = [jobs EXCEPT ![0] = jobs[0]]
    BY <1>0, <1>4, <1>11, <2>1 DEF PauseStep
  <2>3. e.at = "pause" /\ e.paused BY <1>0, <2>1 DEF EngineType
  <2>4. /\ ~SaysPaused /\ ~Resumed /\ Starter \notin adds /\ created = 0 /\ jobs[0] = "active"
    BY <1>0, <1>3, <1>11 DEF PauseStep, EngineInv, OneWaitpoint, EngineHasJob
  <2>5. ~SaysPaused' /\ UNCHANGED <<jobs, adds>> BY <1>11, <2>4 DEF PauseStep, SaysPaused
  <2>6. PICK s : s = eng[0].done + 1 OBVIOUS
  <2>7. \/ UNCHANGED <<wps, created>>
        \/ /\ created' = created + 1
           /\ wps' = wps \cup {[id |-> created + 1, step |-> s, status |-> "PENDING"]}
    BY <1>11, <2>6 DEF PauseStep
  <2>8. (\A w \in wps' : w.id = 1) /\ created' <= 1 BY <1>5, <2>4, <2>7
  <2>9. eng'[0] = e BY <1>0, <2>2
  <2>10. OneWaitpoint' BY <2>3, <2>4, <2>5, <2>8, <2>9 DEF OneWaitpoint
  <2>11. QED BY <1>2, <2>2, <2>3, <2>4, <2>5, <2>10
<1>12. CASE Checkpoint(0)
  <2>1. PICK e : e = [eng[0] EXCEPT !.at = "report"] OBVIOUS
  <2>2. eng' = [eng EXCEPT ![0] = e] /\ jobs' = [jobs EXCEPT ![0] = jobs[0]]
    BY <1>0, <1>4, <1>12, <2>1 DEF Checkpoint
  <2>3. e.at = "report" BY <1>0, <2>1 DEF EngineType
  <2>4. eng[0].at \in {"run", "pause"} BY <1>12 DEF Checkpoint
  <2>5. Starter \notin adds /\ jobs[0] = "active"
    BY <1>0, <1>3, <2>4 DEF EngineInv, EngineHasJob
  <2>6. LogAhead'
    <3>1. eng[0].paused \/ eng[0].done = Steps
      BY <1>0, <1>12 DEF Checkpoint, EngineInv, PauseIsPaused
    <3>2. log' = [done |-> eng[0].done, paused |-> eng[0].paused]
      BY <1>12 DEF Checkpoint, Snapshot
    <3>3. QED BY <3>1, <3>2 DEF LogAhead
  <2>7. UNCHANGED <<jobs, adds, wps, created>> /\ eng'[0] = e
    BY <1>0, <1>12, <2>2 DEF Checkpoint
  <2>8. ~Begins' BY <2>3, <2>5, <2>7 DEF Begins
  <2>9. OneWaitpoint' BY <1>5, <1>6, <2>3, <2>5, <2>7 DEF OneWaitpoint
  <2>10. QED BY <1>2, <2>2, <2>3, <2>5, <2>6, <2>7, <2>8, <2>9
<1>13. CASE Report(0)
  <2>1. PICK e : e = [eng[0] EXCEPT !.at = "end"] OBVIOUS
  <2>2. eng' = [eng EXCEPT ![0] = e] /\ jobs' = [jobs EXCEPT ![0] = jobs[0]]
    BY <1>0, <1>4, <1>13, <2>1 DEF Report
  <2>3. e.at = "end" BY <1>0, <2>1 DEF EngineType
  <2>4. ~Begins /\ LogAhead /\ jobs[0] = "active"
    BY <1>0, <1>13 DEF Report, EngineInv, PausedIsOver, EngineHasJob
  <2>5. UNCHANGED <<jobs, log, wps, created>> /\ eng'[0] = e /\ adds' = adds \cup {0}
    BY <1>0, <1>13, <2>2 DEF Report, Merge
  <2>6. ~Begins' /\ LogAhead' BY <1>0, <2>3, <2>4, <2>5 DEF Begins, LogAhead
  <2>7. OneWaitpoint' BY <1>5, <1>6, <2>3, <2>5, <2>6 DEF OneWaitpoint, Begins
  <2>8. QED BY <1>2, <2>2, <2>3, <2>4, <2>6, <2>7 DEF Begins
<1>14. CASE EndJob(0)
  <2>1. eng' = [eng EXCEPT ![0] = Off] /\ jobs' = [jobs EXCEPT ![0] = "absent"]
    BY <1>14 DEF EndJob
  <2>2. ~Begins /\ LogAhead BY <1>14 DEF EndJob, EngineInv, PausedIsOver
  <2>3. UNCHANGED <<adds, log, wps, created>> /\ eng'[0] = Off /\ jobs'[0] = "absent"
    BY <1>0, <1>14, <2>1 DEF EndJob
  <2>4. Off.at = "off" BY DEF Off
  <2>5. ~Begins' /\ LogAhead' BY <2>2, <2>3, <2>4 DEF Begins, LogAhead
  <2>6. OneWaitpoint' BY <1>5, <1>6, <2>3, <2>5 DEF OneWaitpoint, Begins
  <2>7. QED BY <1>2, <2>1, <2>4, <2>5, <2>6
<1>15. QED
  BY <1>7, <1>8, <1>9, <1>10, <1>11, <1>12, <1>13, <1>14 DEF EngineStep

\* The job of a resume: it is there, so the first engine has stopped, and its own
\* engine has the run's only pause behind it.
LEMMA ResumedKeeps ==
  ASSUME Steps <= 1, Types, EngineInv, NEW i \in Ids, EngineStep(i) \/ Backup(i) \/ Defer(i)
  PROVE  EngineInv'
<1>0. /\ i \in JobIds /\ 0 \in JobIds /\ i # 0 /\ i # Starter
      /\ jobs \in [JobIds -> JobType] /\ eng \in [JobIds -> EngineType]
      /\ eng[i] \in EngineType
  BY IdFacts DEF Types, RunTypes
<1>1. jobs[i] # "absent"
  BY <1>0 DEF EngineInv, EngineHasJob, EngineStep, Backup, Defer, StartJob, ResumeStep, PauseStep,
              Checkpoint, Report, EndJob
<1>2. i = 1 /\ ~Begins /\ LogAhead
  BY <1>1 DEF EngineInv, ResumesOnce, PausedIsOver, Resumed
<1>3. eng[i].at # "off" => eng[i].paused \/ eng[i].done = Steps
  BY DEF EngineInv, ResumesOnce
<1>4. jobs = [jobs EXCEPT ![i] = jobs[i]] BY <1>0
<1> USE DEF rowVars, waitVars, runVars
\* What a step of the job leaves to show.
<1>5. ASSUME NEW e, NEW j, eng' = [eng EXCEPT ![i] = e], jobs' = [jobs EXCEPT ![i] = j],
             e.at # "off" => j = "active" /\ (e.paused \/ e.done = Steps),
             e.at = "pause" => e.paused,
             adds' \subseteq adds \cup {i}, UNCHANGED <<wps, created>>, LogAhead'
      PROVE  EngineInv'
  <2>1. eng'[i] = e /\ jobs'[i] = j BY <1>0, <1>5
  <2>2. \A k \in JobIds : k # i => eng'[k] = eng[k] /\ jobs'[k] = jobs[k] BY <1>0, <1>5
  <2>3. jobs'[0] = jobs[0] /\ eng'[0] = eng[0] /\ (Starter \in adds' => Starter \in adds)
    BY <1>0, <1>5, <2>2
  <2>4. ~Begins' BY <1>2, <2>3 DEF Begins
  <2>5. EngineHasJob' BY <1>5, <2>1, <2>2, <2>3 DEF EngineInv, EngineHasJob
  <2>6. PausedIsOver' BY <1>5, <2>4 DEF PausedIsOver
  <2>7. PauseIsPaused' BY <1>5, <2>1, <2>2 DEF EngineInv, PauseIsPaused
  <2>8. OneWaitpoint' BY <1>5, <2>4 DEF EngineInv, OneWaitpoint, Begins
  <2>9. ResumesOnce' BY <1>2, <1>5, <2>1, <2>2, IdFacts DEF EngineInv, ResumesOnce
  <2>10. QED BY <2>5, <2>6, <2>7, <2>8, <2>9 DEF EngineInv
<1>6. ASSUME Snapshot(i), eng[i].at # "off" PROVE LogAhead'
  BY <1>3, <1>6 DEF Snapshot, LogAhead
<1>7. eng[i].at # "off" => jobs[i] = "active" BY <1>0 DEF EngineInv, EngineHasJob
<1>8. CASE Defer(i)
  <2>1. PICK j : j = IF jobs[i] = "delayed" THEN "prioritized" ELSE "delayed" OBVIOUS
  <2>2. jobs' = [jobs EXCEPT ![i] = j] /\ jobs[i] # "active" BY <1>8, <2>1 DEF Defer
  <2>3. eng' = [eng EXCEPT ![i] = eng[i]] /\ eng[i].at = "off"
    BY <1>0, <1>7, <1>8, <2>2 DEF Defer
  <2>4. UNCHANGED <<adds, wps, created>> /\ LogAhead' BY <1>2, <1>8 DEF Defer, LogAhead
  <2>5. QED BY <1>5, <2>2, <2>3, <2>4
<1>9. CASE StartJob(i)
  <2>1. PICK e : e = [at |-> "run", done |-> log.done, paused |-> log.paused, backups |-> 0]
    OBVIOUS
  <2>2. eng' = [eng EXCEPT ![i] = e] /\ jobs' = [jobs EXCEPT ![i] = "active"] /\ e.at = "run"
    BY <1>9, <2>1 DEF StartJob
  <2>3. e.paused \/ e.done = Steps BY <1>2, <2>1 DEF LogAhead
  <2>4. UNCHANGED <<adds, wps, created>> /\ LogAhead' BY <1>2, <1>9 DEF StartJob, LogAhead
  <2>5. QED BY <1>5, <2>2, <2>3, <2>4
<1>10. CASE Backup(i)
  <2>1. PICK e : e = [eng[i] EXCEPT !.backups = @ + 1] OBVIOUS
  <2>2. eng' = [eng EXCEPT ![i] = e] /\ jobs' = [jobs EXCEPT ![i] = jobs[i]]
    BY <1>0, <1>4, <1>10, <2>1 DEF Backup
  <2>3. e.at = "run" /\ e.paused = eng[i].paused /\ e.done = eng[i].done
    BY <1>0, <1>10, <2>1 DEF Backup, EngineType
  <2>4. UNCHANGED <<wps, created>> /\ adds' = adds \cup {i} /\ LogAhead'
    BY <1>6, <1>10 DEF Backup, Merge
  <2>5. eng[i].at # "off" BY <1>10 DEF Backup
  <2>6. QED BY <1>3, <1>5, <1>7, <2>2, <2>3, <2>4, <2>5
<1>11. CASE ResumeStep(i)
  <2>1. PICK e : e = [eng[i] EXCEPT !.done = @ + 1, !.paused = FALSE] OBVIOUS
  <2>2. eng' = [eng EXCEPT ![i] = e] /\ jobs' = [jobs EXCEPT ![i] = jobs[i]]
    BY <1>0, <1>4, <1>11, <2>1 DEF ResumeStep
  <2>3. e.at = "run" /\ e.done = eng[i].done + 1
    BY <1>0, <1>11, <2>1 DEF ResumeStep, EngineType
  <2>4. eng[i].done < Steps /\ eng[i].done \in Nat
    BY <1>0, <1>11, StepsAssumption DEF ResumeStep, Types, RunTypes, EngineType
  <2>5. e.done = Steps BY <2>3, <2>4, StepsAssumption
  <2>6. UNCHANGED <<adds, wps, created>> /\ LogAhead' BY <1>2, <1>11 DEF ResumeStep, LogAhead
  <2>7. jobs[i] = "active" BY <1>7, <1>11 DEF ResumeStep
  <2>8. QED BY <1>5, <2>2, <2>3, <2>5, <2>6, <2>7
<1>12. CASE PauseStep(i)
  <2>1. ~eng[i].paused /\ eng[i].done < Steps /\ eng[i].at # "off" BY <1>12 DEF PauseStep
  <2>2. eng[i].done \in Nat BY <1>0, StepsAssumption DEF EngineType
  <2>3. QED BY <1>3, <2>1, <2>2, StepsAssumption
<1>13. CASE Checkpoint(i)
  <2>1. PICK e : e = [eng[i] EXCEPT !.at = "report"] OBVIOUS
  <2>2. eng' = [eng EXCEPT ![i] = e] /\ jobs' = [jobs EXCEPT ![i] = jobs[i]]
    BY <1>0, <1>4, <1>13, <2>1 DEF Checkpoint
  <2>3. e.at = "report" /\ e.paused = eng[i].paused /\ e.done = eng[i].done
    BY <1>0, <2>1 DEF EngineType
  <2>4. eng[i].at # "off" BY <1>13 DEF Checkpoint
  <2>5. UNCHANGED <<adds, wps, created>> /\ LogAhead' BY <1>6, <1>13, <2>4 DEF Checkpoint
  <2>6. QED BY <1>3, <1>5, <1>7, <2>2, <2>3, <2>4, <2>5
<1>14. CASE Report(i)
  <2>1. PICK e : e = [eng[i] EXCEPT !.at = "end"] OBVIOUS
  <2>2. eng' = [eng EXCEPT ![i] = e] /\ jobs' = [jobs EXCEPT ![i] = jobs[i]]
    BY <1>0, <1>4, <1>14, <2>1 DEF Report
  <2>3. e.at = "end" /\ e.paused = eng[i].paused /\ e.done = eng[i].done
    BY <1>0, <2>1 DEF EngineType
  <2>4. UNCHANGED <<wps, created>> /\ adds' = adds \cup {i} BY <1>14 DEF Report, Merge
  <2>5. LogAhead' BY <1>2, <1>14 DEF Report, LogAhead
  <2>6. eng[i].at # "off" BY <1>14 DEF Report
  <2>7. QED BY <1>3, <1>5, <1>7, <2>2, <2>3, <2>4, <2>5, <2>6
<1>15. CASE EndJob(i)
  <2>1. eng' = [eng EXCEPT ![i] = Off] /\ jobs' = [jobs EXCEPT ![i] = "absent"]
    BY <1>15 DEF EndJob
  <2>2. Off.at = "off" BY DEF Off
  <2>3. UNCHANGED <<adds, wps, created>> /\ LogAhead' BY <1>2, <1>15 DEF EndJob, LogAhead
  <2>4. QED BY <1>5, <2>1, <2>2, <2>3
<1>16. QED
  BY <1>8, <1>9, <1>10, <1>11, <1>12, <1>13, <1>14, <1>15 DEF EngineStep

LEMMA NextEngineInv ==
  ASSUME Steps <= 1 PROVE Types /\ EngineInv /\ [Next]_vars => EngineInv'
<1> SUFFICES ASSUME Types, EngineInv, [Next]_vars PROVE EngineInv'
  OBVIOUS
<1>1. CASE UNCHANGED vars
  BY <1>1 DEF vars, EngineInv, EngineHasJob, PausedIsOver, PauseIsPaused, OneWaitpoint, ResumesOnce,
              SaysPaused, Resumed, Begins, LogAhead
<1>2. ASSUME NEW i \in JobIds, EngineStep(i) \/ Backup(i) \/ Defer(i) PROVE EngineInv'
  <2>1. i = 0 \/ i \in Ids BY BoundAssumption DEF JobIds, Ids
  <2>2. QED BY <1>2, <2>1, BeginKeeps, ResumedKeeps
<1>3. QED BY <1>1, <1>2, OutsideKeeps, AddsKeep DEF Next

\* A run that pauses at most once never has two engines in its steps: not when
\* its resume URL is called early, late or again, when a failing child or a delay
\* resumes it, when a resume transaction rolls back after enqueueResume, when
\* metadata jobs fail, or when it is canceled meanwhile.
THEOREM OneEngineHolds == ASSUME Steps <= 1 PROVE Spec => []OneEngine
<1>1. EngineInv => OneEngine
  <2> SUFFICES ASSUME EngineInv, NEW i \in Executing, NEW j \in Executing PROVE i = j
    BY DEF OneEngine
  <2>1. ASSUME NEW k \in Executing PROVE k = 0 \/ (k = 1 /\ 1 \in Ids /\ Resumed)
    <3>1. k \in JobIds /\ jobs[k] # "absent" BY DEF Executing, EngineInv, EngineHasJob
    <3>2. k = 0 \/ k \in Ids BY <3>1, BoundAssumption DEF JobIds, Ids
    <3>3. QED BY <3>1, <3>2 DEF EngineInv, ResumesOnce, Resumed
  <2>2. ASSUME 0 \in Executing PROVE ~Resumed
    BY <2>2 DEF Executing, EngineInv, PausedIsOver, Begins
  <2>3. QED BY <2>1, <2>2
<1>2. QED
  BY <1>1, InitTypes, NextTypes, InitEngineInv, NextEngineInv, PTL DEF Spec
=============================================================================
