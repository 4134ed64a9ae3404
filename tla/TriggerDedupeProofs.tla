------------------------- MODULE TriggerDedupeProofs -------------------------
(***************************************************************************)
(* Deduplication starts an event once in a window, for any number of       *)
(* submissions and faults, while no start outlasts the take-over age.      *)
(***************************************************************************)
EXTENDS TriggerDedupe, TLAPS

(***************************************************************************)
(* The claim in Redis has no owner, so the argument is about who can       *)
(* believe to hold it: at most one living attempt does, the key is its     *)
(* fresh claim as long as it does, and a run that counts is either about   *)
(* to be bound by that attempt or is what the key names.                   *)
(***************************************************************************)

\* A living attempt past its claim is the one whose claim is in the key.
HolderOwnsClaim ==
  \A a \in Attempts : at[a] \in Holding =>
    key.value = "pending" /\ key.by = a /\ ~key.stale

\* A pending claim belongs to such an attempt, or a failed or dead one left it.
ClaimHasHolder == key.value = "pending" => at[key.by] \in Holding \cup Failed \cup Dead

\* What findFailedExecutionIds saw stays so until the compare-and-set.
FailedWhenReclaimed == \A a \in Attempts : at[a] = "reclaim" => run[seen[a]] = "failed"

\* The key names the run that counts, once its server could write it.
CountedIsBound ==
  \A a \in Attempts : Counts(a) /\ ~Unbound(a) =>
    at[a] = "bind" \/ (key.value = "bound" /\ key.run = a)

\* An attempt has no run before it has started one.
NoRunYet ==
  \A a \in Attempts :
    at[a] \in {"unused", "claim", "takeover", "get", "lookup", "reclaim", "start"} =>
      run[a] = "none"

DedupeInv ==
  /\ TypeOK /\ HolderOwnsClaim /\ ClaimHasHolder
  /\ FailedWhenReclaimed /\ CountedIsBound /\ NoRunYet

LEMMA NoneIsNoAttempt == None \notin Attempts
  BY BoundAssumption DEF None, Attempts

LEMMA CountUp ==
  ASSUME NEW c \in Counters, NEW bound \in Nat, count \in [Counters -> Nat], Bounded(c, bound)
  PROVE  count' \in [Counters -> Nat]
  BY DEF Bounded

LEMMA InitTypes == Init => TypeOK
  BY NoneIsNoAttempt DEF Init, TypeOK, Free, Busy, Over, Counters

\* Steps that begin an attempt: the key and the runs stay as they are.
LEMMA BeginTypes ==
  ASSUME TypeOK, NEW a \in Attempts, NEW b \in Attempts,
         Send(a) \/ Retry(a, b) \/ LoseWorker(a, b)
  PROVE  TypeOK'
<1> USE NoneIsNoAttempt, BoundAssumption DEF TypeOK, Begin, Step, Busy, Over, Holding, Failed, Dead
<1>0. "sends" \in Counters /\ "faults" \in Counters BY DEF Counters
<1>1. CASE Send(a)
  <2>1. count' \in [Counters -> Nat] BY <1>0, <1>1, CountUp DEF Send
  <2>2. QED BY <1>1, <2>1 DEF Send
<1>2. CASE Retry(a, b) BY <1>2 DEF Retry
<1>3. CASE LoseWorker(a, b)
  <2>1. count' \in [Counters -> Nat] BY <1>0, <1>3, CountUp DEF LoseWorker
  <2>2. QED BY <1>3, <2>1 DEF LoseWorker
<1>4. QED BY <1>1, <1>2, <1>3

LEMMA AttemptTypes ==
  ASSUME TypeOK, NEW a \in Attempts, ClaimStep(a) \/ StartStep(a) \/ Fault(a)
  PROVE  TypeOK'
<1> USE NoneIsNoAttempt, BoundAssumption
    DEF TypeOK, Step, Busy, Over, Holding, Failed, Dead, Free, Pending, Bound
<1>0. "faults" \in Counters /\ "runFails" \in Counters BY DEF Counters
<1>1. CASE Claim(a) BY <1>1 DEF Claim
<1>2. CASE TakeOver(a) BY <1>2 DEF TakeOver
<1>3. CASE Get(a) BY <1>3 DEF Get
<1>4. CASE Lookup(a) BY <1>4 DEF Lookup
<1>5. CASE Reclaim(a) BY <1>5 DEF Reclaim
<1>6. CASE StartStep(a)
  <2>1. CASE StartRun(a) BY <2>1 DEF StartRun
  <2>2. CASE Bind(a) BY <2>2 DEF Bind
  <2>3. CASE Release(a) BY <2>3 DEF Release
  <2>4. CASE Answer(a) BY <2>4 DEF Answer
  <2>5. QED BY <1>6, <2>1, <2>2, <2>3, <2>4 DEF StartStep
<1>7. CASE StartFails(a) \/ BatchFails(a)
  <2>1. count' \in [Counters -> Nat] BY <1>0, <1>7, CountUp DEF StartFails, BatchFails
  <2>2. QED BY <1>7, <2>1 DEF StartFails, BatchFails
<1>8. CASE Crash(a)
  <2>1. count' \in [Counters -> Nat] BY <1>0, <1>8, CountUp DEF Crash
  <2>2. QED BY <1>8, <2>1 DEF Crash
<1>9. CASE RunFails(a)
  <2>1. count' \in [Counters -> Nat] BY <1>0, <1>9, CountUp DEF RunFails
  <2>2. QED BY <1>9, <2>1 DEF RunFails
<1>10. CASE RedisFails(a)
  <2>1. count' \in [Counters -> Nat] BY <1>0, <1>10, CountUp DEF RedisFails
  <2>2. QED BY <1>10, <2>1 DEF RedisFails
<1>11. QED
  BY <1>1, <1>2, <1>3, <1>4, <1>5, <1>6, <1>7, <1>8, <1>9, <1>10 DEF ClaimStep, Fault

LEMMA TimeTypes ==
  ASSUME TypeOK, ClaimAges \/ WindowEnds \/ LegacyExpires \/ UNCHANGED vars
  PROVE  TypeOK'
<1> USE NoneIsNoAttempt, BoundAssumption DEF TypeOK
<1>1. CASE ClaimAges BY <1>1 DEF ClaimAges
<1>2. CASE WindowEnds
  <2>1. count' \in [Counters -> Nat] BY <1>2, CountUp DEF WindowEnds, Counters
  <2>2. QED BY <1>2, <2>1 DEF WindowEnds, Free
<1>3. CASE LegacyExpires BY <1>3 DEF LegacyExpires
<1>4. CASE UNCHANGED vars BY <1>4 DEF vars
<1>5. QED BY <1>1, <1>2, <1>3, <1>4

LEMMA NextTypes == TypeOK /\ [Next]_vars => TypeOK'
  BY BeginTypes, AttemptTypes, TimeTypes DEF Next

\* The key always has the shape of one of its three values, and an attempt
\* looks up and reclaims only after it read the id of a run.
THEOREM TypesHold == Spec => []TypeOK
  BY InitTypes, NextTypes, PTL DEF Spec

-----------------------------------------------------------------------------
LEMMA InitDedupeInv == Init => DedupeInv
  BY InitTypes DEF Init, DedupeInv, HolderOwnsClaim, ClaimHasHolder, FailedWhenReclaimed,
                   CountedIsBound, NoRunYet, Counts, Unbound, Free, Holding

LEMMA AttemptDedupeInv ==
  ASSUME DedupeInv, NEW a \in Attempts, ClaimStep(a) \/ StartStep(a) \/ Fault(a)
  PROVE  DedupeInv'
<1>0. TypeOK' BY AttemptTypes DEF DedupeInv
<1> USE <1>0, NoneIsNoAttempt
    DEF DedupeInv, TypeOK, HolderOwnsClaim, ClaimHasHolder, FailedWhenReclaimed,
        CountedIsBound, NoRunYet, Counts, Unbound, Step, Holding, Failed, Dead, Busy, Over,
        Free, Pending, Bound
<1>1. CASE Claim(a) BY <1>1 DEF Claim
<1>2. CASE TakeOver(a) BY <1>2 DEF TakeOver
<1>3. CASE Get(a) BY <1>3 DEF Get
<1>4. CASE Lookup(a) BY <1>4 DEF Lookup
<1>5. CASE Reclaim(a) BY <1>5 DEF Reclaim
<1>6. CASE StartRun(a) BY <1>6 DEF StartRun
<1>7. CASE Bind(a) BY <1>7 DEF Bind
<1>8. CASE Release(a) BY <1>8 DEF Release
<1>9. CASE Answer(a) BY <1>9 DEF Answer
<1>10. CASE StartFails(a) \/ BatchFails(a) BY <1>10 DEF StartFails, BatchFails
<1>11. CASE Crash(a) BY <1>11 DEF Crash
<1>12. CASE RunFails(a) BY <1>12 DEF RunFails
<1>13. CASE RedisFails(a) BY <1>13 DEF RedisFails
<1>14. QED
  BY <1>1, <1>2, <1>3, <1>4, <1>5, <1>6, <1>7, <1>8, <1>9, <1>10, <1>11, <1>12, <1>13
  DEF ClaimStep, StartStep, Fault

LEMMA NextDedupeInv ==
  ASSUME ~SlowStarts
  PROVE  DedupeInv /\ [Next]_vars => DedupeInv'
<1> SUFFICES ASSUME DedupeInv, [Next]_vars PROVE DedupeInv'
  OBVIOUS
<1>0. TypeOK' BY NextTypes DEF DedupeInv
<1>1. ASSUME NEW a \in Attempts, ClaimStep(a) \/ StartStep(a) \/ Fault(a) PROVE DedupeInv'
  BY <1>1, AttemptDedupeInv
<1> USE <1>0, NoneIsNoAttempt
    DEF DedupeInv, TypeOK, HolderOwnsClaim, ClaimHasHolder, FailedWhenReclaimed,
        CountedIsBound, NoRunYet, Counts, Unbound, Begin, Step, Holding, Failed, Dead, Busy, Over
<1>2. ASSUME NEW a \in Attempts, NEW b \in Attempts, Send(a) \/ Retry(a, b) \/ LoseWorker(a, b)
      PROVE  DedupeInv'
  BY <1>2 DEF Send, Retry, LoseWorker
<1>3. CASE ClaimAges
  BY <1>3 DEF ClaimAges
<1>4. CASE WindowEnds
  BY <1>4 DEF WindowEnds, Free
<1>5. CASE LegacyExpires
  BY <1>5 DEF LegacyExpires
<1>6. CASE UNCHANGED vars
  BY <1>6 DEF vars
<1>7. QED BY <1>1, <1>2, <1>3, <1>4, <1>5, <1>6 DEF Next

\* No two runs of a window that did not fail, other than those whose id was not
\* written because the server died or Redis failed: whatever interleaving of claims, take-overs,
\* reclaims, binds and releases on any number of servers.
THEOREM EventRunsOnce ==
  ASSUME ~SlowStarts
  PROVE  Spec => []OneBoundRun
<1>1. DedupeInv => OneBoundRun
  BY DEF DedupeInv, HolderOwnsClaim, CountedIsBound, OneBoundRun, Unbound, Holding
<1>2. DedupeInv /\ [Next]_vars => DedupeInv'
  BY NextDedupeInv
<1>3. QED
  BY <1>1, <1>2, InitDedupeInv, PTL DEF Spec
=============================================================================
