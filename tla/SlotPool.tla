------------------------------ MODULE SlotPool ------------------------------
(***************************************************************************)
(* What the concurrency gate of a workflow promises: a pool of slots in    *)
(* which a job is only given one while fewer are held than the limit of    *)
(* its own ticket.  ConcurrencyGate spreads the check and the taking over  *)
(* several Redis commands, among releases that do not wait for them.       *)
(***************************************************************************)
EXTENDS Naturals, FiniteSets

CONSTANTS Jobs, MaxRuns

VARIABLE held   \* the jobs that hold a slot

Init == held = {}

Take(j) ==
  /\ Cardinality(held) < MaxRuns[j]
  /\ held' = held \cup {j}

Free == \E rest \in SUBSET held : held' = rest

Next == (\E j \in Jobs : Take(j)) \/ Free

Spec == Init /\ [][Next]_held
=============================================================================
