-------------------------- MODULE MCConcurrencyGate --------------------------
(* Three or four runs of one workflow: tickets for the model-checking runs. *)
EXTENDS ConcurrencyGate

CONSTANTS a, b, c, d, k

MCThree == {a, b, c}
MCFour  == {a, b, c, d}

\* Arrival order is a, b, c, d; a and b share an order key, the others have none.
MCEnqueuedAt == [j \in Jobs |-> CASE j = a -> 1 [] j = b -> 2 [] j = c -> 3 [] j = d -> 4]
MCOrderKey   == [j \in Jobs |-> IF j \in {a, b} THEN k ELSE NoKey]
MCOneKey     == [j \in Jobs |-> k]

\* The limit was raised from 1 to 2 while runs were queued.
MCMaxRuns == [j \in Jobs |-> IF j = b THEN 2 ELSE 1]
MCNoLimit == [j \in Jobs |-> 0]

\* a has only its order key, b the key and a limit, c and d only a limit.
MCSomeLimited == [j \in Jobs |-> CASE j = a -> 0 [] j = d -> 2 [] OTHER -> 1]
=============================================================================
