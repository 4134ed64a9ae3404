----------------------------- MODULE MCJobBroker -----------------------------
(* Two or three run jobs and two or three worker connections. *)
EXTENDS JobBroker, TLC

\* Room for one run per project, two per tenant and instance.
MCCapacity == [p \in Pools |-> IF p = "project" THEN 1 ELSE 2]

\* Room for one run of the instance, whose interceptor does not insist on it.
MCInstance == [p \in Pools |-> IF p = "instance" THEN 1 ELSE 2]

\* Neither jobs nor connections are told apart by the specification; used for
\* safety only.
MCSymmetry == Permutations(Jobs) \cup Permutations(Conns)
=============================================================================
