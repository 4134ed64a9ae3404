----------------------------- MODULE WriteBehind -----------------------------
(***************************************************************************)
(* What the metadata queue of a run promises: a cell whose writers do not  *)
(* wait.  A saver copies the latest value and stores the copy later; the   *)
(* cell counts as settled only when what is stored is the latest value.    *)
(***************************************************************************)
CONSTANTS Values, NoValue

VARIABLES
  latest,  \* the value written last
  stored,  \* the value readers see
  pending, \* whether a write may not be stored yet
  copy     \* what the saver has read and not stored

vars == <<latest, stored, pending, copy>>

Init == latest \in Values /\ stored = NoValue /\ pending = TRUE /\ copy = NoValue

Write(v) == latest' = v /\ pending' = TRUE /\ UNCHANGED <<stored, copy>>

Read == pending /\ copy' = latest /\ UNCHANGED <<latest, stored, pending>>

Save == copy # NoValue /\ stored' = copy /\ copy' = NoValue /\ UNCHANGED <<latest, pending>>

Forget == copy' = NoValue /\ UNCHANGED <<latest, stored, pending>>

Settle == stored = latest /\ pending' = FALSE /\ UNCHANGED <<latest, stored, copy>>

Next == (\E v \in Values : Write(v)) \/ Read \/ Save \/ Forget \/ Settle

Spec == Init /\ [][Next]_vars
=============================================================================
