---------------------------- MODULE NumberedStore ----------------------------
(***************************************************************************)
(* What those who read versions rely on: the numbers of a key count its    *)
(* changes.  Every change takes the number after the highest of its key, a *)
(* row carries the number of the change that set it, and a delete finds a  *)
(* row and removes it.  Each call of VersionStore that meets no other on a *)
(* key makes such a change, and all of its calls amount to such a store    *)
(* when no two of them work on one key at the same time.                   *)
(***************************************************************************)
EXTENDS Integers

CONSTANT Keys

VARIABLES
  service,    \* is the service there
  variables,  \* the number in the row of each key, 0 if it has none
  top         \* the highest number of each key, 0 when the service is gone

vars == <<service, variables, top>>

Init ==
  /\ service = TRUE
  /\ variables = [k \in Keys |-> 0]
  /\ top = [k \in Keys |-> 0]

\* Each key in K has one more change.
Counts(K) ==
  /\ service
  /\ UNCHANGED service
  /\ top' = [k \in Keys |-> IF k \in K THEN top[k] + 1 ELSE top[k]]

\* A bulk upsert of the keys in K, an upsert or a rollback of one.
Upsert(K) ==
  /\ Counts(K)
  /\ variables' = [k \in Keys |-> IF k \in K THEN top[k] + 1 ELSE variables[k]]

Delete(k) ==
  /\ variables[k] # 0
  /\ Counts({k})
  /\ variables' = [variables EXCEPT ![k] = 0]

Drop ==
  /\ service
  /\ service' = FALSE
  /\ variables' = [k \in Keys |-> 0]
  /\ top' = [k \in Keys |-> 0]

Next ==
  \/ \E K \in (SUBSET Keys) \ {{}} : Upsert(K)
  \/ \E k \in Keys : Delete(k)
  \/ Drop

Spec == Init /\ [][Next]_vars

=============================================================================
