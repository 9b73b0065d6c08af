---------------------------- MODULE AtomicStore ----------------------------
(***************************************************************************)
(* What internal/store promises its callers, whatever the interleaving of  *)
(* their transactions: every call that returns without an error has taken  *)
(* effect in one step, for all of its keys, with a history entry for each  *)
(* change.  The number of an entry is at most one above the highest of its *)
(* key: it is NOT promised to be new (two concurrent calls may share it).  *)
(* A delete that lost a race leaves the row and is recorded all the same.  *)
(***************************************************************************)
EXTENDS Integers, Sequences, FiniteSets, FiniteSetsExt

CONSTANTS Keys, Values, None

VARIABLES
  service,    \* is the service there
  variables,  \* the value and version of each key, or None
  versions    \* the history of each key

vars == <<service, variables, versions>>

ChangeTypes == {"create", "update", "delete", "rollback"}
Entry == [value : Values, version : Nat, type : ChangeTypes]

Init ==
  /\ service = TRUE
  /\ variables = [k \in Keys |-> None]
  /\ versions = [k \in Keys |-> << >>]

VersionNumbers(k) == {versions[k][i].version : i \in DOMAIN versions[k]}
TopVersion(k) == IF VersionNumbers(k) = {} THEN 0 ELSE Max(VersionNumbers(k))

\* The entry this step adds to the history of k.
Added(k) == versions'[k][Len(versions[k]) + 1]

\* The history of exactly the keys in K grows, by one entry each.
Records(K) ==
  /\ service
  /\ UNCHANGED service
  /\ DOMAIN versions' = Keys
  /\ DOMAIN variables' = Keys
  /\ \A k \in Keys \ K : UNCHANGED <<variables[k], versions[k]>>
  /\ \A k \in K : /\ Len(versions'[k]) = Len(versions[k]) + 1
                  /\ versions'[k] = Append(versions[k], Added(k))
                  /\ Added(k) \in Entry
                  /\ Added(k).version \in 1 .. TopVersion(k) + 1

\* The row holds what the new entry records.
Installs(k) ==
  variables'[k] = [value |-> Added(k).value, version |-> Added(k).version]

Put(K) ==
  /\ Records(K)
  /\ \A k \in K : Added(k).type \in {"create", "update"} /\ Installs(k)

Delete(k) ==
  /\ Records({k})
  /\ Added(k).type = "delete"
  /\ variables'[k] \in {None, variables[k]}

Rollback(k) ==
  /\ Records({k})
  /\ Added(k).type = "rollback"
  /\ Installs(k)
  /\ \E i \in DOMAIN versions[k] :
       /\ versions[k][i].type # "delete"
       /\ versions[k][i].value = Added(k).value

Drop ==
  /\ service
  /\ service' = FALSE
  /\ variables' = [k \in Keys |-> None]
  /\ versions' = [k \in Keys |-> << >>]

Next ==
  \/ \E K \in (SUBSET Keys) \ {{}} : Put(K)
  \/ \E k \in Keys : Delete(k) \/ Rollback(k)
  \/ Drop

Spec == Init /\ [][Next]_vars

=============================================================================
