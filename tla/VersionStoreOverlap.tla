------------------------- MODULE VersionStoreOverlap -------------------------
(***************************************************************************)
(* VersionStore, and a record of which calls have overlapped with another  *)
(* call on a key of theirs, from their first statement on.  The record     *)
(* constrains nothing; it serves to say what a call that had its keys to   *)
(* itself can count on, whatever other calls do to each other.             *)
(***************************************************************************)
EXTENDS VersionStore

VARIABLE overlapped  \* calls under way that have met another one on a key

ovars == <<vars, overlapped>>

\* Two writers are under way and have a key in common.  (A DeleteService may
\* come at any time.)
Meets(t, u) == t # u /\ Writes(t) /\ Writes(u) /\ req[t].keys \cap req[u].keys # {}

Watch ==
  overlapped' = {t \in Txs : pc'[t] # "idle" /\ (t \in overlapped \/ \E u \in Txs : Meets(t, u)')}

OverlapInit == Init /\ overlapped = {}
OverlapNext == Next /\ Watch
OverlapSpec == OverlapInit /\ [][OverlapNext]_ovars
FairOverlapSpec == OverlapSpec /\ Fairness

\* t is a call that no other one has met.
Lone(t) == t \notin overlapped

\* The commit of t, told by what it does: the step that ends its call and
\* changes the history.
Commits(t) == pc[t] = "commit" /\ pc'[t] = "idle" /\ versions' # versions

\* The call of a session that met no other one on a key counts, whatever calls
\* that raced before it have left behind and whatever becomes of those on other
\* keys: each of its changes takes the number after the highest
\* (variables.go:69), and a delete removes the row that it has found and records
\* its value (variables.go:178).
LoneCounts ==
  [][\A t \in Txs : Lone(t) /\ Commits(t) =>
       /\ Counted!Next
       /\ req[t].op = "delete" => \A k \in req[t].keys :
            /\ variables[k] # None /\ variables'[k] = None
            /\ versions'[k][Len(versions'[k])].value = variables[k].value]_ovars

=============================================================================
