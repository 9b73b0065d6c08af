------------------------------ MODULE AuditLog ------------------------------
(***************************************************************************)
(* The table audit_log: handlers of all replicas append entries, and every *)
(* replica prunes it to the newest ones when it starts and every hour.     *)
(*                                                                         *)
(* An entry is its id.  Ids come from a sequence when the insert begins,   *)
(* so entries need not commit in the order of their ids.                   *)
(***************************************************************************)
EXTENDS Naturals, FiniteSets

CONSTANTS
  Pruners,      \* replicas, each with its runAuditPruner
  Keep,         \* AUDIT_MAX_ENTRIES; 0 would turn pruning off
  MaxEntries,   \* bound on the entries of handlers that are not modelled
  MaxFailures,  \* bound on statements that fail
  None

ASSUME AuditBoundsAssumption ==
  Keep \in Nat \ {0} /\ MaxEntries \in Nat /\ MaxFailures \in Nat

VARIABLES
  drawn,      \* highest id that was taken from the sequence
  inserting,  \* ids whose insert has not committed
  logged,     \* ids of committed entries
  doomed,     \* None, or what the DELETE of a pruner has selected
  failures,   \* counter of the bound
  pruned      \* auxiliary: ids of entries that were deleted

log == <<drawn, inserting, logged, doomed, pruned>>

LogInit ==
  /\ drawn = 0
  /\ inserting = {}
  /\ logged = {}
  /\ doomed = [r \in Pruners |-> None]
  /\ failures = 0
  /\ pruned = {}

Fails ==
  /\ failures < MaxFailures
  /\ failures' = failures + 1

\* InsertAudit has begun.
Draw ==
  /\ drawn' = drawn + 1
  /\ inserting' = inserting \cup {drawn + 1}
  /\ UNCHANGED <<logged, doomed, failures, pruned>>

Insert(i) ==
  /\ i \in inserting
  /\ inserting' = inserting \ {i}
  /\ logged' = logged \cup {i}
  /\ UNCHANGED <<drawn, doomed, failures, pruned>>

\* Only logged as a warning by the server.
InsertFails(i) ==
  /\ i \in inserting
  /\ Fails
  /\ inserting' = inserting \ {i}
  /\ UNCHANGED <<drawn, logged, doomed, pruned>>

\* Faulty variants, here and below, show that the properties can fail.
NewestButOne(S) == {i \in S : Cardinality({j \in S : j > i}) + 1 < Keep}
NewestAndOne(S) == {i \in S : Cardinality({j \in S : j > i}) <= Keep}

\* ORDER BY id DESC LIMIT keep
Newest(S) == {i \in S : Cardinality({j \in S : j > i}) < Keep}

\* The statement sees what has committed when it begins.
PruneSelects(r) ==
  /\ doomed[r] = None
  /\ LET old == {i \in logged : \A j \in Newest(logged) : i < j}
     IN  old # {} /\ doomed' = [doomed EXCEPT ![r] = old]
  /\ UNCHANGED <<drawn, inserting, logged, failures, pruned>>

\* Entries that another pruner has deleted by now are passed over.
PruneDeletes(r) ==
  /\ doomed[r] # None
  /\ logged' = logged \ doomed[r]
  /\ pruned' = pruned \cup (logged \cap doomed[r])
  /\ doomed' = [doomed EXCEPT ![r] = None]
  /\ UNCHANGED <<drawn, inserting, failures>>

\* An error, the time-out of 30 s, or the end of the process.
PruneFails(r) ==
  /\ doomed[r] # None
  /\ Fails
  /\ doomed' = [doomed EXCEPT ![r] = None]
  /\ UNCHANGED <<drawn, inserting, logged, pruned>>

LogStep ==
  \/ drawn < MaxEntries /\ Draw
  \/ \E i \in inserting : Insert(i) \/ InsertFails(i)
  \/ \E r \in Pruners : PruneSelects(r) \/ PruneDeletes(r) \/ PruneFails(r)

\* An insert ends, and a replica prunes again and again.
LogFairness ==
  /\ WF_log(\E i \in inserting : Insert(i))
  /\ \A r \in Pruners : WF_log(PruneSelects(r)) /\ WF_log(PruneDeletes(r))

LogTypeOK ==
  /\ drawn \in Nat
  /\ inserting \subseteq 1 .. drawn
  /\ logged \subseteq 1 .. drawn
  /\ pruned \subseteq 1 .. drawn
  /\ logged \cap (inserting \cup pruned) = {} /\ inserting \cap pruned = {}
  /\ doomed \in [Pruners -> {None} \cup SUBSET (1 .. drawn)]
  /\ failures \in 0 .. MaxFailures

\* "pruned hourly to the newest N rows" (README.md:247), never below: an entry
\* is deleted only when as many newer ones are there as are to be kept, and
\* these stay, although pruners of several replicas overlap and entries
\* commit out of order.
KeepsNewest == \A i \in pruned : Cardinality({j \in logged : j > i}) >= Keep

\* "so it can't grow without bound" (cmd/server/main.go:179): once entries
\* stop coming, no more of them are left than are to be kept.
Trimmed == <>[](Cardinality(logged) <= Keep)

=============================================================================
