---------------------------- MODULE VersionStore ----------------------------
(***************************************************************************)
(* The versioned variables of one service as internal/store keeps them in  *)
(* Postgres: the current rows (table variables) and the history (table     *)
(* variable_versions), written by transactions that run concurrently on    *)
(* every replica of the server.  Each transaction is a Go call             *)
(* (UpsertVariable, BulkUpsertVariables, DeleteVariable, RollbackVariable, *)
(* DeleteService) that issues one SQL statement per step at Postgres'      *)
(* default isolation level, READ COMMITTED: a read sees what is committed  *)
(* when the statement starts, a write waits for the lock of the row.       *)
(*                                                                         *)
(* A call to UpsertVariable does what BulkUpsertVariables does with a map  *)
(* of one key, so both are the request "put".  The history of a key is     *)
(* kept in commit order; the code only ever reads it by version number.    *)
(***************************************************************************)
EXTENDS Integers, Sequences, FiniteSets, FiniteSetsExt

CONSTANTS
  Keys,        \* variable names of the service
  Values,      \* values a variable can take
  Txs,         \* database sessions that run one call at a time
  MaxVersion,  \* bound: no call starts that could number a change beyond it
  None         \* SQL's "no row", and the absence of a request or a lock

ASSUME MaxVersionAssumption == MaxVersion \in Nat \ {0}

ChangeTypes == {"create", "update", "delete", "rollback"}

Row == [value : Values, version : Nat]
Entry == [value : Values, version : Nat, type : ChangeTypes]

\* The calls: their arguments after the handler has resolved the service id.
PutRequests ==
  UNION {[op : {"put"}, keys : {K}, kv : [K -> Values]] :
           K \in (SUBSET Keys) \ {{}}}
DeleteRequests == [op : {"delete"}, keys : {{k} : k \in Keys}]
RollbackRequests ==
  [op : {"rollback"}, keys : {{k} : k \in Keys}, target : 1 .. MaxVersion]
DropRequests == [op : {"drop"}, keys : {Keys}]
Requests == PutRequests \cup DeleteRequests \cup RollbackRequests \cup DropRequests

ASSUME NoneAssumption ==
  /\ None \notin Txs
  /\ None \notin Keys
  /\ None \notin Row
  /\ None \notin Entry
  /\ None \notin Requests

VARIABLES
  service,    \* is the row of the service in table services
  variables,  \* committed row of each key, or None
  versions,   \* committed history of each key
  pc,         \* the statement each transaction issues next
  req,        \* the call it executes
  key,        \* the Go locals of the call: the key of this iteration,
  entry,      \*   and the history entry it is composing for it
  written,    \* rows written and not yet committed, per key (None: deleted)
  log,        \* history rows inserted and not yet committed, per key
  holder,     \* who holds the lock of the row (or of the index entry) of a key
  sharers,    \* who holds FOR KEY SHARE on the service row (foreign key check)
  dropper     \* who has deleted the service row and not yet committed

committed == <<service, variables, versions>>
pending == <<written, log>>
locks == <<holder, sharers, dropper>>
vars == <<service, variables, versions, pc, req, key, entry, written, log,
          holder, sharers, dropper>>

Nothing == [k \in Keys |-> None]

Init ==
  /\ service = TRUE
  /\ variables = Nothing
  /\ versions = [k \in Keys |-> << >>]
  /\ pc = [t \in Txs |-> "idle"]
  /\ req = [t \in Txs |-> None]
  /\ key = [t \in Txs |-> None]
  /\ entry = [t \in Txs |-> None]
  /\ written = [t \in Txs |-> Nothing]
  /\ log = [t \in Txs |-> Nothing]
  /\ holder = [k \in Keys |-> None]
  /\ sharers = {}
  /\ dropper = None

VersionNumbers(k) == {versions[k][i].version : i \in DOMAIN versions[k]}

\* SELECT COALESCE(MAX(version), 0)
TopVersion(k) == IF VersionNumbers(k) = {} THEN 0 ELSE Max(VersionNumbers(k))

\* Faulty variants, here and below, show that the properties can fail.
\* The aggregate of a key without history, NULL, is not coalesced to 0:
NextVersionUncoalesced(k) ==
  IF VersionNumbers(k) = {} THEN None ELSE TopVersion(k) + 1
\* the maximum counts entries that calls in flight have not committed:
NextVersionDirty(k) ==
  Max({0, TopVersion(k)} \cup
      {log[t][k].version : t \in {u \in Txs : log[u][k] # None}}) + 1
\* the maximum itself is used again:
NextVersionNotAdded(k) == IF TopVersion(k) = 0 THEN 1 ELSE TopVersion(k)

NextVersion(k) == TopVersion(k) + 1

Active == {t \in Txs : pc[t] # "idle"}

\* Room for every call in flight, and one more, to number its changes.
Room == \A k \in Keys : TopVersion(k) + Cardinality(Active) < MaxVersion

-----------------------------------------------------------------------------
(* Ends of a transaction.                                                  *)

\* What ends with the session's transaction, whether it commits or not.
EndOfTx(t) ==
  /\ req' = [req EXCEPT ![t] = None]
  /\ key' = [key EXCEPT ![t] = None]
  /\ entry' = [entry EXCEPT ![t] = None]
  /\ written' = [written EXCEPT ![t] = Nothing]
  /\ log' = [log EXCEPT ![t] = Nothing]
  /\ holder' = [k \in Keys |-> IF holder[k] = t THEN None ELSE holder[k]]
  /\ sharers' = sharers \ {t}
  /\ dropper' = IF dropper = t THEN None ELSE dropper

\* An early return without tx.Rollback leaves the session's locks behind.
RollBackForgotten(t) ==
  /\ pc' = [pc EXCEPT ![t] = "idle"]
  /\ req' = [req EXCEPT ![t] = None]
  /\ key' = [key EXCEPT ![t] = None]
  /\ entry' = [entry EXCEPT ![t] = None]
  /\ UNCHANGED <<committed, pending, locks>>

\* defer tx.Rollback(ctx): an early return discards everything.
RollBack(t) ==
  /\ pc' = [pc EXCEPT ![t] = "idle"]
  /\ EndOfTx(t)
  /\ UNCHANGED committed

\* A DELETE that waits for the lock of a row finds the row gone when the
\* holder commits the row's deletion: it deletes nothing and goes on.
Awakened(t, K) ==
  {u \in Txs \ {t} : pc[u] = "blocked" /\ key[u] \in K}

PcAfterCommit(t, K) ==
  [u \in Txs |-> IF u = t THEN "idle"
                 ELSE IF u \in Awakened(t, K) THEN "log" ELSE pc[u]]

-----------------------------------------------------------------------------
(* Statements of the calls that change variables.                          *)

Begin(t, r) ==
  /\ pc[t] = "idle"
  /\ r.op = "drop" \/ Room
  /\ pc' = [pc EXCEPT ![t] = IF r.op = "drop" THEN "lockService" ELSE "read"]
  /\ req' = [req EXCEPT ![t] = r]
  /\ UNCHANGED <<committed, key, entry, pending, locks>>

\* The keys of the request whose change is not logged yet.
Todo(t) == {k \in req[t].keys : log[t][k] = None}

\* The first read of an iteration leaves the entry to be: its number follows.
ReadDone(t, k, value, type) ==
  /\ pc' = [pc EXCEPT ![t] = "number"]
  /\ key' = [key EXCEPT ![t] = k]
  /\ entry' = [entry EXCEPT ![t] = [value |-> value, version |-> 0, type |-> type]]
  /\ UNCHANGED <<committed, req, pending, locks>>

\* SELECT EXISTS; the keys of the map come in any order.
ReadForPut(t) ==
  /\ pc[t] = "read"
  /\ req[t].op = "put"
  /\ \E k \in Todo(t) :
       ReadDone(t, k, req[t].kv[k], IF variables[k] = None THEN "create" ELSE "update")

\* Takes the value the key had first.
ReadForDeleteFirstValue(t) ==
  /\ pc[t] = "read"
  /\ req[t].op = "delete"
  /\ \E k \in Todo(t) :
       /\ variables[k] # None
       /\ ReadDone(t, k, versions[k][1].value, "delete")

ReadForDelete(t) ==
  /\ pc[t] = "read"
  /\ req[t].op = "delete"
  /\ \E k \in Todo(t) :
       /\ variables[k] # None
       /\ ReadDone(t, k, variables[k].value, "delete")

\* Any of the entries that carry the target version: QueryRow takes the first.
Targets(k, version) ==
  {versions[k][i] : i \in {j \in DOMAIN versions[k] : versions[k][j].version = version}}

ReadForRollback(t) ==
  /\ pc[t] = "read"
  /\ req[t].op = "rollback"
  /\ \E k \in Todo(t) : \E e \in Targets(k, req[t].target) :
       /\ e.type # "delete"
       /\ ReadDone(t, k, e.value, "rollback")

\* ErrNotFound, or the target of a rollback is the record of a delete.
ReadRefused(t) ==
  /\ pc[t] = "read"
  /\ \E k \in Todo(t) :
       \/ req[t].op = "delete" /\ variables[k] = None
       \/ req[t].op = "rollback" /\ Targets(k, req[t].target) = {}
       \/ req[t].op = "rollback" /\ \E e \in Targets(k, req[t].target) : e.type = "delete"
  /\ RollBack(t)

Number(t) ==
  /\ pc[t] = "number"
  /\ pc' = [pc EXCEPT ![t] = "write"]
  /\ entry' = [entry EXCEPT ![t].version = NextVersion(key[t])]
  /\ UNCHANGED <<committed, req, key, pending, locks>>

GoTo(t, label) ==
  /\ pc' = [pc EXCEPT ![t] = label]
  /\ UNCHANGED <<committed, req, key, entry, log, sharers, dropper>>

\* Does not wait for the holder, as two statements (UPDATE, else INSERT) on
\* a table without the unique constraint would not.
UpsertRowUnlocked(t) ==
  /\ pc[t] = "write"
  /\ req[t].op \in {"put", "rollback"}
  /\ holder' = [holder EXCEPT ![key[t]] = t]
  /\ written' = [written EXCEPT ![t][key[t]] =
                   [value |-> entry[t].value, version |-> entry[t].version]]
  /\ GoTo(t, "log")

\* INSERT ... ON CONFLICT DO UPDATE waits for whoever holds the key, then
\* overwrites whatever it finds.  (The foreign key check of a new row is that
\* of its history row, which the next statement inserts.)
UpsertRow(t) ==
  /\ pc[t] = "write"
  /\ req[t].op \in {"put", "rollback"}
  /\ holder[key[t]] = None
  /\ holder' = [holder EXCEPT ![key[t]] = t]
  /\ written' = [written EXCEPT ![t][key[t]] =
                   [value |-> entry[t].value, version |-> entry[t].version]]
  /\ GoTo(t, "log")

\* DELETE FROM variables: what it does depends on the row it sees at its start.
DeleteNothing(t) ==
  /\ pc[t] = "write"
  /\ req[t].op = "delete"
  /\ variables[key[t]] = None
  /\ GoTo(t, "log")
  /\ UNCHANGED <<holder, written>>

DeleteRow(t) ==
  /\ \/ pc[t] = "write" /\ req[t].op = "delete" /\ variables[key[t]] # None
     \/ pc[t] = "blocked"
  /\ holder[key[t]] = None
  /\ holder' = [holder EXCEPT ![key[t]] = t]
  /\ GoTo(t, "log")
  /\ UNCHANGED written

DeleteWaits(t) ==
  /\ pc[t] = "write"
  /\ req[t].op = "delete"
  /\ variables[key[t]] # None
  /\ holder[key[t]] # None
  /\ GoTo(t, "blocked")
  /\ UNCHANGED <<holder, written>>

LogDone(t, label) ==
  /\ pc' = [pc EXCEPT ![t] = label]
  /\ UNCHANGED <<committed, req, key, entry, written, holder, dropper>>

\* Skips the history row of a rollback, which repeats an old one.
LogVersionNoRollback(t) ==
  /\ pc[t] = "log"
  /\ service
  /\ dropper = None
  /\ sharers' = sharers \cup {t}
  /\ log' = IF req[t].op = "rollback" THEN log
            ELSE [log EXCEPT ![t][key[t]] = entry[t]]
  /\ LogDone(t, IF Todo(t) = {key[t]} THEN "commit" ELSE "read")

\* Skips the history row of a delete.
LogVersionNoDelete(t) ==
  /\ pc[t] = "log"
  /\ service
  /\ dropper = None
  /\ sharers' = sharers \cup {t}
  /\ log' = IF req[t].op = "delete" THEN log
            ELSE [log EXCEPT ![t][key[t]] = entry[t]]
  /\ LogDone(t, IF Todo(t) = {key[t]} THEN "commit" ELSE "read")

\* Has no foreign key to check.
LogVersionNoForeignKey(t) ==
  /\ pc[t] = "log"
  /\ log' = [log EXCEPT ![t][key[t]] = entry[t]]
  /\ UNCHANGED sharers
  /\ LogDone(t, IF Todo(t) = {key[t]} THEN "commit" ELSE "read")

\* Commits inside the loop, after the first key.
LogVersionCommitsEarly(t) ==
  /\ pc[t] = "log"
  /\ service
  /\ dropper = None
  /\ sharers' = sharers \cup {t}
  /\ log' = [log EXCEPT ![t][key[t]] = entry[t]]
  /\ LogDone(t, "commit")

\* insertVersion: the foreign key check takes FOR KEY SHARE on the service
\* row, and waits for a transaction that has deleted it.
LogVersion(t) ==
  /\ pc[t] = "log"
  /\ service
  /\ dropper = None
  /\ sharers' = sharers \cup {t}
  /\ log' = [log EXCEPT ![t][key[t]] = entry[t]]
  /\ LogDone(t, IF Todo(t) = {key[t]} THEN "commit" ELSE "read")

LogRefused(t) ==
  /\ pc[t] = "log"
  /\ ~ service
  /\ RollBack(t)

\* The row a key is left with when t commits.
RowAfter(t, k) == IF holder[k] = t THEN written[t][k] ELSE variables[k]

\* Replaces the entry that already carries the number, if there is one.
CommitReplacing(t) ==
  /\ pc[t] = "commit"
  /\ variables' = [k \in Keys |-> RowAfter(t, k)]
  /\ versions' = [k \in Keys |->
       IF log[t][k] = None THEN versions[k]
       ELSE IF log[t][k].version \in VersionNumbers(k)
         THEN [i \in DOMAIN versions[k] |->
                 IF versions[k][i].version = log[t][k].version THEN log[t][k]
                 ELSE versions[k][i]]
       ELSE Append(versions[k], log[t][k])]
  /\ pc' = PcAfterCommit(t, {k \in Keys : variables[k] # None /\ RowAfter(t, k) = None})
  /\ EndOfTx(t)
  /\ UNCHANGED service

Commit(t) ==
  /\ pc[t] = "commit"
  /\ variables' = [k \in Keys |-> RowAfter(t, k)]
  /\ versions' = [k \in Keys |-> IF log[t][k] = None THEN versions[k]
                                 ELSE Append(versions[k], log[t][k])]
  /\ pc' = PcAfterCommit(t, {k \in Keys : variables[k] # None /\ RowAfter(t, k) = None})
  /\ EndOfTx(t)
  /\ UNCHANGED service

-----------------------------------------------------------------------------
(* DELETE FROM services with its cascade to rows and history.              *)

LockService(t) ==
  /\ pc[t] = "lockService"
  /\ service
  /\ sharers = {}
  /\ dropper = None
  /\ dropper' = t
  /\ pc' = [pc EXCEPT ![t] = "cascade"]
  /\ UNCHANGED <<committed, req, key, entry, pending, holder, sharers>>

ServiceNotFound(t) ==
  /\ pc[t] = "lockService"
  /\ ~ service
  /\ RollBack(t)

Cascade(t) ==
  /\ pc[t] = "cascade"
  /\ \E k \in Keys :
       /\ variables[k] # None
       /\ holder[k] = None
       /\ holder' = [holder EXCEPT ![k] = t]
  /\ UNCHANGED <<committed, pc, req, key, entry, pending, sharers, dropper>>

DropCommit(t) ==
  /\ pc[t] = "cascade"
  /\ \A k \in Keys : variables[k] # None => holder[k] = t
  /\ service' = FALSE
  /\ variables' = [k \in Keys |-> RowAfter(t, k)]
  /\ versions' = [k \in Keys |-> << >>]
  /\ pc' = PcAfterCommit(t, Keys)
  /\ EndOfTx(t)

-----------------------------------------------------------------------------
(* Errors.                                                                 *)

\* A lost connection or a cancelled request context at any statement.
Abort(t) ==
  /\ pc[t] # "idle"
  /\ RollBack(t)

\* Whom the statement of t waits for.
WaitsFor(t) ==
  CASE pc[t] = "write" /\ req[t].op # "delete" -> {holder[key[t]]} \ {None}
    [] pc[t] = "blocked" -> {holder[key[t]]} \ {None}
    [] pc[t] = "log" -> {dropper} \ {None}
    [] pc[t] = "lockService" -> (sharers \cup {dropper}) \ {None}
    [] pc[t] = "cascade" ->
         {holder[k] : k \in {j \in Keys : variables[j] # None}} \ {None, t}
    [] OTHER -> {}

\* Each transaction in D waits for another of D, and another waits for it.
Stuck(D) ==
  \A u \in D : /\ \E w \in D : w \in WaitsFor(u)
               /\ \E w \in D : u \in WaitsFor(w)

\* t is on a cycle of transactions that wait for each other.
Deadlocked(t) == \E D \in SUBSET Txs : t \in D /\ Stuck(D)

\* Postgres' deadlock detector cancels one of them.
DeadlockVictim(t) ==
  /\ Deadlocked(t)
  /\ RollBack(t)

-----------------------------------------------------------------------------

\* A step the call takes by itself, once its locks are free.
Proceed(t) ==
  \/ ReadForPut(t) \/ ReadForDelete(t) \/ ReadForRollback(t) \/ ReadRefused(t)
  \/ Number(t)
  \/ UpsertRow(t) \/ DeleteNothing(t) \/ DeleteRow(t) \/ DeleteWaits(t)
  \/ LogVersion(t) \/ LogRefused(t) \/ Commit(t)
  \/ LockService(t) \/ ServiceNotFound(t) \/ Cascade(t) \/ DropCommit(t)

Next ==
  \E t \in Txs :
    \/ \E r \in Requests : Begin(t, r)
    \/ Proceed(t)
    \/ Abort(t)
    \/ DeadlockVictim(t)

Spec == Init /\ [][Next]_vars

\* Postgres serves the waiters of a lock in turn (a call whose lock is free
\* again and again gets it), and its deadlock detector runs in every waiter.
Fairness ==
  \A t \in Txs : SF_vars(Proceed(t)) /\ WF_vars(DeadlockVictim(t))

FairSpec == Spec /\ Fairness

-----------------------------------------------------------------------------
(* Properties.                                                             *)

\* Type invariant: the rows of the two tables, the locks, and the locals of
\* every call have the shapes variables.go and the migrations give them.
TypeOK ==
  /\ service \in BOOLEAN
  /\ variables \in [Keys -> Row \cup {None}]
  /\ versions \in [Keys -> Seq(Entry)]
  /\ pc \in [Txs -> {"idle", "read", "number", "write", "blocked", "log",
                     "commit", "lockService", "cascade"}]
  /\ req \in [Txs -> Requests \cup {None}]
  /\ key \in [Txs -> Keys \cup {None}]
  /\ entry \in [Txs -> Entry \cup {None}]
  /\ written \in [Txs -> [Keys -> Row \cup {None}]]
  /\ log \in [Txs -> [Keys -> Entry \cup {None}]]
  /\ holder \in [Keys -> Txs \cup {None}]
  /\ sharers \subseteq Txs
  /\ dropper \in Txs \cup {None}

\* A current row is always the outcome of a recorded change: its value and
\* version stand together in the history of its key, in an entry that is not
\* a delete.  It needs the lock that a call takes in its upsert and keeps
\* until its history row commits with it.
CurrentInHistory ==
  \A k \in Keys : variables[k] # None =>
    \E i \in DOMAIN versions[k] :
      /\ versions[k][i].type # "delete"
      /\ versions[k][i].value = variables[k].value
      /\ versions[k][i].version = variables[k].version

\* The numbers in the history of a key are 1 to the highest with none left
\* out, although nextVersion reads the maximum long before the entry that
\* uses it commits, and calls in between may fail.
VersionsGapless == \A k \in Keys : VersionNumbers(k) = 1 .. TopVersion(k)

\* A key that has a history and no row was deleted on the record.
AbsentWasDeleted ==
  \A k \in Keys : variables[k] = None /\ versions[k] # << >> =>
    \E i \in DOMAIN versions[k] : versions[k][i].type = "delete"

\* DeleteService leaves nothing of the service, whatever calls were under way
\* when it started, and nothing appears afterwards.
NoOrphans ==
  ~ service => \A k \in Keys : variables[k] = None /\ versions[k] = << >>

\* History is append-only: until the service itself is deleted, no call
\* removes, reorders or rewrites an entry.
HistoryKept ==
  [][service' => \A k \in Keys :
       /\ Len(versions'[k]) >= Len(versions[k])
       /\ SubSeq(versions'[k], 1, Len(versions[k])) = versions[k]]_vars

\* A bulk upsert is all or nothing: the step that makes any of its changes
\* visible records the requested value of every key of its map.
BulkWhole ==
  [][\A t \in Txs :
       pc[t] = "commit" /\ req[t].op = "put" /\ versions' # versions /\ pc'[t] = "idle" =>
         \A k \in req[t].keys :
           /\ Len(versions'[k]) = Len(versions[k]) + 1
           /\ versions'[k][Len(versions'[k])].value = req[t].kv[k]
           /\ variables'[k].value = req[t].kv[k]]_vars

\* Every call that changes variables ends: two bulk upserts that lock their
\* keys in opposite orders, or one that meets the cascade of DeleteService,
\* do not wait for each other for ever.
WritersEnd ==
  \A t \in Txs : pc[t] = "read" ~> pc[t] = "idle"

\* The calls are atomic: every step of the transactions is a step of the
\* promised store, or changes nothing its callers can read.
Atomic == INSTANCE AtomicStore WITH
  service <- service, variables <- variables, versions <- versions
RefinesAtomicStore == Atomic!Spec

\* Calls that do not overlap: no two that are under way work on one key.  (A
\* DeleteService may come at any time.)
Writes(t) == pc[t] # "idle" /\ req[t].op # "drop"
Apart ==
  \A t, u \in Txs :
    t # u /\ Writes(t) /\ Writes(u) => req[t].keys \cap req[u].keys = {}

\* As long as no two calls work on one key at the same time, the numbers of a
\* key count its changes: each call takes the number after the highest, and a
\* delete removes the row it has found.  (The condition is that of theorem
\* ApartNumbered; LoneCounts says of each call what it is worth without it.)
Counted == INSTANCE NumberedStore WITH
  variables <- [k \in Keys |-> IF variables[k] = None THEN 0 ELSE variables[k].version],
  top <- [k \in Keys |-> TopVersion(k)]
RefinesNumberedStore == Counted!Spec

\* "Every value change increments version" (README.md:229): a step that
\* changes a row and leaves one gives it a higher version than it had.
EveryChangeIncrements ==
  [][\A k \in Keys :
       variables[k] # None /\ variables'[k] # None /\ variables'[k] # variables[k] =>
         variables'[k].version > variables[k].version]_vars

\* "Record the deleted value so history shows what was removed"
\* (variables.go:178): the entry of a delete carries the value of the row
\* that its commit removes.  An update that commits between the read of the
\* value and the DELETE makes it false (variables.go:161).
DeleteShowsRemoved ==
  [][\A k \in Keys :
       service' /\ variables[k] # None /\ variables'[k] = None =>
         versions'[k][Len(versions'[k])].value = variables[k].value]_vars

=============================================================================
