----------------------- MODULE VersionStoreRefinement -----------------------
(***************************************************************************)
(* Proofs, for any set of keys, values and sessions, that VersionStore     *)
(* implements AtomicStore and that a bulk upsert is all or nothing; that a *)
(* call which meets no other on its keys counts its changes and records    *)
(* what it deletes; that, when no two calls work on one key at the same    *)
(* time, it implements NumberedStore, and the documented claims about      *)
(* versions, deletes and rollbacks hold; and which calls can deadlock.     *)
(***************************************************************************)
EXTENDS VersionStoreProofs, VersionStoreOverlap

-----------------------------------------------------------------------------
(* What a call does is what it was asked for.                              *)

\* A history entry of k that is not a delete has this value.
Recorded(k, value) ==
  \E i \in DOMAIN versions[k] :
    versions[k][i].type # "delete" /\ versions[k][i].value = value

\* The entry that t composes, or has composed, for k is what its call asks
\* for.  The target of a rollback stays on record as long as the service.
Fits(t, k, e) ==
  /\ k \in req[t].keys
  /\ req[t].op = "put" => e.type \in {"create", "update"} /\ e.value = req[t].kv[k]
  /\ req[t].op = "delete" => e.type = "delete"
  /\ req[t].op = "rollback" => e.type = "rollback" /\ (service => Recorded(k, e.value))

\* A call comes to its commit with a fitting entry for each of its keys.
Intent ==
  \A t \in Txs :
    /\ Composing(t) => Fits(t, key[t], entry[t])
    /\ \A k \in Keys : log[t][k] # None => Fits(t, k, log[t][k])
    /\ pc[t] \in {"read", "number", "write", "blocked", "log", "commit"} =>
         req[t].op \in {"put", "delete", "rollback"}
    /\ pc[t] = "commit" => \A k \in req[t].keys : log[t][k] # None

\* A put has at least one key, a delete and a rollback have exactly one.
LEMMA RequestKeys ==
  ASSUME NEW r \in Requests
  PROVE  /\ r.op = "put" => r.keys \in (SUBSET Keys) \ {{}}
         /\ r.op \in {"delete", "rollback"} => \E k \in Keys : r.keys = {k}
  BY DEF Requests, PutRequests, DeleteRequests, RollbackRequests, DropRequests

\* What is on record stays there in a step that commits nothing.
LEMMA RecordedKept ==
  ASSUME UNCHANGED committed
  PROVE  \A k, value : Recorded(k, value)' <=> Recorded(k, value)
  BY DEF committed, Recorded

-----------------------------------------------------------------------------
(* Intent is kept, one lemma for each kind of step.                        *)

\* A call starts without any entry.
LEMMA BeginIntent ==
  ASSUME IInv, Intent, NEW t \in Txs, NEW r \in Requests, Begin(t, r)
  PROVE  Intent'
  <1>1. UNCHANGED committed
    BY DEF Begin
  <1>2. log'[t] = Nothing /\ pc'[t] \in {"read", "lockService"}
    BY DEF Begin, pending, IInv, TypeOK, Frames
  <1>3. r.op # "drop" => r.op \in {"put", "delete", "rollback"}
    BY RequestFields
  <1>. QED  BY <1>1, <1>2, <1>3, RecordedKept
            DEF Begin, pending, locks, committed, IInv, TypeOK, Intent, Fits, Composing, Nothing

\* The first read of an iteration composes a fitting entry.
LEMMA ReadIntent ==
  ASSUME IInv, Intent, NEW t \in Txs, pc[t] = "read",
         NEW k \in Todo(t), NEW value, NEW type, ReadDone(t, k, value, type),
         Fits(t, k, [value |-> value, version |-> 0, type |-> type])
  PROVE  Intent'
  <1>1. UNCHANGED committed
    BY DEF ReadDone
  <1>. QED  BY <1>1, RecordedKept
            DEF ReadDone, pending, locks, committed, IInv, TypeOK, Intent, Fits, Composing

\* A put takes the value of its map.
LEMMA PutReadIntent ==
  ASSUME IInv, Intent, NEW t \in Txs, ReadForPut(t)
  PROVE  Intent'
  <1>1. PICK k \in Todo(t) : ReadDone(t, k, req[t].kv[k],
          IF variables[k] = None THEN "create" ELSE "update")
    BY DEF ReadForPut
  <1>2. Fits(t, k, [value |-> req[t].kv[k], version |-> 0,
                    type |-> IF variables[k] = None THEN "create" ELSE "update"])
    BY DEF ReadForPut, Fits, Todo
  <1>. QED  BY <1>1, <1>2, ReadIntent DEF ReadForPut

\* A delete takes any value.
LEMMA DeleteReadIntent ==
  ASSUME IInv, Intent, NEW t \in Txs, ReadForDelete(t)
  PROVE  Intent'
  <1>1. PICK k \in Todo(t) : ReadDone(t, k, variables[k].value, "delete")
    BY DEF ReadForDelete
  <1>2. Fits(t, k, [value |-> variables[k].value, version |-> 0, type |-> "delete"])
    BY DEF ReadForDelete, Fits, Todo
  <1>. QED  BY <1>1, <1>2, ReadIntent DEF ReadForDelete

\* A rollback takes the value of an entry that is not a delete.
LEMMA RollbackReadIntent ==
  ASSUME IInv, Intent, NEW t \in Txs, ReadForRollback(t)
  PROVE  Intent'
  <1>1. PICK k \in Todo(t) : \E e \in Targets(k, req[t].target) :
          e.type # "delete" /\ ReadDone(t, k, e.value, "rollback")
    BY DEF ReadForRollback
  <1>2. PICK e \in Targets(k, req[t].target) :
          e.type # "delete" /\ ReadDone(t, k, e.value, "rollback")
    BY <1>1
  <1>3. Recorded(k, e.value)
    BY <1>2 DEF Targets, Recorded
  <1>4. Fits(t, k, [value |-> e.value, version |-> 0, type |-> "rollback"])
    BY <1>3 DEF ReadForRollback, Fits, Todo
  <1>. QED  BY <1>2, <1>4, ReadIntent DEF ReadForRollback

\* The number of an entry is not what the call asks for.
LEMMA NumberIntent ==
  ASSUME IInv, Intent, NEW t \in Txs, Number(t)
  PROVE  Intent'
  <1>1. UNCHANGED committed
    BY DEF Number
  <1>2. entry[t] \in Entry
    BY DEF Number, IInv, TypeOK, Frames, Composing
  <1>3. entry'[t].value = entry[t].value /\ entry'[t].type = entry[t].type
    BY <1>2 DEF Number, IInv, TypeOK, Entry
  <1>. QED  BY <1>1, <1>3, RecordedKept
            DEF Number, pending, locks, committed, IInv, TypeOK, Intent, Fits, Composing

\* The statements on the row leave the entry as it is.
LEMMA RowIntent ==
  ASSUME IInv, Intent, NEW t \in Txs,
         UpsertRow(t) \/ DeleteNothing(t) \/ DeleteRow(t) \/ DeleteWaits(t)
  PROVE  Intent'
  <1>1. /\ UNCHANGED <<committed, req, key, entry, log>>
        /\ pc[t] \in {"write", "blocked"}
        /\ pc'[t] \in {"blocked", "log"}
        /\ \A u \in Txs \ {t} : pc'[u] = pc[u]
    BY DEF UpsertRow, DeleteNothing, DeleteRow, DeleteWaits, GoTo, IInv, TypeOK
  <1>. QED  BY <1>1, RecordedKept DEF committed, Intent, Fits, Composing

\* The history row is the entry, and the last one leads to the commit.
LEMMA LogIntent ==
  ASSUME IInv, Intent, NEW t \in Txs, LogVersion(t)
  PROVE  Intent'
  <1>1. UNCHANGED <<committed, req, key, entry>>
    BY DEF LogVersion, LogDone
  <1>2. /\ pc[t] = "log"
        /\ key[t] \in Keys /\ entry[t] # None
        /\ log' = [log EXCEPT ![t][key[t]] = entry[t]]
        /\ pc' = [pc EXCEPT ![t] = IF Todo(t) = {key[t]} THEN "commit" ELSE "read"]
    BY DEF LogVersion, LogDone, IInv, TypeOK, Frames, Composing
  <1>3. \A u \in Txs, k \in Keys :
          log'[u][k] = IF u = t /\ k = key[t] THEN entry[t] ELSE log[u][k]
    BY <1>2 DEF IInv, TypeOK
  <1>4. \A u \in Txs : pc[u] # "idle" => req[u].keys \subseteq Keys
    <2>1. \A u \in Txs : pc[u] # "idle" => req[u] \in Requests
      BY DEF IInv, TypeOK, Frames
    <2>. QED  BY <2>1, RequestFields
  <1>5. pc'[t] = "commit" => \A k \in req[t].keys : log'[t][k] # None
    BY <1>2, <1>3, <1>4 DEF Todo, IInv, TypeOK
  <1>6. \A u \in Txs : u # t => pc'[u] = pc[u]
    BY <1>2 DEF IInv, TypeOK
  <1>7. pc'[t] \in {"commit", "read"}
    BY <1>2 DEF IInv, TypeOK
  <1>. QED  BY <1>1, <1>2, <1>3, <1>4, <1>5, <1>6, <1>7, RecordedKept
            DEF committed, Intent, Fits, Composing

\* DeleteService has no entries.
LEMMA LockIntent ==
  ASSUME IInv, Intent, NEW t \in Txs, LockService(t) \/ Cascade(t)
  PROVE  Intent'
  <1>1. /\ UNCHANGED <<committed, req, key, entry, log>>
        /\ pc'[t] = "cascade"
        /\ \A u \in Txs \ {t} : pc'[u] = pc[u]
    BY DEF LockService, Cascade, pending, IInv, TypeOK
  <1>. QED  BY <1>1, RecordedKept DEF committed, Intent, Fits, Composing

\* What a transaction that has ended leaves to the others: their locals, and
\* their statements, except that a DELETE that waited goes on.
Ended(t) ==
  /\ pc'[t] = "idle" /\ log'[t] = Nothing
  /\ \A u \in Txs \ {t} :
       /\ req'[u] = req[u] /\ key'[u] = key[u] /\ entry'[u] = entry[u]
       /\ log'[u] = log[u]
       /\ pc'[u] = pc[u] \/ (pc[u] = "blocked" /\ pc'[u] = "log")

\* A transaction that ends leaves the entries of the others as they are.
LEMMA EndIntent ==
  ASSUME IInv, Intent, NEW t \in Txs, Ended(t),
         service' => service /\ \A k \in Keys : \A value : Recorded(k, value) => Recorded(k, value)'
  PROVE  Intent'
  <1>1. \A u \in Txs, k \in Keys : \A e : u # t /\ Fits(u, k, e) => Fits(u, k, e)'
    BY DEF Ended, Fits
  <1>2. \A u \in Txs : Composing(u) => key[u] \in Keys
    BY DEF IInv, TypeOK, Frames
  <1>. SUFFICES ASSUME NEW u \in Txs
                PROVE  /\ Composing(u)' => Fits(u, key[u], entry[u])'
                       /\ \A k \in Keys : log'[u][k] # None => Fits(u, k, log[u][k])'
                       /\ pc'[u] \in {"read", "number", "write", "blocked", "log", "commit"} =>
                            req'[u].op \in {"put", "delete", "rollback"}
                       /\ pc'[u] = "commit" => \A k \in req'[u].keys : log'[u][k] # None
    BY DEF Intent
  <1>3. CASE u = t
    BY <1>3 DEF Ended, Composing, Nothing
  <1>4. CASE u # t
    <2>1. Composing(u)' => Composing(u)
      BY <1>4 DEF Ended, Composing
    <2>2. \A k \in Keys : \A e : Fits(u, k, e) => Fits(u, k, e)'
      BY <1>1, <1>4
    <2>3. Composing(u)' => Fits(u, key[u], entry[u])'
      <3>1. Composing(u) => Fits(u, key[u], entry[u])
        BY DEF Intent
      <3>. QED  BY <1>2, <1>4, <2>1, <3>1 DEF Ended, Fits
    <2>4. \A k \in Keys : log'[u][k] # None => Fits(u, k, log[u][k])'
      <3>1. \A k \in Keys : log[u][k] # None => Fits(u, k, log[u][k])
        BY DEF Intent
      <3>. QED  BY <1>4, <3>1 DEF Ended, Fits
    <2>. QED  BY <1>4, <2>3, <2>4 DEF Ended, Intent
  <1>. QED  BY <1>3, <1>4

\* A call that fails forgets its entries.
LEMMA RollBackIntent ==
  ASSUME IInv, Intent, NEW t \in Txs, RollBack(t)
  PROVE  Intent'
  <1>1. UNCHANGED committed
    BY DEF RollBack
  <1>2. Ended(t)
    BY DEF RollBack, EndOfTx, Ended, IInv, TypeOK
  <1>. QED  BY <1>1, <1>2, RecordedKept, EndIntent DEF committed

\* A commit only adds to what is on record.
LEMMA CommitIntent ==
  ASSUME IInv, Intent, NEW t \in Txs, Commit(t)
  PROVE  Intent'
  <1>1. Ended(t)
    BY DEF Commit, PcAfterCommit, Awakened, EndOfTx, Ended, IInv, TypeOK
  <1>2. \A k \in Keys : \A value : Recorded(k, value) => Recorded(k, value)'
    <2>. SUFFICES ASSUME NEW k \in Keys, NEW value, Recorded(k, value)
                  PROVE  Recorded(k, value)'
      OBVIOUS
    <2>1. \A i \in DOMAIN versions[k] :
            i \in DOMAIN versions'[k] /\ versions'[k][i] = versions[k][i]
      BY CommitHistory
    <2>. QED  BY <2>1 DEF Recorded
  <1>. QED  BY <1>1, <1>2, EndIntent DEF Commit

\* The commit of DeleteService ends its own call.
LEMMA DropIntent ==
  ASSUME IInv, Intent, NEW t \in Txs, DropCommit(t)
  PROVE  Intent'
  <1>1. Ended(t)
    BY DEF DropCommit, PcAfterCommit, Awakened, EndOfTx, Ended, IInv, TypeOK
  <1>. QED  BY <1>1, EndIntent DEF DropCommit

\* Every step keeps it.
LEMMA NextIntent == IInv /\ Intent /\ [Next]_vars => Intent'
  <1>. SUFFICES ASSUME IInv, Intent, [Next]_vars PROVE Intent'
    OBVIOUS
  <1>1. CASE UNCHANGED vars
    BY <1>1 DEF vars, Intent, Fits, Composing, Recorded
  <1>2. ASSUME NEW t \in Txs, NEW r \in Requests, Begin(t, r) PROVE Intent'
    BY <1>2, BeginIntent
  <1>3. ASSUME NEW t \in Txs, RollBack(t) PROVE Intent'
    BY <1>3, RollBackIntent
  <1>4. ASSUME NEW t \in Txs, Proceed(t) PROVE Intent'
    BY <1>3, <1>4, PutReadIntent, DeleteReadIntent, RollbackReadIntent, NumberIntent,
       RowIntent, LogIntent, LockIntent, CommitIntent, DropIntent
       DEF Proceed, ReadRefused, LogRefused, ServiceNotFound
  <1>. QED  BY <1>1, <1>2, <1>3, <1>4 DEF Next, Abort, DeadlockVictim

\* At first there are no calls.
LEMMA InitIntent == Init => Intent
  BY DEF Init, Intent, Composing, Nothing

\* Both invariants hold in every reachable state.
LEMMA IntentHolds == Spec => [](IInv /\ Intent)
  BY InitIInv, NextIInv, InitIntent, NextIntent, PTL DEF Spec

-----------------------------------------------------------------------------
(* The refinement.                                                         *)

\* The promised store has the same numbers.
LEMMA SameNumbers ==
  \A k : Atomic!TopVersion(k) = TopVersion(k)
  BY DEF Atomic!TopVersion, TopVersion, Atomic!VersionNumbers, VersionNumbers,
         Atomic!Max, Max

\* What a commit does to a key of its call, and to the others.
LEMMA CommitOfKey ==
  ASSUME IInv, Intent, NEW t \in Txs, Commit(t), NEW k \in Keys
  PROVE  /\ k \in req[t].keys <=> log[t][k] # None
         /\ k \notin req[t].keys => UNCHANGED <<variables[k], versions[k]>>
         /\ k \in req[t].keys =>
              /\ log[t][k] \in Entry
              /\ log[t][k].version \in 1 .. TopVersion(k) + 1
              /\ Fits(t, k, log[t][k])
              /\ versions'[k] = Append(versions[k], log[t][k])
              /\ Len(versions'[k]) = Len(versions[k]) + 1
              /\ versions'[k][Len(versions[k]) + 1] = log[t][k]
              /\ IF log[t][k].type = "delete" THEN variables'[k] \in {None, variables[k]}
                 ELSE variables'[k] = [value |-> log[t][k].value, version |-> log[t][k].version]
  <1>1. /\ pc[t] = "commit"
        /\ variables'[k] = RowAfter(t, k)
        /\ versions'[k] = IF log[t][k] = None THEN versions[k]
                          ELSE Append(versions[k], log[t][k])
    BY DEF Commit
  <1>2. k \in req[t].keys <=> log[t][k] # None
    BY <1>1 DEF Intent, Fits
  <1>3. /\ written[t][k] \in Row \cup {None} /\ log[t][k] \in Entry \cup {None}
        /\ versions[k] \in Seq(Entry)
    BY DEF IInv, TypeOK
  <1>4. log[t][k] = None => holder[k] # t
    BY <1>1 DEF IInv, Locks, Draft
  <1>5. CASE log[t][k] = None
    BY <1>1, <1>2, <1>4, <1>5 DEF RowAfter
  <1>6. CASE log[t][k] # None
    <2>1. Fits(t, k, log[t][k])
      BY <1>6 DEF Intent
    <2>2. log[t][k].version \in 1 .. TopVersion(k) + 1
      <3>1. service
        BY <1>1 DEF IInv, ServiceLock
      <3>2. log[t][k].version \in Nat /\ TopVersion(k) \in Nat
        BY <1>3, <1>6 DEF Entry, IInv, Gapless
      <3>. QED  BY <1>6, <3>1, <3>2 DEF IInv, Numbers, NumberOK
    <2>3. holder[k] = t => Matches(log[t][k], written[t][k])
      BY <1>1, <1>6 DEF IInv, Locks, Draft
    <2>4. log[t][k].type # "delete" => holder[k] = t
      BY <1>6 DEF IInv, Locks, Draft
    <2>5. CASE log[t][k].type = "delete"
      <3>1. variables'[k] \in {None, variables[k]}
        BY <1>1, <2>3, <2>5 DEF RowAfter, Matches
      <3>. QED  BY <1>1, <1>2, <1>3, <1>6, <2>1, <2>2, <2>5, <3>1
    <2>6. CASE log[t][k].type # "delete"
      <3>1. /\ variables'[k] = written[t][k] /\ written[t][k] \in Row
            /\ written[t][k].value = log[t][k].value
            /\ written[t][k].version = log[t][k].version
        BY <1>1, <1>3, <2>3, <2>4, <2>6 DEF RowAfter, Matches
      <3>2. variables'[k] = [value |-> log[t][k].value, version |-> log[t][k].version]
        BY <3>1 DEF Row
      <3>. QED  BY <1>1, <1>2, <1>3, <1>6, <2>1, <2>2, <2>6, <3>2
    <2>. QED  BY <2>5, <2>6
  <1>. QED  BY <1>5, <1>6

\* A commit is a put of all keys of its map, a delete or a rollback.
LEMMA CommitRefines ==
  ASSUME IInv, Intent, NEW t \in Txs, Commit(t)
  PROVE  Atomic!Next
  <1>. DEFINE K == req[t].keys
  <1>1. /\ req[t] \in Requests
        /\ req[t].op \in {"put", "delete", "rollback"}
        /\ service /\ service' = service
    BY DEF Commit, Intent, IInv, TypeOK, Frames, ServiceLock
  <1>2. K \subseteq Keys
    BY <1>1, RequestFields
  <1>3. \A k \in K : Atomic!Added(k) = log[t][k]
    BY <1>2, CommitOfKey DEF Atomic!Added
  <1>4. Atomic!Records(K)
    <2>1. DOMAIN versions' = Keys /\ DOMAIN variables' = Keys
      BY DEF Commit
    <2>2. \A k \in Keys \ K : UNCHANGED <<variables[k], versions[k]>>
      BY CommitOfKey
    <2>3. \A k \in K :
            /\ Len(versions'[k]) = Len(versions[k]) + 1
            /\ versions'[k] = Append(versions[k], Atomic!Added(k))
            /\ Atomic!Added(k) \in Atomic!Entry
            /\ Atomic!Added(k).version \in 1 .. Atomic!TopVersion(k) + 1
      <3>1. Atomic!Entry = Entry
        BY DEF Atomic!Entry, Entry, Atomic!ChangeTypes, ChangeTypes
      <3>. TAKE k \in K
      <3>2. /\ Len(versions'[k]) = Len(versions[k]) + 1
            /\ versions'[k] = Append(versions[k], log[t][k])
            /\ log[t][k] \in Entry
            /\ log[t][k].version \in 1 .. TopVersion(k) + 1
        BY <1>2, CommitOfKey
      <3>3. Atomic!TopVersion(k) = TopVersion(k)
        BY SameNumbers
      <3>. QED  BY <1>3, <3>1, <3>2, <3>3
    <2>. QED  BY <1>1, <2>1, <2>2, <2>3 DEF Atomic!Records
  <1>5. CASE req[t].op = "put"
    <2>1. K \in (SUBSET Keys) \ {{}}
      BY <1>1, <1>5, RequestKeys
    <2>2. \A k \in K : Atomic!Added(k).type \in {"create", "update"} /\ Atomic!Installs(k)
      BY <1>2, <1>3, <1>5, CommitOfKey DEF Fits, Atomic!Installs
    <2>. QED  BY <1>4, <2>1, <2>2 DEF Atomic!Next, Atomic!Put
  <1>6. CASE req[t].op = "delete"
    <2>1. PICK k \in Keys : K = {k}
      BY <1>1, <1>6, RequestKeys
    <2>2. log[t][k].type = "delete" /\ variables'[k] \in {None, variables[k]}
      <3>1. Fits(t, k, log[t][k])
        BY <2>1, CommitOfKey
      <3>2. log[t][k].type = "delete"
        BY <1>6, <3>1 DEF Fits
      <3>3. IF log[t][k].type = "delete" THEN variables'[k] \in {None, variables[k]}
            ELSE variables'[k] = [value |-> log[t][k].value, version |-> log[t][k].version]
        BY <2>1, CommitOfKey
      <3>. QED  BY <3>2, <3>3
    <2>. QED  BY <1>3, <1>4, <2>1, <2>2 DEF Atomic!Next, Atomic!Delete
  <1>7. CASE req[t].op = "rollback"
    <2>1. PICK k \in Keys : K = {k}
      BY <1>1, <1>7, RequestKeys
    <2>2. Atomic!Added(k).type = "rollback" /\ Atomic!Installs(k)
      BY <1>3, <1>7, <2>1, CommitOfKey DEF Fits, Atomic!Installs
    <2>3. Recorded(k, Atomic!Added(k).value)
      <3>1. Fits(t, k, log[t][k])
        BY <2>1, CommitOfKey
      <3>. QED  BY <1>1, <1>3, <1>7, <2>1, <3>1 DEF Fits
    <2>. QED  BY <1>4, <2>1, <2>2, <2>3 DEF Atomic!Next, Atomic!Rollback, Recorded
  <1>. QED  BY <1>1, <1>5, <1>6, <1>7

\* The commit of DeleteService is the drop.
LEMMA DropRefines ==
  ASSUME IInv, NEW t \in Txs, DropCommit(t)
  PROVE  Atomic!Next
  <1>1. service
    BY NoneAssumption DEF DropCommit, IInv, ServiceLock
  <1>2. written[t] = Nothing
    BY DEF DropCommit, IInv, Frames
  <1>3. \A k \in Keys : RowAfter(t, k) = None
    BY <1>2 DEF DropCommit, RowAfter, Nothing
  <1>4. variables' = [k \in Keys |-> None]
    BY <1>3 DEF DropCommit
  <1>. QED  BY <1>1, <1>4 DEF DropCommit, Atomic!Next, Atomic!Drop

\* A step that is no commit changes nothing a caller can read.
LEMMA OtherSteps ==
  ASSUME [Next]_vars, \A t \in Txs : ~ Commit(t) /\ ~ DropCommit(t)
  PROVE  UNCHANGED committed
  BY ZenonT(60) DEF Next, Proceed, Begin, ReadForPut, ReadForDelete, ReadForRollback,
         ReadDone, ReadRefused, Number, UpsertRow, DeleteNothing, DeleteRow,
         DeleteWaits, GoTo, LogVersion, LogDone, LogRefused, LockService,
         ServiceNotFound, Cascade, Abort, DeadlockVictim, RollBack, vars, committed

\* The calls of internal/store are atomic: for any number of them that run
\* concurrently, each takes effect in one step, its commit, for all of its
\* keys, with an entry for each; a call that fails takes none.
THEOREM Refinement == Spec => RefinesAtomicStore
  <1>1. Init => Atomic!Init
    BY DEF Init, Atomic!Init, Nothing
  <1>2. IInv /\ Intent /\ [Next]_vars => [Atomic!Next]_(Atomic!vars)
    <2>. SUFFICES ASSUME IInv, Intent, [Next]_vars PROVE [Atomic!Next]_(Atomic!vars)
      OBVIOUS
    <2>1. CASE \E t \in Txs : Commit(t)
      BY <2>1, CommitRefines
    <2>2. CASE \E t \in Txs : DropCommit(t)
      BY <2>2, DropRefines
    <2>3. CASE \A t \in Txs : ~ Commit(t) /\ ~ DropCommit(t)
      BY <2>3, OtherSteps DEF committed, Atomic!vars
    <2>. QED  BY <2>1, <2>2, <2>3
  <1>. QED  BY <1>1, <1>2, IntentHolds, PTL DEF Spec, RefinesAtomicStore, Atomic!Spec

\* BulkUpsertVariables records the value of every key of its map in the one
\* step that makes any of them visible, whatever fails or interferes.
THEOREM BulkAllOrNothing == Spec => BulkWhole
  <1>. DEFINE Whole == \A t \in Txs :
         pc[t] = "commit" /\ req[t].op = "put" /\ versions' # versions /\ pc'[t] = "idle" =>
           \A k \in req[t].keys :
             /\ Len(versions'[k]) = Len(versions[k]) + 1
             /\ versions'[k][Len(versions'[k])].value = req[t].kv[k]
             /\ variables'[k].value = req[t].kv[k]
  <1>1. IInv /\ Intent /\ [Next]_vars => Whole
    <2>. SUFFICES ASSUME IInv, Intent, [Next]_vars, NEW t \in Txs,
                         pc[t] = "commit", req[t].op = "put", versions' # versions,
                         pc'[t] = "idle", NEW k \in req[t].keys
                  PROVE  /\ Len(versions'[k]) = Len(versions[k]) + 1
                         /\ versions'[k][Len(versions'[k])].value = req[t].kv[k]
                         /\ variables'[k].value = req[t].kv[k]
      OBVIOUS
    <2>1. PICK u \in Txs : Commit(u) \/ DropCommit(u)
      BY OtherSteps DEF committed
    <2>2. u = t
      BY <2>1 DEF Commit, DropCommit, PcAfterCommit
    <2>3. Commit(t)
      BY <2>1, <2>2 DEF DropCommit
    <2>4. k \in Keys
      <3>1. req[t] \in Requests
        BY DEF IInv, TypeOK, Frames
      <3>. QED  BY <3>1, RequestFields
    <2>5. Fits(t, k, log[t][k])
      BY <2>3, <2>4, CommitOfKey
    <2>6. log[t][k].type # "delete" /\ log[t][k].value = req[t].kv[k]
      BY <2>5 DEF Fits
    <2>7. /\ Len(versions'[k]) = Len(versions[k]) + 1
          /\ versions'[k][Len(versions[k]) + 1] = log[t][k]
          /\ variables'[k] = [value |-> log[t][k].value, version |-> log[t][k].version]
      BY <2>3, <2>4, <2>6, CommitOfKey
    <2>. QED  BY <2>6, <2>7
  <1>2. IInv /\ Intent /\ [Next]_vars => [Whole]_vars
    BY <1>1
  <1>. QED  BY <1>2, IntentHolds, PTL DEF Spec, BulkWhole

-----------------------------------------------------------------------------
(* Calls that do not overlap.                                              *)

\* t has an entry for k, composed or written to the history.
Concerns(t, k) == log[t][k] # None \/ (Composing(t) /\ key[t] = k)
Change(t, k) == IF log[t][k] # None THEN log[t][k] ELSE entry[t]

\* The change that t makes to k has the number after the highest; a delete is
\* about the row as it is; and t holds the row before it records the change.
FreshOf(t, k) ==
  /\ log[t][k] # None \/ (Numbered(t) /\ key[t] = k) =>
       Change(t, k).version = TopVersion(k) + 1
  /\ Concerns(t, k) /\ req[t].op = "delete" =>
       variables[k] # None /\ Change(t, k).value = variables[k].value
  /\ Draft(t, k) # None => holder[k] = t

Fresh(L) == service => \A t \in L, k \in Keys : FreshOf(t, k)

\* What a session that is not t keeps in a step of t.
OthersKept(t) ==
  \A u \in Txs \ {t} :
    /\ pc'[u] = pc[u] /\ req'[u] = req[u] /\ key'[u] = key[u]
    /\ entry'[u] = entry[u] /\ log'[u] = log[u]
    /\ \A k \in Keys : holder[k] = u => holder'[k] = u

\* A step that commits nothing keeps Fresh if it does for the calling session.
LEMMA FreshStep ==
  ASSUME IInv, NEW L \in SUBSET Txs, Fresh(L), UNCHANGED committed, NEW t \in Txs, OthersKept(t),
         service /\ t \in L => \A k \in Keys : FreshOf(t, k)'
  PROVE  Fresh(L)'
  <1>1. service' = service /\ variables' = variables
    BY DEF committed
  <1>2. \A k \in Keys : TopVersion(k)' = TopVersion(k)
    BY CommittedKept
  <1>3. ASSUME NEW u \in Txs \ {t}, NEW k \in Keys, FreshOf(u, k) PROVE FreshOf(u, k)'
    BY <1>1, <1>2, <1>3
       DEF OthersKept, FreshOf, Concerns, Change, Draft, Composing, Numbered
  <1>. QED  BY <1>1, <1>3 DEF Fresh

\* A call that starts or ends has no entry.
LEMMA FreshWithout ==
  ASSUME NEW t \in Txs, log'[t] = Nothing, ~ Composing(t)', NEW k \in Keys
  PROVE  FreshOf(t, k)'
  BY DEF FreshOf, Concerns, Draft, Composing, Numbered, Nothing

\* A call starts without an entry.
LEMMA BeginFresh ==
  ASSUME IInv, NEW L \in SUBSET Txs, Fresh(L), NEW t \in Txs, NEW r \in Requests, Begin(t, r)
  PROVE  Fresh(L)'
  <1>1. UNCHANGED committed
    BY DEF Begin
  <1>2. OthersKept(t)
    BY DEF Begin, pending, locks, IInv, TypeOK, OthersKept
  <1>3. log'[t] = Nothing /\ ~ Composing(t)'
    BY DEF Begin, pending, IInv, TypeOK, Frames, Composing
  <1>. QED  BY <1>1, <1>2, <1>3, FreshWithout, FreshStep

\* A call that fails forgets its entries and returns its locks.
LEMMA RollBackFresh ==
  ASSUME IInv, NEW L \in SUBSET Txs, Fresh(L), NEW t \in Txs, RollBack(t)
  PROVE  Fresh(L)'
  <1>1. UNCHANGED committed
    BY DEF RollBack
  <1>2. OthersKept(t)
    BY DEF RollBack, EndOfTx, IInv, TypeOK, OthersKept
  <1>3. log'[t] = Nothing /\ ~ Composing(t)'
    BY DEF RollBack, EndOfTx, IInv, TypeOK, Composing
  <1>. QED  BY <1>1, <1>2, <1>3, FreshWithout, FreshStep

\* DeleteService takes rows that nobody holds, and has no entries.
LEMMA LockFresh ==
  ASSUME IInv, NEW L \in SUBSET Txs, Fresh(L), NEW t \in Txs, LockService(t) \/ Cascade(t)
  PROVE  Fresh(L)'
  <1>1. UNCHANGED committed
    BY DEF LockService, Cascade
  <1>2. OthersKept(t)
    BY NoneAssumption DEF LockService, Cascade, pending, IInv, TypeOK, OthersKept
  <1>3. log'[t] = Nothing /\ ~ Composing(t)'
    BY DEF LockService, Cascade, pending, IInv, TypeOK, Frames, Composing
  <1>. QED  BY <1>1, <1>2, <1>3, FreshWithout, FreshStep

\* A delete composes an entry with the value of the row it has found.
LEMMA ReadFresh ==
  ASSUME IInv, NEW L \in SUBSET Txs, Fresh(L), NEW t \in Txs, pc[t] = "read",
         NEW k \in Todo(t), NEW value, NEW type, ReadDone(t, k, value, type),
         req[t].op = "delete" => variables[k] # None /\ value = variables[k].value
  PROVE  Fresh(L)'
  <1>1. UNCHANGED committed
    BY DEF ReadDone
  <1>2. OthersKept(t)
    BY DEF ReadDone, pending, locks, IInv, TypeOK, OthersKept
  <1>3. /\ pc'[t] = "number" /\ key'[t] = k /\ req' = req /\ log' = log
        /\ entry'[t] = [value |-> value, version |-> 0, type |-> type]
        /\ holder' = holder /\ log[t][k] = None
    BY DEF ReadDone, pending, locks, Todo, IInv, TypeOK
  <1>4. ASSUME NEW j \in Keys, FreshOf(t, j) PROVE FreshOf(t, j)'
    <2>1. TopVersion(j)' = TopVersion(j) /\ variables' = variables
      BY <1>1, CommittedKept DEF committed
    <2>. QED  BY <1>3, <1>4, <2>1
              DEF FreshOf, Concerns, Change, Draft, Composing, Numbered
  <1>. QED  BY <1>1, <1>2, <1>4, FreshStep DEF Fresh

\* The number is the one after the highest.
LEMMA NumberFresh ==
  ASSUME IInv, NEW L \in SUBSET Txs, Fresh(L), NEW t \in Txs, Number(t)
  PROVE  Fresh(L)'
  <1>1. UNCHANGED committed
    BY DEF Number
  <1>2. OthersKept(t)
    BY DEF Number, pending, locks, IInv, TypeOK, OthersKept
  <1>3. entry[t] \in Entry /\ key[t] \in Keys /\ log[t][key[t]] = None
    BY DEF Number, IInv, TypeOK, Frames, Composing
  <1>4. /\ pc[t] = "number" /\ pc'[t] = "write"
        /\ UNCHANGED <<key, req, log, holder>>
        /\ entry'[t].version = TopVersion(key[t]) + 1
        /\ entry'[t].value = entry[t].value
    BY <1>3 DEF Number, NextVersion, pending, locks, IInv, TypeOK, Entry
  <1>5. ASSUME NEW j \in Keys, FreshOf(t, j) PROVE FreshOf(t, j)'
    <2>1. TopVersion(j)' = TopVersion(j) /\ variables' = variables
      BY <1>1, CommittedKept DEF committed
    <2>. QED  BY <1>3, <1>4, <1>5, <2>1
              DEF FreshOf, Concerns, Change, Draft, Composing, Numbered
  <1>. QED  BY <1>1, <1>2, <1>5, FreshStep DEF Fresh

\* The row is there for a delete that has found it, so each of the statements
\* that lead to the history row takes the lock.
LEMMA RowFresh ==
  ASSUME IInv, Intent, NEW L \in SUBSET Txs, Fresh(L), NEW t \in Txs,
         UpsertRow(t) \/ DeleteNothing(t) \/ DeleteRow(t) \/ DeleteWaits(t)
  PROVE  Fresh(L)'
  <1>1. UNCHANGED committed
    BY DEF UpsertRow, DeleteNothing, DeleteRow, DeleteWaits, GoTo
  <1>2. OthersKept(t)
    BY NoneAssumption
       DEF UpsertRow, DeleteNothing, DeleteRow, DeleteWaits, GoTo, IInv, TypeOK, OthersKept
  <1>3. /\ pc[t] \in {"write", "blocked"} /\ key[t] \in Keys
        /\ log[t][key[t]] = None /\ UNCHANGED <<key, req, entry, log>>
    BY DEF UpsertRow, DeleteNothing, DeleteRow, DeleteWaits, GoTo,
           IInv, TypeOK, Frames, Composing
  <1>4. ASSUME service, t \in L, NEW j \in Keys PROVE FreshOf(t, j)'
    <2>1. TopVersion(j)' = TopVersion(j) /\ variables' = variables
      BY <1>1, CommittedKept DEF committed
    <2>2. FreshOf(t, j) /\ FreshOf(t, key[t])
      BY <1>3, <1>4 DEF Fresh
    <2>3. ~ DeleteNothing(t)
      BY <1>3, <2>2 DEF DeleteNothing, FreshOf, Concerns, Composing
    <2>4. /\ pc'[t] \in {"blocked", "log"}
          /\ pc'[t] = "log" => holder'[key[t]] = t
          /\ holder[j] = t => holder'[j] = t
      BY <1>3, <2>3, NoneAssumption
         DEF UpsertRow, DeleteRow, DeleteWaits, GoTo, IInv, TypeOK
    <2>. QED  BY <1>3, <2>1, <2>2, <2>4
              DEF FreshOf, Concerns, Change, Draft, Composing, Numbered
  <1>. QED  BY <1>1, <1>2, <1>4, FreshStep

\* The history row is the entry.
LEMMA LogFresh ==
  ASSUME IInv, NEW L \in SUBSET Txs, Fresh(L), NEW t \in Txs, LogVersion(t)
  PROVE  Fresh(L)'
  <1>1. UNCHANGED committed
    BY DEF LogVersion, LogDone
  <1>2. OthersKept(t)
    BY DEF LogVersion, LogDone, IInv, TypeOK, OthersKept
  <1>3. /\ pc[t] = "log" /\ pc'[t] \in {"read", "commit"} /\ key[t] \in Keys
        /\ log[t][key[t]] = None /\ entry[t] # None
        /\ log'[t] = [log[t] EXCEPT ![key[t]] = entry[t]]
        /\ UNCHANGED <<key, req, entry, holder>>
    BY DEF LogVersion, LogDone, IInv, TypeOK, Frames, Composing
  <1>4. ASSUME NEW j \in Keys, FreshOf(t, j) PROVE FreshOf(t, j)'
    <2>1. TopVersion(j)' = TopVersion(j) /\ variables' = variables
      BY <1>1, CommittedKept DEF committed
    <2>2. log'[t][j] = IF j = key[t] THEN entry[t] ELSE log[t][j]
      BY <1>3 DEF IInv, TypeOK
    <2>. QED  BY <1>3, <1>4, <2>1, <2>2
              DEF FreshOf, Concerns, Change, Draft, Composing, Numbered
  <1>. QED  BY <1>1, <1>2, <1>4, FreshStep DEF Fresh

\* What two calls that do not overlap have in common: no key.
LEMMA NoCommonKey ==
  ASSUME IInv, Intent, NEW t \in Txs, NEW u \in Txs, t # u, ~ Meets(u, t),
         NEW k \in Keys, Concerns(u, k), Writes(t)
  PROVE  k \notin req[t].keys
  <1>1. k \in req[u].keys
    BY DEF Concerns, Intent, Fits
  <1>2. Composing(u) \/ log[u] # Nothing
    BY DEF Concerns, Nothing
  <1>3. pc[u] \in {"read", "number", "write", "blocked", "log", "commit"}
    BY <1>2 DEF IInv, TypeOK, Frames, Composing
  <1>4. Writes(u)
    BY <1>3 DEF Intent, Writes
  <1>. QED  BY <1>1, <1>4 DEF Meets

\* A commit changes no key that a call it has not met has an entry for.
LEMMA CommitFresh ==
  ASSUME IInv, Intent, NEW L \in SUBSET Txs, Fresh(L), NEW t \in Txs, Commit(t),
         \A u \in L : ~ Meets(u, t)
  PROVE  Fresh(L)'
  <1>1. Ended(t)
    BY DEF Commit, PcAfterCommit, Awakened, EndOfTx, Ended, IInv, TypeOK
  <1>2. service /\ service' = service /\ Writes(t)
    BY DEF Commit, IInv, ServiceLock, Intent, Writes
  <1>3. \A u \in Txs \ {t}, k \in Keys : holder[k] = u => holder'[k] = u
    BY DEF Commit, EndOfTx
  <1>4. ASSUME NEW u \in L \ {t}, NEW k \in Keys, Concerns(u, k)
        PROVE  /\ variables'[k] = variables[k]
               /\ TopVersion(k)' = TopVersion(k)
               /\ pc'[u] = pc[u] \/ key[u] # k
    <2>1. k \notin req[t].keys
      BY <1>2, <1>4, NoCommonKey
    <2>2. UNCHANGED <<variables[k], versions[k]>>
      BY <2>1, CommitOfKey
    <2>3. TopVersion(k)' = TopVersion(k)
      BY <2>2 DEF TopVersion, VersionNumbers
    <2>4. pc'[u] = pc[u] \/ key[u] # k
      <3>1. ~ (variables[k] # None /\ RowAfter(t, k) = None)
        BY <2>2 DEF Commit
      <3>. QED  BY <3>1 DEF Commit, PcAfterCommit, Awakened
    <2>. QED  BY <2>2, <2>3, <2>4
  <1>5. ASSUME NEW u \in L \ {t}, NEW k \in Keys PROVE FreshOf(u, k)'
    <2>1. FreshOf(u, k)
      BY <1>2 DEF Fresh
    <2>2. /\ req'[u] = req[u] /\ key'[u] = key[u] /\ entry'[u] = entry[u]
          /\ log'[u] = log[u]
          /\ pc'[u] = pc[u] \/ (pc[u] = "blocked" /\ pc'[u] = "log")
      BY <1>1 DEF Ended
    <2>3. Concerns(u, k)' => Concerns(u, k)
      BY <2>2 DEF Concerns, Composing
    <2>4. CASE Concerns(u, k)
      BY <1>3, <1>4, <2>1, <2>2, <2>4
         DEF FreshOf, Concerns, Change, Draft, Composing, Numbered
    <2>5. CASE ~ Concerns(u, k)
      BY <2>2, <2>5 DEF FreshOf, Concerns, Draft, Composing, Numbered
    <2>. QED  BY <2>4, <2>5
  <1>6. \A k \in Keys : FreshOf(t, k)'
    BY <1>1, FreshWithout DEF Ended, Composing
  <1>. QED  BY <1>5, <1>6 DEF Fresh

\* Every step keeps it.
LEMMA NextFresh ==
  ASSUME IInv, Intent, NEW L \in SUBSET Txs, Fresh(L), [Next]_vars,
         \A u \in L, t \in Txs : ~ Meets(u, t)
  PROVE  Fresh(L)'
  <1>1. CASE UNCHANGED vars
    <2>1. \A k \in Keys : TopVersion(k)' = TopVersion(k)
      BY <1>1, CommittedKept DEF vars, committed
    <2>. QED  BY <1>1, <2>1 DEF vars, Fresh, FreshOf, Concerns, Change, Draft,
                                Composing, Numbered
  <1>2. ASSUME NEW t \in Txs, NEW r \in Requests, Begin(t, r) PROVE Fresh(L)'
    BY <1>2, BeginFresh
  <1>3. ASSUME NEW t \in Txs, RollBack(t) PROVE Fresh(L)'
    BY <1>3, RollBackFresh
  <1>4. ASSUME NEW t \in Txs, Proceed(t) PROVE Fresh(L)'
    <2>1. CASE ReadForPut(t)
      <3>1. PICK k \in Todo(t) : ReadDone(t, k, req[t].kv[k],
              IF variables[k] = None THEN "create" ELSE "update")
        BY <2>1 DEF ReadForPut
      <3>. QED  BY <2>1, <3>1, ReadFresh DEF ReadForPut
    <2>2. CASE ReadForDelete(t)
      <3>1. PICK k \in Todo(t) :
              variables[k] # None /\ ReadDone(t, k, variables[k].value, "delete")
        BY <2>2 DEF ReadForDelete
      <3>. QED  BY <2>2, <3>1, ReadFresh DEF ReadForDelete
    <2>3. CASE ReadForRollback(t)
      <3>1. PICK k \in Todo(t) : \E e \in Targets(k, req[t].target) :
              ReadDone(t, k, e.value, "rollback")
        BY <2>3 DEF ReadForRollback
      <3>2. PICK e \in Targets(k, req[t].target) : ReadDone(t, k, e.value, "rollback")
        BY <3>1
      <3>. QED  BY <2>3, <3>2, ReadFresh DEF ReadForRollback
    <2>4. CASE DropCommit(t)
      BY <2>4 DEF DropCommit, Fresh
    <2>. QED  BY <1>3, <1>4, <2>1, <2>2, <2>3, <2>4, NumberFresh, RowFresh, LogFresh,
                 LockFresh, CommitFresh
              DEF Proceed, ReadRefused, LogRefused, ServiceNotFound
  <1>. QED  BY <1>1, <1>2, <1>3, <1>4 DEF Next, Abort, DeadlockVictim

\* While calls do not overlap, all three invariants hold.
LEMMA FreshHolds == Spec /\ []Apart => [](IInv /\ Intent /\ Fresh(Txs))
  <1>1. Init => Fresh(Txs)
    BY NoneAssumption DEF Init, Fresh, FreshOf, Concerns, Draft, Composing, Numbered, Nothing
  <1>2. Apart => \A u \in Txs, t \in Txs : ~ Meets(u, t)
    BY DEF Apart, Meets
  <1>3. IInv /\ Intent /\ Apart /\ Fresh(Txs) /\ [Next]_vars => Fresh(Txs)'
    BY <1>2, NextFresh
  <1>. QED  BY <1>1, <1>3, IntentHolds, PTL DEF Spec

\* A row carries a number from 1 to the highest of its key.
LEMMA RowNumbered ==
  ASSUME IInv, NEW k \in Keys, variables[k] # None
  PROVE  variables[k].version \in 1 .. TopVersion(k)
  <1>1. variables[k].version \in VersionNumbers(k)
    BY DEF IInv, CurrentInHistory, VersionNumbers
  <1>. QED  BY <1>1 DEF IInv, Gapless

\* What the commit of a call that overlaps no other does to a key of its call.
LEMMA CommitCounts ==
  ASSUME IInv, Intent, NEW t \in Txs, Fresh({t}), Commit(t), NEW k \in req[t].keys
  PROVE  /\ k \in Keys /\ TopVersion(k) \in Nat
         /\ log[t][k].version = TopVersion(k) + 1
         /\ TopVersion(k)' = TopVersion(k) + 1
         /\ versions'[k][Len(versions'[k])] = log[t][k]
         /\ IF log[t][k].type = "delete"
              THEN /\ variables[k] # None /\ variables'[k] = None
                   /\ log[t][k].value = variables[k].value
              ELSE variables'[k] = [value |-> log[t][k].value, version |-> log[t][k].version]
  <1>1. k \in Keys
    <2>1. req[t] \in Requests
      BY DEF Commit, IInv, TypeOK, Frames
    <2>. QED  BY <2>1, RequestFields
  <1>2. service /\ TopVersion(k) \in Nat
    BY <1>1 DEF Commit, IInv, ServiceLock, Gapless
  <1>3. /\ log[t][k] # None /\ log[t][k] \in Entry /\ Fits(t, k, log[t][k])
        /\ versions'[k] = Append(versions[k], log[t][k])
        /\ Len(versions'[k]) = Len(versions[k]) + 1
        /\ versions'[k][Len(versions[k]) + 1] = log[t][k]
        /\ log[t][k].type # "delete" =>
              variables'[k] = [value |-> log[t][k].value, version |-> log[t][k].version]
    BY <1>1, CommitOfKey
  <1>4. /\ log[t][k].version = TopVersion(k) + 1
        /\ req[t].op = "delete" => variables[k] # None /\ log[t][k].value = variables[k].value
        /\ holder[k] = t
    BY <1>1, <1>2, <1>3 DEF Fresh, FreshOf, Concerns, Change, Draft
  <1>5. TopVersion(k)' = TopVersion(k) + 1
    <2>1. VersionNumbers(k)' = VersionNumbers(k) \cup {log[t][k].version}
      BY <1>1, <1>3, CommitHistory, SMTT(30) DEF VersionNumbers
    <2>2. VersionNumbers(k)' = 1 .. TopVersion(k) + 1
      <3>1. VersionNumbers(k) = 1 .. TopVersion(k)
        BY <1>1 DEF IInv, Gapless
      <3>2. (1 .. TopVersion(k)) \cup {TopVersion(k) + 1} = 1 .. TopVersion(k) + 1
        BY <1>2
      <3>. QED  BY <1>4, <2>1, <3>1, <3>2
    <2>3. (IF VersionNumbers(k)' = {} THEN 0 ELSE Max(VersionNumbers(k)')) = TopVersion(k) + 1
      <3>. HIDE DEF TopVersion
      <3>1. TopVersion(k) + 1 \in Nat
        BY <1>2
      <3>. QED  BY <2>2, <3>1, TopOfInterval
    <2>. QED  BY <2>3 DEF TopVersion
  <1>6. ASSUME log[t][k].type = "delete"
        PROVE  req[t].op = "delete" /\ variables'[k] = None
    <2>1. req[t].op = "delete"
      BY <1>3, <1>6 DEF Commit, Intent, Fits
    <2>2. Matches(log[t][k], written[t][k])
      BY <1>1, <1>3, <1>4 DEF Commit, IInv, Locks, Draft
    <2>3. written[t][k] = None
      BY <1>6, <2>2 DEF Matches
    <2>. QED  BY <1>1, <1>4, <2>1, <2>3 DEF Commit, RowAfter
  <1>. QED  BY <1>1, <1>2, <1>3, <1>4, <1>5, <1>6

\* "Every value change increments version" (README.md:229) is true of calls
\* that do not overlap: a row that changes gets a higher version.
THEOREM ApartIncrements == Spec /\ []Apart => EveryChangeIncrements
  <1>. DEFINE Increments == \A k \in Keys :
         variables[k] # None /\ variables'[k] # None /\ variables'[k] # variables[k] =>
           variables'[k].version > variables[k].version
  <1>1. IInv /\ Intent /\ Fresh(Txs) /\ [Next]_vars => Increments
    <2>. SUFFICES ASSUME IInv, Intent, Fresh(Txs), [Next]_vars, NEW k \in Keys,
                         variables[k] # None, variables'[k] # None,
                         variables'[k] # variables[k]
                  PROVE  variables'[k].version > variables[k].version
      OBVIOUS
    <2>1. PICK t \in Txs : Commit(t) \/ DropCommit(t)
      BY OtherSteps DEF committed
    <2>2. Commit(t)
      <3>1. DropCommit(t) => variables'[k] = None
        BY DEF DropCommit, RowAfter, IInv, Frames, Nothing
      <3>. QED  BY <2>1, <3>1
    <2>3. k \in req[t].keys /\ Fresh({t})
      BY <2>2, CommitOfKey DEF Fresh
    <2>4. variables'[k].version = TopVersion(k) + 1 /\ TopVersion(k) \in Nat
      <3>1. log[t][k].type # "delete"
        BY <2>1, <2>2, <2>3, CommitCounts
      <3>2. /\ TopVersion(k) \in Nat
            /\ log[t][k].version = TopVersion(k) + 1
            /\ variables'[k] = [value |-> log[t][k].value, version |-> log[t][k].version]
        BY <2>1, <2>2, <2>3, <3>1, CommitCounts
      <3>. QED  BY <3>2
    <2>5. variables[k].version \in 1 .. TopVersion(k)
      BY RowNumbered
    <2>. QED  BY <2>4, <2>5
  <1>2. IInv /\ Intent /\ Fresh(Txs) /\ [Next]_vars => [Increments]_vars
    BY <1>1
  <1>. QED  BY <1>2, FreshHolds, PTL DEF Spec, EveryChangeIncrements

\* The entry of a delete that overlaps no other call carries the value of the
\* row it removes (variables.go:178), whatever became of the row before.
THEOREM ApartDeletesShow == Spec /\ []Apart => DeleteShowsRemoved
  <1>. DEFINE Shows == \A k \in Keys :
         service' /\ variables[k] # None /\ variables'[k] = None =>
           versions'[k][Len(versions'[k])].value = variables[k].value
  <1>1. IInv /\ Intent /\ Fresh(Txs) /\ [Next]_vars => Shows
    <2>. SUFFICES ASSUME IInv, Intent, Fresh(Txs), [Next]_vars, NEW k \in Keys,
                         service', variables[k] # None, variables'[k] = None
                  PROVE  versions'[k][Len(versions'[k])].value = variables[k].value
      OBVIOUS
    <2>1. PICK t \in Txs : Commit(t)
      BY OtherSteps DEF committed, DropCommit
    <2>2. k \in req[t].keys /\ Fresh({t})
      BY <2>1, CommitOfKey DEF Fresh
    <2>3. log[t][k].type = "delete"
      <3>1. variables'[k] # [value |-> log[t][k].value, version |-> log[t][k].version]
        <4>1. [value |-> log[t][k].value, version |-> log[t][k].version] \in Row
          BY <2>1, <2>2, CommitOfKey DEF Entry, Row
        <4>. QED  BY <4>1, NoneAssumption
      <3>. QED  BY <2>1, <2>2, <3>1, CommitCounts
    <2>. QED  BY <2>1, <2>2, <2>3, CommitCounts
  <1>2. IInv /\ Intent /\ Fresh(Txs) /\ [Next]_vars => [Shows]_vars
    BY <1>1
  <1>. QED  BY <1>2, FreshHolds, PTL DEF Spec, DeleteShowsRemoved

\* A commit counts one more change for each key of its call.
LEMMA CommitNumbered ==
  ASSUME IInv, Intent, NEW t \in Txs, Fresh({t}), Commit(t)
  PROVE  Counted!Next
  <1>. DEFINE K == req[t].keys
              row(k) == IF variables[k] = None THEN 0 ELSE variables[k].version
  <1>1. /\ req[t] \in Requests
        /\ req[t].op \in {"put", "delete", "rollback"}
        /\ service /\ service' = service
    BY DEF Commit, Intent, IInv, TypeOK, Frames, ServiceLock
  <1>2. K \subseteq Keys
    BY <1>1, RequestFields
  <1>3. \A k \in Keys : TopVersion(k)' = IF k \in K THEN TopVersion(k) + 1 ELSE TopVersion(k)
    <2>1. ASSUME NEW k \in Keys, k \notin K PROVE TopVersion(k)' = TopVersion(k)
      <3>1. versions'[k] = versions[k]
        BY <2>1, CommitOfKey
      <3>. QED  BY <3>1 DEF TopVersion, VersionNumbers
    <2>. QED  BY <2>1, CommitCounts
  <1>4. CASE req[t].op \in {"put", "rollback"}
    <2>1. K \in (SUBSET Keys) \ {{}}
      BY <1>1, <1>4, RequestKeys
    <2>2. ASSUME NEW k \in Keys PROVE row(k)' = IF k \in K THEN TopVersion(k) + 1 ELSE row(k)
      <3>1. CASE k \notin K
        BY <3>1, CommitOfKey
      <3>2. CASE k \in K
        <4>1. log[t][k].type # "delete" /\ log[t][k] \in Entry
          <5>1. k \in Keys /\ log[t][k] \in Entry /\ Fits(t, k, log[t][k])
            BY <3>2, CommitOfKey
          <5>. QED  BY <1>4, <5>1 DEF Fits
        <4>2. variables'[k] = [value |-> log[t][k].value, version |-> TopVersion(k) + 1]
          BY <3>2, <4>1, CommitCounts
        <4>3. variables'[k] \in Row
          <5>1. TopVersion(k) \in Nat
            BY <3>2, CommitCounts
          <5>. QED  BY <4>1, <4>2, <5>1 DEF Entry, Row
        <4>. QED  BY <3>2, <4>2, <4>3, NoneAssumption
      <3>. QED  BY <3>1, <3>2
    <2>. QED  BY <1>1, <1>3, <2>1, <2>2 DEF Counted!Next, Counted!Upsert, Counted!Counts
  <1>5. CASE req[t].op = "delete"
    <2>1. PICK k \in Keys : K = {k}
      BY <1>1, <1>5, RequestKeys
    <2>2. log[t][k].type = "delete"
      BY <1>5, <2>1, CommitOfKey DEF Fits
    <2>3. variables[k] # None /\ variables'[k] = None
      BY <2>1, <2>2, CommitCounts
    <2>4. row(k) # 0 /\ row(k)' = 0
      BY <2>3, RowNumbered DEF IInv, Gapless
    <2>5. \A j \in Keys \ {k} : row(j)' = row(j)
      BY <2>1, CommitOfKey
    <2>6. Counted!Delete(k)
      BY <1>1, <1>3, <2>1, <2>4, <2>5 DEF Counted!Delete, Counted!Counts
    <2>. QED  BY <2>6 DEF Counted!Next
  <1>. QED  BY <1>1, <1>4, <1>5

\* The commit of DeleteService is the drop.
LEMMA DropNumbered ==
  ASSUME IInv, NEW t \in Txs, DropCommit(t)
  PROVE  Counted!Next
  <1>1. service
    BY NoneAssumption DEF DropCommit, IInv, ServiceLock
  <1>2. \A k \in Keys : variables'[k] = None
    BY DEF DropCommit, RowAfter, IInv, Frames, Nothing
  <1>3. \A k \in Keys : TopVersion(k)' = 0
    BY DEF DropCommit, TopVersion, VersionNumbers
  <1>. QED  BY <1>1, <1>2, <1>3 DEF DropCommit, Counted!Next, Counted!Drop

\* While no two calls work on one key at the same time, internal/store is the
\* store of numbered changes that the streams, the clients and the sidecar
\* take it for: each change takes the next number of its key.
THEOREM ApartNumbered == Spec /\ []Apart => RefinesNumberedStore
  <1>1. Init => Counted!Init
    BY DEF Init, Counted!Init, Nothing, TopVersion, VersionNumbers
  <1>2. IInv /\ Intent /\ Fresh(Txs) /\ [Next]_vars => [Counted!Next]_(Counted!vars)
    <2>. SUFFICES ASSUME IInv, Intent, Fresh(Txs), [Next]_vars
                  PROVE  [Counted!Next]_(Counted!vars)
      OBVIOUS
    <2>1. CASE \E t \in Txs : Commit(t)
      BY <2>1, CommitNumbered DEF Fresh
    <2>2. CASE \E t \in Txs : DropCommit(t)
      BY <2>2, DropNumbered
    <2>3. CASE \A t \in Txs : ~ Commit(t) /\ ~ DropCommit(t)
      <3>1. UNCHANGED committed
        BY <2>3, OtherSteps
      <3>. QED  BY <3>1, CommittedKept DEF committed, Counted!vars
    <2>. QED  BY <2>1, <2>2, <2>3
  <1>. QED  BY <1>1, <1>2, FreshHolds, PTL DEF Spec, RefinesNumberedStore, Counted!Spec

-----------------------------------------------------------------------------
(* A call that met no other, among calls that did.                         *)

\* What such calls count on, and that they have nothing in common with others.
LoneFresh ==
  /\ Fresh(Txs \ overlapped)
  /\ \A t \in Txs \ overlapped, u \in Txs : ~ Meets(t, u)

\* Those who have not met another in the end had not before, or are idle.
LEMMA LoneStep ==
  ASSUME IInv, IInv', Intent, LoneFresh, [OverlapNext]_ovars
  PROVE  LoneFresh'
  <1>1. CASE UNCHANGED ovars
    <2>1. [Next]_vars
      BY <1>1 DEF ovars
    <2>2. Fresh(Txs \ overlapped)'
      BY <1>1, <2>1, NextFresh DEF ovars, LoneFresh
    <2>3. \A t, u \in Txs : Meets(t, u)' = Meets(t, u)
      BY <1>1 DEF ovars, vars, Meets, Writes
    <2>. QED  BY <1>1, <2>2, <2>3 DEF ovars, LoneFresh
  <1>2. CASE Next /\ Watch
    <2>. DEFINE L == Txs \ overlapped
    <2>2. ASSUME NEW t \in Txs \ overlapped', NEW u \in Txs PROVE ~ Meets(t, u)'
      BY <1>2, <2>2 DEF Watch, Meets, Writes
    <2>3. \A t \in Txs \ overlapped' : t \in L \/ pc'[t] = "idle"
      BY <1>2 DEF Watch
    <2>4. L \in SUBSET Txs /\ Fresh(L) /\ \A t \in L, u \in Txs : ~ Meets(t, u)
      BY DEF LoneFresh
    <2>. HIDE DEF L
    <2>5. ASSUME service', NEW t \in Txs \ overlapped', NEW k \in Keys PROVE FreshOf(t, k)'
      <3>1. CASE pc'[t] = "idle"
        <4>1. log'[t] = Nothing /\ ~ Composing(t)'
          BY <3>1 DEF IInv, Frames, Composing
        <4>. QED  BY <4>1, FreshWithout
      <3>2. CASE t \in L
        <4>1. ASSUME NEW M \in SUBSET Txs, M = L PROVE Fresh(M)'
          BY <1>2, <2>4, <4>1, NextFresh
        <4>2. ASSUME NEW M \in SUBSET Txs, M = L PROVE FreshOf(t, k)'
          BY <2>5, <3>2, <4>1, <4>2 DEF Fresh
        <4>. QED  BY <2>4, <4>2
      <3>. QED  BY <2>3, <3>1, <3>2
    <2>6. Fresh(Txs \ overlapped)'
      BY <2>5 DEF Fresh
    <2>. QED  BY <2>2, <2>6 DEF LoneFresh
  <1>. QED  BY <1>1, <1>2 DEF OverlapNext

\* The step that ends a call at its commit and changes the history commits it.
LEMMA CommitsCommit ==
  ASSUME IInv, Next, NEW t \in Txs, Commits(t)
  PROVE  Commit(t)
  <1>1. PICK u \in Txs : Commit(u) \/ DropCommit(u)
    BY OtherSteps DEF Commits, committed
  <1>2. u = t
    <2>. SUFFICES ASSUME u # t PROVE FALSE
      OBVIOUS
    <2>1. \E K \in SUBSET Keys : pc' = PcAfterCommit(u, K)
      BY <1>1 DEF Commit, DropCommit
    <2>2. pc'[t] = "commit"
      BY <2>1 DEF Commits, PcAfterCommit, Awakened
    <2>. QED  BY <2>2 DEF Commits
  <1>. QED  BY <1>1, <1>2 DEF Commits, DropCommit

\* Two calls that race may give their changes one number, and a delete may record
\* what it did not remove (variables.go:69, :161); a call that meets no other on
\* its keys is not affected by any of that, before it or beside it.
THEOREM LoneCallsCount == OverlapSpec => LoneCounts
  <1>. DEFINE Counts(t) ==
         /\ Counted!Next
         /\ req[t].op = "delete" => \A k \in req[t].keys :
              /\ variables[k] # None /\ variables'[k] = None
              /\ versions'[k][Len(versions'[k])].value = variables[k].value
  <1>1. OverlapInit => LoneFresh
    <2>. SUFFICES ASSUME OverlapInit PROVE LoneFresh
      OBVIOUS
    <2>1. Fresh(Txs)
      BY NoneAssumption
         DEF OverlapInit, Init, Fresh, FreshOf, Concerns, Draft, Composing, Numbered, Nothing
    <2>2. \A t, u \in Txs : ~ Meets(t, u)
      BY DEF OverlapInit, Init, Meets, Writes
    <2>. QED  BY <2>1, <2>2 DEF LoneFresh, OverlapInit, Fresh
  <1>2. OverlapSpec => Spec
    <2>1. OverlapInit => Init
      BY DEF OverlapInit
    <2>2. [OverlapNext]_ovars => [Next]_vars
      BY DEF OverlapNext, ovars
    <2>. QED  BY <2>1, <2>2, PTL DEF OverlapSpec, Spec
  <1>3. IInv /\ Intent /\ LoneFresh /\ OverlapNext => \A t \in Txs : Lone(t) /\ Commits(t) => Counts(t)
    <2>. SUFFICES ASSUME IInv, Intent, LoneFresh, OverlapNext, NEW t \in Txs, Lone(t), Commits(t)
                  PROVE  Counts(t)
      OBVIOUS
    <2>1. Commit(t) /\ Fresh({t})
      BY CommitsCommit DEF OverlapNext, LoneFresh, Lone, Fresh
    <2>2. Counted!Next
      BY <2>1, CommitNumbered
    <2>3. ASSUME req[t].op = "delete", NEW k \in req[t].keys
          PROVE  /\ variables[k] # None /\ variables'[k] = None
                 /\ versions'[k][Len(versions'[k])].value = variables[k].value
      <3>1. k \in Keys
        BY <2>1, <2>3, CommitCounts
      <3>2. log[t][k].type = "delete"
        BY <2>1, <2>3, <3>1, CommitOfKey DEF Fits
      <3>. QED  BY <2>1, <2>3, <3>2, CommitCounts
    <2>. QED  BY <2>2, <2>3
  <1>4. IInv /\ Intent /\ LoneFresh /\ [OverlapNext]_ovars =>
          [\A t \in Txs : Lone(t) /\ Commits(t) => Counts(t)]_ovars
    BY <1>3
  <1>. QED  BY <1>1, <1>2, <1>4, LoneStep, IntentHolds, PTL DEF OverlapSpec, LoneCounts

-----------------------------------------------------------------------------
(* The numbers of calls that do not overlap.                               *)

\* The history of a key has number i in its i-th entry.
Exact == \A k \in Keys : \A i \in DOMAIN versions[k] : versions[k][i].version = i

\* Then its length is the highest number.
LEMMA ExactTop ==
  ASSUME IInv, Exact, NEW k \in Keys
  PROVE  TopVersion(k) = Len(versions[k])
  <1>1. versions[k] \in Seq(Entry)
    BY DEF IInv, TypeOK
  <1>2. Len(versions[k]) \in Nat /\ DOMAIN versions[k] = 1 .. Len(versions[k])
    BY <1>1
  <1>3. VersionNumbers(k) = 1 .. Len(versions[k])
    BY <1>2 DEF Exact, VersionNumbers
  <1>. QED  BY <1>2, <1>3, TopOfInterval DEF TopVersion

\* A commit adds the next number at the end.
LEMMA ExactStep == IInv /\ Intent /\ Fresh(Txs) /\ Exact /\ [Next]_vars => Exact'
  <1>. SUFFICES ASSUME IInv, Intent, Fresh(Txs), Exact, [Next]_vars PROVE Exact'
    OBVIOUS
  <1>1. ASSUME NEW t \in Txs, Commit(t) PROVE Exact'
    <2>. SUFFICES ASSUME NEW k \in Keys, NEW i \in DOMAIN versions'[k]
                  PROVE  versions'[k][i].version = i
      BY DEF Exact
    <2>1. CASE log[t][k] = None
      BY <1>1, <2>1, CommitHistory DEF Exact
    <2>2. CASE log[t][k] # None
      <3>1. log[t][k].version = Len(versions[k]) + 1
        <4>1. k \in req[t].keys /\ Fresh({t})
          BY <1>1, <2>2, CommitOfKey DEF Fresh
        <4>2. log[t][k].version = TopVersion(k) + 1
          BY <1>1, <4>1, CommitCounts
        <4>. QED  BY <4>2, ExactTop
      <3>2. CASE i \in DOMAIN versions[k]
        BY <1>1, <3>2, CommitHistory DEF Exact
      <3>3. CASE i = Len(versions[k]) + 1
        BY <1>1, <2>2, <3>1, <3>3, CommitHistory
      <3>. QED  BY <1>1, <2>2, <3>2, <3>3, CommitHistory
    <2>. QED  BY <2>1, <2>2
  <1>2. ASSUME NEW t \in Txs, DropCommit(t) PROVE Exact'
    BY <1>2 DEF DropCommit, Exact
  <1>3. CASE \A t \in Txs : ~ Commit(t) /\ ~ DropCommit(t)
    BY <1>3, OtherSteps DEF committed, Exact
  <1>. QED  BY <1>1, <1>2, <1>3

\* The number a caller asks to roll back to names one entry of the history, as
\* RollbackVariable takes for granted when it scans a single row
\* (variables.go:202).
THEOREM ApartTargets ==
  Spec /\ []Apart => [](\A k \in Keys, n \in Nat : \A e, f \in Targets(k, n) : e = f)
  <1>1. Init => Exact
    BY DEF Init, Exact
  <1>2. Exact => \A k \in Keys, n \in Nat : \A e, f \in Targets(k, n) : e = f
    BY DEF Exact, Targets
  <1>. QED  BY <1>1, <1>2, ExactStep, FreshHolds, PTL DEF Spec

-----------------------------------------------------------------------------
(* Deadlocks.                                                              *)

\* A call that writes several keys.
Several(t) == req[t].op = "put" /\ \A k \in Keys : req[t].keys # {k}

\* Those who are at the statements of DeleteService run it, and the exclusive
\* lock of the service is theirs.
Droppers ==
  /\ \A t \in Txs : pc[t] \in {"lockService", "cascade"} => req[t].op = "drop"
  /\ dropper # None => pc[dropper] = "cascade"

\* Only LockService takes the lock, and the end of its call gives it back.
LEMMA DroppersStep == IInv /\ Intent /\ Droppers /\ [Next]_vars => Droppers'
  <1>. SUFFICES ASSUME IInv, Intent, Droppers, [Next]_vars PROVE Droppers'
    OBVIOUS
  <1>0. dropper \in Txs \cup {None} /\ DOMAIN pc = Txs /\ DOMAIN req = Txs
    BY DEF IInv, TypeOK
  <1>1. CASE UNCHANGED vars
    BY <1>1 DEF vars, Droppers
  <1>2. ASSUME NEW t \in Txs, NEW r \in Requests, Begin(t, r) PROVE Droppers'
    BY <1>0, <1>2, NoneAssumption DEF Begin, locks, Droppers
  <1>3. ASSUME NEW t \in Txs, RollBack(t) PROVE Droppers'
    BY <1>0, <1>3, NoneAssumption DEF RollBack, EndOfTx, Droppers
  <1>4. ASSUME NEW t \in Txs, ReadForPut(t) \/ ReadForDelete(t) \/ ReadForRollback(t) \/ Number(t)
        PROVE  Droppers'
    BY <1>0, <1>4, NoneAssumption
       DEF ReadForPut, ReadForDelete, ReadForRollback, ReadDone, Number, locks, Droppers
  <1>5. ASSUME NEW t \in Txs,
               UpsertRow(t) \/ DeleteNothing(t) \/ DeleteRow(t) \/ DeleteWaits(t) \/ LogVersion(t)
        PROVE  Droppers'
    BY <1>0, <1>5, NoneAssumption
       DEF UpsertRow, DeleteNothing, DeleteRow, DeleteWaits, GoTo, LogVersion, LogDone, Droppers
  <1>6. ASSUME NEW t \in Txs, LockService(t) \/ Cascade(t) PROVE Droppers'
    BY <1>0, <1>6, NoneAssumption DEF LockService, Cascade, Droppers
  <1>7. ASSUME NEW t \in Txs, Commit(t) \/ DropCommit(t) PROVE Droppers'
    BY <1>0, <1>7, NoneAssumption
       DEF Commit, DropCommit, PcAfterCommit, Awakened, EndOfTx, Droppers
  <1>. QED  BY <1>1, <1>2, <1>3, <1>4, <1>5, <1>6, <1>7
            DEF Next, Proceed, Abort, DeadlockVictim, ReadRefused, LogRefused, ServiceNotFound

\* A call holds a row that it has written before the row it waits for now.
LEMMA HoldsAnother ==
  ASSUME IInv, Intent, NEW u \in Txs, NEW k \in Keys, holder[k] = u,
         pc[u] \in {"write", "blocked"}
  PROVE  Several(u)
  <1>1. log[u][k] # None
    BY DEF IInv, Locks, Draft
  <1>2. k \in req[u].keys
    BY <1>1 DEF Intent, Fits
  <1>3. key[u] \in req[u].keys /\ key[u] # k
    BY <1>1 DEF Intent, Fits, IInv, Frames, Composing
  <1>4. req[u] \in Requests /\ req[u].op \in {"put", "delete", "rollback"}
    BY DEF Intent, IInv, TypeOK, Frames
  <1>5. \A j \in Keys : req[u].keys # {j}
    BY <1>2, <1>3
  <1>. QED  BY <1>4, <1>5, RequestKeys DEF Several

\* Upserts of one key, deletes and rollbacks do not deadlock among themselves:
\* a set of calls that wait for each other runs DeleteService, or consists of
\* bulk upserts that lock their keys in the order of a Go map
\* (variables.go:113, services.go:114).
DeadlocksKnown ==
  \A D \in SUBSET Txs : Stuck(D) =>
    \/ \E u \in D : req[u].op = "drop"
    \/ \A u \in D : Several(u)

\* Every deadlock of the store has one of the two causes that the code leaves
\* to Postgres' detector.
THEOREM TwoDeadlocks == Spec => []DeadlocksKnown
  <1>1. Init => Droppers
    BY DEF Init, Droppers
  <1>2. ASSUME IInv, Intent, Droppers PROVE DeadlocksKnown
    <2>. SUFFICES ASSUME NEW D \in SUBSET Txs, Stuck(D),
                         \A u \in D : req[u].op # "drop", NEW u \in D
                  PROVE  Several(u)
      BY DEF DeadlocksKnown
    <2>1. ASSUME NEW v \in D, NEW w \in D, w \in WaitsFor(v)
          PROVE  pc[v] \in {"write", "blocked"} /\ w = holder[key[v]] /\ key[v] \in Keys
      <3>1. v \in Txs /\ w \in Txs
        OBVIOUS
      <3>2. pc[v] \notin {"lockService", "cascade"} /\ pc[w] \notin {"lockService", "cascade"}
        BY <1>2, <3>1 DEF Droppers
      <3>3. w # dropper
        BY <1>2, <3>1, <3>2, NoneAssumption DEF Droppers
      <3>4. pc[v] \in {"write", "blocked"} /\ w = holder[key[v]]
        BY <2>1, <3>2, <3>3 DEF WaitsFor
      <3>. QED  BY <1>2, <3>1, <3>4 DEF IInv, TypeOK, Frames, Composing
    <2>2. PICK w \in D : w \in WaitsFor(u)
      BY DEF Stuck
    <2>3. PICK v \in D : u \in WaitsFor(v)
      BY DEF Stuck
    <2>. QED  BY <1>2, <2>1, <2>2, <2>3, HoldsAnother
  <1>. QED  BY <1>1, <1>2, DroppersStep, IntentHolds, PTL DEF Spec

=============================================================================
