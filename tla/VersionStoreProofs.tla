------------------------- MODULE VersionStoreProofs -------------------------
(***************************************************************************)
(* Proofs about VersionStore, for any set of keys, values and sessions:    *)
(* its type invariant, that the current rows are recorded in the history,  *)
(* that version numbers have no gaps, that a deleted service leaves        *)
(* nothing behind, and that history is append-only.                        *)
(***************************************************************************)
EXTENDS VersionStore, TLAPS

-----------------------------------------------------------------------------
(* The inductive invariant.                                                *)

\* A call between its first read of a key and the history row for it.
Composing(t) == pc[t] \in {"number", "write", "blocked", "log"}
Numbered(t) == pc[t] \in {"write", "blocked", "log"}

\* The locals of a call are those of the statement it has reached.
Frames ==
  \A t \in Txs :
    /\ pc[t] # "idle" => req[t] # None
    /\ Composing(t) =>
         /\ key[t] # None
         /\ entry[t] # None
         /\ log[t][key[t]] = None
         /\ entry[t].type = "delete" <=> req[t].op = "delete"
    /\ pc[t] = "blocked" => req[t].op = "delete"
    /\ pc[t] \in {"idle", "lockService", "cascade"} =>
         log[t] = Nothing /\ written[t] = Nothing

\* A number in use, in the making or in the history, is at most one above the
\* highest of its key: numbers that lose a race are reused, never skipped.
NumberOK(k, n) == n >= 1 /\ (service => n <= TopVersion(k) + 1)
Numbers ==
  \A t \in Txs :
    /\ Numbered(t) => NumberOK(key[t], entry[t].version)
    /\ \A k \in Keys : log[t][k] # None => NumberOK(k, log[t][k].version)

\* The change that a transaction is about to record, or has recorded, for k.
Draft(t, k) ==
  IF log[t][k] # None THEN log[t][k]
  ELSE IF pc[t] = "log" /\ key[t] = k THEN entry[t]
  ELSE None

Matches(e, row) ==
  IF row = None THEN e.type = "delete"
  ELSE e.type # "delete" /\ e.value = row.value /\ e.version = row.version

\* Whoever holds a key records what it writes there; a change that is not a
\* delete is recorded by the holder of the key.
Locks ==
  \A t \in Txs, k \in Keys :
    /\ written[t][k] # None => holder[k] = t
    /\ holder[k] = t /\ pc[t] # "cascade" =>
         Draft(t, k) # None /\ Matches(Draft(t, k), written[t][k])
    /\ Draft(t, k) # None /\ Draft(t, k).type # "delete" => holder[k] = t

\* The lock of the service row: shared by the calls that have written history
\* rows, exclusive for the one that deletes the service.
ServiceLock ==
  /\ \A t \in Txs : pc[t] = "commit" => t \in sharers
  /\ \A t \in Txs : pc[t] = "cascade" => dropper = t
  /\ sharers # {} => service /\ dropper = None
  /\ dropper # None => service

Gapless ==
  \A k \in Keys : TopVersion(k) \in Nat /\ VersionNumbers(k) = 1 .. TopVersion(k)

IInv ==
  /\ TypeOK
  /\ Frames
  /\ Numbers
  /\ Locks
  /\ ServiceLock
  /\ Gapless
  /\ CurrentInHistory
  /\ AbsentWasDeleted
  /\ NoOrphans

-----------------------------------------------------------------------------
(* Lemmas about requests, and about steps that commit nothing.             *)

\* What the arguments of a call are made of.
LEMMA RequestFields ==
  ASSUME NEW r \in Requests
  PROVE  /\ r.op \in {"put", "delete", "rollback", "drop"}
         /\ r.keys \subseteq Keys
         /\ r.op = "put" => \A k \in r.keys : r.kv[k] \in Values
  BY DEF Requests, PutRequests, DeleteRequests, RollbackRequests, DropRequests

\* A step that commits nothing keeps what IInv says of committed state.
LEMMA CommittedKept ==
  ASSUME UNCHANGED committed
  PROVE  /\ \A k \in Keys : VersionNumbers(k)' = VersionNumbers(k)
         /\ \A k \in Keys : TopVersion(k)' = TopVersion(k)
         /\ Gapless => Gapless'
         /\ CurrentInHistory => CurrentInHistory'
         /\ AbsentWasDeleted => AbsentWasDeleted'
         /\ NoOrphans => NoOrphans'
         /\ \A k \in Keys, n \in Nat : NumberOK(k, n) => NumberOK(k, n)'
  <1>1. /\ service' = service
        /\ variables' = variables
        /\ versions' = versions
    BY DEF committed
  <1>2. \A k \in Keys : VersionNumbers(k)' = VersionNumbers(k)
    BY <1>1 DEF VersionNumbers
  <1>3. \A k \in Keys : TopVersion(k)' = TopVersion(k)
    BY <1>2 DEF TopVersion
  <1>4. Gapless => Gapless'
    BY <1>2, <1>3 DEF Gapless
  <1>5. CurrentInHistory => CurrentInHistory'
    BY <1>1 DEF CurrentInHistory
  <1>6. AbsentWasDeleted => AbsentWasDeleted'
    BY <1>1 DEF AbsentWasDeleted
  <1>7. NoOrphans => NoOrphans'
    BY <1>1 DEF NoOrphans
  <1>8. \A k \in Keys, n \in Nat : NumberOK(k, n) => NumberOK(k, n)'
    BY <1>1, <1>3 DEF NumberOK
  <1>. QED  BY <1>2, <1>3, <1>4, <1>5, <1>6, <1>7, <1>8

\* Nothing is stored and nobody runs when the database is created.
LEMMA InitIInv == Init => IInv
  <1>. SUFFICES ASSUME Init PROVE IInv
    OBVIOUS
  <1>1. TypeOK
    BY DEF Init, TypeOK, Nothing
  <1>2. Frames
    BY DEF Init, Frames, Composing
  <1>3. Numbers
    BY DEF Init, Numbers, Numbered, Nothing
  <1>4. Locks
    BY NoneAssumption DEF Init, Locks, Draft, Nothing
  <1>5. ServiceLock
    BY DEF Init, ServiceLock
  <1>6. Gapless
    BY DEF Init, Gapless, TopVersion, VersionNumbers
  <1>7. CurrentInHistory /\ AbsentWasDeleted /\ NoOrphans
    BY DEF Init, CurrentInHistory, AbsentWasDeleted, NoOrphans, Nothing
  <1>. QED  BY <1>1, <1>2, <1>3, <1>4, <1>5, <1>6, <1>7 DEF IInv

-----------------------------------------------------------------------------
(* Steps that commit nothing, one lemma each.                              *)

\* A call starts: only its request and its first statement change.
LEMMA BeginStep ==
  ASSUME IInv, NEW t \in Txs, NEW r \in Requests, Begin(t, r)
  PROVE  IInv'
  <1>. USE DEF Begin, pending, locks
  <1>0. UNCHANGED committed
    OBVIOUS
  <1>n. \A j \in Keys, n \in Nat : NumberOK(j, n) => NumberOK(j, n)'
    BY <1>0, CommittedKept
  <1>1. TypeOK'
    BY DEF IInv, TypeOK, committed
  <1>2. Frames'
    BY NoneAssumption, RequestFields DEF IInv, TypeOK, Frames, Composing
  <1>3. Numbers'
    BY <1>n DEF IInv, TypeOK, Frames, Composing, Numbers, Numbered, Entry
  <1>4. Locks'
    BY NoneAssumption DEF IInv, TypeOK, Frames, Composing, Locks, Draft, Matches
  <1>5. ServiceLock'
    BY DEF IInv, TypeOK, ServiceLock, committed
  <1>. QED  BY <1>0, <1>1, <1>2, <1>3, <1>4, <1>5, CommittedKept DEF IInv

\* The first read of an iteration composes an entry for one of its keys.
LEMMA ReadStep ==
  ASSUME IInv, NEW t \in Txs, pc[t] = "read",
         NEW k \in Todo(t), NEW value \in Values, NEW type \in ChangeTypes,
         type = "delete" <=> req[t].op = "delete",
         ReadDone(t, k, value, type)
  PROVE  IInv'
  <1>. USE DEF ReadDone, pending, locks
  <1>0. UNCHANGED committed
    OBVIOUS
  <1>n. \A j \in Keys, n \in Nat : NumberOK(j, n) => NumberOK(j, n)'
    BY <1>0, CommittedKept
  <1>1. TypeOK'
    BY RequestFields DEF IInv, TypeOK, Frames, committed, Todo, Entry
  <1>2. Frames'
    BY NoneAssumption, RequestFields DEF IInv, TypeOK, Frames, Composing, Todo, Entry
  <1>3. Numbers'
    BY <1>n DEF IInv, TypeOK, Frames, Composing, Numbers, Numbered, Entry
  <1>4. Locks'
    BY NoneAssumption DEF IInv, TypeOK, Frames, Composing, Locks, Draft, Matches
  <1>5. ServiceLock'
    BY DEF IInv, TypeOK, ServiceLock, committed
  <1>. QED  BY <1>0, <1>1, <1>2, <1>3, <1>4, <1>5, CommittedKept DEF IInv

\* nextVersion gives the entry a number from 1 to one above the highest, and
\* the highest never falls before the entry commits.
LEMMA NumberStep ==
  ASSUME IInv, NEW t \in Txs, Number(t)
  PROVE  IInv'
  <1>. USE DEF pending, locks
  <1>0. UNCHANGED committed
    BY DEF Number
  <1>n. \A j \in Keys, n \in Nat : NumberOK(j, n) => NumberOK(j, n)'
    BY <1>0, CommittedKept
  <1>a. key[t] \in Keys /\ entry[t] \in Entry
    BY DEF Number, IInv, TypeOK, Frames, Composing
  <1>b. PICK n \in Nat : n = NextVersion(key[t]) /\ NumberOK(key[t], n)
    BY <1>a DEF IInv, Gapless, NextVersion, NumberOK
  <1>c. /\ pc[t] = "number"
        /\ pc' = [pc EXCEPT ![t] = "write"]
        /\ entry' = [entry EXCEPT ![t] = [entry[t] EXCEPT !.version = n]]
        /\ UNCHANGED <<req, key, written, log, holder, sharers, dropper>>
    BY <1>b DEF Number
  <1>d. /\ [entry[t] EXCEPT !.version = n] \in Entry
        /\ [entry[t] EXCEPT !.version = n].type = entry[t].type
        /\ [entry[t] EXCEPT !.version = n].version = n
    BY <1>a DEF Entry
  <1>1. TypeOK'
    BY <1>0, <1>c, <1>d DEF IInv, TypeOK, committed
  <1>2. Frames'
    BY <1>c, <1>d, NoneAssumption, ZenonT(60) DEF IInv, TypeOK, Frames, Composing
  <1>3. Numbers'
    BY <1>n, <1>b, <1>c, <1>d DEF IInv, TypeOK, Frames, Composing, Numbers, Numbered, Entry
  <1>4. Locks'
    BY <1>c, NoneAssumption DEF IInv, TypeOK, Frames, Composing, Locks, Draft, Matches
  <1>5. ServiceLock'
    BY <1>0, <1>c DEF IInv, TypeOK, ServiceLock, committed
  <1>. QED  BY <1>0, <1>1, <1>2, <1>3, <1>4, <1>5, CommittedKept DEF IInv

\* The upsert takes the free lock of the key and writes what the entry says.
LEMMA UpsertStep ==
  ASSUME IInv, NEW t \in Txs, UpsertRow(t)
  PROVE  IInv'
  <1>. USE DEF UpsertRow, GoTo
  <1>0. UNCHANGED committed
    OBVIOUS
  <1>n. \A j \in Keys, n \in Nat : NumberOK(j, n) => NumberOK(j, n)'
    BY <1>0, CommittedKept
  <1>1. TypeOK'
    <2>1. key[t] \in Keys /\ entry[t] \in Entry
      BY DEF IInv, TypeOK, Frames, Composing
    <2>2. [value |-> entry[t].value, version |-> entry[t].version] \in Row
      BY <2>1 DEF Entry, Row
    <2>3. written' \in [Txs -> [Keys -> Row \cup {None}]]
      BY <2>1, <2>2 DEF IInv, TypeOK
    <2>4. holder' \in [Keys -> Txs \cup {None}]
      BY DEF IInv, TypeOK
    <2>5. pc' \in [Txs -> {"idle", "read", "number", "write", "blocked", "log",
                           "commit", "lockService", "cascade"}]
      BY DEF IInv, TypeOK
    <2>. QED  BY <2>3, <2>4, <2>5 DEF IInv, TypeOK, committed
  <1>2. Frames'
    BY NoneAssumption DEF IInv, TypeOK, Frames, Composing
  <1>3. Numbers'
    BY <1>n DEF IInv, TypeOK, Frames, Composing, Numbers, Numbered, Entry
  <1>4. Locks'
    BY NoneAssumption DEF IInv, TypeOK, Frames, Composing, Locks, Draft, Matches, Entry, Row
  <1>5. ServiceLock'
    BY DEF IInv, TypeOK, ServiceLock, committed
  <1>. QED  BY <1>0, <1>1, <1>2, <1>3, <1>4, <1>5, CommittedKept DEF IInv

\* A delete that finds no row goes on without a lock.
LEMMA DeleteNothingStep ==
  ASSUME IInv, NEW t \in Txs, DeleteNothing(t)
  PROVE  IInv'
  <1>. USE DEF DeleteNothing, GoTo
  <1>0. UNCHANGED committed
    OBVIOUS
  <1>n. \A j \in Keys, n \in Nat : NumberOK(j, n) => NumberOK(j, n)'
    BY <1>0, CommittedKept
  <1>1. TypeOK'
    BY DEF IInv, TypeOK, committed
  <1>2. Frames'
    BY NoneAssumption DEF IInv, TypeOK, Frames, Composing
  <1>3. Numbers'
    BY <1>n DEF IInv, TypeOK, Frames, Composing, Numbers, Numbered, Entry
  <1>4. Locks'
    BY NoneAssumption DEF IInv, TypeOK, Frames, Composing, Locks, Draft, Matches
  <1>5. ServiceLock'
    BY DEF IInv, TypeOK, ServiceLock, committed
  <1>. QED  BY <1>0, <1>1, <1>2, <1>3, <1>4, <1>5, CommittedKept DEF IInv

\* A delete that finds the row takes its free lock.
LEMMA DeleteRowStep ==
  ASSUME IInv, NEW t \in Txs, DeleteRow(t)
  PROVE  IInv'
  <1>. USE DEF DeleteRow, GoTo
  <1>0. UNCHANGED committed
    OBVIOUS
  <1>n. \A j \in Keys, n \in Nat : NumberOK(j, n) => NumberOK(j, n)'
    BY <1>0, CommittedKept
  <1>1. TypeOK'
    BY DEF IInv, TypeOK, committed
  <1>2. Frames'
    BY NoneAssumption DEF IInv, TypeOK, Frames, Composing
  <1>3. Numbers'
    BY <1>n DEF IInv, TypeOK, Frames, Composing, Numbers, Numbered, Entry
  <1>4. Locks'
    BY NoneAssumption DEF IInv, TypeOK, Frames, Composing, Locks, Draft, Matches
  <1>5. ServiceLock'
    BY DEF IInv, TypeOK, ServiceLock, committed
  <1>. QED  BY <1>0, <1>1, <1>2, <1>3, <1>4, <1>5, CommittedKept DEF IInv

\* A delete that finds the row locked waits.
LEMMA DeleteWaitsStep ==
  ASSUME IInv, NEW t \in Txs, DeleteWaits(t)
  PROVE  IInv'
  <1>. USE DEF DeleteWaits, GoTo
  <1>0. UNCHANGED committed
    OBVIOUS
  <1>n. \A j \in Keys, n \in Nat : NumberOK(j, n) => NumberOK(j, n)'
    BY <1>0, CommittedKept
  <1>1. TypeOK'
    BY DEF IInv, TypeOK, committed
  <1>2. Frames'
    BY NoneAssumption DEF IInv, TypeOK, Frames, Composing
  <1>3. Numbers'
    BY <1>n DEF IInv, TypeOK, Frames, Composing, Numbers, Numbered, Entry
  <1>4. Locks'
    BY NoneAssumption DEF IInv, TypeOK, Frames, Composing, Locks, Draft, Matches
  <1>5. ServiceLock'
    BY DEF IInv, TypeOK, ServiceLock, committed
  <1>. QED  BY <1>0, <1>1, <1>2, <1>3, <1>4, <1>5, CommittedKept DEF IInv

\* insertVersion adds the entry to the log and shares the lock of the service.
LEMMA LogStep ==
  ASSUME IInv, NEW t \in Txs, LogVersion(t)
  PROVE  IInv'
  <1>. USE DEF LogVersion, LogDone
  <1>0. UNCHANGED committed
    OBVIOUS
  <1>n. \A j \in Keys, n \in Nat : NumberOK(j, n) => NumberOK(j, n)'
    BY <1>0, CommittedKept
  <1>1. TypeOK'
    BY DEF IInv, TypeOK, Frames, Composing, committed
  <1>2. Frames'
    BY NoneAssumption DEF IInv, TypeOK, Frames, Composing
  <1>3. Numbers'
    BY <1>n DEF IInv, TypeOK, Frames, Composing, Numbers, Numbered, Entry
  <1>4. Locks'
    BY NoneAssumption DEF IInv, TypeOK, Frames, Composing, Locks, Draft, Matches
  <1>5. ServiceLock'
    BY DEF IInv, TypeOK, ServiceLock, committed
  <1>. QED  BY <1>0, <1>1, <1>2, <1>3, <1>4, <1>5, CommittedKept DEF IInv

\* DeleteService locks the service row when nobody shares it.
LEMMA LockServiceStep ==
  ASSUME IInv, NEW t \in Txs, LockService(t)
  PROVE  IInv'
  <1>. USE DEF LockService, pending, locks
  <1>0. UNCHANGED committed
    OBVIOUS
  <1>n. \A j \in Keys, n \in Nat : NumberOK(j, n) => NumberOK(j, n)'
    BY <1>0, CommittedKept
  <1>1. TypeOK'
    BY DEF IInv, TypeOK, committed
  <1>2. Frames'
    BY NoneAssumption DEF IInv, TypeOK, Frames, Composing
  <1>3. Numbers'
    BY <1>n DEF IInv, TypeOK, Frames, Composing, Numbers, Numbered, Entry
  <1>4. Locks'
    BY NoneAssumption DEF IInv, TypeOK, Frames, Composing, Locks, Draft, Matches
  <1>5. ServiceLock'
    BY NoneAssumption DEF IInv, TypeOK, ServiceLock, committed
  <1>. QED  BY <1>0, <1>1, <1>2, <1>3, <1>4, <1>5, CommittedKept DEF IInv

\* The cascade locks one row after the other.
LEMMA CascadeStep ==
  ASSUME IInv, NEW t \in Txs, Cascade(t)
  PROVE  IInv'
  <1>. USE DEF Cascade, pending, locks
  <1>0. UNCHANGED committed
    OBVIOUS
  <1>n. \A j \in Keys, n \in Nat : NumberOK(j, n) => NumberOK(j, n)'
    BY <1>0, CommittedKept
  <1>1. TypeOK'
    BY DEF IInv, TypeOK, committed
  <1>2. Frames'
    BY NoneAssumption DEF IInv, TypeOK, Frames, Composing
  <1>3. Numbers'
    <2>1. UNCHANGED <<pc, key, entry, log>>
      OBVIOUS
    <2>. QED  BY <1>n, <2>1 DEF IInv, TypeOK, Frames, Composing, Numbers, Numbered, Entry
  <1>4. Locks'
    BY NoneAssumption DEF IInv, TypeOK, Frames, Composing, Locks, Draft, Matches
  <1>5. ServiceLock'
    BY DEF IInv, TypeOK, ServiceLock, committed
  <1>. QED  BY <1>0, <1>1, <1>2, <1>3, <1>4, <1>5, CommittedKept DEF IInv

\* A rollback returns the locks and discards what was not committed.
LEMMA RollBackStep ==
  ASSUME IInv, NEW t \in Txs, RollBack(t)
  PROVE  IInv'
  <1>. USE DEF RollBack, EndOfTx
  <1>0. UNCHANGED committed
    OBVIOUS
  <1>n. \A j \in Keys, n \in Nat : NumberOK(j, n) => NumberOK(j, n)'
    BY <1>0, CommittedKept
  <1>1. TypeOK'
    BY DEF IInv, TypeOK, committed, Nothing
  <1>2. Frames'
    BY NoneAssumption DEF IInv, TypeOK, Frames, Composing
  <1>3. Numbers'
    BY <1>n DEF IInv, TypeOK, Frames, Composing, Numbers, Numbered, Entry, Nothing
  <1>4. Locks'
    BY NoneAssumption DEF IInv, TypeOK, Frames, Composing, Locks, Draft, Matches, Nothing
  <1>5. ServiceLock'
    BY DEF IInv, TypeOK, ServiceLock, committed
  <1>. QED  BY <1>0, <1>1, <1>2, <1>3, <1>4, <1>5, CommittedKept DEF IInv

-----------------------------------------------------------------------------
(* Steps that commit.                                                      *)

\* The highest of the numbers 1 to n is n.
LEMMA TopOfInterval ==
  ASSUME NEW S, NEW n \in Nat, S = 1 .. n
  PROVE  (IF S = {} THEN 0 ELSE Max(S)) = n
  <1>1. CASE n = 0
    BY <1>1
  <1>2. CASE n # 0
    <2>1. n \in S /\ \A y \in S : n >= y
      BY <1>2
    <2>2. \A x \in S : (\A y \in S : x >= y) => x = n
      BY <2>1
    <2>3. Max(S) = n
      BY <2>1, <2>2 DEF Max
    <2>. QED  BY <2>1, <2>3
  <1>. QED  BY <1>1, <1>2

\* What a commit does to the history of a key: nothing, or one more entry.
LEMMA CommitHistory ==
  ASSUME IInv, NEW t \in Txs, Commit(t), NEW k \in Keys
  PROVE  /\ versions'[k] \in Seq(Entry)
         /\ \A i \in DOMAIN versions[k] :
              i \in DOMAIN versions'[k] /\ versions'[k][i] = versions[k][i]
         /\ log[t][k] = None => versions'[k] = versions[k]
         /\ log[t][k] # None =>
              /\ log[t][k] \in Entry
              /\ Len(versions[k]) + 1 \in DOMAIN versions'[k]
              /\ versions'[k][Len(versions[k]) + 1] = log[t][k]
              /\ DOMAIN versions'[k] = DOMAIN versions[k] \cup {Len(versions[k]) + 1}
  <1>1. versions[k] \in Seq(Entry) /\ log[t][k] \in Entry \cup {None}
    BY DEF IInv, TypeOK
  <1>2. versions'[k] = IF log[t][k] = None THEN versions[k]
                       ELSE Append(versions[k], log[t][k])
    BY DEF Commit
  <1>. QED  BY <1>1, <1>2

\* A commit leaves the numbers of a key gapless and can only raise the highest.
LEMMA CommitNumbers ==
  ASSUME IInv, NEW t \in Txs, Commit(t), NEW k \in Keys
  PROVE  /\ TopVersion(k)' \in Nat
         /\ TopVersion(k)' >= TopVersion(k)
         /\ VersionNumbers(k)' = 1 .. TopVersion(k)'
  <1>1. service /\ t \in sharers
    BY DEF Commit, IInv, ServiceLock
  <1>2. TopVersion(k) \in Nat /\ VersionNumbers(k) = 1 .. TopVersion(k)
    BY DEF IInv, Gapless
  <1>3. CASE log[t][k] = None
    <2>1. VersionNumbers(k)' = VersionNumbers(k)
      BY <1>3, CommitHistory DEF VersionNumbers
    <2>2. TopVersion(k)' = TopVersion(k)
      BY <2>1 DEF TopVersion
    <2>. QED  BY <1>2, <2>1, <2>2
  <1>4. CASE log[t][k] # None
    <2>1. log[t][k].version \in 1 .. TopVersion(k) + 1
      <3>1. log[t][k].version \in Nat
        BY <1>4, CommitHistory DEF Entry
      <3>. QED  BY <1>1, <1>2, <1>4, <3>1 DEF IInv, Numbers, NumberOK
    <2>2. VersionNumbers(k)' = VersionNumbers(k) \cup {log[t][k].version}
      BY <1>4, CommitHistory DEF VersionNumbers
    <2>3. PICK n \in Nat : n >= TopVersion(k) /\ VersionNumbers(k)' = 1 .. n
      <3>1. CASE log[t][k].version = TopVersion(k) + 1
        <4>1. (1 .. TopVersion(k)) \cup {TopVersion(k) + 1} = 1 .. TopVersion(k) + 1
          BY <1>2
        <4>. QED  BY <1>2, <2>2, <3>1, <4>1
      <3>2. CASE log[t][k].version # TopVersion(k) + 1
        BY <1>2, <2>1, <2>2, <3>2
      <3>. QED  BY <3>1, <3>2
    <2>4. TopVersion(k)' = n
      BY <2>3, TopOfInterval DEF TopVersion
    <2>. QED  BY <2>3, <2>4
  <1>. QED  BY <1>3, <1>4

\* A commit makes the rows and the entries of a call visible together.
LEMMA CommitStep ==
  ASSUME IInv, NEW t \in Txs, Commit(t)
  PROVE  IInv'
  <1>. DEFINE gone == {k \in Keys : variables[k] # None /\ RowAfter(t, k) = None}
  <1>1. /\ pc[t] = "commit"
        /\ service /\ service' = service
        /\ variables' = [k \in Keys |-> RowAfter(t, k)]
        /\ pc' = PcAfterCommit(t, gone)
        /\ EndOfTx(t)
    BY DEF Commit, IInv, ServiceLock
  <1>2. \A u \in Txs : /\ u = t => pc'[u] = "idle"
                       /\ u # t => \/ pc'[u] = pc[u]
                                   \/ pc[u] = "blocked" /\ pc'[u] = "log"
    BY <1>1 DEF PcAfterCommit, Awakened
  <1>3. /\ req' = [req EXCEPT ![t] = None]
        /\ key' = [key EXCEPT ![t] = None]
        /\ entry' = [entry EXCEPT ![t] = None]
        /\ written' = [written EXCEPT ![t] = Nothing]
        /\ log' = [log EXCEPT ![t] = Nothing]
        /\ holder' = [k \in Keys |-> IF holder[k] = t THEN None ELSE holder[k]]
        /\ sharers' = sharers \ {t}
        /\ dropper' = IF dropper = t THEN None ELSE dropper
    BY <1>1 DEF EndOfTx
  <1>4. \A k \in Keys, n \in Nat : NumberOK(k, n) => NumberOK(k, n)'
    BY <1>1, CommitNumbers DEF NumberOK, IInv, Gapless
  <1>5. TypeOK'
    <2>1. service' \in BOOLEAN /\ variables' \in [Keys -> Row \cup {None}]
      BY <1>1 DEF IInv, TypeOK, RowAfter
    <2>2. versions' \in [Keys -> Seq(Entry)]
      BY CommitHistory DEF Commit
    <2>3. pc' \in [Txs -> {"idle", "read", "number", "write", "blocked", "log",
                           "commit", "lockService", "cascade"}]
      BY <1>1, <1>2 DEF IInv, TypeOK, PcAfterCommit
    <2>4. /\ req' \in [Txs -> Requests \cup {None}]
          /\ key' \in [Txs -> Keys \cup {None}]
          /\ entry' \in [Txs -> Entry \cup {None}]
      BY <1>3 DEF IInv, TypeOK
    <2>5. /\ written' \in [Txs -> [Keys -> Row \cup {None}]]
          /\ log' \in [Txs -> [Keys -> Entry \cup {None}]]
      BY <1>3 DEF IInv, TypeOK, Nothing
    <2>6. /\ holder' \in [Keys -> Txs \cup {None}]
          /\ sharers' \subseteq Txs
          /\ dropper' \in Txs \cup {None}
      BY <1>3 DEF IInv, TypeOK
    <2>. QED  BY <2>1, <2>2, <2>3, <2>4, <2>5, <2>6 DEF TypeOK
  <1>6. Frames'
    BY <1>2, <1>3, NoneAssumption DEF IInv, TypeOK, Frames, Composing
  <1>7. Numbers'
    BY <1>2, <1>3, <1>4 DEF IInv, TypeOK, Frames, Composing, Numbers, Numbered, Entry, Nothing
  <1>8. Locks'
    BY <1>2, <1>3, NoneAssumption
       DEF IInv, TypeOK, Frames, Composing, Locks, Draft, Matches, Nothing
  <1>9. ServiceLock'
    BY <1>1, <1>2, <1>3, NoneAssumption DEF IInv, TypeOK, ServiceLock
  <1>10. Gapless'
    BY CommitNumbers DEF Gapless
  <1>11. CurrentInHistory'
    <2>. SUFFICES ASSUME NEW k \in Keys, variables'[k] # None
                  PROVE  \E i \in DOMAIN versions'[k] :
                           /\ versions'[k][i].type # "delete"
                           /\ versions'[k][i].value = variables'[k].value
                           /\ versions'[k][i].version = variables'[k].version
      BY DEF CurrentInHistory
    <2>1. CASE holder[k] = t
      <3>1. variables'[k] = written[t][k]
        BY <1>1, <2>1 DEF RowAfter
      <3>2. log[t][k] # None /\ Matches(log[t][k], written[t][k])
        BY <1>1, <2>1 DEF IInv, Locks, Draft
      <3>. QED  BY <3>1, <3>2, CommitHistory DEF Matches
    <2>2. CASE holder[k] # t
      <3>1. variables'[k] = variables[k]
        BY <1>1, <2>2 DEF RowAfter
      <3>. QED  BY <3>1, CommitHistory DEF IInv, CurrentInHistory
    <2>. QED  BY <2>1, <2>2
  <1>12. AbsentWasDeleted'
    <2>. SUFFICES ASSUME NEW k \in Keys, variables'[k] = None, versions'[k] # << >>
                  PROVE  \E i \in DOMAIN versions'[k] : versions'[k][i].type = "delete"
      BY DEF AbsentWasDeleted
    <2>1. CASE holder[k] = t
      <3>1. written[t][k] = None
        BY <1>1, <2>1 DEF RowAfter
      <3>2. log[t][k] # None /\ log[t][k].type = "delete"
        BY <1>1, <2>1, <3>1 DEF IInv, Locks, Draft, Matches
      <3>. QED  BY <3>2, CommitHistory
    <2>2. CASE holder[k] # t
      <3>1. variables[k] = None
        BY <1>1, <2>2 DEF RowAfter
      <3>2. CASE log[t][k] # None
        <4>1. log[t][k].type = "delete"
          BY <1>1, <2>2, <3>2 DEF IInv, Locks, Draft
        <4>. QED  BY <3>2, <4>1, CommitHistory
      <3>3. CASE log[t][k] = None
        BY <3>1, <3>3, CommitHistory DEF IInv, AbsentWasDeleted
      <3>. QED  BY <3>2, <3>3
    <2>. QED  BY <2>1, <2>2
  <1>13. NoOrphans'
    BY <1>1 DEF NoOrphans
  <1>. QED  BY <1>5, <1>6, <1>7, <1>8, <1>9, <1>10, <1>11, <1>12, <1>13 DEF IInv

\* The commit of DeleteService empties both tables; no writer has a history
\* row under way, since it would share the lock of the service.
LEMMA DropStep ==
  ASSUME IInv, NEW t \in Txs, DropCommit(t)
  PROVE  IInv'
  <1>1. /\ pc[t] = "cascade"
        /\ service' = FALSE
        /\ versions' = [k \in Keys |-> << >>]
        /\ pc' = PcAfterCommit(t, Keys)
        /\ dropper = t /\ sharers = {}
    BY NoneAssumption DEF DropCommit, IInv, TypeOK, ServiceLock
  <1>2. \A u \in Txs : /\ u = t => pc'[u] = "idle"
                       /\ u # t => \/ pc'[u] = pc[u]
                                   \/ pc[u] = "blocked" /\ pc'[u] = "log"
    BY <1>1 DEF PcAfterCommit, Awakened
  <1>3. /\ req' = [req EXCEPT ![t] = None]
        /\ key' = [key EXCEPT ![t] = None]
        /\ entry' = [entry EXCEPT ![t] = None]
        /\ written' = [written EXCEPT ![t] = Nothing]
        /\ log' = [log EXCEPT ![t] = Nothing]
        /\ holder' = [k \in Keys |-> IF holder[k] = t THEN None ELSE holder[k]]
        /\ sharers' = {}
        /\ dropper' = None
    BY <1>1 DEF DropCommit, EndOfTx
  <1>4. variables' = Nothing
    <2>1. written[t] = Nothing
      BY <1>1 DEF IInv, Frames
    <2>2. \A k \in Keys : RowAfter(t, k) = None
      BY <2>1 DEF DropCommit, RowAfter, Nothing
    <2>. QED  BY <2>2 DEF DropCommit, Nothing
  <1>5. TypeOK'
    <2>1. /\ service' \in BOOLEAN
          /\ variables' \in [Keys -> Row \cup {None}]
          /\ versions' \in [Keys -> Seq(Entry)]
      <3>1. << >> \in Seq(Entry)
        OBVIOUS
      <3>2. versions' \in [Keys -> Seq(Entry)]
        BY <1>1, <3>1
      <3>3. service' \in BOOLEAN /\ variables' \in [Keys -> Row \cup {None}]
        BY <1>1, <1>4 DEF Nothing
      <3>. QED  BY <3>2, <3>3
    <2>2. pc' \in [Txs -> {"idle", "read", "number", "write", "blocked", "log",
                           "commit", "lockService", "cascade"}]
      BY <1>1, <1>2 DEF IInv, TypeOK, PcAfterCommit
    <2>3. /\ req' \in [Txs -> Requests \cup {None}]
          /\ key' \in [Txs -> Keys \cup {None}]
          /\ entry' \in [Txs -> Entry \cup {None}]
          /\ written' \in [Txs -> [Keys -> Row \cup {None}]]
          /\ log' \in [Txs -> [Keys -> Entry \cup {None}]]
          /\ holder' \in [Keys -> Txs \cup {None}]
          /\ sharers' \subseteq Txs
          /\ dropper' \in Txs \cup {None}
      BY <1>3 DEF IInv, TypeOK, Nothing
    <2>. QED  BY <2>1, <2>2, <2>3 DEF TypeOK
  <1>6. Frames'
    BY <1>2, <1>3, NoneAssumption DEF IInv, TypeOK, Frames, Composing
  <1>7. Numbers'
    <2>1. \A k \in Keys, n \in Nat : NumberOK(k, n) => NumberOK(k, n)'
      BY <1>1 DEF NumberOK
    <2>. QED  BY <1>2, <1>3, <2>1
              DEF IInv, TypeOK, Frames, Composing, Numbers, Numbered, Entry, Nothing
  <1>8. Locks'
    BY <1>2, <1>3, NoneAssumption
       DEF IInv, TypeOK, Frames, Composing, Locks, Draft, Matches, Nothing
  <1>9. ServiceLock'
    BY <1>1, <1>2, <1>3, NoneAssumption DEF IInv, TypeOK, ServiceLock
  <1>10. Gapless'
    BY <1>1 DEF Gapless, TopVersion, VersionNumbers
  <1>11. CurrentInHistory' /\ AbsentWasDeleted' /\ NoOrphans'
    BY <1>1, <1>4 DEF CurrentInHistory, AbsentWasDeleted, NoOrphans, Nothing
  <1>. QED  BY <1>5, <1>6, <1>7, <1>8, <1>9, <1>10, <1>11 DEF IInv

-----------------------------------------------------------------------------
(* The theorems.                                                           *)

\* Every step of Next keeps the inductive invariant.
LEMMA NextIInv == IInv /\ [Next]_vars => IInv'
  <1>. SUFFICES ASSUME IInv, [Next]_vars PROVE IInv'
    OBVIOUS
  <1>1. CASE UNCHANGED vars
    <2>1. UNCHANGED committed
      BY <1>1 DEF vars, committed
    <2>2. TypeOK' /\ ServiceLock'
      BY <1>1 DEF vars, IInv, TypeOK, ServiceLock
    <2>3. Frames' /\ Locks'
      BY <1>1 DEF vars, IInv, Frames, Composing, Locks, Draft, Matches
    <2>4. Numbers'
      <3>1. \A k \in Keys, n \in Nat : NumberOK(k, n) => NumberOK(k, n)'
        BY <2>1, CommittedKept
      <3>. QED  BY <1>1, <3>1
                DEF vars, IInv, TypeOK, Frames, Composing, Numbers, Numbered, Entry
    <2>. QED  BY <2>1, <2>2, <2>3, <2>4, CommittedKept DEF IInv
  <1>2. ASSUME NEW t \in Txs, NEW r \in Requests, Begin(t, r) PROVE IInv'
    BY <1>2, BeginStep
  <1>3. ASSUME NEW t \in Txs, Proceed(t) PROVE IInv'
    <2>1. CASE ReadForPut(t)
      <3>1. PICK k \in Todo(t) : ReadDone(t, k, req[t].kv[k],
              IF variables[k] = None THEN "create" ELSE "update")
        BY <2>1 DEF ReadForPut
      <3>2. req[t].kv[k] \in Values
        <4>1. req[t] \in Requests /\ req[t].op = "put"
          BY <2>1 DEF ReadForPut, IInv, TypeOK, Frames
        <4>2. k \in req[t].keys
          BY <3>1 DEF Todo
        <4>. QED  BY <4>1, <4>2, RequestFields
      <3>. QED  BY <2>1, <3>1, <3>2, ReadStep DEF ReadForPut, ChangeTypes
    <2>2. CASE ReadForDelete(t)
      <3>1. PICK k \in Todo(t) :
              variables[k] # None /\ ReadDone(t, k, variables[k].value, "delete")
        BY <2>2 DEF ReadForDelete
      <3>2. variables[k].value \in Values
        BY <2>2, <3>1, RequestFields DEF ReadForDelete, Todo, IInv, TypeOK, Frames, Row
      <3>. QED  BY <2>2, <3>1, <3>2, ReadStep DEF ReadForDelete, ChangeTypes
    <2>3. CASE ReadForRollback(t)
      <3>0. PICK k \in Todo(t) : \E e \in Targets(k, req[t].target) :
              ReadDone(t, k, e.value, "rollback")
        BY <2>3 DEF ReadForRollback
      <3>1. PICK e \in Targets(k, req[t].target) : ReadDone(t, k, e.value, "rollback")
        BY <3>0
      <3>2. k \in Keys
        BY <2>3, RequestFields DEF ReadForRollback, Todo, IInv, TypeOK, Frames
      <3>3. e \in Entry
        BY <3>2 DEF Targets, IInv, TypeOK
      <3>4. e.value \in Values
        BY <3>3 DEF Entry
      <3>. QED  BY <2>3, <3>1, <3>4, ReadStep DEF ReadForRollback, ChangeTypes
    <2>4. CASE ReadRefused(t) \/ LogRefused(t) \/ ServiceNotFound(t)
      BY <2>4, RollBackStep DEF ReadRefused, LogRefused, ServiceNotFound
    <2>5. CASE Number(t) \/ UpsertRow(t) \/ DeleteNothing(t) \/ DeleteRow(t) \/ DeleteWaits(t)
      BY <2>5, NumberStep, UpsertStep, DeleteNothingStep, DeleteRowStep, DeleteWaitsStep
    <2>6. CASE LogVersion(t) \/ Commit(t)
      BY <2>6, LogStep, CommitStep
    <2>7. CASE LockService(t) \/ Cascade(t) \/ DropCommit(t)
      BY <2>7, LockServiceStep, CascadeStep, DropStep
    <2>. QED  BY <1>3, <2>1, <2>2, <2>3, <2>4, <2>5, <2>6, <2>7 DEF Proceed
  <1>4. ASSUME NEW t \in Txs, Abort(t) \/ DeadlockVictim(t) PROVE IInv'
    BY <1>4, RollBackStep DEF Abort, DeadlockVictim
  <1>. QED  BY <1>1, <1>2, <1>3, <1>4 DEF Next

\* Every reachable state satisfies the inductive invariant: this is the
\* argument behind the theorems below, about any number of concurrent calls
\* of internal/store/variables.go and DeleteService.
THEOREM Invariance == Spec => []IInv
  BY InitIInv, NextIInv, PTL DEF Spec

\* The tables, the locks and the locals of every call keep their types.
THEOREM TypeCorrect == Spec => []TypeOK
  <1>1. IInv => TypeOK
    BY DEF IInv
  <1>. QED  BY <1>1, Invariance, PTL

\* Whatever calls run concurrently, a current row is recorded in the history
\* of its key with its value and version, by an entry that is not a delete.
THEOREM RowsRecorded == Spec => []CurrentInHistory
  <1>1. IInv => CurrentInHistory
    BY DEF IInv
  <1>. QED  BY <1>1, Invariance, PTL

\* nextVersion leaves no gap in the numbers of a key, although the maximum it
\* reads may be out of date when the entry commits.
THEOREM NoGaps == Spec => []VersionsGapless
  <1>1. IInv => VersionsGapless
    BY DEF IInv, Gapless, VersionsGapless
  <1>. QED  BY <1>1, Invariance, PTL

\* A key with a history and without a row has a delete on record.
THEOREM DeletesRecorded == Spec => []AbsentWasDeleted
  <1>1. IInv => AbsentWasDeleted
    BY DEF IInv
  <1>. QED  BY <1>1, Invariance, PTL

\* DeleteService leaves no row and no history entry, and none appears later.
THEOREM DropLeavesNothing == Spec => []NoOrphans
  <1>1. IInv => NoOrphans
    BY DEF IInv
  <1>. QED  BY <1>1, Invariance, PTL

\* The first Len(s) elements of s, and of s with an element appended, are s.
LEMMA PrefixKept ==
  ASSUME NEW S, NEW s \in Seq(S), NEW e \in S
  PROVE  /\ Len(s) >= Len(s) /\ SubSeq(s, 1, Len(s)) = s
         /\ Len(Append(s, e)) >= Len(s)
         /\ SubSeq(Append(s, e), 1, Len(s)) = s
  OBVIOUS

\* No step of any call removes, reorders or rewrites a history entry, except
\* the commit of DeleteService.
THEOREM HistoryAppendOnly == Spec => HistoryKept
  <1>. DEFINE Kept == service' => \A k \in Keys :
                        /\ Len(versions'[k]) >= Len(versions[k])
                        /\ SubSeq(versions'[k], 1, Len(versions[k])) = versions[k]
  <1>1. IInv /\ [Next]_vars => Kept
    <2>. SUFFICES ASSUME IInv, [Next]_vars, service', NEW k \in Keys
                  PROVE  /\ Len(versions'[k]) >= Len(versions[k])
                         /\ SubSeq(versions'[k], 1, Len(versions[k])) = versions[k]
      OBVIOUS
    <2>1. versions[k] \in Seq(Entry)
      BY DEF IInv, TypeOK
    <2>2. CASE UNCHANGED versions
      BY <2>1, <2>2, PrefixKept
    <2>3. CASE \E t \in Txs : Commit(t)
      <3>1. PICK t \in Txs : Commit(t)
        BY <2>3
      <3>2. log[t][k] \in Entry \cup {None}
        BY DEF IInv, TypeOK
      <3>3. CASE log[t][k] = None
        BY <2>1, <3>1, <3>3, PrefixKept DEF Commit
      <3>4. CASE log[t][k] # None
        <4>1. versions'[k] = Append(versions[k], log[t][k])
          BY <3>1, <3>4 DEF Commit
        <4>. QED  BY <2>1, <3>2, <3>4, <4>1, PrefixKept
      <3>. QED  BY <3>3, <3>4
    <2>4. CASE \E t \in Txs : DropCommit(t)
      BY <2>4 DEF DropCommit
    <2>. QED
      BY <2>2, <2>3, <2>4, ZenonT(60)
         DEF Next, Proceed, Begin, ReadForPut, ReadForDelete, ReadForRollback,
             ReadDone, ReadRefused, Number, UpsertRow, DeleteNothing, DeleteRow,
             DeleteWaits, GoTo, LogVersion, LogDone, LogRefused, LockService,
             ServiceNotFound, Cascade, Abort, DeadlockVictim, RollBack, vars, committed
  <1>2. IInv /\ [Next]_vars => [Kept]_vars
    BY <1>1
  <1>. QED  BY <1>2, Invariance, PTL DEF Spec, HistoryKept

=============================================================================
