# dynoconf in TLA+

dynoconf keeps configuration variables of services in Postgres, versions every
change, and pushes changes to applications over gRPC. This directory holds a
formal model of its core: TLA+ modules translated from the Go sources, TLC
configurations that model-check them on small instances, and proofs checked by
TLAPS for instances of any size.

Run, in this directory:

    tlc -workers 2 -config VersionStore_races.cfg MCVersionStore.tla
    for m in *Proofs.tla VersionStoreRefinement.tla; do tlapm $m; done

where the loop stands for the eight proof modules of section 4. A configuration
`X_name.cfg` belongs to the module `MCX`, but for `VersionStore_increments.cfg` and
`VersionStore_deletes.cfg`, which belong to `VersionStore` itself.

## 1. The system

| Component | Source | State | Operations | Talks to |
|---|---|---|---|---|
| Versioned store | `internal/store/variables.go`, `services.go`, `migrations/0001` | tables `services`, `variables` (current rows), `variable_versions` (history) | `UpsertVariable`, `BulkUpsertVariables`, `DeleteVariable`, `RollbackVariable`, `DeleteService`, `CreateService`, `UpdateServiceTags` | Postgres transactions, from every replica |
| Variable handlers | `internal/httpserver/handlers_variables.go`, `handlers_features.go`, `handlers_history.go` | none beyond the request | put, delete, bulk, rollback: authorise, change, publish, audit | store, broker, audit log |
| Service handlers | `handlers_services.go` | none | create, delete, list, connection info | store, audit log |
| Event broker | `internal/events/broker.go` | subscriber set, one channel of 64 events per subscriber, one LISTEN connection | `Publish`, `Subscribe`, `dispatch`, `Run` | Postgres NOTIFY, streams, UI |
| gRPC config stream | `internal/grpcserver/server.go` | one goroutine per stream | `Subscribe`: lookup, subscribe, register, snapshot, feed | store, broker, tracker, client |
| Connection tracker | `internal/grpcserver/conntracker.go`, `internal/store/connections.go` | table `connection_clients` | `Register`, `Unregister`, touch (5 s), purge (1 min), clear on shutdown | store, broker |
| Clients | `examples/go-client`, `examples/java-client` | overrides over the environment's defaults | `Run`, `stream`, callbacks | gRPC stream |
| Sidecar agent | `cmd/agent` | a rendered file | render, hook | Go client |
| Access control | `internal/auth`, `httpserver/authz.go`, `handlers_admin.go`, `store/users.go`, `permissions.go`, `tokens.go` | users and roles, permissions, API tokens, session cookies | login, `authorizeService`, set role, grant, revoke, tokens | store, audit log |
| Telegram | `internal/tgbot/bot.go`, `handlers_telegram.go`, `store/settings.go` | settings row; per replica the current settings and a bot loop with its offset | `Configure`, poll, `/set`, notifications | Telegram API, store, broker, audit log |
| Import and export | `handlers_export.go` | none | one document: services created, variables upserted one by one | store, broker, audit log |
| Audit log | `internal/audit`, `store/audit.go` | table `audit_log` | `Record`, hourly prune | store, notifier |
| Server lifecycle | `cmd/server/main.go` | process | start, graceful shutdown | all of them |
| UI, CLI, config, migrations, Helm | `web/`, `cmd/cli`, `internal/config`, `internal/migrate`, `deploy/` | none worth a model | | |

What is hard in it, and what should hold:

* **Store.** Calls run concurrently on all replicas at READ COMMITTED. They read
  (does the row exist, its value, the highest version) before they lock, and
  wait for locks in between. They fail at any statement. Correct means: the
  calls are atomic; the current row is on record; version numbers have no gaps;
  history is append-only; a deleted service leaves nothing; nobody waits for
  ever. What the README says beyond that (every change increments the version,
  numbers are monotonic, a delete records what was removed) holds as long as no
  two calls work on one key at the same time, and fails otherwise, see section 5.
* **Distribution of changes.** A change is committed, then announced; NOTIFY, the
  broker, a bounded channel, a stream and a client follow. Snapshot and feed
  overlap. Events are lost when a publish fails, when a LISTEN connection is
  down, when a channel is full, when a stream breaks. Correct means: nothing
  falls between snapshot and feed; changes arrive in order; a client whose
  stream lost nothing ends with the committed rows.
* **Connection tracker.** Rows of live streams are touched, purged by any replica
  and cleared at shutdown: a row for every live stream and none for dead ones,
  eventually.
* **Access control.** Who asks, what he may do and the act are separate statements
  on tables that others change; the role in a cookie is as old as the login.
  Correct means: an act was permitted since the request began; who is permitted
  is not refused; nothing refers to what was deleted; the record has each deed
  once.
* **Telegram.** Commands come at least once, through loops that are cancelled and
  replaced without waiting; settings are applied on one replica only. Correct
  means: no update is forgotten unanswered; one loop goes on; only listed people
  command; after a save the replica works with the saved row.
* **Import, audit.** An import is a sequence of commits that can stop half-way and
  is tried again; entries of the audit log commit out of order and are pruned by
  all replicas at once. Correct means: an import that comes to its end skipped
  nothing, a failed one is no obstacle to the next, and the newest entries stay.
* **Sidecar agent.** The client calls it back for every message; it writes a file,
  renames it and runs a hook, and the stream is not read meanwhile. It is killed
  at any step. Correct means: the application never reads a torn file, and it
  comes to read the committed variables.

`PROJECT.json` lists each of these hazards at its line.

## 2. The modules

| Module | Models | Extends / instantiates |
|---|---|---|
| `VersionStore` | the calls of the versioned store, statement by statement | instantiates `AtomicStore` and `NumberedStore` |
| `VersionStoreOverlap` | the same, with a record of the calls that have met another one on a key | `VersionStore` |
| `AtomicStore` | what the store promises: each call is one step | |
| `NumberedStore` | what those who read versions rely on: the numbers of a key count its changes | |
| `ConfigStream` | commit, publish, broker, stream, client | |
| `ConnTracking` | rows of open streams and the life of a server process | |
| `TelegramManager` | saved settings, managers, bot loops, updates | |
| `AccessControl` | logins, roles, permissions, tokens, requests, what they carry out | |
| `AuditLog` | entries of the audit log and the pruners | |
| `ImportDocument` | an import with its failures and retries, beside other edits | `AuditLog` |
| `SidecarAgent` | the Go client's connection and backoff, rendering, hook | |
| `MCVersionStore`, `MCConfigStream`, `MCConnTracking`, `MCTelegramManager`, `MCAccessControl`, `MCImportDocument`, `MCSidecarAgent` | small instances for TLC | the module each is named after; `MCVersionStore` extends `VersionStoreOverlap` |
| `VersionStoreProofs`, `ConnTrackingProofs`, `ConfigStreamProofs`, `TelegramManagerProofs`, `AccessControlProofs`, `ImportDocumentProofs`, `SidecarAgentProofs` | invariants and theorems | the module each is named after, `TLAPS` |
| `VersionStoreRefinement` | that `VersionStore` implements `AtomicStore`, and `NumberedStore` under a condition; calls that meet no other; deadlocks | `VersionStoreProofs`, `VersionStoreOverlap` |

How they fit together: `VersionStore` shows that a change is one atomic step, and
`ConfigStream` takes that step as the start of a change's way to the clients.
The commits of `ConfigStream` are written as the changes of `NumberedStore`; that
the calls of `VersionStore` amount to such changes is proved of all of them when no
two work on one key at the same time (`ApartNumbered`), and of any single call that
meets no other on its keys (`LoneCallsCount`). No theorem composes the two modules,
and calls that overlap can do what `ConfigStream` has no commit for: repeat a number
(section 5).
What `ConfigStream` shows of one client is the server's side in `SidecarAgent`.
`ConnTracking` counts the streams of `ConfigStream`. The upserts of
`ImportDocument` and of the bot's `/set` are commits of a handler of
`ConfigStream`, and what `AccessControl` permits is what begins all of them.

### VersionStore

One service. `variables` and `versions` are its committed rows and history;
`service` says whether the row in `services` exists. A session `t \in Txs` runs
one Go call at a time: `req[t]` is the call, `pc[t]` the statement it issues
next, `key[t]` and `entry[t]` its locals in the iteration for one key. `written`
and `log` are what the transaction has written and not committed; `holder`,
`sharers` and `dropper` are row locks, FOR KEY SHARE locks on the service (taken
by the foreign key of a history row) and the exclusive lock of `DeleteService`.

| Action | Statement |
|---|---|
| `Begin` | the call and `BEGIN` |
| `ReadForPut`, `ReadForDelete`, `ReadForRollback`, `ReadRefused` | the first `SELECT` of an iteration, and the early returns after it |
| `Number` | `nextVersion` |
| `UpsertRow` | `INSERT ... ON CONFLICT DO UPDATE`, waits for the row lock |
| `DeleteNothing`, `DeleteRow`, `DeleteWaits` | `DELETE FROM variables` on an absent, a free, a locked row |
| `LogVersion`, `LogRefused` | `insertVersion` with its foreign key check, then the next key or `COMMIT` |
| `Commit` | `COMMIT`; whoever waited to delete a row that is gone goes on without it |
| `LockService`, `ServiceNotFound`, `Cascade`, `DropCommit` | `DeleteService` and its cascade |
| `Abort`, `DeadlockVictim` | an error at any statement, the deadlock detector; `defer tx.Rollback` |

Abstractions. `UpsertVariable` is `BulkUpsertVariables` of a one-key map. Authors
and times are left out. The history of a key is kept in commit order; the code
reads it only by version number. A new row's own foreign key check is that of its
history row one statement later. The cascade locks rows one by one and removes
history at its commit. Deadlock is a set of sessions each of which waits for and
is waited for by another of the set. Ids of services are never reused, so a
deleted service stays deleted.

### ConfigStream

One service again. A change is one atomic commit, which is what the refinement of
`AtomicStore` establishes, and is named by its version: the "value" of a row is
the version that set it and 0 is "no row" (for a client: the default). Numbers
are unique here although section 5 shows that the store can repeat one: the
module is about the way of changes, not about their numbering.

`outbox[h]` holds what a handler has committed and not yet published;
`notified[r]` the notifications on the LISTEN connection of a replica,
`buffer[c]` the channel of a stream, `wire[c]` what the stream has in flight,
`view[c]` the overrides of the client. `phase[c]` is where `Subscribe` is:
subscribed, snapshot read, in its loop.

| Action | Code |
|---|---|
| `CommitUpsert`, `CommitDelete`, `CommitDropService` | handlers, import loop and `/set` up to the commit |
| `Publish`, `PublishFails` | `publishVar`, `Broker.Publish` |
| `Listen`, `ListenFails`, `Dispatch` | `Broker.Run`, `listenLoop`, `dispatch` |
| `Connect`, `ReadSnapshot`, `SendSnapshot`, `SendChange` | `Server.Subscribe`, `sendSnapshot`, its loop |
| `Receive` | `Client.stream` |
| `Disconnect`, `Restart` | a broken stream, a replica that restarts |

`missed[c]` is auxiliary: the keys of which the client's stream may have lost a
change on a way the code knows and accepts. A snapshot clears it, except for a
key of which an older event is still queued: that event arrives after the
snapshot and undoes it. (This was found by TLC: first the model cleared
everything, and `NoGap` failed.)

### ConnTracking

A stream of one service is a row of `connection_clients` from `Register` to
`Unregister`; `age[c]` is the time since `updated_at` in heartbeat intervals, or
`None`. `stage[c]` is where `Subscribe` is with respect to the tracker, `owner[c]`
the replica that serves it. `status[r]`, `accepting[r]` and `cleared[r]` are the
process: what `run` of `cmd/server` has come to, whether gRPC takes new streams,
whether `ConnTracker.Run` has returned.

| Action | Code |
|---|---|
| `Open`, `Register`, `Close`, `Unregister` and their failures | `Server.Subscribe`, `ConnTracker.Register`, `Unregister` |
| `Heartbeat`, `HeartbeatFails`, `Purge`, `Clear` | the cases of `ConnTracker.Run` |
| `Start`, `Terminate`, `GracefulStop`, `ForceStop`, `Exit`, `Crash` | `run` |
| `Tick` | a heartbeat interval passes |

Abstractions. A heartbeat is due in every tick and may come at any moment of it;
the purge, which is due every minute, may come at any moment. The clock of all
replicas is that of Postgres, as in the code. Ages beyond the TTL are not told
apart. Replica and connection ids are random, so a process that is started again
is another replica and none is used twice. A failed insert or delete may or may
not have taken effect; a failed purge changes nothing. Deleting a service removes
its rows by cascade and is left out, as are the `KindConns` events. The code
makes sure by its timeouts (5 s against 20 s) that `Clear` is over when
`ForceStop` comes; nothing makes sure that it is over at `Exit`. `skipped` and
`late` are auxiliary: which replica failed so many heartbeats in a row that the
TTL ran out for its rows.

### TelegramManager

`settings` is the row of `app_settings`, `cur[r]` what the Manager of a replica
was configured with, `request[q]` a save between its read of the row and its
`Configure`. `draining` are the replicas that have got a signal: the root context,
and with it the context of every loop, old or new, is cancelled, while requests
are served until the streams have drained. `loop[l]` is a goroutine of `runBot`
with its own token, list of admins, offset and the updates it has fetched.
`sent[b]` and `confirmed[b]` are Telegram's side, modelled from how the code uses
it: an update is kept until a poll with a higher offset.

| Action | Code |
|---|---|
| `ReadSettings`, `WriteSettings`, `SaveFails`, `Apply` | `handleSetTelegram` |
| `Start`, `Shutdown`, `Stop` | `run` |
| `Poll`, `PollNothing`, `Handle`, `Return` | `runBot`, `getUpdates`, `handle` |
| `Send` | a user writes to the bot |

Abstractions. A request is checked for an administrator before it starts. What a
command does is left open: it is carried out or fails, and in a cancelled loop it
fails, as its context is that of the loop. `Start` loads and configures in one
step, because requests come later. The chat id and the notifications are left
out. `listed`, `answered`, `executed`, `saver` and `done` (in a loop) are auxiliary.

### AccessControl

`email`, `role`, `token`, `service`, `perm` and `star` are tables; a subject of the
OIDC provider is a user, and has a row when it has a role. `session[u]` is the role
in a cookie. `req[p]` is a request: who asks for what, how far it is, the role it
has read, the user or service it has found. `log` has the audit entries about the
creation and deletion of services.

| Action | Code |
|---|---|
| `Login`, `Logout` | `finishLogin` with `UpsertUserOnLogin`, `LogoutHandler` |
| `Begin`, `Load` | `Middleware`: the cookie with `GetUser`, or `UserByAPIToken` |
| `Authorize` | `requireAdmin`, `authorizeService`, `effectiveLevel`, `decideServiceAccess` |
| `SetUserRole`, `FindUser`, `SetPermission`, `RevokePermission` | the handlers of `handlers_admin.go` and their statements |
| `CreateService`, `FindService`, `DeleteService`, `Record` | `handleCreateService`, `handleDeleteService`, `Logger.Record` |
| `AddFavorite`, `RemoveFavorite`, `CreateAPIToken`, `DeleteAPIToken` | handlers for one's own favorites and tokens |
| `End` | any early return, error, cancelled request, crash |

Abstractions. A cookie that runs out is a logout. A login whose e-mail another
subject has fails, as `email` is unique and the conflict clause is about the
subject. `EffectiveLevel` reads the role that `Load` has read and the permission of
the moment, as the code does. The edit of a variable is an act without effect
here: what follows is `VersionStore`. Ids of services and tokens are not used
again. `held` and `steady` are auxiliary: whether the request's user was entitled
to it at some time, and all the time with one role, since it began.

### AuditLog and ImportDocument

An audit entry is its id. `Draw` takes one when the insert begins, `Insert` and
`InsertFails` end it, so entries commit in any order. A pruner selects with the
snapshot of its statement and deletes later (`PruneSelects`, `PruneDeletes`,
`PruneFails`).

`imp[p]` is an import: its position in the document, the service it found or
created, the variables still to do.

| Action | Code |
|---|---|
| `Start`, `LookUp`, `Create`, `Upsert`, `Advance` | the loops of `handleImport` with `GetServiceByKey`, `CreateService`, `UpsertVariable` |
| `Refused`, `CutOff` | the returns on an error: the key was taken, the service is gone; any other failure |
| `Record`, `Answer` | the audit entry, the answer |
| `CreateService`, `DeleteService`, `EditVariable` | others |

Abstractions. Every variable of the document has a new value, "imported". Keys that
the import skips as invalid, and services without a key, are not in `Content` and
`Document`. `DeleteService` leaves a fresh id for each key, so the bound on ids
never stops an import. `touched` is auxiliary: what others changed since an import
began.

### SidecarAgent

The value of a key is the number of its changes. `phase`, `backoff` and `timer` are
`Client.Run`, `view` what the client holds, `work` what the callback is at; `tmp`
and `file` are the two files.

| Action | Code |
|---|---|
| `Change` | the server: a committed change finds room on its way to the client, or is dropped |
| `Start`, `Connect`, `Break`, `BackOff`, `Tick` | `New`, `Client.Run`, `stream` |
| `Receive` | `stream`, which calls `OnSnapshot` or `OnChange` |
| `Write`, `Rename`, `RenderFails`, `HookEnds` | `render`, `writeFile`, `runHook` |
| `Kill` | the end of the agent at any step |

Abstractions. `stream` ends with an error always, so the line of `Run` that resets
the backoff is never reached and the model has no action for it. What arrived
before a break is still read. The channel, the stream and the client's socket are
one queue. `lost` and `stale` are auxiliary: a change was dropped since the last
snapshot, the last rendering failed. Formats and quoting are left out.

## 3. Runs

| Run | Instance | Shows |
|---|---|---|
| `store_races` | 1 key, 2 values, 3 sessions, versions to 3 | `TypeOK`, `CurrentInHistory`, `VersionsGapless`, `AbsentWasDeleted`, `HistoryKept`, `LoneCounts`: a call that meets no other on its key takes the next number, and a delete records what it removes |
| `store_calls` | 2 keys, 1 value, 2 sessions, versions to 3 | `NoOrphans`, `BulkWhole`, `WritersEnd`, and `RefinesAtomicStore`: `VersionStore` implements `AtomicStore`; `LoneCounts` of bulk upserts |
| `store_increments` | 1 key, 2 values, 2 sessions | violates `EveryChangeIncrements` |
| `store_deletes` | 1 key, 2 values, 2 sessions | violates `DeleteShowsRemoved` |
| `stream_feed` | 2 keys, 2 handlers that do not overlap on a key (`ApartSpec`), 2 replicas, 1 client, channel and window of 1, 2 changes, 1 cut, 1 loss | `TypeOK`, `NoGap`, `FeedOrdered`, `Converges` |
| `stream_inverted` | 1 key, 2 writers, no loss, no cut | violates `Converges` |
| `conn_count` | 2 replicas, 2 streams, TTL of 3 heartbeats, 1 failure | `TypeOK`, `LiveCounted`, `NoGhostWhileUp`, `GhostsVanish`, `GhostsPurged` |
| `telegram_bot` | 1 replica, 1 save at a time, 2 loops, 2 updates of 2 users, 1 failure | `TypeOK`, `OneLoop`, `ConfirmedAnswered`, `InOrder`, `ListedOnly`, `SavedIsApplied`, `Answered` |
| `telegram_off` | 2 replicas, 1 save at a time, no failure | violates `OffIsOff` |
| `access_requests` | 2 users, 2 e-mails, 1 service, 1 key, 1 token, 2 requests | `TypeOK`, `Covered`, `NotRefused`, `GrantsOfLiving`, `RecordedOnce` |
| `import_retry` | 1 import of 2 services, 1 variable each, 3 ids, 2 pruners that keep 1 entry, 2 other entries, 1 failure | `TypeOK`, `KeepsNewest`, `AppliedWhole`, `Trimmed`, `RetrySucceeds` |
| `agent_file` | 2 keys, room for 2 messages, backoff to 4 s, 3 changes, 3 faults | `TypeOK`, `FileServed`, `Rendered` |

Bounds. A race in the store needs two calls on one key and, for the waiting
delete and the stale upsert, a third that commits in between: three sessions on
one key, and two keys for bulk edits, lock cycles and the cascade. `MaxVersion`
is enforced by `Room` when a call begins, never inside a call, so a bound cuts
whole calls and no step of one. With at most three versions every kind of change follows every other
one. A channel of one event fills as a channel of 64 does. Two changes are enough
for one in the snapshot and one behind it, or one that arrives and one lost; three
with two handlers take several minutes and found nothing more, and the proofs of
section 4 have no such bound. `MaxDisconnects`
and `MaxLosses` bound faults, which makes "eventually" meaningful: liveness is
about what follows the last fault. Rows interact through the purges of other
replicas: two replicas and two streams. A TTL of three heartbeats, six in the
code, leaves room for a heartbeat that comes late or fails and for one too many.
Two loops are a cancelled one that still has updates and its successor; a third
can only be another cancelled one. Two updates give an order and a batch that is
handled in part. A check that is out of date needs a request and another one that
changes its ground: two requests, of an administrator and of a user who may become
one and who may come with the administrator's address. An import that fails in its
second service has left the first behind; with two ids besides, services of the
document are deleted under it and created by others. Keeping one entry, two pruners
overlap as soon as there are two entries, and the third can commit below both.
Three faults of the agent are a kill during a write, one after the restart, and a
failure on the way; two messages on the way are a change behind a snapshot or
another change, and a third is dropped. A backoff of four seconds is reached in
two steps and then capped.

Deadlock checking is on for the store, whose calls can always go on, for the rows,
where time always passes, for the bot, whose settings can always be saved, and for
access control. It is off for the stream, the import and the agent: nobody has to
write, and after the bounds are used up and the import is done the system rests.

Fairness. In the store, a call whose statement can run infinitely often runs
(`SF(Proceed)`: Postgres queues the waiters of a lock) and the deadlock detector
of a waiting session fires (`WF(DeadlockVictim)`). Nobody has to start or abort a
call. In the stream, the goroutines that loop in the code are weakly fair:
publishing after a commit, reconnecting to LISTEN, dispatching, forwarding,
reconnecting and receiving. Writers, failures and cuts are not. For the rows, time
passes, and the tickers of a running tracker fire; no stream has to open, close
or register, and no process has to stop or start. For the bot, its
goroutines run, and Telegram answers a loop that goes on polling; with two
replicas two loops would poll for one bot and could disturb each other for ever,
so `Answered` is checked with one. An
import runs to its end, unless it fails, and a failed one is tried again: the
first is the HTTP server's doing, the second an assumption about the
administrator, which is what `RetrySucceeds` asks. Audit inserts end, and every
replica prunes again and again, as the hourly ticker does. The agent is started
again by what supervises it, the client connects, reads and calls back, time
passes; that the hook ends is an assumption about its author, as `runHook` has no
time-out. Access control has no liveness property and no fairness.

Each property has a mutant in `PROJECT.json`: a faulty variant of a definition,
defined next to it in the module, under which TLC finds the property violated.

## 4. Proofs

`VersionStoreProofs` proves, for any sets of keys, values and sessions and any
bound, from the assumptions that `None` is not a session, key, row, entry or
request and that `MaxVersion` is positive:

| Theorem | States |
|---|---|
| `Invariance` | `Spec => []IInv` |
| `TypeCorrect` | `Spec => []TypeOK` |
| `RowsRecorded` | `Spec => []CurrentInHistory` |
| `NoGaps` | `Spec => []VersionsGapless` |
| `DeletesRecorded` | `Spec => []AbsentWasDeleted` |
| `DropLeavesNothing` | `Spec => []NoOrphans` |
| `HistoryAppendOnly` | `Spec => HistoryKept` |

The properties speak of committed state only, and a step that commits makes
visible what earlier steps wrote. So the inductive invariant `IInv` adds what
holds of a call under way:

* `Frames`: the locals of a call fit the statement it has reached;
* `Numbers`: a number in use is between 1 and one above the highest of its key.
  The highest never falls while the service exists, so a number that was fresh
  when it was read may be repeated at the commit but never leaves a gap;
* `Locks`: the holder of a row has recorded, or is about to record, what it wrote
  there, and a change that is not a delete is recorded by the holder only. This
  makes a commit install a row together with its entry;
* `ServiceLock`: a call with a history row shares the lock of the service, so the
  commit of `DeleteService` finds no such call;
* `Gapless`: `VersionsGapless` with the type of the highest number.

There is one lemma for each action that changes anything `IInv` reads, and
`CommitHistory` and `CommitNumbers` say what a commit does to one key.

`ConnTrackingProofs` proves, for any replicas, streams and number of failures and
any TTL of at least two heartbeats (below that a row is not counted any more when
the next heartbeat is due):

| Theorem | States |
|---|---|
| `Invariance` | `Spec => []IInv` |
| `TypeCorrect` | `Spec => []TypeOK` |
| `StreamsCounted` | `Spec => []LiveCounted` |
| `NoGhosts` | `Spec => []NoGhostWhileUp` |
| `GhostsOnlyAge` | `Spec => GhostsAge` |

`LiveCounted` is not inductive: it says that a row is younger than the TTL, and
time passes. `RowAge` says how old a row can be, namely as old as the heartbeats
that failed since the last good one, plus the tick under way; `InTime` says what
`late` means; `NotStarted` and `BeforeRegister` say that a replica has no streams
before it starts and that a stream registers once.

`GhostsAge` is the safety half of `GhostsVanish`: no step makes the row of a stream
whose process has ended younger or brings one back. It rests on `OverAndOut`: a
process that has ended takes no streams, and its own have come to their end.

`VersionStoreRefinement` proves, for any keys, values, sessions and versions:

| Theorem | States |
|---|---|
| `Refinement` | `Spec => RefinesAtomicStore` |
| `BulkAllOrNothing` | `Spec => BulkWhole` |
| `LoneCallsCount` | `OverlapSpec => LoneCounts` |
| `ApartNumbered` | `Spec /\ []Apart => RefinesNumberedStore` |
| `ApartIncrements` | `Spec /\ []Apart => EveryChangeIncrements` |
| `ApartDeletesShow` | `Spec /\ []Apart => DeleteShowsRemoved` |
| `ApartTargets` | `Spec /\ []Apart =>` a version number names one history entry at most |
| `TwoDeadlocks` | `Spec => []DeadlocksKnown` |

The abstract store is the committed rows and the history as they are, so the
refinement mapping is the identity and the work is in the commits: every other
step stutters. `Intent` adds to `IInv` what a call means to do: the entry it
composes and every entry in its private log fit the request (a put has the
requested value, a rollback a value that was on record, a delete is a delete), and
at the commit every key of the request has one. With `Locks` and `CommitHistory`
of `VersionStoreProofs` the commit then is the abstract put, delete or rollback.

`Apart` says that of the calls under way no two work on one key; `DeleteService`
may come at any time, calls may fail at any statement, and calls on other keys
run beside. The theorems with `[]Apart` speak of the behaviors in which it holds
throughout. Without it all of them are false, as `store_increments` shows of the
numbers and `store_deletes` of the deletes. `LoneCallsCount` has no such hypothesis:
it is about all behaviors, those in which calls race included, and says what a call
that is not in `overlapped` can rely on. `overlapped` is auxiliary: the calls that,
since their first statement, have been under way together with another one on a
key of theirs.

The invariant `Fresh(L)` is what the calls in `L` can count on between their
statements: their number is still the one after the highest, the row a delete has
read is still the row, and each of their changes holds the lock of its row. It is
inductive for all sessions under `Apart`, and without it for those that are not in
`overlapped` (`LoneFresh`). `CommitFresh` is the step that needs one or the other: a
commit touches no key that a call in `L` has an entry for. `Exact`: the i-th entry of
a key has number i.

`DeadlocksKnown` says of every set of calls that wait for each other that it
contains a `DeleteService` or consists of bulk upserts of several keys. These are
the two causes of deadlock the code has; upserts of one key, deletes and rollbacks
never deadlock among themselves, as they hold nothing while they wait for a row
(`HoldsAnother`) and wait for the service only when it is being deleted
(`Droppers`). That the detector ends a deadlock is `WritersEnd`, with TLC.

`ConfigStreamProofs` proves, for any keys (finitely many), handlers, replicas,
clients, channel sizes, losses and cuts:

| Theorem | States |
|---|---|
| `TypeCorrect` | `Spec => []TypeOK` |
| `FeedInOrder` | `Spec /\ []Apart => []FeedOrdered` |
| `GapClosed` | `Spec /\ []Apart => []NoGap` |
| `NeverStale` | `Spec /\ []Apart => []CaughtUp`, with at least one handler |
| `OneWriterFeeds` | these three for a single handler, without `Apart` |

`Apart` says here that of a key one handler at most has changes that it has
committed and not yet published. Without it the claims fail (`stream_inverted`,
section 5). `CaughtUp` is the safety half of `Converges`: a live client to which
nothing is on its way holds the committed row of every key that lost no event.

The invariants are about the flight from a handler to a client: what is on the
stream, in its channel, on the notification queue of its replica and in the
handler's outbox, as one sequence, oldest first. `Moves`: publishing, dispatching
and sending leave it as it is. `FeedsRise` says that versions of a key rise along
it and along what would be a new client's flight. `RowsLed` says of the handler that
has the unpublished changes of a key, or of any if none has (`Sole`), that applying
its flight makes the key, unless it lost an event, what is committed. To be inductive it
has to say the same of each part that a later step makes the whole: the outbox
(when a replica starts to listen), the notifications with it (when a client
connects), the channel with both (when the snapshot is read), each of which, if it
says anything of a key, says the committed value last. `Interchanged` is what makes
several handlers possible: two flights that differ only in their outboxes lead a
key that neither outbox is about to the same value, so the next change of a key may
come from another handler. `Placed` keeps messages where they can be. `Behind` and
`Segments` take statements about a flight to its parts and back.

`AccessControlProofs` proves, for any users, addresses, services, keys, tokens and
requests:

| Theorem | States |
|---|---|
| `Invariance` | `Spec => []IInv` |
| `TypeCorrect` | `Spec => []TypeOK` |
| `NothingUncovered` | `Spec => []Covered` |
| `NoneRefused` | `Spec => []NotRefused` |
| `GrantsLive` | `Spec => []GrantsOfLiving` |
| `DeedsRecordedOnce` | `Spec => []RecordedOnce` |

`LoadedHeld`: an administrator's role in the hands of a request is one its user had
since it began; `Steady`: for one who was entitled all along, the role that was read
is current; `Found`: what a request found is of the right kind, and a user found has
a row for good; `Pending`: of the requests that did one thing to one service, none is
recorded while another is pending.

`ImportDocumentProofs` proves, for any imports, document, services, pruners and
bounds:

| Theorem | States |
|---|---|
| `Invariance` | `Spec => []IInv` |
| `TypeCorrect` | `Spec => []TypeOK` |
| `NewestKept` | `Spec => []KeepsNewest` |
| `NothingSkipped` | `Spec => []AppliedWhole` |
| `PrunedToKeep` | `Spec => LeavesKeep` |
| `PrunedWhenDue` | `Spec => []Due` |
| `RetryNotRefused` | `Spec /\ [][~ OtherStep]_vars => [][~ Refused(p)]_vars` for a single import `p` |

`Spared` is `KeepsNewest` of the entries that a pruner has selected too: what has
enough above it keeps enough, because whatever another pruner takes from above has
`Keep` newer ones itself. `Progress` says what is behind an import: all services
before its position, all variables of its service that it need not do any more,
and that this service has its key still, or is gone with all its variables touched.

`LeavesKeep`: of the entries that have committed when a `DELETE` selects, it leaves
exactly `Keep`. `Due`: it finds something to select exactly while there are more. Both
rest on the lemma `NewestOrOld`, which counts the newest entries of a finite set by
its greatest and least elements, not by recursion. `Clear` is the invariant behind
`RetryNotRefused`: an import about to create a service finds none with the key, one
that is at variables has its service, cut-offs included. It holds while nobody else
imports, creates, deletes or edits; otherwise a refusal is what the code does, and
`AppliedWhole` says what it has done until then.

`TelegramManagerProofs` proves, for any replicas, saves, bots, senders and loops:

| Theorem | States |
|---|---|
| `Invariance` | `Spec => []IInv` |
| `TypeCorrect` | `Spec => []TypeOK` |
| `ForgottenAnswered` | `Spec => []ConfirmedAnswered` |
| `HandledInOrder` | `Spec => []InOrder` |
| `ListedOnes` | `Spec => []ListedOnly` |
| `OneLoopEach` | `Spec => []OneLoop` |
| `SavedApplied` | `Spec /\ []OneSave => []SavedIsApplied` |
| `OneHandlerApplies` | `Spec => []SavedIsApplied` for a single request |
| `NoneSkipped` | `Spec => []Covers` |
| `OneReplicaOff` | `Spec /\ []OneSave => []OffIsOff` for a single replica |

`Cursor` relates a loop's offset, its batch and what it did to Telegram's queue;
`Covers`: all before the offset of a loop that goes on is answered; `Saved` and
`Executed`: the admins of whatever may be put to work, a save under way included,
were in a row with the bot; `Single`: a Manager has one loop that goes on, with its
settings, or none when they ask for none or the server shuts down. `AppliedOrAbout`: the last saver works with the row or is about
to. `OneSave` says that of at most one save the row is written and the Manager not
yet configured; without it the saves may be applied in the other order than they
were written, and the claim is false. `Hosted`: only a replica that is up serves requests
or has a configured Manager. With it and `Single`, `OneReplicaOff` turns finding 4
around: what `telegram_off` refutes for two replicas holds for one.

`SidecarAgentProofs` proves, for any keys, capacity and bounds:

| Theorem | States |
|---|---|
| `TypeCorrect` | `Spec => []TypeOK` |
| `WholeFile` | `Spec => []FileServed` |
| `Served` | `Spec => []UpToDate` |

`Renders`: the temporary file has what the client holds between the write and the
rename, the file itself between the rename and the end of the hook. `Running`: values
count changes, and a client that waits has something to wait for. `UpToDate` is the
safety half of `Rendered`: an agent with an open stream and nothing left to read or
render serves the committed variables, unless a change was dropped or the last
rendering failed. `Led`: the last message about a key on an open stream, or the
client if there is none, has the committed value; `Rested`: between two callbacks
the file is what the client holds, from the snapshot on.

The constants' assumptions are named in their modules and checked by TLC in every
run: sizes are positive, `None`, `Gone` and `Torn` are none of the values they stand
beside, `Keys` of `ConfigStream` is finite.

Model-checked only: liveness (`WritersEnd`, `Converges`, `GhostsVanish`,
`GhostsPurged`, `Answered`, `Trimmed`, `RetrySucceeds`, `Rendered`), which is out of
the prover's reach. Theorems state what such a property says without time, where
there is such a half: `TwoDeadlocks`, `NeverStale`, `GhostsOnlyAge`,
`ForgottenAnswered`, `NoneSkipped` (of `Answered`), `NewestKept`, `PrunedToKeep`,
`PrunedWhenDue` (of `Trimmed`), `NothingSkipped`, `RetryNotRefused` (of
`RetrySucceeds`), `Served`. Every other property of
a passing run is the statement of a theorem, three of them (`FeedOrdered`, `NoGap`,
`SavedIsApplied`) for writers or saves that do not overlap, which is how their runs
check them.

## 5. Where code and documents disagree

1. `store_increments`: two upserts of one key read the same `MAX(version)`, and
   the second replaces the value under the version of the first. README.md:229
   says "Every value change increments `version`". A lock on the row, or a
   unique constraint on `(service_id, key, version)`, before the maximum is read
   would settle it.
2. `store_deletes`: `DeleteVariable` reads the value that it will record, an update
   of the key commits, and the `DELETE` removes the new value
   (`variables.go:161`). variables.go:178 says "Record the deleted value so history
   shows what was removed"; history shows the value before. `DELETE ... RETURNING
   value` would settle it.
3. `stream_inverted`: two handlers publish in the opposite order of their
   commits and every live stream ends with the older state, with no event lost
   (README.md:52-54). Comparing versions in the client would repair it, once
   numbers are unique.
4. `telegram_off`: `Configure` reaches the replica that served the save. Another
   replica reads the row when it starts, and until then runs the bot that was
   turned off, with the old token and the old admins. README.md:226 says "The bot
   starts/stops live when you save settings — no restart needed." It is true of one
   replica whose saves do not overlap (`OneReplicaOff`).

Seen while modelling, without a run of their own:

* Clients do not compare versions ("clients apply upserts idempotently by
  version", `grpcserver/server.go:67`; `client.go:184`), so a change that was
  buffered before the snapshot takes them back for a moment; or, when its
  successor's publish failed, for good.
* `ConnTracker.Run` clears the rows as soon as the root context is cancelled
  (`conntracker.go:70`), while the gRPC server still takes streams; a stream that
  registers later leaves a row until its TTL ends, if the process exits before
  its `Unregister`. README.md:328 says "A replica clears its rows on graceful
  shutdown".
* An import that stops half-way leaves committed and published changes without an
  audit entry (`handlers_export.go:121-126`, `:132`).
* A login fails when another subject has the e-mail (`users.go:22`), the bootstrap
  address of README.md:244 included.
* The client's backoff stays at its maximum after a stream that was healthy for
  hours (`client.go:132`), because `stream` always returns an error.

## 6. Not modelled

* Reads: lists, search, export, history, connection info, health checks. They are
  one statement each, or a sequence of them, and change nothing.
* `UpdateServiceTags`: one UPDATE of a column that only searches read.
* The UI's event stream and the UI: the same broker channel as in `ConfigStream`,
  after which the browser fetches again; a lost event delays a view.
* The CLI: one REST call per invocation.
* The OIDC exchange (state, nonce, PKCE) and the encryption of cookies, which are
  libraries' work; cookies appear in `AccessControl` by what they carry.
* `start`, `stop` and the worker thread of the Java client; its handling of
  messages is that of the Go client.
* The HTTP server's own shutdown; configuration and migrations, which run before
  anything else; generated code and deployment.
* On purpose, in the modules: payloads, heartbeats that carry nothing, authors,
  times, rendering formats, notifications.

## 7. What is left

1. Distribution with writers that overlap on a key and the repeated version
   numbers of section 5, that is `VersionStore` composed with `ConfigStream` beyond
   `Apart`, and what a client that compares versions would gain.
2. `Answered` with two replicas, under a fairness of Telegram that keeps two loops
   from disturbing each other for ever.
3. The end of a graceful shutdown with the HTTP server, whose handlers commit and
   publish after the broker is gone.
4. The UI's event stream, and the Java client's worker thread.

Modules that are proved about contain no `RECURSIVE` operator; parameters are
`CONSTANTS` with named assumptions; invariants are conjunctions of named parts.
