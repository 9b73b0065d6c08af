---------------------------- MODULE ConfigStream ----------------------------
(***************************************************************************)
(* How a change reaches the applications: a handler of the HTTP server (or *)
(* the Telegram bot) commits it and then publishes it with pg_notify; the  *)
(* broker of every replica listens and hands it to the buffered channel of *)
(* each gRPC stream of the service; Server.Subscribe, which subscribed to  *)
(* the broker before it read the snapshot, forwards it; the client of the  *)
(* application applies snapshots and changes in the order of its stream.   *)
(*                                                                         *)
(* One service.  A change is one commit (VersionStore shows that calls are *)
(* atomic) and is named by its version: the value of a row is the version  *)
(* that set it, 0 stands for "no row", and for a client "the default".     *)
(***************************************************************************)
EXTENDS Integers, Sequences, FiniteSets, FiniteSetsExt, SequencesExt

CONSTANTS
  Keys,            \* variable names of the service
  Handlers,        \* writers: HTTP handlers and the bot's commands
  Replicas,        \* servers
  Clients,         \* applications, each with one stream at a time
  BufferSize,      \* capacity of a subscriber's channel (64 in the code)
  WindowSize,      \* messages a stream takes in before Send blocks
  MaxChanges,      \* bound on the changes of all keys
  MaxDisconnects,  \* bound on streams cut and replicas restarted
  MaxLosses,       \* bound on failed publishes and LISTEN outages
  None

ASSUME BoundsAssumption ==
  /\ BufferSize \in Nat \ {0}
  /\ WindowSize \in Nat \ {0}
  /\ MaxChanges \in Nat
  /\ MaxDisconnects \in Nat
  /\ MaxLosses \in Nat

ASSUME NoneAssumption == None \notin Replicas

ASSUME KeysAssumption == IsFiniteSet(Keys)

Event == [type : {"upsert", "delete"}, key : Keys, version : Nat]
Snapshot == [type : {"snapshot"}, vars : [Keys -> Nat]]
Message == Event \cup Snapshot

VARIABLES
  service,      \* is the service there
  variables,    \* the version in the current row of each key, 0 if none
  top,          \* the highest version of each key
  outbox,       \* changes a handler has committed and not yet published
  listening,    \* does the replica's broker hold a LISTEN connection
  notified,     \* notifications on it, not yet dispatched
  phase,        \* of the client's stream: "down", "open" (subscribed to the
                \*   broker), "read" (snapshot read, not sent), "live"
  at,           \* the replica that serves it
  buffer,       \* the channel between broker and stream
  wire,         \* messages sent on the stream, not yet applied
  view,         \* the client's overrides
  disconnects,  \* counters of the bounds
  losses,
  missed        \* auxiliary: keys of which the live stream may have lost a change

store == <<service, variables, top>>
broker == <<listening, notified>>
streams == <<phase, at, buffer, wire>>
counters == <<disconnects, losses>>
vars == <<service, variables, top, outbox, listening, notified, phase, at,
          buffer, wire, view, disconnects, losses, missed>>

Init ==
  /\ service = TRUE
  /\ variables = [k \in Keys |-> 0]
  /\ top = [k \in Keys |-> 0]
  /\ outbox = [h \in Handlers |-> << >>]
  /\ listening = [r \in Replicas |-> FALSE]
  /\ notified = [r \in Replicas |-> << >>]
  /\ phase = [c \in Clients |-> "down"]
  /\ at = [c \in Clients |-> None]
  /\ buffer = [c \in Clients |-> << >>]
  /\ wire = [c \in Clients |-> << >>]
  /\ view = [c \in Clients |-> [k \in Keys |-> 0]]
  /\ disconnects = 0
  /\ losses = 0
  /\ missed = [c \in Clients |-> {}]

\* Faulty variants, here and below, show that the properties can fail.
\* Subscribes to the broker only when the snapshot has been sent.
SubscribedLate(c) == phase[c] = "live"

KeysIn(s) == {s[i].key : i \in DOMAIN s}

\* Streams the broker of a replica dispatches to.
Subscribed(c) == phase[c] # "down"
StreamsOf(r) == {c \in Clients : Subscribed(c) /\ at[c] = r}

-----------------------------------------------------------------------------
(* Handlers.                                                               *)

\* The orders in which the keys of a bulk upsert can come out of its map.
Orders(K) == {s \in [1 .. Cardinality(K) -> K] : \A i, j \in DOMAIN s : s[i] = s[j] => i = j}

\* Room for one more change of each key in K.
Room(K) == FoldFunction(+, 0, top) + Cardinality(K) <= MaxChanges

\* Upsert, rollback, bulk upsert: one commit, then one event per key.
CommitUpsert(h, K) ==
  /\ outbox[h] = << >>
  /\ service
  /\ Room(K)
  /\ top' = [k \in Keys |-> IF k \in K THEN top[k] + 1 ELSE top[k]]
  /\ variables' = [k \in Keys |-> IF k \in K THEN top[k] + 1 ELSE variables[k]]
  /\ \E s \in Orders(K) :
       outbox' = [outbox EXCEPT ![h] =
                    [i \in DOMAIN s |-> [type |-> "upsert", key |-> s[i], version |-> top[s[i]] + 1]]]
  /\ UNCHANGED <<service, broker, streams, view, counters, missed>>

CommitDelete(h, k) ==
  /\ outbox[h] = << >>
  /\ service
  /\ variables[k] # 0
  /\ Room({k})
  /\ top' = [top EXCEPT ![k] = @ + 1]
  /\ variables' = [variables EXCEPT ![k] = 0]
  /\ outbox' = [outbox EXCEPT ![h] = << [type |-> "delete", key |-> k, version |-> top[k] + 1] >>]
  /\ UNCHANGED <<service, broker, streams, view, counters, missed>>

\* handleDeleteService publishes nothing.
CommitDropService ==
  /\ service
  /\ service' = FALSE
  /\ variables' = [k \in Keys |-> 0]
  /\ UNCHANGED <<top, outbox, broker, streams, view, counters, missed>>

\* pg_notify: Postgres queues the event for every session that listens.
Publish(h) ==
  /\ outbox[h] # << >>
  /\ outbox' = [outbox EXCEPT ![h] = Tail(@)]
  /\ notified' = [r \in Replicas |->
       IF listening[r] THEN Append(notified[r], Head(outbox[h])) ELSE notified[r]]
  /\ missed' = [c \in Clients |->
       IF Subscribed(c) /\ ~ listening[at[c]]
         THEN missed[c] \cup {Head(outbox[h]).key} ELSE missed[c]]
  /\ UNCHANGED <<store, listening, streams, view, counters>>

\* GetService or pg_notify fails (the request is cancelled, the payload is too
\* long for NOTIFY, the replica dies): the change is committed, the event lost.
PublishFails(h) ==
  /\ outbox[h] # << >>
  /\ losses < MaxLosses
  /\ losses' = losses + 1
  /\ outbox' = [outbox EXCEPT ![h] = Tail(@)]
  /\ missed' = [c \in Clients |-> missed[c] \cup {Head(outbox[h]).key}]
  /\ UNCHANGED <<store, broker, streams, view, disconnects>>

-----------------------------------------------------------------------------
(* The broker of a replica.                                                *)

Listen(r) ==
  /\ ~ listening[r]
  /\ listening' = [listening EXCEPT ![r] = TRUE]
  /\ UNCHANGED <<store, outbox, notified, streams, view, counters, missed>>

\* Off by one.
FullOneLater(c) == Len(buffer[c]) > BufferSize

Full(c) == Len(buffer[c]) >= BufferSize

\* Every notification in a goroutine of its own: any of them comes first.
DispatchInGoroutines(r) ==
  \E i \in DOMAIN notified[r] :
    LET e == notified[r][i] IN
    /\ buffer' = [c \in Clients |->
         IF c \in StreamsOf(r) /\ ~ Full(c) THEN Append(buffer[c], e) ELSE buffer[c]]
    /\ missed' = [c \in Clients |->
         IF c \in StreamsOf(r) /\ Full(c) THEN missed[c] \cup {e.key} ELSE missed[c]]
    /\ notified' = [notified EXCEPT ![r] = RemoveAt(@, i)]
    /\ UNCHANGED <<store, outbox, listening, phase, at, wire, view, counters>>

\* Broker.dispatch: to every subscriber of the service, unless its channel is
\* full.
Dispatch(r) ==
  /\ notified[r] # << >>
  /\ LET e == Head(notified[r]) IN
     /\ buffer' = [c \in Clients |->
          IF c \in StreamsOf(r) /\ ~ Full(c) THEN Append(buffer[c], e) ELSE buffer[c]]
     /\ missed' = [c \in Clients |->
          IF c \in StreamsOf(r) /\ Full(c) THEN missed[c] \cup {e.key} ELSE missed[c]]
  /\ notified' = [notified EXCEPT ![r] = Tail(@)]
  /\ UNCHANGED <<store, outbox, listening, phase, at, wire, view, counters>>

\* The LISTEN connection breaks: its notifications are gone, the streams of
\* the replica stay.
ListenFails(r) ==
  /\ listening[r]
  /\ losses < MaxLosses
  /\ losses' = losses + 1
  /\ listening' = [listening EXCEPT ![r] = FALSE]
  /\ notified' = [notified EXCEPT ![r] = << >>]
  /\ missed' = [c \in Clients |->
       IF c \in StreamsOf(r) THEN missed[c] \cup KeysIn(notified[r]) ELSE missed[c]]
  /\ UNCHANGED <<store, outbox, streams, view, disconnects>>

-----------------------------------------------------------------------------
(* A stream: Server.Subscribe on one side, Client.stream on the other.     *)

\* GetServiceByKey, broker.Subscribe.  Without the service the call returns
\* NotFound and the client tries again later.
Connect(c, r) ==
  /\ phase[c] = "down"
  /\ service
  /\ phase' = [phase EXCEPT ![c] = "open"]
  /\ at' = [at EXCEPT ![c] = r]
  /\ UNCHANGED <<store, outbox, broker, buffer, wire, view, counters, missed>>

\* sendSnapshot: ListVariables composes the message, then Send.  The snapshot
\* makes up for a lost change, except of a key that has an older change still
\* on its way: that one will follow the snapshot, of this or of a next stream.
ReadSnapshot(c) ==
  /\ phase[c] = "open"
  /\ phase' = [phase EXCEPT ![c] = "read"]
  /\ wire' = [wire EXCEPT ![c] = << [type |-> "snapshot", vars |-> variables] >>]
  /\ missed' = [missed EXCEPT ![c] = @ \cap
       (KeysIn(buffer[c]) \cup UNION {KeysIn(notified[r]) : r \in Replicas})]
  /\ UNCHANGED <<store, outbox, broker, at, buffer, view, counters>>

SendSnapshot(c) ==
  /\ phase[c] = "read"
  /\ phase' = [phase EXCEPT ![c] = "live"]
  /\ UNCHANGED <<store, outbox, broker, at, buffer, wire, view, counters, missed>>

\* The loop of Subscribe: Send blocks while the window of the stream is full.
SendChange(c) ==
  /\ phase[c] = "live"
  /\ buffer[c] # << >>
  /\ Len(wire[c]) < WindowSize
  /\ wire' = [wire EXCEPT ![c] = Append(@, Head(buffer[c]))]
  /\ buffer' = [buffer EXCEPT ![c] = Tail(@)]
  /\ UNCHANGED <<store, outbox, broker, phase, at, view, counters, missed>>

\* A snapshot sets what it lists and leaves the other overrides alone.
AboutListed(m, k) == IF m.type = "snapshot" THEN m.vars[k] # 0 ELSE m.key = k

\* Is the message about the key, and what does it make of it.
About(m, k) == m.type = "snapshot" \/ m.key = k
Outcome(m, k) ==
  CASE m.type = "snapshot" -> m.vars[k]
    [] m.type = "upsert" -> m.version
    [] m.type = "delete" -> 0

\* Recv: a snapshot replaces all overrides, a change sets or deletes one.
Receive(c) ==
  /\ phase[c] = "live"
  /\ wire[c] # << >>
  /\ wire' = [wire EXCEPT ![c] = Tail(@)]
  /\ view' = [view EXCEPT ![c] = [k \in Keys |->
       IF About(Head(wire[c]), k) THEN Outcome(Head(wire[c]), k) ELSE view[c][k]]]
  /\ UNCHANGED <<store, outbox, broker, phase, at, buffer, counters, missed>>

\* What ends with the streams of the clients in C.
Cut(C) ==
  /\ phase' = [c \in Clients |-> IF c \in C THEN "down" ELSE phase[c]]
  /\ at' = [c \in Clients |-> IF c \in C THEN None ELSE at[c]]
  /\ buffer' = [c \in Clients |-> IF c \in C THEN << >> ELSE buffer[c]]
  /\ wire' = [c \in Clients |-> IF c \in C THEN << >> ELSE wire[c]]

\* The stream breaks: what it carried is lost, the client keeps its overrides.
Disconnect(c) ==
  /\ Subscribed(c)
  /\ disconnects < MaxDisconnects
  /\ disconnects' = disconnects + 1
  /\ Cut({c})
  /\ UNCHANGED <<store, outbox, broker, view, losses, missed>>

\* A replica restarts: its streams and its LISTEN connection end.
Restart(r) ==
  /\ disconnects < MaxDisconnects
  /\ disconnects' = disconnects + 1
  /\ Cut(StreamsOf(r))
  /\ listening' = [listening EXCEPT ![r] = FALSE]
  /\ notified' = [notified EXCEPT ![r] = << >>]
  /\ UNCHANGED <<store, outbox, view, losses, missed>>

-----------------------------------------------------------------------------

Write(h) ==
  \/ \E K \in (SUBSET Keys) \ {{}} : CommitUpsert(h, K)
  \/ \E k \in Keys : CommitDelete(h, k)

Next ==
  \/ \E h \in Handlers : Write(h) \/ Publish(h) \/ PublishFails(h)
  \/ CommitDropService
  \/ \E r \in Replicas : Listen(r) \/ Dispatch(r) \/ ListenFails(r) \/ Restart(r)
  \/ \E c \in Clients : \/ \E r \in Replicas : Connect(c, r)
                        \/ ReadSnapshot(c)
                        \/ SendSnapshot(c)
                        \/ SendChange(c)
                        \/ Receive(c)
                        \/ Disconnect(c)

Spec == Init /\ [][Next]_vars

\* The goroutines of the server and of the client keep running: a handler goes
\* on to publish, the broker reconnects and dispatches, a stream forwards, a
\* client reconnects and receives.  Nobody has to write.
Fairness ==
  /\ \A h \in Handlers : WF_vars(Publish(h))
  /\ \A r \in Replicas : WF_vars(Listen(r)) /\ WF_vars(Dispatch(r))
  /\ \A c \in Clients : /\ WF_vars(\E r \in Replicas : Connect(c, r))
                        /\ WF_vars(ReadSnapshot(c))
                        /\ WF_vars(SendSnapshot(c))
                        /\ WF_vars(SendChange(c))
                        /\ WF_vars(Receive(c))

FairSpec == Spec /\ Fairness

-----------------------------------------------------------------------------
(* Properties.                                                             *)

\* Type invariant; a channel and the window of a stream keep their capacity.
TypeOK ==
  /\ service \in BOOLEAN
  /\ variables \in [Keys -> Nat]
  /\ top \in [Keys -> Nat]
  /\ outbox \in [Handlers -> Seq(Event)]
  /\ listening \in [Replicas -> BOOLEAN]
  /\ notified \in [Replicas -> Seq(Event)]
  /\ phase \in [Clients -> {"down", "open", "read", "live"}]
  /\ at \in [Clients -> Replicas \cup {None}]
  /\ buffer \in [Clients -> Seq(Event)]
  /\ wire \in [Clients -> Seq(Message)]
  /\ view \in [Clients -> [Keys -> Nat]]
  /\ disconnects \in 0 .. MaxDisconnects
  /\ losses \in 0 .. MaxLosses
  /\ missed \in [Clients -> SUBSET Keys]
  /\ \A c \in Clients : Len(buffer[c]) <= BufferSize /\ Len(wire[c]) <= WindowSize

\* Writers that do not overlap: of a key, one handler at most has changes that
\* it has committed and not yet published.
Apart ==
  \A h, g \in Handlers : h # g => KeysIn(outbox[h]) \cap KeysIn(outbox[g]) = {}

\* All that is on its way to the client of a stream from one of the handlers,
\* oldest first.
InFlight(c, h) == wire[c] \o buffer[c] \o notified[at[c]] \o outbox[h]

\* What the client will make of the key when all of that has arrived.
Eventually(c, h, k) ==
  LET flight == InFlight(c, h)
      about == {i \in DOMAIN flight : About(flight[i], k)}
  IN  IF about = {} THEN view[c][k] ELSE Outcome(flight[Max(about)], k)

\* Subscribing before the snapshot closes the gap (server.go:66): once the
\* snapshot is read, no change of a key can be neither in it nor in the feed
\* behind it.  As long as one handler has all unpublished changes of a key,
\* whatever is still on its way leads to the committed row, unless an event
\* was lost on a way the code knows about (a full channel, a LISTEN outage, a
\* failed publish).
Sole(h, k) == \A g \in Handlers \ {h} : k \notin KeysIn(outbox[g])
NoGap ==
  service => \A h \in Handlers, c \in Clients : phase[c] \in {"read", "live"} =>
    \A k \in Keys \ missed[c] : Sole(h, k) => Eventually(c, h, k) = variables[k]

\* The feed behind the snapshot carries the changes of a key in the order of
\* their versions: neither the queue of NOTIFY, nor the broker, nor the channel,
\* nor the stream lets one overtake another.
FeedOrdered ==
  \A h \in Handlers, c \in Clients : phase[c] # "down" =>
    LET flight == InFlight(c, h) IN
    \A i, j \in DOMAIN flight :
      /\ i < j
      /\ flight[i].type # "snapshot"
      /\ flight[i].key = flight[j].key
      => flight[i].version < flight[j].version

\* Every client whose stream lost nothing ends up with the committed rows,
\* whatever streams were cut and whichever replica served it in between
\* ("an edit made through replica A reaches streams pinned to replica B",
\* README.md:52-54).
Converges ==
  \A c \in Clients :
    <>[](service => phase[c] = "live" /\ (missed[c] = {} => view[c] = variables))

=============================================================================
