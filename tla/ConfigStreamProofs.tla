------------------------- MODULE ConfigStreamProofs -------------------------
(***************************************************************************)
(* Proofs about ConfigStream, for any keys, replicas, clients, sizes and   *)
(* bounds: type correctness; when no two handlers have changes of one key  *)
(* to publish at the same time, that the feed is in order, that nothing    *)
(* falls between a snapshot and the feed behind it, and that a client with *)
(* a quiet stream has the rows.                                            *)
(***************************************************************************)
EXTENDS ConfigStream, FiniteSetTheorems, WellFoundedInduction, TLAPS

-----------------------------------------------------------------------------
(* Types.                                                                  *)

\* A channel takes an event only when it is not full, a stream only when its
\* window is not; what a stream that ends leaves behind is empty.
LEMMA QueueTypes ==
  ASSUME NEW S, NEW s \in Seq(S), NEW e \in S
  PROVE  /\ Append(s, e) \in Seq(S) /\ Len(Append(s, e)) = Len(s) + 1
         /\ s # << >> => Tail(s) \in Seq(S) /\ Len(Tail(s)) = Len(s) - 1 /\ Head(s) \in S
         /\ << >> \in Seq(S) /\ Len(<< >>) = 0 /\ Len(s) \in Nat
  OBVIOUS

\* The events of a commit: one for each key, in some order.
LEMMA OrderOfKeys ==
  ASSUME NEW K \in SUBSET Keys, NEW s \in Orders(K)
  PROVE  /\ Cardinality(K) \in Nat
         /\ s \in [1 .. Cardinality(K) -> K]
         /\ \A i, j \in DOMAIN s : s[i] = s[j] => i = j
         /\ \A k \in K : \E i \in DOMAIN s : s[i] = k
  <1>1. IsFiniteSet(K)
    BY KeysAssumption, FS_Subset
  <1>2. Cardinality(K) \in Nat
    BY <1>1, FS_CardinalityType
  <1>3. s \in [1 .. Cardinality(K) -> K] /\ \A i, j \in DOMAIN s : s[i] = s[j] => i = j
    BY DEF Orders
  <1>4. s \in Injection(1 .. Cardinality(K), K)
    BY <1>3 DEF Injection, IsInjective
  <1>5. Cardinality(1 .. Cardinality(K)) = Cardinality(K)
    BY <1>2, FS_Interval
  <1>6. s \in Surjection(1 .. Cardinality(K), K)
    BY <1>1, <1>4, <1>5, FS_Injection
  <1>. QED  BY <1>2, <1>3, <1>6 DEF Surjection

\* A commit is announced by events.
LEMMA CommitTypes ==
  ASSUME TypeOK, NEW h \in Handlers, Write(h)
  PROVE  TypeOK'
  <1>1. ASSUME NEW K \in SUBSET Keys, CommitUpsert(h, K) PROVE TypeOK'
    <2>1. PICK s \in Orders(K) : outbox' = [outbox EXCEPT ![h] =
            [i \in DOMAIN s |-> [type |-> "upsert", key |-> s[i], version |-> top[s[i]] + 1]]]
      BY <1>1 DEF CommitUpsert
    <2>. DEFINE es == [i \in DOMAIN s |-> [type |-> "upsert", key |-> s[i], version |-> top[s[i]] + 1]]
    <2>2. es \in Seq(Event)
      <3>0. s \in [1 .. Cardinality(K) -> K] /\ Cardinality(K) \in Nat
        BY OrderOfKeys
      <3>1. \A i \in DOMAIN s : s[i] \in Keys /\ top[s[i]] + 1 \in Nat
        BY <3>0 DEF TypeOK
      <3>2. DOMAIN s = 1 .. Cardinality(K) /\ Cardinality(K) \in Nat
        BY <3>0
      <3>3. es \in [1 .. Cardinality(K) -> Event]
        BY <3>1, <3>2 DEF Event
      <3>. HIDE DEF es
      <3>. QED  BY <3>2, <3>3
    <2>3. outbox' \in [Handlers -> Seq(Event)]
      BY <2>1, <2>2 DEF TypeOK
    <2>4. top' \in [Keys -> Nat] /\ variables' \in [Keys -> Nat]
      BY <1>1 DEF CommitUpsert, TypeOK
    <2>. QED  BY <1>1, <2>3, <2>4 DEF CommitUpsert, TypeOK, broker, streams, counters
  <1>2. ASSUME NEW k \in Keys, CommitDelete(h, k) PROVE TypeOK'
    <2>1. top[k] + 1 \in Nat
      BY DEF TypeOK
    <2>2. << [type |-> "delete", key |-> k, version |-> top[k] + 1] >> \in Seq(Event)
      BY <2>1 DEF Event
    <2>3. outbox' \in [Handlers -> Seq(Event)]
      BY <1>2, <2>2 DEF CommitDelete, TypeOK
    <2>4. top' \in [Keys -> Nat] /\ variables' \in [Keys -> Nat]
      BY <1>2, <2>1 DEF CommitDelete, TypeOK
    <2>. QED  BY <1>2, <2>3, <2>4 DEF CommitDelete, TypeOK, broker, streams, counters
  <1>. QED  BY <1>1, <1>2 DEF Write

\* Keys of a queue are keys.
LEMMA KeysInKeys ==
  ASSUME NEW s \in Seq(Event)
  PROVE  KeysIn(s) \subseteq Keys
  <1>1. \A i \in DOMAIN s : s[i] \in Event
    OBVIOUS
  <1>2. \A e \in Event : e.key \in Keys
    BY DEF Event
  <1>. QED  BY <1>1, <1>2 DEF KeysIn

\* A publication is queued, or lost.
LEMMA PublishTypes ==
  ASSUME TypeOK, NEW h \in Handlers, Publish(h) \/ PublishFails(h)
  PROVE  TypeOK'
  <1>1. /\ outbox[h] \in Seq(Event) /\ outbox[h] # << >>
        /\ Head(outbox[h]) \in Event /\ Tail(outbox[h]) \in Seq(Event)
    BY QueueTypes DEF TypeOK, Publish, PublishFails
  <1>2. Head(outbox[h]).key \in Keys
    BY <1>1 DEF Event
  <1>3. outbox' \in [Handlers -> Seq(Event)]
    BY <1>1 DEF TypeOK, Publish, PublishFails
  <1>4. missed' \in [Clients -> SUBSET Keys]
    <2>1. \A c \in Clients : missed'[c] \in {missed[c], missed[c] \cup {Head(outbox[h]).key}}
      BY DEF Publish, PublishFails
    <2>2. DOMAIN missed' = Clients /\ missed' = [c \in Clients |-> missed'[c]]
      BY DEF Publish, PublishFails
    <2>3. \A c \in Clients : missed'[c] \in SUBSET Keys
      BY <1>2, <2>1, ZenonT(60) DEF TypeOK
    <2>. QED  BY <2>2, <2>3
  <1>5. CASE Publish(h)
    <2>1. notified' \in [Replicas -> Seq(Event)]
      <3>1. \A r \in Replicas : Append(notified[r], Head(outbox[h])) \in Seq(Event)
        BY <1>1, QueueTypes DEF TypeOK
      <3>. QED  BY <1>5, <3>1 DEF Publish, TypeOK
    <2>. QED  BY <1>3, <1>4, <1>5, <2>1 DEF Publish, TypeOK, store, streams, counters
  <1>6. CASE PublishFails(h)
    <2>1. losses' \in 0 .. MaxLosses
      BY <1>6, BoundsAssumption DEF PublishFails, TypeOK
    <2>. QED  BY <1>3, <1>4, <1>6, <2>1 DEF PublishFails, TypeOK, store, broker, streams
  <1>. QED  BY <1>5, <1>6

\* The broker hands an event to channels with room.
LEMMA BrokerTypes ==
  ASSUME TypeOK, NEW r \in Replicas, Listen(r) \/ Dispatch(r) \/ ListenFails(r)
  PROVE  TypeOK'
  <1>1. CASE Listen(r)
    BY <1>1 DEF Listen, TypeOK, store, streams, counters
  <1>2. CASE Dispatch(r)
    <2>1. /\ notified[r] \in Seq(Event) /\ notified[r] # << >>
          /\ Head(notified[r]) \in Event /\ Tail(notified[r]) \in Seq(Event)
      BY <1>2, QueueTypes DEF TypeOK, Dispatch
    <2>2. Head(notified[r]).key \in Keys
      BY <2>1 DEF Event
    <2>3. /\ notified' \in [Replicas -> Seq(Event)]
          /\ missed' \in [Clients -> SUBSET Keys]
      BY <1>2, <2>1, <2>2 DEF Dispatch, TypeOK
    <2>4. \A c \in Clients : /\ Append(buffer[c], Head(notified[r])) \in Seq(Event)
                              /\ Len(Append(buffer[c], Head(notified[r]))) = Len(buffer[c]) + 1
                              /\ Len(buffer[c]) \in Nat
      BY <2>1, QueueTypes DEF TypeOK
    <2>5. \A c \in Clients : ~ Full(c) => Len(buffer[c]) + 1 <= BufferSize
      BY <2>4, BoundsAssumption DEF Full
    <2>6. /\ buffer' \in [Clients -> Seq(Event)]
          /\ \A c \in Clients : Len(buffer'[c]) <= BufferSize
      BY <1>2, <2>4, <2>5 DEF Dispatch, TypeOK
    <2>. QED  BY <1>2, <2>3, <2>6 DEF Dispatch, TypeOK, store, counters
  <1>3. CASE ListenFails(r)
    <2>1. losses' \in 0 .. MaxLosses
      BY <1>3, BoundsAssumption DEF ListenFails, TypeOK
    <2>2. KeysIn(notified[r]) \subseteq Keys
      BY KeysInKeys DEF TypeOK
    <2>3. << >> \in Seq(Event)
      OBVIOUS
    <2>. QED  BY <1>3, <2>1, <2>2, <2>3 DEF ListenFails, TypeOK, store, streams
  <1>. QED  BY <1>1, <1>2, <1>3

\* A stream takes messages while its window has room, a client takes them out.
LEMMA StreamTypes ==
  ASSUME TypeOK, NEW c \in Clients,
         \/ \E r \in Replicas : Connect(c, r)
         \/ ReadSnapshot(c) \/ SendSnapshot(c) \/ SendChange(c) \/ Receive(c)
  PROVE  TypeOK'
  <1>1. CASE \E r \in Replicas : Connect(c, r)
    BY <1>1 DEF Connect, TypeOK, store, broker, counters
  <1>2. CASE ReadSnapshot(c)
    <2>1. /\ << [type |-> "snapshot", vars |-> variables] >> \in Seq(Message)
          /\ Len(<< [type |-> "snapshot", vars |-> variables] >>) = 1
      BY DEF TypeOK, Message, Snapshot
    <2>2. 1 <= WindowSize
      BY BoundsAssumption
    <2>3. wire' \in [Clients -> Seq(Message)] /\ \A d \in Clients : Len(wire'[d]) <= WindowSize
      BY <1>2, <2>1, <2>2 DEF ReadSnapshot, TypeOK
    <2>4. missed' \in [Clients -> SUBSET Keys]
      BY <1>2 DEF ReadSnapshot, TypeOK
    <2>. QED  BY <1>2, <2>3, <2>4 DEF ReadSnapshot, TypeOK, store, broker, counters
  <1>3. CASE SendSnapshot(c)
    BY <1>3 DEF SendSnapshot, TypeOK, store, broker, counters
  <1>4. CASE SendChange(c)
    <2>1. /\ buffer[c] \in Seq(Event) /\ buffer[c] # << >>
          /\ Head(buffer[c]) \in Message /\ Tail(buffer[c]) \in Seq(Event)
          /\ Len(Tail(buffer[c])) = Len(buffer[c]) - 1 /\ Len(buffer[c]) \in Nat
      BY <1>4, QueueTypes DEF SendChange, TypeOK, Message
    <2>2. /\ Append(wire[c], Head(buffer[c])) \in Seq(Message)
          /\ Len(Append(wire[c], Head(buffer[c]))) = Len(wire[c]) + 1
          /\ Len(wire[c]) \in Nat
      BY <2>1, QueueTypes DEF TypeOK
    <2>3. Len(wire[c]) + 1 <= WindowSize
      BY <1>4, <2>2, BoundsAssumption DEF SendChange
    <2>4. wire' \in [Clients -> Seq(Message)] /\ \A d \in Clients : Len(wire'[d]) <= WindowSize
      BY <1>4, <2>2, <2>3 DEF SendChange, TypeOK
    <2>5. Len(Tail(buffer[c])) <= BufferSize
      BY <2>1, BoundsAssumption DEF TypeOK
    <2>6. buffer' \in [Clients -> Seq(Event)] /\ \A d \in Clients : Len(buffer'[d]) <= BufferSize
      BY <1>4, <2>1, <2>5 DEF SendChange, TypeOK
    <2>. QED  BY <1>4, <2>4, <2>6 DEF SendChange, TypeOK, store, broker, counters
  <1>5. CASE Receive(c)
    <2>1. /\ wire[c] \in Seq(Message) /\ wire[c] # << >>
          /\ Head(wire[c]) \in Message /\ Tail(wire[c]) \in Seq(Message)
          /\ Len(Tail(wire[c])) = Len(wire[c]) - 1 /\ Len(wire[c]) \in Nat
      BY <1>5, QueueTypes DEF Receive, TypeOK
    <2>2. Len(Tail(wire[c])) <= WindowSize
      BY <2>1, BoundsAssumption DEF TypeOK
    <2>3. wire' \in [Clients -> Seq(Message)] /\ \A d \in Clients : Len(wire'[d]) <= WindowSize
      BY <1>5, <2>1, <2>2 DEF Receive, TypeOK
    <2>4. \A k \in Keys : Outcome(Head(wire[c]), k) \in Nat
      BY <2>1 DEF Outcome, Message, Event, Snapshot
    <2>5. view' \in [Clients -> [Keys -> Nat]]
      BY <1>5, <2>4 DEF Receive, TypeOK
    <2>. QED  BY <1>5, <2>3, <2>5 DEF Receive, TypeOK, store, broker, counters
  <1>. QED  BY <1>1, <1>2, <1>3, <1>4, <1>5

\* What is cut is empty.
LEMMA CutTypes ==
  ASSUME TypeOK, NEW C, Cut(C)
  PROVE  /\ phase' \in [Clients -> {"down", "open", "read", "live"}]
         /\ at' \in [Clients -> Replicas \cup {None}]
         /\ buffer' \in [Clients -> Seq(Event)]
         /\ wire' \in [Clients -> Seq(Message)]
         /\ \A c \in Clients : Len(buffer'[c]) <= BufferSize /\ Len(wire'[c]) <= WindowSize
  <1>1. /\ << >> \in Seq(Event) /\ << >> \in Seq(Message)
        /\ Len(<< >>) <= BufferSize /\ Len(<< >>) <= WindowSize
    BY BoundsAssumption
  <1>. QED  BY <1>1 DEF Cut, TypeOK

\* Every step keeps the types.
LEMMA TypeStep == TypeOK /\ [Next]_vars => TypeOK'
  <1>. SUFFICES ASSUME TypeOK, [Next]_vars PROVE TypeOK'
    OBVIOUS
  <1>1. CASE UNCHANGED vars
    BY <1>1 DEF vars, TypeOK
  <1>2. ASSUME NEW h \in Handlers, Write(h) \/ Publish(h) \/ PublishFails(h) PROVE TypeOK'
    BY <1>2, CommitTypes, PublishTypes
  <1>3. CASE CommitDropService
    BY <1>3 DEF CommitDropService, TypeOK, broker, streams, counters
  <1>4. ASSUME NEW r \in Replicas, Restart(r) PROVE TypeOK'
    <2>1. disconnects' \in 0 .. MaxDisconnects
      BY <1>4, BoundsAssumption DEF Restart, TypeOK
    <2>2. << >> \in Seq(Event)
      OBVIOUS
    <2>. QED  BY <1>4, <2>1, <2>2, CutTypes DEF Restart, TypeOK, store
  <1>5. ASSUME NEW c \in Clients, Disconnect(c) PROVE TypeOK'
    <2>1. disconnects' \in 0 .. MaxDisconnects
      BY <1>5, BoundsAssumption DEF Disconnect, TypeOK
    <2>. QED  BY <1>5, <2>1, CutTypes DEF Disconnect, TypeOK, store, broker
  <1>. QED  BY <1>1, <1>2, <1>3, <1>4, <1>5, BrokerTypes, StreamTypes DEF Next

\* The types hold at first.
LEMMA InitTypes == Init => TypeOK
  BY BoundsAssumption DEF Init, TypeOK

-----------------------------------------------------------------------------
(* Queues: when the changes of a key in a chain of queues rise, what the   *)
(* chain makes of a client's value, and how both stand moves along the      *)
(* chain, losses, and arrivals.                                            *)

\* No message of s is about k.
Silent(s, k) == \A i \in DOMAIN s : ~ About(s[i], k)

\* The last message about k in s, if there is one, makes v of it.
Settles(s, k, v) ==
  \A i \in DOMAIN s :
    About(s[i], k) /\ (\A j \in DOMAIN s : j > i => ~ About(s[j], k)) => Outcome(s[i], k) = v

\* A change that comes before a newer one, or the same, of its key.
Overtaken(m, n) == m.type # "snapshot" /\ m.key = n.key /\ ~ (m.version < n.version)

\* No message of s, and none of s and t, is in the wrong order.
Ordered(s) == \A i, j \in DOMAIN s : i < j => ~ Overtaken(s[i], s[j])
Before(s, t) == \A i \in DOMAIN s, j \in DOMAIN t : ~ Overtaken(s[i], t[j])

\* A change has at most the version its key has come to.
Past(m, tops) == m.type # "snapshot" => m.version <= tops[m.key]
AllPast(s, tops) == \A i \in DOMAIN s : Past(s[i], tops)

\* What holds of one queue behind another.
LEMMA Behind ==
  ASSUME NEW s \in Seq(Message), NEW t \in Seq(Message), NEW k, NEW v, NEW tops, NEW u
  PROVE  /\ s \o t \in Seq(Message)
         /\ Silent(s \o t, k) <=> Silent(s, k) /\ Silent(t, k)
         /\ Settles(s \o t, k, v) <=> Settles(t, k, v) /\ (Silent(t, k) => Settles(s, k, v))
         /\ Ordered(s \o t) <=> Ordered(s) /\ Ordered(t) /\ Before(s, t)
         /\ Before(s \o t, u) <=> Before(s, u) /\ Before(t, u)
         /\ Before(u, s \o t) <=> Before(u, s) /\ Before(u, t)
         /\ AllPast(s \o t, tops) <=> AllPast(s, tops) /\ AllPast(t, tops)
  <1>. DEFINE q == s \o t
              m == Len(s)
              n == Len(t)
  <1>0. q \in Seq(Message)
    OBVIOUS
  <1>1. /\ m \in Nat /\ n \in Nat
        /\ DOMAIN s = 1 .. m /\ DOMAIN t = 1 .. n /\ DOMAIN q = 1 .. m + n
        /\ \A i \in 1 .. m : i \in 1 .. m + n /\ q[i] = s[i]
        /\ \A j \in 1 .. n : m + j \in 1 .. m + n /\ q[m + j] = t[j]
    OBVIOUS
  <1>. HIDE DEF q, m, n
  <1>2. \A i \in 1 .. m + n : i \in 1 .. m \/ (i - m \in 1 .. n /\ i = m + (i - m))
    BY <1>1
  \* A place in q is one in s or one in t.
  <1>3. ASSUME NEW i \in 1 .. m + n
        PROVE  \/ i \in 1 .. m /\ q[i] = s[i]
               \/ \E j \in 1 .. n : i = m + j /\ q[i] = t[j]
    BY <1>1, <1>2
  <1>4. Silent(q, k) <=> Silent(s, k) /\ Silent(t, k)
    <2>1. ASSUME Silent(q, k) PROVE Silent(s, k) /\ Silent(t, k)
      BY <1>1, <2>1 DEF Silent
    <2>2. ASSUME Silent(s, k), Silent(t, k) PROVE Silent(q, k)
      BY <1>1, <1>3, <2>2 DEF Silent
    <2>. QED  BY <2>1, <2>2
  <1>5. Settles(q, k, v) <=> Settles(t, k, v) /\ (Silent(t, k) => Settles(s, k, v))
    <2>1. ASSUME Settles(q, k, v) PROVE Settles(t, k, v)
      <3>. SUFFICES ASSUME NEW j \in 1 .. n, About(t[j], k),
                           \A l \in 1 .. n : l > j => ~ About(t[l], k)
                    PROVE  Outcome(t[j], k) = v
        BY <1>1 DEF Settles
      <3>1. ASSUME NEW i \in 1 .. m + n, i > m + j PROVE ~ About(q[i], k)
        BY <1>1, <1>3, <3>1
      <3>. QED  BY <1>1, <2>1, <3>1 DEF Settles
    <2>2. ASSUME Settles(q, k, v), Silent(t, k) PROVE Settles(s, k, v)
      <3>. SUFFICES ASSUME NEW j \in 1 .. m, About(s[j], k),
                           \A l \in 1 .. m : l > j => ~ About(s[l], k)
                    PROVE  Outcome(s[j], k) = v
        BY <1>1 DEF Settles
      <3>1. ASSUME NEW i \in 1 .. m + n, i > j PROVE ~ About(q[i], k)
        BY <1>1, <1>3, <2>2, <3>1 DEF Silent
      <3>. QED  BY <1>1, <2>2, <3>1 DEF Settles
    <2>3. ASSUME Settles(t, k, v), Silent(t, k) => Settles(s, k, v) PROVE Settles(q, k, v)
      <3>. SUFFICES ASSUME NEW i \in 1 .. m + n, About(q[i], k),
                           \A l \in 1 .. m + n : l > i => ~ About(q[l], k)
                    PROVE  Outcome(q[i], k) = v
        BY <1>1 DEF Settles
      <3>1. CASE i \in 1 .. m /\ q[i] = s[i]
        <4>1. \A l \in 1 .. n : ~ About(t[l], k)
          BY <1>1, <3>1
        <4>2. \A l \in 1 .. m : l > i => ~ About(s[l], k)
          BY <1>1, <3>1
        <4>. QED  BY <1>1, <2>3, <3>1, <4>1, <4>2 DEF Settles, Silent
      <3>2. ASSUME NEW j \in 1 .. n, i = m + j, q[i] = t[j] PROVE Outcome(q[i], k) = v
        <4>1. \A l \in 1 .. n : l > j => ~ About(t[l], k)
          BY <1>1, <3>2
        <4>. QED  BY <1>1, <2>3, <3>2, <4>1 DEF Settles
      <3>. QED  BY <1>3, <3>1, <3>2
    <2>. QED  BY <2>1, <2>2, <2>3
  <1>6. Ordered(q) <=> Ordered(s) /\ Ordered(t) /\ Before(s, t)
    <2>1. ASSUME Ordered(q) PROVE Ordered(s) /\ Ordered(t) /\ Before(s, t)
      <3>1. Ordered(s)
        BY <1>1, <2>1 DEF Ordered
      <3>2. ASSUME NEW i \in 1 .. n, NEW j \in 1 .. n, i < j PROVE ~ Overtaken(t[i], t[j])
        <4>1. m + i < m + j
          BY <1>1, <3>2
        <4>. QED  BY <1>1, <2>1, <4>1 DEF Ordered
      <3>3. ASSUME NEW i \in 1 .. m, NEW j \in 1 .. n PROVE ~ Overtaken(s[i], t[j])
        <4>1. i < m + j
          BY <1>1
        <4>. QED  BY <1>1, <2>1, <4>1 DEF Ordered
      <3>. QED  BY <1>1, <3>1, <3>2, <3>3 DEF Ordered, Before
    <2>2. ASSUME Ordered(s), Ordered(t), Before(s, t) PROVE Ordered(q)
      <3>. SUFFICES ASSUME NEW i \in 1 .. m + n, NEW j \in 1 .. m + n, i < j
                    PROVE  ~ Overtaken(q[i], q[j])
        BY <1>1 DEF Ordered
      <3>1. CASE j \in 1 .. m
        <4>1. i \in 1 .. m
          BY <1>1, <3>1
        <4>. QED  BY <1>1, <2>2, <3>1, <4>1 DEF Ordered
      <3>2. CASE i \in 1 .. m /\ j \notin 1 .. m
        <4>1. PICK b \in 1 .. n : q[j] = t[b]
          BY <1>3, <3>2
        <4>. QED  BY <1>1, <2>2, <3>2, <4>1 DEF Before
      <3>3. CASE i \notin 1 .. m /\ j \notin 1 .. m
        <4>1. PICK a \in 1 .. n : i = m + a /\ q[i] = t[a]
          BY <1>3, <3>3
        <4>2. PICK b \in 1 .. n : j = m + b /\ q[j] = t[b]
          BY <1>3, <3>3
        <4>3. a < b
          BY <1>1, <4>1, <4>2
        <4>. QED  BY <1>1, <2>2, <4>1, <4>2, <4>3 DEF Ordered
      <3>. QED  BY <1>1, <3>1, <3>2, <3>3
    <2>. QED  BY <2>1, <2>2
  <1>7. /\ Before(q, u) <=> Before(s, u) /\ Before(t, u)
        /\ Before(u, q) <=> Before(u, s) /\ Before(u, t)
    <2>1. ASSUME Before(q, u) PROVE Before(s, u) /\ Before(t, u)
      BY <1>1, <2>1 DEF Before
    <2>2. ASSUME Before(s, u), Before(t, u) PROVE Before(q, u)
      BY <1>1, <1>3, <2>2, ZenonT(60) DEF Before
    <2>3. ASSUME Before(u, q) PROVE Before(u, s) /\ Before(u, t)
      BY <1>1, <2>3 DEF Before
    <2>4. ASSUME Before(u, s), Before(u, t) PROVE Before(u, q)
      BY <1>1, <1>3, <2>4 DEF Before
    <2>. QED  BY <2>1, <2>2, <2>3, <2>4
  <1>8. AllPast(q, tops) <=> AllPast(s, tops) /\ AllPast(t, tops)
    <2>1. ASSUME AllPast(q, tops) PROVE AllPast(s, tops) /\ AllPast(t, tops)
      BY <1>1, <2>1 DEF AllPast
    <2>2. ASSUME AllPast(s, tops), AllPast(t, tops) PROVE AllPast(q, tops)
      BY <1>1, <1>3, <2>2 DEF AllPast
    <2>. QED  BY <2>1, <2>2
  <1>. QED  BY <1>0, <1>4, <1>5, <1>6, <1>7, <1>8 DEF q

\* What holds of a queue of one message.
LEMMA OfOne ==
  ASSUME NEW e, NEW f, NEW k, NEW v, NEW tops
  PROVE  /\ Silent(<<e>>, k) <=> ~ About(e, k)
         /\ Settles(<<e>>, k, v) <=> (About(e, k) => Outcome(e, k) = v)
         /\ Ordered(<<e>>)
         /\ Before(<<e>>, <<f>>) <=> ~ Overtaken(e, f)
         /\ AllPast(<<e>>, tops) <=> Past(e, tops)
  <1>1. /\ DOMAIN <<e>> = {1} /\ <<e>>[1] = e
        /\ DOMAIN <<f>> = {1} /\ <<f>>[1] = f
    OBVIOUS
  <1>. QED  BY <1>1 DEF Silent, Settles, Ordered, Before, AllPast

\* What holds of the empty queue.
LEMMA OfNone ==
  ASSUME NEW k, NEW v, NEW tops, NEW u
  PROVE  /\ Silent(<< >>, k) /\ Settles(<< >>, k, v) /\ AllPast(<< >>, tops) /\ Ordered(<< >>)
         /\ Before(u, << >>) /\ Before(<< >>, u)
  BY DEF Silent, Settles, AllPast, Ordered, Before


\* A queue and its ends.
LEMMA Ends ==
  ASSUME NEW s \in Seq(Message)
  PROVE  /\ << >> \in Seq(Message) /\ << >> \o s = s /\ s \o << >> = s
         /\ \A e \in Message : Append(s, e) = s \o <<e>> /\ <<e>> \in Seq(Message)
                               /\ Append(s, e) \in Seq(Message)
         /\ s # << >> => s = <<Head(s)>> \o Tail(s) /\ Head(s) \in Message /\ Tail(s) \in Seq(Message)
                         /\ <<Head(s)>> \in Seq(Message)
  OBVIOUS

\* The queues between a writer and a client, the client's end first.
Flight(w, b, n, o) == w \o b \o n \o o

\* The versions of a key rise along q, up to the one the key has come to.
Rising(q, tops) == Ordered(q) /\ AllPast(q, tops)

\* All of q makes v of a client's w.
Leads(q, k, w, v) == Settles(q, k, v) /\ (Silent(q, k) => w = v)

\* A queue and the one behind it, as an operator that the provers do not expand.
Chain(s, t) == s \o t

\* Where a chain of queues is divided does not matter.
LEMMA Regroup ==
  ASSUME NEW x \in Seq(Message), NEW y \in Seq(Message), NEW z \in Seq(Message)
  PROVE  Chain(x, y) \in Seq(Message) /\ Chain(Chain(x, y), z) = Chain(x, Chain(y, z))
  <1>1. x \o y \in Seq(Message)
    OBVIOUS
  <1>2. (x \o y) \o z = x \o (y \o z)
    OBVIOUS
  <1>. QED  BY <1>1, <1>2 DEF Chain

\* The head of a queue may as well be at the end of the one before it.
LEMMA MoveHead ==
  ASSUME NEW x \in Seq(Message), NEW y \in Seq(Message), NEW z \in Seq(Message), z # << >>
  PROVE  /\ Chain(Append(y, Head(z)), Tail(z)) = Chain(y, z)
         /\ Chain(Chain(x, Append(y, Head(z))), Tail(z)) = Chain(Chain(x, y), z)
  <1>1. PICK e \in Seq(Message), t \in Seq(Message), f \in Seq(Message) :
          e = <<Head(z)>> /\ t = Tail(z) /\ f = Append(y, Head(z))
    BY Ends
  <1>2. z = Chain(e, t) /\ f = Chain(y, e)
    BY <1>1, Ends DEF Chain
  <1>3. Chain(f, t) = Chain(y, z)
    BY <1>2, Regroup
  <1>4. Chain(Chain(x, f), t) = Chain(Chain(x, y), z)
    BY <1>2, <1>3, Regroup
  <1>. QED  BY <1>1, <1>3, <1>4

\* Publishing, dispatching and sending move a message from one queue to the
\* next: what is on its way stays the same.
LEMMA Moves ==
  ASSUME NEW w \in Seq(Message), NEW b \in Seq(Message), NEW n \in Seq(Message), NEW o \in Seq(Message)
  PROVE  /\ o # << >> => Flight(w, b, Append(n, Head(o)), Tail(o)) = Flight(w, b, n, o)
         /\ n # << >> => Flight(w, Append(b, Head(n)), Tail(n), o) = Flight(w, b, n, o)
         /\ b # << >> => Flight(Append(w, Head(b)), Tail(b), n, o) = Flight(w, b, n, o)
  <1>1. \A s, t, u, v : Flight(s, t, u, v) = Chain(Chain(Chain(s, t), u), v)
    BY DEF Flight, Chain
  <1>2. Chain(w, b) \in Seq(Message)
    BY Regroup
  <1>3. ASSUME b # << >> PROVE Chain(Append(w, Head(b)), Tail(b)) = Chain(w, b)
    BY <1>3, MoveHead
  <1>4. ASSUME o # << >>
        PROVE  Chain(Chain(Chain(w, b), Append(n, Head(o))), Tail(o)) = Chain(Chain(Chain(w, b), n), o)
    BY <1>2, <1>4, MoveHead
  <1>5. ASSUME n # << >>
        PROVE  Chain(Chain(w, Append(b, Head(n))), Tail(n)) = Chain(Chain(w, b), n)
    BY <1>5, MoveHead
  <1>. QED  BY <1>1, <1>3, <1>4, <1>5

\* What holds of a flight in terms of its four queues.
LEMMA Segments ==
  ASSUME NEW w \in Seq(Message), NEW b \in Seq(Message), NEW n \in Seq(Message), NEW o \in Seq(Message)
  PROVE  /\ Flight(w, b, n, o) \in Seq(Message)
         /\ \A k : Silent(Flight(w, b, n, o), k) <=>
              Silent(w, k) /\ Silent(b, k) /\ Silent(n, k) /\ Silent(o, k)
         /\ \A k, v : Settles(Flight(w, b, n, o), k, v) <=>
              /\ Settles(o, k, v)
              /\ Silent(o, k) => Settles(n, k, v)
              /\ Silent(o, k) /\ Silent(n, k) => Settles(b, k, v)
              /\ Silent(o, k) /\ Silent(n, k) /\ Silent(b, k) => Settles(w, k, v)
         /\ \A tops : Rising(Flight(w, b, n, o), tops) <=>
              /\ Rising(w, tops) /\ Rising(b, tops) /\ Rising(n, tops) /\ Rising(o, tops)
              /\ Before(w, b) /\ Before(w, n) /\ Before(w, o)
              /\ Before(b, n) /\ Before(b, o)
              /\ Before(n, o)
  <1>. SUFFICES ASSUME NEW k, NEW v, NEW tops
       PROVE  /\ Flight(w, b, n, o) \in Seq(Message)
              /\ Silent(Flight(w, b, n, o), k) <=>
                   Silent(w, k) /\ Silent(b, k) /\ Silent(n, k) /\ Silent(o, k)
              /\ Settles(Flight(w, b, n, o), k, v) <=>
                   /\ Settles(o, k, v)
                   /\ Silent(o, k) => Settles(n, k, v)
                   /\ Silent(o, k) /\ Silent(n, k) => Settles(b, k, v)
                   /\ Silent(o, k) /\ Silent(n, k) /\ Silent(b, k) => Settles(w, k, v)
              /\ Rising(Flight(w, b, n, o), tops) <=>
                   /\ Rising(w, tops) /\ Rising(b, tops) /\ Rising(n, tops) /\ Rising(o, tops)
                   /\ Before(w, b) /\ Before(w, n) /\ Before(w, o)
                   /\ Before(b, n) /\ Before(b, o)
                   /\ Before(n, o)
    OBVIOUS
  <1>1. w \o b \in Seq(Message) /\ (w \o b) \o n \in Seq(Message)
    BY Behind
  <1>2. /\ Silent(Flight(w, b, n, o), k) <=> Silent((w \o b) \o n, k) /\ Silent(o, k)
        /\ Silent((w \o b) \o n, k) <=> Silent(w \o b, k) /\ Silent(n, k)
        /\ Silent(w \o b, k) <=> Silent(w, k) /\ Silent(b, k)
    BY <1>1, Behind DEF Flight
  <1>3. /\ Settles(Flight(w, b, n, o), k, v) <=> Settles(o, k, v) /\ (Silent(o, k) => Settles((w \o b) \o n, k, v))
        /\ Settles((w \o b) \o n, k, v) <=> Settles(n, k, v) /\ (Silent(n, k) => Settles(w \o b, k, v))
        /\ Settles(w \o b, k, v) <=> Settles(b, k, v) /\ (Silent(b, k) => Settles(w, k, v))
    BY <1>1, Behind, ZenonT(60) DEF Flight
  <1>4. /\ Ordered(Flight(w, b, n, o)) <=> Ordered((w \o b) \o n) /\ Ordered(o) /\ Before((w \o b) \o n, o)
        /\ Ordered((w \o b) \o n) <=> Ordered(w \o b) /\ Ordered(n) /\ Before(w \o b, n)
        /\ Ordered(w \o b) <=> Ordered(w) /\ Ordered(b) /\ Before(w, b)
    BY <1>1, Behind DEF Flight
  <1>5. /\ Before((w \o b) \o n, o) <=> Before(w \o b, o) /\ Before(n, o)
        /\ Before(w \o b, o) <=> Before(w, o) /\ Before(b, o)
        /\ Before(w \o b, n) <=> Before(w, n) /\ Before(b, n)
    BY <1>1, Behind
  <1>6. /\ AllPast(Flight(w, b, n, o), tops) <=> AllPast((w \o b) \o n, tops) /\ AllPast(o, tops)
        /\ AllPast((w \o b) \o n, tops) <=> AllPast(w \o b, tops) /\ AllPast(n, tops)
        /\ AllPast(w \o b, tops) <=> AllPast(w, tops) /\ AllPast(b, tops)
    BY <1>1, Behind DEF Flight
  <1>7. Flight(w, b, n, o) \in Seq(Message)
    BY <1>1, Behind DEF Flight
  <1>8. Rising(Flight(w, b, n, o), tops) <=>
              /\ Rising(w, tops) /\ Rising(b, tops) /\ Rising(n, tops) /\ Rising(o, tops)
              /\ Before(w, b) /\ Before(w, n) /\ Before(w, o)
              /\ Before(b, n) /\ Before(b, o)
              /\ Before(n, o)
    BY <1>4, <1>5, <1>6 DEF Rising
  <1>. QED  BY <1>2, <1>3, <1>7, <1>8

\* Without its first message.
LEMMA Rest ==
  ASSUME NEW s \in Seq(Message), s # << >>
  PROVE  /\ \A k : Silent(s, k) <=> ~ About(Head(s), k) /\ Silent(Tail(s), k)
         /\ \A k, v : Settles(s, k, v) <=>
              /\ Settles(Tail(s), k, v)
              /\ Silent(Tail(s), k) /\ About(Head(s), k) => Outcome(Head(s), k) = v
         /\ \A tops : Rising(s, tops) => Rising(Tail(s), tops)
         /\ \A u : Before(s, u) => Before(Tail(s), u)
         /\ \A u : Before(u, s) => Before(u, Tail(s))
  <1>. SUFFICES ASSUME NEW k, NEW v, NEW tops, NEW u
       PROVE  /\ Silent(s, k) <=> ~ About(Head(s), k) /\ Silent(Tail(s), k)
              /\ Settles(s, k, v) <=>
                   /\ Settles(Tail(s), k, v)
                   /\ Silent(Tail(s), k) /\ About(Head(s), k) => Outcome(Head(s), k) = v
              /\ Rising(s, tops) => Rising(Tail(s), tops)
              /\ Before(s, u) => Before(Tail(s), u)
              /\ Before(u, s) => Before(u, Tail(s))
    OBVIOUS
  <1>. DEFINE e == Head(s)
              t == Tail(s)
  <1>1. s = <<e>> \o t /\ <<e>> \in Seq(Message) /\ t \in Seq(Message)
    BY Ends
  <1>. HIDE DEF e, t
  <1>2. /\ Silent(s, k) <=> Silent(<<e>>, k) /\ Silent(t, k)
        /\ Settles(s, k, v) <=> Settles(t, k, v) /\ (Silent(t, k) => Settles(<<e>>, k, v))
        /\ Ordered(s) <=> Ordered(<<e>>) /\ Ordered(t) /\ Before(<<e>>, t)
        /\ Before(s, u) <=> Before(<<e>>, u) /\ Before(t, u)
        /\ Before(u, s) <=> Before(u, <<e>>) /\ Before(u, t)
        /\ AllPast(s, tops) <=> AllPast(<<e>>, tops) /\ AllPast(t, tops)
    BY <1>1, Behind
  <1>3. /\ Silent(<<e>>, k) <=> ~ About(e, k)
        /\ Settles(<<e>>, k, v) <=> (About(e, k) => Outcome(e, k) = v)
    BY OfOne
  <1>. QED  BY <1>2, <1>3 DEF e, t, Rising

\* What is lost on the way, or has arrived, leaves the rest in order.
LEMMA StaysRising ==
  ASSUME NEW w \in Seq(Message), NEW b \in Seq(Message), NEW n \in Seq(Message), NEW o \in Seq(Message),
         NEW tops, Rising(Flight(w, b, n, o), tops)
  PROVE  /\ w # << >> => Rising(Flight(Tail(w), b, n, o), tops)
         /\ n # << >> => Rising(Flight(w, b, Tail(n), o), tops)
         /\ o # << >> => Rising(Flight(w, b, n, Tail(o)), tops)
         /\ Rising(Flight(w, b, << >>, o), tops)
  <1>1. \A s \in Seq(Message) : s # << >> => Tail(s) \in Seq(Message)
    BY Ends
  <1>2. << >> \in Seq(Message)
    OBVIOUS
  <1>3. /\ Rising(w, tops) /\ Rising(b, tops) /\ Rising(n, tops) /\ Rising(o, tops)
        /\ Before(w, b) /\ Before(w, n) /\ Before(w, o)
        /\ Before(b, n) /\ Before(b, o)
        /\ Before(n, o)
    BY Segments
  <1>4. ASSUME w # << >> PROVE Rising(Flight(Tail(w), b, n, o), tops)
    <2>1. Rising(Tail(w), tops) /\ Before(Tail(w), b) /\ Before(Tail(w), n) /\ Before(Tail(w), o)
      BY <1>3, <1>4, Rest
    <2>. QED  BY <1>1, <1>3, <1>4, <2>1, Segments
  <1>5. ASSUME n # << >> PROVE Rising(Flight(w, b, Tail(n), o), tops)
    <2>1. Rising(Tail(n), tops) /\ Before(w, Tail(n)) /\ Before(b, Tail(n)) /\ Before(Tail(n), o)
      BY <1>3, <1>5, Rest
    <2>. QED  BY <1>1, <1>3, <1>5, <2>1, Segments
  <1>6. ASSUME o # << >> PROVE Rising(Flight(w, b, n, Tail(o)), tops)
    <2>1. Rising(Tail(o), tops) /\ Before(w, Tail(o)) /\ Before(b, Tail(o)) /\ Before(n, Tail(o))
      BY <1>3, <1>6, Rest
    <2>. QED  BY <1>1, <1>3, <1>6, <2>1, Segments
  <1>7. Rising(Flight(w, b, << >>, o), tops)
    <2>1. Rising(<< >>, tops) /\ Before(w, << >>) /\ Before(b, << >>) /\ Before(<< >>, o)
      BY OfNone DEF Rising
    <2>. QED  BY <1>2, <1>3, <2>1, Segments
  <1>. QED  BY <1>4, <1>5, <1>6, <1>7

\* A lost message does not change what the others make of another key; one
\* that has arrived has made its part of it.
LEMMA StaysLeading ==
  ASSUME NEW w \in Seq(Message), NEW b \in Seq(Message), NEW n \in Seq(Message), NEW o \in Seq(Message),
         NEW k, NEW v, NEW x, Leads(Flight(w, b, n, o), k, x, v)
  PROVE  /\ w # << >> =>
              Leads(Flight(Tail(w), b, n, o), k,
                    IF About(Head(w), k) THEN Outcome(Head(w), k) ELSE x, v)
         /\ n # << >> /\ ~ About(Head(n), k) => Leads(Flight(w, b, Tail(n), o), k, x, v)
         /\ o # << >> /\ ~ About(Head(o), k) => Leads(Flight(w, b, n, Tail(o)), k, x, v)
         /\ Silent(n, k) => Leads(Flight(w, b, << >>, o), k, x, v)
  <1>1. \A s \in Seq(Message) : s # << >> => Tail(s) \in Seq(Message)
    BY Ends
  <1>2. << >> \in Seq(Message) /\ Silent(<< >>, k) /\ Settles(<< >>, k, v)
    BY OfNone, SMTT(30)
  <1>3. /\ Settles(o, k, v)
        /\ Silent(o, k) => Settles(n, k, v)
        /\ Silent(o, k) /\ Silent(n, k) => Settles(b, k, v)
        /\ Silent(o, k) /\ Silent(n, k) /\ Silent(b, k) => Settles(w, k, v)
        /\ Silent(w, k) /\ Silent(b, k) /\ Silent(n, k) /\ Silent(o, k) => x = v
    BY Segments DEF Leads
  <1>4. ASSUME w # << >> PROVE Leads(Flight(Tail(w), b, n, o), k,
                 IF About(Head(w), k) THEN Outcome(Head(w), k) ELSE x, v)
    <2>1. /\ Silent(w, k) <=> ~ About(Head(w), k) /\ Silent(Tail(w), k)
          /\ Settles(w, k, v) <=> /\ Settles(Tail(w), k, v)
                                  /\ Silent(Tail(w), k) /\ About(Head(w), k) => Outcome(Head(w), k) = v
      BY <1>4, Rest
    <2>2. /\ Settles(Flight(Tail(w), b, n, o), k, v) <=>
               /\ Settles(o, k, v)
               /\ Silent(o, k) => Settles(n, k, v)
               /\ Silent(o, k) /\ Silent(n, k) => Settles(b, k, v)
               /\ Silent(o, k) /\ Silent(n, k) /\ Silent(b, k) => Settles(Tail(w), k, v)
          /\ Silent(Flight(Tail(w), b, n, o), k) <=>
               Silent(Tail(w), k) /\ Silent(b, k) /\ Silent(n, k) /\ Silent(o, k)
      BY <1>1, <1>4, Segments
    <2>. QED  BY <1>3, <2>1, <2>2 DEF Leads
  <1>5. ASSUME n # << >>, ~ About(Head(n), k) PROVE Leads(Flight(w, b, Tail(n), o), k, x, v)
    <2>1. /\ Silent(n, k) <=> Silent(Tail(n), k)
          /\ Settles(n, k, v) => Settles(Tail(n), k, v)
      BY <1>5, Rest
    <2>2. /\ Settles(Flight(w, b, Tail(n), o), k, v) <=>
               /\ Settles(o, k, v)
               /\ Silent(o, k) => Settles(Tail(n), k, v)
               /\ Silent(o, k) /\ Silent(Tail(n), k) => Settles(b, k, v)
               /\ Silent(o, k) /\ Silent(Tail(n), k) /\ Silent(b, k) => Settles(w, k, v)
          /\ Silent(Flight(w, b, Tail(n), o), k) <=>
               Silent(w, k) /\ Silent(b, k) /\ Silent(Tail(n), k) /\ Silent(o, k)
      BY <1>1, <1>5, Segments, ZenonT(60)
    <2>. QED  BY <1>3, <2>1, <2>2 DEF Leads
  <1>6. ASSUME o # << >>, ~ About(Head(o), k) PROVE Leads(Flight(w, b, n, Tail(o)), k, x, v)
    <2>1. /\ Silent(o, k) <=> Silent(Tail(o), k)
          /\ Settles(o, k, v) => Settles(Tail(o), k, v)
      BY <1>6, Rest
    <2>2. /\ Settles(Flight(w, b, n, Tail(o)), k, v) <=>
               /\ Settles(Tail(o), k, v)
               /\ Silent(Tail(o), k) => Settles(n, k, v)
               /\ Silent(Tail(o), k) /\ Silent(n, k) => Settles(b, k, v)
               /\ Silent(Tail(o), k) /\ Silent(n, k) /\ Silent(b, k) => Settles(w, k, v)
          /\ Silent(Flight(w, b, n, Tail(o)), k) <=>
               Silent(w, k) /\ Silent(b, k) /\ Silent(n, k) /\ Silent(Tail(o), k)
      BY <1>1, <1>6, Segments, ZenonT(60)
    <2>. QED  BY <1>3, <2>1, <2>2 DEF Leads
  <1>7. ASSUME Silent(n, k) PROVE Leads(Flight(w, b, << >>, o), k, x, v)
    <2>0. PICK e \in Seq(Message) : e = << >> /\ Silent(e, k) /\ Settles(e, k, v)
      BY <1>2
    <2>1. Settles(Flight(w, b, e, o), k, v) <=>
            /\ Settles(o, k, v)
            /\ Silent(o, k) => Settles(e, k, v)
            /\ Silent(o, k) /\ Silent(e, k) => Settles(b, k, v)
            /\ Silent(o, k) /\ Silent(e, k) /\ Silent(b, k) => Settles(w, k, v)
      BY Segments
    <2>2. Silent(Flight(w, b, e, o), k) <=>
            Silent(w, k) /\ Silent(b, k) /\ Silent(e, k) /\ Silent(o, k)
      BY Segments
    <2>3. Leads(Flight(w, b, e, o), k, x, v)
      BY <1>3, <1>7, <2>0, <2>1, <2>2 DEF Leads
    <2>. QED  BY <2>0, <2>3
  <1>. QED  BY <1>4, <1>5, <1>6, <1>7

\* The end of a flight settles what all of it does.
LEMMA EndSettles ==
  ASSUME NEW w \in Seq(Message), NEW b \in Seq(Message), NEW n \in Seq(Message), NEW o \in Seq(Message),
         NEW k, NEW v
  PROVE  /\ Settles(Flight(w, b, n, o), k, v) => Settles(Flight(<< >>, b, n, o), k, v)
         /\ Settles(Flight(w, b, n, o), k, v) => Settles(Flight(<< >>, << >>, n, o), k, v)
         /\ Settles(Flight(<< >>, << >>, n, o), k, v) => Settles(o, k, v)
         /\ n # << >> /\ Settles(Flight(<< >>, << >>, n, o), k, v)
              => Settles(Flight(<< >>, << >>, Tail(n), o), k, v)
         /\ Settles(o, k, v) => Settles(Flight(<< >>, << >>, << >>, o), k, v)
         /\ o # << >> /\ Settles(o, k, v) => Settles(Tail(o), k, v)
  <1>1. \A s \in Seq(Message) : s # << >> => Tail(s) \in Seq(Message)
    BY Ends
  <1>0. << >> \in Seq(Message) /\ Silent(<< >>, k) /\ Settles(<< >>, k, v)
    BY OfNone
  <1>2. PICK e \in Seq(Message) : e = << >> /\ Silent(e, k) /\ Settles(e, k, v)
    BY <1>0
  <1>3. \A s \in Seq(Message) : s # << >> =>
          /\ Silent(s, k) <=> ~ About(Head(s), k) /\ Silent(Tail(s), k)
          /\ Settles(s, k, v) => Settles(Tail(s), k, v)
    BY Rest
  <1>4. Settles(Flight(w, b, n, o), k, v) <=>
          /\ Settles(o, k, v)
          /\ Silent(o, k) => Settles(n, k, v)
          /\ Silent(o, k) /\ Silent(n, k) => Settles(b, k, v)
          /\ Silent(o, k) /\ Silent(n, k) /\ Silent(b, k) => Settles(w, k, v)
    BY Segments
  <1>5. Settles(Flight(e, b, n, o), k, v) <=>
          /\ Settles(o, k, v)
          /\ Silent(o, k) => Settles(n, k, v)
          /\ Silent(o, k) /\ Silent(n, k) => Settles(b, k, v)
          /\ Silent(o, k) /\ Silent(n, k) /\ Silent(b, k) => Settles(e, k, v)
    BY Segments
  <1>6. Settles(Flight(e, e, n, o), k, v) <=>
          /\ Settles(o, k, v)
          /\ Silent(o, k) => Settles(n, k, v)
          /\ Silent(o, k) /\ Silent(n, k) => Settles(e, k, v)
          /\ Silent(o, k) /\ Silent(n, k) /\ Silent(e, k) => Settles(e, k, v)
    BY Segments
  <1>7. Settles(Flight(e, e, e, o), k, v) <=>
          /\ Settles(o, k, v)
          /\ Silent(o, k) => Settles(e, k, v)
          /\ Silent(o, k) /\ Silent(e, k) => Settles(e, k, v)
          /\ Silent(o, k) /\ Silent(e, k) /\ Silent(e, k) => Settles(e, k, v)
    BY Segments
  <1>8. ASSUME n # << >>
        PROVE  Settles(Flight(e, e, Tail(n), o), k, v) <=>
                 /\ Settles(o, k, v)
                 /\ Silent(o, k) => Settles(Tail(n), k, v)
                 /\ Silent(o, k) /\ Silent(Tail(n), k) => Settles(e, k, v)
                 /\ Silent(o, k) /\ Silent(Tail(n), k) /\ Silent(e, k) => Settles(e, k, v)
    <2>1. PICK m \in Seq(Message) : m = Tail(n)
      BY <1>1, <1>8
    <2>2. Settles(Flight(e, e, m, o), k, v) <=>
            /\ Settles(o, k, v)
            /\ Silent(o, k) => Settles(m, k, v)
            /\ Silent(o, k) /\ Silent(m, k) => Settles(e, k, v)
            /\ Silent(o, k) /\ Silent(m, k) /\ Silent(e, k) => Settles(e, k, v)
      BY Segments
    <2>. QED  BY <2>1, <2>2
  <1>. QED  BY <1>2, <1>3, <1>4, <1>5, <1>6, <1>7, <1>8

\* A queue without a key says nothing of it.
LEMMA NotInQueue ==
  ASSUME NEW s \in Seq(Event), NEW k, k \notin KeysIn(s), NEW v
  PROVE  Silent(s, k) /\ Settles(s, k, v)
  <1>1. ASSUME NEW i \in DOMAIN s PROVE ~ About(s[i], k)
    <2>1. s[i] \in Event /\ s[i].key # k
      BY DEF KeysIn
    <2>. QED  BY <2>1 DEF About, Event
  <1>. QED  BY <1>1 DEF Silent, Settles

\* A set of places in a queue has a last one.
LEMMA LastPlace ==
  ASSUME NEW n \in Nat, NEW T \in SUBSET (1 .. n), T # {}
  PROVE  Max(T) \in T /\ \A j \in T : j <= Max(T)
  <1>. DEFINE Above(i) == {j \in T : j > i}
              M == {Above(i) : i \in T}
  <1>0. T \subseteq Nat /\ T \subseteq Int
    OBVIOUS
  <1>1. IsFiniteSet(T)
    <2>1. IsFiniteSet(1 .. n)
      BY FS_Interval
    <2>. QED  BY <2>1, FS_Subset
  <1>2. IsWellFoundedOn(StrictSubsetOrdering(T), SUBSET T)
    BY <1>1, FS_StrictSubsetOrderingWellFounded, FS_FiniteSubsetsOfFinite
  <1>3. M \subseteq SUBSET T /\ M # {}
    OBVIOUS
  <1>. HIDE DEF M, Above
  <1>4. PICK x \in M : \A y \in M : ~ (<<y, x>> \in StrictSubsetOrdering(T))
    BY <1>2, <1>3, WFMin
  <1>5. PICK m \in T : x = Above(m)
    BY <1>4 DEF M
  <1>6. ASSUME NEW j \in T, ~ (j <= m) PROVE FALSE
    <2>1. m \in Nat /\ j \in Nat /\ j > m
      BY <1>0, <1>6
    <2>a. \A i \in T : i > j => i > m
      BY <1>0, <2>1
    <2>b. Above(j) \subseteq Above(m)
      BY <2>a DEF Above
    <2>c. j \in Above(m) /\ j \notin Above(j) /\ Above(j) \in M
      BY <2>1 DEF Above, M
    <2>2. Above(j) \subseteq Above(m) /\ j \in Above(m) /\ j \notin Above(j) /\ Above(j) \in M
      BY <2>b, <2>c
    <2>3. <<Above(j), x>> \in StrictSubsetOrdering(T)
      BY <1>3, <1>5, <2>2 DEF StrictSubsetOrdering
    <2>. QED  BY <1>4, <2>2, <2>3
  <1>7. \E i \in T : \A j \in T : i >= j
    BY <1>0, <1>6
  <1>8. Max(T) \in T /\ \A j \in T : Max(T) >= j
    BY <1>7 DEF Max
  <1>9. Max(T) \in Nat
    BY <1>0, <1>8
  <1>. QED  BY <1>0, <1>8, <1>9

-----------------------------------------------------------------------------
(* What is on its way.                                                     *)

\* Only a stream has a replica and carries anything; a replica that does not
\* listen has no notifications.
Placed ==
  /\ \A c \in Clients : IF phase[c] = "down" THEN buffer[c] = << >> /\ wire[c] = << >>
                                             ELSE at[c] \in Replicas
  /\ \A r \in Replicas : ~ listening[r] => notified[r] = << >>

\* Whatever reaches a client, or would if it connected now, rises.
Feeds(h) ==
  /\ \A r \in Replicas : Rising(Flight(<< >>, << >>, notified[r], outbox[h]), top)
  /\ \A c \in Clients : phase[c] # "down" => Rising(InFlight(c, h), top)

\* What leads to the committed rows of the keys in K: the outbox, what a replica's
\* broker holds with it, the feed of a stream, and all that is on its way to a
\* client.
Leading(h, K) ==
  service =>
    /\ \A k \in K : Settles(outbox[h], k, variables[k])
    /\ \A c \in Clients, k \in K : k \notin missed[c] =>
         /\ \A r \in Replicas :
              Settles(Flight(<< >>, << >>, notified[r], outbox[h]), k, variables[k])
         /\ phase[c] # "down" =>
              Settles(Flight(<< >>, buffer[c], notified[at[c]], outbox[h]), k, variables[k])
         /\ phase[c] \in {"read", "live"} =>
              Leads(InFlight(c, h), k, view[c][k], variables[k])

\* The other handlers do nothing.
Alone(h) == \A g \in Handlers \ {h} : ~ (Write(g) \/ Publish(g) \/ PublishFails(g))

\* Events are messages.
LEMMA Queues ==
  ASSUME TypeOK, NEW h \in Handlers
  PROVE  /\ outbox[h] \in Seq(Message) /\ outbox[h] \in Seq(Event)
         /\ \A r \in Replicas : notified[r] \in Seq(Message) /\ notified[r] \in Seq(Event)
         /\ \A c \in Clients : buffer[c] \in Seq(Message) /\ buffer[c] \in Seq(Event)
                               /\ wire[c] \in Seq(Message)
         /\ << >> \in Seq(Message)
  <1>1. \A s \in Seq(Event) : s \in Seq(Message)
    BY DEF Message
  <1>. QED  BY <1>1 DEF TypeOK

\* A stream that ends takes its queues with it, a broker its notifications.
LEMMA PlacedStep ==
  ASSUME TypeOK, Placed, [Next]_vars
  PROVE  Placed'
  <1>1. CASE UNCHANGED vars
    BY <1>1 DEF vars, Placed
  <1>2. ASSUME NEW h \in Handlers, Write(h) PROVE Placed'
    <2>1. UNCHANGED <<broker, streams>>
      BY <1>2 DEF Write, CommitUpsert, CommitDelete
    <2>. QED  BY <2>1 DEF Placed, broker, streams
  <1>3. ASSUME NEW h \in Handlers, Publish(h) PROVE Placed'
    BY <1>3 DEF Publish, Placed, streams, TypeOK
  <1>4. ASSUME NEW h \in Handlers, PublishFails(h) PROVE Placed'
    BY <1>4 DEF PublishFails, Placed, broker, streams
  <1>5. CASE CommitDropService
    BY <1>5 DEF CommitDropService, Placed, broker, streams
  <1>6. ASSUME NEW r \in Replicas, Listen(r) PROVE Placed'
    BY <1>6 DEF Listen, Placed, streams, TypeOK
  <1>7. ASSUME NEW r \in Replicas, Dispatch(r) PROVE Placed'
    BY <1>7 DEF Dispatch, Placed, StreamsOf, Subscribed, TypeOK
  <1>8. ASSUME NEW r \in Replicas, ListenFails(r) PROVE Placed'
    BY <1>8 DEF ListenFails, Placed, streams, TypeOK
  <1>9. ASSUME NEW r \in Replicas, Restart(r) PROVE Placed'
    BY <1>9 DEF Restart, Cut, Placed, TypeOK
  <1>10. ASSUME NEW c \in Clients, NEW r \in Replicas, Connect(c, r) PROVE Placed'
    BY <1>10 DEF Connect, Placed, broker, TypeOK
  <1>11. ASSUME NEW c \in Clients, ReadSnapshot(c) \/ SendSnapshot(c) \/ SendChange(c) \/ Receive(c)
         PROVE  Placed'
    BY <1>11 DEF ReadSnapshot, SendSnapshot, SendChange, Receive, Placed, broker, TypeOK
  <1>12. ASSUME NEW c \in Clients, Disconnect(c) PROVE Placed'
    BY <1>12 DEF Disconnect, Cut, Placed, broker, TypeOK
  <1>. QED  BY <1>1, <1>2, <1>3, <1>4, <1>5, <1>6, <1>7, <1>8, <1>9, <1>10, <1>11, <1>12 DEF Next

\* The form of a commit: one event for each key of a set, in some order.
Announces(h, K, n, s, y) ==
  /\ s \in [1 .. n -> K]
  /\ \A i, j \in 1 .. n : s[i] = s[j] => i = j
  /\ \A k \in K : \E i \in 1 .. n : s[i] = k
  /\ outbox'[h] = [i \in 1 .. n |-> [type |-> y, key |-> s[i], version |-> top[s[i]] + 1]]
  /\ top' = [k \in Keys |-> IF k \in K THEN top[k] + 1 ELSE top[k]]
  /\ variables' = [k \in Keys |-> IF k \in K THEN (IF y = "upsert" THEN top[k] + 1 ELSE 0)
                                             ELSE variables[k]]

\* Upserts and deletes have that form.
LEMMA FormOfCommit ==
  ASSUME TypeOK, NEW h \in Handlers, Write(h)
  PROVE  \E K \in SUBSET Keys, n \in Nat : \E s, y :
           y \in {"upsert", "delete"} /\ Announces(h, K, n, s, y)
  <1>1. ASSUME NEW K \in SUBSET Keys, CommitUpsert(h, K)
        PROVE  \E n \in Nat : \E s : Announces(h, K, n, s, "upsert")
    <2>1. PICK s \in Orders(K) : outbox' = [outbox EXCEPT ![h] =
            [i \in DOMAIN s |-> [type |-> "upsert", key |-> s[i], version |-> top[s[i]] + 1]]]
      BY <1>1 DEF CommitUpsert
    <2>2. /\ Cardinality(K) \in Nat
          /\ s \in [1 .. Cardinality(K) -> K]
          /\ \A i, j \in DOMAIN s : s[i] = s[j] => i = j
          /\ \A k \in K : \E i \in DOMAIN s : s[i] = k
      BY OrderOfKeys
    <2>3. outbox'[h] = [i \in 1 .. Cardinality(K) |->
                          [type |-> "upsert", key |-> s[i], version |-> top[s[i]] + 1]]
      BY <2>1, <2>2 DEF TypeOK
    <2>4. Announces(h, K, Cardinality(K), s, "upsert")
      BY <1>1, <2>2, <2>3 DEF Announces, CommitUpsert
    <2>. QED  BY <2>2, <2>4
  <1>2. ASSUME NEW k \in Keys, CommitDelete(h, k)
        PROVE  \E n \in Nat : \E s : Announces(h, {k}, n, s, "delete")
    <2>. DEFINE s == [i \in 1 .. 1 |-> k]
    <2>1. outbox'[h] = << [type |-> "delete", key |-> k, version |-> top[k] + 1] >>
      BY <1>2 DEF CommitDelete, TypeOK
    <2>2. << [type |-> "delete", key |-> k, version |-> top[k] + 1] >> =
          [i \in 1 .. 1 |-> [type |-> "delete", key |-> s[i], version |-> top[s[i]] + 1]]
      OBVIOUS
    <2>3. /\ s \in [1 .. 1 -> {k}]
          /\ \A i, j \in 1 .. 1 : s[i] = s[j] => i = j
          /\ \A x \in {k} : \E i \in 1 .. 1 : s[i] = x
      OBVIOUS
    <2>4. /\ top' = [x \in Keys |-> IF x \in {k} THEN top[x] + 1 ELSE top[x]]
          /\ variables' = [x \in Keys |-> IF x \in {k} THEN (IF "delete" = "upsert" THEN top[x] + 1 ELSE 0)
                                                       ELSE variables[x]]
      BY <1>2 DEF CommitDelete, TypeOK
    <2>5. Announces(h, {k}, 1, s, "delete")
      BY <2>1, <2>2, <2>3, <2>4 DEF Announces
    <2>. QED  BY <2>5
  <1>. QED  BY <1>1, <1>2 DEF Write

\* A commit announces, for each of its keys, the row it has written, in a
\* version above all that are on their way.
LEMMA Announced ==
  ASSUME TypeOK, NEW h \in Handlers, Write(h)
  PROVE  /\ Rising(outbox'[h], top')
         /\ \A k \in Keys : /\ Settles(outbox'[h], k, variables'[k])
                            /\ Silent(outbox'[h], k) => variables'[k] = variables[k]
         /\ \A q \in Seq(Message) : AllPast(q, top) => AllPast(q, top') /\ Before(q, outbox'[h])
  <1>1. PICK K \in SUBSET Keys, n \in Nat : \E s, y :
           y \in {"upsert", "delete"} /\ Announces(h, K, n, s, y)
    BY FormOfCommit
  <1>2. PICK s, y : y \in {"upsert", "delete"} /\ Announces(h, K, n, s, y)
    BY <1>1
  <1>. DEFINE es == outbox'[h]
  <1>3. /\ DOMAIN es = 1 .. n
        /\ \A i \in 1 .. n : /\ es[i] = [type |-> y, key |-> s[i], version |-> top[s[i]] + 1]
                             /\ s[i] \in K
        /\ \A i, j \in 1 .. n : s[i] = s[j] => i = j
        /\ \A k \in K : \E i \in 1 .. n : s[i] = k
    BY <1>2 DEF Announces
  <1>4. /\ top' = [k \in Keys |-> IF k \in K THEN top[k] + 1 ELSE top[k]]
        /\ \A k \in Keys : variables'[k] = IF k \in K THEN (IF y = "upsert" THEN top[k] + 1 ELSE 0)
                                                      ELSE variables[k]
        /\ \A k \in Keys : top[k] \in Nat
    BY <1>2 DEF Announces, TypeOK
  <1>. HIDE DEF es
  <1>5. \A i \in 1 .. n : /\ es[i].type = y /\ es[i].key = s[i] /\ es[i].version = top[s[i]] + 1
                          /\ es[i].type # "snapshot"
    BY <1>2, <1>3
  <1>6. Ordered(es)
    <2>1. ASSUME NEW i \in 1 .. n, NEW j \in 1 .. n, i < j PROVE ~ Overtaken(es[i], es[j])
      BY <1>3, <1>5, <2>1 DEF Overtaken
    <2>. QED  BY <1>3, <2>1 DEF Ordered
  <1>7. AllPast(es, top')
    <2>1. ASSUME NEW i \in 1 .. n PROVE Past(es[i], top')
      <3>1. s[i] \in Keys /\ top'[s[i]] = top[s[i]] + 1
        BY <1>3, <1>4
      <3>. QED  BY <1>4, <1>5, <3>1 DEF Past
    <2>. QED  BY <1>3, <2>1 DEF AllPast
  <1>8. ASSUME NEW k \in Keys
        PROVE  /\ Settles(es, k, variables'[k])
               /\ Silent(es, k) => variables'[k] = variables[k]
    <2>1. \A i \in 1 .. n : About(es[i], k) <=> s[i] = k
      BY <1>5 DEF About
    <2>2. ASSUME NEW i \in 1 .. n, s[i] = k PROVE Outcome(es[i], k) = variables'[k]
      BY <1>2, <1>3, <1>4, <1>5, <2>2 DEF Outcome
    <2>3. Settles(es, k, variables'[k])
      BY <1>3, <2>1, <2>2 DEF Settles
    <2>4. ASSUME Silent(es, k) PROVE k \notin K
      BY <1>3, <2>1, <2>4 DEF Silent
    <2>. QED  BY <1>4, <2>3, <2>4
  <1>9. ASSUME NEW q \in Seq(Message), AllPast(q, top)
        PROVE  AllPast(q, top') /\ Before(q, es)
    <2>1. ASSUME NEW i \in DOMAIN q
          PROVE  \/ q[i].type = "snapshot"
                 \/ /\ q[i].key \in Keys /\ q[i].version \in Nat
                    /\ q[i].version <= top[q[i].key]
      <3>1. q[i] \in Message
        OBVIOUS
      <3>. QED  BY <1>9, <3>1 DEF AllPast, Past, Message, Event, Snapshot
    <2>2. ASSUME NEW i \in DOMAIN q PROVE Past(q[i], top')
      <3>1. \A k \in Keys : top[k] \in Nat /\ top'[k] \in {top[k], top[k] + 1}
        BY <1>4
      <3>. QED  BY <2>1, <3>1 DEF Past
    <2>3. ASSUME NEW i \in DOMAIN q, NEW j \in 1 .. n PROVE ~ Overtaken(q[i], es[j])
      BY <1>4, <1>5, <2>1 DEF Overtaken
    <2>. QED  BY <1>3, <2>2, <2>3 DEF AllPast, Before
  <1>. QED  BY <1>6, <1>7, <1>8, <1>9 DEF es, Rising

\* What a commit puts behind an empty outbox rises above it, and leads to the
\* new rows.
LEMMA Committed ==
  ASSUME TypeOK, NEW h \in Handlers, Write(h),
         NEW w \in Seq(Message), NEW b \in Seq(Message), NEW n \in Seq(Message)
  PROVE  /\ outbox[h] = << >>
         /\ Rising(Flight(w, b, n, outbox[h]), top) => Rising(Flight(w, b, n, outbox'[h]), top')
         /\ \A k \in Keys :
              Settles(Flight(w, b, n, outbox[h]), k, variables[k]) =>
                Settles(Flight(w, b, n, outbox'[h]), k, variables'[k])
         /\ \A k \in Keys : \A x :
              Leads(Flight(w, b, n, outbox[h]), k, x, variables[k]) =>
                Leads(Flight(w, b, n, outbox'[h]), k, x, variables'[k])
  <1>1. TypeOK'
    BY CommitTypes
  <1>2. outbox'[h] \in Seq(Message)
    BY <1>1 DEF TypeOK, Message
  <1>3. outbox[h] = << >>
    BY DEF Write, CommitUpsert, CommitDelete
  <1>4. PICK o \in Seq(Message) : o = outbox[h]
    BY Queues
  <1>5. PICK p \in Seq(Message) : p = outbox'[h]
    BY <1>2
  <1>6. ASSUME Rising(Flight(w, b, n, o), top) PROVE Rising(Flight(w, b, n, p), top')
    <2>1. /\ Rising(w, top) /\ Rising(b, top) /\ Rising(n, top)
          /\ Before(w, b) /\ Before(w, n) /\ Before(b, n)
      BY <1>6, Segments
    <2>2. \A q \in {w, b, n} : AllPast(q, top') /\ Before(q, p)
      BY <1>5, <2>1, Announced DEF Rising
    <2>3. /\ Rising(w, top') /\ Rising(b, top') /\ Rising(n, top') /\ Rising(p, top')
          /\ Before(w, p) /\ Before(b, p) /\ Before(n, p)
      BY <1>5, <2>1, <2>2, Announced DEF Rising
    <2>. QED  BY <2>1, <2>3, Segments
  <1>7. ASSUME NEW k \in Keys
        PROVE  /\ Settles(Flight(w, b, n, o), k, variables[k]) =>
                    Settles(Flight(w, b, n, p), k, variables'[k])
               /\ Silent(Flight(w, b, n, p), k) =>
                    Silent(Flight(w, b, n, o), k) /\ variables'[k] = variables[k]
    <2>1. /\ Settles(p, k, variables'[k])
          /\ Silent(p, k) => variables'[k] = variables[k]
      BY <1>5, Announced
    <2>2. Silent(o, k)
      BY <1>3, <1>4 DEF Silent
    <2>3. Settles(Flight(w, b, n, o), k, variables[k]) <=>
               /\ Settles(o, k, variables[k])
               /\ Silent(o, k) => Settles(n, k, variables[k])
               /\ Silent(o, k) /\ Silent(n, k) => Settles(b, k, variables[k])
               /\ Silent(o, k) /\ Silent(n, k) /\ Silent(b, k) => Settles(w, k, variables[k])
      BY Segments
    <2>4. Settles(Flight(w, b, n, p), k, variables'[k]) <=>
               /\ Settles(p, k, variables'[k])
               /\ Silent(p, k) => Settles(n, k, variables'[k])
               /\ Silent(p, k) /\ Silent(n, k) => Settles(b, k, variables'[k])
               /\ Silent(p, k) /\ Silent(n, k) /\ Silent(b, k) => Settles(w, k, variables'[k])
      BY Segments
    <2>5. /\ Silent(Flight(w, b, n, o), k) <=> Silent(w, k) /\ Silent(b, k) /\ Silent(n, k) /\ Silent(o, k)
          /\ Silent(Flight(w, b, n, p), k) <=> Silent(w, k) /\ Silent(b, k) /\ Silent(n, k) /\ Silent(p, k)
      BY Segments
    <2>. QED  BY <2>1, <2>2, <2>3, <2>4, <2>5
  <1>. QED  BY <1>3, <1>4, <1>5, <1>6, <1>7 DEF Leads

\* Every step keeps the feeds in order: it moves a message on, loses some, or
\* puts newer ones behind and a snapshot in front.
LEMMA FeedsStep ==
  ASSUME TypeOK, Placed, NEW h \in Handlers, Feeds(h), [Next]_vars, Alone(h)
  PROVE  Feeds(h)'
  <1>0. /\ h \in Handlers
        /\ outbox[h] \in Seq(Message) /\ << >> \in Seq(Message)
        /\ \A r \in Replicas : notified[r] \in Seq(Message)
        /\ \A c \in Clients : buffer[c] \in Seq(Message) /\ wire[c] \in Seq(Message)
    BY Queues
  <1>a. /\ \A r \in Replicas : Rising(Flight(<< >>, << >>, notified[r], outbox[h]), top)
        /\ \A c \in Clients : phase[c] # "down" =>
             at[c] \in Replicas /\ Rising(Flight(wire[c], buffer[c], notified[at[c]], outbox[h]), top)
    BY DEF Feeds, InFlight, Flight, Placed
  <1>. SUFFICES /\ \A r \in Replicas : Rising(Flight(<< >>, << >>, notified'[r], outbox'[h]), top')
                /\ \A c \in Clients : phase'[c] # "down" =>
                     Rising(Flight(wire'[c], buffer'[c], notified'[at'[c]], outbox'[h]), top')
    BY DEF Feeds, InFlight, Flight
  <1>. DEFINE Goal == /\ \A r \in Replicas : Rising(Flight(<< >>, << >>, notified'[r], outbox'[h]), top')
                      /\ \A c \in Clients : phase'[c] # "down" =>
                           Rising(Flight(wire'[c], buffer'[c], notified'[at'[c]], outbox'[h]), top')
  <1>1. CASE UNCHANGED vars
    BY <1>1, <1>a DEF vars
  <1>2. CASE Write(h)
    <2>1. UNCHANGED <<broker, streams>>
      BY <1>2 DEF Write, CommitUpsert, CommitDelete
    <2>. QED  BY <1>0, <1>2, <1>a, <2>1, Committed DEF broker, streams
  <1>3. CASE Publish(h) \/ PublishFails(h)
    <2>1. /\ outbox[h] # << >> /\ outbox'[h] = Tail(outbox[h])
          /\ UNCHANGED <<top, phase, at, buffer, wire>>
          /\ \A r \in Replicas : notified'[r] \in {notified[r], Append(notified[r], Head(outbox[h]))}
      BY <1>3 DEF Publish, PublishFails, TypeOK, store, streams, broker
    <2>2. ASSUME NEW w \in Seq(Message), NEW b \in Seq(Message), NEW r \in Replicas,
                 Rising(Flight(w, b, notified[r], outbox[h]), top)
          PROVE  Rising(Flight(w, b, notified'[r], outbox'[h]), top')
      <3>1. Rising(Flight(w, b, notified[r], Tail(outbox[h])), top)
        BY <1>0, <2>1, <2>2, StaysRising
      <3>2. Flight(w, b, Append(notified[r], Head(outbox[h])), Tail(outbox[h]))
              = Flight(w, b, notified[r], outbox[h])
        BY <1>0, <2>1, Moves
      <3>. QED  BY <2>1, <2>2, <3>1, <3>2
    <2>. QED  BY <1>0, <1>a, <2>1, <2>2
  <1>4. CASE CommitDropService
    BY <1>4, <1>a DEF CommitDropService, broker, streams
  <1>5. ASSUME NEW r \in Replicas, Listen(r) PROVE Goal
    BY <1>5, <1>a DEF Listen, store, streams
  <1>6. ASSUME NEW r \in Replicas, Dispatch(r) PROVE Goal
    <2>1. /\ notified[r] # << >> /\ notified'[r] = Tail(notified[r])
          /\ \A p \in Replicas : p # r => notified'[p] = notified[p]
          /\ UNCHANGED <<top, outbox, phase, at, wire>>
          /\ \A c \in Clients : phase[c] # "down" =>
               buffer'[c] = IF at[c] = r /\ ~ Full(c) THEN Append(buffer[c], Head(notified[r])) ELSE buffer[c]
      BY <1>6 DEF Dispatch, TypeOK, store, StreamsOf, Subscribed
    <2>2. ASSUME NEW p \in Replicas
          PROVE  Rising(Flight(<< >>, << >>, notified'[p], outbox'[h]), top')
      <3>1. PICK e \in Seq(Message) : e = << >>
        BY <1>0
      <3>2. Rising(Flight(e, e, notified[p], outbox[h]), top)
        BY <1>a, <3>1
      <3>3. Rising(Flight(e, e, notified'[p], outbox[h]), top)
        BY <1>0, <2>1, <3>2, StaysRising
      <3>. QED  BY <2>1, <3>1, <3>3
    <2>3. ASSUME NEW c \in Clients, phase[c] # "down"
          PROVE  Rising(Flight(wire[c], buffer'[c], notified'[at[c]], outbox[h]), top)
      <3>1. CASE at[c] # r
        BY <1>a, <2>1, <2>3, <3>1
      <3>2. CASE at[c] = r /\ Full(c)
        BY <1>0, <1>a, <2>1, <2>3, <3>2, StaysRising
      <3>3. CASE at[c] = r /\ ~ Full(c)
        <4>1. Flight(wire[c], Append(buffer[c], Head(notified[r])), Tail(notified[r]), outbox[h])
                = Flight(wire[c], buffer[c], notified[r], outbox[h])
          BY <1>0, <2>1, Moves
        <4>. QED  BY <1>a, <2>1, <2>3, <3>3, <4>1
      <3>. QED  BY <3>1, <3>2, <3>3
    <2>. QED  BY <2>1, <2>2, <2>3
  <1>7. ASSUME NEW r \in Replicas, ListenFails(r) \/ Restart(r) PROVE Goal
    <2>1. /\ notified'[r] = << >>
          /\ \A p \in Replicas : p # r => notified'[p] = notified[p]
          /\ UNCHANGED <<top, outbox>>
      BY <1>7 DEF ListenFails, Restart, TypeOK, store
    <2>2. \A c \in Clients : phase'[c] # "down" =>
            phase[c] # "down" /\ at'[c] = at[c] /\ wire'[c] = wire[c] /\ buffer'[c] = buffer[c]
      BY <1>7 DEF ListenFails, Restart, Cut, streams
    <2>3. ASSUME NEW w \in Seq(Message), NEW b \in Seq(Message), NEW p \in Replicas,
                 Rising(Flight(w, b, notified[p], outbox[h]), top)
          PROVE  Rising(Flight(w, b, notified'[p], outbox'[h]), top')
      <3>1. Rising(Flight(w, b, << >>, outbox[h]), top)
        BY <1>0, <2>3, StaysRising
      <3>. QED  BY <2>1, <2>3, <3>1
    <2>. QED  BY <1>0, <1>a, <2>2, <2>3
  <1>8. ASSUME NEW c \in Clients, NEW r \in Replicas, Connect(c, r) PROVE Goal
    <2>1. /\ wire[c] = << >> /\ buffer[c] = << >> /\ at'[c] = r
          /\ \A d \in Clients : d # c => phase'[d] = phase[d] /\ at'[d] = at[d]
          /\ UNCHANGED <<top, outbox, notified, buffer, wire>>
      BY <1>8 DEF Connect, Placed, TypeOK, store, broker
    <2>. QED  BY <1>a, <2>1
  <1>9. ASSUME NEW c \in Clients, ReadSnapshot(c) PROVE Goal
    <2>1. /\ wire'[c] = << [type |-> "snapshot", vars |-> variables] >>
          /\ \A d \in Clients : d # c => wire'[d] = wire[d] /\ phase'[d] = phase[d]
          /\ phase[c] # "down"
          /\ UNCHANGED <<top, outbox, notified, at, buffer>>
      BY <1>9 DEF ReadSnapshot, TypeOK, store, broker
    <2>2. wire'[c] \in Seq(Message)
      BY <2>1 DEF Message, Snapshot, TypeOK
    <2>3. PICK w \in Seq(Message) : w = wire'[c]
      BY <2>2
    <2>4. DOMAIN w = {1} /\ w[1].type = "snapshot"
      BY <2>1, <2>3
    <2>5. Rising(w, top) /\ \A q : Before(w, q)
      BY <2>4 DEF Rising, Ordered, Before, AllPast, Past, Overtaken
    <2>6. Rising(Flight(w, buffer[c], notified[at[c]], outbox[h]), top)
      <3>1. at[c] \in Replicas /\ Rising(Flight(wire[c], buffer[c], notified[at[c]], outbox[h]), top)
        BY <1>a, <2>1
      <3>2. PICK x, b, n, o \in Seq(Message) :
              x = wire[c] /\ b = buffer[c] /\ n = notified[at[c]] /\ o = outbox[h]
        BY <1>0, <3>1
      <3>3. /\ Rising(b, top) /\ Rising(n, top) /\ Rising(o, top)
            /\ Before(b, n) /\ Before(b, o)
            /\ Before(n, o)
        <4>1. Rising(Flight(x, b, n, o), top)
          BY <3>1, <3>2
        <4>. QED  BY <4>1, Segments
      <3>4. Rising(Flight(w, b, n, o), top)
        BY <2>5, <3>3, Segments
      <3>. QED  BY <3>2, <3>4
    <2>. QED  BY <1>a, <2>1, <2>3, <2>6
  <1>10. ASSUME NEW c \in Clients, SendSnapshot(c) PROVE Goal
    <2>1. /\ \A d \in Clients : d # c => phase'[d] = phase[d]
          /\ phase[c] # "down"
          /\ UNCHANGED <<top, outbox, notified, at, buffer, wire>>
      BY <1>10 DEF SendSnapshot, TypeOK, store, broker
    <2>. QED  BY <1>a, <2>1
  <1>11. ASSUME NEW c \in Clients, SendChange(c) PROVE Goal
    <2>1. /\ buffer[c] # << >> /\ phase[c] # "down"
          /\ wire'[c] = Append(wire[c], Head(buffer[c])) /\ buffer'[c] = Tail(buffer[c])
          /\ \A d \in Clients : d # c => wire'[d] = wire[d] /\ buffer'[d] = buffer[d]
          /\ UNCHANGED <<top, outbox, notified, at, phase>>
      BY <1>11 DEF SendChange, TypeOK, store, broker
    <2>2. Flight(wire'[c], buffer'[c], notified[at[c]], outbox[h])
            = Flight(wire[c], buffer[c], notified[at[c]], outbox[h])
      BY <1>0, <1>a, <2>1, Moves
    <2>. QED  BY <1>a, <2>1, <2>2
  <1>12. ASSUME NEW c \in Clients, Receive(c) PROVE Goal
    <2>1. /\ wire[c] # << >> /\ phase[c] # "down"
          /\ wire'[c] = Tail(wire[c])
          /\ \A d \in Clients : d # c => wire'[d] = wire[d]
          /\ UNCHANGED <<top, outbox, notified, at, phase, buffer>>
      BY <1>12 DEF Receive, TypeOK, store, broker
    <2>2. Rising(Flight(wire'[c], buffer[c], notified[at[c]], outbox[h]), top)
      BY <1>0, <1>a, <2>1, StaysRising
    <2>. QED  BY <1>a, <2>1, <2>2
  <1>13. ASSUME NEW c \in Clients, Disconnect(c) PROVE Goal
    <2>1. /\ \A d \in Clients : phase'[d] # "down" =>
               phase[d] # "down" /\ at'[d] = at[d] /\ wire'[d] = wire[d] /\ buffer'[d] = buffer[d]
          /\ UNCHANGED <<top, outbox, notified>>
      BY <1>13 DEF Disconnect, Cut, store, broker
    <2>. QED  BY <1>a, <2>1
  <1>. QED  BY <1>1, <1>2, <1>3, <1>4, <1>5, <1>6, <1>7, <1>8, <1>9, <1>10, <1>11, <1>12, <1>13
            DEF Next, Alone

\* Every step keeps what leads to the committed rows: a commit puts the new row
\* at the end of all queues, a loss is counted in missed, a snapshot is the row.
LEMMA LeadingStep ==
  ASSUME TypeOK, Placed, NEW h \in Handlers, NEW K \in SUBSET Keys, Leading(h, K), [Next]_vars, Alone(h)
  PROVE  Leading(h, K)'
  <1>0. /\ h \in Handlers
        /\ outbox[h] \in Seq(Message) /\ outbox[h] \in Seq(Event) /\ << >> \in Seq(Message)
        /\ \A r \in Replicas : notified[r] \in Seq(Message) /\ notified[r] \in Seq(Event)
        /\ \A c \in Clients : /\ buffer[c] \in Seq(Message) /\ buffer[c] \in Seq(Event)
                              /\ wire[c] \in Seq(Message)
    BY Queues
  <1>1. service' => service
    BY DEF Next, vars, Write, CommitUpsert, CommitDelete, CommitDropService, Publish, PublishFails,
           Listen, Dispatch, ListenFails, Restart, Connect, ReadSnapshot, SendSnapshot, SendChange,
           Receive, Disconnect, store
  <1>. SUFFICES ASSUME service, service' PROVE Leading(h, K)'
    BY <1>1 DEF Leading
  \* A settled key is one for which a client with the right value is led to it.
  <1>2. \A q, k, v : Settles(q, k, v) <=> Leads(q, k, v, v)
    BY DEF Leads
  <1>a. /\ \A k \in K : Settles(outbox[h], k, variables[k])
        /\ \A c \in Clients, k \in K : k \notin missed[c] =>
             /\ \A r \in Replicas :
                  Settles(Flight(<< >>, << >>, notified[r], outbox[h]), k, variables[k])
             /\ phase[c] # "down" =>
                  /\ at[c] \in Replicas
                  /\ Settles(Flight(<< >>, buffer[c], notified[at[c]], outbox[h]), k, variables[k])
             /\ phase[c] \in {"read", "live"} =>
                  /\ at[c] \in Replicas
                  /\ Leads(Flight(wire[c], buffer[c], notified[at[c]], outbox[h]), k, view[c][k], variables[k])
    BY DEF Leading, InFlight, Flight, Placed
  <1>. DEFINE Out == \A k \in K : Settles(outbox'[h], k, variables'[k])
              Led(c, k) == /\ \A r \in Replicas :
                                Settles(Flight(<< >>, << >>, notified'[r], outbox'[h]), k, variables'[k])
                           /\ phase'[c] # "down" =>
                                Settles(Flight(<< >>, buffer'[c], notified'[at'[c]], outbox'[h]), k, variables'[k])
                           /\ phase'[c] \in {"read", "live"} =>
                                Leads(Flight(wire'[c], buffer'[c], notified'[at'[c]], outbox'[h]), k,
                                      view'[c][k], variables'[k])
              Goal == Out /\ \A c \in Clients, k \in K : k \notin missed'[c] => Led(c, k)
  <1>. SUFFICES Goal
    BY DEF Leading, InFlight, Flight
  <1>3. CASE UNCHANGED vars
    BY <1>3, <1>a DEF vars
  <1>4. CASE Write(h)
    <2>1. UNCHANGED <<broker, streams, view, missed>>
      BY <1>4 DEF Write, CommitUpsert, CommitDelete
    <2>2. Out
      BY <1>0, <1>4, Announced
    <2>3. ASSUME NEW c \in Clients, NEW k \in K, k \notin missed[c] PROVE Led(c, k)
      BY <1>0, <1>4, <1>a, <2>1, <2>3, Committed DEF broker, streams
    <2>. QED  BY <2>1, <2>2, <2>3
  <1>5. CASE Publish(h)
    <2>1. /\ outbox[h] # << >> /\ outbox'[h] = Tail(outbox[h])
          /\ \A r \in Replicas : notified'[r] =
               IF listening[r] THEN Append(notified[r], Head(outbox[h])) ELSE notified[r]
          /\ \A c \in Clients : /\ missed[c] \subseteq missed'[c]
                                /\ phase[c] # "down" /\ ~ listening[at[c]] => Head(outbox[h]).key \in missed'[c]
          /\ UNCHANGED <<variables, phase, at, buffer, wire, view>>
      BY <1>5 DEF Publish, TypeOK, store, streams, Subscribed
    <2>2. Out
      BY <1>0, <1>a, <2>1, EndSettles
    <2>3. ASSUME NEW r \in Replicas, NEW k \in K,
                 Settles(Flight(<< >>, << >>, notified[r], outbox[h]), k, variables[k])
          PROVE  Settles(Flight(<< >>, << >>, notified'[r], outbox'[h]), k, variables[k])
      <3>1. CASE listening[r]
        <4>1. Flight(<< >>, << >>, Append(notified[r], Head(outbox[h])), Tail(outbox[h]))
                = Flight(<< >>, << >>, notified[r], outbox[h])
          BY <1>0, <2>1, Moves, ZenonT(60)
        <4>. QED  BY <2>1, <2>3, <3>1, <4>1
      <3>2. CASE ~ listening[r]
        <4>1. notified'[r] = << >>
          BY <2>1, <3>2 DEF Placed
        <4>2. Settles(outbox'[h], k, variables[k]) /\ outbox'[h] \in Seq(Message)
          BY <1>0, <2>1, <2>2, Ends
        <4>. QED  BY <1>0, <4>1, <4>2, EndSettles
      <3>. QED  BY <3>1, <3>2
    <2>4. ASSUME NEW c \in Clients, phase[c] # "down", NEW k \in K, k \notin missed'[c],
                 NEW w \in Seq(Message), NEW b \in Seq(Message), NEW x,
                 Leads(Flight(w, b, notified[at[c]], outbox[h]), k, x, variables[k])
          PROVE  Leads(Flight(w, b, notified'[at[c]], outbox'[h]), k, x, variables[k])
      <3>0. at[c] \in Replicas
        BY <2>4 DEF Placed
      <3>1. CASE listening[at[c]]
        BY <1>0, <2>1, <2>4, <3>0, <3>1, Moves
      <3>2. CASE ~ listening[at[c]]
        <4>0. Head(outbox[h]) \in Event
          BY <1>0, <2>1, QueueTypes
        <4>1. Head(outbox[h]).key # k /\ Head(outbox[h]) \in Event
          BY <2>1, <2>4, <3>2, <4>0
        <4>2. ~ About(Head(outbox[h]), k)
          BY <4>1 DEF About, Event
        <4>. QED  BY <1>0, <2>1, <2>4, <3>0, <3>2, <4>2, StaysLeading
      <3>. QED  BY <3>1, <3>2
    <2>5. ASSUME NEW c \in Clients, NEW k \in K, k \notin missed'[c] PROVE Led(c, k)
      <3>1. k \notin missed[c]
        BY <2>1, <2>5
      <3>. QED  BY <1>0, <1>2, <1>a, <2>1, <2>3, <2>4, <2>5, <3>1
    <2>. QED  BY <2>2, <2>5
  <1>6. CASE PublishFails(h)
    <2>1. /\ outbox[h] # << >> /\ outbox'[h] = Tail(outbox[h])
          /\ \A c \in Clients : missed'[c] = missed[c] \cup {Head(outbox[h]).key}
          /\ UNCHANGED <<variables, notified, phase, at, buffer, wire, view>>
      BY <1>6 DEF PublishFails, TypeOK, store, broker, streams
    <2>2. Out
      BY <1>0, <1>a, <2>1, EndSettles
    <2>3. ASSUME NEW k \in K, k # Head(outbox[h]).key,
                 NEW w \in Seq(Message), NEW b \in Seq(Message), NEW r \in Replicas, NEW x,
                 Leads(Flight(w, b, notified[r], outbox[h]), k, x, variables[k])
          PROVE  Leads(Flight(w, b, notified'[r], outbox'[h]), k, x, variables[k])
      <3>1. Head(outbox[h]) \in Event
        BY <1>0, <2>1, QueueTypes
      <3>2. ~ About(Head(outbox[h]), k)
        BY <2>3, <3>1 DEF About, Event
      <3>. QED  BY <1>0, <2>1, <2>3, <3>2, StaysLeading
    <2>4. ASSUME NEW c \in Clients, NEW k \in K, k \notin missed'[c] PROVE Led(c, k)
      <3>1. k \notin missed[c] /\ k # Head(outbox[h]).key
        BY <2>1, <2>4
      <3>. QED  BY <1>0, <1>2, <1>a, <2>1, <2>3, <3>1
    <2>. QED  BY <2>2, <2>4
  <1>7. CASE CommitDropService
    BY <1>7 DEF CommitDropService
  <1>8. ASSUME NEW r \in Replicas, Listen(r) PROVE Goal
    BY <1>8, <1>a DEF Listen, store, streams
  <1>9. ASSUME NEW r \in Replicas, Dispatch(r) PROVE Goal
    <2>1. /\ notified[r] # << >> /\ notified'[r] = Tail(notified[r])
          /\ \A p \in Replicas : p # r => notified'[p] = notified[p]
          /\ \A c \in Clients : phase[c] # "down" =>
               buffer'[c] = IF at[c] = r /\ ~ Full(c) THEN Append(buffer[c], Head(notified[r])) ELSE buffer[c]
          /\ \A c \in Clients : /\ missed[c] \subseteq missed'[c]
                                /\ phase[c] # "down" /\ at[c] = r /\ Full(c) => Head(notified[r]).key \in missed'[c]
          /\ UNCHANGED <<variables, outbox, phase, at, wire, view>>
      BY <1>9 DEF Dispatch, TypeOK, store, StreamsOf, Subscribed
    <2>2. ASSUME NEW p \in Replicas, NEW k \in K,
                 Settles(Flight(<< >>, << >>, notified[p], outbox[h]), k, variables[k])
          PROVE  Settles(Flight(<< >>, << >>, notified'[p], outbox[h]), k, variables[k])
      BY <1>0, <2>1, <2>2, EndSettles
    <2>3. ASSUME NEW c \in Clients, phase[c] # "down", NEW k \in K, k \notin missed'[c],
                 NEW w \in Seq(Message), NEW x,
                 Leads(Flight(w, buffer[c], notified[at[c]], outbox[h]), k, x, variables[k])
          PROVE  Leads(Flight(w, buffer'[c], notified'[at[c]], outbox[h]), k, x, variables[k])
      <3>0. at[c] \in Replicas
        BY <2>3 DEF Placed
      <3>1. CASE at[c] # r
        BY <2>1, <2>3, <3>0, <3>1
      <3>2. CASE at[c] = r /\ ~ Full(c)
        BY <1>0, <2>1, <2>3, <3>2, Moves
      <3>3. CASE at[c] = r /\ Full(c)
        <4>0. Head(notified[r]) \in Event
          BY <1>0, <2>1, QueueTypes
        <4>1. Head(notified[r]).key # k /\ Head(notified[r]) \in Event
          BY <2>1, <2>3, <3>3, <4>0
        <4>2. ~ About(Head(notified[r]), k)
          BY <4>1 DEF About, Event
        <4>. QED  BY <1>0, <2>1, <2>3, <3>3, <4>2, StaysLeading
      <3>. QED  BY <3>1, <3>2, <3>3
    <2>4. ASSUME NEW c \in Clients, NEW k \in K, k \notin missed'[c] PROVE Led(c, k)
      <3>1. k \notin missed[c]
        BY <2>1, <2>4
      <3>. QED  BY <1>0, <1>2, <1>a, <2>1, <2>2, <2>3, <2>4, <3>1
    <2>. QED  BY <1>a, <2>1, <2>4
  <1>10. ASSUME NEW r \in Replicas, ListenFails(r) \/ Restart(r) PROVE Goal
    <2>1. /\ notified'[r] = << >>
          /\ \A p \in Replicas : p # r => notified'[p] = notified[p]
          /\ UNCHANGED <<variables, outbox, view>>
      BY <1>10 DEF ListenFails, Restart, TypeOK, store
    <2>2. \A c \in Clients :
            /\ missed[c] \subseteq missed'[c]
            /\ phase'[c] # "down" =>
                 /\ phase[c] # "down" /\ phase'[c] = phase[c] /\ at'[c] = at[c]
                 /\ wire'[c] = wire[c] /\ buffer'[c] = buffer[c]
                 /\ at[c] = r => KeysIn(notified[r]) \subseteq missed'[c]
      BY <1>10 DEF ListenFails, Restart, Cut, streams, StreamsOf, Subscribed
    <2>3. ASSUME NEW p \in Replicas, NEW k \in K,
                 Settles(Flight(<< >>, << >>, notified[p], outbox[h]), k, variables[k])
          PROVE  Settles(Flight(<< >>, << >>, notified'[p], outbox'[h]), k, variables'[k])
      <3>1. CASE p = r
        BY <1>0, <1>a, <2>1, <3>1, EndSettles
      <3>2. CASE p # r
        BY <2>1, <2>3, <3>2
      <3>. QED  BY <3>1, <3>2
    <2>4. ASSUME NEW c \in Clients, phase'[c] # "down", NEW k \in K, k \notin missed'[c],
                 NEW w \in Seq(Message), NEW x,
                 Leads(Flight(w, buffer[c], notified[at[c]], outbox[h]), k, x, variables[k])
          PROVE  Leads(Flight(w, buffer[c], notified'[at[c]], outbox'[h]), k, x, variables'[k])
      <3>0. at[c] \in Replicas
        BY <2>2, <2>4 DEF Placed
      <3>1. CASE at[c] # r
        BY <2>1, <2>4, <3>0, <3>1
      <3>2. CASE at[c] = r
        <4>1. Silent(notified[r], k)
          BY <1>0, <2>2, <2>4, <3>2, NotInQueue
        <4>. QED  BY <1>0, <2>1, <2>4, <3>2, <4>1, StaysLeading
      <3>. QED  BY <3>1, <3>2
    <2>5. ASSUME NEW c \in Clients, NEW k \in K, k \notin missed'[c] PROVE Led(c, k)
      <3>1. k \notin missed[c]
        BY <2>2, <2>5
      <3>. QED  BY <1>0, <1>2, <1>a, <2>1, <2>2, <2>3, <2>4, <2>5, <3>1
    <2>. QED  BY <1>a, <2>1, <2>5
  <1>11. ASSUME NEW c \in Clients, NEW r \in Replicas, Connect(c, r) PROVE Goal
    <2>1. /\ buffer[c] = << >> /\ at'[c] = r /\ phase'[c] = "open"
          /\ \A d \in Clients : d # c => phase'[d] = phase[d] /\ at'[d] = at[d]
          /\ UNCHANGED <<variables, outbox, notified, buffer, wire, view, missed>>
      BY <1>11 DEF Connect, Placed, TypeOK, store, broker
    <2>. QED  BY <1>a, <2>1
  <1>12. ASSUME NEW c \in Clients, ReadSnapshot(c) PROVE Goal
    <2>1. /\ wire'[c] = << [type |-> "snapshot", vars |-> variables] >>
          /\ missed'[c] = missed[c] \cap (KeysIn(buffer[c]) \cup UNION {KeysIn(notified[r]) : r \in Replicas})
          /\ \A d \in Clients : d # c => wire'[d] = wire[d] /\ phase'[d] = phase[d] /\ missed'[d] = missed[d]
          /\ phase[c] # "down" /\ at[c] \in Replicas
          /\ UNCHANGED <<variables, outbox, notified, at, buffer, view>>
      BY <1>12 DEF ReadSnapshot, TypeOK, store, broker, Placed
    <2>2. wire'[c] \in Seq(Message)
      BY <2>1 DEF Message, Snapshot, TypeOK
    <2>3. PICK w \in Seq(Message) : w = wire'[c]
      BY <2>2
    <2>4. ASSUME NEW k \in K PROVE Settles(w, k, variables[k]) /\ ~ Silent(w, k)
      <3>1. DOMAIN w = {1} /\ w[1] = [type |-> "snapshot", vars |-> variables]
        BY <2>1, <2>3
      <3>2. About(w[1], k) /\ Outcome(w[1], k) = variables[k]
        BY <3>1 DEF About, Outcome
      <3>. QED  BY <3>1, <3>2 DEF Settles, Silent
    <2>5. ASSUME NEW k \in K, k \notin missed'[c], k \in missed[c]
          PROVE  /\ Silent(buffer[c], k) /\ Settles(buffer[c], k, variables[k])
                 /\ \A r \in Replicas : Silent(notified[r], k) /\ Settles(notified[r], k, variables[k])
      <3>1. k \notin KeysIn(buffer[c])
        BY <2>1, <2>5
      <3>2. \A r \in Replicas : k \notin KeysIn(notified[r])
        BY <2>1, <2>5
      <3>. QED  BY <1>0, <3>1, <3>2, NotInQueue
    <2>6. \A k : Silent(<< >>, k) /\ \A v : Settles(<< >>, k, v)
      BY OfNone
    <2>7. PICK e \in Seq(Message) : e = << >>
      BY <1>0
    <2>8. ASSUME NEW k \in K, k \notin missed'[c], NEW r \in Replicas
          PROVE  Settles(Flight(e, e, notified[r], outbox[h]), k, variables[k])
      <3>1. CASE k \notin missed[c]
        BY <1>a, <2>7, <3>1
      <3>2. CASE k \in missed[c]
        <4>1. Settles(Flight(e, e, notified[r], outbox[h]), k, variables[k]) <=>
                /\ Settles(outbox[h], k, variables[k])
                /\ Silent(outbox[h], k) => Settles(notified[r], k, variables[k])
                /\ Silent(outbox[h], k) /\ Silent(notified[r], k) => Settles(e, k, variables[k])
                /\ Silent(outbox[h], k) /\ Silent(notified[r], k) /\ Silent(e, k) => Settles(e, k, variables[k])
          BY <1>0, Segments
        <4>. QED  BY <1>a, <2>5, <2>6, <2>7, <2>8, <3>2, <4>1
      <3>. QED  BY <3>1, <3>2
    <2>9. ASSUME NEW k \in K, k \notin missed'[c]
          PROVE  Settles(Flight(e, buffer[c], notified[at[c]], outbox[h]), k, variables[k])
      <3>1. CASE k \notin missed[c]
        BY <1>a, <2>1, <2>7, <3>1
      <3>2. CASE k \in missed[c]
        <4>0. PICK n \in Seq(Message) : n = notified[at[c]]
          BY <1>0, <2>1
        <4>1. Settles(Flight(e, buffer[c], n, outbox[h]), k, variables[k]) <=>
                /\ Settles(outbox[h], k, variables[k])
                /\ Silent(outbox[h], k) => Settles(n, k, variables[k])
                /\ Silent(outbox[h], k) /\ Silent(n, k) => Settles(buffer[c], k, variables[k])
                /\ Silent(outbox[h], k) /\ Silent(n, k) /\ Silent(buffer[c], k) => Settles(e, k, variables[k])
          BY <1>0, Segments
        <4>2. Settles(n, k, variables[k]) /\ Settles(buffer[c], k, variables[k]) /\ Settles(e, k, variables[k])
          BY <2>1, <2>5, <2>6, <2>7, <2>9, <3>2, <4>0
        <4>. QED  BY <1>a, <4>0, <4>1, <4>2
      <3>. QED  BY <3>1, <3>2
    <2>10. ASSUME NEW k \in K, k \notin missed'[c]
           PROVE  Leads(Flight(w, buffer[c], notified[at[c]], outbox[h]), k, view[c][k], variables[k])
      <3>0. PICK b, n, o \in Seq(Message) : b = buffer[c] /\ n = notified[at[c]] /\ o = outbox[h]
        BY <1>0, <2>1
      <3>1. Settles(Flight(e, b, n, o), k, variables[k])
        BY <2>9, <2>10, <3>0
      <3>2. Settles(Flight(e, b, n, o), k, variables[k]) <=>
              /\ Settles(o, k, variables[k])
              /\ Silent(o, k) => Settles(n, k, variables[k])
              /\ Silent(o, k) /\ Silent(n, k) => Settles(b, k, variables[k])
              /\ Silent(o, k) /\ Silent(n, k) /\ Silent(b, k) => Settles(e, k, variables[k])
        BY Segments
      <3>3. Settles(Flight(w, b, n, o), k, variables[k]) <=>
              /\ Settles(o, k, variables[k])
              /\ Silent(o, k) => Settles(n, k, variables[k])
              /\ Silent(o, k) /\ Silent(n, k) => Settles(b, k, variables[k])
              /\ Silent(o, k) /\ Silent(n, k) /\ Silent(b, k) => Settles(w, k, variables[k])
        BY Segments
      <3>4. ~ Silent(Flight(w, b, n, o), k)
        BY <2>4, Segments
      <3>5. Leads(Flight(w, b, n, o), k, view[c][k], variables[k])
        BY <2>4, <3>1, <3>2, <3>3, <3>4 DEF Leads
      <3>. QED  BY <3>0, <3>5
    <2>. QED  BY <1>a, <2>1, <2>3, <2>7, <2>8, <2>9, <2>10
  <1>13. ASSUME NEW c \in Clients, SendSnapshot(c) PROVE Goal
    <2>1. /\ \A d \in Clients : d # c => phase'[d] = phase[d]
          /\ phase[c] = "read"
          /\ UNCHANGED <<variables, outbox, notified, at, buffer, wire, view, missed>>
      BY <1>13 DEF SendSnapshot, TypeOK, store, broker
    <2>. QED  BY <1>a, <2>1
  <1>14. ASSUME NEW c \in Clients, SendChange(c) PROVE Goal
    <2>1. /\ buffer[c] # << >> /\ phase[c] = "live" /\ at[c] \in Replicas
          /\ wire'[c] = Append(wire[c], Head(buffer[c])) /\ buffer'[c] = Tail(buffer[c])
          /\ \A d \in Clients : d # c => wire'[d] = wire[d] /\ buffer'[d] = buffer[d]
          /\ UNCHANGED <<variables, outbox, notified, at, phase, view, missed>>
      BY <1>14 DEF SendChange, TypeOK, store, broker, Placed
    <2>2. Flight(wire'[c], buffer'[c], notified[at[c]], outbox[h])
            = Flight(wire[c], buffer[c], notified[at[c]], outbox[h])
      BY <1>0, <2>1, Moves
    <2>3. wire'[c] \in Seq(Message) /\ buffer'[c] \in Seq(Message)
      BY <1>0, <2>1, Ends
    <2>4. ASSUME NEW k \in K, k \notin missed[c]
          PROVE  Settles(Flight(<< >>, buffer'[c], notified[at[c]], outbox[h]), k, variables[k])
      <3>1. Settles(Flight(wire'[c], buffer'[c], notified[at[c]], outbox[h]), k, variables[k])
        BY <1>a, <2>1, <2>2, <2>4 DEF Leads
      <3>. QED  BY <1>0, <2>1, <2>3, <3>1, EndSettles, ZenonT(60)
    <2>. QED  BY <1>a, <2>1, <2>2, <2>4
  <1>15. ASSUME NEW c \in Clients, Receive(c) PROVE Goal
    <2>1. /\ wire[c] # << >> /\ phase[c] = "live" /\ at[c] \in Replicas
          /\ wire'[c] = Tail(wire[c])
          /\ \A k \in K : view'[c][k] =
               IF About(Head(wire[c]), k) THEN Outcome(Head(wire[c]), k) ELSE view[c][k]
          /\ \A d \in Clients : d # c => wire'[d] = wire[d] /\ view'[d] = view[d]
          /\ UNCHANGED <<variables, outbox, notified, at, phase, buffer, missed>>
      BY <1>15 DEF Receive, TypeOK, store, broker, Placed
    <2>2. ASSUME NEW k \in K, k \notin missed[c]
          PROVE  Leads(Flight(wire'[c], buffer[c], notified[at[c]], outbox[h]), k, view'[c][k], variables[k])
      <3>1. Leads(Flight(Tail(wire[c]), buffer[c], notified[at[c]], outbox[h]), k,
                  IF About(Head(wire[c]), k) THEN Outcome(Head(wire[c]), k) ELSE view[c][k], variables[k])
        BY <1>0, <1>a, <2>1, <2>2, StaysLeading
      <3>. QED  BY <2>1, <3>1
    <2>. QED  BY <1>a, <2>1, <2>2
  <1>16. ASSUME NEW c \in Clients, Disconnect(c) PROVE Goal
    <2>1. /\ \A d \in Clients : phase'[d] # "down" =>
               /\ phase'[d] = phase[d] /\ at'[d] = at[d]
               /\ wire'[d] = wire[d] /\ buffer'[d] = buffer[d]
          /\ UNCHANGED <<variables, outbox, notified, view, missed>>
      BY <1>16 DEF Disconnect, Cut, store, broker
    <2>. QED  BY <1>a, <2>1
  <1>. QED  BY <1>3, <1>4, <1>5, <1>6, <1>7, <1>8, <1>9, <1>10, <1>11, <1>12, <1>13, <1>14, <1>15, <1>16
            DEF Next, Alone

-----------------------------------------------------------------------------
(* Writers that do not overlap.                                            *)

\* The head of a queue and the rest of it have its keys.
LEMMA KeysOfEnds ==
  ASSUME NEW s \in Seq(Event), s # << >>
  PROVE  KeysIn(s) = {Head(s).key} \cup KeysIn(Tail(s))
  <1>. DEFINE n == Len(s)
              t == Tail(s)
  <1>1. /\ n \in Nat /\ n > 0 /\ DOMAIN s = 1 .. n /\ Head(s) = s[1]
        /\ DOMAIN t = 1 .. n - 1 /\ \A i \in 1 .. n - 1 : t[i] = s[i + 1]
    OBVIOUS
  <1>. HIDE DEF n, t
  <1>2. ASSUME NEW i \in 1 .. n PROVE s[i].key \in {s[1].key} \cup KeysIn(t)
    <2>1. CASE i = 1
      BY <2>1
    <2>2. CASE i # 1
      <3>1. i - 1 \in 1 .. n - 1 /\ t[i - 1] = s[i]
        BY <1>1, <2>2
      <3>. QED  BY <1>1, <3>1 DEF KeysIn
    <2>. QED  BY <2>1, <2>2
  <1>3. ASSUME NEW i \in 1 .. n - 1 PROVE t[i].key \in KeysIn(s)
    <2>1. i + 1 \in 1 .. n
      BY <1>1
    <2>. QED  BY <1>1, <2>1 DEF KeysIn
  <1>4. s[1].key \in KeysIn(s)
    BY <1>1 DEF KeysIn
  <1>. QED  BY <1>1, <1>2, <1>3, <1>4 DEF KeysIn, t

\* An event that another handler publishes comes between the notifications and
\* the outbox: it is newer than what it follows, of a key the outbox has no
\* change of, and makes no difference to other keys.
LEMMA Inserted ==
  ASSUME NEW w \in Seq(Message), NEW b \in Seq(Message), NEW n \in Seq(Message), NEW o \in Seq(Event),
         NEW p \in Seq(Event), p # << >>
  PROVE  /\ Head(p).key \notin KeysIn(o) =>
              \A tops : Rising(Flight(w, b, n, o), tops) /\ Rising(Flight(w, b, n, p), tops)
                          => Rising(Flight(w, b, Append(n, Head(p)), o), tops)
         /\ \A k : k # Head(p).key =>
              \A x, v : Leads(Flight(w, b, n, o), k, x, v)
                          => Leads(Flight(w, b, Append(n, Head(p)), o), k, x, v)
  <1>. DEFINE e == Head(p)
              m == Append(n, e)
  <1>1. /\ o \in Seq(Message) /\ p \in Seq(Message)
        /\ e \in Event /\ e \in Message
    BY QueueTypes DEF Message
  <1>2. m = n \o <<e>> /\ <<e>> \in Seq(Message) /\ m \in Seq(Message)
    BY <1>1, Ends
  <1>0. PICK one \in Seq(Message), t \in Seq(Message) : one = <<e>> /\ p = one \o t
    <2>1. p = <<e>> \o Tail(p) /\ Tail(p) \in Seq(Message)
      BY <1>1, Ends
    <2>. QED  BY <1>2, <2>1, Zenon
  <1>a. m \in Seq(Message)
    BY <1>2
  <1>. HIDE DEF e, m
  <1>3. ASSUME e.key \notin KeysIn(o), NEW tops,
               Rising(Flight(w, b, n, o), tops), Rising(Flight(w, b, n, p), tops)
        PROVE  Rising(Flight(w, b, m, o), tops)
    <2>1. /\ Rising(w, tops) /\ Rising(b, tops) /\ Rising(n, tops) /\ Rising(o, tops)
          /\ Before(w, b) /\ Before(w, n) /\ Before(w, o)
          /\ Before(b, n) /\ Before(b, o) /\ Before(n, o)
      BY <1>1, <1>3, Segments
    <2>2. Rising(p, tops) /\ Before(w, p) /\ Before(b, p) /\ Before(n, p)
      BY <1>1, <1>3, Segments
    <2>3. /\ Rising(one, tops)
          /\ Before(w, one) /\ Before(b, one) /\ Before(n, one)
      BY <1>0, <2>2, Behind DEF Rising
    <2>4. Before(one, o)
      <3>1. \A j \in DOMAIN o : o[j].key # e.key
        BY <1>3 DEF KeysIn
      <3>2. DOMAIN one = {1} /\ one[1] = e
        BY <1>0
      <3>. QED  BY <3>1, <3>2 DEF Before, Overtaken
    <2>5. /\ Rising(m, tops) /\ Before(m, o) /\ Before(w, m) /\ Before(b, m)
      BY <1>0, <1>1, <1>2, <2>1, <2>3, <2>4, Behind DEF Rising
    <2>. QED  BY <1>1, <1>a, <2>1, <2>5, Segments
  <1>4. ASSUME NEW k, k # e.key, NEW x, NEW v, Leads(Flight(w, b, n, o), k, x, v)
        PROVE  Leads(Flight(w, b, m, o), k, x, v)
    <2>1. ~ About(e, k)
      BY <1>1, <1>4 DEF About, Event
    <2>2. Silent(<<e>>, k) /\ Settles(<<e>>, k, v)
      BY <2>1, OfOne
    <2>3. /\ Silent(m, k) <=> Silent(n, k)
          /\ Settles(m, k, v) <=> Settles(n, k, v)
      BY <1>2, <2>2, Behind
    <2>4. /\ Settles(Flight(w, b, n, o), k, v) <=>
               /\ Settles(o, k, v)
               /\ Silent(o, k) => Settles(n, k, v)
               /\ Silent(o, k) /\ Silent(n, k) => Settles(b, k, v)
               /\ Silent(o, k) /\ Silent(n, k) /\ Silent(b, k) => Settles(w, k, v)
          /\ Silent(Flight(w, b, n, o), k) <=>
               Silent(w, k) /\ Silent(b, k) /\ Silent(n, k) /\ Silent(o, k)
      BY <1>1, Segments
    <2>5. /\ Settles(Flight(w, b, m, o), k, v) <=>
               /\ Settles(o, k, v)
               /\ Silent(o, k) => Settles(m, k, v)
               /\ Silent(o, k) /\ Silent(m, k) => Settles(b, k, v)
               /\ Silent(o, k) /\ Silent(m, k) /\ Silent(b, k) => Settles(w, k, v)
          /\ Silent(Flight(w, b, m, o), k) <=>
               Silent(w, k) /\ Silent(b, k) /\ Silent(m, k) /\ Silent(o, k)
      BY <1>1, <1>a, Segments
    <2>. QED  BY <1>4, <2>3, <2>4, <2>5 DEF Leads
  <1>. QED  BY <1>3, <1>4 DEF e, m

\* Outboxes that do not have a key are as good as each other for it.
LEMMA Interchanged ==
  ASSUME NEW w \in Seq(Message), NEW b \in Seq(Message), NEW n \in Seq(Message),
         NEW o \in Seq(Event), NEW p \in Seq(Event), NEW k, k \notin KeysIn(o), k \notin KeysIn(p),
         NEW x, NEW v, Leads(Flight(w, b, n, o), k, x, v)
  PROVE  Leads(Flight(w, b, n, p), k, x, v)
  <1>1. o \in Seq(Message) /\ p \in Seq(Message)
    BY DEF Message
  <1>2. Silent(o, k) /\ Silent(p, k) /\ Settles(o, k, v) /\ Settles(p, k, v)
    BY NotInQueue
  <1>3. /\ Settles(Flight(w, b, n, o), k, v) <=>
             /\ Settles(o, k, v)
             /\ Silent(o, k) => Settles(n, k, v)
             /\ Silent(o, k) /\ Silent(n, k) => Settles(b, k, v)
             /\ Silent(o, k) /\ Silent(n, k) /\ Silent(b, k) => Settles(w, k, v)
        /\ Silent(Flight(w, b, n, o), k) <=>
             Silent(w, k) /\ Silent(b, k) /\ Silent(n, k) /\ Silent(o, k)
    BY <1>1, Segments
  <1>4. /\ Settles(Flight(w, b, n, p), k, v) <=>
             /\ Settles(p, k, v)
             /\ Silent(p, k) => Settles(n, k, v)
             /\ Silent(p, k) /\ Silent(n, k) => Settles(b, k, v)
             /\ Silent(p, k) /\ Silent(n, k) /\ Silent(b, k) => Settles(w, k, v)
        /\ Silent(Flight(w, b, n, p), k) <=>
             Silent(w, k) /\ Silent(b, k) /\ Silent(n, k) /\ Silent(p, k)
    BY <1>1, Segments
  <1>. QED  BY <1>2, <1>3, <1>4 DEF Leads

\* The queues of a handler that does nothing: what the other one publishes.
LEMMA OtherWriter ==
  ASSUME TypeOK, NEW h \in Handlers, NEW g \in Handlers \ {h}, Write(g) \/ Publish(g) \/ PublishFails(g)
  PROVE  /\ UNCHANGED <<phase, at, buffer, wire, view>>
         /\ outbox'[h] = outbox[h]
         /\ Write(g) => UNCHANGED <<notified, missed>>
         /\ ~ Write(g) =>
              /\ outbox[g] # << >> /\ outbox'[g] = Tail(outbox[g])
              /\ UNCHANGED <<service, variables, top>>
              /\ \A r \in Replicas : notified'[r] \in {notified[r], Append(notified[r], Head(outbox[g]))}
              /\ \A c \in Clients : missed[c] \subseteq missed'[c]
         /\ PublishFails(g) => UNCHANGED notified
  <1>1. CASE Write(g)
    BY <1>1 DEF Write, CommitUpsert, CommitDelete, Publish, PublishFails, TypeOK, broker, streams
  <1>2. CASE ~ Write(g) /\ Publish(g)
    BY <1>2 DEF Publish, PublishFails, TypeOK, store, streams, broker
  <1>3. CASE ~ Write(g) /\ PublishFails(g)
    BY <1>3 DEF PublishFails, TypeOK, store, streams, broker
  <1>. QED  BY <1>1, <1>2, <1>3

\* One handler at a time: what one commits or publishes, no other does.
LEMMA OneWriter ==
  ASSUME TypeOK, NEW h \in Handlers
  PROVE  /\ [Next]_vars /\ Alone(h) => \A g \in Handlers \ {h} : outbox'[g] = outbox[g]
         /\ ~ Write(h) /\ (Publish(h) \/ PublishFails(h)) => Alone(h)
  <1>1. ASSUME [Next]_vars, Alone(h), NEW g \in Handlers \ {h} PROVE outbox'[g] = outbox[g]
    <2>1. CASE UNCHANGED vars
      BY <2>1 DEF vars
    <2>2. CASE Write(h) \/ Publish(h) \/ PublishFails(h)
      BY <2>2, OtherWriter
    <2>3. CASE CommitDropService
      BY <2>3 DEF CommitDropService
    <2>4. CASE \E r \in Replicas : Listen(r) \/ Dispatch(r) \/ ListenFails(r) \/ Restart(r)
      BY <2>4 DEF Listen, Dispatch, ListenFails, Restart
    <2>5. CASE \E c \in Clients : \/ \E r \in Replicas : Connect(c, r)
                                  \/ ReadSnapshot(c) \/ SendSnapshot(c) \/ SendChange(c)
                                  \/ Receive(c) \/ Disconnect(c)
      BY <2>5 DEF Connect, ReadSnapshot, SendSnapshot, SendChange, Receive, Disconnect
    <2>. QED  BY <1>1, <2>1, <2>2, <2>3, <2>4, <2>5 DEF Next, Alone
  <1>2. ASSUME Publish(h) \/ PublishFails(h) PROVE Alone(h)
    <2>1. outbox[h] \in Seq(Event) /\ outbox[h] # << >> /\ outbox'[h] = Tail(outbox[h])
      BY <1>2 DEF Publish, PublishFails, TypeOK
    <2>2. outbox'[h] # outbox[h]
      <3>1. Len(outbox'[h]) = Len(outbox[h]) - 1 /\ Len(outbox[h]) \in Nat
        BY <2>1, QueueTypes
      <3>2. ASSUME outbox'[h] = outbox[h] PROVE FALSE
        <4>1. Len(outbox[h]) = Len(outbox[h]) - 1
          BY <3>1, <3>2, Zenon
        <4>. QED  BY <3>1, <4>1
      <3>. QED  BY <3>2
    <2>3. ASSUME NEW g \in Handlers \ {h}, Write(g) \/ Publish(g) \/ PublishFails(g) PROVE FALSE
      BY <2>2, <2>3, OtherWriter
    <2>. QED  BY <2>3 DEF Alone
  <1>. QED  BY <1>1, <1>2

\* A feed stays in order when another handler commits, publishes or fails to.
LEMMA FeedsKept ==
  ASSUME TypeOK, Placed, Apart, NEW h \in Handlers, NEW g \in Handlers \ {h}, Feeds(h), Feeds(g),
         Write(g) \/ Publish(g) \/ PublishFails(g)
  PROVE  Feeds(h)'
  <1>0. /\ << >> \in Seq(Message)
        /\ outbox[h] \in Seq(Event) /\ outbox[g] \in Seq(Event)
        /\ outbox[h] \in Seq(Message) /\ outbox[g] \in Seq(Message)
        /\ \A r \in Replicas : notified[r] \in Seq(Message)
        /\ \A c \in Clients : buffer[c] \in Seq(Message) /\ wire[c] \in Seq(Message)
    BY Queues
  <1>a. \A f \in {h, g} :
          /\ \A r \in Replicas : Rising(Flight(<< >>, << >>, notified[r], outbox[f]), top)
          /\ \A c \in Clients : phase[c] # "down" =>
               at[c] \in Replicas /\ Rising(Flight(wire[c], buffer[c], notified[at[c]], outbox[f]), top)
    BY DEF Feeds, InFlight, Flight, Placed
  <1>b. UNCHANGED <<phase, at, buffer, wire>> /\ outbox'[h] = outbox[h]
    BY OtherWriter
  <1>. SUFFICES ASSUME NEW w \in Seq(Message), NEW b \in Seq(Message), NEW r \in Replicas,
                       \A f \in {h, g} : Rising(Flight(w, b, notified[r], outbox[f]), top)
                PROVE  Rising(Flight(w, b, notified'[r], outbox[h]), top')
    <2>1. \A q \in Replicas : Rising(Flight(<< >>, << >>, notified'[q], outbox'[h]), top')
      BY <1>0, <1>a, <1>b
    <2>2. \A c \in Clients : phase'[c] # "down" =>
            Rising(Flight(wire'[c], buffer'[c], notified'[at'[c]], outbox'[h]), top')
      BY <1>0, <1>a, <1>b
    <2>. QED  BY <2>1, <2>2 DEF Feeds, InFlight, Flight
  <1>1. CASE Write(g)
    <2>1. PICK q \in Seq(Message) : q = Flight(w, b, notified[r], outbox[h])
      BY <1>0, Segments
    <2>2. AllPast(q, top')
      BY <1>1, <2>1, Announced DEF Rising
    <2>3. notified'[r] = notified[r]
      BY <1>1, OtherWriter
    <2>. QED  BY <2>1, <2>2, <2>3 DEF Rising
  <1>2. CASE ~ Write(g)
    <2>1. /\ outbox[g] # << >> /\ top' = top
          /\ notified'[r] \in {notified[r], Append(notified[r], Head(outbox[g]))}
      BY <1>2, OtherWriter
    <2>2. Head(outbox[g]).key \notin KeysIn(outbox[h])
      <3>1. Head(outbox[g]).key \in KeysIn(outbox[g])
        BY <1>0, <2>1, KeysOfEnds
      <3>. QED  BY <3>1 DEF Apart
    <2>3. Rising(Flight(w, b, Append(notified[r], Head(outbox[g])), outbox[h]), top)
      BY <1>0, <2>1, <2>2, Inserted
    <2>. QED  BY <2>1, <2>3
  <1>. QED  BY <1>1, <1>2

\* What leads to the row of a key still does when another handler commits changes
\* of other keys, or publishes or loses one of another key.
LEMMA LeadingKept ==
  ASSUME TypeOK, Placed, NEW h \in Handlers, NEW g \in Handlers \ {h}, NEW k \in Keys, Leading(h, {k}),
         Write(g) \/ Publish(g) \/ PublishFails(g),
         Write(g) => k \notin KeysIn(outbox'[g]),
         ~ Write(g) => k # Head(outbox[g]).key
  PROVE  Leading(h, {k})'
  <1>0. /\ << >> \in Seq(Message)
        /\ outbox[h] \in Seq(Message) /\ outbox[h] \in Seq(Event) /\ outbox[g] \in Seq(Event)
        /\ \A r \in Replicas : notified[r] \in Seq(Message)
        /\ \A c \in Clients : buffer[c] \in Seq(Message) /\ wire[c] \in Seq(Message)
    BY Queues
  <1>1. /\ UNCHANGED <<phase, at, buffer, wire, view>> /\ outbox'[h] = outbox[h]
        /\ \A c \in Clients : missed[c] \subseteq missed'[c]
    BY OtherWriter
  <1>2. service' = service /\ variables'[k] = variables[k]
    <2>1. CASE Write(g)
      <3>1. outbox'[g] \in Seq(Event)
        <4>1. TypeOK'
          BY <2>1, CommitTypes
        <4>. QED  BY <4>1 DEF TypeOK
      <3>2. Silent(outbox'[g], k)
        BY <2>1, <3>1, NotInQueue
      <3>3. variables'[k] = variables[k]
        BY <2>1, <3>2, Announced
      <3>4. service' = service
        BY <2>1 DEF Write, CommitUpsert, CommitDelete
      <3>. QED  BY <3>3, <3>4
    <2>2. CASE ~ Write(g)
      BY <2>2, OtherWriter
    <2>. QED  BY <2>1, <2>2
  <1>3. ASSUME NEW w \in Seq(Message), NEW b \in Seq(Message), NEW r \in Replicas, NEW x, NEW v,
               Leads(Flight(w, b, notified[r], outbox[h]), k, x, v)
        PROVE  Leads(Flight(w, b, notified'[r], outbox[h]), k, x, v)
    <2>1. CASE Write(g)
      BY <1>3, <2>1, OtherWriter
    <2>2. CASE ~ Write(g)
      <3>1. /\ outbox[g] # << >> /\ k # Head(outbox[g]).key
            /\ notified'[r] \in {notified[r], Append(notified[r], Head(outbox[g]))}
        BY <2>2, OtherWriter
      <3>2. Leads(Flight(w, b, Append(notified[r], Head(outbox[g])), outbox[h]), k, x, v)
        BY <1>0, <1>3, <3>1, Inserted
      <3>. QED  BY <1>3, <3>1, <3>2
    <2>. QED  BY <2>1, <2>2
  <1>4. \A q, v : Settles(q, k, v) <=> Leads(q, k, v, v)
    BY DEF Leads
  <1>. SUFFICES ASSUME service PROVE Leading(h, {k})'
    BY <1>2 DEF Leading
  <1>5. /\ Settles(outbox[h], k, variables[k])
        /\ \A c \in Clients : k \notin missed[c] =>
             /\ \A r \in Replicas :
                  Settles(Flight(<< >>, << >>, notified[r], outbox[h]), k, variables[k])
             /\ phase[c] # "down" =>
                  /\ at[c] \in Replicas
                  /\ Settles(Flight(<< >>, buffer[c], notified[at[c]], outbox[h]), k, variables[k])
             /\ phase[c] \in {"read", "live"} =>
                  /\ at[c] \in Replicas
                  /\ Leads(Flight(wire[c], buffer[c], notified[at[c]], outbox[h]), k, view[c][k], variables[k])
    BY DEF Leading, InFlight, Flight, Placed
  <1>6. ASSUME NEW c \in Clients, k \notin missed'[c]
        PROVE  /\ \A r \in Replicas :
                    Settles(Flight(<< >>, << >>, notified'[r], outbox'[h]), k, variables'[k])
               /\ phase'[c] # "down" =>
                    Settles(Flight(<< >>, buffer'[c], notified'[at'[c]], outbox'[h]), k, variables'[k])
               /\ phase'[c] \in {"read", "live"} =>
                    Leads(Flight(wire'[c], buffer'[c], notified'[at'[c]], outbox'[h]), k,
                          view'[c][k], variables'[k])
    <2>1. k \notin missed[c]
      BY <1>1, <1>6
    <2>2. \A r \in Replicas : Settles(Flight(<< >>, << >>, notified'[r], outbox'[h]), k, variables'[k])
      BY <1>0, <1>1, <1>2, <1>3, <1>4, <1>5, <2>1
    <2>3. phase'[c] # "down" =>
            Settles(Flight(<< >>, buffer'[c], notified'[at'[c]], outbox'[h]), k, variables'[k])
      BY <1>0, <1>1, <1>2, <1>3, <1>4, <1>5, <2>1
    <2>4. phase'[c] \in {"read", "live"} =>
            Leads(Flight(wire'[c], buffer'[c], notified'[at'[c]], outbox'[h]), k, view'[c][k], variables'[k])
      BY <1>0, <1>1, <1>2, <1>3, <1>5, <2>1
    <2>. QED  BY <2>2, <2>3, <2>4
  <1>. QED  BY <1>1, <1>2, <1>5, <1>6 DEF Leading, InFlight, Flight

\* When a handler has published its last change of a key, what it leads to is
\* what any other one that has none does.
LEMMA LeadingPassed ==
  ASSUME TypeOK', Placed', NEW h \in Handlers, NEW g \in Handlers, NEW k \in Keys, Leading(g, {k})',
         k \notin KeysIn(outbox'[g]), k \notin KeysIn(outbox'[h])
  PROVE  Leading(h, {k})'
  <1>0. /\ << >> \in Seq(Message)
        /\ outbox'[h] \in Seq(Event) /\ outbox'[g] \in Seq(Event)
        /\ \A r \in Replicas : notified'[r] \in Seq(Message)
        /\ \A c \in Clients : buffer'[c] \in Seq(Message) /\ wire'[c] \in Seq(Message)
    <2>1. \A s \in Seq(Event) : s \in Seq(Message)
      BY DEF Message
    <2>. QED  BY <2>1 DEF TypeOK
  <1>1. \A q, v : Settles(q, k, v) <=> Leads(q, k, v, v)
    BY DEF Leads
  <1>. SUFFICES ASSUME service' PROVE Leading(h, {k})'
    BY DEF Leading
  <1>2. \A c \in Clients : k \notin missed'[c] =>
             /\ \A r \in Replicas :
                  Settles(Flight(<< >>, << >>, notified'[r], outbox'[g]), k, variables'[k])
             /\ phase'[c] # "down" =>
                  /\ at'[c] \in Replicas
                  /\ Settles(Flight(<< >>, buffer'[c], notified'[at'[c]], outbox'[g]), k, variables'[k])
             /\ phase'[c] \in {"read", "live"} =>
                  /\ at'[c] \in Replicas
                  /\ Leads(Flight(wire'[c], buffer'[c], notified'[at'[c]], outbox'[g]), k,
                           view'[c][k], variables'[k])
    BY DEF Leading, InFlight, Flight, Placed
  <1>3. ASSUME NEW w \in Seq(Message), NEW b \in Seq(Message), NEW n \in Seq(Message), NEW x, NEW v,
               Leads(Flight(w, b, n, outbox'[g]), k, x, v)
        PROVE  Leads(Flight(w, b, n, outbox'[h]), k, x, v)
    BY <1>0, <1>3, Interchanged
  <1>4. Settles(outbox'[h], k, variables'[k])
    BY <1>0, NotInQueue
  <1>5. ASSUME NEW c \in Clients, k \notin missed'[c]
        PROVE  /\ \A r \in Replicas :
                    Settles(Flight(<< >>, << >>, notified'[r], outbox'[h]), k, variables'[k])
               /\ phase'[c] # "down" =>
                    Settles(Flight(<< >>, buffer'[c], notified'[at'[c]], outbox'[h]), k, variables'[k])
               /\ phase'[c] \in {"read", "live"} =>
                    Leads(Flight(wire'[c], buffer'[c], notified'[at'[c]], outbox'[h]), k,
                          view'[c][k], variables'[k])
    BY <1>0, <1>1, <1>2, <1>3, <1>5
  <1>. QED  BY <1>4, <1>5 DEF Leading, InFlight, Flight

\* Every handler's feeds are in order.
FeedsRise == \A h \in Handlers : Feeds(h)

\* The handler that has the unpublished changes of a key, or any one if none has,
\* leads to its row.
RowsLed == \A h \in Handlers, k \in Keys : Sole(h, k) => Leading(h, {k})

\* A step of a handler keeps its own feeds in order and those of the others.
LEMMA FeedsRiseStep == TypeOK /\ Placed /\ Apart /\ FeedsRise /\ [Next]_vars => FeedsRise'
  <1>. SUFFICES ASSUME TypeOK, Placed, Apart, FeedsRise, [Next]_vars, NEW h \in Handlers
                PROVE  Feeds(h)'
    BY DEF FeedsRise
  <1>1. CASE Alone(h)
    BY <1>1, FeedsStep DEF FeedsRise
  <1>2. CASE ~ Alone(h)
    <2>1. PICK g \in Handlers \ {h} : Write(g) \/ Publish(g) \/ PublishFails(g)
      BY <1>2 DEF Alone
    <2>. QED  BY <2>1, FeedsKept DEF FeedsRise
  <1>. QED  BY <1>1, <1>2

\* The rows of the keys a handler works on are led to by that handler, until it
\* has published its last change of a key and any other may follow.
LEMMA RowsLedStep == TypeOK /\ Placed /\ Apart /\ RowsLed /\ [Next]_vars => RowsLed'
  <1>. SUFFICES ASSUME TypeOK, Placed, Apart, RowsLed, [Next]_vars,
                       NEW h \in Handlers, NEW k \in Keys, Sole(h, k)'
                PROVE  Leading(h, {k})'
    BY DEF RowsLed
  <1>0. TypeOK' /\ Placed'
    BY TypeStep, PlacedStep
  <1>1. \A g \in Handlers \ {h} : k \notin KeysIn(outbox'[g])
    BY DEF Sole
  <1>2. CASE Alone(h)
    <2>1. Sole(h, k)
      BY <1>1, <1>2, OneWriter DEF Sole
    <2>2. Leading(h, {k})
      BY <2>1 DEF RowsLed
    <2>. QED  BY <1>2, <2>2, LeadingStep
  <1>3. ASSUME NEW g \in Handlers \ {h}, Write(g) \/ Publish(g) \/ PublishFails(g)
        PROVE  Leading(h, {k})'
    <2>0. outbox[g] \in Seq(Event) /\ outbox'[h] = outbox[h]
      BY <1>3, OtherWriter DEF TypeOK
    <2>1. \A f \in Handlers \ {g} : outbox'[f] = outbox[f]
      BY <1>3, OtherWriter
    <2>2. CASE Write(g)
      <3>0. outbox[g] = << >>
        BY <2>2 DEF Write, CommitUpsert, CommitDelete
      <3>1. k \notin KeysIn(outbox[g])
        BY <3>0 DEF KeysIn
      <3>2. Leading(h, {k})
        BY <1>1, <2>1, <3>1 DEF RowsLed, Sole
      <3>. QED  BY <1>1, <1>3, <2>2, <3>2, LeadingKept
    <2>3. CASE ~ Write(g) /\ k # Head(outbox[g]).key
      <3>1. outbox[g] # << >> /\ outbox'[g] = Tail(outbox[g])
        BY <1>3, <2>3, OtherWriter
      <3>2. k \notin KeysIn(outbox[g])
        BY <1>1, <2>0, <2>3, <3>1, KeysOfEnds
      <3>3. Leading(h, {k})
        BY <1>1, <2>1, <3>2 DEF RowsLed, Sole
      <3>. QED  BY <1>3, <2>3, <3>3, LeadingKept
    <2>4. CASE ~ Write(g) /\ k = Head(outbox[g]).key
      <3>1. outbox[g] # << >>
        BY <1>3, <2>4, OtherWriter
      <3>2. k \in KeysIn(outbox[g])
        BY <2>0, <2>4, <3>1, KeysOfEnds
      <3>3. \A f \in Handlers \ {g} : k \notin KeysIn(outbox[f])
        BY <3>2 DEF Apart
      <3>4. Leading(g, {k})
        BY <3>3 DEF RowsLed, Sole
      <3>5. Alone(g)
        BY <1>3, <2>4, OneWriter
      <3>6. Leading(g, {k})'
        BY <3>4, <3>5, LeadingStep
      <3>7. k \notin KeysIn(outbox'[h])
        BY <2>0, <3>3
      <3>. QED  BY <1>0, <1>1, <3>6, <3>7, LeadingPassed
    <2>. QED  BY <2>2, <2>3, <2>4
  <1>. QED  BY <1>2, <1>3 DEF Alone

\* Nothing is on its way at first.
LEMMA InitQueues == Init => Placed /\ FeedsRise /\ RowsLed
  <1>. SUFFICES ASSUME Init PROVE Placed /\ FeedsRise /\ RowsLed
    OBVIOUS
  <1>1. Placed
    BY DEF Init, Placed
  <1>2. Rising(Flight(<< >>, << >>, << >>, << >>), top)
    <2>1. Rising(<< >>, top) /\ Before(<< >>, << >>) /\ << >> \in Seq(Message)
      BY OfNone DEF Rising
    <2>. QED  BY <2>1, Segments
  <1>3. FeedsRise
    BY <1>2 DEF Init, Feeds, FeedsRise
  <1>4. \A k, v : Settles(<< >>, k, v) /\ Settles(Flight(<< >>, << >>, << >>, << >>), k, v)
    <2>1. \A k, v : Settles(<< >>, k, v)
      BY OfNone
    <2>2. << >> \in Seq(Message)
      OBVIOUS
    <2>. QED  BY <2>1, <2>2, EndSettles
  <1>5. RowsLed
    BY <1>4 DEF Init, Leading, RowsLed
  <1>. QED  BY <1>1, <1>3, <1>5

\* What a client is led to is what it ends up with.
LEMMA LedTo ==
  ASSUME NEW c \in Clients, NEW h \in Handlers, NEW k \in Keys, InFlight(c, h) \in Seq(Message),
         NEW v, Leads(InFlight(c, h), k, view[c][k], v)
  PROVE  Eventually(c, h, k) = v
  <1>. DEFINE q == InFlight(c, h)
              about == {i \in DOMAIN q : About(q[i], k)}
  <1>1. CASE about = {}
    <2>1. Silent(q, k)
      BY <1>1 DEF Silent
    <2>. QED  BY <1>1, <2>1 DEF Leads, Eventually
  <1>2. CASE about # {}
    <2>1. DOMAIN q = 1 .. Len(q) /\ Len(q) \in Nat
      OBVIOUS
    <2>2. Max(about) \in about /\ \A j \in about : j <= Max(about)
      BY <1>2, <2>1, LastPlace
    <2>3. PICK m \in DOMAIN q : m = Max(about) /\ About(q[m], k) /\ \A j \in about : j <= m
      BY <2>2
    <2>4. ASSUME NEW j \in DOMAIN q, j > m PROVE ~ About(q[j], k)
      <3>1. j \notin about
        BY <2>1, <2>3, <2>4
      <3>. QED  BY <3>1
    <2>5. Outcome(q[m], k) = v
      BY <2>3, <2>4 DEF Leads, Settles
    <2>. QED  BY <1>2, <2>3, <2>5 DEF Eventually
  <1>. QED  BY <1>1, <1>2

\* What is on its way to a client are messages.
LEMMA FlightType ==
  ASSUME TypeOK, Placed, NEW h \in Handlers, NEW c \in Clients, phase[c] # "down"
  PROVE  InFlight(c, h) \in Seq(Message)
  <1>1. at[c] \in Replicas
    BY DEF Placed
  <1>2. InFlight(c, h) = Flight(wire[c], buffer[c], notified[at[c]], outbox[h])
    BY DEF InFlight, Flight
  <1>3. /\ wire[c] \in Seq(Message) /\ buffer[c] \in Seq(Message)
        /\ notified[at[c]] \in Seq(Message) /\ outbox[h] \in Seq(Message)
    BY <1>1, Queues
  <1>4. Flight(wire[c], buffer[c], notified[at[c]], outbox[h]) \in Seq(Message)
    BY <1>3, Segments
  <1>. QED  BY <1>2, <1>4

\* Rising feeds are in order.
LEMMA FeedsOrdered == FeedsRise => FeedOrdered
  BY DEF FeedsRise, Feeds, FeedOrdered, Rising, Ordered, Overtaken

\* What leads to the committed rows leaves no gap.
LEMMA LeadingLeaves == TypeOK /\ Placed /\ RowsLed => NoGap
  <1>. SUFFICES ASSUME TypeOK, Placed, RowsLed, service,
                       NEW h \in Handlers, NEW c \in Clients, phase[c] \in {"read", "live"},
                       NEW k \in Keys \ missed[c], Sole(h, k)
                PROVE  Eventually(c, h, k) = variables[k]
    BY DEF NoGap
  <1>1. Leads(InFlight(c, h), k, view[c][k], variables[k])
    BY DEF RowsLed, Leading
  <1>2. InFlight(c, h) \in Seq(Message)
    BY FlightType
  <1>. QED  BY <1>1, <1>2, LedTo

\* A live stream that carries nothing, of handlers that have nothing to publish,
\* has told its client all it can.
CaughtUp ==
  service => \A c \in Clients :
    /\ phase[c] = "live"
    /\ wire[c] = << >> /\ buffer[c] = << >> /\ notified[at[c]] = << >>
    /\ \A h \in Handlers : outbox[h] = << >>
    => \A k \in Keys \ missed[c] : view[c][k] = variables[k]

\* What nothing on its way can change has been led to.
LEMMA QuietIsLed == ASSUME Handlers # {} PROVE TypeOK /\ Placed /\ RowsLed => CaughtUp
  <1>. SUFFICES ASSUME TypeOK, Placed, RowsLed, service, NEW c \in Clients, phase[c] = "live",
                       wire[c] = << >> /\ buffer[c] = << >> /\ notified[at[c]] = << >>,
                       \A h \in Handlers : outbox[h] = << >>,
                       NEW k \in Keys \ missed[c]
                PROVE  view[c][k] = variables[k]
    BY DEF CaughtUp
  <1>1. PICK h \in Handlers : TRUE
    OBVIOUS
  <1>2. Sole(h, k)
    BY DEF Sole, KeysIn
  <1>3. Leads(InFlight(c, h), k, view[c][k], variables[k])
    BY <1>2 DEF RowsLed, Leading
  <1>4. Silent(InFlight(c, h), k)
    <2>1. InFlight(c, h) = Flight(<< >>, << >>, << >>, << >>)
      BY DEF InFlight, Flight
    <2>2. Silent(<< >>, k) /\ << >> \in Seq(Message)
      BY OfNone
    <2>3. PICK e \in Seq(Message) : e = << >> /\ Silent(e, k)
      BY <2>2
    <2>4. Silent(Flight(e, e, e, e), k)
      BY <2>3, Segments
    <2>. QED  BY <2>1, <2>3, <2>4
  <1>. QED  BY <1>3, <1>4 DEF Leads

-----------------------------------------------------------------------------
(* Theorems.                                                               *)

\* Types; a subscriber's channel and the window of a stream keep their
\* capacity (broker.go:59, Send of the stream).
THEOREM TypeCorrect == Spec => []TypeOK
  BY InitTypes, TypeStep, PTL DEF Spec

\* Only streams that are up carry anything.
LEMMA AlwaysPlaced == Spec => []Placed
  <1>1. Init => Placed
    BY DEF Init, Placed
  <1>2. TypeOK /\ Placed /\ [Next]_vars => Placed'
    BY PlacedStep
  <1>. QED  BY <1>1, <1>2, TypeCorrect, PTL DEF Spec

\* Writers that do not overlap have no change of a key overtake another one
\* between pg_notify and the client, however many handlers, replicas, clients and
\* losses there are (broker.go:146, server.go:89, client.go:214).
THEOREM FeedInOrder == Spec /\ []Apart => []FeedOrdered
  <1>1. Init => FeedsRise
    BY InitQueues
  <1>2. TypeOK /\ Placed /\ Apart /\ FeedsRise /\ [Next]_vars => FeedsRise'
    BY FeedsRiseStep
  <1>3. FeedsRise => FeedOrdered
    BY FeedsOrdered
  <1>. QED  BY <1>1, <1>2, <1>3, TypeCorrect, AlwaysPlaced, PTL DEF Spec

\* The keys that reach their rows: the invariant behind the next theorems.
LEMMA AlwaysLed == Spec /\ []Apart => [](TypeOK /\ Placed /\ RowsLed)
  <1>1. Init => RowsLed
    BY InitQueues
  <1>2. TypeOK /\ Placed /\ Apart /\ RowsLed /\ [Next]_vars => RowsLed'
    BY RowsLedStep
  <1>. QED  BY <1>1, <1>2, TypeCorrect, AlwaysPlaced, PTL DEF Spec

\* With such writers, once Subscribe has read the snapshot, all that is on its
\* way leads the client to the committed row of every key of which no event was
\* lost (server.go:66).
THEOREM GapClosed == Spec /\ []Apart => []NoGap
  BY AlwaysLed, LeadingLeaves, PTL

\* With such writers, a client with a quiet stream that lost nothing has the
\* committed rows: what it converges to is never anything else (README.md:52).
THEOREM NeverStale == ASSUME Handlers # {} PROVE Spec /\ []Apart => []CaughtUp
  <1>1. TypeOK /\ Placed /\ RowsLed => CaughtUp
    BY QuietIsLed
  <1>. QED  BY <1>1, AlwaysLed, PTL

\* One writer cannot overlap with another.
COROLLARY OneWriterFeeds ==
  ASSUME NEW CONSTANT h, Handlers = {h}
  PROVE  Spec => [](FeedOrdered /\ NoGap /\ CaughtUp)
  <1>1. Apart
    BY DEF Apart
  <1>2. Spec /\ []Apart => []CaughtUp
    BY NeverStale
  <1>. QED  BY <1>1, <1>2, FeedInOrder, GapClosed, PTL

=============================================================================
