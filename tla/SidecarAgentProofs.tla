------------------------- MODULE SidecarAgentProofs -------------------------
(***************************************************************************)
(* Proofs about SidecarAgent, for any keys, capacity and bounds: types,    *)
(* with the cap of the backoff; that the file is whole and, while the hook *)
(* runs, is the client's configuration; and that it is the committed one   *)
(* whenever there is nothing left to do.                                   *)
(***************************************************************************)
EXTENDS SidecarAgent, TLAPS

\* Values count changes, a client that waits has something to wait for, and one
\* that is not started is in no callback.
Running ==
  /\ \A k \in Keys : config[k] <= changes
  /\ phase = "wait" => timer # 0
  /\ phase = "off" => work = None

\* The callback renders what the client holds: the temporary file has it before
\* the rename, the file itself after it.
Renders ==
  /\ file # Torn
  /\ work # None => work.data = view
  /\ Doing("rename") => tmp = view
  /\ Doing("hook") => file = view

\* The backoff is at least a second and never above its maximum.
LEMMA DoubledType ==
  ASSUME NEW b \in 1 .. MaxBackoff
  PROVE  Doubled(b) \in 1 .. MaxBackoff
  BY BoundsAssumption DEF Doubled

\* A message leads the client to a configuration.
LEMMA AppliedType ==
  ASSUME NEW m \in Messages, view \in Config
  PROVE  Applied(m) \in Config
  <1>1. CASE m \in [snapshot : Config]
    <2>1. IsSnapshot(m)
      BY <1>1 DEF IsSnapshot
    <2>. QED  BY <1>1, <2>1 DEF Applied
  <1>2. CASE m \in [key : Keys, value : 0 .. MaxChanges]
    <2>1. ~ IsSnapshot(m)
      BY <1>2 DEF IsSnapshot
    <2>. QED  BY <1>2, <2>1 DEF Applied, Config
  <1>. QED  BY <1>1, <1>2 DEF Messages

\* A message put into a wire with room, or taken from one that is not empty.
LEMMA WireType ==
  ASSUME wire \in Seq(Messages), Len(wire) <= Capacity
  PROVE  /\ Len(wire) \in Nat
         /\ \A m \in Messages : Len(wire) < Capacity =>
              Append(wire, m) \in Seq(Messages) /\ Len(Append(wire, m)) <= Capacity
         /\ wire # << >> => /\ Head(wire) \in Messages
                            /\ Tail(wire) \in Seq(Messages) /\ Len(Tail(wire)) <= Capacity
         /\ \A n \in 0 .. Len(wire) :
              SubSeq(wire, 1, n) \in Seq(Messages) /\ Len(SubSeq(wire, 1, n)) <= Capacity
         /\ << >> \in Seq(Messages) /\ Len(<< >>) <= Capacity
         /\ \A m \in Messages : <<m>> \in Seq(Messages) /\ Len(<<m>>) <= Capacity
  BY BoundsAssumption

\* Every step keeps the types; the backoff stays below its maximum.
LEMMA TypeStep ==
  ASSUME TypeOK, Running, [Next]_vars
  PROVE  TypeOK' /\ Running'
  <1>. USE DEF TypeOK, Running
  <1>1. CASE UNCHANGED vars
    BY <1>1 DEF vars, client, files
  <1>2. ASSUME NEW k \in Keys, Change(k) PROVE TypeOK' /\ Running'
    <2>1. config \in [Keys -> Nat] /\ changes \in Nat /\ MaxChanges \in Nat
      BY BoundsAssumption DEF Config
    <2>2. /\ config' = [config EXCEPT ![k] = @ + 1] /\ changes' = changes + 1 /\ changes < MaxChanges
      BY <1>2 DEF Change
    <2>3. \A j \in Keys : config'[j] \in Nat /\ config'[j] <= changes'
      BY <2>1, <2>2
    <2>4. config' \in Config /\ changes' \in 0 .. MaxChanges
      <3>1. \A j \in Keys : config'[j] \in 0 .. MaxChanges
        BY <2>1, <2>2, <2>3
      <3>. QED  BY <2>1, <2>2, <3>1 DEF Config
    <2>5. [key |-> k, value |-> config'[k]] \in Messages
      BY <2>4 DEF Messages, Config
    <2>6. wire' \in Seq(Messages) /\ Len(wire') <= Capacity /\ lost' \in BOOLEAN
      BY <1>2, <2>5, WireType DEF Change
    <2>. QED  BY <1>2, <2>3, <2>4, <2>6 DEF Change, client, files
  <1>3. CASE Start
    BY <1>3, BoundsAssumption DEF Start, files, Defaults, Config
  <1>4. CASE Connect
    <2>1. [snapshot |-> config] \in Messages
      BY DEF Messages
    <2>. QED  BY <1>4, <2>1, WireType DEF Connect, files
  <1>5. CASE Break
    <2>1. faults' \in 0 .. MaxFaults
      BY <1>5, BoundsAssumption DEF Break, Fault
    <2>. QED  BY <1>5, <2>1, WireType DEF Break, files
  <1>6. CASE BackOff
    BY <1>6, DoubledType, BoundsAssumption DEF BackOff, files
  <1>7. CASE Tick
    <2>1. timer' \in 0 .. MaxBackoff /\ (phase' = "wait" => timer' # 0)
      BY <1>7, BoundsAssumption DEF Tick
    <2>. QED  BY <1>7, <2>1 DEF Tick, files
  <1>8. CASE Receive
    <2>1. Head(wire) \in Messages /\ Tail(wire) \in Seq(Messages) /\ Len(Tail(wire)) <= Capacity
      BY <1>8, WireType DEF Receive
    <2>2. Applied(Head(wire)) \in Config
      BY <2>1, AppliedType
    <2>3. work' \in Jobs
      BY <1>8, <2>2 DEF Receive, Callback, Rendering, Jobs
    <2>. QED  BY <1>8, <2>1, <2>2, <2>3 DEF Receive, files
  <1>9. CASE Write \/ Rename \/ HookEnds
    <2>1. work \in Jobs /\ phase # "off"
      BY <1>9 DEF Write, Rename, HookEnds, Doing
    <2>2. work.data \in Config
      BY <2>1 DEF Jobs
    <2>3. [work EXCEPT !.step = "rename"] \in Jobs /\ [work EXCEPT !.step = "hook"] \in Jobs
      BY <2>1 DEF Jobs
    <2>. QED  BY <1>9, <2>1, <2>2, <2>3 DEF Write, Rename, HookEnds, client, files
  <1>10. CASE RenderFails \/ Kill
    <2>1. faults' \in 0 .. MaxFaults
      BY <1>10, BoundsAssumption DEF RenderFails, Kill, Fault
    <2>2. tmp' \in Config \cup {None, Torn} /\ file' \in Config \cup {None, Torn}
      BY <1>10 DEF RenderFails, Kill, Interrupted, files
    <2>. QED  BY <1>10, <2>1, <2>2, WireType DEF RenderFails, Kill, client
  <1>. QED  BY <1>1, <1>2, <1>3, <1>4, <1>5, <1>6, <1>7, <1>8, <1>9, <1>10 DEF Next

\* Every step keeps what the callback has come to.
LEMMA RendersStep ==
  ASSUME TypeOK, Running, Renders, [Next]_vars
  PROVE  Renders'
  <1>. USE DEF Renders, Doing
  <1>1. CASE UNCHANGED vars
    BY <1>1 DEF vars, client, files
  <1>2. ASSUME NEW k \in Keys, Change(k) PROVE Renders'
    BY <1>2 DEF Change, client, files
  <1>3. CASE Start
    BY <1>3 DEF Start, files, Running
  <1>4. CASE Connect \/ Break \/ BackOff \/ Tick
    BY <1>4 DEF Connect, Break, BackOff, Tick, files
  <1>5. CASE Receive
    BY <1>5 DEF Receive, Callback, Rendering, files
  <1>6. CASE Write
    <2>1. work \in Jobs
      BY <1>6 DEF Write, TypeOK
    <2>2. work'.step = "rename" /\ work'.data = work.data /\ tmp' = work.data
      BY <1>6, <2>1 DEF Write, Jobs
    <2>. QED  BY <1>6, <2>2 DEF Write, client
  <1>7. CASE Rename
    <2>1. work \in Jobs /\ view \in Config
      BY <1>7 DEF Rename, TypeOK
    <2>2. work'.step = "hook" /\ work'.data = work.data /\ file' = view
      BY <1>7, <2>1 DEF Rename, Jobs
    <2>3. file' # Torn
      BY <2>1, <2>2, NamesAssumption
    <2>. QED  BY <1>7, <2>2, <2>3 DEF Rename, client
  <1>8. CASE RenderFails
    BY <1>8 DEF RenderFails, Interrupted, files
  <1>9. CASE HookEnds
    BY <1>9 DEF HookEnds, files
  <1>10. CASE Kill
    BY <1>10 DEF Kill, Interrupted, files
  <1>. QED  BY <1>1, <1>2, <1>3, <1>4, <1>5, <1>6, <1>7, <1>8, <1>9, <1>10 DEF Next

\* The agent has not rendered anything at first.
LEMMA InitAgent == Init => TypeOK /\ Running /\ Renders
  <1>1. ASSUME Init PROVE TypeOK
    <2>1. Defaults \in Config
      BY BoundsAssumption DEF Defaults, Config
    <2>2. << >> \in Seq(Messages) /\ Len(<< >>) <= Capacity
      BY BoundsAssumption
    <2>3. wire \in Seq(Messages) /\ Len(wire) <= Capacity
      BY <1>1, <2>2 DEF Init
    <2>4. backoff \in 1 .. MaxBackoff /\ timer \in 0 .. MaxBackoff
          /\ changes \in 0 .. MaxChanges /\ faults \in 0 .. MaxFaults
      BY <1>1, BoundsAssumption DEF Init
    <2>. QED  BY <1>1, <2>1, <2>3, <2>4 DEF Init, TypeOK
  <1>2. Init => Running
    BY BoundsAssumption DEF Init, Running, Defaults
  <1>3. Init => Renders
    BY NamesAssumption DEF Init, Renders, Doing
  <1>. QED  BY <1>1, <1>2, <1>3

\* Together they are inductive.
LEMMA Invariance == Spec => [](TypeOK /\ Running /\ Renders)
  <1>1. TypeOK /\ Running /\ Renders /\ [Next]_vars => (TypeOK /\ Running /\ Renders)'
    BY TypeStep, RendersStep
  <1>. QED  BY <1>1, InitAgent, PTL DEF Spec

\* Types; no attempt of Client.Run is put off for longer than maxBackoff.
THEOREM TypeCorrect == Spec => []TypeOK
  BY Invariance, PTL

\* Wherever writeFile fails or the agent is killed, the file is never torn; and
\* while runHook runs, the file has the configuration of the client.
THEOREM WholeFile == Spec => []FileServed
  <1>1. Renders => FileServed
    BY DEF Renders, FileServed
  <1>. QED  BY <1>1, Invariance, PTL

-----------------------------------------------------------------------------
(* The file and the committed variables.                                   *)

\* What a message says of a key, if it is about it.
About(m, k) == IsSnapshot(m) \/ m.key = k
Said(m, k) == IF IsSnapshot(m) THEN m.snapshot[k] ELSE m.value

\* The i-th message of an open stream is the last about the key, and tells the
\* committed value.
Tells(i, k) ==
  /\ About(wire[i], k) /\ Said(wire[i], k) = config[k]
  /\ \A j \in DOMAIN wire : j > i => ~ About(wire[j], k)

\* The client holds the committed value and will hear nothing else, or it will
\* hear it last, on a stream that dropped nothing.
Led ==
  phase = "open" /\ ~ lost =>
    \A k \in Keys :
      \/ view[k] = config[k] /\ \A i \in DOMAIN wire : ~ About(wire[i], k)
      \/ \E i \in DOMAIN wire : Tells(i, k)

\* Between two callbacks the file is what the client holds, from the snapshot
\* on, unless the last rendering failed.
Rested ==
  phase = "open" /\ work = None /\ ~ stale /\ (wire # << >> => ~ IsSnapshot(Head(wire))) =>
    file = view

\* An agent with a stream and nothing to do has the committed variables in the
\* file, unless a change was dropped or the last rendering failed.
UpToDate ==
  phase = "open" /\ wire = << >> /\ work = None /\ ~ lost /\ ~ stale => file = config

\* What the client has of a key after a message.
LEMMA AppliedSays ==
  ASSUME NEW m \in Messages, view \in Config, NEW k \in Keys
  PROVE  Applied(m)[k] = IF About(m, k) THEN Said(m, k) ELSE view[k]
  BY DEF Messages, Applied, About, Said, IsSnapshot, Config

\* The changes and snapshots of the server: what is dropped counts as lost.
LEMMA LedByServer ==
  ASSUME TypeOK, Led, Connect \/ \E k \in Keys : Change(k)
  PROVE  Led'
  <1>. USE DEF TypeOK
  <1>1. CASE Connect
    <2>1. wire' = <<[snapshot |-> config]>> /\ UNCHANGED config
      BY <1>1 DEF Connect
    <2>2. DOMAIN wire' = {1} /\ wire'[1] = [snapshot |-> config]
      BY <2>1
    <2>3. IsSnapshot(wire'[1])
      BY <2>2 DEF IsSnapshot
    <2>. QED  BY <2>1, <2>2, <2>3 DEF Led, Tells, About, Said
  <1>2. ASSUME NEW j \in Keys, Change(j) PROVE Led'
    <2>. DEFINE m == [key |-> j, value |-> config'[j]]
    <2>. SUFFICES ASSUME phase' = "open", ~ lost', NEW k \in Keys
                  PROVE  \/ view'[k] = config'[k] /\ \A i \in DOMAIN wire' : ~ About(wire'[i], k)
                         \/ \E i \in DOMAIN wire' : Tells(i, k)'
      BY DEF Led
    <2>1. /\ phase = "open" /\ ~ lost /\ wire' = Append(wire, m) /\ UNCHANGED view
          /\ config' = [config EXCEPT ![j] = @ + 1]
      BY <1>2 DEF Change, client
    <2>2. /\ Len(wire) \in Nat /\ DOMAIN wire = 1 .. Len(wire)
          /\ DOMAIN wire' = 1 .. Len(wire) + 1
          /\ wire'[Len(wire) + 1] = m
          /\ \A i \in DOMAIN wire : wire'[i] = wire[i]
      BY <2>1
    <2>3. ~ IsSnapshot(m)
      BY DEF IsSnapshot
    <2>4. CASE k = j
      <3>1. PICK n \in DOMAIN wire' : n = Len(wire) + 1
        BY <2>2
      <3>2. wire'[n] = m /\ About(m, k) /\ Said(m, k) = config'[k]
        BY <2>2, <2>3, <2>4, <3>1 DEF About, Said
      <3>3. \A i \in DOMAIN wire' : ~ i > n
        BY <2>2, <3>1
      <3>4. Tells(n, k)'
        BY <3>2, <3>3 DEF Tells
      <3>. QED  BY <3>1, <3>4
    <2>5. CASE k # j
      <3>1. config'[k] = config[k] /\ ~ About(m, k)
        BY <2>1, <2>3, <2>5 DEF About, Config
      <3>2. ASSUME NEW i \in DOMAIN wire, Tells(i, k) PROVE i \in DOMAIN wire' /\ Tells(i, k)'
        <4>1. i \in DOMAIN wire' /\ wire'[i] = wire[i]
          BY <2>2
        <4>2. ASSUME NEW n \in DOMAIN wire', n > i PROVE ~ About(wire'[n], k)
          BY <2>2, <3>1, <3>2, <4>2 DEF Tells
        <4>3. About(wire'[i], k) /\ Said(wire'[i], k) = config'[k]
          BY <3>1, <3>2, <4>1 DEF Tells
        <4>. QED  BY <4>1, <4>2, <4>3 DEF Tells
      <3>3. CASE view[k] = config[k] /\ \A i \in DOMAIN wire : ~ About(wire[i], k)
        <4>1. \A i \in DOMAIN wire' : ~ About(wire'[i], k)
          BY <2>2, <3>1, <3>3
        <4>. QED  BY <2>1, <3>1, <3>3, <4>1
      <3>. QED  BY <2>1, <3>2, <3>3 DEF Led
    <2>. QED  BY <2>4, <2>5
  <1>. QED  BY <1>1, <1>2

\* The client takes the first message; the others move up.
LEMMA LedByClient ==
  ASSUME TypeOK, Led, Receive
  PROVE  Led'
  <1>. USE DEF TypeOK
  <1>. SUFFICES ASSUME phase = "open", ~ lost, NEW k \in Keys
                PROVE  \/ view'[k] = config[k] /\ \A i \in DOMAIN wire' : ~ About(wire'[i], k)
                       \/ \E i \in DOMAIN wire' : Tells(i, k)'
    BY DEF Led, Receive
  <1>1. wire # << >> /\ wire' = Tail(wire) /\ view' = Applied(Head(wire)) /\ UNCHANGED config
    BY DEF Receive
  <1>2. /\ Len(wire) \in Nat \ {0} /\ DOMAIN wire = 1 .. Len(wire)
        /\ Head(wire) = wire[1] /\ wire[1] \in Messages
        /\ DOMAIN wire' = 1 .. Len(wire) - 1
        /\ \A i \in 1 .. Len(wire) - 1 : wire'[i] = wire[i + 1]
    BY <1>1
  <1>3. view'[k] = IF About(wire[1], k) THEN Said(wire[1], k) ELSE view[k]
    BY <1>1, <1>2, AppliedSays
  <1>4. CASE view[k] = config[k] /\ \A i \in DOMAIN wire : ~ About(wire[i], k)
    <2>1. ~ About(wire[1], k) /\ \A i \in DOMAIN wire' : ~ About(wire'[i], k)
      BY <1>2, <1>4
    <2>. QED  BY <1>3, <1>4, <2>1
  <1>5. ASSUME NEW i \in DOMAIN wire, Tells(i, k)
        PROVE  \/ view'[k] = config[k] /\ \A j \in DOMAIN wire' : ~ About(wire'[j], k)
               \/ \E j \in DOMAIN wire' : Tells(j, k)'
    <2>1. CASE i = 1
      <3>1. \A j \in DOMAIN wire' : ~ About(wire'[j], k)
        BY <1>2, <1>5, <2>1 DEF Tells
      <3>2. view'[k] = config[k]
        BY <1>3, <1>5, <2>1 DEF Tells
      <3>. QED  BY <3>1, <3>2
    <2>2. CASE i # 1
      <3>1. i - 1 \in DOMAIN wire' /\ wire'[i - 1] = wire[i]
        BY <1>2, <2>2
      <3>2. \A j \in DOMAIN wire' : j > i - 1 => ~ About(wire'[j], k)
        <4>. SUFFICES ASSUME NEW j \in DOMAIN wire', j > i - 1 PROVE ~ About(wire'[j], k)
          OBVIOUS
        <4>1. j + 1 \in DOMAIN wire /\ j + 1 > i /\ wire'[j] = wire[j + 1]
          BY <1>2
        <4>. QED  BY <1>5, <4>1 DEF Tells
      <3>3. Tells(i - 1, k)'
        BY <1>1, <1>5, <3>1, <3>2 DEF Tells
      <3>. QED  BY <3>1, <3>3
    <2>. QED  BY <2>1, <2>2
  <1>. QED  BY <1>4, <1>5 DEF Led

\* Every step leads the client to the committed variables.
LEMMA LedStep ==
  ASSUME TypeOK, Led, [Next]_vars
  PROVE  Led'
  <1>1. CASE UNCHANGED <<config, wire, view, phase, lost>>
    BY <1>1 DEF Led, Tells
  <1>2. CASE phase' # "open"
    BY <1>2 DEF Led
  <1>3. CASE \/ UNCHANGED vars \/ Tick \/ Write \/ Rename \/ RenderFails \/ HookEnds
             \/ Start \/ Break \/ BackOff \/ Kill
    BY <1>1, <1>2, <1>3
       DEF vars, client, Tick, Write, Rename, RenderFails, HookEnds, Start, Break, BackOff, Kill
  <1>. QED  BY <1>3, LedByServer, LedByClient DEF Next

\* Every step leaves the file as the client holds it, or has a reason why not.
LEMMA RestedStep ==
  ASSUME TypeOK, Renders, Rested, [Next]_vars
  PROVE  Rested'
  <1>. USE DEF Rested
  <1>1. CASE UNCHANGED vars
    BY <1>1 DEF vars, client, files
  <1>2. ASSUME NEW k \in Keys, Change(k) PROVE Rested'
    <2>1. wire # << >> => /\ wire' # << >> /\ Head(wire') = Head(wire)
      BY <1>2 DEF Change, TypeOK
    <2>. QED  BY <1>2, <2>1 DEF Change, client, files
  <1>3. CASE Connect
    <2>1. wire' # << >> /\ Head(wire') = [snapshot |-> config]
      BY <1>3 DEF Connect
    <2>2. IsSnapshot(Head(wire'))
      BY <2>1 DEF IsSnapshot
    <2>. QED  BY <2>1, <2>2
  <1>4. CASE Receive
    <2>1. work' # None
      <3>1. Head(wire) \in Messages
        BY <1>4, WireType DEF Receive, TypeOK
      <3>2. work' \in Jobs
        BY <1>4, <3>1, AppliedType DEF Receive, Callback, Rendering, Jobs, TypeOK
      <3>. QED  BY <3>2, NamesAssumption
    <2>. QED  BY <2>1
  <1>5. CASE Write \/ Rename
    <2>1. work \in Jobs
      BY <1>5 DEF Write, Rename, Doing, TypeOK
    <2>2. work' \in Jobs
      BY <1>5, <2>1 DEF Write, Rename, Jobs
    <2>. QED  BY <2>2, NamesAssumption
  <1>6. CASE HookEnds
    BY <1>6 DEF HookEnds, Renders, client, files
  <1>7. CASE RenderFails
    BY <1>7 DEF RenderFails
  <1>8. CASE Start \/ Break \/ BackOff \/ Tick \/ Kill
    <2>1. phase' # "open"
      BY <1>8 DEF Start, Break, BackOff, Tick, Kill
    <2>. QED  BY <2>1
  <1>. QED  BY <1>1, <1>2, <1>3, <1>4, <1>5, <1>6, <1>7, <1>8 DEF Next

\* "re-renders on every change" (README.md:163), the part of Rendered that is
\* not about time: an agent at rest serves the committed variables, wherever it
\* was killed, cut off or held up by its hook before.
THEOREM Served == Spec => []UpToDate
  <1>1. Init => Led /\ Rested
    BY DEF Init, Led, Rested
  <1>2. ASSUME TypeOK, Led, Rested PROVE UpToDate
    <2>. SUFFICES ASSUME phase = "open", wire = << >>, work = None, ~ lost, ~ stale
                  PROVE  file = config
      BY DEF UpToDate
    <2>1. file = view
      BY <1>2 DEF Rested
    <2>2. \A k \in Keys : view[k] = config[k]
      <3>1. DOMAIN wire = {}
        OBVIOUS
      <3>. QED  BY <1>2, <3>1 DEF Led
    <2>3. view = config
      BY <1>2, <2>2 DEF TypeOK, Config
    <2>. QED  BY <2>1, <2>3
  <1>3. TypeOK /\ Renders /\ Led /\ Rested /\ [Next]_vars => Led' /\ Rested'
    BY LedStep, RestedStep
  <1>. QED  BY <1>1, <1>2, <1>3, Invariance, PTL DEF Spec

=============================================================================
