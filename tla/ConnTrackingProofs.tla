------------------------- MODULE ConnTrackingProofs -------------------------
(***************************************************************************)
(* ConnTracking: type correctness; that a registered stream of a running   *)
(* replica is counted as long as the heartbeats of that replica arrive and *)
(* has no row once it is closed; and that the rows of a replica that has   *)
(* ended only age, for any replicas, streams, TTL of at least two          *)
(* heartbeats and number of failures.                                      *)
(***************************************************************************)
EXTENDS ConnTracking, TLAPS

\* A process that was not started accepts no stream and serves none.
NotStarted ==
  \A r \in Replicas : status[r] = "off" =>
    ~ accepting[r] /\ \A c \in Conns : owner[c] # r

\* Register is the way to a registered stream.
BeforeRegister ==
  \A c \in Conns : stage[c] \in {"new", "registering"} => c \notin registered

\* A replica that never failed too many heartbeats in a row has the next one
\* within the TTL.
InTime == \A r \in Replicas \ late : skipped[r] + 1 < TTL

\* The row of a live stream is as old as the heartbeats that its replica
\* failed since the last one that succeeded, and the tick under way.
RowAge ==
  \A c \in registered : \A r \in Replicas \ late :
    owner[c] = r /\ status[r] = "up" /\ stage[c] = "live" =>
      /\ age[c] \in Nat
      /\ age[c] <= skipped[r] + (IF beat[r] THEN 0 ELSE 1)

IInv ==
  /\ TypeOK
  /\ NotStarted
  /\ BeforeRegister
  /\ InTime
  /\ RowAge
  /\ NoGhostWhileUp

-----------------------------------------------------------------------------

\* Every process, row and stream keeps its type in every step.
LEMMA TypeStep == ASSUME TypeOK, [Next]_vars PROVE TypeOK'
  <1> USE BoundsAssumption, NoneAssumption DEF TypeOK, process, streams, aux, vars
  <1>1. CASE UNCHANGED vars  BY <1>1
  <1>2. ASSUME NEW c \in Conns, NEW r \in Replicas, Open(c, r) PROVE TypeOK'
    BY <1>2 DEF Open
  <1>3. ASSUME NEW c \in Conns,
               \/ Register(c) \/ RegisterFails(c) \/ Close(c)
               \/ Unregister(c) \/ UnregisterFails(c)
        PROVE TypeOK'
    <2>1. CASE Register(c)  BY <2>1 DEF Register
    <2>2. CASE RegisterFails(c)  BY <2>2 DEF RegisterFails, Fails
    <2>3. CASE Close(c)  BY <2>3 DEF Close
    <2>4. CASE Unregister(c)  BY <2>4 DEF Unregister
    <2>5. CASE UnregisterFails(c)  BY <2>5 DEF UnregisterFails, Fails
    <2>6. QED  BY <1>3, <2>1, <2>2, <2>3, <2>4, <2>5
  <1>4. ASSUME NEW r \in Replicas,
               \/ Heartbeat(r) \/ HeartbeatFails(r) \/ Purge(r) \/ Clear(r)
        PROVE TypeOK'
    <2>1. CASE Heartbeat(r)  BY <2>1 DEF Heartbeat, Touched
    <2>2. CASE HeartbeatFails(r)  BY <2>2 DEF HeartbeatFails, Fails
    <2>3. CASE Purge(r)  BY <2>3 DEF Purge
    <2>4. CASE Clear(r)  BY <2>4 DEF Clear, Cleared, Fails
    <2>5. QED  BY <1>4, <2>1, <2>2, <2>3, <2>4
  <1>5. ASSUME NEW r \in Replicas,
               \/ Start(r) \/ Terminate(r) \/ GracefulStop(r)
               \/ ForceStop(r) \/ Exit(r) \/ Crash(r)
        PROVE TypeOK'
    <2>1. CASE Start(r)  BY <2>1 DEF Start
    <2>2. CASE Terminate(r)  BY <2>2 DEF Terminate
    <2>3. CASE GracefulStop(r)  BY <2>3 DEF GracefulStop
    <2>4. CASE ForceStop(r)  BY <2>4 DEF ForceStop
    <2>5. CASE Exit(r)  BY <2>5 DEF Exit, Ended
    <2>6. CASE Crash(r)  BY <2>6 DEF Crash, Ended
    <2>7. QED  BY <1>5, <2>1, <2>2, <2>3, <2>4, <2>5, <2>6
  <1>6. CASE Tick  BY <1>6 DEF Tick
  <1>7. QED  BY <1>1, <1>2, <1>3, <1>4, <1>5, <1>6 DEF Next

\* Initially nothing runs, no stream was opened, and there are no rows.
LEMMA InitIInv == Init => IInv
  BY BoundsAssumption, NoneAssumption
  DEF Init, IInv, TypeOK, NotStarted, BeforeRegister, InTime, RowAge, NoGhostWhileUp

-----------------------------------------------------------------------------

\* Steps of streams keep the invariant.
LEMMA StreamStep ==
  ASSUME IInv, TypeOK', NEW c \in Conns,
         \/ \E r \in Replicas : Open(c, r)
         \/ Register(c) \/ RegisterFails(c) \/ Close(c)
         \/ Unregister(c) \/ UnregisterFails(c)
  PROVE  IInv'
  <1> USE BoundsAssumption, NoneAssumption
      DEF IInv, TypeOK, NotStarted, BeforeRegister, InTime, RowAge, NoGhostWhileUp,
          process, streams, aux
  <1>1. ASSUME NEW r \in Replicas, Open(c, r) PROVE IInv'
    BY <1>1 DEF Open
  <1>2. CASE Register(c)  BY <1>2 DEF Register
  <1>3. CASE RegisterFails(c)  BY <1>3 DEF RegisterFails, Fails
  <1>4. CASE Close(c)  BY <1>4 DEF Close
  <1>5. CASE Unregister(c)  BY <1>5 DEF Unregister
  <1>6. CASE UnregisterFails(c)  BY <1>6 DEF UnregisterFails, Fails
  <1>7. QED  BY <1>1, <1>2, <1>3, <1>4, <1>5, <1>6

\* Steps of a tracker keep the invariant.
LEMMA TrackerStep ==
  ASSUME IInv, TypeOK', NEW r \in Replicas,
         \/ Heartbeat(r) \/ HeartbeatFails(r) \/ Purge(r) \/ Clear(r)
  PROVE  IInv'
  <1> USE BoundsAssumption, NoneAssumption
      DEF IInv, TypeOK, NotStarted, BeforeRegister, InTime, RowAge, NoGhostWhileUp,
          process, streams, aux
  <1>1. CASE Heartbeat(r)  BY <1>1 DEF Heartbeat, Touched
  <1>2. CASE HeartbeatFails(r)  BY <1>2 DEF HeartbeatFails, Fails
  <1>3. CASE Purge(r)  BY <1>3 DEF Purge, Expired
  <1>4. CASE Clear(r)  BY <1>4 DEF Clear, Cleared, Fails
  <1>5. QED  BY <1>1, <1>2, <1>3, <1>4

\* Steps of a process keep the invariant.
LEMMA ProcessStep ==
  ASSUME IInv, TypeOK', NEW r \in Replicas,
         \/ Start(r) \/ Terminate(r) \/ GracefulStop(r)
         \/ ForceStop(r) \/ Exit(r) \/ Crash(r)
  PROVE  IInv'
  <1> USE BoundsAssumption, NoneAssumption
      DEF IInv, TypeOK, NotStarted, BeforeRegister, InTime, RowAge, NoGhostWhileUp,
          process, streams, aux
  <1>1. CASE Start(r)  BY <1>1 DEF Start
  <1>2. CASE Terminate(r)  BY <1>2 DEF Terminate
  <1>3. CASE GracefulStop(r)  BY <1>3 DEF GracefulStop
  <1>4. CASE ForceStop(r)  BY <1>4 DEF ForceStop
  <1>5. CASE Exit(r)  BY <1>5 DEF Exit, Ended
  <1>6. CASE Crash(r)  BY <1>6 DEF Crash, Ended
  <1>7. QED  BY <1>1, <1>2, <1>3, <1>4, <1>5, <1>6

\* The passing of time keeps the invariant: every running tracker has had
\* its heartbeat.
LEMMA TickStep == ASSUME IInv, TypeOK', Tick PROVE IInv'
  BY BoundsAssumption, NoneAssumption
  DEF Tick, IInv, TypeOK, NotStarted, BeforeRegister, InTime, RowAge,
      NoGhostWhileUp, process, streams, aux

\* The invariant holds in every reachable state.
THEOREM Invariance == Spec => []IInv
  <1>1. ASSUME IInv, [Next]_vars PROVE IInv'
    <2>1. TypeOK'  BY <1>1, TypeStep DEF IInv
    <2>2. CASE UNCHANGED vars
      BY <1>1, <2>1, <2>2
      DEF IInv, NotStarted, BeforeRegister, InTime, RowAge, NoGhostWhileUp, vars
    <2>3. ASSUME NEW c \in Conns,
                 \/ \E r \in Replicas : Open(c, r)
                 \/ Register(c) \/ RegisterFails(c) \/ Close(c)
                 \/ Unregister(c) \/ UnregisterFails(c)
          PROVE IInv'
      BY <1>1, <2>1, <2>3, StreamStep
    <2>4. ASSUME NEW r \in Replicas,
                 \/ Heartbeat(r) \/ HeartbeatFails(r) \/ Purge(r) \/ Clear(r)
          PROVE IInv'
      BY <1>1, <2>1, <2>4, TrackerStep
    <2>5. ASSUME NEW r \in Replicas,
                 \/ Start(r) \/ Terminate(r) \/ GracefulStop(r)
                 \/ ForceStop(r) \/ Exit(r) \/ Crash(r)
          PROVE IInv'
      BY <1>1, <2>1, <2>5, ProcessStep
    <2>6. CASE Tick  BY <1>1, <2>1, <2>6, TickStep
    <2>7. QED  BY <1>1, <2>2, <2>3, <2>4, <2>5, <2>6 DEF Next
  <1>2. QED  BY InitIInv, <1>1, PTL DEF Spec

-----------------------------------------------------------------------------

\* Processes, streams and rows keep their types.
THEOREM TypeCorrect == Spec => []TypeOK
  <1>1. IInv => TypeOK  BY DEF IInv
  <1>2. QED  BY Invariance, <1>1, PTL

\* A live registered stream of a running replica is in the counts, whatever
\* other replicas purge and clear, unless its own replica failed so many
\* heartbeats in a row that the TTL ran out.
THEOREM StreamsCounted == Spec => []LiveCounted
  <1>1. IInv => LiveCounted
    BY BoundsAssumption, NoneAssumption
    DEF IInv, TypeOK, InTime, RowAge, LiveCounted, Counted
  <1>2. QED  BY Invariance, <1>1, PTL

\* As long as no statement has failed, a closed stream of a running replica
\* has no row: nothing brings a row back after Unregister.
THEOREM NoGhosts == Spec => []NoGhostWhileUp
  <1>1. IInv => NoGhostWhileUp  BY DEF IInv
  <1>2. QED  BY Invariance, <1>1, PTL

-----------------------------------------------------------------------------
(* The rows that an ended process leaves behind.                           *)

Over(r) == status[r] \in {"stopped", "crashed"}

\* A process takes no streams after it was told to stop them, and its streams
\* end with it.
OverAndOut ==
  \A r \in Replicas :
    /\ status[r] \in {"forced", "stopped", "crashed"} => ~ accepting[r]
    /\ Over(r) => \A c \in StreamsOf(r) : stage[c] = "done"

\* Every step keeps it: a stream of an ended process cannot move.
LEMMA OverStep == ASSUME TypeOK, OverAndOut, [Next]_vars PROVE OverAndOut'
  <1> USE DEF TypeOK, OverAndOut, Over, StreamsOf, process, streams, aux, vars
  <1>1. CASE UNCHANGED vars  BY <1>1
  <1>2. ASSUME NEW c \in Conns, NEW r \in Replicas, Open(c, r) PROVE OverAndOut'
    BY <1>2 DEF Open
  <1>3. ASSUME NEW c \in Conns,
               \/ Register(c) \/ RegisterFails(c) \/ Close(c)
               \/ Unregister(c) \/ UnregisterFails(c)
        PROVE OverAndOut'
    BY <1>3 DEF Register, RegisterFails, Close, Unregister, UnregisterFails
  <1>4. ASSUME NEW r \in Replicas,
               \/ Heartbeat(r) \/ HeartbeatFails(r) \/ Purge(r) \/ Clear(r)
        PROVE OverAndOut'
    BY <1>4 DEF Heartbeat, HeartbeatFails, Purge, Clear
  <1>5. ASSUME NEW r \in Replicas, Start(r) \/ Terminate(r) \/ GracefulStop(r)
        PROVE OverAndOut'
    BY <1>5 DEF Start, Terminate, GracefulStop
  <1>6. ASSUME NEW r \in Replicas, ForceStop(r) \/ Exit(r) \/ Crash(r) PROVE OverAndOut'
    BY <1>6 DEF ForceStop, Exit, Crash, Ended
  <1>7. CASE Tick  BY <1>7 DEF Tick
  <1>8. QED  BY <1>1, <1>2, <1>3, <1>4, <1>5, <1>6, <1>7 DEF Next

\* No heartbeat, whosever it is, and no late insert makes the row of an ended
\* process younger or brings one back: once such a stream is out of the counts
\* it stays out.
GhostsAge ==
  [][\A r \in Replicas : Over(r) => \A c \in StreamsOf(r) :
       /\ Over(r)' /\ owner'[c] = r
       /\ age[c] = None => age'[c] = None
       /\ age'[c] # None => age'[c] >= age[c]]_vars

\* The rows of a process that stopped or died are left to time: this is why
\* they leave the counts after their TTL (conntracker.go:74,
\* connections.go), which GhostsVanish says of fair behaviors.
THEOREM GhostsOnlyAge == Spec => GhostsAge
  <1>. DEFINE Ages == \A r \in Replicas : Over(r) => \A c \in StreamsOf(r) :
         /\ Over(r)' /\ owner'[c] = r
         /\ age[c] = None => age'[c] = None
         /\ age'[c] # None => age'[c] >= age[c]
  <1>1. Init => OverAndOut
    BY DEF Init, OverAndOut, Over
  <1>2. ASSUME TypeOK, OverAndOut, [Next]_vars PROVE Ages
    <2> SUFFICES ASSUME NEW r \in Replicas, Over(r), NEW c \in StreamsOf(r)
                 PROVE  /\ Over(r)' /\ owner'[c] = r
                        /\ age[c] = None => age'[c] = None
                        /\ age'[c] # None => age'[c] >= age[c]
      OBVIOUS
    <2>0. /\ c \in Conns /\ owner[c] = r /\ stage[c] = "done" /\ ~ accepting[r]
          /\ age[c] # None => age[c] \in Nat
      BY <1>2 DEF OverAndOut, Over, StreamsOf, TypeOK
    <2> USE <2>0, NoneAssumption DEF TypeOK, Over, StreamsOf, process, streams, aux
    <2>1. CASE UNCHANGED vars
      BY <2>1 DEF vars
    <2>2. ASSUME NEW d \in Conns, NEW q \in Replicas, Open(d, q)
          PROVE  Over(r)' /\ owner'[c] = r /\ age'[c] = age[c]
      BY <1>2, <2>2 DEF Open
    <2>3. ASSUME NEW d \in Conns,
                 \/ Register(d) \/ RegisterFails(d) \/ Close(d)
                 \/ Unregister(d) \/ UnregisterFails(d)
          PROVE  Over(r)' /\ owner'[c] = r /\ age'[c] = age[c]
      BY <1>2, <2>3 DEF Register, RegisterFails, Close, Unregister, UnregisterFails
    <2>4. ASSUME NEW q \in Replicas,
                 \/ Heartbeat(q) \/ HeartbeatFails(q) \/ Purge(q) \/ Clear(q)
          PROVE  Over(r)' /\ owner'[c] = r /\ age'[c] \in {age[c], None}
      BY <1>2, <2>4 DEF Heartbeat, HeartbeatFails, Purge, Clear, Touched, Cleared
    <2>5. ASSUME NEW q \in Replicas,
                 \/ Start(q) \/ Terminate(q) \/ GracefulStop(q)
                 \/ ForceStop(q) \/ Exit(q) \/ Crash(q)
          PROVE  Over(r)' /\ owner'[c] = r /\ age'[c] = age[c]
      BY <1>2, <2>5 DEF Start, Terminate, GracefulStop, ForceStop, Exit, Crash
    <2>6. CASE Tick
      BY <1>2, <2>6 DEF Tick
    <2>7. QED  BY <1>2, <2>1, <2>2, <2>3, <2>4, <2>5, <2>6 DEF Next
  <1>3. TypeOK /\ OverAndOut /\ [Next]_vars => [Ages]_vars
    BY <1>2
  <1>4. TypeOK /\ OverAndOut /\ [Next]_vars => OverAndOut'
    BY OverStep
  <1>5. QED  BY <1>1, <1>3, <1>4, TypeCorrect, PTL DEF Spec, GhostsAge

=============================================================================
