---------------------------- MODULE ConnTracking ----------------------------
(***************************************************************************)
(* How the replicas account for the open gRPC streams of a service: every  *)
(* stream is a row of table connection_clients from Register to            *)
(* Unregister; the ConnTracker of a replica touches the rows of the        *)
(* replica on a heartbeat, removes anyone's rows that were not touched for *)
(* the TTL, and clears the rows of the replica when the process is told to *)
(* stop.  Readers count the rows that are younger than the TTL.            *)
(*                                                                         *)
(* Time passes in ticks of the heartbeat interval; an age is in ticks.  A  *)
(* process takes a new random replica id when it starts, so a replica runs *)
(* once, and so does a stream, which takes a new connection id.            *)
(***************************************************************************)
EXTENDS Integers

CONSTANTS
  Replicas,     \* ids of server processes
  Conns,        \* ids of streams
  TTL,          \* ConnTTLSeconds in heartbeat intervals (6 in the code)
  MaxFailures,  \* bound on statements that fail
  None

\* Between two heartbeats an age reaches 1, which must still be counted.
ASSUME BoundsAssumption == TTL \in Nat \ {0, 1} /\ MaxFailures \in Nat
ASSUME NoneAssumption == None \notin Replicas /\ None \notin Int

VARIABLES
  status,     \* of the process
  accepting,  \* does its gRPC server take new streams
  cleared,    \* has its ConnTracker returned
  beat,       \* has its heartbeat been due in this tick
  stage,      \* of the stream
  owner,      \* the replica that serves it
  age,        \* of its row, None if it has none
  failures,   \* counter of the bound
  skipped,    \* auxiliary: heartbeats of the replica that failed in a row
  late,       \* auxiliary: the replicas that ever failed too many in a row
  registered  \* auxiliary: streams whose Register returned no error

process == <<status, accepting, cleared, beat>>
streams == <<stage, owner>>
aux == <<skipped, late, registered>>
vars == <<status, accepting, cleared, beat, stage, owner, age, failures,
          skipped, late, registered>>

Init ==
  /\ status = [r \in Replicas |-> "off"]
  /\ accepting = [r \in Replicas |-> FALSE]
  /\ cleared = [r \in Replicas |-> FALSE]
  /\ beat = [r \in Replicas |-> FALSE]
  /\ stage = [c \in Conns |-> "new"]
  /\ owner = [c \in Conns |-> None]
  /\ age = [c \in Conns |-> None]
  /\ failures = 0
  /\ skipped = [r \in Replicas |-> 0]
  /\ late = {}
  /\ registered = {}

\* WHERE updated_at > now() - ttl
Counted(c) == age[c] # None /\ age[c] < TTL

StreamsOf(r) == {c \in Conns : owner[c] = r}

Fails ==
  /\ failures < MaxFailures
  /\ failures' = failures + 1

-----------------------------------------------------------------------------
(* Streams: the part of Server.Subscribe that concerns the tracker.        *)

Open(c, r) ==
  /\ stage[c] = "new"
  /\ accepting[r]
  /\ stage' = [stage EXCEPT ![c] = "registering"]
  /\ owner' = [owner EXCEPT ![c] = r]
  /\ UNCHANGED <<process, age, failures, aux>>

\* Faulty variants, here and below, show that the properties can fail.
\* Does not wait for the insert, which can land when the stream is closed.
RegisterInBackground(c) ==
  /\ stage[c] # "new"
  /\ c \notin registered
  /\ stage' = [stage EXCEPT ![c] = IF @ = "registering" THEN "live" ELSE @]
  /\ \/ age' = [age EXCEPT ![c] = 0] /\ registered' = registered \cup {c}
     \/ UNCHANGED <<age, registered>>
  /\ UNCHANGED <<process, owner, failures, skipped, late>>

Register(c) ==
  /\ stage[c] = "registering"
  /\ stage' = [stage EXCEPT ![c] = "live"]
  /\ age' = [age EXCEPT ![c] = 0]
  /\ registered' = registered \cup {c}
  /\ UNCHANGED <<process, owner, failures, skipped, late>>

\* The insert reports an error, be it before or after its commit.
RegisterFails(c) ==
  /\ stage[c] = "registering"
  /\ Fails
  /\ stage' = [stage EXCEPT ![c] = "live"]
  /\ age' \in {age, [age EXCEPT ![c] = 0]}
  /\ UNCHANGED <<process, owner, aux>>

\* The client goes, or a Send fails.
Close(c) ==
  /\ stage[c] = "live"
  /\ stage' = [stage EXCEPT ![c] = "closing"]
  /\ UNCHANGED <<process, owner, age, failures, aux>>

Unregister(c) ==
  /\ stage[c] = "closing"
  /\ stage' = [stage EXCEPT ![c] = "done"]
  /\ age' = [age EXCEPT ![c] = None]
  /\ UNCHANGED <<process, owner, failures, aux>>

UnregisterFails(c) ==
  /\ stage[c] = "closing"
  /\ Fails
  /\ stage' = [stage EXCEPT ![c] = "done"]
  /\ age' \in {age, [age EXCEPT ![c] = None]}
  /\ UNCHANGED <<process, owner, aux>>

-----------------------------------------------------------------------------
(* ConnTracker.Run.                                                        *)

\* Touches every row of the table.
TouchedAll(r) == [c \in Conns |-> IF age[c] # None THEN 0 ELSE None]

\* Writes the time of the next heartbeat.
TouchedAhead(r) ==
  [c \in Conns |-> IF owner[c] = r /\ age[c] # None THEN -1 ELSE age[c]]

\* UPDATE ... SET updated_at = now(): there is no row to bring back.
Touched(r) ==
  [c \in Conns |-> IF owner[c] = r /\ age[c] # None THEN 0 ELSE age[c]]

Heartbeat(r) ==
  /\ status[r] = "up"
  /\ ~ beat[r]
  /\ beat' = [beat EXCEPT ![r] = TRUE]
  /\ age' = Touched(r)
  /\ skipped' = [skipped EXCEPT ![r] = 0]
  /\ UNCHANGED <<status, accepting, cleared, streams, failures, late, registered>>

HeartbeatFails(r) ==
  /\ status[r] = "up"
  /\ ~ beat[r]
  /\ Fails
  /\ beat' = [beat EXCEPT ![r] = TRUE]
  /\ skipped' = [skipped EXCEPT ![r] = @ + 1]
  /\ late' = IF skipped[r] + 2 >= TTL THEN late \cup {r} ELSE late
  /\ UNCHANGED <<status, accepting, cleared, streams, age, registered>>

\* Compares with half of the TTL.
ExpiredEarly(c) == age[c] # None /\ 2 * age[c] >= TTL
\* Compares with twice the TTL, beyond which ages are not told apart.
ExpiredLate(c) == age[c] # None /\ age[c] > 2 * TTL

\* WHERE updated_at < now() - ttl
Expired(c) == age[c] # None /\ age[c] > TTL

Purge(r) ==
  /\ status[r] = "up"
  /\ age' = [c \in Conns |-> IF Expired(c) THEN None ELSE age[c]]
  /\ UNCHANGED <<process, streams, failures, aux>>

Cleared(r) == [c \in Conns |-> IF owner[c] = r THEN None ELSE age[c]]

\* The context of the tracker is cancelled: clear, and return.
Clear(r) ==
  /\ status[r] = "draining"
  /\ ~ cleared[r]
  /\ cleared' = [cleared EXCEPT ![r] = TRUE]
  /\ \/ age' = Cleared(r) /\ UNCHANGED failures
     \/ Fails /\ age' \in {age, Cleared(r)}
  /\ UNCHANGED <<status, accepting, beat, streams, aux>>

-----------------------------------------------------------------------------
(* The process: run of cmd/server.                                         *)

Start(r) ==
  /\ status[r] = "off"
  /\ status' = [status EXCEPT ![r] = "up"]
  /\ accepting' = [accepting EXCEPT ![r] = TRUE]
  /\ UNCHANGED <<cleared, beat, streams, age, failures, aux>>

\* SIGTERM cancels rootCtx, which broker and tracker run under; run goes on
\* to GracefulStop, which refuses new streams and waits for the open ones.
Terminate(r) ==
  /\ status[r] = "up"
  /\ status' = [status EXCEPT ![r] = "draining"]
  /\ UNCHANGED <<accepting, cleared, beat, streams, age, failures, aux>>

GracefulStop(r) ==
  /\ status[r] = "draining"
  /\ accepting[r]
  /\ accepting' = [accepting EXCEPT ![r] = FALSE]
  /\ UNCHANGED <<status, cleared, beat, streams, age, failures, aux>>

\* After 20 s Stop cancels the streams that are left.  By then the tracker,
\* whose clear has 5 s, has returned.
ForceStop(r) ==
  /\ status[r] = "draining"
  /\ ~ accepting[r]
  /\ cleared[r]
  /\ \E c \in StreamsOf(r) : stage[c] # "done"
  /\ status' = [status EXCEPT ![r] = "forced"]
  /\ stage' = [c \in Conns |->
       IF owner[c] = r /\ stage[c] = "live" THEN "closing" ELSE stage[c]]
  /\ UNCHANGED <<accepting, cleared, beat, owner, age, failures, aux>>

\* The streams of a process end with it.
Ended(r) == [c \in Conns |-> IF owner[c] = r THEN "done" ELSE stage[c]]

\* run returns: GracefulStop waited for the handlers, Stop does not, and
\* nothing waits for the tracker.
Exit(r) ==
  /\ \/ /\ status[r] = "draining"
        /\ ~ accepting[r]
        /\ \A c \in StreamsOf(r) : stage[c] = "done"
     \/ status[r] = "forced"
  /\ status' = [status EXCEPT ![r] = "stopped"]
  /\ stage' = Ended(r)
  /\ UNCHANGED <<accepting, cleared, beat, owner, age, failures, aux>>

\* The process dies, or run returns the error of one of its servers.
Crash(r) ==
  /\ status[r] \in {"up", "draining", "forced"}
  /\ status' = [status EXCEPT ![r] = "crashed"]
  /\ accepting' = [accepting EXCEPT ![r] = FALSE]
  /\ stage' = Ended(r)
  /\ UNCHANGED <<cleared, beat, owner, age, failures, aux>>

-----------------------------------------------------------------------------

\* One heartbeat interval: every running tracker has had its heartbeat.  Ages
\* beyond the TTL are not told apart.
Tick ==
  /\ \A r \in Replicas : status[r] = "up" => beat[r]
  /\ beat' = [r \in Replicas |-> FALSE]
  /\ age' = [c \in Conns |-> IF age[c] # None /\ age[c] <= TTL THEN age[c] + 1 ELSE age[c]]
  /\ UNCHANGED <<status, accepting, cleared, streams, failures, aux>>

Next ==
  \/ \E c \in Conns : \/ \E r \in Replicas : Open(c, r)
                      \/ Register(c) \/ RegisterFails(c)
                      \/ Close(c)
                      \/ Unregister(c) \/ UnregisterFails(c)
  \/ \E r \in Replicas : \/ Heartbeat(r) \/ HeartbeatFails(r)
                         \/ Purge(r) \/ Clear(r)
                         \/ Start(r) \/ Terminate(r) \/ GracefulStop(r)
                         \/ ForceStop(r) \/ Exit(r) \/ Crash(r)
  \/ Tick

Spec == Init /\ [][Next]_vars

\* Time passes, and the tickers of a running tracker fire.
Fairness ==
  /\ WF_vars(Tick)
  /\ \A r \in Replicas : /\ WF_vars(Heartbeat(r) \/ HeartbeatFails(r))
                         /\ WF_vars(Purge(r))

FairSpec == Spec /\ Fairness

-----------------------------------------------------------------------------
(* Properties.                                                             *)

\* Type invariant of processes, streams and rows.
TypeOK ==
  /\ status \in [Replicas -> {"off", "up", "draining", "forced", "stopped", "crashed"}]
  /\ accepting \in [Replicas -> BOOLEAN]
  /\ cleared \in [Replicas -> BOOLEAN]
  /\ beat \in [Replicas -> BOOLEAN]
  /\ stage \in [Conns -> {"new", "registering", "live", "closing", "done"}]
  /\ owner \in [Conns -> Replicas \cup {None}]
  /\ age \in [Conns -> 0 .. TTL + 1 \cup {None}]
  /\ failures \in 0 .. MaxFailures
  /\ skipped \in [Replicas -> Nat]
  /\ late \subseteq Replicas
  /\ registered \subseteq Conns

\* A registered stream of a running replica is counted, whatever the other
\* replicas purge, clear or suffer, as long as its own replica never failed
\* so many heartbeats in a row that the TTL ran out.
LiveCounted ==
  \A c \in registered : \A r \in Replicas \ late :
    owner[c] = r /\ status[r] = "up" /\ stage[c] = "live" => Counted(c)

\* While a replica runs and no statement fails, a closed stream of it has no
\* row: Unregister comes after Register.
NoGhostWhileUp ==
  failures = 0 => \A c \in Conns : \A r \in Replicas :
    owner[c] = r /\ status[r] = "up" /\ stage[c] = "done" => age[c] = None

\* The streams of a process that has ended, in whatever way, are not counted
\* for ever: no other replica's heartbeat keeps their rows fresh.
GhostsVanish ==
  \A r \in Replicas :
    status[r] \in {"stopped", "crashed"} ~> \A c \in StreamsOf(r) : ~ Counted(c)

\* As long as some replica keeps running, the rows of those that have ended
\* are removed.
GhostsPurged ==
  <>[](\E r \in Replicas : status[r] = "up") =>
    \A r \in Replicas :
      status[r] \in {"stopped", "crashed"} ~> \A c \in StreamsOf(r) : age[c] = None

=============================================================================
