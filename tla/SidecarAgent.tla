---------------------------- MODULE SidecarAgent ----------------------------
(***************************************************************************)
(* The sidecar agent with the Go client in it: the client keeps a stream   *)
(* open, with a backoff between two attempts, and calls the agent back for *)
(* the snapshot and for every change; the callback renders the whole       *)
(* configuration to a file and runs a hook, and the stream is not read     *)
(* until it returns.                                                       *)
(*                                                                         *)
(* The server's side is what ConfigStream is about: a snapshot, then the   *)
(* changes in their order, without those that find the channel full.       *)
(***************************************************************************)
EXTENDS Naturals, Sequences

CONSTANTS
  Keys,
  Capacity,    \* messages that fit between server and client
  MaxBackoff,  \* in seconds; 30 in the code
  MaxChanges,  \* bound on changes
  MaxFaults,   \* bound on broken streams, failed writes and ends of the agent
  None,
  Torn         \* a file that was not written to its end

ASSUME BoundsAssumption ==
  /\ Capacity \in Nat \ {0} /\ MaxBackoff \in Nat \ {0}
  /\ MaxChanges \in Nat /\ MaxFaults \in Nat

\* The value of a key is the number of its changes; 0 is the default.
Config == [Keys -> 0 .. MaxChanges]
Defaults == [k \in Keys |-> 0]

\* What a callback is at, and what it renders.
Jobs == [step : {"write", "rename", "hook"}, data : Config]

ASSUME NamesAssumption == None \notin Config \cup Jobs /\ Torn \notin Config \cup {None}

VARIABLES
  config,   \* the committed variables
  wire,     \* messages on their way
  phase,    \* of the client: "off", "ready", "open", "cut" or "wait"
  backoff,  \* local of Client.Run
  timer,    \* seconds until the next attempt
  view,     \* the configuration of the client
  work,     \* None, or the step of the callback and what it renders
  tmp,      \* contents of the temporary file, or None
  file,     \* contents of AGENT_OUTPUT_FILE, or None
  changes,  \* counter of the bound
  faults,   \* counter of the bound
  lost,     \* auxiliary: a change was dropped since the last snapshot
  stale     \* auxiliary: the last rendering failed

client == <<phase, backoff, timer, view>>
files == <<tmp, file>>
vars == <<config, wire, client, work, files, changes, faults, lost, stale>>

Init ==
  /\ config = Defaults
  /\ wire = << >>
  /\ phase = "off"
  /\ backoff = 1
  /\ timer = 0
  /\ view = Defaults
  /\ work = None
  /\ tmp = None
  /\ file = None
  /\ changes = 0
  /\ faults = 0
  /\ lost = FALSE
  /\ stale = FALSE

Fault ==
  /\ faults < MaxFaults
  /\ faults' = faults + 1

-----------------------------------------------------------------------------
(* The server.                                                             *)

Change(k) ==
  /\ changes < MaxChanges
  /\ changes' = changes + 1
  /\ config' = [config EXCEPT ![k] = @ + 1]
  /\ LET m == [key |-> k, value |-> config'[k]]
     IN  IF phase # "open" THEN UNCHANGED <<wire, lost>>
         ELSE IF Len(wire) < Capacity THEN wire' = Append(wire, m) /\ UNCHANGED lost
         ELSE lost' = TRUE /\ UNCHANGED wire
  /\ UNCHANGED <<client, work, files, faults, stale>>

-----------------------------------------------------------------------------
(* Client.Run and Client.stream.                                           *)

Start ==
  /\ phase = "off"
  /\ phase' = "ready"
  /\ backoff' = 1
  /\ timer' = 0
  /\ view' = Defaults
  /\ UNCHANGED <<config, wire, work, files, changes, faults, lost, stale>>

Connect ==
  /\ phase = "ready"
  /\ phase' = "open"
  /\ wire' = <<[snapshot |-> config]>>
  /\ lost' = FALSE
  /\ UNCHANGED <<config, backoff, timer, view, work, files, changes, faults, stale>>

\* Before it was opened or after, perhaps while a callback runs.  What has
\* arrived is still read.
Break ==
  /\ phase \in {"ready", "open"}
  /\ Fault
  /\ phase' = "cut"
  /\ \E n \in 0 .. Len(wire) : wire' = SubSeq(wire, 1, n)
  /\ UNCHANGED <<config, backoff, timer, view, work, files, changes, lost, stale>>

\* Faulty variants, here and below, show that the properties can fail.
DoubledUncapped(b) == 2 * b

Doubled(b) == IF 2 * b > MaxBackoff THEN MaxBackoff ELSE 2 * b

\* stream returns with an error, as it always does: backoff is never reset.
BackOff ==
  /\ phase = "cut" /\ work = None /\ wire = << >>
  /\ phase' = "wait"
  /\ timer' = backoff
  /\ backoff' = Doubled(backoff)
  /\ UNCHANGED <<config, wire, view, work, files, changes, faults, lost, stale>>

Tick ==
  /\ phase = "wait"
  /\ timer' = timer - 1
  /\ phase' = IF timer = 1 THEN "ready" ELSE "wait"
  /\ UNCHANGED <<config, wire, backoff, view, work, files, changes, faults, lost, stale>>

IsSnapshot(m) == "snapshot" \in DOMAIN m

Applied(m) ==
  IF IsSnapshot(m) THEN m.snapshot ELSE [view EXCEPT ![m.key] = m.value]

Rendering(m) == [step |-> "write", data |-> Applied(m)]

\* Renders on changes only.
CallbackOnChange(m) == IF IsSnapshot(m) THEN None ELSE Rendering(m)

\* OnSnapshot and OnChange render what Load returns.
Callback(m) == Rendering(m)

Receive ==
  /\ phase \in {"open", "cut"} /\ work = None /\ wire # << >>
  /\ view' = Applied(Head(wire))
  /\ work' = Callback(Head(wire))
  /\ wire' = Tail(wire)
  /\ UNCHANGED <<config, phase, backoff, timer, files, changes, faults, lost, stale>>

-----------------------------------------------------------------------------
(* render, writeFile and runHook.                                          *)

Doing(step) == work # None /\ work.step = step

Write ==
  /\ Doing("write")
  /\ tmp' = work.data
  /\ work' = [work EXCEPT !.step = "rename"]
  /\ UNCHANGED <<config, wire, client, file, changes, faults, lost, stale>>

Rename ==
  /\ Doing("rename")
  /\ file' = tmp
  /\ tmp' = None
  /\ work' = [work EXCEPT !.step = "hook"]
  /\ stale' = FALSE
  /\ UNCHANGED <<config, wire, client, changes, faults, lost>>

\* Writes the file in place.
InterruptedInPlace ==
  IF Doing("write") THEN file' \in {file, Torn} /\ UNCHANGED tmp
  ELSE UNCHANGED files

\* What is left of a write that did not come to its end.
Interrupted ==
  IF Doing("write") THEN tmp' \in {tmp, Torn} /\ UNCHANGED file
  ELSE UNCHANGED files

\* The error is logged, the hook is not run.
RenderFails ==
  /\ Doing("write") \/ Doing("rename")
  /\ Fault
  /\ Interrupted
  /\ work' = None
  /\ stale' = TRUE
  /\ UNCHANGED <<config, wire, client, changes, lost>>

HookEnds ==
  /\ Doing("hook")
  /\ work' = None
  /\ UNCHANGED <<config, wire, client, files, changes, faults, lost, stale>>

\* A signal or a crash ends the agent, whatever the callback is at.
Kill ==
  /\ phase # "off"
  /\ Fault
  /\ Interrupted
  /\ phase' = "off"
  /\ wire' = << >>
  /\ work' = None
  /\ UNCHANGED <<config, backoff, timer, view, changes, lost, stale>>

-----------------------------------------------------------------------------

Next ==
  \/ \E k \in Keys : Change(k)
  \/ Start \/ Connect \/ Break \/ BackOff \/ Tick \/ Receive
  \/ Write \/ Rename \/ RenderFails \/ HookEnds \/ Kill

Spec == Init /\ [][Next]_vars

\* The agent is started again, the client and its callbacks run, time passes.
\* That the hook ends is up to its author.
Fairness ==
  /\ WF_vars(Start) /\ WF_vars(Connect) /\ WF_vars(BackOff) /\ WF_vars(Tick)
  /\ WF_vars(Receive) /\ WF_vars(Write) /\ WF_vars(Rename) /\ WF_vars(HookEnds)

FairSpec == Spec /\ Fairness

Messages == [snapshot : Config] \cup [key : Keys, value : 0 .. MaxChanges]

\* Type invariant; no attempt is put off for longer than MaxBackoff.
TypeOK ==
  /\ config \in Config /\ view \in Config
  /\ wire \in Seq(Messages) /\ Len(wire) <= Capacity
  /\ phase \in {"off", "ready", "open", "cut", "wait"}
  /\ backoff \in 1 .. MaxBackoff /\ timer \in 0 .. MaxBackoff
  /\ work \in Jobs \cup {None}
  /\ tmp \in Config \cup {None, Torn}
  /\ file \in Config \cup {None, Torn}
  /\ changes \in 0 .. MaxChanges /\ faults \in 0 .. MaxFaults
  /\ lost \in BOOLEAN /\ stale \in BOOLEAN

\* "Atomic write: temp + rename" (cmd/agent/main.go:94): whenever the agent is
\* killed, the file is whole; and while the hook makes the application read
\* it, it has what the client holds, not an earlier or a later state.
FileServed ==
  /\ file # Torn
  /\ Doing("hook") => file = view

\* "re-renders on every change" (README.md:163): after the last of the changes
\* and faults the file comes to have the committed variables, unless a change
\* was dropped while the hook held up the stream, or the last write failed.
Rendered == <>[](lost \/ stale \/ file = config)

=============================================================================
