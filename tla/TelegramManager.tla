-------------------------- MODULE TelegramManager --------------------------
(***************************************************************************)
(* The Telegram integration: an administrator saves the settings row, the  *)
(* Manager of the replica that served the request is reconfigured and      *)
(* starts a bot loop in place of the one it had, and loops take updates    *)
(* from Telegram, which keeps an update until a poll asks for a later one. *)
(*                                                                         *)
(* A bot stands for its token, and its updates are numbered from 1.  An    *)
(* update is a message of a sender, who may be on the list of admins; what *)
(* it asks for is left open.                                               *)
(***************************************************************************)
EXTENDS Integers, Sequences, FiniteSets

CONSTANTS
  Replicas,     \* servers
  Requests,     \* handlers of PUT /api/settings/telegram
  Bots,         \* tokens
  Senders,      \* Telegram users
  Loops,        \* goroutines of runBot; bounds how many overlap
  Choices,      \* what an administrator asks for; a bot of None is "keep it"
  MaxUpdates,   \* bound on the updates of a bot
  MaxFailures,  \* bound on saves and loads that fail
  None

Settings == [enabled : BOOLEAN, bot : Bots \cup {None}, admins : SUBSET Senders]

Saves == [at : Replicas, save : Settings, saved : BOOLEAN]

LoopType ==
  [home : Replicas, bot : Bots, admins : SUBSET Senders, canceled : BOOLEAN,
   offset : Nat, batch : Seq(Nat), done : Seq(Nat)]

ASSUME ChoicesAssumption == Choices \subseteq Settings
ASSUME BoundsAssumption == MaxUpdates \in Nat /\ MaxFailures \in Nat
ASSUME NoneAssumption ==
  None \notin Replicas \cup Bots \cup Settings \cup Saves \cup LoopType

VARIABLES
  settings,   \* the row of app_settings
  cur,        \* settings of the Manager of a replica, None if not configured
  up,         \* replicas that run
  draining,   \* those of them that shut down: their root context is cancelled
  request,    \* None, or the save a handler is at
  loop,       \* None, or the loop a goroutine runs
  sent,       \* senders of the updates of a bot
  confirmed,  \* how many of them Telegram has forgotten
  failures,   \* counter of the bound
  saver,      \* auxiliary: the replica of the last write of the row
  listed,     \* auxiliary: the admins a row ever named together with the bot
  answered,   \* auxiliary: updates handled while the loop was not cancelled
  executed    \* auxiliary: updates whose command was carried out

telegram == <<sent, confirmed>>
aux == <<saver, listed, answered, executed>>
vars == <<settings, cur, up, draining, request, loop, sent, confirmed, failures,
          saver, listed, answered, executed>>

Off == [enabled |-> FALSE, bot |-> None, admins |-> {}]

Init ==
  /\ settings = Off
  /\ cur = [r \in Replicas |-> None]
  /\ up = {}
  /\ draining = {}
  /\ request = [q \in Requests |-> None]
  /\ loop = [l \in Loops |-> None]
  /\ sent = [b \in Bots |-> << >>]
  /\ confirmed = [b \in Bots |-> 0]
  /\ failures = 0
  /\ saver = None
  /\ listed = [b \in Bots |-> {}]
  /\ answered = {}
  /\ executed = {}

Fails ==
  /\ failures < MaxFailures
  /\ failures' = failures + 1

-----------------------------------------------------------------------------
(* Manager.Configure, under the mutex of the Manager.                      *)

Live(l) == loop[l] # None /\ ~ loop[l].canceled

LoopsOf(r) == {l \in Loops : loop[l] # None /\ loop[l].home = r}

\* A fresh loop only with a token and at least one admin.
Wanted(s) == s.enabled /\ s.bot # None /\ s.admins # {}

\* Its context is a child of the root context.
Fresh(r, s) ==
  [home |-> r, bot |-> s.bot, admins |-> s.admins, canceled |-> r \in draining,
   offset |-> 0, batch |-> << >>, done |-> << >>]

\* Faulty variants, here and below, show that the properties can fail.
\* Starts the new loop and lets the old one run.
CanceledNone(r) == {}

Canceled(r) == LoopsOf(r)

Cancel(r) ==
  [l \in Loops |-> IF l \in Canceled(r) THEN [loop[l] EXCEPT !.canceled = TRUE] ELSE loop[l]]

Configure(r, s) ==
  /\ cur' = [cur EXCEPT ![r] = s]
  /\ \/ ~ Wanted(s) /\ loop' = Cancel(r)
     \/ /\ Wanted(s)
        /\ \E l \in Loops : loop[l] = None /\ loop' = [Cancel(r) EXCEPT ![l] = Fresh(r, s)]

-----------------------------------------------------------------------------
(* handleSetTelegram.                                                      *)

\* A blank token keeps the one of the row, as it was read.
Kept(s) == IF s.bot = None THEN [s EXCEPT !.bot = settings.bot] ELSE s

ReadSettings(q, r, s) ==
  /\ request[q] = None
  /\ r \in up
  /\ request' = [request EXCEPT ![q] = [at |-> r, save |-> Kept(s), saved |-> FALSE]]
  /\ UNCHANGED <<settings, cur, up, draining, loop, telegram, failures, aux>>

WriteRow(q) ==
  /\ settings' = request[q].save
  /\ saver' = request[q].at
  /\ listed' = [b \in Bots |->
       IF b = request[q].save.bot THEN listed[b] \cup request[q].save.admins ELSE listed[b]]

WriteSettings(q) ==
  /\ request[q] # None /\ ~ request[q].saved
  /\ WriteRow(q)
  /\ request' = [request EXCEPT ![q].saved = TRUE]
  /\ UNCHANGED <<cur, up, draining, loop, telegram, failures, answered, executed>>

\* Configures the Manager although the row was not written.
SaveFailsApplied(q) ==
  /\ request[q] # None /\ ~ request[q].saved
  /\ Fails
  /\ Configure(request[q].at, request[q].save)
  /\ request' = [request EXCEPT ![q] = None]
  /\ UNCHANGED <<settings, up, draining, telegram, aux>>

\* The statement reports an error, be it before or after its commit.
SaveFails(q) ==
  /\ request[q] # None /\ ~ request[q].saved
  /\ Fails
  /\ WriteRow(q) \/ UNCHANGED <<settings, saver, listed>>
  /\ request' = [request EXCEPT ![q] = None]
  /\ UNCHANGED <<cur, up, draining, loop, telegram, answered, executed>>

Apply(q) ==
  /\ request[q] # None /\ request[q].saved
  /\ Configure(request[q].at, request[q].save)
  /\ request' = [request EXCEPT ![q] = None]
  /\ UNCHANGED <<settings, up, draining, telegram, failures, aux>>

-----------------------------------------------------------------------------
(* The process.                                                            *)

\* Starts with the integration off.
StartUnconfigured(r) ==
  /\ r \notin up
  /\ up' = up \cup {r}
  /\ UNCHANGED <<settings, cur, draining, request, loop, telegram, failures, aux>>

\* Loads the row and configures, before requests can come.
Start(r) ==
  /\ r \notin up
  /\ up' = up \cup {r}
  /\ \/ Configure(r, settings) /\ UNCHANGED failures
     \/ Fails /\ UNCHANGED <<cur, loop>>
  /\ UNCHANGED <<settings, draining, request, telegram, aux>>

\* A signal cancels the root context, and the loops with it, while requests
\* are served until the streams have drained.
Shutdown(r) ==
  /\ r \in up \ draining
  /\ draining' = draining \cup {r}
  /\ loop' = Cancel(r)
  /\ UNCHANGED <<settings, cur, up, request, telegram, failures, aux>>

\* The process ends, killed or drained, and its goroutines and requests with it.
Stop(r) ==
  /\ r \in up
  /\ up' = up \ {r}
  /\ draining' = draining \ {r}
  /\ cur' = [cur EXCEPT ![r] = None]
  /\ loop' = [l \in Loops |-> IF l \in LoopsOf(r) THEN None ELSE loop[l]]
  /\ request' = [q \in Requests |->
       IF request[q] # None /\ request[q].at = r THEN None ELSE request[q]]
  /\ UNCHANGED <<settings, telegram, failures, aux>>

-----------------------------------------------------------------------------
(* runBot and Telegram.                                                    *)

Send(b, a) ==
  /\ Len(sent[b]) < MaxUpdates
  /\ sent' = [sent EXCEPT ![b] = Append(@, a)]
  /\ UNCHANGED <<settings, cur, up, draining, request, loop, confirmed, failures, aux>>

\* Takes the offset for the last update that is confirmed.
ConfirmedOneMore(l) ==
  LET c == confirmed[loop[l].bot]
  IN  IF loop[l].offset > c THEN loop[l].offset ELSE c

\* A poll confirms what precedes its offset.
Confirmed(l) ==
  LET c == confirmed[loop[l].bot]
  IN  IF loop[l].offset > c THEN loop[l].offset - 1 ELSE c

Answer(l) ==
  \E n \in Confirmed(l) + 1 .. Len(sent[loop[l].bot]) :
    loop' = [loop EXCEPT ![l].batch = [i \in 1 .. n - Confirmed(l) |-> Confirmed(l) + i]]

\* Polls also when the loop was cancelled.
PollCanceled(l) ==
  /\ loop[l] # None
  /\ loop[l].batch = << >>
  /\ confirmed' = [confirmed EXCEPT ![loop[l].bot] = Confirmed(l)]
  /\ Answer(l)
  /\ UNCHANGED <<settings, cur, up, draining, request, sent, failures, aux>>

\* getUpdates: the first updates that are not confirmed.
Poll(l) ==
  /\ Live(l)
  /\ loop[l].batch = << >>
  /\ confirmed' = [confirmed EXCEPT ![loop[l].bot] = Confirmed(l)]
  /\ Answer(l)
  /\ UNCHANGED <<settings, cur, up, draining, request, sent, failures, aux>>

\* Nothing comes: a time-out, an error, or another loop that polls.
PollNothing(l) ==
  /\ Live(l)
  /\ loop[l].batch = << >>
  /\ confirmed' = [confirmed EXCEPT ![loop[l].bot] = Confirmed(l)]
  /\ UNCHANGED <<settings, cur, up, draining, request, loop, sent, failures, aux>>

FollowingSame(i) == i
FollowingSkips(i) == i + 2

\* offset = u.UpdateID + 1
Following(i) == i + 1

\* handle: a sender who is not on the list is told so; a command may fail, and
\* fails when the loop was cancelled.
Handle(l) ==
  /\ loop[l] # None
  /\ loop[l].batch # << >>
  /\ LET i == Head(loop[l].batch)
         b == loop[l].bot
     IN
     /\ loop' = [loop EXCEPT ![l].offset = Following(i), ![l].batch = Tail(@),
                             ![l].done = Append(@, i)]
     /\ answered' = IF Live(l) THEN answered \cup {<<b, i>>} ELSE answered
     /\ \/ UNCHANGED executed
        \/ /\ Live(l)
           /\ sent[b][i] \in loop[l].admins
           /\ executed' = executed \cup {<<b, i>>}
  /\ UNCHANGED <<settings, cur, up, draining, request, telegram, failures, saver, listed>>

Return(l) ==
  /\ loop[l] # None
  /\ loop[l].canceled
  /\ loop[l].batch = << >>
  /\ loop' = [loop EXCEPT ![l] = None]
  /\ UNCHANGED <<settings, cur, up, draining, request, telegram, failures, aux>>

-----------------------------------------------------------------------------

Next ==
  \/ \E q \in Requests : \/ \E r \in Replicas, s \in Choices : ReadSettings(q, r, s)
                         \/ WriteSettings(q) \/ SaveFails(q) \/ Apply(q)
  \/ \E r \in Replicas : Start(r) \/ Shutdown(r) \/ Stop(r)
  \/ \E b \in Bots, a \in Senders : Send(b, a)
  \/ \E l \in Loops : \/ Poll(l) \/ PollNothing(l)
                      \/ Handle(l) \/ Return(l)

Spec == Init /\ [][Next]_vars

\* Goroutines run, and Telegram answers a loop that goes on polling.
Fairness == \A l \in Loops : WF_vars(Poll(l)) /\ WF_vars(Handle(l)) /\ WF_vars(Return(l))

FairSpec == Spec /\ Fairness

-----------------------------------------------------------------------------
(* Properties.                                                             *)

\* Type invariant; Telegram forgets no update that was not sent.
TypeOK ==
  /\ settings \in Settings
  /\ cur \in [Replicas -> Settings \cup {None}]
  /\ up \subseteq Replicas
  /\ draining \subseteq up
  /\ request \in [Requests -> Saves \cup {None}]
  /\ loop \in [Loops -> LoopType \cup {None}]
  /\ sent \in [Bots -> Seq(Senders)]
  /\ confirmed \in [Bots -> Nat]
  /\ \A b \in Bots : confirmed[b] <= Len(sent[b])
  /\ failures \in 0 .. MaxFailures
  /\ saver \in Replicas \cup {None}
  /\ listed \in [Bots -> SUBSET Senders]
  /\ answered \subseteq Bots \X Nat
  /\ executed \subseteq Bots \X Nat

\* However often a Manager was configured while earlier loops are still under
\* way, at most one of its loops is not cancelled: there is one exactly when
\* the current settings ask for it and the server is not shutting down, and it
\* has the current bot and admins.
OneLoop ==
  \A r \in Replicas :
    LET running == {l \in LoopsOf(r) : Live(l)}
    IN  /\ Cardinality(running) = (IF cur[r] # None /\ Wanted(cur[r]) /\ r \notin draining THEN 1 ELSE 0)
        /\ \A l \in running : loop[l].bot = cur[r].bot /\ loop[l].admins = cur[r].admins

\* Telegram forgets an update only after some loop has handled it while it was
\* not cancelled: no command is lost in a change of settings or a restart.
ConfirmedAnswered ==
  \A b \in Bots : \A i \in 1 .. confirmed[b] : <<b, i>> \in answered

\* A loop handles no update twice and keeps their order, although other loops
\* confirm updates behind its back and polls get lost.
InOrder ==
  \A l \in Loops : loop[l] # None =>
    \A i, j \in DOMAIN loop[l].done : i < j => loop[l].done[i] < loop[l].done[j]

\* A command is carried out only for someone whom a saved row named together
\* with the bot, failed saves and stale replicas included.
ListedOnly == \A u \in executed : sent[u[1]][u[2]] \in listed[u[1]]

\* Saves that do not overlap: of at most one is the row written and the Manager
\* not yet configured.
Waits(q) == request[q] # None /\ request[q].saved
OneSave == \A p, q \in Requests : Waits(p) /\ Waits(q) => p = q

\* With such saves and no failed statement, the replica that saved last works
\* with the saved row, also after it was restarted.
SavedIsApplied ==
  (failures = 0 /\ \A q \in Requests : request[q] = None) =>
    \A r \in up : saver = r => cur[r] = settings

\* Every update is answered when a loop for its bot keeps running.  (What was
\* sent and what was answered remains so, and MaxUpdates bounds what is sent:
\* to be through with the updates again and again is to answer each of them.)
Answered ==
  \A b \in Bots : (\E l \in Loops : <>[](Live(l) /\ loop[l].bot = b)) =>
    []<>(\A i \in 1 .. Len(sent[b]) : <<b, i>> \in answered)

\* "The bot starts/stops live when you save settings" (README.md:226): no
\* replica runs a bot when the saved row says that it is off.
OffIsOff ==
  (failures = 0 /\ ~ settings.enabled /\ \A q \in Requests : request[q] = None) =>
    \A l \in Loops : ~ Live(l)

=============================================================================
