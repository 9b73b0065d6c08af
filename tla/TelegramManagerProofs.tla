----------------------- MODULE TelegramManagerProofs -----------------------
(***************************************************************************)
(* Proofs about TelegramManager, for any replicas, bots, senders, loops    *)
(* and requests: type correctness, that no update is forgotten before a    *)
(* loop has handled it, that loops take updates in order, that commands    *)
(* are carried out only for admins who were once saved, that a Manager has *)
(* one loop that goes on at most, and that saves which do not overlap are  *)
(* applied, so that a single replica stops its bot.                        *)
(***************************************************************************)
EXTENDS TelegramManager, FiniteSetTheorems, TLAPS

\* A loop is behind Telegram's queue; it goes on where its batch begins, which
\* it takes without a gap; what it did is behind its offset.
Cursor ==
  \A l \in Loops : loop[l] # None =>
    LET L == loop[l]
    IN  /\ L.offset <= Len(sent[L.bot]) + 1
        /\ \A i \in 1 .. Len(L.batch) :
             /\ L.batch[i] = L.batch[1] + (i - 1)
             /\ L.batch[i] \in 1 .. Len(sent[L.bot])
             /\ L.offset <= L.batch[i]
        /\ \A i \in 1 .. Len(L.done) : L.done[i] < L.offset

\* All before the offset, and before the batch, of a loop that goes on has been
\* answered: its next poll may confirm it.
Covers ==
  \A l \in Loops : Live(l) =>
    LET L == loop[l]
    IN  /\ \A i \in 1 .. L.offset - 1 : <<L.bot, i>> \in answered
        /\ L.batch # << >> => \A i \in 1 .. L.batch[1] - 1 : <<L.bot, i>> \in answered

\* The admins of settings that may be put to work have been in a row.
Known(s, admins) == s.bot # None => s.admins \subseteq admins[s.bot]
Saved ==
  /\ Known(settings, listed)
  /\ \A q \in Requests : request[q] # None /\ request[q].saved => Known(request[q].save, listed)
  /\ \A l \in Loops : loop[l] # None => loop[l].admins \subseteq listed[loop[l].bot]

\* Commands that were carried out are those of updates that were sent.
Executed == \A u \in executed : u[2] \in 1 .. Len(sent[u[1]])

\* Loops of a Manager that go on, and how many there should be.
Running(r) == {l \in LoopsOf(r) : Live(l)}
Expected(r) == IF cur[r] # None /\ Wanted(cur[r]) /\ r \notin draining THEN 1 ELSE 0

\* What OneLoop says of a Manager, without counting: there is no loop, or one.
NoneOrOne(r) ==
  \/ Expected(r) = 0 /\ Running(r) = {}
  \/ /\ Expected(r) = 1
     /\ \E l \in Loops : /\ Running(r) = {l}
                         /\ loop[l].bot = cur[r].bot /\ loop[l].admins = cur[r].admins

Single == \A r \in Replicas : NoneOrOne(r)

IInv ==
  /\ TypeOK
  /\ Cursor
  /\ Covers
  /\ ConfirmedAnswered
  /\ InOrder
  /\ Saved
  /\ Executed
  /\ ListedOnly
  /\ Single

-----------------------------------------------------------------------------
(* Configure.                                                              *)

\* Cancelling the context of a Manager's loops changes nothing else.
LEMMA Cancels ==
  ASSUME TypeOK, NEW r \in Replicas
  PROVE  /\ Cancel(r) \in [Loops -> LoopType \cup {None}]
         /\ \A l \in Loops :
              \/ Cancel(r)[l] = loop[l] /\ (loop[l] # None => loop[l].home # r)
              \/ /\ loop[l] # None /\ loop[l].home = r
                 /\ Cancel(r)[l] = [loop[l] EXCEPT !.canceled = TRUE]
  <1>1. Cancel(r) \in [Loops -> LoopType \cup {None}]
    BY ZenonT(60) DEF TypeOK, LoopType, Cancel, Canceled, LoopsOf
  <1>2. QED  BY <1>1 DEF Cancel, Canceled, LoopsOf

\* Configuring a Manager starts one loop at most, from the beginning, and
\* does not touch the loops of others except to cancel its own.
LEMMA Configures ==
  ASSUME TypeOK, NEW r \in Replicas, NEW s \in Settings, Configure(r, s)
  PROVE  /\ cur' = [cur EXCEPT ![r] = s]
         /\ cur' \in [Replicas -> Settings \cup {None}]
         /\ loop' \in [Loops -> LoopType \cup {None}]
         /\ \A l \in Loops :
              \/ loop'[l] = loop[l] /\ (loop[l] # None => loop[l].home # r)
              \/ /\ loop[l] # None /\ loop[l].home = r
                 /\ loop'[l] = [loop[l] EXCEPT !.canceled = TRUE]
              \/ /\ loop[l] = None /\ Wanted(s) /\ loop'[l] = Fresh(r, s)
         /\ \/ ~ Wanted(s) /\ \A l \in Loops : loop[l] = None => loop'[l] = None
            \/ /\ Wanted(s)
               /\ \E f \in Loops : /\ loop[f] = None /\ loop'[f] = Fresh(r, s)
                                   /\ \A l \in Loops \ {f} : loop[l] = None => loop'[l] = None
  <1> DEFINE stopped == Cancel(r)
  <1>1. stopped \in [Loops -> LoopType \cup {None}]  BY Cancels
  <1>2. \A l \in Loops :
          \/ stopped[l] = loop[l] /\ (loop[l] # None => loop[l].home # r)
          \/ /\ loop[l] # None /\ loop[l].home = r
             /\ stopped[l] = [loop[l] EXCEPT !.canceled = TRUE]
    BY Cancels
  <1>3. \A l \in Loops : loop[l] = None => stopped[l] = None  BY <1>2
  <1>4. cur' = [cur EXCEPT ![r] = s]
        /\ (\/ ~ Wanted(s) /\ loop' = stopped
            \/ /\ Wanted(s)
               /\ \E l \in Loops : loop[l] = None /\ loop' = [stopped EXCEPT ![l] = Fresh(r, s)])
    BY DEF Configure
  <1>5. cur' \in [Replicas -> Settings \cup {None}]  BY <1>4 DEF TypeOK
  <1>6. Wanted(s) => Fresh(r, s) \in LoopType
    BY DEF Wanted, Fresh, LoopType, Settings
  <1> HIDE DEF stopped
  <1>7. CASE ~ Wanted(s)  BY <1>1, <1>2, <1>3, <1>4, <1>5, <1>7
  <1>8. CASE Wanted(s)
    <2>1. PICK f \in Loops : loop[f] = None /\ loop' = [stopped EXCEPT ![f] = Fresh(r, s)]
      BY <1>4, <1>8
    <2>2. \A l \in Loops \ {f} : loop'[l] = stopped[l]  BY <1>1, <2>1
    <2>3. loop'[f] = Fresh(r, s)  BY <1>1, <2>1
    <2>4. loop' \in [Loops -> LoopType \cup {None}]  BY <1>1, <1>6, <1>8, <2>1
    <2>5. QED  BY <1>2, <1>3, <1>4, <1>5, <1>8, <2>1, <2>2, <2>3, <2>4, ZenonT(60)
  <1>9. QED  BY <1>7, <1>8

-----------------------------------------------------------------------------
(* Types.                                                                  *)

\* A batch is a sequence of numbers.
LEMMA BatchType ==
  ASSUME NEW c \in Nat, NEW m \in Nat
  PROVE  /\ [i \in 1 .. m |-> c + i] \in Seq(Nat)
         /\ Len([i \in 1 .. m |-> c + i]) = m
  OBVIOUS

\* A poll confirms no more than was sent.
LEMMA ConfirmedType ==
  ASSUME TypeOK, Cursor, NEW l \in Loops, loop[l] # None
  PROVE  /\ Confirmed(l) \in Nat
         /\ confirmed[loop[l].bot] <= Confirmed(l)
         /\ loop[l].offset - 1 <= Confirmed(l)
         /\ Confirmed(l) <= Len(sent[loop[l].bot])
         /\ Confirmed(l) = confirmed[loop[l].bot] \/ Confirmed(l) = loop[l].offset - 1
  <1>1. /\ loop[l].bot \in Bots /\ loop[l].offset \in Nat
        /\ confirmed[loop[l].bot] \in Nat /\ Len(sent[loop[l].bot]) \in Nat
        /\ confirmed[loop[l].bot] <= Len(sent[loop[l].bot])
        /\ loop[l].offset <= Len(sent[loop[l].bot]) + 1
    BY DEF TypeOK, LoopType, Cursor
  <1>2. QED  BY <1>1 DEF Confirmed

\* Every step keeps the types.
LEMMA TypeStep == ASSUME TypeOK, Cursor, [Next]_vars PROVE TypeOK'
  <1> USE BoundsAssumption, NoneAssumption DEF TypeOK, telegram, aux, Fails
  <1>1. CASE UNCHANGED vars  BY <1>1 DEF vars
  <1>2. ASSUME NEW q \in Requests, NEW r \in Replicas, NEW s \in Choices, ReadSettings(q, r, s)
        PROVE  TypeOK'
    <2>1. Kept(s) \in Settings  BY ChoicesAssumption DEF Kept, Settings
    <2>2. QED  BY <1>2, <2>1 DEF ReadSettings, Saves
  <1>3. ASSUME NEW q \in Requests, request[q] # None, WriteRow(q)
        PROVE  /\ settings' \in Settings /\ saver' \in Replicas
               /\ listed' \in [Bots -> SUBSET Senders]
    <2>1. request[q].at \in Replicas /\ request[q].save \in Settings  BY <1>3 DEF Saves
    <2>2. QED  BY <1>3, <2>1 DEF WriteRow, Settings
  <1>4. ASSUME NEW q \in Requests, WriteSettings(q) PROVE TypeOK'
    <2>1. /\ settings' \in Settings /\ saver' \in Replicas
          /\ listed' \in [Bots -> SUBSET Senders]
      BY <1>3, <1>4 DEF WriteSettings
    <2>2. request[q] \in Saves /\ request' = [request EXCEPT ![q].saved = TRUE]
      BY <1>4 DEF WriteSettings
    <2>3. request' \in [Requests -> Saves \cup {None}]
      BY <2>2 DEF Saves
    <2>4. QED  BY <1>4, <2>1, <2>3 DEF WriteSettings
  <1>5. ASSUME NEW q \in Requests, SaveFails(q) PROVE TypeOK'
    BY <1>3, <1>5 DEF SaveFails
  <1>6. ASSUME NEW q \in Requests, Apply(q) PROVE TypeOK'
    <2>1. request[q].at \in Replicas /\ request[q].save \in Settings  BY <1>6 DEF Apply, Saves
    <2>2. cur' \in [Replicas -> Settings \cup {None}] /\ loop' \in [Loops -> LoopType \cup {None}]
      BY <1>6, <2>1, Configures DEF Apply
    <2>3. QED  BY <1>6, <2>2 DEF Apply
  <1>7. ASSUME NEW r \in Replicas, Start(r) PROVE TypeOK'
    <2>1. cur' \in [Replicas -> Settings \cup {None}] /\ loop' \in [Loops -> LoopType \cup {None}]
      BY <1>7, Configures DEF Start
    <2>2. QED  BY <1>7, <2>1 DEF Start
  <1>8. ASSUME NEW r \in Replicas, Shutdown(r) \/ Stop(r) PROVE TypeOK'
    <2>1. loop' \in [Loops -> LoopType \cup {None}]  BY <1>8, Cancels DEF Shutdown, Stop
    <2>2. CASE Shutdown(r)  BY <2>1, <2>2 DEF Shutdown
    <2>3. CASE Stop(r)  BY <2>1, <2>3 DEF Stop
    <2>4. QED  BY <1>8, <2>2, <2>3
  <1>9. ASSUME NEW b \in Bots, NEW a \in Senders, Send(b, a) PROVE TypeOK'
    <2>1. Append(sent[b], a) \in Seq(Senders) /\ Len(Append(sent[b], a)) = Len(sent[b]) + 1
      OBVIOUS
    <2>2. QED  BY <1>9, <2>1 DEF Send
  <1>10. ASSUME NEW l \in Loops, Poll(l) \/ PollNothing(l) PROVE TypeOK'
    <2>1. loop[l] # None /\ loop[l] \in LoopType  BY <1>10 DEF Poll, PollNothing, Live
    <2>2. loop[l].bot \in Bots /\ Len(sent[loop[l].bot]) \in Nat  BY <2>1 DEF LoopType
    <2>3. confirmed' = [confirmed EXCEPT ![loop[l].bot] = Confirmed(l)]
      BY <1>10 DEF Poll, PollNothing
    <2>4. /\ confirmed' \in [Bots -> Nat]
          /\ \A b \in Bots : confirmed'[b] <= Len(sent[b])
      BY <2>1, <2>2, <2>3, ConfirmedType
    <2>5. loop' \in [Loops -> LoopType \cup {None}]
      <3>1. CASE UNCHANGED loop  BY <3>1
      <3>2. CASE Answer(l)
        <4>1. PICK n \in Confirmed(l) + 1 .. Len(sent[loop[l].bot]) :
                loop' = [loop EXCEPT ![l].batch =
                           [i \in 1 .. n - Confirmed(l) |-> Confirmed(l) + i]]
          BY <3>2 DEF Answer
        <4>2. Confirmed(l) \in Nat /\ n - Confirmed(l) \in Nat
          BY <2>1, <2>2, ConfirmedType
        <4>3. [i \in 1 .. n - Confirmed(l) |-> Confirmed(l) + i] \in Seq(Nat)
          BY <4>2, BatchType
        <4>4. QED  BY <2>1, <4>1, <4>3 DEF LoopType
      <3>3. QED  BY <1>10, <3>1, <3>2 DEF Poll, PollNothing
    <2>6. QED  BY <1>10, <2>4, <2>5 DEF Poll, PollNothing
  <1>11. ASSUME NEW l \in Loops, Handle(l) PROVE TypeOK'
    <2> DEFINE i == Head(loop[l].batch)
    <2>1. loop[l] # None /\ loop[l] \in LoopType /\ loop[l].batch # << >>  BY <1>11 DEF Handle
    <2>2. /\ loop[l].bot \in Bots /\ i \in Nat /\ i + 1 \in Nat
          /\ Tail(loop[l].batch) \in Seq(Nat) /\ Append(loop[l].done, i) \in Seq(Nat)
      BY <2>1, SMTT(30) DEF LoopType
    <2>3. [loop[l] EXCEPT !.offset = i + 1, !.batch = Tail(@), !.done = Append(@, i)] \in LoopType
      BY <2>1, <2>2 DEF LoopType
    <2>4. loop' = [loop EXCEPT ![l] =
                    [loop[l] EXCEPT !.offset = i + 1, !.batch = Tail(@), !.done = Append(@, i)]]
      BY <1>11, <2>1 DEF Handle, Following
    <2>5. /\ answered' \subseteq answered \cup {<<loop[l].bot, i>>}
          /\ executed' \subseteq executed \cup {<<loop[l].bot, i>>}
      BY <1>11 DEF Handle
    <2> HIDE DEF i
    <2>6. loop' \in [Loops -> LoopType \cup {None}]  BY <2>3, <2>4
    <2>7. answered' \subseteq Bots \X Nat /\ executed' \subseteq Bots \X Nat
      BY <2>2, <2>5
    <2>8. QED  BY <1>11, <2>6, <2>7 DEF Handle
  <1>12. ASSUME NEW l \in Loops, Return(l) PROVE TypeOK'
    BY <1>12 DEF Return
  <1>13. QED
    BY <1>1, <1>2, <1>4, <1>5, <1>6, <1>7, <1>8, <1>9, <1>10, <1>11, <1>12 DEF Next

-----------------------------------------------------------------------------
(* How a step moves a loop, and what only grows.                           *)

\* Settings with which a step may configure a Manager.
Configurable ==
  {settings} \cup {request[q].save : q \in {q \in Requests : request[q] # None /\ request[q].saved}}

\* A loop is left alone, gone, cancelled, started, or makes a step of its own.
LEMMA LoopMoves ==
  ASSUME TypeOK, Next, NEW l \in Loops
  PROVE  \/ loop'[l] = loop[l]
         \/ loop'[l] = None
         \/ loop[l] # None /\ loop'[l] = [loop[l] EXCEPT !.canceled = TRUE]
         \/ \E r \in Replicas, s \in Configurable : Wanted(s) /\ loop'[l] = Fresh(r, s)
         \/ Poll(l)
         \/ Handle(l)
  <1>1. ASSUME NEW q \in Requests, Apply(q)
        PROVE  \/ loop'[l] = loop[l]
               \/ loop[l] # None /\ loop'[l] = [loop[l] EXCEPT !.canceled = TRUE]
               \/ \E r \in Replicas, s \in Configurable : Wanted(s) /\ loop'[l] = Fresh(r, s)
    <2>1. request[q].at \in Replicas /\ request[q].save \in Settings
      BY <1>1 DEF Apply, Saves, TypeOK
    <2>2. request[q].save \in Configurable  BY <1>1 DEF Apply, Configurable
    <2>3. QED  BY <1>1, <2>1, <2>2, Configures DEF Apply
  <1>2. ASSUME NEW r \in Replicas, Start(r)
        PROVE  \/ loop'[l] = loop[l]
               \/ loop[l] # None /\ loop'[l] = [loop[l] EXCEPT !.canceled = TRUE]
               \/ \E s \in Configurable : Wanted(s) /\ loop'[l] = Fresh(r, s)
    <2>1. CASE UNCHANGED loop  BY <2>1
    <2>2. CASE Configure(r, settings)
      <3>1. settings \in Settings /\ settings \in Configurable  BY DEF TypeOK, Configurable
      <3>2. QED  BY <2>2, <3>1, Configures
    <2>3. QED  BY <1>2, <2>1, <2>2 DEF Start
  <1>3. ASSUME NEW r \in Replicas, Shutdown(r) \/ Stop(r)
        PROVE  \/ loop'[l] = loop[l] \/ loop'[l] = None
               \/ loop[l] # None /\ loop'[l] = [loop[l] EXCEPT !.canceled = TRUE]
    BY <1>3, Cancels DEF Shutdown, Stop
  <1>4. ASSUME NEW k \in Loops, Poll(k) \/ PollNothing(k) \/ Handle(k) \/ Return(k)
        PROVE  loop'[l] = loop[l] \/ loop'[l] = None \/ Poll(l) \/ Handle(l)
    <2>1. CASE k = l  BY <1>4, <2>1 DEF PollNothing, Return, TypeOK
    <2>2. CASE k # l  BY <1>4, <2>2 DEF Poll, PollNothing, Answer, Handle, Return, TypeOK
    <2>3. QED  BY <2>1, <2>2
  <1>5. ASSUME \/ \E q \in Requests :
                    \/ \E r \in Replicas, s \in Choices : ReadSettings(q, r, s)
                    \/ WriteSettings(q) \/ SaveFails(q)
               \/ \E b \in Bots, a \in Senders : Send(b, a)
        PROVE  loop'[l] = loop[l]
    BY <1>5 DEF ReadSettings, WriteSettings, SaveFails, Send
  <1>6. QED  BY <1>1, <1>2, <1>3, <1>4, <1>5 DEF Next

\* Updates, the admins that were ever listed, and answers only grow.
LEMMA Grows ==
  ASSUME TypeOK, Next, NEW b \in Bots
  PROVE  /\ Len(sent[b]) <= Len(sent'[b])
         /\ \A i \in 1 .. Len(sent[b]) : sent'[b][i] = sent[b][i]
         /\ listed[b] \subseteq listed'[b]
         /\ answered \subseteq answered'
  <1>1. answered \subseteq answered'
    BY ZenonT(60) DEF Next, ReadSettings, WriteSettings, WriteRow, SaveFails, Apply, Start,
           Shutdown, Stop, Send, Poll, PollNothing, Handle, Return, aux
  <1>2. listed[b] \subseteq listed'[b]
    BY ZenonT(60) DEF Next, ReadSettings, WriteSettings, WriteRow, SaveFails, Apply, Start,
           Shutdown, Stop, Send, Poll, PollNothing, Handle, Return, aux
  <1>3. (\E c \in Bots, a \in Senders : Send(c, a)) \/ UNCHANGED sent
    BY DEF Next, ReadSettings, WriteSettings, SaveFails, Apply, Start, Shutdown, Stop,
           Poll, PollNothing, Handle, Return, telegram
  <1>4. ASSUME NEW c \in Bots, NEW a \in Senders, Send(c, a)
        PROVE  /\ Len(sent[b]) <= Len(sent'[b])
               /\ \A i \in 1 .. Len(sent[b]) : sent'[b][i] = sent[b][i]
    <2>1. sent[c] \in Seq(Senders) /\ sent[b] \in Seq(Senders)  BY DEF TypeOK
    <2>2. sent'[b] = sent[b] \/ sent'[b] = Append(sent[b], a)
      BY <1>4 DEF Send, TypeOK
    <2>3. QED  BY <2>1, <2>2
  <1>5. QED  BY <1>1, <1>2, <1>3, <1>4, SMTT(30) DEF TypeOK

\* A poll brings the updates that follow the confirmed ones.
LEMMA Polled ==
  ASSUME TypeOK, Cursor, NEW l \in Loops, Poll(l)
  PROVE  /\ loop[l] # None /\ loop[l].batch = << >>
         /\ UNCHANGED <<sent, answered>>
         /\ loop'[l].bot = loop[l].bot /\ loop'[l].offset = loop[l].offset
         /\ loop'[l].done = loop[l].done /\ loop'[l].canceled = loop[l].canceled
         /\ loop'[l].home = loop[l].home /\ loop'[l].admins = loop[l].admins
         /\ loop'[l] # None
         /\ \E m \in Nat \ {0} :
              /\ Confirmed(l) + m <= Len(sent[loop[l].bot])
              /\ loop'[l].batch = [i \in 1 .. m |-> Confirmed(l) + i]
  <1>1. loop[l] # None /\ loop[l] \in LoopType /\ loop[l].batch = << >>
    BY DEF Poll, Live, TypeOK
  <1>2. Confirmed(l) \in Nat /\ Len(sent[loop[l].bot]) \in Nat
    BY <1>1, ConfirmedType DEF TypeOK, LoopType
  <1>3. PICK n \in Confirmed(l) + 1 .. Len(sent[loop[l].bot]) :
          loop' = [loop EXCEPT ![l].batch = [i \in 1 .. n - Confirmed(l) |-> Confirmed(l) + i]]
    BY DEF Poll, Answer
  <1>4. n - Confirmed(l) \in Nat \ {0}  BY <1>2
  <1>5. /\ loop'[l].bot = loop[l].bot /\ loop'[l].offset = loop[l].offset
        /\ loop'[l].done = loop[l].done /\ loop'[l].canceled = loop[l].canceled
        /\ loop'[l].home = loop[l].home /\ loop'[l].admins = loop[l].admins
        /\ loop'[l].batch = [i \in 1 .. n - Confirmed(l) |-> Confirmed(l) + i]
    BY <1>1, <1>3 DEF TypeOK, LoopType
  <1>6. UNCHANGED <<sent, answered>>  BY DEF Poll, aux
  <1>7. loop'[l] # None
    <2> DEFINE batch == [i \in 1 .. n - Confirmed(l) |-> Confirmed(l) + i]
    <2>1. batch \in Seq(Nat)  BY <1>2, <1>4, BatchType
    <2> HIDE DEF batch
    <2>2. [loop[l] EXCEPT !.batch = batch] \in LoopType  BY <1>1, <2>1 DEF LoopType
    <2>3. loop'[l] = [loop[l] EXCEPT !.batch = batch]
      BY <1>1, <1>3 DEF TypeOK, batch
    <2>4. QED  BY <2>2, <2>3, NoneAssumption
  <1>8. QED  BY <1>1, <1>2, <1>4, <1>5, <1>6, <1>7

\* A loop handles the first update of its batch and goes on with the next.
LEMMA Handled ==
  ASSUME TypeOK, NEW l \in Loops, Handle(l)
  PROVE  LET L == loop[l]
             M == loop'[l]
             i == L.batch[1]
         IN  /\ L # None /\ L.batch # << >> /\ i \in Nat
             /\ M # None /\ M.home = L.home
             /\ M.bot = L.bot /\ M.admins = L.admins /\ M.canceled = L.canceled
             /\ M.offset = i + 1
             /\ M.batch = Tail(L.batch)
             /\ M.done = Append(L.done, i)
             /\ sent' = sent
             /\ Live(l) => <<L.bot, i>> \in answered'
             /\ \/ executed' = executed
                \/ executed' = executed \cup {<<L.bot, i>>} /\ sent[L.bot][i] \in L.admins
  <1>1. /\ loop[l] # None /\ loop[l] \in LoopType /\ loop[l].batch # << >>
        /\ loop[l].batch \in Seq(Nat) /\ loop[l].done \in Seq(Nat)
    BY DEF Handle, TypeOK, LoopType
  <1>2. Head(loop[l].batch) = loop[l].batch[1] /\ loop[l].batch[1] \in Nat
    BY <1>1
  <1>3. /\ loop'[l].home = loop[l].home
        /\ loop'[l].bot = loop[l].bot /\ loop'[l].admins = loop[l].admins
        /\ loop'[l].canceled = loop[l].canceled
        /\ loop'[l].offset = loop[l].batch[1] + 1
        /\ loop'[l].batch = Tail(loop[l].batch)
        /\ loop'[l].done = Append(loop[l].done, loop[l].batch[1])
    BY <1>1, <1>2 DEF Handle, Following, TypeOK, LoopType
  <1>4. /\ sent' = sent
        /\ Live(l) => <<loop[l].bot, loop[l].batch[1]>> \in answered'
        /\ \/ executed' = executed
           \/ /\ executed' = executed \cup {<<loop[l].bot, loop[l].batch[1]>>}
              /\ sent[loop[l].bot][loop[l].batch[1]] \in loop[l].admins
    BY <1>2 DEF Handle, telegram
  <1>5. loop'[l] # None
    <2> DEFINE i == loop[l].batch[1]
    <2>1. Tail(loop[l].batch) \in Seq(Nat) /\ Append(loop[l].done, i) \in Seq(Nat)
      BY <1>1, <1>2
    <2>2. loop'[l] = [loop[l] EXCEPT !.offset = i + 1, !.batch = Tail(@), !.done = Append(@, i)]
      BY <1>1, <1>2 DEF Handle, Following, TypeOK
    <2>3. i + 1 \in Nat  BY <1>2
    <2> HIDE DEF i
    <2>4. [loop[l] EXCEPT !.offset = i + 1, !.batch = Tail(@), !.done = Append(@, i)] \in LoopType
      BY <1>1, <2>1, <2>3 DEF LoopType
    <2>5. QED  BY <2>2, <2>4, NoneAssumption
  <1>6. QED  BY <1>1, <1>2, <1>3, <1>4, <1>5

-----------------------------------------------------------------------------
(* Updates.                                                                *)

\* What the invariant says of the numbers of one loop.
CursorOf(offset, batch, done, n) ==
  /\ offset <= n + 1
  /\ \A i \in 1 .. Len(batch) :
       batch[i] = batch[1] + (i - 1) /\ batch[i] \in 1 .. n /\ offset <= batch[i]
  /\ \A i \in 1 .. Len(done) : done[i] < offset
  /\ \A i, j \in 1 .. Len(done) : i < j => done[i] < done[j]

\* New updates do not disturb it.
LEMMA CursorGrows ==
  ASSUME NEW offset \in Nat, NEW batch \in Seq(Nat), NEW done \in Seq(Nat),
         NEW n \in Nat, NEW m \in Nat, n <= m, CursorOf(offset, batch, done, n)
  PROVE  CursorOf(offset, batch, done, m)
  BY DEF CursorOf

\* A batch that follows what is confirmed is not behind the offset.
LEMMA CursorPolled ==
  ASSUME NEW offset \in Nat, NEW done \in Seq(Nat), NEW n \in Nat, NEW c \in Nat,
         NEW m \in Nat \ {0}, offset - 1 <= c, c + m <= n, CursorOf(offset, << >>, done, n)
  PROVE  CursorOf(offset, [i \in 1 .. m |-> c + i], done, n)
  BY BatchType DEF CursorOf

\* The first update of a batch comes after all that is done, and before the
\* rest of the batch.
LEMMA CursorHandled ==
  ASSUME NEW offset \in Nat, NEW batch \in Seq(Nat), NEW done \in Seq(Nat),
         NEW n \in Nat, batch # << >>, CursorOf(offset, batch, done, n)
  PROVE  CursorOf(batch[1] + 1, Tail(batch), Append(done, batch[1]), n)
  <1> DEFINE b == batch[1]
             rest == Tail(batch)
             all == Append(done, b)
  <1>1. /\ Len(batch) \in Nat \ {0} /\ Len(rest) = Len(batch) - 1
        /\ \A i \in 1 .. Len(rest) : rest[i] = batch[i + 1]
    OBVIOUS
  <1>2. /\ Len(done) \in Nat /\ Len(all) = Len(done) + 1 /\ all[Len(done) + 1] = b
        /\ \A i \in 1 .. Len(done) : all[i] = done[i] /\ done[i] \in Nat
    OBVIOUS
  <1>3. b \in Nat /\ offset <= b /\ b <= n  BY <1>1 DEF CursorOf
  <1>4. \A i \in 1 .. Len(batch) : batch[i] = b + (i - 1) /\ batch[i] \in 1 .. n
    BY DEF CursorOf
  <1>5. \A i \in 1 .. Len(done) : done[i] < b  BY <1>2, <1>3 DEF CursorOf
  <1>6. \A i, j \in 1 .. Len(done) : i < j => done[i] < done[j]  BY DEF CursorOf
  <1> HIDE DEF b, rest, all
  <1>7. \A i \in 1 .. Len(rest) : rest[i] = rest[1] + (i - 1) /\ rest[i] \in 1 .. n /\ b + 1 <= rest[i]
    <2>1. ASSUME NEW i \in 1 .. Len(rest) PROVE rest[i] = b + i /\ rest[i] \in 1 .. n
      <3>1. i + 1 \in 1 .. Len(batch) /\ (i + 1) - 1 = i  BY <1>1
      <3>2. QED  BY <1>1, <1>4, <3>1
    <2>2. ASSUME NEW i \in 1 .. Len(rest) PROVE 1 \in 1 .. Len(rest)  BY <1>1
    <2>3. ASSUME NEW i \in 1 .. Len(rest) PROVE rest[i] = rest[1] + (i - 1) /\ b + 1 <= rest[i]
      <3>1. rest[i] = b + i /\ rest[1] = b + 1  BY <2>1, <2>2
      <3>2. QED  BY <1>1, <1>3, <3>1
    <2>4. QED  BY <2>1, <2>3
  <1>7a. \A i \in 1 .. Len(all) : i = Len(done) + 1 \/ i \in 1 .. Len(done)  BY <1>2
  <1>8. ASSUME NEW i \in 1 .. Len(all) PROVE all[i] < b + 1
    <2>1. CASE i = Len(done) + 1  BY <1>2, <1>3, <2>1
    <2>2. CASE i \in 1 .. Len(done)
      <3>1. all[i] = done[i] /\ done[i] \in Nat /\ done[i] < b  BY <1>2, <1>5, <2>2
      <3>2. QED  BY <1>3, <3>1
    <2>3. QED  BY <1>7a, <2>1, <2>2
  <1>9. ASSUME NEW i \in 1 .. Len(all), NEW j \in 1 .. Len(all), i < j PROVE all[i] < all[j]
    <2>1. i \in 1 .. Len(done)  BY <1>2, <1>9
    <2>2. all[i] = done[i] /\ done[i] < b  BY <1>2, <1>5, <2>1
    <2>3. CASE j = Len(done) + 1  BY <1>2, <2>2, <2>3
    <2>4. CASE j \in 1 .. Len(done)
      <3>1. all[j] = done[j]  BY <1>2, <2>4
      <3>2. done[i] < done[j]  BY <1>6, <1>9, <2>1, <2>4
      <3>3. QED  BY <2>2, <3>1, <3>2
    <2>5. QED  BY <1>7a, <2>3, <2>4
  <1>10. b + 1 <= n + 1  BY <1>3
  <1>11. CursorOf(b + 1, rest, all, n)  BY <1>7, <1>8, <1>9, <1>10 DEF CursorOf
  <1>12. QED  BY <1>11 DEF b, rest, all

CursorAt(l) == CursorOf(loop[l].offset, loop[l].batch, loop[l].done, Len(sent[loop[l].bot]))

\* Cursor and InOrder say this of every loop.
LEMMA CursorOfAll ==
  TypeOK => (Cursor /\ InOrder <=> \A l \in Loops : loop[l] # None => CursorAt(l))
  <1> SUFFICES ASSUME TypeOK
               PROVE  Cursor /\ InOrder <=> \A l \in Loops : loop[l] # None => CursorAt(l)
    OBVIOUS
  <1>1. \A l \in Loops : loop[l] # None => DOMAIN loop[l].done = 1 .. Len(loop[l].done)
    BY DEF TypeOK, LoopType
  <1>2. QED  BY <1>1 DEF Cursor, InOrder, CursorAt, CursorOf

\* Loops go through the updates in their order.
LEMMA CursorStep ==
  ASSUME TypeOK, TypeOK', Cursor, InOrder, Next
  PROVE  Cursor' /\ InOrder'
  <1>1. (TypeOK => (Cursor /\ InOrder <=> \A l \in Loops : loop[l] # None => CursorAt(l)))'
    BY CursorOfAll, PTL
  <1> SUFFICES ASSUME NEW l \in Loops, loop'[l] # None PROVE CursorAt(l)'
    BY <1>1
  <1> DEFINE L == loop[l]
             n == Len(sent[loop[l].bot])
  <1>2. ASSUME L # None
        PROVE  /\ CursorAt(l) /\ L \in LoopType /\ n \in Nat
               /\ Len(sent'[L.bot]) \in Nat /\ n <= Len(sent'[L.bot])
               /\ L.offset \in Nat /\ L.batch \in Seq(Nat) /\ L.done \in Seq(Nat)
    <2>1. L \in LoopType /\ L.bot \in Bots  BY <1>2 DEF TypeOK, LoopType
    <2>2. CursorAt(l)  BY <1>2, CursorOfAll
    <2>3. n <= Len(sent'[L.bot])  BY <2>1, Grows
    <2>4. n \in Nat /\ Len(sent'[L.bot]) \in Nat  BY <2>1 DEF TypeOK
    <2>5. QED  BY <2>1, <2>2, <2>3, <2>4 DEF LoopType
  <1>3. CASE L # None /\ (loop'[l] = L \/ loop'[l] = [L EXCEPT !.canceled = TRUE])
    <2>1. /\ loop'[l].bot = L.bot /\ loop'[l].offset = L.offset
          /\ loop'[l].batch = L.batch /\ loop'[l].done = L.done
      BY <1>2, <1>3 DEF LoopType
    <2>2. CursorOf(L.offset, L.batch, L.done, Len(sent'[L.bot]))
      BY <1>2, <1>3, CursorGrows DEF CursorAt
    <2>3. QED  BY <2>1, <2>2 DEF CursorAt
  <1>4. CASE \E r \in Replicas, s \in Configurable : Wanted(s) /\ loop'[l] = Fresh(r, s)
    <2>1. loop'[l].offset = 0 /\ loop'[l].batch = << >> /\ loop'[l].done = << >>
      BY <1>4 DEF Fresh
    <2>2. Len(sent'[loop'[l].bot]) \in Nat  BY DEF TypeOK, LoopType
    <2>3. QED  BY <2>1, <2>2 DEF CursorAt, CursorOf
  <1>5. CASE Poll(l)
    <2>1. /\ L # None /\ L.batch = << >> /\ loop'[l].bot = L.bot
          /\ loop'[l].offset = L.offset /\ loop'[l].done = L.done /\ sent' = sent
      BY <1>5, Polled
    <2>2. PICK m \in Nat \ {0} :
            Confirmed(l) + m <= n /\ loop'[l].batch = [i \in 1 .. m |-> Confirmed(l) + i]
      BY <1>5, Polled
    <2>3. Confirmed(l) \in Nat /\ L.offset - 1 <= Confirmed(l)  BY <2>1, ConfirmedType
    <2>4. CursorOf(L.offset, << >>, L.done, n)  BY <1>2, <2>1 DEF CursorAt
    <2>5. CursorOf(L.offset, [i \in 1 .. m |-> Confirmed(l) + i], L.done, n)
      BY <1>2, <2>1, <2>2, <2>3, <2>4, CursorPolled
    <2>6. QED  BY <2>1, <2>2, <2>5 DEF CursorAt
  <1>6. CASE Handle(l)
    <2>1. /\ L # None /\ L.batch # << >> /\ loop'[l].bot = L.bot /\ sent' = sent
          /\ loop'[l].offset = L.batch[1] + 1 /\ loop'[l].batch = Tail(L.batch)
          /\ loop'[l].done = Append(L.done, L.batch[1])
      BY <1>6, Handled
    <2>2. CursorOf(L.batch[1] + 1, Tail(L.batch), Append(L.done, L.batch[1]), n)
      BY <1>2, <2>1, CursorHandled DEF CursorAt
    <2>3. QED  BY <2>1, <2>2 DEF CursorAt
  <1>7. CASE L = None /\ loop'[l] = L  BY <1>7
  <1>8. QED  BY <1>3, <1>4, <1>5, <1>6, <1>7, LoopMoves

\* Telegram forgets only what a loop that goes on has left behind.
LEMMA CoversStep ==
  ASSUME TypeOK, TypeOK', Cursor, Covers, ConfirmedAnswered, Next
  PROVE  Covers' /\ ConfirmedAnswered'
  <1>1. \A l \in Loops : loop[l] # None =>
          /\ loop[l] \in LoopType /\ loop[l].bot \in Bots /\ loop[l].offset \in Nat
    BY DEF TypeOK, LoopType
  <1>2. \A b \in Bots : answered \subseteq answered'  BY Grows
  <1>3. Covers'
    <2> SUFFICES ASSUME NEW l \in Loops, loop'[l] # None, ~ loop'[l].canceled
          PROVE  /\ \A i \in 1 .. loop'[l].offset - 1 : <<loop'[l].bot, i>> \in answered'
                 /\ loop'[l].batch # << >> =>
                      \A i \in 1 .. loop'[l].batch[1] - 1 : <<loop'[l].bot, i>> \in answered'
      BY DEF Covers, Live
    <2>1. CASE loop'[l] = loop[l]  BY <1>1, <1>2, <2>1 DEF Covers, Live
    <2>2. CASE loop[l] # None /\ loop'[l] = [loop[l] EXCEPT !.canceled = TRUE]
      BY <1>1, <2>2 DEF LoopType
    <2>3. CASE \E r \in Replicas, s \in Configurable : Wanted(s) /\ loop'[l] = Fresh(r, s)
      BY <2>3 DEF Fresh
    <2>4. CASE Poll(l)
      <3>1. /\ loop[l] # None /\ ~ loop[l].canceled /\ answered' = answered
            /\ loop'[l].bot = loop[l].bot /\ loop'[l].offset = loop[l].offset
            /\ \E m \in Nat \ {0} : loop'[l].batch = [i \in 1 .. m |-> Confirmed(l) + i]
        BY <2>4, Polled
      <3>2. /\ Confirmed(l) \in Nat
            /\ Confirmed(l) = confirmed[loop[l].bot] \/ Confirmed(l) = loop[l].offset - 1
        BY <3>1, ConfirmedType
      <3>3. \A i \in 1 .. Confirmed(l) : <<loop[l].bot, i>> \in answered
        BY <1>1, <3>1, <3>2 DEF Covers, Live, ConfirmedAnswered
      <3>4. \A i \in 1 .. loop[l].offset - 1 : <<loop[l].bot, i>> \in answered
        BY <3>1 DEF Covers, Live
      <3>5. loop'[l].batch[1] = Confirmed(l) + 1 /\ (Confirmed(l) + 1) - 1 = Confirmed(l)
        BY <3>1, <3>2
      <3>6. QED  BY <3>1, <3>3, <3>4, <3>5
    <2>5. CASE Handle(l)
      <3> DEFINE i == loop[l].batch[1]
                 rest == Tail(loop[l].batch)
      <3>1. /\ loop[l] # None /\ ~ loop[l].canceled /\ loop[l].batch # << >> /\ i \in Nat
            /\ loop'[l].bot = loop[l].bot /\ loop'[l].offset = i + 1
            /\ loop'[l].batch = rest
            /\ <<loop[l].bot, i>> \in answered'
        BY <2>5, Handled, SMTT(30) DEF Live
      <3>2. \A k \in 1 .. i - 1 : <<loop[l].bot, k>> \in answered
        BY <3>1 DEF Covers, Live
      <3>3. \A k \in 1 .. i : <<loop[l].bot, k>> \in answered'
        BY <1>1, <1>2, <3>1, <3>2
      <3>4. rest # << >> => rest[1] = i + 1
        <4>1. loop[l].batch \in Seq(Nat)  BY <1>1, <3>1 DEF LoopType
        <4>2. rest # << >> => 2 \in 1 .. Len(loop[l].batch) /\ rest[1] = loop[l].batch[2]
          BY <3>1, <4>1, SMTT(30)
        <4>3. \A k \in 1 .. Len(loop[l].batch) : loop[l].batch[k] = i + (k - 1)
          BY <3>1 DEF Cursor
        <4>4. SUFFICES ASSUME rest # << >> PROVE rest[1] = i + 1  OBVIOUS
        <4>5. rest[1] = i + (2 - 1)  BY <4>2, <4>3, <4>4
        <4> HIDE DEF i, rest
        <4>6. QED  BY <3>1, <4>5
      <3> HIDE DEF i, rest
      <3>5. (i + 1) - 1 = i  BY <3>1
      <3>6. QED  BY <3>1, <3>3, <3>4, <3>5
    <2>6. QED  BY <2>1, <2>2, <2>3, <2>4, <2>5, LoopMoves
  <1>4. ConfirmedAnswered'
    <2>1. ASSUME NEW l \in Loops, Poll(l) \/ PollNothing(l) PROVE ConfirmedAnswered'
      <3>1. /\ loop[l] # None /\ ~ loop[l].canceled
            /\ confirmed' = [confirmed EXCEPT ![loop[l].bot] = Confirmed(l)]
        BY <2>1 DEF Poll, PollNothing, Live
      <3>2. /\ Confirmed(l) \in Nat
            /\ Confirmed(l) = confirmed[loop[l].bot] \/ Confirmed(l) = loop[l].offset - 1
        BY <3>1, ConfirmedType
      <3>3. \A i \in 1 .. Confirmed(l) : <<loop[l].bot, i>> \in answered
        BY <1>1, <3>1, <3>2 DEF Covers, Live, ConfirmedAnswered
      <3>4. \A b \in Bots : confirmed'[b] = IF b = loop[l].bot THEN Confirmed(l) ELSE confirmed[b]
        BY <3>1 DEF TypeOK
      <3>5. QED  BY <1>2, <3>3, <3>4 DEF ConfirmedAnswered
    <2>2. CASE UNCHANGED confirmed  BY <1>2, <2>2 DEF ConfirmedAnswered
    <2>3. QED
      BY <2>1, <2>2 DEF Next, ReadSettings, WriteSettings, SaveFails, Apply, Start, Shutdown, Stop,
         Send, Handle, Return, telegram
  <1>5. QED  BY <1>3, <1>4

-----------------------------------------------------------------------------
(* Admins.                                                                 *)

\* The row, the requests behind it and the loops keep to admins who have been
\* in the row together with their bot.
LEMMA SavedStep ==
  ASSUME TypeOK, TypeOK', Saved, Next
  PROVE  Saved'
  <1>1. \A s \in Configurable : Known(s, listed)  BY DEF Saved, Configurable
  <1>2. \A b \in Bots : listed[b] \subseteq listed'[b]  BY Grows
  <1>3. \A s \in Settings : Known(s, listed) => Known(s, listed')  BY <1>2 DEF Known, Settings
  <1>4. \A q \in Requests : request[q] # None => request[q].save \in Settings
    BY DEF TypeOK, Saves
  <1>5. ASSUME NEW q \in Requests, request[q] # None, WriteRow(q)
        PROVE  Known(request[q].save, listed')
    <2>1. request[q].save \in Settings  BY <1>4, <1>5
    <2>2. request[q].save.bot # None => request[q].save.bot \in Bots  BY <2>1, SMTT(30) DEF Settings
    <2>3. QED  BY <1>5, <2>2 DEF WriteRow, Known
  <1>6. Known(settings', listed')
    <2>1. CASE UNCHANGED settings  BY <1>3, <2>1 DEF Saved, TypeOK
    <2>2. CASE \E q \in Requests : request[q] # None /\ WriteRow(q)
      <3>1. PICK q \in Requests : request[q] # None /\ WriteRow(q)  BY <2>2
      <3>2. settings' = request[q].save  BY <3>1 DEF WriteRow
      <3>3. QED  BY <1>5, <3>1, <3>2
    <2>3. QED
      BY <2>1, <2>2 DEF Next, ReadSettings, WriteSettings, SaveFails, Apply, Start,
         Shutdown, Stop, Send, Poll, PollNothing, Handle, Return
  <1>7. ASSUME NEW q \in Requests, request'[q] # None, request'[q].saved
        PROVE  Known(request'[q].save, listed')
    <2>1. CASE request'[q] = request[q]
      <3>1. Known(request[q].save, listed) /\ request[q].save \in Settings  BY <1>4, <1>7, <2>1 DEF Saved
      <3>2. QED  BY <1>3, <2>1, <3>1
    <2>2. CASE WriteSettings(q)
      <3>1. request[q] # None /\ request[q] \in Saves /\ WriteRow(q)
        BY <2>2 DEF WriteSettings, TypeOK
      <3>2. request'[q].save = request[q].save
        <4>1. request' = [request EXCEPT ![q].saved = TRUE] /\ q \in DOMAIN request
          BY <2>2, SMTT(30) DEF WriteSettings, TypeOK
        <4>2. QED  BY <3>1, <4>1 DEF Saves
      <3>3. QED  BY <1>5, <3>1, <3>2
    <2>3. \/ request'[q] = request[q] \/ WriteSettings(q) \/ request'[q] = None
          \/ \E r \in Replicas, s \in Choices : ReadSettings(q, r, s)
      BY ZenonT(60) DEF Next, ReadSettings, WriteSettings, SaveFails, Apply, Start,
         Shutdown, Stop, Send, Poll, PollNothing, Handle, Return, TypeOK
    <2>4. ASSUME NEW r \in Replicas, NEW s \in Choices, ReadSettings(q, r, s) PROVE FALSE
      BY <1>7, <2>4 DEF ReadSettings, TypeOK
    <2>5. QED  BY <1>7, <2>1, <2>2, <2>3, <2>4
  <1>8. ASSUME NEW l \in Loops, loop'[l] # None
        PROVE  loop'[l].admins \subseteq listed'[loop'[l].bot]
    <2>1. ASSUME loop[l] # None
          PROVE  /\ loop[l] \in LoopType /\ loop[l].bot \in Bots
                 /\ loop[l].admins \subseteq listed'[loop[l].bot]
      BY <1>2, <2>1 DEF Saved, TypeOK, LoopType
    <2>2. CASE loop'[l] = loop[l]  BY <1>8, <2>1, <2>2
    <2>3. CASE loop[l] # None /\ loop'[l] = [loop[l] EXCEPT !.canceled = TRUE]
      BY <2>1, <2>3 DEF LoopType
    <2>4. CASE \E r \in Replicas, s \in Configurable : Wanted(s) /\ loop'[l] = Fresh(r, s)
      <3>1. PICK r \in Replicas, s \in Configurable : Wanted(s) /\ loop'[l] = Fresh(r, s)
        BY <2>4
      <3>2. s \in Settings /\ Known(s, listed)  BY <1>1, <1>4 DEF Configurable, TypeOK
      <3>3. s.admins \subseteq listed[s.bot] /\ s.bot \in Bots
        BY <3>1, <3>2 DEF Wanted, Known, Settings
      <3>4. loop'[l].admins = s.admins /\ loop'[l].bot = s.bot  BY <3>1 DEF Fresh
      <3>5. QED  BY <1>2, <3>3, <3>4
    <2>5. CASE Poll(l) \/ Handle(l)
      <3>1. loop[l] # None  BY <2>5 DEF Poll, Live, Handle
      <3>2. loop'[l].admins = loop[l].admins /\ loop'[l].bot = loop[l].bot
        <4>1. CASE Poll(l)  BY <2>1, <3>1, <4>1 DEF Poll, Answer, LoopType, TypeOK
        <4>2. CASE Handle(l)  BY <4>1, <4>2, Handled
        <4>3. QED  BY <2>5, <4>1, <4>2
      <3>3. QED  BY <2>1, <3>1, <3>2
    <2>6. QED  BY <1>8, <2>2, <2>3, <2>4, <2>5, LoopMoves
  <1>9. QED  BY <1>6, <1>7, <1>8 DEF Saved

\* A command is carried out by a loop, for one of its admins.
LEMMA ListedStep ==
  ASSUME TypeOK, TypeOK', Cursor, Saved, Executed, ListedOnly, Next
  PROVE  Executed' /\ ListedOnly'
  <1>1. ASSUME NEW u \in executed
        PROVE  u[2] \in 1 .. Len(sent'[u[1]]) /\ sent'[u[1]][u[2]] \in listed'[u[1]]
    <2>1. u[1] \in Bots /\ u[2] \in 1 .. Len(sent[u[1]]) /\ sent[u[1]][u[2]] \in listed[u[1]]
      BY DEF TypeOK, Executed, ListedOnly
    <2>2. Len(sent[u[1]]) \in Nat /\ Len(sent'[u[1]]) \in Nat  BY <2>1 DEF TypeOK
    <2>3. Len(sent[u[1]]) <= Len(sent'[u[1]])  BY <2>1, Grows
    <2>4. sent'[u[1]][u[2]] = sent[u[1]][u[2]] /\ listed[u[1]] \subseteq listed'[u[1]]
      BY <2>1, Grows
    <2>5. QED  BY <2>1, <2>2, <2>3, <2>4
  <1>2. CASE executed' = executed  BY <1>1, <1>2 DEF Executed, ListedOnly
  <1>3. ASSUME NEW l \in Loops, Handle(l) PROVE Executed' /\ ListedOnly'
    <2> DEFINE b == loop[l].bot
               i == loop[l].batch[1]
    <2>1. /\ loop[l] # None /\ loop[l] \in LoopType /\ b \in Bots /\ loop[l].batch # << >>
          /\ loop[l].batch \in Seq(Nat) /\ sent' = sent
      <3>1. loop[l] # None /\ loop[l].batch # << >> /\ sent' = sent
        BY <1>3 DEF Handle, telegram
      <3>2. loop[l] \in LoopType  BY <3>1 DEF TypeOK
      <3>3. QED  BY <3>1, <3>2 DEF LoopType
    <2>2. i \in 1 .. Len(sent[b])
      <3>1. 1 \in 1 .. Len(loop[l].batch)  BY <2>1
      <3>2. QED  BY <2>1, <3>1 DEF Cursor
    <2>3. loop[l].admins \subseteq listed[b] /\ listed' = listed
      BY <1>3, <2>1 DEF Saved, Handle
    <2>4. CASE executed' = executed \cup {<<b, i>>} /\ sent[b][i] \in loop[l].admins
      <3>1. ASSUME NEW u \in executed'
            PROVE  u[2] \in 1 .. Len(sent'[u[1]]) /\ sent'[u[1]][u[2]] \in listed'[u[1]]
        <4>1. CASE u \in executed  BY <1>1, <4>1
        <4>2. CASE u = <<b, i>>  BY <2>1, <2>2, <2>3, <2>4, <4>2
        <4>3. QED  BY <2>4, <4>1, <4>2
      <3>2. QED  BY <3>1 DEF Executed, ListedOnly
    <2>5. QED  BY <1>2, <1>3, <2>4, Handled
  <1>4. QED
    BY <1>2, <1>3 DEF Next, ReadSettings, WriteSettings, SaveFails, Apply, Start,
       Shutdown, Stop, Send, Poll, PollNothing, Return, aux

-----------------------------------------------------------------------------
(* One loop.                                                               *)

\* Such a Manager has the number of loops that OneLoop counts.
LEMMA Counted == Single => OneLoop
  <1> SUFFICES ASSUME Single, NEW r \in Replicas
               PROVE  /\ Cardinality(Running(r)) = Expected(r)
                      /\ \A l \in Running(r) : /\ loop[l].bot = cur[r].bot
                                               /\ loop[l].admins = cur[r].admins
    BY DEF OneLoop, Running, Expected
  <1>1. NoneOrOne(r)  BY DEF Single
  <1>2. CASE Running(r) = {} /\ Expected(r) = 0  BY <1>2, FS_EmptySet
  <1>3. ASSUME NEW l \in Loops, Running(r) = {l}, Expected(r) = 1,
               loop[l].bot = cur[r].bot, loop[l].admins = cur[r].admins
        PROVE  /\ Cardinality(Running(r)) = Expected(r)
               /\ \A k \in Running(r) : loop[k].bot = cur[r].bot /\ loop[k].admins = cur[r].admins
    BY <1>3, FS_Singleton
  <1>4. QED  BY <1>1, <1>2, <1>3 DEF NoneOrOne

\* l is a loop of r that goes on.
RunsAt(l, r) == loop[l] # None /\ loop[l].home = r /\ ~ loop[l].canceled

\* A step that leaves a Manager and its running loops alone keeps NoneOrOne.
LEMMA Undisturbed ==
  ASSUME NEW r \in Replicas, NoneOrOne(r), cur'[r] = cur[r],
         (r \in draining) <=> (r \in draining)',
         \A l \in Loops : RunsAt(l, r) <=> RunsAt(l, r)',
         \A l \in Loops : RunsAt(l, r) =>
           loop'[l].bot = loop[l].bot /\ loop'[l].admins = loop[l].admins
  PROVE  NoneOrOne(r)'
  <1>1. Expected(r)' = Expected(r)  BY DEF Expected
  <1>2. Running(r)' = Running(r)  BY DEF Running, LoopsOf, Live, RunsAt
  <1>3. \A l \in Running(r) : loop'[l].bot = loop[l].bot /\ loop'[l].admins = loop[l].admins
    BY DEF Running, LoopsOf, Live, RunsAt
  <1>4. QED  BY <1>1, <1>2, <1>3 DEF NoneOrOne

\* A new loop goes on unless the root context was cancelled before it.
LEMMA FreshLive ==
  ASSUME NEW r \in Replicas, NEW s
  PROVE  Fresh(r, s).canceled <=> r \in draining
  BY Zenon DEF Fresh

\* Configuring a Manager ends all of its loops but the new one, which does not
\* go on either when the server shuts down.
LEMMA ConfigureSingle ==
  ASSUME TypeOK, Single, NEW r \in Replicas, NEW s \in Settings, Configure(r, s),
         UNCHANGED draining
  PROVE  Single'
  <1>1. \A l \in Loops : loop[l] \in LoopType \cup {None}  BY DEF TypeOK
  <1>2. cur'[r] = s /\ \A k \in Replicas \ {r} : cur'[k] = cur[k]
    BY Configures DEF TypeOK
  <1>3. None \notin Settings \cup LoopType  BY NoneAssumption
  <1>4. ASSUME NEW k \in Replicas \ {r} PROVE NoneOrOne(k)'
    <2>1. ASSUME NEW l \in Loops
          PROVE  /\ RunsAt(l, k) <=> RunsAt(l, k)'
                 /\ RunsAt(l, k) => /\ loop'[l].bot = loop[l].bot
                                    /\ loop'[l].admins = loop[l].admins
      <3>1. CASE loop'[l] = loop[l]  BY <3>1 DEF RunsAt
      <3>2. CASE loop[l] # None /\ loop[l].home = r /\ loop'[l] = [loop[l] EXCEPT !.canceled = TRUE]
        BY <1>1, <3>2 DEF RunsAt, LoopType
      <3>3. CASE loop[l] = None /\ loop'[l] = Fresh(r, s)  BY <3>3 DEF RunsAt, Fresh
      <3>4. QED  BY <3>1, <3>2, <3>3, Configures
    <2>2. NoneOrOne(k)  BY DEF Single
    <2>3. QED  BY <1>2, <2>1, <2>2, Undisturbed
  <1>5. NoneOrOne(r)'
    <2>1. ASSUME NEW l \in Loops, RunsAt(l, r)'
          PROVE  loop[l] = None /\ Wanted(s) /\ loop'[l] = Fresh(r, s)
      <3>1. CASE loop'[l] = loop[l] /\ (loop[l] # None => loop[l].home # r)
        BY <2>1, <3>1 DEF RunsAt
      <3>2. CASE loop[l] # None /\ loop'[l] = [loop[l] EXCEPT !.canceled = TRUE]
        BY <1>1, <2>1, <3>2 DEF RunsAt, LoopType
      <3>3. QED  BY <3>1, <3>2, Configures
    <2>2. Running(r)' = {l \in Loops : RunsAt(l, r)'}
      BY DEF Running, LoopsOf, Live, RunsAt
    <2>3. CASE ~ Wanted(s)
      <3>1. Running(r)' = {}  BY <2>1, <2>2, <2>3
      <3>2. Expected(r)' = 0  BY <1>2, <2>3 DEF Expected, Wanted
      <3>3. QED  BY <3>1, <3>2 DEF NoneOrOne
    <2>4. CASE r \in draining
      <3>1. Running(r)' = {}  BY <2>1, <2>2, <2>4, FreshLive DEF RunsAt
      <3>2. Expected(r)' = 0  BY <2>4 DEF Expected
      <3>3. QED  BY <3>1, <3>2 DEF NoneOrOne
    <2>5. CASE Wanted(s) /\ r \notin draining
      <3>1. PICK f \in Loops : /\ loop[f] = None /\ loop'[f] = Fresh(r, s)
                               /\ \A l \in Loops \ {f} : loop[l] = None => loop'[l] = None
        BY <2>5, Configures
      <3>2. Fresh(r, s) \in LoopType  BY <2>5 DEF Wanted, Fresh, LoopType, Settings
      <3>3. RunsAt(f, r)'
        <4>1. loop'[f] # None  BY <1>3, <3>1, <3>2
        <4>2. loop'[f].home = r /\ ~ loop'[f].canceled  BY <2>5, <3>1, FreshLive DEF Fresh
        <4>3. QED  BY <4>1, <4>2 DEF RunsAt
      <3>4. \A l \in Loops : RunsAt(l, r)' => l = f
        BY <2>1, <3>1 DEF RunsAt
      <3>5. Running(r)' = {f}  BY <2>2, <3>3, <3>4
      <3>6. Expected(r)' = 1  BY <1>2, <1>3, <2>5 DEF Expected, Wanted
      <3>7. loop'[f].bot = cur'[r].bot /\ loop'[f].admins = cur'[r].admins
        BY <1>2, <3>1 DEF Fresh
      <3>8. QED  BY <3>5, <3>6, <3>7 DEF NoneOrOne
    <2>6. QED  BY <2>3, <2>4, <2>5
  <1>6. QED  BY <1>4, <1>5 DEF Single

\* No step gives a Manager a second loop that goes on, or leaves it without the
\* one it should have.
LEMMA SingleStep == ASSUME TypeOK, Cursor, Single, Next PROVE Single'
  <1>1. \A l \in Loops : loop[l] \in LoopType \cup {None}  BY DEF TypeOK
  <1>2. ASSUME UNCHANGED <<cur, draining, loop>> PROVE Single'
    BY <1>2 DEF Single, NoneOrOne, Expected, Running, LoopsOf, Live
  <1>3. ASSUME NEW q \in Requests, Apply(q) PROVE Single'
    <2>1. request[q].at \in Replicas /\ request[q].save \in Settings
      BY <1>3 DEF Apply, Saves, TypeOK
    <2>2. QED  BY <1>3, <2>1, ConfigureSingle DEF Apply
  <1>4. ASSUME NEW r \in Replicas, Start(r) PROVE Single'
    <2>1. settings \in Settings  BY DEF TypeOK
    <2>2. QED  BY <1>2, <1>4, <2>1, ConfigureSingle DEF Start
  <1>5. ASSUME NEW r \in Replicas, Stop(r) PROVE Single'
    <2>1. /\ \A k \in Replicas : cur'[k] = IF k = r THEN None ELSE cur[k]
          /\ \A l \in Loops : loop'[l] = IF l \in LoopsOf(r) THEN None ELSE loop[l]
          /\ draining' = draining \ {r}
      BY <1>5 DEF Stop, TypeOK
    <2>2. NoneOrOne(r)'
      <3>1. Running(r)' = {}  BY <2>1 DEF Running, LoopsOf
      <3>2. Expected(r)' = 0  BY <2>1 DEF Expected
      <3>3. QED  BY <3>1, <3>2 DEF NoneOrOne
    <2>3. ASSUME NEW k \in Replicas \ {r} PROVE NoneOrOne(k)'
      <3>1. NoneOrOne(k) /\ cur'[k] = cur[k]  BY <2>1 DEF Single
      <3>2. \A l \in Loops : /\ RunsAt(l, k) <=> RunsAt(l, k)'
                             /\ RunsAt(l, k) => loop'[l] = loop[l]
        BY <2>1 DEF RunsAt, LoopsOf
      <3>3. QED  BY <2>1, <3>1, <3>2, Undisturbed
    <2>4. QED  BY <2>2, <2>3 DEF Single
  <1>5a. ASSUME NEW r \in Replicas, Shutdown(r) PROVE Single'
    <2>1. /\ UNCHANGED cur /\ draining' = draining \cup {r}
          /\ \A l \in Loops :
               \/ loop'[l] = loop[l] /\ (loop[l] # None => loop[l].home # r)
               \/ /\ loop[l] # None /\ loop[l].home = r
                  /\ loop'[l] = [loop[l] EXCEPT !.canceled = TRUE]
      BY <1>5a, Cancels DEF Shutdown
    <2>2. NoneOrOne(r)'
      <3>1. Running(r)' = {}
        BY <1>1, <2>1 DEF Running, LoopsOf, Live, LoopType
      <3>2. Expected(r)' = 0  BY <2>1 DEF Expected
      <3>3. QED  BY <3>1, <3>2 DEF NoneOrOne
    <2>3. ASSUME NEW k \in Replicas \ {r} PROVE NoneOrOne(k)'
      <3>1. NoneOrOne(k) /\ cur'[k] = cur[k]  BY <2>1 DEF Single
      <3>2. \A l \in Loops : /\ RunsAt(l, k) <=> RunsAt(l, k)'
                             /\ RunsAt(l, k) => loop'[l] = loop[l]
        BY <1>1, <2>1 DEF RunsAt, LoopType
      <3>3. QED  BY <2>1, <3>1, <3>2, Undisturbed
    <2>4. QED  BY <2>2, <2>3 DEF Single
  <1>6. ASSUME NEW l \in Loops, Poll(l) \/ Handle(l) \/ Return(l) PROVE Single'
    <2>1. UNCHANGED <<cur, draining>> /\ \A k \in Loops \ {l} : loop'[k] = loop[k]
      BY <1>6 DEF Poll, Answer, Handle, Return, TypeOK
    <2>2. \/ loop[l].canceled /\ loop'[l] = None
          \/ /\ loop[l] # None /\ loop'[l].home = loop[l].home /\ loop'[l].bot = loop[l].bot
             /\ loop'[l].admins = loop[l].admins /\ loop'[l].canceled = loop[l].canceled
             /\ loop'[l] # None
      <3>1. CASE Return(l)  BY <3>1 DEF Return, TypeOK
      <3>2. CASE Poll(l)  BY <3>2, Polled
      <3>3. CASE Handle(l)  BY <3>3, Handled
      <3>4. QED  BY <1>6, <3>1, <3>2, <3>3
    <2>3. ASSUME NEW r \in Replicas PROVE NoneOrOne(r)'
      <3>1. NoneOrOne(r) /\ cur'[r] = cur[r]  BY <2>1 DEF Single
      <3>2. ASSUME NEW k \in Loops
            PROVE  /\ RunsAt(k, r) <=> RunsAt(k, r)'
                   /\ RunsAt(k, r) => /\ loop'[k].bot = loop[k].bot
                                      /\ loop'[k].admins = loop[k].admins
        BY <2>1, <2>2 DEF RunsAt
      <3>3. QED  BY <2>1, <3>1, <3>2, Undisturbed
    <2>4. QED  BY <2>3 DEF Single
  <1>7. QED
    BY <1>2, <1>3, <1>4, <1>5, <1>5a, <1>6 DEF Next, ReadSettings, WriteSettings, SaveFails,
       Send, PollNothing

-----------------------------------------------------------------------------
(* The theorems.                                                           *)

\* The initial states satisfy the invariant.
LEMMA InitIInv == Init => IInv
  <1> SUFFICES ASSUME Init PROVE IInv  OBVIOUS
  <1>1. TypeOK  BY BoundsAssumption DEF Init, TypeOK, Off, Settings
  <1>2. Cursor /\ Covers /\ InOrder  BY DEF Init, Cursor, Covers, InOrder, Live
  <1>3. ConfirmedAnswered  BY DEF Init, ConfirmedAnswered
  <1>4. Saved /\ Executed /\ ListedOnly
    BY DEF Init, Saved, Known, Off, Executed, ListedOnly
  <1>5. Single
    <2>1. ASSUME NEW r \in Replicas PROVE Running(r) = {} /\ Expected(r) = 0
      BY DEF Init, Running, LoopsOf, Expected
    <2>2. QED  BY <2>1 DEF Single, NoneOrOne
  <1>6. QED  BY <1>1, <1>2, <1>3, <1>4, <1>5 DEF IInv

\* Every step keeps it.
LEMMA IInvStep == IInv /\ [Next]_vars => IInv'
  <1> SUFFICES ASSUME IInv, [Next]_vars PROVE IInv'  OBVIOUS
  <1> USE DEF IInv
  <1>1. CASE UNCHANGED vars
    BY <1>1 DEF vars, TypeOK, Cursor, Covers, ConfirmedAnswered, InOrder, Saved, Known,
       Executed, ListedOnly, Single, NoneOrOne, Expected, Running, LoopsOf, Live
  <1>2. CASE Next
    <2>1. TypeOK'  BY TypeStep
    <2>2. Cursor' /\ InOrder'  BY <1>2, <2>1, CursorStep
    <2>3. Covers' /\ ConfirmedAnswered'  BY <1>2, <2>1, CoversStep
    <2>4. Saved'  BY <1>2, <2>1, SavedStep
    <2>5. Executed' /\ ListedOnly'  BY <1>2, <2>1, ListedStep
    <2>6. Single'  BY <1>2, SingleStep
    <2>7. QED  BY <2>1, <2>2, <2>3, <2>4, <2>5, <2>6
  <1>3. QED  BY <1>1, <1>2

\* The inductive invariant holds in every reachable state.
THEOREM Invariance == Spec => []IInv
  BY InitIInv, IInvStep, PTL DEF Spec

\* Types are right, and Telegram forgets no update that was not sent (getUpdates
\* with the offset of a loop).
THEOREM TypeCorrect == Spec => []TypeOK
  <1>1. IInv => TypeOK  BY DEF IInv
  <1>2. QED  BY Invariance, <1>1, PTL

\* Telegram forgets an update only after a loop has handled it that was not
\* cancelled (the offset in runBot, over any reconfigurations and restarts).
THEOREM ForgottenAnswered == Spec => []ConfirmedAnswered
  <1>1. IInv => ConfirmedAnswered  BY DEF IInv
  <1>2. QED  BY Invariance, <1>1, PTL

\* A loop handles no update twice and keeps their order (offset and batches of
\* runBot, however many loops poll the same bot).
THEOREM HandledInOrder == Spec => []InOrder
  <1>1. IInv => InOrder  BY DEF IInv
  <1>2. QED  BY Invariance, <1>1, PTL

\* handle carries out commands only for senders who were once saved as admins
\* together with the bot (handleSetTelegram, LoadTelegram and Configure).
THEOREM ListedOnes == Spec => []ListedOnly
  <1>1. IInv => ListedOnly  BY DEF IInv
  <1>2. QED  BY Invariance, <1>1, PTL

\* A loop that goes on passes over no update: what precedes its offset and its
\* batch was answered, by it or by the loops before it (runBot starts from the
\* offset 0, and Telegram from the first update that is not confirmed).  This
\* is the part of Answered that is not about time.
THEOREM NoneSkipped == Spec => []Covers
  <1>1. IInv => Covers  BY DEF IInv
  <1>2. QED  BY Invariance, <1>1, PTL

\* Configure leaves a Manager with one loop that goes on, for its current
\* settings, or with none when they ask for none; while run waits for the streams
\* to drain after a signal there is none.
THEOREM OneLoopEach == Spec => []OneLoop
  <1>1. IInv => OneLoop  BY Counted DEF IInv
  <1>2. QED  BY Invariance, <1>1, PTL

-----------------------------------------------------------------------------
(* Saves that do not overlap.                                              *)

\* A save that was written is the row, and its replica the last to write; the
\* Manager of that replica has the row, or the save is about to configure it.
AppliedOrAbout ==
  failures = 0 =>
    /\ \A q \in Requests : Waits(q) => request[q].save = settings /\ saver = request[q].at
    /\ \A r \in up : saver = r => cur[r] = settings \/ \E q \in Requests : Waits(q)

\* Every step keeps it: a save that stops half-way is a failure or the end of
\* its replica, which loads the row when it starts again.
LEMMA AppliedStep ==
  ASSUME TypeOK, OneSave, OneSave', AppliedOrAbout, [Next]_vars
  PROVE  AppliedOrAbout'
  <1>0. /\ \A q \in Requests : request[q] # None => request[q] \in Saves
        /\ failures \in Nat
    BY BoundsAssumption DEF TypeOK
  <1>. USE DEF AppliedOrAbout
  <1>1. CASE UNCHANGED vars
    BY <1>1 DEF vars, Waits
  <1>2. ASSUME NEW q \in Requests, NEW r \in Replicas, NEW s \in Choices, ReadSettings(q, r, s)
        PROVE  AppliedOrAbout'
    <2>1. /\ request'[q] = [at |-> r, save |-> Kept(s), saved |-> FALSE] /\ request[q] = None
          /\ \A p \in Requests : p # q => request'[p] = request[p]
          /\ UNCHANGED <<settings, cur, up, failures, saver>>
      BY <1>2 DEF ReadSettings, TypeOK, aux
    <2>2. \A p \in Requests : Waits(p)' <=> Waits(p)
      BY <2>1 DEF Waits
    <2>3. \A p \in Requests : Waits(p) => request'[p] = request[p]
      BY <2>1 DEF Waits
    <2>. QED  BY <2>1, <2>2, <2>3
  <1>3. ASSUME NEW q \in Requests, WriteSettings(q) PROVE AppliedOrAbout'
    <2>1. request[q] \in Saves /\ request[q] # None
      BY <1>0, <1>3 DEF WriteSettings
    <2>2. request'[q] = [request[q] EXCEPT !.saved = TRUE]
      BY <1>3 DEF WriteSettings, TypeOK
    <2>3. request'[q].saved /\ request'[q].save = request[q].save /\ request'[q].at = request[q].at
      BY <2>1, <2>2 DEF Saves
    <2>4. request'[q] \in Saves
      BY <2>1, <2>2 DEF Saves
    <2>5. Waits(q)'
      BY <2>3, <2>4, NoneAssumption DEF Waits
    <2>6. \A p \in Requests : Waits(p)' => p = q
      BY <2>5 DEF OneSave
    <2>. QED  BY <1>3, <2>3, <2>5, <2>6 DEF WriteSettings, WriteRow
  <1>4. ASSUME NEW q \in Requests, SaveFails(q) PROVE AppliedOrAbout'
    BY <1>0, <1>4 DEF SaveFails, Fails
  <1>5. ASSUME NEW q \in Requests, Apply(q) PROVE AppliedOrAbout'
    <2>1. /\ request' = [request EXCEPT ![q] = None]
          /\ cur' = [cur EXCEPT ![request[q].at] = request[q].save]
          /\ Waits(q) /\ request[q] \in Saves
          /\ UNCHANGED <<settings, up, failures, saver>>
      BY <1>0, <1>5 DEF Apply, Configure, aux, Waits
    <2>2. request[q].at \in Replicas
      BY <2>1 DEF Saves
    <2>3. \A r \in up : saver = r /\ failures = 0 => cur'[r] = settings
      BY <2>1, <2>2 DEF TypeOK
    <2>4. \A p \in Requests : ~ Waits(p)'
      BY <2>1 DEF OneSave, Waits, TypeOK
    <2>. QED  BY <2>1, <2>3, <2>4
  <1>6. ASSUME NEW r \in Replicas, Start(r) PROVE AppliedOrAbout'
    <2>1. /\ up' = up \cup {r}
          /\ UNCHANGED <<settings, request, saver>>
          /\ failures' # 0 \/ (cur' = [cur EXCEPT ![r] = settings] /\ failures' = failures)
      BY <1>0, <1>6 DEF Start, Configure, Fails, aux
    <2>2. failures' = 0 => \A p \in up' : cur'[p] = settings \/ (p \in up /\ cur'[p] = cur[p])
      BY <2>1 DEF TypeOK
    <2>3. \A q \in Requests : Waits(q)' <=> Waits(q)
      BY <2>1 DEF Waits
    <2>. QED  BY <2>1, <2>2, <2>3
  <1>7. ASSUME NEW r \in Replicas, Stop(r) PROVE AppliedOrAbout'
    <2>1. /\ up' = up \ {r}
          /\ \A p \in up' : cur'[p] = cur[p]
          /\ UNCHANGED <<settings, failures, saver>>
      BY <1>7 DEF Stop, TypeOK, aux
    <2>2. \A q \in Requests :
            request'[q] = IF request[q] # None /\ request[q].at = r THEN None ELSE request[q]
      BY <1>7 DEF Stop
    <2>3. \A q \in Requests : Waits(q)' <=> Waits(q) /\ request[q].at # r
      BY <2>2 DEF Waits
    <2>4. \A q \in Requests : Waits(q)' => request'[q] = request[q]
      BY <2>2, <2>3 DEF Waits
    <2>5. ASSUME failures = 0, NEW p \in up', saver = p, cur[p] # settings
          PROVE  \E q \in Requests : Waits(q)'
      <3>1. PICK q \in Requests : Waits(q)
        BY <2>1, <2>5
      <3>2. request[q].at # r
        BY <2>1, <2>5, <3>1
      <3>. QED  BY <2>3, <3>1, <3>2
    <2>. QED  BY <2>1, <2>3, <2>4, <2>5
  <1>8. ASSUME UNCHANGED <<settings, cur, up, request, failures, saver>> PROVE AppliedOrAbout'
    BY <1>8 DEF Waits
  <1>8a. ASSUME NEW r \in Replicas, Shutdown(r) PROVE AppliedOrAbout'
    BY <1>8, <1>8a DEF Shutdown, aux
  <1>9. ASSUME NEW b \in Bots, NEW a \in Senders, Send(b, a) PROVE AppliedOrAbout'
    BY <1>8, <1>9 DEF Send, aux
  <1>10. ASSUME NEW l \in Loops, Poll(l) \/ PollNothing(l) \/ Handle(l) \/ Return(l)
         PROVE  AppliedOrAbout'
    BY <1>8, <1>10 DEF Poll, PollNothing, Handle, Return, aux, telegram
  <1>. QED  BY <1>1, <1>2, <1>3, <1>4, <1>5, <1>6, <1>7, <1>8a, <1>9, <1>10 DEF Next

\* With saves that do not overlap between the row and the Manager, and no failed
\* statement, the replica that saved last works with the saved row, also after
\* it was started again (handleSetTelegram configures after the commit, run
\* before the first request).
THEOREM SavedApplied == Spec /\ []OneSave => []SavedIsApplied
  <1>1. Init => AppliedOrAbout
    BY DEF Init, AppliedOrAbout, Waits
  <1>2. TypeOK /\ OneSave /\ OneSave' /\ AppliedOrAbout /\ [Next]_vars => AppliedOrAbout'
    BY AppliedStep
  <1>3. AppliedOrAbout => SavedIsApplied
    BY DEF AppliedOrAbout, SavedIsApplied, Waits
  <1>. QED  BY <1>1, <1>2, <1>3, TypeCorrect, PTL DEF Spec

\* One handler at a time cannot overlap with another.
COROLLARY OneHandlerApplies ==
  ASSUME NEW CONSTANT q, Requests = {q}
  PROVE  Spec => []SavedIsApplied
  <1>1. OneSave
    BY DEF OneSave
  <1>. QED  BY <1>1, SavedApplied, PTL

-----------------------------------------------------------------------------
(* One replica.                                                            *)

\* Only a replica that runs has a configured Manager or handlers; before the
\* first save the row and every Manager say that the bot is off.
Hosted ==
  /\ \A q \in Requests : request[q] # None => request[q].at \in up
  /\ \A r \in Replicas \ up : cur[r] = None
  /\ saver = None =>
       /\ settings = Off
       /\ \A q \in Requests : ~ Waits(q)
       /\ \A r \in Replicas : cur[r] \in {None, Off}

\* Every step keeps it.
LEMMA HostedStep ==
  ASSUME TypeOK, Hosted, [Next]_vars
  PROVE  Hosted'
  <1>0. /\ \A q \in Requests : request[q] # None => request[q] \in Saves /\ request[q].at \in Replicas
        /\ None \notin Replicas
    BY NoneAssumption DEF TypeOK, Saves
  <1>. USE DEF Hosted
  <1>1. CASE UNCHANGED vars
    BY <1>1 DEF vars, Waits
  <1>2. ASSUME NEW q \in Requests, NEW r \in Replicas, NEW s \in Choices, ReadSettings(q, r, s)
        PROVE  Hosted'
    <2>1. /\ r \in up /\ request'[q] = [at |-> r, save |-> Kept(s), saved |-> FALSE]
          /\ \A p \in Requests : p # q => request'[p] = request[p]
          /\ UNCHANGED <<settings, cur, up, saver>>
      BY <1>2 DEF ReadSettings, TypeOK, aux
    <2>2. \A p \in Requests : Waits(p)' => Waits(p)
      BY <2>1 DEF Waits
    <2>. QED  BY <2>1, <2>2
  <1>3. ASSUME NEW q \in Requests, WriteSettings(q) \/ SaveFails(q), UNCHANGED <<cur, up>>
        PROVE  Hosted'
    <2>1. request[q] # None /\ request[q] \in Saves /\ request[q].at \in Replicas
      BY <1>0, <1>3 DEF WriteSettings, SaveFails
    <2>2. \A p \in Requests : request'[p] # None => request[p] # None /\ request'[p].at = request[p].at
      BY <1>3, <2>1 DEF WriteSettings, SaveFails, Saves, TypeOK
    <2>3. saver' # None \/ (SaveFails(q) /\ UNCHANGED <<settings, saver>>)
      BY <1>0, <1>3, <2>1 DEF WriteSettings, SaveFails, WriteRow
    <2>4. ASSUME SaveFails(q), NEW p \in Requests, Waits(p)' PROVE Waits(p)
      BY <2>4 DEF SaveFails, Waits, TypeOK
    <2>. QED  BY <1>3, <2>2, <2>3, <2>4
  <1>4. ASSUME NEW q \in Requests, Apply(q) PROVE Hosted'
    <2>1. /\ request' = [request EXCEPT ![q] = None]
          /\ cur' = [cur EXCEPT ![request[q].at] = request[q].save]
          /\ Waits(q) /\ request[q].at \in up
          /\ UNCHANGED <<settings, up, saver>>
      BY <1>4 DEF Apply, Configure, aux, Waits
    <2>2. saver # None
      BY <2>1
    <2>3. \A p \in Requests : request'[p] \in {request[p], None}
      BY <2>1 DEF TypeOK
    <2>4. \A r \in Replicas \ up : cur'[r] = cur[r]
      BY <2>1 DEF TypeOK
    <2>. QED  BY <2>1, <2>2, <2>3, <2>4
  <1>5. ASSUME NEW r \in Replicas, Start(r) PROVE Hosted'
    <2>1. /\ up' = up \cup {r}
          /\ UNCHANGED <<settings, request, saver>>
          /\ cur' = [cur EXCEPT ![r] = settings] \/ cur' = cur
      BY <1>5 DEF Start, Configure, aux
    <2>2. /\ \A p \in Replicas \ up' : cur'[p] = cur[p]
          /\ \A p \in Replicas : cur'[p] \in {cur[p], settings}
      BY <2>1 DEF TypeOK
    <2>3. \A q \in Requests : Waits(q)' <=> Waits(q)
      BY <2>1 DEF Waits
    <2>. QED  BY <2>1, <2>2, <2>3
  <1>6. ASSUME NEW r \in Replicas, Stop(r) PROVE Hosted'
    <2>1. /\ up' = up \ {r}
          /\ \A p \in Replicas : cur'[p] = IF p = r THEN None ELSE cur[p]
          /\ UNCHANGED <<settings, saver>>
      BY <1>6 DEF Stop, TypeOK, aux
    <2>2. \A q \in Requests :
            request'[q] = IF request[q] # None /\ request[q].at = r THEN None ELSE request[q]
      BY <1>6 DEF Stop
    <2>3. \A q \in Requests : Waits(q)' => Waits(q)
      BY <2>2 DEF Waits
    <2>. QED  BY <2>1, <2>2, <2>3
  <1>6a. ASSUME NEW r \in Replicas, Shutdown(r) PROVE Hosted'
    BY <1>6a DEF Shutdown, aux, Waits
  <1>7. ASSUME NEW b \in Bots, NEW a \in Senders, Send(b, a) PROVE Hosted'
    BY <1>7 DEF Send, aux, Waits
  <1>8. ASSUME NEW l \in Loops, Poll(l) \/ PollNothing(l) \/ Handle(l) \/ Return(l)
        PROVE  Hosted'
    BY <1>8 DEF Poll, PollNothing, Handle, Return, aux, Waits
  <1>9. \A q \in Requests : WriteSettings(q) \/ SaveFails(q) => UNCHANGED <<cur, up>>
    BY DEF WriteSettings, SaveFails
  <1>. QED  BY <1>1, <1>2, <1>3, <1>4, <1>5, <1>6, <1>6a, <1>7, <1>8, <1>9 DEF Next

\* "The bot starts/stops live when you save settings" (README.md:226) is true
\* of a single replica whose saves do not overlap: that OffIsOff fails is a
\* matter of the other replicas, which a save never reaches.
THEOREM OneReplicaOff ==
  ASSUME NEW CONSTANT r, Replicas = {r}
  PROVE  Spec /\ []OneSave => []OffIsOff
  <1>1. Init => Hosted
    BY DEF Init, Hosted, Waits
  <1>2. ASSUME TypeOK, Single, Hosted, SavedIsApplied PROVE OffIsOff
    <2>. SUFFICES ASSUME failures = 0, ~ settings.enabled, \A q \in Requests : request[q] = None,
                         NEW l \in Loops, Live(l)
                  PROVE  FALSE
      BY DEF OffIsOff
    <2>1. loop[l].home = r
      BY <1>2 DEF TypeOK, Live, LoopType
    <2>2. l \in Running(r)
      BY <2>1 DEF Running, LoopsOf, Live
    <2>3. cur[r] # None /\ cur[r].enabled
      BY <1>2, <2>2 DEF Single, NoneOrOne, Expected, Wanted
    <2>4. r \in up
      BY <1>2, <2>3 DEF Hosted
    <2>5. saver = r
      BY <1>2, <2>3 DEF Hosted, Off, TypeOK
    <2>. QED  BY <1>2, <2>3, <2>4, <2>5 DEF SavedIsApplied
  <1>3. TypeOK /\ Hosted /\ [Next]_vars => Hosted'
    BY HostedStep
  <1>4. IInv => TypeOK /\ Single
    BY DEF IInv
  <1>. QED  BY <1>1, <1>2, <1>3, <1>4, Invariance, SavedApplied, PTL DEF Spec

=============================================================================
