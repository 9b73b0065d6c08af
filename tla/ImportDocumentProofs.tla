------------------------ MODULE ImportDocumentProofs ------------------------
(***************************************************************************)
(* Proofs about ImportDocument and the AuditLog in it, for any document,   *)
(* services, replicas and number of entries to keep: type correctness,     *)
(* that pruning goes down to the newest entries and never below, that an   *)
(* import which comes to its answer has skipped nothing, and that one that *)
(* failed is no obstacle to the next.                                      *)
(***************************************************************************)
EXTENDS ImportDocument, FiniteSetTheorems, WellFoundedInduction, TLAPS

-----------------------------------------------------------------------------
(* The audit log.                                                          *)

Above(i) == {j \in logged : j > i}
Enough(i) == Cardinality(Above(i)) >= Keep

\* What was deleted, and what will be, has enough entries above it.
Spared ==
  /\ \A i \in pruned : Enough(i)
  /\ \A r \in Pruners : doomed[r] # None => \A i \in doomed[r] : Enough(i)

\* More entries above are more than enough.
LEMMA AboveGrows ==
  ASSUME NEW n \in Nat, NEW S \in SUBSET (1 .. n), NEW T \in SUBSET S
  PROVE  /\ IsFiniteSet(S) /\ IsFiniteSet(T)
         /\ Cardinality(T) \in Nat /\ Cardinality(S) \in Nat
         /\ Cardinality(T) <= Cardinality(S)
  <1>1. IsFiniteSet(1 .. n)  BY FS_Interval
  <1>2. IsFiniteSet(S)  BY <1>1, FS_Subset
  <1>3. QED  BY <1>2, FS_Subset, FS_CardinalityType

\* A set of entries has a newest one: the one with the smallest set above it.
LEMMA NewestExists ==
  ASSUME NEW n \in Nat, NEW T \in SUBSET (1 .. n), T # {}
  PROVE  \E m \in T : \A j \in T : j <= m
  <1> DEFINE Over(i) == {j \in T : j > i}
             M == {Over(i) : i \in T}
  <1>1. IsFiniteSet(T)  BY AboveGrows
  <1>2. IsWellFoundedOn(StrictSubsetOrdering(T), SUBSET T)
    BY <1>1, FS_StrictSubsetOrderingWellFounded, FS_FiniteSubsetsOfFinite
  <1>3. M \subseteq SUBSET T /\ M # {}  OBVIOUS
  <1> HIDE DEF M, Over
  <1>4. PICK x \in M : \A y \in M : ~ (<<y, x>> \in StrictSubsetOrdering(T))
    BY <1>2, <1>3, WFMin
  <1>5. PICK m \in T : x = Over(m)  BY <1>4 DEF M
  <1>6. ASSUME NEW j \in T, ~ (j <= m) PROVE FALSE
    <2>1. T \subseteq Nat /\ j > m  BY <1>6
    <2>2. Over(j) \subseteq Over(m)
      <3>1. \A k \in T : k > j => k > m
        <4>1. j \in Nat /\ m \in Nat  BY <2>1
        <4>2. ASSUME NEW k \in T, k > j PROVE k > m
          <5>1. k \in Nat  BY <2>1
          <5>2. QED  BY <2>1, <4>1, <4>2, <5>1
        <4>3. QED  BY <4>2
      <3>2. QED  BY <3>1 DEF Over
    <2>3. j \in Over(m) /\ j \notin Over(j)  BY <2>1 DEF Over
    <2>4. Over(j) \in M  BY DEF M
    <2>5. <<Over(j), x>> \in StrictSubsetOrdering(T)
      BY <1>3, <1>5, <2>2, <2>3, <2>4 DEF StrictSubsetOrdering
    <2>6. QED  BY <1>4, <2>4, <2>5
  <1>7. QED  BY <1>6

\* Steps of the log keep its type.
LEMMA LogTypes ==
  ASSUME LogTypeOK,
         \/ LogStep
         \/ Draw
         \/ UNCHANGED log /\ (Fails \/ UNCHANGED failures)
  PROVE  LogTypeOK'
  <1> USE AuditBoundsAssumption DEF LogTypeOK, log, Fails
  <1>1. CASE Draw  BY <1>1 DEF Draw
  <1>2. CASE \E i \in inserting : Insert(i) \/ InsertFails(i)
    <2>1. PICK i \in inserting : Insert(i) \/ InsertFails(i)  BY <1>2
    <2>2. CASE Insert(i)
      <3>1. /\ inserting' \subseteq inserting /\ logged' = logged \cup {i} /\ i \notin inserting'
            /\ drawn' = drawn /\ pruned' = pruned /\ doomed' = doomed /\ failures' = failures
        BY <2>2 DEF Insert
      <3>2. QED  BY <3>1
    <2>3. CASE InsertFails(i)  BY <2>3 DEF InsertFails
    <2>4. QED  BY <2>1, <2>2, <2>3
  <1>3. ASSUME NEW r \in Pruners, PruneSelects(r) PROVE LogTypeOK'
    BY <1>3 DEF PruneSelects
  <1>4. ASSUME NEW r \in Pruners, PruneDeletes(r) PROVE LogTypeOK'
    <2>1. /\ logged' \subseteq logged /\ pruned' \subseteq pruned \cup logged
          /\ logged' \cup pruned' = logged \cup pruned /\ logged' \cap pruned' = {}
      BY <1>4 DEF PruneDeletes
    <2>2. doomed' = [doomed EXCEPT ![r] = None]  BY <1>4 DEF PruneDeletes
    <2>3. drawn' = drawn /\ inserting' = inserting /\ failures' = failures
      BY <1>4 DEF PruneDeletes
    <2>4. QED  BY <2>1, <2>2, <2>3
  <1>5. ASSUME NEW r \in Pruners, PruneFails(r) PROVE LogTypeOK'
    BY <1>5 DEF PruneFails
  <1>6. CASE UNCHANGED log /\ (Fails \/ UNCHANGED failures)  BY <1>6
  <1>7. QED  BY <1>1, <1>2, <1>3, <1>4, <1>5, <1>6 DEF LogStep

\* A pruner selects entries that have enough above them, and what it deletes
\* later takes none of the newest from those below: above the newest of what
\* is deleted nothing is.
LEMMA PruneStep ==
  ASSUME LogTypeOK, Spared, LogStep \/ Draw \/ UNCHANGED log
  PROVE  Spared'
  <1> USE AuditBoundsAssumption
  <1>1. drawn \in Nat /\ logged \in SUBSET (1 .. drawn) /\ logged \subseteq Nat
    BY DEF LogTypeOK
  <1>2. \A i : Above(i) \in SUBSET logged /\ Cardinality(Above(i)) \in Nat
    BY <1>1, AboveGrows DEF Above
  <1>3. CASE UNCHANGED <<logged, doomed, pruned>>
    BY <1>3 DEF Spared, Enough, Above
  <1>4. ASSUME NEW i \in inserting, Insert(i) PROVE Spared'
    <2>1. logged' = logged \cup {i} /\ UNCHANGED <<drawn, doomed, pruned>> /\ i \in 1 .. drawn
      BY <1>4 DEF Insert, LogTypeOK
    <2>2. ASSUME NEW k, Enough(k) PROVE Enough(k)'
      <3>1. Above(k) \subseteq Above(k)' /\ Above(k)' \in SUBSET (1 .. drawn)
        BY <1>1, <2>1 DEF Above
      <3>2. Cardinality(Above(k)) <= Cardinality(Above(k)') /\ Cardinality(Above(k)') \in Nat
        BY <1>1, <3>1, AboveGrows
      <3>3. QED  BY <1>2, <2>2, <3>2 DEF Enough
    <2>3. QED  BY <2>1, <2>2 DEF Spared
  <1>5. ASSUME NEW r \in Pruners, PruneSelects(r) PROVE Spared'
    <2> DEFINE old == {i \in logged : \A j \in Newest(logged) : i < j}
    <2>1. doomed' = [doomed EXCEPT ![r] = old] /\ UNCHANGED <<logged, pruned>>
      BY <1>5 DEF PruneSelects
    <2>2. \A i \in old : Enough(i)
      <3>1. \A i \in old : i \notin Newest(logged)  BY <1>1
      <3>2. QED  BY <1>2, <3>1 DEF Newest, Enough, Above
    <2> HIDE DEF old
    <2>3. QED  BY <2>1, <2>2 DEF Spared, Enough, Above
  <1>6. ASSUME NEW r \in Pruners, PruneDeletes(r) PROVE Spared'
    <2> DEFINE D == logged \cap doomed[r]
    <2>1. /\ doomed[r] # None /\ logged' = logged \ D /\ pruned' = pruned \cup D
          /\ doomed' = [doomed EXCEPT ![r] = None]
      BY <1>6 DEF PruneDeletes
    <2>2. \A i \in D : Enough(i)  BY <2>1 DEF Spared
    <2> HIDE DEF D
    <2>3. ASSUME NEW i \in Nat, Enough(i) PROVE Enough(i)'
      <3>1. CASE D \cap Above(i) = {}
        <4>1. Above(i)' = Above(i)  BY <2>1, <3>1 DEF Above
        <4>2. QED  BY <2>3, <4>1 DEF Enough
      <3>2. CASE D \cap Above(i) # {}
        <4>1. D \cap Above(i) \in SUBSET (1 .. drawn)  BY <1>1, <1>2
        <4>2. PICK m \in D \cap Above(i) : \A j \in D \cap Above(i) : j <= m
          BY <1>1, <3>2, <4>1, NewestExists
        <4>3. Above(m) \subseteq Above(i)'
          <5>1. m \in logged /\ m > i  BY <4>2 DEF Above
          <5>2. ASSUME NEW j \in Above(m) PROVE j \in Above(i)'
            <6>1. j \in logged /\ j > m /\ j \in Nat /\ m \in Nat  BY <1>1, <5>1 DEF Above
            <6>2. j > i  BY <5>1, <6>1
            <6>3. j \notin D  BY <4>2, <6>1, <6>2 DEF Above
            <6>4. QED  BY <2>1, <6>1, <6>2, <6>3 DEF Above
          <5>3. QED  BY <5>2
        <4>4. Above(i)' \in SUBSET (1 .. drawn)  BY <1>1, <2>1 DEF Above
        <4>5. Cardinality(Above(m)) <= Cardinality(Above(i)') /\ Cardinality(Above(i)') \in Nat
          BY <1>1, <4>3, <4>4, AboveGrows
        <4>6. QED  BY <1>2, <2>2, <4>2, <4>5 DEF Enough
      <3>3. QED  BY <3>1, <3>2
    <2>4. /\ pruned \cup D \subseteq Nat
          /\ \A q \in Pruners : doomed[q] # None => doomed[q] \subseteq Nat
      <3>1. 1 .. drawn \subseteq Nat  BY <1>1
      <3>2. QED  BY <1>1, <3>1 DEF LogTypeOK, D
    <2>5. \A i \in pruned' : Enough(i)'  BY <2>1, <2>2, <2>3, <2>4 DEF Spared
    <2>6. ASSUME NEW q \in Pruners, doomed'[q] # None, NEW i \in doomed'[q] PROVE Enough(i)'
      <3>1. doomed[q] # None /\ i \in doomed[q]  BY <2>1, <2>6 DEF LogTypeOK
      <3>2. QED  BY <2>3, <2>4, <3>1 DEF Spared
    <2>7. QED  BY <2>5, <2>6 DEF Spared
  <1>7. ASSUME NEW r \in Pruners, PruneFails(r) PROVE Spared'
    BY <1>7 DEF PruneFails, Spared, Enough, Above
  <1>8. CASE Draw \/ UNCHANGED log \/ \E i \in inserting : InsertFails(i)
    BY <1>3, <1>8 DEF Draw, InsertFails, log
  <1>9. QED  BY <1>4, <1>5, <1>6, <1>7, <1>8 DEF LogStep

-----------------------------------------------------------------------------
(* The import.                                                             *)

TablesType ==
  /\ service \in [Services -> Keys \cup {None, Gone}]
  /\ \A s, t \in Services : service[s] = service[t] /\ service[s] \in Keys => s = t
  /\ value \in [Services \X Vars -> {"imported", "edited", None}]

ImportsType ==
  /\ imp \in [Imports -> ImportType \cup {None}]
  /\ ok \in [Imports -> BOOLEAN]
  /\ touched \in [Imports -> SUBSET (Keys \X Vars)]

\* A variable of the document that is as the import has made it, unless
\* others came after it.
Handled(p, k, v) ==
  \/ <<k, v>> \in touched[p]
  \/ \E s \in Services : service[s] = k /\ value[<<s, v>>] = "imported"

\* The services that are behind an import are done, and so are the variables
\* of the one it is at that it has not to do any more; that service has its
\* key still, or all of its variables have been touched.
Progress ==
  \A p \in Imports : imp[p] # None =>
    /\ \A n \in 1 .. Len(Document) :
         n < imp[p].pos \/ imp[p].stage \in {"record", "answer"} =>
           \A v \in Content[Document[n]] : Handled(p, Document[n], v)
    /\ imp[p].stage = "vars" =>
         /\ imp[p].service \in Services
         /\ \/ service[imp[p].service] = Key(p)
            \/ service[imp[p].service] = Gone
         /\ \A v \in Content[Key(p)] \ imp[p].todo : Handled(p, Key(p), v)

\* A key of the document is a key, and what it holds are variables.
LEMMA DocumentKeys ==
  ASSUME NEW n \in 1 .. Len(Document)
  PROVE  Document[n] \in Keys /\ Content[Document[n]] \subseteq Vars
  BY DocumentAssumption

\* An insertion under a new key keeps the keys unique.
LEMMA InsertTypes ==
  ASSUME TablesType, NEW k \in Keys, NEW s \in Services, InsertService(k, s),
         value' = value
  PROVE  TablesType'
  BY GoneAssumption DEF TablesType, InsertService

\* An import goes into a service with the variables of the document.
LEMMA IntoTypes ==
  ASSUME ImportsType, NEW p \in Imports, NEW s \in Services, imp[p] # None, Into(p, s)
  PROVE  imp' \in [Imports -> ImportType \cup {None}]
  <1>1. imp[p] \in ImportType  BY DEF ImportsType
  <1>2. Content[Key(p)] \subseteq Vars  BY <1>1, DocumentKeys DEF ImportType, Key
  <1>3. [imp[p] EXCEPT !.stage = "vars", !.service = s, !.todo = Content[Key(p)]] \in ImportType
    BY <1>1, <1>2 DEF ImportType
  <1>4. QED  BY <1>3 DEF Into, ImportsType

\* Steps of an import keep the types.
LEMMA ImportTypes ==
  ASSUME TablesType, ImportsType, drawn \in Nat, NEW p \in Imports, ImportStep(p) \/ CutOff(p)
  PROVE  TablesType' /\ ImportsType'
  <1> USE DEF ImportsType, ImportType, At, Key, Stop, Into, tables
  <1>1. CASE Start(p)
    <2>1. 1 \in 1 .. Len(Document)  BY DocumentAssumption
    <2>2. QED  BY <1>1, <2>1 DEF Start, TablesType
  <1>2. CASE LookUp(p)
    <2>1. imp' \in [Imports -> ImportType \cup {None}]
      <3>1. CASE \E s \in Services : Into(p, s)
        <4> HIDE DEF Into, Key, ImportType
        <4>1. PICK s \in Services : Into(p, s)  BY <3>1
        <4>2. imp[p] # None  BY <1>2 DEF LookUp
        <4>3. QED  BY <4>1, <4>2, IntoTypes
      <3>2. CASE imp' = [imp EXCEPT ![p].stage = "create"]
        <4>1. imp[p] # None  BY <1>2 DEF LookUp
        <4>2. QED  BY <3>2, <4>1
      <3>3. QED  BY <1>2, <3>1, <3>2 DEF LookUp
    <2>2. QED  BY <1>2, <2>1 DEF LookUp, TablesType
  <1>3. CASE Create(p)
    <2>1. PICK s \in Services : InsertService(Key(p), s) /\ Into(p, s)  BY <1>3 DEF Create
    <2>2. Key(p) \in Keys  BY <1>3, DocumentKeys DEF Create
    <2> HIDE DEF Into, Key, ImportType
    <2>3. TablesType'  BY <1>3, <2>1, <2>2, InsertTypes DEF Create
    <2>4. imp[p] # None  BY <1>3 DEF Create
    <2>5. QED  BY <1>3, <2>1, <2>3, <2>4, IntoTypes DEF Create
  <1>4. CASE Upsert(p)
    <2>1. TablesType'  BY <1>4 DEF Upsert, TablesType
    <2>2. QED  BY <1>4, <2>1 DEF Upsert
  <1>5. CASE Advance(p)
    <2>1. imp[p].pos \in 1 .. Len(Document)  BY <1>5 DEF Advance
    <2>2. imp[p].pos < Len(Document) => imp[p].pos + 1 \in 1 .. Len(Document)
      BY <2>1, DocumentAssumption
    <2>3. QED  BY <1>5, <2>1, <2>2, SMTT(30) DEF Advance, TablesType
  <1>6. CASE Refused(p) \/ CutOff(p)  BY <1>6 DEF Refused, CutOff, TablesType
  <1>7. CASE Record(p)
    <2>1. [imp[p] EXCEPT !.stage = "answer", !.entry = drawn + 1] \in ImportType
      <3>1. imp[p] \in ImportType  BY <1>7 DEF Record
      <3>2. drawn + 1 \in Nat  OBVIOUS
      <3>3. QED  BY <3>1, <3>2
    <2>2. QED  BY <1>7, <2>1 DEF Record, TablesType
  <1>8. CASE Answer(p)  BY <1>8 DEF Answer, TablesType
  <1>9. QED  BY <1>1, <1>2, <1>3, <1>4, <1>5, <1>6, <1>7, <1>8 DEF ImportStep

\* Steps of others keep the types.
LEMMA OtherTypes ==
  ASSUME TablesType, ImportsType, OtherStep
  PROVE  TablesType' /\ ImportsType'
  <1> USE GoneAssumption DEF ImportsType, Touch
  <1>1. ASSUME NEW k \in Keys, NEW s \in Services, CreateService(k, s)
        PROVE  TablesType' /\ ImportsType'
    BY <1>1, InsertTypes DEF CreateService
  <1>2. ASSUME NEW s \in Services, DeleteService(s) PROVE TablesType' /\ ImportsType'
    BY <1>2 DEF DeleteService, TablesType
  <1>3. ASSUME NEW s \in Services, NEW v \in Vars, EditVariable(s, v)
        PROVE  TablesType' /\ ImportsType'
    BY <1>3 DEF EditVariable, TablesType
  <1>4. QED  BY <1>1, <1>2, <1>3 DEF OtherStep

\* What is handled is only undone by others, who touch it.
LEMMA HandledStays ==
  ASSUME TablesType, ImportsType, NEW p \in Imports, imp[p] # None,
         NEW k \in Keys, NEW v \in Vars, Handled(p, k, v),
         (\E q \in Imports : ImportStep(q) \/ CutOff(q)) \/ OtherStep \/ UNCHANGED <<tables, touched>>
  PROVE  Handled(p, k, v)'
  <1> USE DEF Handled, tables
  <1>1. CASE UNCHANGED <<tables, touched>>  BY <1>1
  <1>2. ASSUME NEW q \in Imports, Create(q) PROVE Handled(p, k, v)'
    BY <1>2, GoneAssumption DEF Create, InsertService, TablesType
  <1>3. ASSUME NEW q \in Imports, Upsert(q) PROVE Handled(p, k, v)'
    BY <1>3 DEF Upsert, TablesType
  <1>4. ASSUME NEW q \in Imports, Start(q) PROVE Handled(p, k, v)'
    BY <1>4 DEF Start, ImportsType
  <1>5. ASSUME NEW q \in Imports,
               \/ LookUp(q) \/ Advance(q) \/ Refused(q) \/ CutOff(q) \/ Record(q) \/ Answer(q)
        PROVE  Handled(p, k, v)'
    BY <1>5 DEF LookUp, Advance, Refused, CutOff, Record, Answer
  <1>6. ASSUME NEW l \in Keys, NEW s \in Services, CreateService(l, s)
        PROVE  Handled(p, k, v)'
    BY <1>6, GoneAssumption DEF CreateService, InsertService, TablesType
  <1>7. ASSUME NEW s \in Services, DeleteService(s) PROVE Handled(p, k, v)'
    <2>1. /\ service' = [service EXCEPT ![s] = Gone]
          /\ value' = [x \in Services \X Vars |-> IF x[1] = s THEN None ELSE value[x]]
          /\ touched' = [q \in Imports |-> touched[q] \cup ({service[s]} \X Vars)]
      BY <1>7 DEF DeleteService, Touch
    <2>2. CASE service[s] = k  BY <2>1, <2>2
    <2>3. CASE service[s] # k  BY <2>1, <2>3 DEF TablesType
    <2>4. QED  BY <2>2, <2>3
  <1>8. ASSUME NEW s \in Services, NEW w \in Vars, EditVariable(s, w)
        PROVE  Handled(p, k, v)'
    <2>1. /\ service' = service
          /\ \E x \in {"edited", None} : value' = [value EXCEPT ![<<s, w>>] = x]
          /\ touched' = [q \in Imports |-> touched[q] \cup ({service[s]} \X {w})]
      BY <1>8 DEF EditVariable, Touch
    <2>2. CASE service[s] = k /\ w = v  BY <2>1, <2>2
    <2>3. CASE ~ (service[s] = k /\ w = v)  BY <2>1, <2>3 DEF TablesType
    <2>4. QED  BY <2>2, <2>3
  <1>9. QED  BY <1>1, <1>2, <1>3, <1>4, <1>5, <1>6, <1>7, <1>8 DEF ImportStep, OtherStep

\* A service that is in use keeps its key until it is deleted.
LEMMA KeyStays ==
  ASSUME TablesType, NEW s \in Services, NEW k \in Keys, service[s] \in {k, Gone},
         (\E q \in Imports : ImportStep(q) \/ CutOff(q)) \/ OtherStep \/ UNCHANGED tables
  PROVE  service'[s] \in {k, Gone}
  <1> USE GoneAssumption DEF tables, TablesType
  <1>1. ASSUME NEW q \in Imports, Create(q) PROVE service'[s] \in {k, Gone}
    BY <1>1 DEF Create, InsertService
  <1>2. ASSUME NEW l \in Keys, NEW t \in Services, CreateService(l, t)
        PROVE  service'[s] \in {k, Gone}
    BY <1>2 DEF CreateService, InsertService
  <1>3. ASSUME NEW t \in Services, DeleteService(t) PROVE service'[s] \in {k, Gone}
    BY <1>3 DEF DeleteService
  <1>4. CASE UNCHANGED service  BY <1>4
  <1>5. QED
    BY <1>1, <1>2, <1>3, <1>4 DEF ImportStep, OtherStep, Start, LookUp, Upsert, Advance,
       Refused, CutOff, Record, Answer, EditVariable

\* An import goes on only when it is done with what it leaves behind.
LEMMA ProgressStep ==
  ASSUME TablesType, ImportsType, Progress,
         (\E q \in Imports : ImportStep(q) \/ CutOff(q)) \/ OtherStep
           \/ UNCHANGED <<tables, imp, touched>>
  PROVE  Progress'
  <1> SUFFICES ASSUME NEW p \in Imports, imp'[p] # None
        PROVE  /\ \A n \in 1 .. Len(Document) :
                    n < imp'[p].pos \/ imp'[p].stage \in {"record", "answer"} =>
                      \A v \in Content[Document[n]] : Handled(p, Document[n], v)'
               /\ imp'[p].stage = "vars" =>
                    /\ imp'[p].service \in Services
                    /\ service'[imp'[p].service] \in {Key(p)', Gone}
                    /\ \A v \in Content[Key(p)'] \ imp'[p].todo : Handled(p, Key(p), v)'
    BY DEF Progress, Handled
  <1> USE DocumentAssumption, GoneAssumption
  <1>1. /\ imp[p] # None => imp[p] \in ImportType
        /\ Len(Document) \in Nat
        /\ \A n \in 1 .. Len(Document) : Document[n] \in Keys /\ Content[Document[n]] \subseteq Vars
    BY DocumentKeys DEF ImportsType
  <1>2. ASSUME imp[p] # None
        PROVE  /\ \A n \in 1 .. Len(Document) : \A v \in Content[Document[n]] :
                    Handled(p, Document[n], v) => Handled(p, Document[n], v)'
               /\ imp[p].pos \in 1 .. Len(Document)
               /\ \A s \in Services : service[s] \in {Key(p), Gone} => service'[s] \in {Key(p), Gone}
    <2>1. imp[p].pos \in 1 .. Len(Document)  BY <1>1, <1>2 DEF ImportType
    <2>2. Key(p) \in Keys  BY <1>1, <2>1 DEF Key
    <2>3. \A s \in Services : service[s] \in {Key(p), Gone} => service'[s] \in {Key(p), Gone}
      BY <2>2, KeyStays
    <2>4. ASSUME NEW n \in 1 .. Len(Document), NEW v \in Content[Document[n]],
                 Handled(p, Document[n], v)
          PROVE  Handled(p, Document[n], v)'
      BY <1>1, <1>2, <2>4, HandledStays
    <2>5. QED  BY <2>1, <2>3, <2>4
  <1>3. CASE imp[p] # None /\ imp'[p] = imp[p]
    <2>1. Key(p)' = Key(p)  BY <1>3 DEF Key
    <2>2. QED  BY <1>2, <1>3, <2>1 DEF Progress, Key
  <1>4. CASE Start(p)
    <2>1. imp'[p].pos = 1 /\ imp'[p].stage = "lookup"  BY <1>4 DEF Start, ImportsType
    <2>2. QED  BY <2>1
  <1>5. CASE LookUp(p) \/ Create(p)
    <2>1. imp[p] # None /\ imp[p].stage \in {"lookup", "create"}
      BY <1>5 DEF LookUp, Create, At
    <2>2. \/ imp' = [imp EXCEPT ![p].stage = "create"]
          \/ \E s \in Services : Into(p, s) /\ service'[s] = Key(p)
      BY <1>5 DEF LookUp, Create, InsertService, TablesType, tables
    <2>3. CASE imp' = [imp EXCEPT ![p].stage = "create"]
      <3>1. imp'[p].pos = imp[p].pos /\ imp'[p].stage = "create"
        BY <1>1, <2>1, <2>3 DEF ImportsType, ImportType
      <3>2. QED  BY <1>2, <2>1, <3>1 DEF Progress
    <2>4. ASSUME NEW s \in Services, Into(p, s), service'[s] = Key(p)
          PROVE  /\ imp'[p].pos = imp[p].pos /\ imp'[p].stage = "vars"
                 /\ imp'[p].service = s /\ imp'[p].todo = Content[Key(p)]
      BY <1>1, <2>1, <2>4 DEF Into, ImportsType, ImportType
    <2>5. CASE \E s \in Services : Into(p, s) /\ service'[s] = Key(p)
      <3>1. Key(p)' = Key(p)  BY <2>4, <2>5 DEF Key
      <3>2. QED  BY <1>2, <2>1, <2>4, <2>5, <3>1 DEF Progress
    <2>6. QED  BY <2>2, <2>3, <2>5
  <1>6. CASE Upsert(p)
    <2>1. /\ imp[p] # None /\ imp[p].stage = "vars" /\ service[imp[p].service] \in Keys
      BY <1>6 DEF Upsert, At
    <2>2. PICK w \in imp[p].todo :
            /\ value' = [value EXCEPT ![<<imp[p].service, w>>] = "imported"]
            /\ imp' = [imp EXCEPT ![p].todo = @ \ {w}]
      BY <1>6 DEF Upsert
    <2>3. /\ imp'[p].pos = imp[p].pos /\ imp'[p].stage = "vars"
          /\ imp'[p].service = imp[p].service /\ imp'[p].todo = imp[p].todo \ {w}
      BY <1>1, <2>1, <2>2 DEF ImportsType, ImportType
    <2>4. Key(p)' = Key(p)  BY <2>3 DEF Key
    <2>5. imp[p].service \in Services /\ service[imp[p].service] = Key(p)
      BY <2>1 DEF Progress
    <2>6. Handled(p, Key(p), w)'
      <3>1. w \in Vars  BY <1>1, <2>1 DEF ImportType
      <3>2. value'[<<imp[p].service, w>>] = "imported"  BY <2>2, <2>5, <3>1 DEF TablesType
      <3>3. service' = service  BY <1>6 DEF Upsert
      <3>4. QED  BY <2>4, <2>5, <3>2, <3>3 DEF Handled
    <2>7. QED  BY <1>2, <2>1, <2>3, <2>4, <2>5, <2>6 DEF Progress, Key
  <1>7. CASE Advance(p)
    <2>1. imp[p] # None /\ imp[p].stage = "vars" /\ imp[p].todo = {}
      BY <1>7 DEF Advance, At
    <2>2. \/ /\ imp'[p].stage = "lookup" /\ imp'[p].pos = imp[p].pos + 1
          \/ /\ imp'[p].stage = "record" /\ imp[p].pos = Len(Document)
      BY <1>1, <1>2, <1>7, <2>1 DEF Advance, ImportsType, ImportType
    <2>3. \A n \in 1 .. Len(Document) : n <= imp[p].pos =>
            \A v \in Content[Document[n]] : Handled(p, Document[n], v)
      BY <1>2, <2>1 DEF Progress, Key
    <2>4. QED  BY <1>2, <2>1, <2>2, <2>3
  <1>8. CASE Record(p)
    <2>1. /\ imp[p] # None /\ imp[p].stage = "record"
          /\ imp'[p].stage = "answer" /\ imp'[p].pos = imp[p].pos
      BY <1>1, <1>8 DEF Record, At, ImportsType, ImportType
    <2>2. QED  BY <1>2, <2>1 DEF Progress
  <1>9. CASE Refused(p) \/ CutOff(p) \/ Answer(p)
    BY <1>9 DEF Refused, CutOff, Answer, Stop, ImportsType
  <1>10. CASE OtherStep \/ UNCHANGED imp
    BY <1>3, <1>10 DEF OtherStep, CreateService, DeleteService, EditVariable
  <1>11. ASSUME NEW q \in Imports \ {p}, ImportStep(q) \/ CutOff(q) PROVE imp'[p] = imp[p]
    BY <1>11 DEF ImportStep, Start, LookUp, Create, Into, Upsert, Advance, Refused, CutOff,
                 Record, Answer, Stop, ImportsType
  <1>12. QED
    BY <1>3, <1>4, <1>5, <1>6, <1>7, <1>8, <1>9, <1>10, <1>11 DEF ImportStep

-----------------------------------------------------------------------------
(* The theorems.                                                           *)

IInv ==
  /\ LogTypeOK
  /\ Spared
  /\ TablesType
  /\ ImportsType
  /\ Progress

\* Initially there are no entries, no services, and no import is under way.
LEMMA InitIInv == Init => IInv
  BY AuditBoundsAssumption, GoneAssumption
  DEF Init, LogInit, IInv, LogTypeOK, Spared, TablesType, ImportsType, Progress

\* Every step keeps the invariant.
LEMMA IInvStep == IInv /\ [Next]_vars => IInv'
  <1> SUFFICES ASSUME IInv, [Next]_vars PROVE IInv'
    OBVIOUS
  <1> USE DEF IInv
  <1>1. CASE UNCHANGED vars
    <2>1. UNCHANGED <<log, failures, tables, imp, ok, touched>>  BY <1>1 DEF vars
    <2>2. LogTypeOK' /\ Spared'  BY <2>1, LogTypes, PruneStep
    <2>3. TablesType' /\ ImportsType'  BY <2>1 DEF TablesType, ImportsType, tables
    <2>4. Progress'  BY <2>1, ProgressStep
    <2>5. QED  BY <2>2, <2>3, <2>4
  <1>2. ASSUME NEW p \in Imports, ImportStep(p) \/ CutOff(p) PROVE IInv'
    <2>1. Draw \/ (UNCHANGED log /\ (Fails \/ UNCHANGED failures))
      BY <1>2 DEF ImportStep, Start, LookUp, Create, Upsert, Advance, Refused, CutOff,
                  Record, Answer
    <2>2. LogTypeOK' /\ Spared'  BY <2>1, LogTypes, PruneStep
    <2>3. drawn \in Nat  BY DEF LogTypeOK
    <2>4. TablesType' /\ ImportsType'  BY <1>2, <2>3, ImportTypes
    <2>5. Progress'  BY <1>2, ProgressStep
    <2>6. QED  BY <2>2, <2>4, <2>5
  <1>3. CASE OtherStep
    <2>1. UNCHANGED <<log, failures>>
      BY <1>3 DEF OtherStep, CreateService, DeleteService, EditVariable
    <2>2. LogTypeOK' /\ Spared'  BY <2>1, LogTypes, PruneStep
    <2>3. TablesType' /\ ImportsType'  BY <1>3, OtherTypes
    <2>4. Progress'  BY <1>3, ProgressStep
    <2>5. QED  BY <2>2, <2>3, <2>4
  <1>4. CASE LogStep /\ UNCHANGED <<tables, imp, ok, touched>>
    <2>1. LogTypeOK' /\ Spared'  BY <1>4, LogTypes, PruneStep
    <2>2. TablesType' /\ ImportsType'  BY <1>4 DEF TablesType, ImportsType, tables
    <2>3. Progress'  BY <1>4, ProgressStep
    <2>4. QED  BY <2>1, <2>2, <2>3
  <1>5. QED  BY <1>1, <1>2, <1>3, <1>4 DEF Next

\* The invariant that the theorems below are read from: every entry that is
\* deleted or doomed has enough above it, and what is behind an import is done.
THEOREM Invariance == Spec => []IInv
  BY InitIInv, IInvStep, PTL DEF Spec

\* The tables, imports and entries keep their types, and no two services share
\* a key.
THEOREM TypeCorrect == Spec => []TypeOK
  <1>1. IInv => TypeOK  BY DEF IInv, TypeOK, TablesType, ImportsType
  <1>2. QED  BY <1>1, Invariance, PTL

\* Pruners of any number of replicas, however they overlap, never delete an
\* entry that is among the newest.
THEOREM NewestKept == Spec => []KeepsNewest
  <1>1. IInv => KeepsNewest  BY DEF IInv, Spared, Enough, Above, KeepsNewest
  <1>2. QED  BY <1>1, Invariance, PTL

\* An import that comes to its audit entry has applied its whole document,
\* except what others changed meanwhile.
THEOREM NothingSkipped == Spec => []AppliedWhole
  <1>1. IInv => AppliedWhole  BY DEF IInv, Progress, Handled, AppliedWhole, At
  <1>2. QED  BY <1>1, Invariance, PTL

-----------------------------------------------------------------------------
(* What a pruner leaves.                                                   *)

\* What the DELETE of a pruner would select.
Old(S) == {i \in S : \A j \in Newest(S) : i < j}

\* A set of entries has an oldest one: the newest of its mirror image.
LEMMA OldestExists ==
  ASSUME NEW n \in Nat, NEW T \in SUBSET (1 .. n), T # {}
  PROVE  \E m \in T : \A j \in T : m <= j
  <1> DEFINE U == {n + 1 - i : i \in T}
  <1>a. \A i \in T : n + 1 - i \in 1 .. n  OBVIOUS
  <1>1. U \in SUBSET (1 .. n) /\ U # {}  BY <1>a
  <1> HIDE DEF U
  <1>2. PICK u \in U : \A w \in U : w <= u  BY <1>1, NewestExists
  <1>3. PICK m \in T : u = n + 1 - m  BY DEF U
  <1>4. ASSUME NEW j \in T PROVE m <= j
    <2>1. n + 1 - j <= n + 1 - m  BY <1>2, <1>3 DEF U
    <2>2. j \in Nat /\ m \in Nat  OBVIOUS
    <2>3. QED  BY <2>1, <2>2
  <1>5. QED  BY <1>4

\* Entries divide into the newest, no more than are to be kept, and the old;
\* where there are old ones, there are as many newest ones as are to be kept.
LEMMA NewestOrOld ==
  ASSUME NEW n \in Nat, NEW S \in SUBSET (1 .. n)
  PROVE  /\ S \ Old(S) = Newest(S)
         /\ Cardinality(Newest(S)) \in Nat /\ Cardinality(Newest(S)) <= Keep
         /\ Old(S) # {} => Cardinality(Newest(S)) = Keep
         /\ Old(S) = {} => Cardinality(S) <= Keep
         /\ Old(S) # {} => Cardinality(S) > Keep
  <1> DEFINE Over(i) == {j \in S : j > i}
  <1>0. Keep \in Nat \ {0}  BY AuditBoundsAssumption
  <1>a. S \subseteq Nat  OBVIOUS
  <1>b. \A i \in S : i \in Newest(S) <=> Cardinality(Over(i)) < Keep  BY Zenon DEF Newest
  <1>c. Newest(S) \in SUBSET S /\ Old(S) \in SUBSET S  BY Zenon DEF Newest, Old
  <1>1. /\ Newest(S) \in SUBSET S /\ Newest(S) \in SUBSET (1 .. n)
        /\ Old(S) \in SUBSET (1 .. n)
        /\ S \subseteq Nat
        /\ \A i \in S : i \in Newest(S) <=> Cardinality(Over(i)) < Keep
    <2> HIDE DEF Over
    <2>1. QED  BY <1>a, <1>b, <1>c
  <1>2. ASSUME NEW i \in S
        PROVE  /\ Over(i) \in SUBSET S /\ Over(i) \in SUBSET (1 .. n)
               /\ Cardinality(Over(i)) \in Nat
    <2>1. Over(i) \in SUBSET S  OBVIOUS
    <2> HIDE DEF Over
    <2>2. PICK T \in SUBSET S : T = Over(i)  BY <2>1
    <2>3. Cardinality(T) \in Nat  BY AboveGrows
    <2>4. T \in SUBSET (1 .. n)  OBVIOUS
    <2>5. QED  BY <2>1, <2>2, <2>3, <2>4
  <1>3. ASSUME NEW i \in S, NEW j \in S, i >= j PROVE Over(i) \subseteq Over(j)
    <2>1. \A k \in S : k > i => k > j
      <3>1. i \in Nat /\ j \in Nat  BY <1>a
      <3>2. ASSUME NEW k \in S, k > i PROVE k > j
        <4>1. k \in Nat  BY <1>a
        <4>2. QED  BY <1>3, <3>1, <3>2, <4>1
      <3>3. QED  BY <3>2
    <2>2. QED  BY <2>1
  <1> HIDE DEF Over
  <1>4. ASSUME NEW i \in S, i \notin Newest(S), NEW j \in Newest(S) PROVE i < j
    <2> SUFFICES ASSUME i >= j PROVE FALSE  BY <1>1
    <2>1. Over(i) \in SUBSET Over(j)  BY <1>1, <1>3
    <2>2. Cardinality(Over(i)) <= Cardinality(Over(j))
      BY <1>1, <1>2, <2>1, AboveGrows
    <2>3. Cardinality(Over(j)) < Keep /\ ~ (Cardinality(Over(i)) < Keep)
      BY <1>1, <1>4
    <2>4. QED  BY <1>0, <1>1, <1>2, <2>2, <2>3
  <1>5. Old(S) = S \ Newest(S)
    <2>1. ASSUME NEW i \in Newest(S) PROVE i \notin Old(S)
      BY <1>1 DEF Old
    <2>2. QED  BY <1>4, <2>1 DEF Old
  <1>6. IsFiniteSet(Newest(S)) /\ Cardinality(Newest(S)) \in Nat
    BY <1>1, AboveGrows
  <1>7. Cardinality(Newest(S)) <= Keep
    <2>1. CASE Newest(S) = {}  BY <1>0, <2>1, FS_EmptySet
    <2>2. CASE Newest(S) # {}
      <3>1. PICK m \in Newest(S) : \A j \in Newest(S) : m <= j
        BY <1>1, <2>2, OldestExists
      <3>2. Newest(S) \ {m} \in SUBSET Over(m)
        <4>1. ASSUME NEW j \in Newest(S) \ {m} PROVE j > m
          BY <1>1, <3>1
        <4>2. QED  BY <1>1, <4>1 DEF Over
      <3>3. Cardinality(Newest(S) \ {m}) = Cardinality(Newest(S)) - 1
        BY <1>6, FS_RemoveElement
      <3>4. Cardinality(Newest(S) \ {m}) <= Cardinality(Over(m))
        BY <1>1, <1>2, <3>2, AboveGrows
      <3>5. Cardinality(Over(m)) < Keep /\ Cardinality(Over(m)) \in Nat
        BY <1>1, <1>2
      <3>6. QED  BY <1>0, <1>6, <3>3, <3>4, <3>5
    <2>3. QED  BY <2>1, <2>2
  <1>8. ASSUME Old(S) # {} PROVE Cardinality(Newest(S)) = Keep /\ Cardinality(S) > Keep
    <2>1. PICK m \in Old(S) : \A j \in Old(S) : j <= m
      BY <1>1, <1>8, NewestExists
    <2>2. m \in S /\ m \notin Newest(S)  BY <1>5
    <2>3. Over(m) \in SUBSET Newest(S)
      <3>1. ASSUME NEW j \in S, j > m PROVE j \notin Old(S)  BY <1>1, <2>1, <2>2, <3>1
      <3>2. QED  BY <1>5, <3>1 DEF Over
    <2>4. Cardinality(Over(m)) <= Cardinality(Newest(S))
      BY <1>1, <2>3, AboveGrows
    <2>5. ~ (Cardinality(Over(m)) < Keep) /\ Cardinality(Over(m)) \in Nat
      BY <1>1, <1>2, <2>2
    <2>6. Cardinality(Newest(S)) = Keep  BY <1>0, <1>6, <1>7, <2>4, <2>5
    <2>7. Newest(S) \in SUBSET (S \ {m}) /\ S \ {m} \in SUBSET (1 .. n) /\ IsFiniteSet(S)
      BY <1>1, <2>2, AboveGrows
    <2>8. Cardinality(Newest(S)) <= Cardinality(S \ {m})
      BY <2>7, AboveGrows
    <2>9. Cardinality(S \ {m}) = Cardinality(S) - 1 /\ Cardinality(S) \in Nat
      BY <2>2, <2>7, FS_RemoveElement, FS_CardinalityType
    <2>10. QED  BY <1>0, <2>6, <2>8, <2>9
  <1>9. ASSUME Old(S) = {} PROVE Cardinality(S) <= Keep
    <2>1. S = Newest(S)  BY <1>1, <1>5, <1>9
    <2>2. QED  BY <1>7, <2>1
  <1>10. QED  BY <1>1, <1>5, <1>6, <1>7, <1>8, <1>9

\* What the DELETE of a pruner selects leaves exactly as many entries as are to
\* be kept, of those that had committed.
LeavesKeep ==
  [][\A r \in Pruners : doomed[r] = None /\ doomed'[r] # None =>
       /\ doomed'[r] \subseteq logged
       /\ Cardinality(logged \ doomed'[r]) = Keep]_vars

\* A pruner has something to select whenever there are too many entries.
Due == Cardinality(logged) > Keep <=> \E i \in logged : \A j \in Newest(logged) : i < j

\* "pruned hourly to the newest N rows" (README.md:247): to N of them, neither
\* more nor fewer (PruneAudit, ORDER BY id DESC LIMIT).
THEOREM PrunedToKeep == Spec => LeavesKeep
  <1> DEFINE Leaves == \A r \in Pruners : doomed[r] = None /\ doomed'[r] # None =>
         /\ doomed'[r] \subseteq logged
         /\ Cardinality(logged \ doomed'[r]) = Keep
  <1>1. ASSUME LogTypeOK, [Next]_vars PROVE Leaves
    <2> SUFFICES ASSUME NEW r \in Pruners, doomed[r] = None, doomed'[r] # None
                 PROVE  doomed'[r] \subseteq logged /\ Cardinality(logged \ doomed'[r]) = Keep
      OBVIOUS
    <2>1. UNCHANGED doomed \/ LogStep
      BY <1>1 DEF Next, ImportStep, Start, LookUp, Create, Upsert, Advance, Refused, CutOff,
                  Record, Answer, Draw, OtherStep, CreateService, DeleteService, EditVariable,
                  log, vars
    <2>2. PICK q \in Pruners : PruneSelects(q) \/ PruneDeletes(q) \/ PruneFails(q)
      BY <2>1 DEF LogStep, Draw, Insert, InsertFails
    <2>3. \A t \in Pruners : t # q => doomed'[t] = doomed[t]
      BY <1>1, <2>2 DEF PruneSelects, PruneDeletes, PruneFails, LogTypeOK
    <2>4. q = r  BY <2>3
    <2>5. Old(logged) # {} /\ doomed' = [doomed EXCEPT ![r] = Old(logged)]
      BY <2>2, <2>4 DEF PruneSelects, PruneDeletes, PruneFails, Old
    <2>6. doomed'[r] = Old(logged)  BY <1>1, <2>5 DEF LogTypeOK
    <2>7. logged \ Old(logged) = Newest(logged) /\ Cardinality(Newest(logged)) = Keep
      BY <1>1, <2>5, NewestOrOld DEF LogTypeOK
    <2>8. QED  BY <2>6, <2>7 DEF Old
  <1>2. LogTypeOK /\ [Next]_vars => [Leaves]_vars  BY <1>1
  <1>3. IInv => LogTypeOK  BY DEF IInv
  <1>4. QED  BY <1>2, <1>3, Invariance, PTL DEF Spec, LeavesKeep

\* "so it can't grow without bound" (cmd/server/main.go:179), the part of
\* Trimmed that is not about time: as long as there are more entries than are to
\* be kept, the next prune deletes some, and only then.
THEOREM PrunedWhenDue == Spec => []Due
  <1>1. ASSUME LogTypeOK PROVE Due
    <2>1. /\ Old(logged) = {} => Cardinality(logged) <= Keep
          /\ Old(logged) # {} => Cardinality(logged) > Keep
      BY <1>1, NewestOrOld DEF LogTypeOK
    <2>2. Cardinality(logged) \in Nat /\ Keep \in Nat
      BY <1>1, AboveGrows, AuditBoundsAssumption DEF LogTypeOK
    <2>3. Cardinality(logged) > Keep <=> Old(logged) # {}  BY <2>1, <2>2
    <2>4. QED  BY <2>3 DEF Due, Old
  <1>2. IInv => LogTypeOK  BY DEF IInv
  <1>3. QED  BY <1>1, <1>2, Invariance, PTL

-----------------------------------------------------------------------------
(* A failed import is no obstacle.                                         *)

\* An import under way is about to create a service that is not there, or at
\* the variables of one that is.
Clear ==
  \A q \in Imports : imp[q] # None =>
    /\ imp[q].stage = "create" => \A s \in Services : service[s] # Key(q)
    /\ imp[q].stage = "vars" => imp[q].service \in Services /\ service[imp[q].service] = Key(q)

\* The steps of an only import keep it as long as others leave the services
\* alone.
LEMMA ClearStep ==
  ASSUME NEW p, Imports = {p}, TablesType, ImportsType, Clear, [Next]_vars, [~ OtherStep]_vars
  PROVE  Clear'
  <1>. SUFFICES ASSUME imp'[p] # None
       PROVE  /\ imp'[p].stage = "create" => \A s \in Services : service'[s] # Key(p)'
              /\ imp'[p].stage = "vars" =>
                   imp'[p].service \in Services /\ service'[imp'[p].service] = Key(p)'
    BY DEF Clear
  <1>1. imp[p] # None => imp[p] \in ImportType  BY DEF ImportsType
  <1>2. CASE UNCHANGED <<service, imp>>  BY <1>2 DEF Clear, Key
  <1>3. CASE Start(p)
    <2>1. imp'[p].stage = "lookup"  BY <1>3 DEF Start, ImportsType
    <2>. QED  BY <2>1
  <1>4. CASE LookUp(p) \/ Create(p)
    <2>1. imp[p] # None /\ imp[p].stage \in {"lookup", "create"}
      BY <1>4 DEF LookUp, Create, At
    <2>2. \/ \E s \in Services : Into(p, s) /\ service'[s] = Key(p)
          \/ /\ \A s \in Services : service'[s] # Key(p)
             /\ imp' = [imp EXCEPT ![p].stage = "create"]
      BY <1>4 DEF LookUp, Create, InsertService, TablesType, tables
    <2>3. CASE imp' = [imp EXCEPT ![p].stage = "create"] /\ \A s \in Services : service'[s] # Key(p)
      <3>1. imp'[p].pos = imp[p].pos /\ imp'[p].stage = "create"
        BY <1>1, <2>1, <2>3 DEF ImportsType, ImportType
      <3>. QED  BY <2>3, <3>1 DEF Key
    <2>4. ASSUME NEW s \in Services, Into(p, s), service'[s] = Key(p)
          PROVE  /\ imp'[p].pos = imp[p].pos /\ imp'[p].stage = "vars"
                 /\ imp'[p].service = s
      BY <1>1, <2>1, <2>4 DEF Into, ImportsType, ImportType
    <2>5. CASE \E s \in Services : Into(p, s) /\ service'[s] = Key(p)
      BY <2>4, <2>5 DEF Key
    <2>. QED  BY <2>2, <2>3, <2>5
  <1>5. CASE Upsert(p)
    <2>1. imp[p] # None /\ imp[p].stage = "vars" /\ service' = service
      BY <1>5 DEF Upsert, At
    <2>2. /\ imp'[p].pos = imp[p].pos /\ imp'[p].stage = "vars"
          /\ imp'[p].service = imp[p].service
      BY <1>1, <1>5, <2>1 DEF Upsert, ImportsType, ImportType
    <2>. QED  BY <2>1, <2>2 DEF Clear, Key
  <1>6. CASE Advance(p) \/ Record(p)
    <2>1. imp[p] # None  BY <1>6 DEF Advance, Record, At
    <2>2. imp'[p].stage \in {"lookup", "record", "answer"}
      BY <1>1, <1>6, <2>1 DEF Advance, Record, ImportsType, ImportType
    <2>. QED  BY <2>2
  <1>7. CASE Refused(p) \/ CutOff(p) \/ Answer(p)
    BY <1>7 DEF Refused, CutOff, Answer, Stop, ImportsType
  <1>8. UNCHANGED vars \/ ~ OtherStep
    OBVIOUS
  <1>9. LogStep /\ UNCHANGED <<tables, imp, ok, touched>> => UNCHANGED <<service, imp>>
    BY DEF tables
  <1>10. UNCHANGED vars => UNCHANGED <<service, imp>>
    BY DEF vars, tables
  <1>. QED
    BY <1>2, <1>3, <1>4, <1>5, <1>6, <1>7, <1>8, <1>9, <1>10 DEF Next, ImportStep

\* What an import that was cut off has committed never stands in the way of the
\* next one, wherever and however often it was cut off: as long as nobody else
\* imports, creates, deletes or edits, no import is refused (handleImport stops
\* at a service or a variable that it cannot write).  This is the part of
\* RetrySucceeds that is not about time.
THEOREM RetryNotRefused ==
  ASSUME NEW CONSTANT p, Imports = {p}
  PROVE  Spec /\ [][~ OtherStep]_vars => [][~ Refused(p)]_vars
  <1>1. Init => Clear
    BY DEF Init, Clear
  <1>2. ASSUME TablesType, ImportsType, Clear PROVE ~ Refused(p)
    <2>. SUFFICES ASSUME Refused(p) PROVE FALSE  OBVIOUS
    <2>1. imp[p] # None /\ imp[p] \in ImportType
      BY <1>2 DEF Refused, At, ImportsType
    <2>2. Key(p) \in Keys
      BY <2>1, DocumentKeys DEF ImportType, Key
    <2>. QED  BY <1>2, <2>2, GoneAssumption DEF Refused, At, Clear
  <1>3. TablesType /\ ImportsType /\ Clear /\ [Next]_vars /\ [~ OtherStep]_vars => Clear'
    BY ClearStep
  <1>4. TablesType /\ ImportsType /\ Clear => [~ Refused(p)]_vars
    BY <1>2
  <1>5. IInv => TablesType /\ ImportsType
    BY DEF IInv
  <1>. QED  BY <1>1, <1>3, <1>4, <1>5, Invariance, PTL DEF Spec

=============================================================================
