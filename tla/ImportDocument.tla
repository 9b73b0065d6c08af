--------------------------- MODULE ImportDocument ---------------------------
(***************************************************************************)
(* POST /api/import: an administrator uploads a document, and the handler  *)
(* works through it with one commit per service it has to create and one   *)
(* per variable.  It stops at the first error; what was committed stays,   *)
(* and the administrator imports the document again.  Meanwhile others     *)
(* create and delete services and edit variables.                          *)
(*                                                                         *)
(* Every variable of the document has a new value, "imported".  Publishing *)
(* is part of ConfigStream.                                                *)
(***************************************************************************)
EXTENDS AuditLog, Sequences

CONSTANTS
  Imports,   \* administrators with the document
  Services,  \* ids, never used again
  Keys,      \* keys of services
  Vars,
  Document,  \* keys in the order of the document
  Content,   \* variables that the document has for a key
  Gone

ASSUME DocumentAssumption ==
  /\ Document \in Seq(Keys) /\ Document # << >>
  /\ Content \in [Keys -> SUBSET Vars]

ASSUME GoneAssumption == None \notin Keys /\ Gone \notin Keys \cup {None}

VARIABLES
  service,  \* key of a service, None before it is created, Gone after
  value,    \* where the value of a variable is from, None without a row
  imp,      \* None, or the import a handler is at
  ok,       \* the document was imported and the answer was 200
  touched   \* auxiliary: what others changed since the import began

tables == <<service, value>>
vars == <<log, failures, tables, imp, ok, touched>>

Init ==
  /\ LogInit
  /\ service = [s \in Services |-> None]
  /\ value = [x \in Services \X Vars |-> None]
  /\ imp = [p \in Imports |-> None]
  /\ ok = [p \in Imports |-> FALSE]
  /\ touched = [p \in Imports |-> {}]

-----------------------------------------------------------------------------
(* handleImport.                                                           *)

At(p, stage) == imp[p] # None /\ imp[p].stage = stage

Key(p) == Document[imp[p].pos]

Start(p) ==
  /\ imp[p] = None /\ ~ ok[p]
  /\ imp' = [imp EXCEPT ![p] = [stage |-> "lookup", pos |-> 1, service |-> None,
                                todo |-> {}, entry |-> 0]]
  /\ touched' = [touched EXCEPT ![p] = {}]
  /\ UNCHANGED <<log, failures, tables, ok>>

\* On to the variables of the service.
Into(p, s) ==
  imp' = [imp EXCEPT ![p].stage = "vars", ![p].service = s, ![p].todo = Content[Key(p)]]

\* Takes every service for a missing one.
LookUpNothing(p) ==
  /\ At(p, "lookup")
  /\ imp' = [imp EXCEPT ![p].stage = "create"]
  /\ UNCHANGED <<log, failures, tables, ok, touched>>

\* GetServiceByKey
LookUp(p) ==
  /\ At(p, "lookup")
  /\ \/ \E s \in Services : service[s] = Key(p) /\ Into(p, s)
     \/ /\ \A s \in Services : service[s] # Key(p)
        /\ imp' = [imp EXCEPT ![p].stage = "create"]
  /\ UNCHANGED <<log, failures, tables, ok, touched>>

\* The table without its unique key.
InsertServiceTwice(k, s) ==
  /\ service[s] = None
  /\ service' = [service EXCEPT ![s] = k]

InsertService(k, s) ==
  /\ \A t \in Services : service[t] # k
  /\ service[s] = None
  /\ service' = [service EXCEPT ![s] = k]

Create(p) ==
  /\ At(p, "create")
  /\ \E s \in Services : InsertService(Key(p), s) /\ Into(p, s)
  /\ UNCHANGED <<log, failures, value, ok, touched>>

\* In any order: the variables are a Go map.
Upsert(p) ==
  /\ At(p, "vars")
  /\ service[imp[p].service] \in Keys
  /\ \E v \in imp[p].todo :
       /\ value' = [value EXCEPT ![<<imp[p].service, v>>] = "imported"]
       /\ imp' = [imp EXCEPT ![p].todo = @ \ {v}]
  /\ UNCHANGED <<log, failures, service, ok, touched>>

Advance(p) ==
  /\ At(p, "vars") /\ imp[p].todo = {}
  /\ imp' = IF imp[p].pos < Len(Document)
            THEN [imp EXCEPT ![p].stage = "lookup", ![p].pos = @ + 1]
            ELSE [imp EXCEPT ![p].stage = "record"]
  /\ UNCHANGED <<log, failures, tables, ok, touched>>

Stop(p) == imp' = [imp EXCEPT ![p] = None]

\* The key was taken after the lookup, or the service is gone.
Refused(p) ==
  /\ \/ At(p, "create") /\ \E s \in Services : service[s] = Key(p)
     \/ /\ At(p, "vars") /\ imp[p].todo # {}
        /\ service[imp[p].service] = Gone
  /\ Stop(p)
  /\ UNCHANGED <<log, failures, tables, ok, touched>>

\* Goes on with the next variable after an error.
CutOffContinues(p) ==
  /\ At(p, "vars")
  /\ Fails
  /\ \E v \in imp[p].todo : imp' = [imp EXCEPT ![p].todo = @ \ {v}]
  /\ UNCHANGED <<log, tables, ok, touched>>

\* A statement fails, the client is gone, or the process ends.
CutOff(p) ==
  /\ imp[p] # None
  /\ Fails
  /\ Stop(p)
  /\ UNCHANGED <<log, tables, ok, touched>>

Record(p) ==
  /\ At(p, "record")
  /\ Draw
  /\ imp' = [imp EXCEPT ![p].stage = "answer", ![p].entry = drawn + 1]
  /\ UNCHANGED <<tables, ok, touched>>

\* Whether the entry was written or not.
Answer(p) ==
  /\ At(p, "answer") /\ imp[p].entry \notin inserting
  /\ Stop(p)
  /\ ok' = [ok EXCEPT ![p] = TRUE]
  /\ UNCHANGED <<log, failures, tables, touched>>

ImportStep(p) ==
  \/ Start(p) \/ LookUp(p) \/ Create(p) \/ Upsert(p) \/ Advance(p) \/ Refused(p)
  \/ Record(p) \/ Answer(p)

-----------------------------------------------------------------------------
(* Others.                                                                 *)

Touch(k, V) == touched' = [p \in Imports |-> touched[p] \cup ({k} \X V)]

CreateService(k, s) ==
  /\ InsertService(k, s)
  /\ UNCHANGED <<log, failures, value, imp, ok, touched>>

\* The bound leaves an id for every key.
DeleteService(s) ==
  /\ service[s] \in Keys
  /\ Cardinality({t \in Services : service[t] # Gone}) > Cardinality(Keys)
  /\ service' = [service EXCEPT ![s] = Gone]
  /\ value' = [x \in Services \X Vars |-> IF x[1] = s THEN None ELSE value[x]]
  /\ Touch(service[s], Vars)
  /\ UNCHANGED <<log, failures, imp, ok>>

EditVariable(s, v) ==
  /\ service[s] \in Keys
  /\ \E x \in {"edited", None} : value' = [value EXCEPT ![<<s, v>>] = x]
  /\ Touch(service[s], {v})
  /\ UNCHANGED <<log, failures, service, imp, ok>>

OtherStep ==
  \/ \E k \in Keys, s \in Services : CreateService(k, s)
  \/ \E s \in Services : DeleteService(s)
  \/ \E s \in Services, v \in Vars : EditVariable(s, v)

-----------------------------------------------------------------------------

Next ==
  \/ \E p \in Imports : ImportStep(p) \/ CutOff(p)
  \/ OtherStep
  \/ LogStep /\ UNCHANGED <<tables, imp, ok, touched>>

\* A handler runs to its end, and a failed import is tried again.
Fairness == LogFairness /\ \A p \in Imports : WF_vars(ImportStep(p))

Spec == Init /\ [][Next]_vars /\ Fairness

ImportType ==
  [stage : {"lookup", "create", "vars", "record", "answer"}, pos : 1 .. Len(Document),
   service : Services \cup {None}, todo : SUBSET Vars, entry : Nat]

\* Type invariant; no two services have the same key.
TypeOK ==
  /\ LogTypeOK
  /\ service \in [Services -> Keys \cup {None, Gone}]
  /\ \A s, t \in Services : service[s] = service[t] /\ service[s] \in Keys => s = t
  /\ value \in [Services \X Vars -> {"imported", "edited", None}]
  /\ imp \in [Imports -> ImportType \cup {None}]
  /\ ok \in [Imports -> BOOLEAN]
  /\ touched \in [Imports -> SUBSET (Keys \X Vars)]

\* An import that comes to its audit entry and its answer has left every
\* variable of its document in the service that has the key now, except what
\* others changed or deleted meanwhile: errors, lost races for a key and
\* deleted services never make it skip a part.
AppliedWhole ==
  \A p \in Imports : At(p, "record") \/ At(p, "answer") =>
    \A n \in 1 .. Len(Document) : \A v \in Content[Document[n]] :
      \/ <<Document[n], v>> \in touched[p]
      \/ \E s \in Services : service[s] = Document[n] /\ value[<<s, v>>] = "imported"

\* What a failed import has committed is no obstacle: if it is tried again it
\* comes to its end, whoever creates the services of the document meanwhile.
RetrySucceeds == \A p \in Imports : <>ok[p]

=============================================================================
