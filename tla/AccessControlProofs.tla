------------------------ MODULE AccessControlProofs ------------------------
(***************************************************************************)
(* Proofs about AccessControl, for any users, services, tokens, identities *)
(* and requests: type correctness; that nothing is carried out for a user  *)
(* who was never entitled to it, and nothing refused to one who always     *)
(* was; that grants are for users and services that exist; and that the    *)
(* log has one entry for the creation or deletion of a service.            *)
(***************************************************************************)
EXTENDS AccessControl, TLAPS

\* Between its lookup and its audit entry a request holds what it found.
Found ==
  \A p \in Requests :
    /\ At(p, "found") /\ Asks(p, "grant") =>
         req[p].found \in Users /\ role[req[p].found] # None
    /\ At(p, "found") /\ Asks(p, "delete") => req[p].found \in Services
    /\ At(p, "done") /\ (Asks(p, "create") \/ Asks(p, "delete")) =>
         req[p].found \in Services

\* An administrator's role in the hands of a request is one that its user had.
LoadedHeld ==
  \A p \in Requests : At(p, "loaded") /\ req[p].role = "admin" => held[p]

\* Who was steadily entitled is so now, and the role that was read is current.
Steady ==
  \A p \in Requests : req[p] # None /\ steady[p] =>
    /\ Entitled(p)
    /\ req[p].stage \in {"begun", "loaded"}
    /\ At(p, "loaded") => req[p].role = role[req[p].user]

\* A request that p has carried out, and that is yet to be recorded.
Done(p, act, s) == At(p, "done") /\ Asks(p, act) /\ req[p].found = s
Recorded(act, s) == \E e \in log : e.act = act /\ e.service = s

\* The service exists, or existed; of the requests that did one thing to it
\* none is recorded while another is pending.
Pending ==
  \A p \in Requests, act \in {"create", "delete"}, s \in Services : Done(p, act, s) =>
    /\ service[s] # None
    /\ act = "delete" => service[s] = Gone
    /\ ~ Recorded(act, s)
    /\ \A q \in Requests \ {p} : ~ Done(q, act, s)

-----------------------------------------------------------------------------
(* Types.                                                                  *)

\* The fields of a call are those that its handler reads.
LEMMA CallFields ==
  ASSUME NEW c \in Calls
  PROVE  /\ c.act = "role" => c.user \in Users /\ c.role \in Roles
         /\ c.act = "grant" => c.email \in Emails /\ c.service \in Services /\ c.level \in Levels
         /\ c.act = "revoke" => c.user \in Users /\ c.service \in Services
         /\ c.act = "create" => c.key \in Keys
         /\ c.act \in {"delete", "view", "star", "edit", "unstar"} => c.service \in Services
         /\ c.act = "dropToken" => c.token \in Tokens
  BY DEF Calls, ManageCalls, ServiceCalls, OwnCalls

RowsType ==
  /\ email \in [Users -> Emails \cup {None}]
  /\ role \in [Users -> Roles \cup {None}]
  /\ session \in [Users -> Roles \cup {None}]
  /\ \A u \in Users : email[u] # None \/ session[u] # None => role[u] # None
  /\ token \in [Tokens -> Users \cup {None, Gone}]
  /\ service \in [Services -> Keys \cup {None, Gone}]
  /\ perm \in [Users \X Services -> Levels \cup {None}]
  /\ star \subseteq Users \X Services
  /\ log \subseteq [by : Users, act : {"create", "delete"}, service : Services]

ReqType == req \in [Requests -> RequestType \cup {None}]

\* A request stays a request when its handler reads its role ...
LEMMA UpdateRole ==
  ASSUME NEW p \in Requests, NEW stage \in Stages, NEW r \in Roles \cup {None},
         ReqType, req[p] # None
  PROVE  [req EXCEPT ![p].stage = stage, ![p].role = r]
            \in [Requests -> RequestType \cup {None}]
  <1>1. [req[p] EXCEPT !.stage = stage, !.role = r] \in RequestType
    BY DEF ReqType, RequestType
  <1>2. QED  BY <1>1 DEF ReqType

\* ... and when it has found a user or a service.
LEMMA UpdateFound ==
  ASSUME NEW p \in Requests, NEW stage \in Stages,
         NEW f \in Users \cup Services \cup {None}, ReqType, req[p] # None
  PROVE  [req EXCEPT ![p].stage = stage, ![p].found = f]
            \in [Requests -> RequestType \cup {None}]
  <1>1. [req[p] EXCEPT !.stage = stage, !.found = f] \in RequestType
    BY DEF ReqType, RequestType
  <1>2. QED  BY <1>1 DEF ReqType

\* The auxiliary variables are Booleans.
LEMMA WatchType ==
  ASSUME Watch
  PROVE  held' \in [Requests -> BOOLEAN] /\ steady' \in [Requests -> BOOLEAN]
  BY DEF Watch

\* Logins and logouts, of anybody.
LEMMA SessionTypes ==
  ASSUME RowsType, ReqType, NEW u \in Users,
         (\E e \in Emails : Login(u, e)) \/ Logout(u)
  PROVE  RowsType' /\ ReqType'
  <1> USE NoneAssumption DEF RowsType, ReqType, Roles
  <1>1. ASSUME NEW e \in Emails, Login(u, e) PROVE RowsType' /\ ReqType'
    BY <1>1 DEF Login, UpsertUserOnLogin, RoleAtLogin
  <1>2. CASE Logout(u)  BY <1>2 DEF Logout
  <1>3. QED  BY <1>1, <1>2

\* Steps of a request that change no row.
LEMMA RequestTypes ==
  ASSUME RowsType, ReqType, NEW p \in Requests,
         \/ \E a \in Asked : Begin(p, a[1], a[2])
         \/ Load(p) \/ Authorize(p) \/ End(p) \/ FindUser(p) \/ FindService(p)
  PROVE  RowsType' /\ ReqType'
  <1> USE NoneAssumption DEF RowsType, ReqType, RequestType, Stages, rows, At, Asks, To, Finish
  <1>1. ASSUME NEW a \in Asked, Begin(p, a[1], a[2]) PROVE RowsType' /\ ReqType'
    <2>1. a[1] \in Users /\ a[2] \in Calls  BY AskedAssumption
    <2>2. QED  BY <1>1, <2>1 DEF Begin
  <1>2. CASE Load(p)
    <2>1. role[req[p].user] \in Roles \cup {None}  BY <1>2 DEF Load
    <2>2. QED  BY <1>2, <2>1, UpdateRole DEF Load, RoleNow
  <1>3. CASE Authorize(p)  BY <1>3 DEF Authorize
  <1>4. CASE End(p)  BY <1>4 DEF End
  <1>5. CASE FindUser(p)
    <2>1. PICK u \in Users : req' = [req EXCEPT ![p].stage = "found", ![p].found = u]
      BY <1>5 DEF FindUser
    <2>2. req[p] # None  BY <1>5 DEF FindUser
    <2>3. ReqType'  BY <2>1, <2>2, UpdateFound
    <2>4. QED  BY <1>5, <2>3 DEF FindUser
  <1>6. CASE FindService(p)
    <2>1. req[p].call.service \in Services  BY <1>6, CallFields DEF FindService
    <2>2. ReqType'  BY <1>6, <2>1, UpdateFound, ZenonT(60) DEF FindService
    <2>3. QED  BY <1>6, <2>2 DEF FindService
  <1>7. QED  BY <1>1, <1>2, <1>3, <1>4, <1>5, <1>6

\* Steps that carry a request out.
LEMMA HandlerTypes ==
  ASSUME RowsType, ReqType, Found, NEW p \in Requests,
         \/ SetUserRole(p) \/ SetPermission(p) \/ RevokePermission(p)
         \/ CreateService(p) \/ DeleteService(p) \/ Record(p)
         \/ AddFavorite(p) \/ RemoveFavorite(p)
         \/ CreateAPIToken(p) \/ DeleteAPIToken(p)
  PROVE  RowsType' /\ ReqType'
  <1> USE NoneAssumption, CallFields
      DEF RowsType, ReqType, RequestType, Stages, Found, At, Asks, To, Finish, Live
  <1>1. CASE SetUserRole(p)
    <2>1. req[p].call.user \in Users /\ req[p].call.role \in Roles  BY <1>1 DEF SetUserRole
    <2>2. QED  BY <1>1, <2>1 DEF SetUserRole
  <1>2. CASE SetPermission(p)
    <2>1. /\ req[p].found \in Users
          /\ req[p].call.service \in Services /\ req[p].call.level \in Levels
      BY <1>2 DEF SetPermission
    <2>2. QED  BY <1>2, <2>1, SMTT(30) DEF SetPermission
  <1>3. CASE RevokePermission(p)
    <2>1. req[p].call.user \in Users /\ req[p].call.service \in Services
      BY <1>3 DEF RevokePermission
    <2>2. QED  BY <1>3, <2>1 DEF RevokePermission
  <1>4. CASE CreateService(p)
    <2>1. req[p].call.key \in Keys  BY <1>4 DEF CreateService
    <2>2. PICK s \in Services :
            /\ service' = [service EXCEPT ![s] = req[p].call.key]
            /\ req' = [req EXCEPT ![p].stage = "done", ![p].found = s]
      BY <1>4 DEF CreateService
    <2>3. ReqType'  BY <1>4, <2>2, UpdateFound DEF CreateService
    <2>4. QED  BY <1>4, <2>1, <2>2, <2>3 DEF CreateService
  <1>5. CASE DeleteService(p)  BY <1>5, SMTT(30) DEF DeleteService, Delete
  <1>6. CASE Record(p)
    <2>1. ReqType' /\ UNCHANGED <<email, role, session, token, service, perm, star>>
      BY <1>6 DEF Record
    <2>2. log' \subseteq [by : Users, act : {"create", "delete"}, service : Services]
      BY <1>6 DEF Record
    <2>3. QED  BY <2>1, <2>2
  <1>7. CASE AddFavorite(p)
    <2>1. <<req[p].user, req[p].call.service>> \in Users \X Services
      BY <1>7 DEF AddFavorite
    <2>2. QED  BY <1>7, <2>1 DEF AddFavorite
  <1>8. CASE RemoveFavorite(p)  BY <1>8 DEF RemoveFavorite
  <1>9. CASE CreateAPIToken(p)  BY <1>9 DEF CreateAPIToken
  <1>10. CASE DeleteAPIToken(p)
    <2>1. req[p].call.token \in Tokens  BY <1>10 DEF DeleteAPIToken
    <2>2. QED  BY <1>10, <2>1 DEF DeleteAPIToken
  <1>11. QED  BY <1>1, <1>2, <1>3, <1>4, <1>5, <1>6, <1>7, <1>8, <1>9, <1>10

IInv ==
  /\ TypeOK
  /\ Found
  /\ LoadedHeld
  /\ Steady
  /\ Covered
  /\ GrantsOfLiving
  /\ Pending
  /\ RecordedOnce

\* Every step keeps the types.
LEMMA TypeStep == ASSUME TypeOK, Found, [Next]_vars PROVE TypeOK'
  <1>1. TypeOK <=> /\ RowsType /\ ReqType
                   /\ held \in [Requests -> BOOLEAN] /\ steady \in [Requests -> BOOLEAN]
    BY DEF TypeOK, RowsType, ReqType
  <1>2. TypeOK' <=> /\ RowsType' /\ ReqType'
                    /\ held' \in [Requests -> BOOLEAN] /\ steady' \in [Requests -> BOOLEAN]
    BY DEF TypeOK, RowsType, ReqType
  <1>3. CASE UNCHANGED vars  BY <1>3 DEF TypeOK, vars, rows
  <1>4. CASE Next
    <2>1. Step /\ Watch  BY <1>4 DEF Next
    <2>2. ASSUME NEW u \in Users, (\E e \in Emails : Login(u, e)) \/ Logout(u)
          PROVE  RowsType' /\ ReqType'
      BY <1>1, <2>2, SessionTypes
    <2>3. ASSUME NEW p \in Requests,
                 \/ \E a \in Asked : Begin(p, a[1], a[2])
                 \/ Load(p) \/ Authorize(p) \/ End(p) \/ FindUser(p) \/ FindService(p)
          PROVE  RowsType' /\ ReqType'
      BY <1>1, <2>3, RequestTypes
    <2>4. ASSUME NEW p \in Requests,
                 \/ SetUserRole(p) \/ SetPermission(p) \/ RevokePermission(p)
                 \/ CreateService(p) \/ DeleteService(p) \/ Record(p)
                 \/ AddFavorite(p) \/ RemoveFavorite(p)
                 \/ CreateAPIToken(p) \/ DeleteAPIToken(p)
          PROVE  RowsType' /\ ReqType'
      BY <1>1, <2>4, HandlerTypes
    <2>5. RowsType' /\ ReqType'  BY <2>1, <2>2, <2>3, <2>4 DEF Step
    <2>6. QED  BY <1>2, <2>1, <2>5, WatchType
  <1>5. QED  BY <1>3, <1>4

-----------------------------------------------------------------------------
(* How a step moves a request.                                             *)

\* A request that one step neither leaves alone nor ends is new, or it loads
\* its user's role, is authorized, or is carried out.
LEMMA Moves ==
  ASSUME ReqType, Step, NEW q \in Requests
  PROVE  \/ req'[q] = req[q]
         \/ req'[q] = None
         \/ req[q] = None /\ req'[q].stage = "begun"
         \/ Load(q)
         \/ Authorize(q)
         \/ /\ req[q] # None /\ req[q].stage \in {"allowed", "found"}
            /\ req'[q].stage \in {"found", "done"}
            /\ req'[q].user = req[q].user /\ req'[q].call = req[q].call
  <1> USE DEF ReqType, RequestType, At, Asks, To, Finish
  <1>1. ASSUME NEW u \in Users, (\E e \in Emails : Login(u, e)) \/ Logout(u)
        PROVE  req'[q] = req[q]
    BY <1>1 DEF Login, Logout
  <1>2. ASSUME NEW p \in Requests, NEW a \in Asked, Begin(p, a[1], a[2])
        PROVE  req'[q] = req[q] \/ (req[q] = None /\ req'[q].stage = "begun")
    BY <1>2 DEF Begin
  <1>3. ASSUME NEW p \in Requests, Load(p) \/ Authorize(p)
        PROVE  req'[q] = req[q] \/ Load(q) \/ Authorize(q)
    <2>1. CASE p = q  BY <1>3, <2>1
    <2>2. CASE p # q  BY <1>3, <2>2 DEF Load, Authorize
    <2>3. QED  BY <2>1, <2>2
  <1>4. ASSUME NEW p \in Requests,
               \/ End(p) \/ Record(p) \/ AddFavorite(p) \/ RemoveFavorite(p)
               \/ CreateAPIToken(p) \/ DeleteAPIToken(p)
        PROVE  req'[q] = req[q] \/ req'[q] = None
    BY <1>4 DEF End, Record, AddFavorite, RemoveFavorite, CreateAPIToken, DeleteAPIToken
  <1>5. ASSUME NEW p \in Requests,
               \/ SetUserRole(p) \/ FindUser(p) \/ SetPermission(p)
               \/ RevokePermission(p) \/ CreateService(p) \/ FindService(p)
               \/ DeleteService(p)
        PROVE  \/ req'[q] = req[q]
               \/ /\ req[q] # None /\ req[q].stage \in {"allowed", "found"}
                  /\ req'[q].stage \in {"found", "done"}
                  /\ req'[q].user = req[q].user /\ req'[q].call = req[q].call
    <2>1. CASE SetUserRole(p)  BY <2>1 DEF SetUserRole
    <2>2. CASE FindUser(p)  BY <2>2 DEF FindUser
    <2>3. CASE SetPermission(p)  BY <2>3 DEF SetPermission
    <2>4. CASE RevokePermission(p)  BY <2>4 DEF RevokePermission
    <2>5. CASE CreateService(p)  BY <2>5 DEF CreateService
    <2>6. CASE FindService(p)  BY <2>6 DEF FindService
    <2>7. CASE DeleteService(p)  BY <2>7 DEF DeleteService
    <2>8. QED  BY <1>5, <2>1, <2>2, <2>3, <2>4, <2>5, <2>6, <2>7
  <1>6. QED  BY <1>1, <1>2, <1>3, <1>4, <1>5 DEF Step

\* A request that has come to a lookup or an act has made it in this step, or
\* was left alone by it.
LEMMA Carried ==
  ASSUME ReqType, Step, NEW q \in Requests, req'[q] # None
  PROVE  \/ req'[q] = req[q]
         \/ req'[q].stage \notin {"found", "done"}
         \/ FindUser(q) \/ FindService(q) \/ CreateService(q) \/ DeleteService(q)
         \/ SetUserRole(q) \/ SetPermission(q) \/ RevokePermission(q)
  <1>1. CASE \E p \in Requests :
               \/ SetUserRole(p) \/ FindUser(p) \/ SetPermission(p)
               \/ RevokePermission(p) \/ CreateService(p) \/ FindService(p)
               \/ DeleteService(p)
    <2>1. PICK p \in Requests :
               \/ SetUserRole(p) \/ FindUser(p) \/ SetPermission(p)
               \/ RevokePermission(p) \/ CreateService(p) \/ FindService(p)
               \/ DeleteService(p)
      BY <1>1
    <2>2. CASE p = q  BY <2>1, <2>2
    <2>3. CASE p # q
      BY <2>1, <2>3 DEF SetUserRole, FindUser, SetPermission, RevokePermission,
         CreateService, FindService, DeleteService, To, ReqType
    <2>4. QED  BY <2>2, <2>3
  <1>2. CASE \E p \in Requests : \E a \in Asked : Begin(p, a[1], a[2])
    BY <1>2 DEF Begin, ReqType
  <1>3. CASE \E p \in Requests : Load(p) \/ Authorize(p)
    BY <1>3 DEF Load, Authorize, At, ReqType, RequestType
  <1>4. CASE \E p \in Requests :
               \/ End(p) \/ Record(p) \/ AddFavorite(p) \/ RemoveFavorite(p)
               \/ CreateAPIToken(p) \/ DeleteAPIToken(p)
    BY <1>4 DEF End, Record, AddFavorite, RemoveFavorite, CreateAPIToken, DeleteAPIToken,
                Finish, ReqType
  <1>5. CASE \E u \in Users : (\E e \in Emails : Login(u, e)) \/ Logout(u)
    BY <1>5 DEF Login, Logout
  <1>6. QED  BY <1>1, <1>2, <1>3, <1>4, <1>5 DEF Step

-----------------------------------------------------------------------------
(* Entitlement.                                                            *)

\* What a request is allowed to do its user was entitled to: as an
\* administrator when the role was read, or by the permission that is read.
LEMMA HeldStep ==
  ASSUME ReqType, LoadedHeld, Covered, Next
  PROVE  LoadedHeld' /\ Covered'
  <1> SUFFICES ASSUME NEW q \in Requests, req'[q] # None
               PROVE  /\ req'[q].stage = "loaded" /\ req'[q].role = "admin" => held'[q]
                      /\ req'[q].stage \in {"allowed", "found", "done"} => held'[q]
    BY DEF LoadedHeld, Covered, At
  <1>1. Step /\ Watch  BY DEF Next
  <1>2. req[q] # None /\ held[q] => held'[q]  BY <1>1 DEF Watch
  <1>3. Entitled(q)' => held'[q]  BY <1>1 DEF Watch
  <1>4. CASE req'[q] = req[q]  BY <1>2, <1>4 DEF LoadedHeld, Covered, At
  <1>5. CASE req[q] = None /\ req'[q].stage = "begun"  BY <1>5
  <1>6. CASE Load(q)
    <2>1. req'[q].stage = "loaded" /\ req'[q].role = role'[req'[q].user]
      BY <1>6 DEF Load, RoleNow, At, ReqType, RequestType, rows
    <2>2. QED  BY <1>3, <2>1 DEF Entitled
  <1>7. CASE Authorize(q)
    <2>1. /\ req[q].stage = "loaded"
          /\ req'[q].stage = IF Permitted(req[q]) THEN "allowed" ELSE "refused"
          /\ req'[q].user = req[q].user /\ req'[q].call = req[q].call
          /\ UNCHANGED <<role, perm>>
      BY <1>7 DEF Authorize, At, ReqType, RequestType, rows
    <2>2. CASE req[q].role = "admin"
      BY <1>2, <1>7, <2>1, <2>2 DEF LoadedHeld, At, Authorize
    <2>3. CASE req[q].role # "admin" /\ Permitted(req[q])
      <3>1. \/ req[q].call \in OwnCalls
            \/ /\ req[q].call \in ServiceCalls
               /\ perm[<<req[q].user, req[q].call.service>>]
                    \in IF req[q].call.act = "edit" THEN {"editor"} ELSE Levels
        BY <2>3 DEF Permitted, Decide, EffectiveLevel, Levels
      <3>2. QED  BY <1>3, <2>1, <3>1 DEF Entitled
    <2>4. QED  BY <2>1, <2>2, <2>3
  <1>8. CASE /\ req[q] # None /\ req[q].stage \in {"allowed", "found"}
             /\ req'[q].stage \in {"found", "done"}
    BY <1>2, <1>8 DEF Covered
  <1>9. QED  BY <1>1, <1>4, <1>5, <1>6, <1>7, <1>8, Moves

\* Who is entitled by the role that was read and by the present permission is
\* not refused.
LEMMA EntitledPermitted ==
  ASSUME NEW q \in Requests, Entitled(q), req[q].call \in Calls,
         req[q].role = role[req[q].user]
  PROVE  Permitted(req[q])
  BY DEF Entitled, Permitted, Calls, Decide, EffectiveLevel, Levels

\* Steady entitlement is lost by a step that takes it away, not by a refusal.
LEMMA SteadyStep ==
  ASSUME ReqType, Steady, Next
  PROVE  Steady'
  <1> SUFFICES ASSUME NEW q \in Requests, req'[q] # None, steady'[q]
               PROVE  /\ req'[q].stage \in {"begun", "loaded"}
                      /\ req'[q].stage = "loaded" => req'[q].role = role'[req'[q].user]
    BY DEF Steady, Next, Watch, At
  <1>1. Step /\ Watch  BY DEF Next
  <1>2. /\ req'[q].stage \in {"begun", "loaded", "refused"}
        /\ req[q] # None => steady[q] /\ role'[req[q].user] = role[req[q].user]
    BY <1>1 DEF Watch
  <1>3. req[q] # None =>
          /\ Entitled(q) /\ req[q].stage \in {"begun", "loaded"}
          /\ req[q].stage = "loaded" => req[q].role = role[req[q].user]
    BY <1>2 DEF Steady, At
  <1>4. CASE req'[q] = req[q]  BY <1>2, <1>3, <1>4
  <1>5. CASE req[q] = None /\ req'[q].stage = "begun"  BY <1>5
  <1>6. CASE Load(q)
    BY <1>6 DEF Load, RoleNow, At, ReqType, RequestType, rows
  <1>7. CASE Authorize(q)
    <2>1. /\ req[q] # None /\ req[q].stage = "loaded" /\ req[q].call \in Calls
          /\ req'[q].stage = IF Permitted(req[q]) THEN "allowed" ELSE "refused"
      BY <1>7 DEF Authorize, At, ReqType, RequestType
    <2>2. Permitted(req[q])  BY <1>3, <2>1, EntitledPermitted
    <2>3. QED  BY <1>2, <2>1, <2>2
  <1>8. CASE /\ req[q] # None /\ req[q].stage \in {"allowed", "found"}
             /\ req'[q].stage \in {"found", "done"}
    BY <1>3, <1>8
  <1>9. QED  BY <1>1, <1>4, <1>5, <1>6, <1>7, <1>8, Moves

-----------------------------------------------------------------------------
(* Users and services.                                                     *)

\* No row of a user is ever deleted.
LEMMA RowsStay ==
  ASSUME RowsType, ReqType, Step, NEW u \in Users, role[u] # None
  PROVE  role'[u] # None
  <1> USE NoneAssumption DEF RowsType, Roles, rows
  <1>1. ASSUME NEW v \in Users, NEW e \in Emails, Login(v, e) PROVE role'[u] # None
    BY <1>1 DEF Login, UpsertUserOnLogin, RoleAtLogin
  <1>2. ASSUME NEW p \in Requests, SetUserRole(p) PROVE role'[u] # None
    <2>1. req[p].call \in Calls /\ req[p].call.act = "role"
      BY <1>2 DEF SetUserRole, At, Asks, ReqType, RequestType
    <2>2. req[p].call.role \in Roles  BY <2>1, CallFields, SMTT(30)
    <2>3. QED  BY <1>2, <2>2 DEF SetUserRole
  <1>3. \/ \E v \in Users, e \in Emails : Login(v, e)
        \/ \E p \in Requests : SetUserRole(p)
        \/ UNCHANGED role
    BY DEF Step, Logout, Begin, Load, Authorize, End, FindUser, SetPermission,
           RevokePermission, CreateService, FindService, DeleteService, Record,
           AddFavorite, RemoveFavorite, CreateAPIToken, DeleteAPIToken
  <1>4. QED  BY <1>1, <1>2, <1>3

\* What a request finds it keeps until it is recorded.
LEMMA FoundStep ==
  ASSUME TypeOK, Found, Step
  PROVE  Found'
  <1>1. RowsType /\ ReqType  BY DEF TypeOK, RowsType, ReqType
  <1> SUFFICES ASSUME NEW q \in Requests, req'[q] # None
               PROVE  /\ req'[q].stage = "found" /\ req'[q].call.act = "grant" =>
                           req'[q].found \in Users /\ role'[req'[q].found] # None
                      /\ req'[q].stage = "found" /\ req'[q].call.act = "delete" =>
                           req'[q].found \in Services
                      /\ /\ req'[q].stage = "done"
                         /\ req'[q].call.act \in {"create", "delete"}
                         => req'[q].found \in Services
    BY DEF Found, At, Asks
  <1>2. CASE req'[q] = req[q]  BY <1>1, <1>2, RowsStay DEF Found, At, Asks
  <1>3. CASE req'[q].stage \notin {"found", "done"}  BY <1>3
  <1>4. CASE FindUser(q)
    <2>1. PICK u \in Users : email[u] = req[q].call.email /\ req'[q].found = u
      BY <1>1, <1>4 DEF FindUser, At, ReqType
    <2>2. req[q].call.email \in Emails
      BY <1>1, <1>4, CallFields DEF FindUser, At, Asks, ReqType, RequestType
    <2>3. role[u] # None  BY <1>1, <2>1, <2>2, NoneAssumption DEF RowsType
    <2>4. req'[q].stage = "found" /\ req'[q].call = req[q].call /\ req[q].call.act = "grant"
      BY <1>1, <1>4 DEF FindUser, At, Asks, ReqType, RequestType
    <2>5. QED  BY <1>1, <2>1, <2>3, <2>4, RowsStay
  <1>5. CASE FindService(q)
    <2>1. req[q].call.service \in Services
      BY <1>1, <1>5, CallFields DEF FindService, At, Asks, ReqType, RequestType
    <2>2. /\ req'[q].found = req[q].call.service /\ req'[q].stage = "found"
          /\ req'[q].call = req[q].call /\ req[q].call.act = "delete"
      BY <1>1, <1>5 DEF FindService, At, Asks, ReqType, RequestType
    <2>3. QED  BY <2>1, <2>2
  <1>6. CASE CreateService(q)
    BY <1>1, <1>6 DEF CreateService, At, Asks, ReqType, RequestType
  <1>7. CASE DeleteService(q)
    BY <1>1, <1>7 DEF DeleteService, Found, To, At, Asks, ReqType, RequestType
  <1>8. CASE SetUserRole(q) \/ SetPermission(q) \/ RevokePermission(q)
    <2>1. /\ req'[q].stage = "done" /\ req'[q].call = req[q].call
          /\ req[q].call.act \in {"role", "grant", "revoke"}
      BY <1>1, <1>8 DEF SetUserRole, SetPermission, RevokePermission, To, At, Asks,
                        ReqType, RequestType
    <2>2. QED  BY <2>1
  <1>9. QED  BY <1>1, <1>2, <1>3, <1>4, <1>5, <1>6, <1>7, <1>8, Carried

\* A grant is made where its user and its service are, and a deletion takes
\* the grants with it.
LEMMA GrantStep ==
  ASSUME TypeOK, TypeOK', Found, GrantsOfLiving, Step
  PROVE  GrantsOfLiving'
  <1>1. RowsType /\ ReqType  BY DEF TypeOK, RowsType, ReqType
  <1>2. \A u \in Users : role[u] # None => role'[u] # None  BY <1>1, RowsStay
  <1>3. (\A s \in Services : Live(s) => Live(s)') /\ UNCHANGED <<perm, star>>
          => GrantsOfLiving'
    BY <1>1, <1>2 DEF GrantsOfLiving, RowsType
  <1> USE DEF GrantsOfLiving, RowsType, Live
  <1>4. ASSUME NEW p \in Requests, SetPermission(p) PROVE GrantsOfLiving'
    <2>1. role[req[p].found] # None /\ Live(req[p].call.service) /\ UNCHANGED <<role, service, star>>
      BY <1>4 DEF SetPermission, Found
    <2>2. perm' = [perm EXCEPT ![<<req[p].found, req[p].call.service>>] = req[p].call.level]
      BY <1>4 DEF SetPermission
    <2>3. QED  BY <1>1, <2>1, <2>2
  <1>5. ASSUME NEW p \in Requests, RevokePermission(p) PROVE GrantsOfLiving'
    BY <1>1, <1>5 DEF RevokePermission
  <1>6. ASSUME NEW p \in Requests, CreateService(p) PROVE GrantsOfLiving'
    <2>1. \A s \in Services : Live(s) => Live(s)'
      <3>1. req[p].call.key \in Keys
        BY <1>1, <1>6, CallFields DEF CreateService, At, Asks, ReqType, RequestType
      <3>2. QED  BY <1>1, <1>6, <3>1 DEF CreateService
    <2>2. QED  BY <1>3, <1>6, <2>1 DEF CreateService
  <1>7. ASSUME NEW p \in Requests, DeleteService(p) PROVE GrantsOfLiving'
    BY <1>1, <1>7 DEF DeleteService, Delete
  <1>8. ASSUME NEW p \in Requests, AddFavorite(p) \/ RemoveFavorite(p)
        PROVE  GrantsOfLiving'
    BY <1>1, <1>8 DEF AddFavorite, RemoveFavorite
  <1>9. \/ \E p \in Requests :
             \/ SetPermission(p) \/ RevokePermission(p) \/ CreateService(p)
             \/ DeleteService(p) \/ AddFavorite(p) \/ RemoveFavorite(p)
        \/ UNCHANGED <<service, perm, star>>
    BY ZenonT(60) DEF Step, Login, UpsertUserOnLogin, Logout, Begin, Load, Authorize, End,
           SetUserRole, FindUser, FindService, Record, CreateAPIToken, DeleteAPIToken, rows
  <1>10. QED  BY <1>3, <1>4, <1>5, <1>6, <1>7, <1>8, <1>9

-----------------------------------------------------------------------------
(* The log.                                                                *)

\* Only three actions tell on services or on what is to be recorded of them.
LEMMA LogMoves ==
  ASSUME ReqType, Step
  PROVE  \/ \E p \in Requests : CreateService(p) \/ DeleteService(p) \/ Record(p)
         \/ /\ UNCHANGED <<log, service>>
            /\ \A q \in Requests, act \in {"create", "delete"}, s \in Services :
                 Done(q, act, s)' => Done(q, act, s)
  <1> SUFFICES ASSUME ~ \E p \in Requests : CreateService(p) \/ DeleteService(p) \/ Record(p)
               PROVE  /\ UNCHANGED <<log, service>>
                      /\ \A q \in Requests, act \in {"create", "delete"}, s \in Services :
                           Done(q, act, s)' => Done(q, act, s)
    OBVIOUS
  <1>1. UNCHANGED <<log, service>>
    BY DEF Step, Login, UpsertUserOnLogin, Logout, Begin, Load, Authorize, End,
           SetUserRole, FindUser, FindService, SetPermission, RevokePermission,
           AddFavorite, RemoveFavorite, CreateAPIToken, DeleteAPIToken, rows
  <1>2. ASSUME NEW q \in Requests, NEW act \in {"create", "delete"}, NEW s \in Services,
               Done(q, act, s)'
        PROVE  Done(q, act, s)
    <2>1. req'[q] # None /\ req'[q].stage = "done" /\ req'[q].call.act = act
      BY <1>2 DEF Done, At, Asks
    <2>2. CASE req'[q] = req[q]  BY <1>2, <2>2 DEF Done, At, Asks
    <2>3. CASE FindUser(q) \/ FindService(q)
      BY <2>1, <2>3 DEF FindUser, FindService, At, ReqType, RequestType
    <2>4. CASE SetUserRole(q) \/ SetPermission(q) \/ RevokePermission(q)
      BY <2>1, <2>4 DEF SetUserRole, SetPermission, RevokePermission, To, At, Asks,
                        ReqType, RequestType
    <2>5. QED  BY <2>1, <2>2, <2>3, <2>4, Carried
  <1>3. QED  BY <1>1, <1>2

\* The service of a pending request is new to the log, and no two requests
\* are pending for one deed.
LEMMA LogStep ==
  ASSUME TypeOK, Found, Pending, RecordedOnce, Step
  PROVE  Pending' /\ RecordedOnce'
  <1>1. RowsType /\ ReqType  BY DEF TypeOK, RowsType, ReqType
  <1> USE NoneAssumption
  <1>2. ASSUME NEW p \in Requests, CreateService(p) PROVE Pending' /\ RecordedOnce'
    <2>1. PICK s \in Services :
            /\ service[s] = None /\ service' = [service EXCEPT ![s] = req[p].call.key]
            /\ req' = [req EXCEPT ![p].stage = "done", ![p].found = s]
      BY <1>2 DEF CreateService
    <2>2. /\ req[p] # None /\ req[p].call.act = "create" /\ req[p].call.key \in Keys
          /\ log' = log
      BY <1>1, <1>2, CallFields DEF CreateService, At, Asks, ReqType, RequestType
    <2>3. \A q \in Requests, act \in {"create", "delete"}, t \in Services :
            Done(q, act, t)' => Done(q, act, t) \/ (q = p /\ act = "create" /\ t = s)
      BY <1>1, <2>1, <2>2 DEF Done, At, Asks, ReqType, RequestType
    <2>4. /\ service'[s] # None
          /\ \A t \in Services \ {s} : service'[t] = service[t]
      BY <1>1, <2>1, <2>2 DEF RowsType
    <2>5. \A act \in {"create", "delete"} :
            ~ Recorded(act, s) /\ \A q \in Requests : ~ Done(q, act, s)
      BY <2>1 DEF Pending, RecordedOnce, Recorded
    <2>6. Pending'  BY <2>2, <2>3, <2>4, <2>5 DEF Pending, Recorded
    <2>7. RecordedOnce'  BY <1>1, <2>1, <2>2, <2>4 DEF RecordedOnce, RowsType
    <2>8. QED  BY <2>6, <2>7
  <1>3. ASSUME NEW p \in Requests, DeleteService(p) PROVE Pending' /\ RecordedOnce'
    <2> DEFINE s == req[p].found
    <2>1. /\ req[p] # None /\ req[p].call.act = "delete" /\ s \in Services
          /\ service[s] \in Keys /\ log' = log
          /\ service' = [service EXCEPT ![s] = Gone]
          /\ req' = [req EXCEPT ![p].stage = "done"]
      BY <1>3 DEF DeleteService, Delete, Live, To, At, Asks, Found
    <2>2. \A q \in Requests, act \in {"create", "delete"}, t \in Services :
            Done(q, act, t)' => Done(q, act, t) \/ (q = p /\ act = "delete" /\ t = s)
      BY <1>1, <2>1 DEF Done, At, Asks, ReqType, RequestType
    <2>3. /\ service'[s] = Gone
          /\ \A t \in Services \ {s} : service'[t] = service[t]
      BY <1>1, <2>1 DEF RowsType
    <2> HIDE DEF s
    <2>4. ~ Recorded("delete", s) /\ \A q \in Requests : ~ Done(q, "delete", s)
      BY <2>1 DEF Pending, RecordedOnce, Recorded
    <2>5. Pending'  BY <2>1, <2>2, <2>3, <2>4 DEF Pending, Recorded
    <2>6. RecordedOnce'  BY <1>1, <2>1, <2>3 DEF RecordedOnce, RowsType
    <2>7. QED  BY <2>5, <2>6
  <1>4. ASSUME NEW p \in Requests, Record(p) PROVE Pending' /\ RecordedOnce'
    <2>1. /\ At(p, "done") /\ req' = [req EXCEPT ![p] = None] /\ service' = service
      BY <1>4 DEF Record, Finish
    <2>2. \A q \in Requests, act \in {"create", "delete"}, t \in Services :
            Done(q, act, t)' => Done(q, act, t) /\ q # p
      BY <1>1, <2>1 DEF Done, At, Asks, ReqType
    <2>3. CASE Asks(p, "create") \/ Asks(p, "delete")
      <3> DEFINE e == [by |-> req[p].user, act |-> req[p].call.act, service |-> req[p].found]
      <3>1. log' = log \cup {e}  BY <1>4, <2>3 DEF Record
      <3>2. /\ e.act \in {"create", "delete"} /\ e.service \in Services
            /\ Done(p, e.act, e.service)
        BY <2>1, <2>3 DEF Found, Done, Asks
      <3> HIDE DEF e
      <3>3. /\ service[e.service] # None
            /\ e.act = "delete" => service[e.service] = Gone
            /\ \A f \in log : ~ (f.act = e.act /\ f.service = e.service)
            /\ \A q \in Requests \ {p} : ~ Done(q, e.act, e.service)
        BY <3>2 DEF Pending, Recorded
      <3>4. Pending'  BY <2>1, <2>2, <3>1, <3>3 DEF Pending, Recorded
      <3>5. RecordedOnce'  BY <2>1, <3>1, <3>3 DEF RecordedOnce
      <3>6. QED  BY <3>4, <3>5
    <2>4. CASE ~ (Asks(p, "create") \/ Asks(p, "delete"))
      <3>1. log' = log  BY <1>4, <2>4 DEF Record
      <3>2. QED  BY <2>1, <2>2, <3>1 DEF Pending, Recorded, RecordedOnce
    <2>5. QED  BY <2>3, <2>4
  <1>5. CASE /\ UNCHANGED <<log, service>>
             /\ \A q \in Requests, act \in {"create", "delete"}, s \in Services :
                  Done(q, act, s)' => Done(q, act, s)
    BY <1>5 DEF Pending, Recorded, RecordedOnce
  <1>6. QED  BY <1>1, <1>2, <1>3, <1>4, <1>5, LogMoves

-----------------------------------------------------------------------------
(* The theorems.                                                           *)

\* Initially there is nothing at all.
LEMMA InitIInv == Init => IInv
  BY NoneAssumption
  DEF Init, IInv, TypeOK, Found, LoadedHeld, Steady, Covered, GrantsOfLiving, Pending,
      RecordedOnce, Done, At

\* Every step keeps the invariant.
LEMMA IInvStep == IInv /\ [Next]_vars => IInv'
  <1> SUFFICES ASSUME IInv, [Next]_vars PROVE IInv'
    OBVIOUS
  <1>1. TypeOK'  BY TypeStep DEF IInv
  <1>2. CASE UNCHANGED vars
    BY <1>1, <1>2 DEF IInv, Found, LoadedHeld, Steady, Entitled, Covered, GrantsOfLiving,
       Live, Pending, Recorded, RecordedOnce, Done, At, Asks, vars, rows
  <1>3. CASE Next
    <2>1. Step /\ ReqType  BY <1>3 DEF Next, IInv, TypeOK, ReqType
    <2>2. Found'  BY <2>1, FoundStep DEF IInv
    <2>3. LoadedHeld' /\ Covered'  BY <1>3, <2>1, HeldStep DEF IInv
    <2>4. Steady'  BY <1>3, <2>1, SteadyStep DEF IInv
    <2>5. GrantsOfLiving'  BY <1>1, <2>1, GrantStep DEF IInv
    <2>6. Pending' /\ RecordedOnce'  BY <2>1, LogStep DEF IInv
    <2>7. QED  BY <1>1, <2>2, <2>3, <2>4, <2>5, <2>6 DEF IInv
  <1>4. QED  BY <1>2, <1>3

\* The invariant that the theorems below are read from: requests hold what
\* they found, a role they have read was their user's, and what is pending is
\* not in the log.
THEOREM Invariance == Spec => []IInv
  BY InitIInv, IInvStep, PTL DEF Spec

\* Users, services, permissions and requests keep their types, and whoever has
\* an e-mail or a session has a row.
THEOREM TypeCorrect == Spec => []TypeOK
  <1>1. IInv => TypeOK  BY DEF IInv
  <1>2. QED  BY <1>1, Invariance, PTL

\* Whatever is carried out, its user was entitled to it at some time since the
\* request began: neither a cookie nor a role read earlier counts for more.
THEOREM NothingUncovered == Spec => []Covered
  <1>1. IInv => Covered  BY DEF IInv
  <1>2. QED  BY <1>1, Invariance, PTL

\* A user who is entitled all the time is not refused.
THEOREM NoneRefused == Spec => []NotRefused
  <1>1. IInv => NotRefused  BY DEF IInv, Steady, NotRefused, At
  <1>2. QED  BY <1>1, Invariance, PTL

\* Permissions and favorites are for services that exist, whichever grants
\* and deletions overlap.
THEOREM GrantsLive == Spec => []GrantsOfLiving
  <1>1. IInv => GrantsOfLiving  BY DEF IInv
  <1>2. QED  BY <1>1, Invariance, PTL

\* The creation and the deletion of a service are on record once at most, and
\* only if they took place.
THEOREM DeedsRecordedOnce == Spec => []RecordedOnce
  <1>1. IInv => RecordedOnce  BY DEF IInv
  <1>2. QED  BY <1>1, Invariance, PTL

=============================================================================
