--------------------------- MODULE AccessControl ---------------------------
(***************************************************************************)
(* Users, roles, permissions, favorites, API tokens and the life of        *)
(* services, as requests to the HTTP server change them.  A request is     *)
(* authenticated, authorized and carried out by separate statements, and   *)
(* requests of other users come between them.                              *)
(*                                                                         *)
(* A user stands for an OIDC subject, a service for its id: ids are never  *)
(* used again, keys are.                                                   *)
(***************************************************************************)
EXTENDS FiniteSets

CONSTANTS
  Users,       \* OIDC subjects
  Emails,
  Bootstrap,   \* BOOTSTRAP_ADMIN_EMAIL
  Identities,  \* <<u, e>> if the provider may say that u has e-mail e
  Services,
  Keys,
  Tokens,
  Requests,
  Asked,       \* <<u, c>> if u may send a request for c
  None,
  Gone

Roles == {"user", "admin"}
Levels == {"viewer", "editor"}

\* Calls behind requireAdmin.
ManageCalls ==
  [act : {"role"}, user : Users, role : Roles]
    \cup [act : {"grant"}, email : Emails, service : Services, level : Levels]
    \cup [act : {"revoke"}, user : Users, service : Services]
    \cup [act : {"create"}, key : Keys]
    \cup [act : {"delete"}, service : Services]

\* Calls behind authorizeService; "edit" needs an editor.
ServiceCalls == [act : {"view", "star", "edit"}, service : Services]

\* Calls behind requireUser.
OwnCalls ==
  [act : {"unstar"}, service : Services]
    \cup [act : {"newToken"}]
    \cup [act : {"dropToken"}, token : Tokens]

Calls == ManageCalls \cup ServiceCalls \cup OwnCalls

ASSUME AskedAssumption == Asked \subseteq Users \X Calls
ASSUME IdentitiesAssumption == Identities \subseteq Users \X Emails
ASSUME NoneAssumption ==
  /\ None \notin Roles \cup Levels \cup Keys \cup Users \cup Emails \cup Services
  /\ Gone \notin Keys \cup Users \cup {None}

VARIABLES
  email,    \* e-mail in the row of a user, None without a row
  role,     \* role in the row of a user, None without a row
  session,  \* role in the session cookie of a user, None without a cookie
  token,    \* owner of an API token, None before it is created, Gone after
  service,  \* key of a service, None before it is created, Gone after
  perm,     \* level of a user on a service, or None
  star,     \* favorites
  log,      \* audit entries about the creation and deletion of services
  req,      \* None, or a request under way
  held,     \* auxiliary: was entitled at some time since the request began
  steady    \* auxiliary: was entitled all the time until now, with one role

rows == <<email, role, session, token, service, perm, star, log>>
vars == <<rows, req, held, steady>>

Init ==
  /\ email = [u \in Users |-> None]
  /\ role = [u \in Users |-> None]
  /\ session = [u \in Users |-> None]
  /\ token = [t \in Tokens |-> None]
  /\ service = [s \in Services |-> None]
  /\ perm = [x \in Users \X Services |-> None]
  /\ star = {}
  /\ log = {}
  /\ req = [p \in Requests |-> None]
  /\ held = [p \in Requests |-> FALSE]
  /\ steady = [p \in Requests |-> FALSE]

-----------------------------------------------------------------------------
(* Login and logout.                                                       *)

\* Faulty variants, here and below, show that the properties can fail.
\* Leaves the role of a new row to a default that the table does not have.
RoleAtLoginUndefaulted(u, e) ==
  IF e = Bootstrap \/ role[u] = "admin" THEN "admin" ELSE role[u]

\* Never downgrades; the bootstrap e-mail promotes.
RoleAtLogin(u, e) == IF e = Bootstrap \/ role[u] = "admin" THEN "admin" ELSE "user"

\* The e-mail is unique: the login fails if another subject has it.
UpsertUserOnLogin(u, e) ==
  /\ \A v \in Users \ {u} : email[v] # e
  /\ email' = [email EXCEPT ![u] = e]
  /\ role' = [role EXCEPT ![u] = RoleAtLogin(u, e)]

Login(u, e) ==
  /\ <<u, e>> \in Identities
  /\ UpsertUserOnLogin(u, e)
  /\ session' = [session EXCEPT ![u] = RoleAtLogin(u, e)]
  /\ UNCHANGED <<token, service, perm, star, log, req>>

Logout(u) ==
  /\ session[u] # None
  /\ session' = [session EXCEPT ![u] = None]
  /\ UNCHANGED <<email, role, token, service, perm, star, log, req>>

-----------------------------------------------------------------------------
(* Authentication and authorization.                                       *)

\* By cookie, or by a token that was not deleted.
Authenticated(u) == session[u] # None \/ \E t \in Tokens : token[t] = u

Begin(p, u, c) ==
  /\ req[p] = None
  /\ Authenticated(u)
  /\ req' = [req EXCEPT ![p] =
       [user |-> u, call |-> c, stage |-> "begun", role |-> None, found |-> None]]
  /\ UNCHANGED rows

At(p, stage) == req[p] # None /\ req[p].stage = stage
Asks(p, act) == req[p].call.act = act
To(p, stage) == req' = [req EXCEPT ![p].stage = stage]
Finish(p) == req' = [req EXCEPT ![p] = None]

\* The role that the cookie was given at login.
RoleInSession(u) == session[u]

\* GetUser, on every request.
RoleNow(u) == role[u]

Load(p) ==
  /\ At(p, "begun")
  /\ req' = [req EXCEPT ![p].stage = "loaded", ![p].role = RoleNow(req[p].user)]
  /\ UNCHANGED rows

EffectiveLevel(q) ==
  IF q.role = "admin" THEN "editor" ELSE perm[<<q.user, q.call.service>>]

DecideSwapped(r, level, needEditor) ==
  r = "admin" \/ level = "editor" \/ (level = "viewer" /\ needEditor)

Decide(r, level, needEditor) ==
  r = "admin" \/ level = "editor" \/ (level = "viewer" /\ ~ needEditor)

Permitted(q) ==
  \/ q.call \in OwnCalls
  \/ q.call \in ManageCalls /\ q.role = "admin"
  \/ q.call \in ServiceCalls /\ Decide(q.role, EffectiveLevel(q), q.call.act = "edit")

\* The role is not looked at again.
Authorize(p) ==
  /\ At(p, "loaded")
  /\ req' = [req EXCEPT ![p].role = None,
                        ![p].stage = IF Permitted(req[p]) THEN "allowed" ELSE "refused"]
  /\ UNCHANGED rows

\* The request ends: refused, not found, in conflict, with a statement that
\* failed, cut off by its client, or with the process.
End(p) ==
  /\ req[p] # None
  /\ Finish(p)
  /\ UNCHANGED rows

-----------------------------------------------------------------------------
(* Handlers that manage users and permissions.                             *)

SetUserRole(p) ==
  /\ At(p, "allowed") /\ Asks(p, "role")
  /\ role[req[p].call.user] # None
  /\ role' = [role EXCEPT ![req[p].call.user] = req[p].call.role]
  /\ To(p, "done")
  /\ UNCHANGED <<email, session, token, service, perm, star, log>>

\* GetUserByEmail
FindUser(p) ==
  /\ At(p, "allowed") /\ Asks(p, "grant")
  /\ \E u \in Users :
       /\ email[u] = req[p].call.email
       /\ req' = [req EXCEPT ![p].stage = "found", ![p].found = u]
  /\ UNCHANGED rows

Live(s) == service[s] \in Keys

\* Grants without a foreign key.
InsertPermissionAnyway(p) ==
  /\ At(p, "found") /\ Asks(p, "grant")
  /\ perm' = [perm EXCEPT ![<<req[p].found, req[p].call.service>>] = req[p].call.level]
  /\ To(p, "done")
  /\ UNCHANGED <<email, role, session, token, service, star, log>>

SetPermission(p) ==
  /\ At(p, "found") /\ Asks(p, "grant")
  /\ Live(req[p].call.service)
  /\ perm' = [perm EXCEPT ![<<req[p].found, req[p].call.service>>] = req[p].call.level]
  /\ To(p, "done")
  /\ UNCHANGED <<email, role, session, token, service, star, log>>

RevokePermission(p) ==
  /\ At(p, "allowed") /\ Asks(p, "revoke")
  /\ perm' = [perm EXCEPT ![<<req[p].call.user, req[p].call.service>>] = None]
  /\ To(p, "done")
  /\ UNCHANGED <<email, role, session, token, service, star, log>>

-----------------------------------------------------------------------------
(* Handlers that create and delete services.                               *)

CreateService(p) ==
  /\ At(p, "allowed") /\ Asks(p, "create")
  /\ \A s \in Services : service[s] # req[p].call.key
  /\ \E s \in Services :
       /\ service[s] = None
       /\ service' = [service EXCEPT ![s] = req[p].call.key]
       /\ req' = [req EXCEPT ![p].stage = "done", ![p].found = s]
  /\ UNCHANGED <<email, role, session, token, perm, star, log>>

\* GetService, for the key in the audit entry.
FindService(p) ==
  /\ At(p, "allowed") /\ Asks(p, "delete")
  /\ Live(req[p].call.service)
  /\ req' = [req EXCEPT ![p].stage = "found", ![p].found = req[p].call.service]
  /\ UNCHANGED rows

Delete(s) ==
  /\ service' = [service EXCEPT ![s] = Gone]
  /\ perm' = [x \in Users \X Services |-> IF x[2] = s THEN None ELSE perm[x]]
  /\ star' = {x \in star : x[2] # s}

\* Does not look at the number of rows that were deleted.
DeleteServiceUnchecked(p) ==
  /\ At(p, "found") /\ Asks(p, "delete")
  /\ Delete(req[p].found)
  /\ To(p, "done")
  /\ UNCHANGED <<email, role, session, token, log>>

\* The second of two concurrent deletes finds no row.
DeleteService(p) ==
  /\ At(p, "found") /\ Asks(p, "delete")
  /\ Live(req[p].found)
  /\ Delete(req[p].found)
  /\ To(p, "done")
  /\ UNCHANGED <<email, role, session, token, log>>

\* The audit entry of what was done; those about users are not kept here.
Record(p) ==
  /\ At(p, "done")
  /\ log' = IF Asks(p, "create") \/ Asks(p, "delete")
            THEN log \cup {[by |-> req[p].user, act |-> req[p].call.act,
                            service |-> req[p].found]}
            ELSE log
  /\ Finish(p)
  /\ UNCHANGED <<email, role, session, token, service, perm, star>>

-----------------------------------------------------------------------------
(* Handlers for one's own favorites and tokens.                            *)

AddFavorite(p) ==
  /\ At(p, "allowed") /\ Asks(p, "star")
  /\ Live(req[p].call.service)
  /\ star' = star \cup {<<req[p].user, req[p].call.service>>}
  /\ Finish(p)
  /\ UNCHANGED <<email, role, session, token, service, perm, log>>

RemoveFavorite(p) ==
  /\ At(p, "allowed") /\ Asks(p, "unstar")
  /\ star' = star \ {<<req[p].user, req[p].call.service>>}
  /\ Finish(p)
  /\ UNCHANGED <<email, role, session, token, service, perm, log>>

CreateAPIToken(p) ==
  /\ At(p, "allowed") /\ Asks(p, "newToken")
  /\ \E t \in Tokens : token[t] = None /\ token' = [token EXCEPT ![t] = req[p].user]
  /\ Finish(p)
  /\ UNCHANGED <<email, role, session, service, perm, star, log>>

\* Only one's own.
DeleteAPIToken(p) ==
  /\ At(p, "allowed") /\ Asks(p, "dropToken")
  /\ token[req[p].call.token] = req[p].user
  /\ token' = [token EXCEPT ![req[p].call.token] = Gone]
  /\ Finish(p)
  /\ UNCHANGED <<email, role, session, service, perm, star, log>>

-----------------------------------------------------------------------------

\* What the roles and permissions of this moment entitle a request to.
Entitled(p) ==
  LET u == req[p].user
      c == req[p].call
  IN  \/ c \in OwnCalls
      \/ role[u] = "admin"
      \/ /\ c \in ServiceCalls
         /\ perm[<<u, c.service>>] \in (IF c.act = "edit" THEN {"editor"} ELSE Levels)

Watch ==
  /\ held' = [p \in Requests |->
       req'[p] # None /\ (Entitled(p)' \/ (req[p] # None /\ held[p]))]
  /\ steady' = [p \in Requests |->
       /\ req'[p] # None /\ Entitled(p)'
       /\ req'[p].stage \in {"begun", "loaded", "refused"}
       /\ req[p] # None => steady[p] /\ role'[req[p].user] = role[req[p].user]]

Step ==
  \/ \E u \in Users, e \in Emails : Login(u, e)
  \/ \E u \in Users : Logout(u)
  \/ \E p \in Requests : \E a \in Asked : Begin(p, a[1], a[2])
  \/ \E p \in Requests :
       \/ Load(p) \/ Authorize(p) \/ End(p)
       \/ SetUserRole(p) \/ FindUser(p) \/ SetPermission(p) \/ RevokePermission(p)
       \/ CreateService(p) \/ FindService(p) \/ DeleteService(p) \/ Record(p)
       \/ AddFavorite(p) \/ RemoveFavorite(p)
       \/ CreateAPIToken(p) \/ DeleteAPIToken(p)

Next == Step /\ Watch

Spec == Init /\ [][Next]_vars

-----------------------------------------------------------------------------
(* Properties.                                                             *)

Stages == {"begun", "loaded", "refused", "allowed", "found", "done"}

RequestType ==
  [user : Users, call : Calls, stage : Stages, role : Roles \cup {None},
   found : Users \cup Services \cup {None}]

\* Type invariant; who can send a request has a row.
TypeOK ==
  /\ email \in [Users -> Emails \cup {None}]
  /\ role \in [Users -> Roles \cup {None}]
  /\ session \in [Users -> Roles \cup {None}]
  /\ \A u \in Users : email[u] # None \/ session[u] # None => role[u] # None
  /\ token \in [Tokens -> Users \cup {None, Gone}]
  /\ service \in [Services -> Keys \cup {None, Gone}]
  /\ perm \in [Users \X Services -> Levels \cup {None}]
  /\ star \subseteq Users \X Services
  /\ log \subseteq [by : Users, act : {"create", "delete"}, service : Services]
  /\ req \in [Requests -> RequestType \cup {None}]
  /\ held \in [Requests -> BOOLEAN]
  /\ steady \in [Requests -> BOOLEAN]

\* Nothing is carried out for a user who was not entitled to it at some time
\* since the request began: a demotion, a revoked permission holds for every
\* request that begins after it, whatever the cookie says and however long
\* ago the login was.
Covered ==
  \A p \in Requests :
    req[p] # None /\ req[p].stage \in {"allowed", "found", "done"} => held[p]

\* A request is not refused when its user was entitled to it all the time,
\* with one role, although role and permission are read at different times.
NotRefused == \A p \in Requests : At(p, "refused") => ~ steady[p]

\* Permissions and favorites are those of users with a row on services that
\* exist, whatever grants and deletions overlap: a service that is created
\* later, be it with the same key, starts with none.
GrantsOfLiving ==
  /\ \A x \in Users \X Services : perm[x] # None => role[x[1]] # None /\ Live(x[2])
  /\ \A x \in star : Live(x[2])

\* However many administrators delete a service at a time, one of them is on
\* record for it at most, and only if it is gone; the same with its creation.
RecordedOnce ==
  \A e \in log :
    /\ service[e.service] # None
    /\ e.act = "delete" => service[e.service] = Gone
    /\ \A f \in log : f.service = e.service /\ f.act = e.act => f = e

=============================================================================
