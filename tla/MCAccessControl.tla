-------------------------- MODULE MCAccessControl --------------------------
(* A small instance of AccessControl for TLC: the first user has the       *)
(* bootstrap e-mail and administers, the second one may be promoted.       *)
EXTENDS AccessControl, TLC

CONSTANTS u1, u2, e1, e2, s1, k1, t1

\* The second user may come with the address of the first.
MCIdentities == {<<u1, e1>>, <<u2, e2>>, <<u2, e1>>}

Managing ==
  {[act |-> "role", user |-> u2, role |-> "admin"],
   [act |-> "role", user |-> u1, role |-> "user"],
   [act |-> "grant", email |-> e2, service |-> s1, level |-> "viewer"],
   [act |-> "grant", email |-> e2, service |-> s1, level |-> "editor"],
   [act |-> "revoke", user |-> u2, service |-> s1],
   [act |-> "create", key |-> k1],
   [act |-> "delete", service |-> s1]}

Using ==
  {[act |-> a, service |-> s1] : a \in {"edit", "star", "unstar"}}
    \cup {[act |-> "newToken"], [act |-> "dropToken", token |-> t1]}
    \cup {[act |-> "delete", service |-> s1]}

MCAsked == {<<u1, c>> : c \in Managing} \cup {<<u2, c>> : c \in Using}

Symmetry == Permutations(Requests)
=============================================================================
