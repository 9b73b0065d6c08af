CONSTANTS
  u1 = u1
  u2 = u2
  e1 = e1
  e2 = e2
  s1 = s1
  k1 = k1
  t1 = t1
  Users = {u1, u2}
  Emails = {e1, e2}
  Bootstrap = e1
  Identities <- MCIdentities
  Services = {s1}
  Keys = {k1}
  Tokens = {t1}
  Requests = {p1, p2}
  Asked <- MCAsked
  None = None
  Gone = Gone
SPECIFICATION Spec
SYMMETRY Symmetry
INVARIANTS TypeOK Covered NotRefused GrantsOfLiving RecordedOnce
