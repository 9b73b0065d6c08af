CONSTANTS
  k1 = k1
  k2 = k2
  v1 = v1
  Imports = {p1}
  Services = {s1, s2, s3}
  Keys = {k1, k2}
  Vars = {v1}
  Document <- MCDocument
  Content <- MCContent
  Pruners = {r1, r2}
  Keep = 1
  MaxEntries = 2
  MaxFailures = 1
  None = None
  Gone = Gone
SPECIFICATION Spec
INVARIANTS TypeOK KeepsNewest AppliedWhole
PROPERTIES Trimmed RetrySucceeds
CHECK_DEADLOCK FALSE
