SPECIFICATION Spec
CONSTANTS
  p1 = p1
  p2 = p2
  u1 = u1
  u2 = u2
  c1 = c1
  c2 = c2
  c3 = c3
  None = None
  Torn = Torn
  Platforms = {p1, p2}
  Users = {u1, u2}
  Default = u2
  Procs = {c1, c2, c3}
  Commands <- MCCommands
  Saved <- MCSaved
  Limits = {2}
INVARIANT ThreadOfIdentity
SYMMETRY MCSymmetry
CHECK_DEADLOCK FALSE
