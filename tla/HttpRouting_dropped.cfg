SPECIFICATION Spec
CONSTANTS
  u1 = u1
  u2 = u2
  d1 = d1
  d2 = d2
  r1 = r1
  r2 = r2
  None = None
  UpstreamIds = {u1, u2}
  Dialers = {d1, d2}
  Entries = {e1}
  Requests = {r1, r2}
  MaxChanges = 2
SYMMETRY Symmetries
INVARIANTS
  UseRouteInEffect
