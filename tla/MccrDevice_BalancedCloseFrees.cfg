SPECIFICATION Spec
CONSTANTS
  Devices = {d1, d2}
  Clients = {c1, c2}
  Paths = {p1, p2}
  Contexts = {x1, x2, x3}
  Handles = {h1, h2}
  Reports = {r1, r2}
  MaxOpens = 2
  None = None
SYMMETRY Interchangeable
INVARIANT BalancedCloseFrees
CHECK_DEADLOCK FALSE
