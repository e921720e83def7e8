SPECIFICATION Spec
CONSTANTS
  box = box
  tool = tool
  spare = spare
  kit = kit
  drill = drill
  saw = saw
  d1 = d1
  d2 = d2
  e1 = e1
  e2 = e2
  p1 = p1
  p2 = p2
  r1 = r1
  r2 = r2
  r3 = r3
  None = None
  Units = {tool}
  Kits = {}
  Rented = {}
  Linked = {tool}
  Items = {kit, drill, saw}
  ItemOf <- MCItemOf
  Depots = {d1, d2}
  People = {e1, e2}
  Projects = {p1, p2}
  Requests = {r2, r3}
  For <- MCFor
  Asks <- MCAsks
  Window <- MCWindow
  MaxTime = 3
INVARIANTS UnitsSound BookedComesBack
CHECK_DEADLOCK FALSE
