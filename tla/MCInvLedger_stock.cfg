SPECIFICATION Spec
CONSTANTS
  a = a
  u = u
  k1 = k1
  Nobody = Nobody
  Bins = {a}
  People = {u}
  Counts = {k1}
  MaxPieces = 1
  MaxTaken = 2
  MaxLines = 4
INVARIANTS StockSound OpeningIsFirst NeverReversed
PROPERTIES CountDecides
CHECK_DEADLOCK FALSE
