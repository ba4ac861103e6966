SPECIFICATION Spec
CONSTANTS
  a = a
  b = b
  v1 = v1
  v2 = v2
  k1 = k1
  k2 = k2
  Card = {a, b}
  Value = {v1, v2}
  Call = {k1, k2}
  NoBoard = NoBoard
  NoFetch = NoFetch
  NoCall = NoCall
INVARIANTS TypeOK ShowsServer SuccessCleans
SYMMETRY Symmetry
