SPECIFICATION Spec
CONSTANTS
  None = None
  Window = {w1, w2}
  Path = {p, q}
  Home = p
  Flawed <- flawed
  MaxEdits = 3
  MaxEvents = 1
INVARIANTS
  ShowsItsServer
CHECK_DEADLOCK FALSE
