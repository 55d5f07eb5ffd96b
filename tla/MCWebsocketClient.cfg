SPECIFICATION Spec
CONSTANTS
  Calls = {c}
  Subs = {s, t}
  Signals = {c}
  MaxReconnects = 1
  MaxDrops = 1
INVARIANTS
  TypeOK
  OneConnection
  GivesUp
  IdsCurrent
  QuietOnConnection
  ListenersAskedOnce
  SentTimesOut
SYMMETRY Alike
CHECK_DEADLOCK FALSE
