SPECIFICATION Spec
CONSTANTS
  Calls = {c}
  Subs = {s}
  Signals = {}
  MaxReconnects = 1
  MaxDrops = 0
PROPERTIES
  CallsSettle
CHECK_DEADLOCK FALSE
