SPECIFICATION Spec
CONSTANTS
  c1 = c1  c2 = c2
  Call = {c1, c2}
  MaxWire = 3
PROPERTIES
  VideoIsTold
CHECK_DEADLOCK FALSE
