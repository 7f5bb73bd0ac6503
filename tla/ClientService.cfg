SPECIFICATION Spec
CONSTANTS
  c1 = c1  c2 = c2
  Call = {c1, c2}
  MaxWire = 3
INVARIANTS
  TypeOK
  SuccessIsReal
PROPERTIES
  CallsReturn
CHECK_DEADLOCK FALSE
