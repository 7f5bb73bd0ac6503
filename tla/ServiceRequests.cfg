SPECIFICATION MethodsSpec
CONSTANTS
  o1 = o1  o2 = o2
  Op = {o1, o2}
INVARIANTS
  MethodsTypeOK
PROPERTIES
  MethodsImplementRequests
CHECK_DEADLOCK FALSE
