SPECIFICATION Spec
CONSTANTS
  a1 = a1  a2 = a2  l1 = l1  l2 = l2  l3 = l3  c1 = c1
  None = None
  Account = {a1, a2}
  Load = {l1, l2, l3}
  Check = {c1}
INVARIANT
  TypeOK
PROPERTIES
  CheckedIsWhole
  ImplementsRequests
