SPECIFICATION Spec
CONSTANTS
  ann = ann  bob = bob  s1 = s1  s2 = s2
  Account = {ann, bob}
  NoAccount = NoAccount
  Slot = {s1, s2}
  MaxNotices = 1
INVARIANTS
  TypeOK
  StaleIsExplained
PROPERTIES
  ImplementsSignals
