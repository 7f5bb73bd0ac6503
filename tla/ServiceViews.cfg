SPECIFICATION Spec
CONSTANTS
  ann = ann  bob = bob
  a1 = a1  a2 = a2  b1 = b1
  Account = {ann, bob}
  NoAccount = NoAccount
  Uid = {a1, a2, b1}
  OwnerOf <- MCOwnerOf
  Hideable = {a1}
  MaxChained = 1
INVARIANTS
  TypeOK
  HiddenNotShown
  AccountsStayApart
  StrandedOnlyByFailure
  WantedIsPolled
PROPERTIES
  HiddenReturnsOnlyGathered
