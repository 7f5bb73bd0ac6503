SPECIFICATION Spec
CONSTANTS
  ann = ann  bob = bob
  a1 = a1  b1 = b1
  v1 = v1  v2 = v2
  Account = {ann, bob}
  NoAccount = NoAccount
  Photo = {a1, b1}
  PhotosOf <- MCPhotosOf
  View = {v1, v2}
INVARIANTS
  TypeOK
  HiddenNotShown
  HiddenReturnsByFaultOnly
PROPERTIES
  RefilledByOneAnswer
SYMMETRY SameView
