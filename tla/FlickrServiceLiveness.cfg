SPECIFICATION Spec
CONSTANTS
  good = good  bad = bad
  p1 = p1  p2 = p2  p3 = p3
  Token = {good}
  ValidToken = {good}
  NoToken = NoToken
  Garbage = Garbage
  View = {v1}
  Service = Service
  Proxy = {p1, p2, p3}
  NoProxy = NoProxy
  MaxLookups = 1
  MaxChecks = 1
  MaxNotices = 1
PROPERTY
  DropIsAnnounced
