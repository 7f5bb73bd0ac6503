SPECIFICATION ViewsSpec
CONSTANTS
  i1 = i1  i2 = i2  i3 = i3
  u1 = u1  u2 = u2  v1 = v1
  Item <- MCItem
  Uid <- MCUid
  Value = {v1}
  UidOf <- MCUidOf
  ValueOf <- MCValueOf
  DelayingKey = {"thumbnail"}
  LazyKey = {}
CHECK_DEADLOCK FALSE
PROPERTY ReadyReachesClient
