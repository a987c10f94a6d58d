SPECIFICATION FairSupSpec
CONSTANTS
  None = None
  p1 = p1
  p2 = p2
  p3 = p3
  o1 = o1
  t1 = t1
  t2 = t2
  Apis <- MCApis2
  Operations <- MCNobody
  StatusCalls <- MCStatus
PROPERTIES
  OrdersEnd
CHECK_DEADLOCK FALSE
