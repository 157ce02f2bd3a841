CONSTANTS
  s1 = s1
  s2 = s2
  c1 = c1
  c2 = c2
  c3 = c3
  Server = {s1, s2}
  Connection = {c1, c2, c3}
  Dialer <- DialedBy
  Listener <- AcceptedBy
  Capacity = 1
  MaxAppends = 1
  MaxFaults = 1
SPECIFICATION FairSpec
CHECK_DEADLOCK FALSE
INVARIANTS
  TypeOK
  BelievedThere
  GapsUnderWay
  SilenceMeansDelivered
PROPERTIES
  PeersAgree
  SessionsDeliver
