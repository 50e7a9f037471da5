\* Backlog, retries and health checks, under fairness.
CONSTANTS
  a1 = a1  a2 = a2  h1 = h1  c1 = c1  c2 = c2
  AnyHost = AnyHost
  Addr = {a1, a2}
  Client = {c1, c2}
  Frail = {a1}
  Width = 3
  Pool <- LivePools
  Request <- Requests
  Limit = {1}
  Wanted <- OneList
  MaxObjects = 3
  Period = 2
SPECIFICATION FairSpec
PROPERTIES WatchedRecovers BacklogIsServed ChoiceEnds
CHECK_DEADLOCK FALSE
