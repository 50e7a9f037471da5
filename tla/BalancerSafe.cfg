\* Pools of every kind, two clients, changes through the API.
CONSTANTS
  a1 = a1  a2 = a2  h1 = h1  c1 = c1  c2 = c2
  AnyHost = AnyHost
  Addr = {a1, a2}
  Client = {c1, c2}
  Frail = {a1}
  Width = 3
  Pool <- AllPools
  Request <- Requests
  Limit = {1}
  Wanted <- WantedLists
  MaxObjects = 3
  Period = 2
SPECIFICATION HSpec
INVARIANTS ActiveCountsClients BackendCountsBalance RefusedForReason
PROPERTIES AdmittedUnderLimit ReloadSettles
SYMMETRY ClientSymmetry
CHECK_DEADLOCK FALSE
