\* Controller and agent, while clients register, apply, rename and delete and the
\* agent loses its connection, connects again or restarts.
CONSTANTS
  d1 = d1  o1 = o1  n1 = n1  n2 = n2
  b1 = b1  b2 = b2  r1 = r1  r2 = r2  s1 = s1  s2 = s2
  None = None
  Device = {d1}
  Org = {o1}
  Self = d1
  Home = o1
  Hostname = n1
  Name = {n1, n2}
  MaxVersion = 3
  Request = {b1, b2, r1, r2}
  Boots = {b1, b2}
  Stream = {s1, s2}
  Ops = {"register", "apply", "meta", "delete"}
  Overlap = TRUE
  Registered = {1}
  Body <- BodyMixed
  Accepted <- AcceptedNotLast
  Frame <- NoFrames
  Key = {}
  Capacity = 1
  AlertCap = 1
SPECIFICATION PlaneFairSpec
CONSTRAINTS InOrder RestartOrTwo
INVARIANT AgentFollows
PROPERTIES PushApplied PushDelivered NoStrandedStream
CHECK_DEADLOCK FALSE
