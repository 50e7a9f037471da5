\* Concurrent registrations, applies, puts and deletions of one device and a
\* stream; or concurrent telemetry frames while the device registers.
CONSTANTS
  d1 = d1  d2 = d2  o1 = o1  o2 = o2  n1 = n1  n2 = n2  k1 = k1  k2 = k2
  None = None
  Device = {d1}
  Org = {o1}
  Name = {n1}
  MaxVersion = 3
  Request = {r1, r2, r3, r4}
  Stream = {s1}
  Ops = {"register", "apply", "put", "delete", "telemetry"}
  Overlap = TRUE
  Registered = {1}
  Body <- BodyOneOrg
  Frame <- FramesTwoKeys
  Key = {k1, k2}
  Capacity = 1
  AlertCap = 2
SPECIFICATION HSpec
SYMMETRY RequestSymmetry
CONSTRAINT OneConcern
INVARIANTS TypeOK StreamGapless AlertPerRisingEdge AlertIdsConsecutive
PROPERTIES ApplyOvertaken NoResurrection
CHECK_DEADLOCK FALSE
