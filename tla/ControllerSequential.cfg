\* One request per device at a time: registration, apply, metadata, deletion, telemetry.
CONSTANTS
  d1 = d1  d2 = d2  o1 = o1  o2 = o2  n1 = n1  n2 = n2  k1 = k1  k2 = k2
  None = None
  Device = {d1}
  Org = {o1, o2}
  Name = {n1, n2}
  MaxVersion = 3
  Request = {r1, r2, r3, r4}
  Stream = {s1}
  Ops = {"register", "apply", "meta", "delete", "telemetry"}
  Overlap = FALSE
  Registered = {1, 2}
  Body <- BodyTwoOrgs
  Frame <- FramesOneKey
  Key = {k1}
  Capacity = 2
  AlertCap = 2
SPECIFICATION Spec
SYMMETRY RequestSymmetry
INVARIANTS LastPushIsStored FlagsMatchLatestFrame
PROPERTIES RevisionsIncrease
CHECK_DEADLOCK FALSE
