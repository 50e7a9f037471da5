\* The agent as deployed: sync_loop is the only caller of apply_config; four of
\* the seven versions do not validate.
CONSTANTS
  d1 = d1  o1 = o1  n1 = n1
  None = None
  Device = {d1}
  Org = {o1}
  Self = d1
  Home = o1
  Hostname = n1
  Name = {n1}
  MaxVersion = 7
  Caller = {a1}
  Starts <- StartsPulled
  Pushes <- PushesAll
  Accepted <- AcceptedNotLast
  Contents <- FrameContents
SPECIFICATION Spec
INVARIANTS TypeOK StateTellsOutcome CommittedIsWellFormed
PROPERTIES ImplementsReplica
