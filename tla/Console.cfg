\* Two clients, four requests of which two are under way at a time, two labels, two
\* policies, one restart.
CONSTANTS
  l1 = l1  l2 = l2  web = web  tcp = tcp  fw0 = fw0  fw1 = fw1  fw2 = fw2  rr = rr  lc = lc
  a = a  b = b  r1 = r1  r2 = r2  b0 = b0  b1 = b1
  None = None  Bad = Bad  Blank = Blank  Unknown = Unknown
  Family = {"v4", "v6"}
  Width <- Widths
  Client = {a, b}
  Request = {r1, r2}
  Label = {l1, l2}
  Policy <- Policies
  Script <- Scripts
  Packet <- PacketsOfPolicies
  Field = {"algorithm", "max_conns"}
  Value = {rr, lc, 1, 2, 3}
  Modal <- Dialog
  Configured <- Pool
  Rule = {fw2}
  ConfigRules <- OneRule
  Button = {b1}
  DefaultButtons <- OneButton
  MaxEdits = 4
  MaxCrashes = 1
SPECIFICATION Spec
SYMMETRY Clients
CONSTRAINT OneConcern
INVARIANTS AckedIsSaved DanglingOnlyByLabels LiveIsStored RoutesPackets
PROPERTY UndoesOnlyWhenStale
CHECK_DEADLOCK FALSE
