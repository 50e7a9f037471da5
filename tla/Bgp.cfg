\* A configured neighbor with two connections and a stranger, one prefix.
CONSTANTS
  n1 = n1  n2 = n2  p = p  q = q
  None = None
  Neighbor = {n1, n2}
  Configured = {n1}
  Settings <- SettingsOfN1
  Conn <- ConnThree
  Prefix = {p}
  Networks = {p}
  PathLen <- Lens
  Open <- Opens
  Modes <- ThreeModes
SPECIFICATION FairSpec
INVARIANT RibTellsLastStatement
PROPERTIES DisplacedByBetter EndedIsRedialed
