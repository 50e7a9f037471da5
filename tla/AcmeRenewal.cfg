\* The renewal loop and one issuance through the API, two days, one crash.
CONSTANTS
  None = None
  Loop = loop
  Api = {api}
  Domain = {d1}
  RenewDays = 1
  Configs <- Two
  MaxDay = 1
  MaxPairs = 2
  MaxCrashes = 1
SPECIFICATION FairSpec
INVARIANTS PairTogether ResourcesAccounted
PROPERTY LoopComesBack
CHECK_DEADLOCK FALSE
