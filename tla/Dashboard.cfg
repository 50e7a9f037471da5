\* A page that polls a daemon with two pools; one backend's latencies.
CONSTANTS
  None = None
  t1 = t1  t2 = t2  t3 = t3  w1 = w1  w2 = w2
  Object <- Objects
  AddrOf <- Addresses
  Listed <- Pools
  Tcp = {1}
  Sampled = {t1}
  Slots = 3
  Sample = {0, 1, 2, 3}
  MaxTime = 4
  MaxBytes = 3
  MaxSamples = 5
  MaxStoring = 2
  MaxRestarts = 1
SPECIFICATION Spec
INVARIANT PercentileIsNearestRank
PROPERTY RateIsCarried
CONSTRAINT OneConcern
CHECK_DEADLOCK FALSE
