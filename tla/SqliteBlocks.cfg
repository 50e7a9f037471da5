\* A configuration request and another on one device with one column, one restart.
CONSTANTS
  None = None
  Device = {d1}
  Request = {r1, r2}
  Field = {hostname}
  Value = {x, y}
  Version = {1, 2}
  MaxCrashes = 1
SPECIFICATION Spec

PROPERTY EveryCallReturns
CHECK_DEADLOCK FALSE
