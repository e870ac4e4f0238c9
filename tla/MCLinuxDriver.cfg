\* Probe, removal and all three ways to the registers.
CONSTANTS
  p1 = p1
  p2 = p2
  d1 = d1
  d2 = d2
  None = None
  Process = {p1, p2}
  Device = {d1, d2}
  Failing <- MCFailing
  RegSize = 16
  Offset <- MCOffset
  Watched = {3, 4}
SPECIFICATION DriverSpec
INVARIANTS DriverTypeOK NothingLeaks  ConfigurationIsOwn LockHasHolder
PROPERTY TeardownEnds
