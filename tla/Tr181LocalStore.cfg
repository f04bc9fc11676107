CONSTANTS
  c1 = c1
  c2 = c2
  v1 = v1
  v2 = v2
  Callers = {c1, c2}
  Keys <- MCKeys
  Values = {v1}
  Empty = Empty
  Absent = Absent
  Cuts <- MCCuts
  Targets <- MCTargets
  Defaults <- MCDefaults
  MaxInterrupts = 1
  MaxCrashes = 1
SPECIFICATION FairSpec
INVARIANTS TypeOK MutualExclusion FreshDict
PROPERTIES PermitReturns AtomicStore
