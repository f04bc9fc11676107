\* A runner, a refused process that removes the lock file, a third process.
\* No signal, no SIGKILL: three plain starts are enough.
CONSTANTS
  p1 = p1  p2 = p2  p3 = p3
  n1 = n1  n2 = n2  n3 = n3
  Instances = {p1, p2, p3}
  Inodes = {n1, n2, n3}
  None = None
  IpRouteCnt = 1
  MaxStarts = 3
  MaxEvents = 0
SPECIFICATION Spec
INVARIANTS OneInstance
CHECK_DEADLOCK FALSE
