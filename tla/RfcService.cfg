\* Two processes and three starts: a runner, a refused process that removes
\* its lock file and comes back to take a new one.  Two checks of the route
\* instead of five.  All processes may have ended and none be left to start.
CONSTANTS
  p1 = p1  p2 = p2  p3 = p3
  n1 = n1  n2 = n2  n3 = n3
  Instances = {p1, p2}
  Inodes = {n1, n2}
  None = None
  IpRouteCnt = 2
  MaxStarts = 3
  MaxEvents = 1
SPECIFICATION FairSpec
INVARIANTS TypeOK OneUntilExposed NoStaleLockFile
PROPERTIES RefusedByHolder ProcessEnds
CHECK_DEADLOCK FALSE
