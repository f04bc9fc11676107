SPECIFICATION Spec
CONSTANTS
  p1 = p1
  p2 = p2
  e1 = e1
  Procs = {p1, p2}
  Schedules <- MCSchedules
  Entries = {e1}
  Complaint = Complaint
  NoFile = NoFile
  NoLine = NoLine
  NoValue = NoValue
  TooShort = TooShort
  MaxEvents = 3
SYMMETRY Symmetry
INVARIANTS
  TypeOK
  ThreeMinutesEarlier
  EntryReplaced
  OthersKept
  FollowsDcm
