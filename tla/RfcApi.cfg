\* Two processes; the merge of two ini files, or of three with an empty one;
\* up to two deaths, starts, stops or hangs.  Everybody may be waiting for a
\* tr69hostif that hangs.
CONSTANTS
  p1 = p1  p2 = p2  a = a  rfc = rfc  dot = dot  v1 = v1  v2 = v2
  Procs = {p1, p2}
  Names = {a, rfc, dot}
  Legacy = {rfc}
  Wildcards = {dot}
  Values = {v1, v2}
  Empty = Empty
  Absent = Absent
  NoLines = NoLines
  IniFiles <- IniFilesDef
  EtcDirs <- EtcDirsDef
  MaxEvents = 2
SPECIFICATION FairSpec
INVARIANTS TypeOK MergedWhenQuiet
PROPERTIES ReadsEffective CallReturns
CHECK_DEADLOCK FALSE
