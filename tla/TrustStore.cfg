SPECIFICATION TrustSpec
CONSTANTS
  t1 = t1
  t2 = t2
  t3 = t3
  c1 = c1
  c2 = c2
  Starts = {t1, t2, t3}
  Runs = {c1, c2}
  Here = "here"
  There = "there"
  Other = Other
  Absent = Absent
  Torn = Torn
INVARIANTS
  PinsKept
  AlarmJustified
SYMMETRY MCSymmetry
CHECK_DEADLOCK FALSE
