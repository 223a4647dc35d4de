\* one session, one restart
CONSTANTS
  Session = {s1}
  NoSession = NoSession
  Missing = Missing
  Damaged = Damaged
  MaxWrites = 5
  MaxFailures = 0
  MaxCrashes = 1
  MaxDamages = 0
  s1 = s1
  s2 = s2
SPECIFICATION Spec
INVARIANTS
  SummaryKept
SYMMETRY SessionSymmetry
