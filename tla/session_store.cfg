\* two sessions, four changes, one refused write, one crash, two damaged files
CONSTANTS
  Session = {s1, s2}
  NoSession = NoSession
  Missing = Missing
  Damaged = Damaged
  MaxWrites = 4
  MaxFailures = 1
  MaxCrashes = 1
  MaxDamages = 2
  s1 = s1
  s2 = s2
SPECIFICATION Spec
INVARIANTS
  StoreInv
  EitherFileWillDo
  HistoryIsCurrent
PROPERTIES
  PairActsAtomically
SYMMETRY SessionSymmetry
