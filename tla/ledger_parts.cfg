\* lock: four calls on two documents; liveness and refinement, no symmetry
\* file: five saves, three crashes, two damaged primaries
CONSTANTS
  Call = {c1, c2, c3, c4}
  Key = {docA, docB}
  NoCall = NoCall
  NoKey = NoKey
  c1 = c1
  c2 = c2
  c3 = c3
  c4 = c4
  docA = docA
  docB = docB
  Missing = Missing
  Torn = Torn
  MaxSaves = 5
  MaxCrashes = 3
  MaxDamages = 2
SPECIFICATION PartsSpec
INVARIANTS
  LockInv FileInv
PROPERTIES
  EveryoneGetsIn ServesInOrder ActsAtomically DamageCostsOneSave
\* every call is made once, and saves, crashes and damages are bounded
CHECK_DEADLOCK FALSE
