\* two calls that may retry the ambiguous modification of a third; one crash,
\* one refused save
CONSTANTS
  Call = {c1, c2, c3}
  Key = {docA}
  Op = {hide}
  ItemOp = {}
  Permission = {"allow"}
  MaxCrashes = 1
  MaxFailures = 1
  MaxAborts = 0
  NoCall = NoCall
  NoKey = NoKey
  NoSubject = NoSubject
  Subject <- MCSubject
  c1 = c1
  c2 = c2
  c3 = c3
  docA = docA
  docB = docB
  hide = hide
  select = select
SPECIFICATION RetrySpec
INVARIANTS
  RecordInv
  CrashLeavesSuspicion
  RetriesAreConfirmed
PROPERTIES
  DurableVerdictStable
SYMMETRY RetrySymmetry
