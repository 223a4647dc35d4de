\* two calls on items, one refused save, one abort
CONSTANTS
  Call = {c1, c2}
  Key = {docA, docB}
  Op = {hide}
  ItemOp = {hide}
  Permission = {"ask"}
  MaxCrashes = 0
  MaxFailures = 1
  MaxAborts = 1
  NoCall = NoCall
  NoKey = NoKey
  NoSubject = NoSubject
  Subject <- MCSubject
  c1 = c1
  c2 = c2
  c3 = c3
  docA = docA
  docB = docB
  hide = hide
  select = select
SPECIFICATION Spec
INVARIANTS
  SerialPerDocument
  HonestRecord
  ReportedUntouched
  FaultsExplain
SYMMETRY CallSymmetry
