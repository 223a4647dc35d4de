\* liveness, one abort; no symmetry
CONSTANTS
  Call = {c1, c2}
  Key = {docA}
  Op = {hide}
  ItemOp = {hide}
  Permission = {"ask"}
  MaxCrashes = 0
  MaxFailures = 0
  MaxAborts = 1
  NoCall = NoCall
  NoKey = NoKey
  NoSubject = NoSubject
  Subject <- MCSubject
  c1 = c1
  c2 = c2
  c3 = c3
  docA = docA
  docB = docB
  hide = hide
  select = select
SPECIFICATION Spec
PROPERTIES
  LetThroughOrAbortedEnds
