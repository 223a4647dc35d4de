\* the request of a run alone
SPECIFICATION Spec
CONSTANTS
  Parts = {"request"}
  Unused = Unused
  \* search: two calls, two documents of two items, pages and cache of two
  Finder = {f1, f2}  Items = 2  Named = {1}  Valued = {1, 2}  Limit = 2  Fuse = 5  Cached = 2
  MaxOpens = 2  MaxFinds = 3  MaxLost = 1
  \* guard: six calls of one signature
  Fingerprint = {same, other}  MaxRepeats = 6
  \* epochs: a source with a silent value, four runs, two summaries
  Durable = {"document"}  Silent = {2}  MaxValue = 3  MaxWorldChanges = 3  MaxSummaries = 2  MaxEpochRuns = 4
  \* documents: two instances, one of which changes once, two documents, two runs
  Instance = {i1, i2}  Session = {s1}  MaxDocuments = 2  MaxMoves = 1  MaxRefreshes = 2  MaxRuns = 2
  \* request: a budget of seven, results of one and two, four passes through the loop
  Budget = 7  Trigger = 4  KeepFrames = 1  MinFrames = 2  Inline = 1  MaxHistory = 3  Lengths = {1, 2}
  SummarySizes = {1, 5}  Blocks = {0, 1}  MaxRounds = 4
  \* settings: two callers, three requests, one fault
  Caller = {c1, c2}  Profile = {legacy, p}  Legacy = legacy  Key = {k1}  Nothing = Nothing
  MaxRequests = 3  MaxFaults = 1
  \* window: a size and none, a local window below the smallest, two changes
  Size = {9}  Lowest = 3  LocalWindow = 2  FallbackWindow = 4  FreeReserve = 3  LocalPredict = 2  MaxChanges = 2
  \* values: two models, lists of two
  AbsentValue = Absent  Ref = {m1, m2}  Blank = Blank  MaxList = 2
  \* capabilities: two providers, a tool of theirs and one of the core
  Id = {a, b}  ToolName = {t1, ti}  Source = {}  InternalTool = {ti}  MaxPermits = 2  p1 = p1  p2 = p2  Providers <- MCProviders
INVARIANTS
  RoundsStayVerbatim
\* calls, documents and changes are bounded: a part may come to its end
CHECK_DEADLOCK FALSE
