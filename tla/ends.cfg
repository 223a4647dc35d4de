\* every part alone, each within its own bounds
SPECIFICATION Spec
CONSTANTS
  Parts = {"chat", "tasks", "bridge", "stream"}
  Unused = Unused
  \* chat: two runs, one of them deaf to its abort, one move of the user, one fault
  ChatRun = {r1, r2}  Session = {s1, s2}  NoRun = NoRun  NoSession = NoSession  Deaf = {r1}
  MaxNews = 1  MaxFaults = 1  MaxMoves = 1
  \* tasks: one run of three rounds, two tasks
  AgentRun = {a1}  Task = {t1, t2}  NoTask = NoTask
  MaxRounds = 3  MaxReplans = 1  MaxCalls = 2  MaxTaskFaults = 2
  \* bridge: two calls, and as many instances of the pipe
  BridgeCall = {c1, c2}  MaxPipes = 2
  \* stream: text, calls in pieces or whole, errors, and streams that break off
  Bodies <- MCBodies
INVARIANTS
  CallsRunAsReported AnswerIsTheBody
PROPERTIES
  WaitsEnd StopReleases BridgeComesAndGoes
\* every run was started, every call made: nobody has to begin anything else
CHECK_DEADLOCK FALSE
