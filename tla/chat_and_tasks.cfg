\* the chats and the tasks with two runs each
SPECIFICATION Spec
CONSTANTS
  Parts = {"chat", "tasks"}
  Unused = Unused
  \* chat: two runs, one of them deaf to its abort, two moves of the user, one fault
  ChatRun = {r1, r2}  Session = {s1, s2}  NoRun = NoRun  NoSession = NoSession  Deaf = {r1}
  MaxNews = 1  MaxFaults = 1  MaxMoves = 2
  \* tasks: two runs of two rounds, two tasks
  AgentRun = {a1, a2}  Task = {t1, t2}  NoTask = NoTask
  MaxRounds = 2  MaxReplans = 1  MaxCalls = 1  MaxTaskFaults = 1
  \* not run here
  BridgeCall = {c1}  MaxPipes = 1  Bodies <- MCBodies
SYMMETRY AgentSymmetry
INVARIANTS
  RunsAnswerOnce WindowFollowsRuns TasksAreHonest
PROPERTIES
  FinalIsFinal
\* every run was started, every move made: the user may stop there
CHECK_DEADLOCK FALSE
