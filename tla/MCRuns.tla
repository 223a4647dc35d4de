------------------------------- MODULE MCRuns -------------------------------
(***************************************************************************)
(* What runs, fails and must come to an end, for TLC: the chats and their  *)
(* window, the tasks of agent runs, the calls over the pipe and the        *)
(* requests to a model, each part alone, as in MCServices, and the         *)
(* fairness they end under.                                                *)
(***************************************************************************)
EXTENDS Naturals, FiniteSets, TLC

CONSTANTS
  Parts,                                                \* the parts to check
  ChatRun, Session, NoSession, Deaf, MaxNews, MaxFaults, NoRun, MaxMoves,
  AgentRun, Task, NoTask, MaxRounds, MaxReplans, MaxCalls, MaxTaskFaults,
  BridgeCall, MaxPipes,
  Bodies,                                               \* what backends send
  Unused

ASSUME RunsConstants ==
  /\ Session # {} /\ NoSession \notin Session /\ NoRun \notin ChatRun /\ NoTask \notin Task
  /\ Deaf \subseteq ChatRun /\ IsFiniteSet(AgentRun)
  /\ {MaxNews, MaxFaults, MaxMoves, MaxReplans, MaxTaskFaults} \subseteq Nat
  /\ {MaxRounds, MaxCalls, MaxPipes} \subseteq Nat \ {0}

VARIABLES
  part,
  x1, x2, x3, x4, x5, x6, x7, x8, x9, x10, x11, x12, x13, x14, x15, x16, x17,
  x18, x19, x20, x21, x22, x23, x24, x25

all ==
  <<part, x1, x2, x3, x4, x5, x6, x7, x8, x9, x10, x11, x12, x13, x14, x15, x16,
    x17, x18, x19, x20, x21, x22, x23, x24, x25>>

\* Bodies a model backend sends: text, two calls in pieces or whole, an error
\* among the text, a line that is no JSON, and an Ollama stream that breaks off
\* in the arguments of a call.
Text(t) == [is |-> "text", text |-> t]
Piece(i, id, parts) == [is |-> "call", index |-> i, id |-> id, parts |-> parts]
Arguments(id) == <<<<id, 1>>, <<id, 2>>>>
Usage == [is |-> "usage", usage |-> 5]
Lines(wire, lines) == [wire |-> wire, lines |-> lines]

MCBodies ==
  {Lines("openai", <<[is |-> "thinking"], Text(1), Usage, [is |-> "done"]>>),
   Lines("openai", <<Piece(0, 1, <<>>), Piece(1, 2, <<>>), Piece(0, 0, <<<<1, 1>>>>), Piece(0, 0, <<<<1, 2>>>>),
                     Piece(1, 0, <<<<2, 1>>>>), Piece(1, 0, <<<<2, 2>>>>)>>),
   Lines("openai", <<Text(1), [is |-> "error"], Text(2)>>),
   Lines("openai", <<Text(1), [is |-> "junk"], Text(2)>>),
   Lines("ollama", <<Text(1), Piece(0, 1, Arguments(1)), Piece(1, 2, Arguments(2)), Usage>>),
   Lines("ollama", <<Text(1), Piece(0, 1, <<<<1, 1>>>>)>>),
   Lines("ollama", <<Text(1), [is |-> "error"]>>)}

Chat == INSTANCE ChatWindow WITH
  Run <- ChatRun, sessionOf <- x1, phase <- x2, aborted <- x3, registered <- x4,
  pending <- x5, news <- x6, told <- x7, stored <- x8, scopes <- x9,
  tasks <- x10, deletion <- x11, app <- x12, channel <- x13, lost <- x14,
  excused <- x15, faults <- x16, screen <- x17, listed <- x18, active <- x19,
  watchdog <- x20, doomed <- x21, card <- x22, replies <- x23, overtaken <- x24,
  moves <- x25

Tasks == INSTANCE TaskRuns WITH
  Run <- AgentRun, MaxFaults <- MaxTaskFaults, tasks <- x1, recent <- x2,
  disk <- x3, queue <- x4, pc <- x5, then <- x6, quiet <- x7, round <- x8,
  seen <- x9, off <- x10, answer <- x11, left <- x12, fumbled <- x13,
  aborted <- x14, shared <- x15, loose <- x16, faults <- x17

Bridge == INSTANCE BridgeLink WITH
  Call <- BridgeCall, client <- x1, conn <- x2, reply <- x3, acceptor <- x4, server <- x5,
  posted <- x6, ran <- x7, endpoint <- x8

Stream == INSTANCE ModelStream WITH
  Body <- Bodies, asked <- x1, body <- x2, arrived <- x3, answer <- x4,
  aborted <- x5, completing <- x6, thrown <- x7, outcome <- x8

\* A backend numbers its calls and their fragments (the wire formats).
ASSUME StreamConstants == \A b \in Bodies : Stream!WellFormed(b)

-----------------------------------------------------------------------------

\* The names a part of k variables has no use for, and that they stay so.
NoneAfter17 ==
  x18 = Unused /\ x19 = Unused /\ x20 = Unused /\ x21 = Unused /\ x22 = Unused
  /\ x23 = Unused /\ x24 = Unused /\ x25 = Unused
NoneAfter8 ==
  x9 = Unused /\ x10 = Unused /\ x11 = Unused /\ x12 = Unused /\ x13 = Unused /\ x14 = Unused
  /\ x15 = Unused /\ x16 = Unused /\ x17 = Unused
  /\ NoneAfter17
KeepAfter8 ==
  UNCHANGED <<part, x9, x10, x11, x12, x13, x14, x15, x16, x17, x18, x19, x20, x21,
              x22, x23, x24, x25>>
KeepAfter17 ==
  UNCHANGED <<part, x18, x19, x20, x21, x22, x23, x24, x25>>

Init ==
  /\ part \in Parts
  /\ \/ part = "chat" /\ Chat!Init
     \/ part = "tasks" /\ Tasks!Init /\ NoneAfter17
     \/ part = "bridge" /\ Bridge!LinkInit /\ NoneAfter8
     \/ part = "stream" /\ Stream!StreamInit /\ NoneAfter8

ChatStep(A) == part = "chat" /\ A /\ UNCHANGED part
TasksStep(A) == part = "tasks" /\ A /\ KeepAfter17
BridgeStep(A) == part = "bridge" /\ A /\ KeepAfter8
StreamStep(A) == part = "stream" /\ A /\ KeepAfter8

Next ==
  \/ part = "chat" /\ Chat!Next /\ UNCHANGED part
  \/ part = "tasks" /\ Tasks!Next /\ KeepAfter17
  \/ part = "bridge" /\ Bridge!LinkNext /\ KeepAfter8
  \/ part = "stream" /\ Stream!StreamNext /\ KeepAfter8

\* Promises settle, timers fire, messages arrive, the disk answers and threads
\* are scheduled, as each module says of its steps; nobody has to send, to stop,
\* to call or to quit, and a server may stay silent.
ChatFairness ==
  /\ \A r \in ChatRun :
       /\ WF_all(ChatStep(Chat!Unwinds(r)))
       /\ WF_all(ChatStep(Chat!Settles(r)))
  /\ WF_all(ChatStep(Chat!DeletionGoesOn))
  /\ WF_all(ChatStep(Chat!AppExits))
  /\ WF_all(ChatStep(Chat!ArrivalStep))
  /\ WF_all(ChatStep(Chat!WatchdogFires))

TaskFairness ==
  /\ \A r \in AgentRun : WF_all(TasksStep(Tasks!RunStep(r)))
  /\ WF_all(TasksStep(\E ok \in BOOLEAN : Tasks!Written(ok)))

BridgeFairness ==
  /\ \A c \in BridgeCall : /\ WF_all(BridgeStep(Bridge!CallStep(c)))
                           /\ WF_all(BridgeStep(Bridge!WorkerStep(c)))
  /\ WF_all(BridgeStep(Bridge!AcceptorStep))
  /\ WF_all(BridgeStep(Bridge!ThreadStep))
  /\ WF_all(BridgeStep(Bridge!Disposed))

StreamFairness ==
  /\ WF_all(StreamStep(Stream!TimerFires))
  /\ WF_all(StreamStep(Stream!Rejects))
  /\ WF_all(StreamStep(Stream!Cancelled))

Spec ==
  /\ Init /\ [][Next]_all
  /\ ChatFairness /\ TaskFairness /\ BridgeFairness /\ StreamFairness

-----------------------------------------------------------------------------

\* A call runs once at most, a call reported as not sent never does, and a result
\* is that of a call that ran (bridgeClient.ts and BridgeServer.cs).
CallsRunAsReported == part = "bridge" => Bridge!RunAsReported

\* A caller gets the answer that arrived, whole calls and its own abort
\* (openaiProvider.ts, ollamaProvider.ts).
AnswerIsTheBody == part = "stream" => Stream!AnswerIsTheBody

\* A run gives one answer and leaves nothing that waits for it (ipc.ts).
RunsAnswerOnce == part = "chat" => Chat!RunsAnswerOnce

\* The window shows the run that is underway and its questions (App.tsx).
WindowFollowsRuns == part = "chat" => Chat!WindowFollowsRuns

\* A task is completed only after it was judged so, is not left running, and is
\* on disk when its run reports success (agentRuntime.ts, taskManager.ts).
TasksAreHonest == part = "tasks" => Tasks!TasksAreHonest

\* A completed task on disk stays completed, with its plan (taskManager.ts).
FinalIsFinal == [][part = "tasks" => Tasks!FinalStays]_all

\* What the user waits for ends: the deletion of a session whose runs do not,
\* a run that was aborted, a run whatever the model answers, and a request to a
\* silent server (ipc.ts, agentRuntime.ts, and the two providers).
WaitsEnd ==
  /\ []<>~(part = "chat" /\ Chat!DeletionWaits)
  /\ \A r \in ChatRun \ Deaf : []<>~(part = "chat" /\ Chat!Unwinding(r))
  /\ \A r \in AgentRun : []<>~(part = "tasks" /\ r \in Tasks!Alive)
  /\ []<>~(part = "stream" /\ ~Stream!RequestOver)

\* After a stop the window is not left busy (App.tsx).
StopReleases ==
  \A s \in Session :
    (part = "chat" /\ Chat!Stopped(s)) ~> ~(part = "chat" /\ Chat!BusyWith(s))

\* The server of the bridge listens again after every client, and leaves
\* nothing behind when it is unloaded (BridgeServer.cs).
BridgeComesAndGoes ==
  /\ []<>~(part = "bridge" /\ ~Bridge!Listens)
  /\ []<>~(part = "bridge" /\ Bridge!Lingers)

\* No definition tells one run of an agent from another.
AgentSymmetry == Permutations(AgentRun)
=============================================================================
