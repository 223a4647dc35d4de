------------------------------ MODULE TaskRuns ------------------------------
(***************************************************************************)
(* The loop of the agent and the tasks it works on: main/agentRuntime.ts   *)
(* (AgentRuntime.run), main/agent/taskManager.ts, taskTypes.ts,            *)
(* taskRepository.ts, taskPlanner.ts and taskVerifier.ts.                  *)
(*                                                                         *)
(* The runs are those of one session; nothing keeps two of them from       *)
(* overlapping.  A run asks the model, executes the tools it names and,    *)
(* while it has a running task, lets a verifier judge what was reached     *)
(* (the gate).  Every change of a task is made in memory at once and then  *)
(* waits for a write of all tasks; the writes are one queue, and each      *)
(* takes the tasks as they are when it begins.  A run works with a copy    *)
(* of the status and the plan of its task (seen), refreshed by some of     *)
(* its own writes only.                                                    *)
(***************************************************************************)
EXTENDS Naturals, Sequences, FiniteSets

CONSTANTS Run, Task, NoTask,
          MaxRounds,   \* settings: maxToolRounds
          MaxReplans,  \* settings: maxTaskReplans
          MaxCalls,    \* bound on the tool calls of one answer of the model
          MaxFaults    \* bound on failed writes, aborts and crashes

VARIABLES
  tasks,    \* #tasks
  recent,   \* the tasks by updatedAt, the latest first
  disk,     \* what the last write that succeeded holds: the tasks and their order
  queue,    \* runs whose write has not been made yet
  pc,       \* where a run is
  then,     \* where it goes on when its write is made
  quiet,    \* runs that swallow a failure of their write
  round,    \* how many rounds it has behind it
  seen,     \* activeTask: its copy of the task
  off,      \* verificationDisabled, and taskDecisionMade
  answer,   \* what the model answered in this round
  left,     \* tool calls of it to execute
  fumbled,  \* roundHadToolFailure
  aborted,  \* runs whose signal is aborted
  shared,   \* auxiliary: tasks two runs worked on at the same time
  loose,    \* auxiliary: tasks an unverified run went on with, or one whose write failed
  faults

taskVars == <<tasks, recent, disk, queue>>
runVars  == <<pc, then, quiet, round, seen, off, answer, left, fumbled>>
auxVars  == <<aborted, shared, loose, faults>>
vars     == <<taskVars, runVars, auxVars>>

Terminal == {"succeeded", "failed", "aborted", "lost"}
Alive    == {r \in Run : pc[r] \notin Terminal \cup {"idle"}}

Absent == [status |-> "absent", plan |-> 0, replans |-> 0, judged |-> 0]
Unseen == [id |-> NoTask, status |-> "absent", plan |-> 0, replans |-> 0]

Init ==
  /\ tasks = [t \in Task |-> Absent] /\ recent = <<>>
  /\ disk = [tasks |-> tasks, recent |-> recent] /\ queue = <<>>
  /\ pc = [r \in Run |-> "idle"] /\ then = [r \in Run |-> "idle"]
  /\ quiet = {}
  /\ round = [r \in Run |-> 0] /\ seen = [r \in Run |-> Unseen]
  /\ off = [r \in Run |-> {}] /\ answer = [r \in Run |-> "none"]
  /\ left = [r \in Run |-> 0] /\ fumbled = {}
  /\ aborted = {} /\ shared = {} /\ loose = {} /\ faults = 0

----------------------------------------------------------------------------
(* The tasks *)

Transitions ==
  [planning |-> {"running", "paused", "cancelled"},
   running  |-> {"completed", "paused", "blocked", "cancelled"},
   paused   |-> {"running", "cancelled"}, blocked |-> {"running", "cancelled"},
   completed |-> {}, cancelled |-> {}]

\* Slip: the transition table is not consulted.
MayBecomeAny(t, status) == TRUE

MayBecome(t, status) ==
  status = tasks[t].status \/ status \in Transitions[tasks[t].status]

Resumable == {t \in Task : tasks[t].status \in {"planning", "running", "paused", "blocked"}}

\* The copy a run gets of task t.
Snapshot(t) == [id |-> t, status |-> tasks[t].status,
                plan |-> tasks[t].plan, replans |-> tasks[t].replans]

Goto(r, label) == pc' = [pc EXCEPT ![r] = label]

\* A step of the run that changes no task.
Step(r, label) == Goto(r, label) /\ UNCHANGED <<taskVars, then, quiet>>

\* mutate and persist: the change is made, the run waits for a write of it.
Mutate(r, t, new, label) ==
  /\ tasks' = [tasks EXCEPT ![t] = new]
  /\ recent' = <<t>> \o SelectSeq(recent, LAMBDA u : u # t)
  /\ queue' = Append(queue, r)
  /\ Goto(r, "writing") /\ then' = [then EXCEPT ![r] = label]
  /\ UNCHANGED disk

\* complete, block, markRunning: an illegal transition throws into the run.
SetStatus(r, status, label) ==
  LET t == seen[r].id IN
  /\ IF MayBecome(t, status)
     THEN Mutate(r, t, [tasks[t] EXCEPT
            !.status = status,
            !.judged = IF status = "completed" THEN seen[r].plan ELSE @], label)
     ELSE Goto(r, "caught") /\ UNCHANGED <<taskVars, then>>
  /\ UNCHANGED quiet

\* pauseIfRunning: only by the copy of the run, and whatever comes of it.
PauseThen(r, label) ==
  LET t == seen[r].id IN
  IF seen[r].status = "running" /\ MayBecome(t, "paused")
  THEN /\ Mutate(r, t, [tasks[t] EXCEPT !.status = "paused"], label)
       /\ quiet' = quiet \cup {r}
  ELSE Step(r, label)

\* Notes on a task (evidence, the status of its steps) only need the write.
Note(r, label) == Mutate(r, seen[r].id, tasks[seen[r].id], label) /\ UNCHANGED quiet

\* Whether the write it waits for gives a run a new copy of its task.
Refreshed(r) == then[r] \notin {"noted", "judged"}

\* The head of the queue is written.  The run gets a new copy of the task,
\* except after evidence; a failed write throws into it, unless it pauses.
Written(ok) ==
  /\ queue # <<>> /\ (ok \/ faults < MaxFaults)
  /\ LET r == Head(queue) IN
     /\ queue' = Tail(queue)
     /\ disk' = IF ok THEN [tasks |-> tasks, recent |-> recent] ELSE disk
     /\ faults' = IF ok THEN faults ELSE faults + 1
     /\ loose' = IF ok THEN loose ELSE loose \cup {seen[r].id}
     /\ Goto(r, IF ok \/ r \in quiet THEN then[r] ELSE "caught")
     /\ quiet' = quiet \ {r}
     /\ seen' = IF ok /\ Refreshed(r)
                THEN [seen EXCEPT ![r] = Snapshot(@.id)] ELSE seen
     /\ UNCHANGED <<tasks, recent, then, round, off, answer, left, fumbled, aborted, shared>>

\* initialize and recoverFrom after a crash: what was under way is paused.
Restart ==
  /\ Alive # {} /\ faults < MaxFaults /\ faults' = faults + 1
  /\ tasks' = [t \in Task |->
       IF disk.tasks[t].status \in {"planning", "running"}
       THEN [disk.tasks[t] EXCEPT !.status = "paused"] ELSE disk.tasks[t]]
  /\ recent' = disk.recent /\ disk' = [disk EXCEPT !.tasks = tasks']
  /\ queue' = <<>> /\ quiet' = {}
  /\ pc' = [r \in Run |-> IF r \in Alive THEN "lost" ELSE pc[r]]
  /\ UNCHANGED <<then, round, seen, off, answer, left, fumbled, aborted, shared, loose>>

----------------------------------------------------------------------------
(* The run *)

\* getResumableTaskForSession: the latest task that can be resumed.
Latest ==
  {t \in Resumable : \E i \in DOMAIN recent :
     recent[i] = t /\ \A j \in 1..(i - 1) : recent[j] \notin Resumable}

Start(r) ==
  LET t == IF Latest = {} THEN NoTask ELSE CHOOSE found \in Latest : TRUE
  IN /\ pc[r] = "idle" /\ Step(r, "model")
     /\ seen' = [seen EXCEPT ![r] = IF t = NoTask THEN Unseen ELSE Snapshot(t)]
     /\ shared' = IF t # NoTask /\ \E o \in Alive : seen[o].id = t
                  THEN shared \cup {t} ELSE shared
     /\ UNCHANGED <<round, off, answer, left, fumbled, aborted, loose, faults>>

Judging(r) == seen[r].status = "running" /\ "verification" \notin off[r]

\* provider.complete: no text at all, the text of an answer, or tool calls.
Answers(r, what, calls) ==
  /\ pc[r] = "model" /\ r \notin aborted
  /\ answer' = [answer EXCEPT ![r] = what]
  /\ left' = [left EXCEPT ![r] = calls] /\ fumbled' = fumbled \ {r}
  /\ CASE what = "empty" -> PauseThen(r, "failed")
       [] what = "text"  -> Step(r, IF Judging(r) THEN "verifying" ELSE "succeeded")
       [] what = "tools" ->
            Step(r, IF seen[r].id = NoTask /\ "decision" \notin off[r]
                    THEN "planning" ELSE "ready")
  /\ UNCHANGED <<round, seen, off, auxVars>>

\* TASK_PLANNER.plan: what the attempts of the planner come to; none of them
\* valid is no decision and, for the run, no task.
Decisions == {"none", "no task", "task"}

\* The planner decides once in a run.
Plan(r, decision) ==
  /\ pc[r] = "planning" /\ r \notin aborted
  /\ off' = [off EXCEPT ![r] = @ \cup {"decision"}]
  /\ IF decision = "task"
     THEN LET unused == {t \in Task : tasks[t] = Absent}
              t == CHOOSE t \in unused : TRUE
          IN
          /\ unused # {}
          /\ Mutate(r, t, [Absent EXCEPT !.status = "planning", !.plan = 1], "ready")
          /\ seen' = [seen EXCEPT ![r].id = t] /\ UNCHANGED quiet
     ELSE Step(r, "tools") /\ UNCHANGED seen
  /\ UNCHANGED <<round, answer, left, fumbled, auxVars>>

\* markRunning: only because the model executes tools again.
Ready(r) ==
  /\ pc[r] = "ready"
  /\ IF seen[r].id = NoTask \/ seen[r].status = "running" THEN Step(r, "tools")
     ELSE SetStatus(r, "running", "tools")
  /\ UNCHANGED <<round, seen, off, answer, left, fumbled, auxVars>>

\* One tool call: executed, with success or not; put aside (an internal tool,
\* a warning of the loop guard); ended by the guard; or the end of the run.
Tool(r, outcome) ==
  /\ pc[r] \in {"tools", "noted"} /\ left[r] > 0 /\ r \notin aborted
  /\ left' = [left EXCEPT ![r] = @ - 1]
  /\ fumbled' = IF outcome = "stopped" \/ (outcome = "failed" /\ seen[r].id # NoTask)
                THEN fumbled \cup {r} ELSE fumbled
  /\ IF outcome \in {"done", "failed"} /\ seen[r].id # NoTask THEN Note(r, "noted")
     ELSE Step(r, IF outcome = "environment gone" THEN "caught" ELSE "tools")
  /\ UNCHANGED <<round, seen, off, answer, auxVars>>

ToolsDone(r) ==
  /\ pc[r] \in {"tools", "noted"} /\ left[r] = 0
  /\ Step(r, IF r \in fumbled /\ Judging(r) THEN "verifying" ELSE "next")
  /\ UNCHANGED <<round, seen, off, answer, left, fumbled, auxVars>>

\* Where the gate leads: an answer in text ends the run, tool calls go on.
Onward(r) == IF answer[r] = "tools" THEN "next" ELSE "succeeded"

\* No verdict, or no new plan: the task is paused and not judged again.
Unjudged(r) ==
  /\ off' = [off EXCEPT ![r] = @ \cup {"verification"}]
  /\ loose' = IF answer[r] = "tools" THEN loose \cup {seen[r].id} ELSE loose
  /\ PauseThen(r, Onward(r))

Spent(r) == seen[r].replans >= MaxReplans

\* TASK_VERIFIER.verify: a verdict, or none when no attempt gave a valid one.
Verdicts == {"none", "complete", "blocked", "replan", "continue"}

\* runCompletionGate with the verdict of the verifier.
Verdict(r, verdict) ==
  /\ pc[r] = "verifying" /\ r \notin aborted
  /\ CASE verdict = "none"     -> Unjudged(r)
       [] verdict = "complete" -> SetStatus(r, "completed", Onward(r))
       [] verdict = "blocked"  -> SetStatus(r, "blocked", "succeeded")
       [] verdict = "replan"   -> IF Spent(r)
                                  THEN SetStatus(r, "blocked", "succeeded")
                                  ELSE Step(r, "replanning")
       [] verdict = "continue" -> Note(r, "judged")
  /\ verdict # "none" => UNCHANGED <<off, loose>>
  /\ UNCHANGED <<round, seen, answer, left, fumbled, aborted, shared, faults>>

\* applyVerification, after the verdict itself was written down.
Apply(r) ==
  /\ pc[r] = "judged" /\ Note(r, "next")
  /\ UNCHANGED <<round, seen, off, answer, left, fumbled, auxVars>>

\* TASK_PLANNER.replan: another plan, or none after all attempts.
NewPlans == {"none", "plan"}

\* replacePlan.
Replan(r, new) ==
  /\ pc[r] = "replanning" /\ r \notin aborted
  /\ IF new = "plan"
     THEN LET t == seen[r].id IN
          /\ Mutate(r, t, [tasks[t] EXCEPT !.plan = @ + 1, !.replans = @ + 1], "next")
          /\ UNCHANGED <<off, loose, quiet>>
     ELSE Unjudged(r)
  /\ UNCHANGED <<round, seen, answer, left, fumbled, aborted, shared, faults>>

Counted(r) == round[r] + 1

More(n) == n < MaxRounds

\* Slip: a run that ends at its limit leaves its task as it is.
LimitUnpaused(r) == Step(r, "failed")

Limit(r) == PauseThen(r, "failed")

\* The end of a round, and after the last one the end of the run.
NextRound(r) ==
  /\ pc[r] = "next" /\ round' = [round EXCEPT ![r] = Counted(r)]
  /\ IF More(round'[r]) THEN Step(r, "model") ELSE Limit(r)
  /\ UNCHANGED <<seen, off, answer, left, fumbled, auxVars>>

\* emitInternalToolCall: the hidden calls of planner and verifier swallow what
\* the provider and their timer throw, but not the abort of the run.
Hidden == {"planning", "verifying", "replanning"}

\* Where the signal of the run throws into it.
Waiting(r) == pc[r] \in {"model", "tools", "noted"} \cup Hidden

\* Something throws into the run: the provider, or the signal.
Throws(r) ==
  /\ IF r \in aborted THEN Waiting(r) ELSE pc[r] = "model"
  /\ Step(r, "caught")
  /\ UNCHANGED <<round, seen, off, answer, left, fumbled, auxVars>>

Catch(r) ==
  /\ pc[r] = "caught"
  /\ PauseThen(r, IF r \in aborted THEN "aborted" ELSE "failed")
  /\ UNCHANGED <<round, seen, off, answer, left, fumbled, auxVars>>

Abort(r) ==
  /\ r \in Alive \ aborted /\ faults < MaxFaults
  /\ aborted' = aborted \cup {r} /\ faults' = faults + 1
  /\ UNCHANGED <<taskVars, runVars, shared, loose>>

----------------------------------------------------------------------------

RunStep(r) ==
  \/ Answers(r, "empty", 0) \/ Answers(r, "text", 0)
  \/ \E n \in 1..MaxCalls : Answers(r, "tools", n)
  \/ \E decision \in Decisions : Plan(r, decision)
  \/ Ready(r)
  \/ \E o \in {"done", "failed", "aside", "stopped", "environment gone"} : Tool(r, o)
  \/ ToolsDone(r)
  \/ \E v \in Verdicts : Verdict(r, v)
  \/ Apply(r)
  \/ \E new \in NewPlans : Replan(r, new)
  \/ NextRound(r) \/ Throws(r) \/ Catch(r)

Next ==
  \/ \E r \in Run : Start(r) \/ RunStep(r) \/ Abort(r)
  \/ \E ok \in BOOLEAN : Written(ok)
  \/ Restart

\* The provider answers or times out, the disk answers, the loop goes on.
Fairness == (\A r \in Run : WF_vars(RunStep(r))) /\ WF_vars(\E ok \in BOOLEAN : Written(ok))

Spec == Init /\ [][Next]_vars /\ Fairness

----------------------------------------------------------------------------
(* Properties *)

TaskTypeOK ==
  /\ \A t \in Task : tasks[t].status \in DOMAIN Transitions \cup {"absent"}
  /\ \A i \in DOMAIN queue : pc[queue[i]] = "writing"
  /\ \A r \in Run : seen[r].id \in Task \cup {NoTask} /\ round[r] \in 0..MaxRounds

\* Tool success is never task success: a completed task was judged complete
\* by the criteria of the plan it has, unless two runs worked on it.
CompletedWasJudged ==
  \A t \in Task : tasks[t].status = "completed" /\ t \notin shared =>
    tasks[t].judged = tasks[t].plan

\* The end-of-run safety: when no run works on a task it is not running, unless
\* a write failed or a run went on after the verifier had failed it.
NoneLeftRunning ==
  \A t \in Task : tasks[t].status = "running" =>
    \/ \E r \in Alive : seen[r].id = t
    \/ t \in loose \cup shared

\* A task is replanned at most so often, once more for a run beside it.
ReplansBounded ==
  \A t \in Task : tasks[t].replans <=
    MaxReplans + (IF t \in shared THEN Cardinality(Run) - 1 ELSE 0)

\* A run that ended well with its task completed leaves it completed on disk,
\* through every later failure of a write and every crash.
SuccessIsDurable ==
  \A r \in Run : pc[r] = "succeeded" /\ seen[r].status = "completed" =>
    disk.tasks[seen[r].id].status = "completed"

\* Whatever a run, a write or a crash does, the tasks are what was found out.
TasksAreHonest ==
  /\ TaskTypeOK /\ CompletedWasJudged /\ NoneLeftRunning /\ ReplansBounded
  /\ SuccessIsDurable

\* What is completed on disk stays so, with the plan it was judged by.
FinalStays ==
  \A t \in Task : disk.tasks[t].status = "completed" =>
    /\ disk'.tasks[t].status = "completed"
    /\ disk'.tasks[t].plan = disk.tasks[t].plan \/ t \in shared

\* The inductive invariant behind both.  Typing: a run is in the queue once.
Status == DOMAIN Transitions \cup {"absent"}
TaskRecord == [status : Status, plan : Nat, replans : Nat, judged : Nat]
TaskCopy == [id : Task \cup {NoTask}, status : Status, plan : Nat, replans : Nat]
AfterWrite == {"ready", "tools", "noted", "judged", "next"} \cup Terminal
Label == AfterWrite \cup Hidden \cup {"idle", "model", "writing", "caught"}

RunsTypeOK ==
  /\ {tasks, disk.tasks} \subseteq [Task -> TaskRecord] /\ DOMAIN disk = {"tasks", "recent"}
  /\ queue \in Seq(Run) /\ \A i, j \in DOMAIN queue : queue[i] = queue[j] => i = j
  /\ \A i \in DOMAIN queue : pc[queue[i]] = "writing"
  /\ pc \in [Run -> Label] /\ then \in [Run -> Label] /\ quiet \subseteq Run
  /\ round \in [Run -> 0..MaxRounds] /\ seen \in [Run -> TaskCopy]
  /\ off \in [Run -> SUBSET {"decision", "verification"}]
  /\ shared \subseteq Task /\ (shared # {} => Run # {})

\* A run that ends when its write is made.
Leaving(r) == pc[r] = "writing" /\ then[r] \in Terminal

\* A run that goes on to judge and replan by the copy it has.
Relies(r) ==
  /\ pc[r] \notin Terminal \cup {"idle", "caught"} /\ "verification" \notin off[r]
  /\ ~(pc[r] = "writing" /\ Refreshed(r))

\* What is known of a run where it is suspended.
ControlOf(r) ==
  /\ pc[r] = "idle" => seen[r].id = NoTask /\ off[r] = {}
  /\ seen[r].id = NoTask => seen[r].status = "absent"
  /\ pc[r] = "writing" => seen[r].id \in Task /\ then[r] \in AfterWrite
  /\ pc[r] \in {"verifying", "judged", "replanning"}
     \/ (pc[r] = "writing" /\ then[r] = "judged") => Judging(r)
  /\ pc[r] = "replanning" => ~Spent(r)
  /\ r \in quiet => pc[r] = "writing" /\ (Leaving(r) \/ "verification" \in off[r])
  /\ pc[r] = "planning" => seen[r].id = NoTask
  /\ "verification" \in off[r] => /\ seen[r].id \in Task
                                  /\ r \in Alive => seen[r].id \in loose \/ Leaving(r)
  /\ round[r] < MaxRounds \/ pc[r] \in Terminal \cup {"caught"} \/ Leaving(r)

ControlInv == \A r \in Run : ControlOf(r)

\* The copy a run relies on is true, if no other run works on its task; the
\* task of a run that ends is not running, unless it is loose.
CopiesInv ==
  /\ \A r \in Alive : seen[r].id \in Task => tasks[seen[r].id].status # "absent"
  /\ \A r, o \in Alive : seen[r].id = seen[o].id /\ r # o => seen[r].id \in shared \cup {NoTask}
  /\ \A r \in Run : seen[r].id \in Task \ shared =>
       /\ Relies(r) \/ (pc[r] = "caught" /\ seen[r].id \notin loose)
            => seen[r] = Snapshot(seen[r].id)
       /\ Leaving(r) /\ seen[r].id \notin loose => tasks[seen[r].id].status # "running"

\* What is completed on disk is so in memory, with the plan it was judged by;
\* a run learns that its task is completed from a write.
DiskInv ==
  /\ \A t \in Task : disk.tasks[t].status = "completed" =>
       /\ tasks[t].status = "completed"
       /\ t \notin shared => /\ tasks[t].plan = disk.tasks[t].plan
                             /\ disk.tasks[t].judged = disk.tasks[t].plan
  /\ \A r \in Run : seen[r].status = "completed" =>
       seen[r].id \in Task /\ disk.tasks[seen[r].id].status = "completed"

\* Runs that would still replan the task t by their copies of it.
Behind(t) == {r \in Run : Relies(r) /\ seen[r].id = t /\ ~Spent(r)}

\* Beyond the bound, each run beside the first replans once more at most.
ReplansOf(t) ==
  /\ t \notin shared => {tasks[t].replans, disk.tasks[t].replans} \subseteq 0..MaxReplans
  /\ t \in shared =>
       /\ disk.tasks[t].replans < MaxReplans + Cardinality(Run)
       /\ tasks[t].replans >= MaxReplans =>
            tasks[t].replans + Cardinality(Behind(t)) < MaxReplans + Cardinality(Run)

ReplansInv == \A t \in Task : ReplansOf(t)

TaskInv ==
  /\ RunsTypeOK /\ ControlInv /\ CopiesInv /\ DiskInv /\ ReplansInv
  /\ CompletedWasJudged /\ NoneLeftRunning
=============================================================================
