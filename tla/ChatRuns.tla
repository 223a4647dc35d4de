------------------------------ MODULE ChatRuns ------------------------------
(***************************************************************************)
(* The main process side of a conversation: main/ipc.ts (ChatRunRegistry,  *)
(* ToolApprovalRegistry, the route sessions.delete and the shutdown) and   *)
(* main/question/questionService.ts.                                       *)
(*                                                                         *)
(* A run is started by a route and lives on by itself.  It may suspend     *)
(* itself on a question or an approval, which the user answers, an abort   *)
(* withdraws and the closing of the window denies.  It ends by sending one *)
(* terminal event, disposing of its scope and leaving the registry.  The   *)
(* deletion of a session aborts its runs, waits for them for three seconds *)
(* and takes apart what the session has: its row, its scope, its tasks.    *)
(*                                                                         *)
(* What the process sends to the window, the answers of its routes and the *)
(* events, is one queue; the window is in ChatWindow.  A turn is named by  *)
(* its run.                                                                *)
(***************************************************************************)
EXTENDS Naturals, Sequences, FiniteSets

CONSTANTS Run, Session, NoSession,
          Deaf,          \* runs that wait for something deaf to the abort signal
          MaxNews,       \* bound on the chunks, questions and approvals of one run
          MaxFaults      \* bound on events their schema turns down and refused writes

VARIABLES
  sessionOf, \* the session of a run
  phase,     \* how far it is
  aborted,   \* runs whose controller was aborted
  registered,\* #runs
  pending,   \* questions and approvals the user owes an answer
  news,      \* how many of them, and of chunks, a run has sent
  told,      \* how many terminal events it got delivered
  stored,    \* sessions on disk
  scopes,    \* sessions with a conversation scope
  tasks,     \* runs whose session has a task of theirs
  deletion,  \* the deletion under way
  app,       \* "up", "quitting" (the window is gone), "gone"
  channel,   \* events on their way to the window
  lost,      \* auxiliary: runs with an event that was not delivered
  excused,   \* auxiliary: sessions whose deletion gave up waiting, or failed
  faults

runVars  == <<sessionOf, phase, aborted, registered, pending, news, told>>
dataVars == <<stored, scopes, tasks, deletion, excused>>
chatVars == <<runVars, dataVars, app, channel, lost, faults>>

NoDeletion == [session |-> NoSession, phase |-> "none", waits |-> {}]

\* A run that has not sent its terminal event yet.
Underway(r) == phase[r] \in {"reading", "working", "waiting"}

ChatInit ==
  /\ sessionOf = [r \in Run |-> NoSession] /\ phase = [r \in Run |-> "unborn"]
  /\ aborted = {} /\ registered = {} /\ pending = {}
  /\ news = [r \in Run |-> 0] /\ told = [r \in Run |-> 0]
  /\ stored = Session /\ scopes = {} /\ tasks = {} /\ deletion = NoDeletion
  /\ app = "up" /\ channel = <<>>
  /\ lost = {} /\ excused = {} /\ faults = 0

----------------------------------------------------------------------------
(* Sending *)

Event(kind, r, n) == [kind |-> kind, run |-> r, n |-> n]

\* emitTo: nothing goes to a destroyed window, an event its schema turns down
\* is dropped, and the sender is told.
Emit(e, delivered) ==
  /\ delivered => app = "up"
  /\ app = "up" /\ ~delivered => faults < MaxFaults
  /\ faults' = IF app = "up" /\ ~delivered THEN faults + 1 ELSE faults
  /\ channel' = IF delivered THEN Append(channel, e) ELSE channel
  /\ lost' = IF delivered THEN lost ELSE lost \cup {e.run}

Silent == UNCHANGED <<channel, lost, faults>>

----------------------------------------------------------------------------
(* One run *)

Goto(r, next) == phase' = [phase EXCEPT ![r] = next]

\* start(): the run is in the registry, and its conversation has a scope,
\* before the route returns.
Start(r, s) ==
  /\ app = "up"
  /\ phase[r] = "unborn"
  /\ Goto(r, "reading")
  /\ sessionOf' = [sessionOf EXCEPT ![r] = s]
  /\ registered' = registered \cup {r}
  /\ scopes' = scopes \cup {s}
  /\ channel' = Append(channel, Event("started", r, 0))
  /\ UNCHANGED <<aborted, pending, news, told,
                 stored, tasks, deletion, excused, app, faults, lost>>

\* The scope, history, settings, summary and memory, then the abort signal, then
\* the model.
Prepared(r) ==
  /\ phase[r] = "reading" /\ r \notin aborted
  /\ Goto(r, "working")
  /\ UNCHANGED <<sessionOf, aborted, registered, pending, news, told, dataVars, app>>
  /\ Silent

\* onEvent: nothing is streamed after the abort.
Stream(r) ==
  /\ phase[r] = "working" /\ r \notin aborted
  /\ news[r] < MaxNews
  /\ news' = [news EXCEPT ![r] = @ + 1]
  /\ Emit(Event("chunk", r, 0), app = "up")
  /\ UNCHANGED <<sessionOf, phase, aborted, registered, pending, told, dataVars, app>>

\* The agent saves a task of the session it works for.
CreateTask(r) ==
  /\ phase[r] = "working" /\ r \notin tasks
  /\ tasks' = tasks \cup {r}
  /\ UNCHANGED <<runVars, stored, scopes, deletion, excused, app>>
  /\ Silent

Request(kind, r) == [kind |-> kind, run |-> r, n |-> news[r] + 1]

\* QuestionService.ask, ToolApprovalRegistry.request: what the run waits for is
\* pending before the event leaves, and stays pending if it does not.
Ask(r, kind) ==
  /\ phase[r] = "working" /\ r \notin aborted
  /\ news[r] < MaxNews
  /\ \A q \in pending : q.run # r
  /\ news' = [news EXCEPT ![r] = @ + 1]
  /\ pending' = pending \cup {Request(kind, r)}
  /\ Goto(r, "waiting")
  /\ \E delivered \in BOOLEAN : Emit(Request(kind, r), delivered)
  /\ UNCHANGED <<sessionOf, aborted, registered, told, dataVars, app>>

\* emitDone, emitError: the latch counts what was delivered.
Tell(r, kind) ==
  \E delivered \in BOOLEAN :
    /\ Emit(Event(kind, r, 0), delivered)
    /\ told' = IF delivered THEN [told EXCEPT ![r] = @ + 1] ELSE told

Done(r) ==
  /\ phase[r] = "working" /\ r \notin aborted
  /\ Tell(r, "done")
  /\ Goto(r, "closing")
  /\ UNCHANGED <<sessionOf, aborted, registered, pending, news, dataVars, app>>

\* The catch block: no model, a failure of the agent, the abort.
Fail(r) ==
  /\ phase[r] \in {"reading", "working"}
  /\ Tell(r, "error")
  /\ Goto(r, "closing")
  /\ UNCHANGED <<sessionOf, aborted, registered, pending, news, dataVars, app>>

\* Slip: the run stays in the registry.
SettleRegistered(r) ==
  /\ phase[r] = "closing" /\ Goto(r, "over")
  /\ UNCHANGED <<sessionOf, aborted, registered, pending, news, told, dataVars, app>>
  /\ Silent

\* The finally block: the scope is disposed of, then the run settles.
Settle(r) ==
  /\ phase[r] = "closing"
  /\ Goto(r, "over")
  /\ registered' = registered \ {r}
  /\ UNCHANGED <<sessionOf, aborted, pending, news, told, dataVars, app>>
  /\ Silent

RunStep(r) ==
  \/ Prepared(r) \/ Stream(r) \/ CreateTask(r)
  \/ \E kind \in {"question", "approval"} : Ask(r, kind)
  \/ Done(r) \/ Fail(r) \/ Settle(r)

----------------------------------------------------------------------------
(* Abort and answer *)

\* Runs whose requests Q were settled go on.
Resumed(Q) ==
  [r \in Run |-> IF \E q \in Q : q.run = r THEN "working" ELSE phase[r]]

\* controller.abort(): the listeners of a pending question or approval settle
\* it at once.
Aborted(R) ==
  LET withdrawn == {q \in pending : q.run \in R}
  IN /\ aborted' = aborted \cup R
     /\ pending' = pending \ withdrawn
     /\ phase' = Resumed(withdrawn)

\* abort(): every run of the session, or the one of the turn.
RunsOf(s, turns) == {r \in registered : sessionOf[r] = s /\ r \in turns}

Abort(s, turns) ==
  /\ app = "up"
  /\ Aborted(RunsOf(s, turns))
  /\ channel' = Append(channel, [kind |-> "stopped", session |-> s])
  /\ UNCHANGED <<sessionOf, registered, news, told, dataVars, app, lost, faults>>

\* question.answer, question.reject, tool.approval.resolve: false for a request
\* that is no longer pending.
Answer(q) ==
  /\ app = "up"
  /\ pending' = pending \ {q}
  /\ phase' = Resumed({q} \cap pending)
  /\ UNCHANGED <<sessionOf, aborted, registered, news, told, dataVars, app>>
  /\ Silent

----------------------------------------------------------------------------
(* Deletion of a session *)

Deletion(s, next, waits) == [session |-> s, phase |-> next, waits |-> waits]

DeletionAt(at) == deletion.phase = at /\ app # "gone"

Proceed(next) == deletion' = [deletion EXCEPT !.phase = next]

\* abortAndWait takes the runs there are and aborts them; without any it returns.
Delete(s) ==
  LET runs == RunsOf(s, Run)
  IN /\ app = "up"
     /\ deletion.phase = "none"
     /\ Aborted(runs)
     /\ deletion' = Deletion(s, IF runs = {} THEN "deleting" ELSE "waiting", runs)
     /\ UNCHANGED <<sessionOf, registered, news, told,
                    stored, scopes, tasks, excused, app>>
     /\ Silent

RunsSettled ==
  /\ DeletionAt("waiting")
  /\ deletion.waits \cap registered = {}
  /\ Proceed("deleting")
  /\ UNCHANGED <<runVars, stored, scopes, tasks, excused, app>>
  /\ Silent

\* Slip: the timer is set only once nothing is running any more.
WaitTimesOutQuietly ==
  /\ DeletionAt("waiting") /\ registered = {}
  /\ Proceed("deleting")
  /\ excused' = excused \cup {deletion.session}
  /\ UNCHANGED <<runVars, stored, scopes, tasks, app>>
  /\ Silent

\* The three seconds are over: the wait always ends.
WaitTimesOut ==
  /\ DeletionAt("waiting")
  /\ deletion.waits \cap registered # {}
  /\ Proceed("deleting")
  /\ excused' = excused \cup {deletion.session}
  /\ UNCHANGED <<runVars, stored, scopes, tasks, app>>
  /\ Silent

\* The row, then at once the scope of the conversation.
RowDeleted ==
  /\ DeletionAt("deleting")
  /\ stored' = stored \ {deletion.session}
  /\ scopes' = scopes \ {deletion.session}
  /\ Proceed("dropping")
  /\ UNCHANGED <<runVars, tasks, excused, app>>
  /\ Silent

TasksOf(s) == {r \in tasks : sessionOf[r] = s}

TasksDropped ==
  /\ DeletionAt("dropping")
  /\ tasks' = tasks \ TasksOf(deletion.session)
  /\ Proceed("deleted")
  /\ UNCHANGED <<runVars, stored, scopes, excused, app>>
  /\ Silent

\* A refused write: the route fails, whatever was taken apart before it.
DeletionFails ==
  /\ \/ DeletionAt("deleting") /\ tasks' = tasks
     \/ DeletionAt("dropping") /\ tasks' = tasks \ TasksOf(deletion.session)
  /\ faults < MaxFaults
  /\ faults' = faults + 1
  /\ Proceed("failed")
  /\ excused' = excused \cup {deletion.session}
  /\ UNCHANGED <<runVars, stored, scopes, app, channel, lost>>

DeletionStep ==
  \/ RunsSettled \/ WaitTimesOut \/ RowDeleted \/ TasksDropped \/ DeletionFails

\* The window has the answer.
Answered ==
  /\ deletion.phase \in {"deleted", "failed"}
  /\ deletion' = NoDeletion
  /\ UNCHANGED <<runVars, stored, scopes, tasks, excused, app>>
  /\ Silent

----------------------------------------------------------------------------
(* The end of the process *)

\* The last window closes, or the user quits: approvals are denied, abortAll
\* aborts every run of the registry and empties it.
Quit ==
  /\ app = "up"
  /\ app' = "quitting"
  /\ Aborted(registered)
  /\ registered' = {}
  /\ channel' = <<>>
  /\ UNCHANGED <<sessionOf, news, told, dataVars, lost, faults>>

\* app.exit: nobody waits for the runs, nor for a deletion half done.
Exit ==
  /\ app = "quitting"
  /\ app' = "gone"
  /\ scopes' = {}
  /\ excused' = excused \cup ({deletion.session} \cap Session)
  /\ phase' = [r \in Run |-> IF phase[r] = "unborn" THEN "unborn" ELSE "over"]
  /\ deletion' = NoDeletion
  /\ UNCHANGED <<sessionOf, aborted, registered, pending, news, told,
                 stored, tasks>>
  /\ Silent

AppStep == Quit \/ Exit

MainStep == (app # "gone" /\ \E r \in Run : RunStep(r)) \/ DeletionStep
=============================================================================
