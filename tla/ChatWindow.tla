----------------------------- MODULE ChatWindow -----------------------------
(***************************************************************************)
(* Both sides of a conversation: ChatRuns and the window that starts,      *)
(* stops, answers and deletes (renderer/App.tsx).                          *)
(*                                                                         *)
(* The window lets one run go at a time: activeRun is set when a message   *)
(* is sent and cleared by the terminal event of its session.  Should that  *)
(* event never come, a watchdog clears it fifteen seconds after the user   *)
(* stopped the run.  An event names its session; the message it belongs to *)
(* is the last one of the session that is still open.                      *)
(***************************************************************************)
EXTENDS ChatRuns, SequencesExt

CONSTANTS NoRun,
          MaxMoves \* bound on what the user does besides sending and answering

VARIABLES
  screen,    \* activeSessionId; NoSession: a draft
  listed,    \* the sessions of the side bar
  active,    \* activeRun
  watchdog,  \* the session its timer was set for
  doomed,    \* the session whose deletion the user is asked to confirm
  card,      \* pendingQuestion and pendingToolApproval
  replies,   \* the assistant's messages of each session
  overtaken, \* auxiliary: the watchdog released a run not heard to the end
  moves

windowVars == <<screen, listed, active, watchdog, doomed, card, replies, overtaken, moves>>
vars == <<chatVars, windowVars>>

NoActive == [session |-> NoSession, turn |-> NoRun]
NoCard   == [kind |-> "none", run |-> NoRun, n |-> 0]

Init ==
  /\ ChatInit
  /\ screen = (CHOOSE s \in Session : TRUE) /\ listed = Session
  /\ active = NoActive /\ watchdog = NoSession /\ doomed = NoSession
  /\ card = [question |-> NoCard, approval |-> NoCard]
  /\ replies = [s \in Session |-> <<>>]
  /\ overtaken = FALSE /\ moves = 0

\* SessionTransitionLock: taken for as long as a deletion is under way.
Unlocked == deletion.phase = "none"

----------------------------------------------------------------------------
(* What the user does *)

Reply(r) == [turn |-> r, open |-> TRUE, from |-> {}]

\* sendText
Send(r) ==
  /\ active = NoActive /\ Unlocked /\ screen # NoSession
  /\ Start(r, screen)
  /\ active' = [session |-> screen, turn |-> NoRun]
  /\ replies' = [replies EXCEPT ![screen] = Append(@, Reply(r))]
  /\ UNCHANGED <<screen, listed, watchdog, doomed, card, overtaken, moves>>

\* stop: before the answer to chat.start is here, the turn has no name yet and
\* every run of the session is meant.
Stop ==
  /\ active # NoActive /\ active.session = screen
  /\ moves < MaxMoves
  /\ moves' = moves + 1
  /\ Abort(screen, IF active.turn = NoRun THEN Run ELSE {active.turn})
  /\ UNCHANGED <<screen, listed, active, watchdog, doomed, card, replies, overtaken>>

\* resolveQuestion, resolveToolApproval: a question is on its session's screen
\* only, an approval on every screen.
AnswerCard(kind) ==
  LET q == card[kind]
  IN /\ q # NoCard
     /\ kind = "question" => sessionOf[q.run] = screen
     /\ Answer(q)
     /\ card' = [card EXCEPT ![kind] = NoCard]
     /\ UNCHANGED <<screen, listed, active, watchdog, doomed, replies, overtaken, moves>>

\* selectSession, and the question.pending.list that follows it.
Select(s) ==
  /\ app = "up" /\ Unlocked
  /\ s \in listed \ {screen}
  /\ moves < MaxMoves
  /\ moves' = moves + 1
  /\ screen' = s
  /\ channel' = Append(channel, [kind |-> "listed", session |-> s,
       questions |-> {q \in pending : q.kind = "question" /\ sessionOf[q.run] = s}])
  /\ UNCHANGED <<runVars, dataVars, app, lost, faults,
                 listed, active, watchdog, doomed, card, replies, overtaken>>

\* requestDeleteSession: refused while a run is on.  The confirmation does not
\* ask again.
RequestDelete(s) ==
  /\ app = "up"
  /\ active = NoActive /\ s \in listed /\ doomed = NoSession
  /\ doomed' = s
  /\ moves < MaxMoves
  /\ moves' = moves + 1
  /\ UNCHANGED <<chatVars, screen, listed, active, watchdog, card, replies, overtaken>>

ConfirmDelete ==
  /\ doomed \in listed /\ Unlocked
  /\ Delete(doomed)
  /\ doomed' = NoSession
  /\ UNCHANGED <<screen, listed, active, watchdog, card, replies, overtaken, moves>>

\* A run's name is drawn afresh and says nothing.
Fresh(r) == phase[r] = "unborn" /\ r = CHOOSE other \in Run : phase[other] = "unborn"

UserStep ==
  \/ \E r \in Run : Fresh(r) /\ Send(r)
  \/ Stop
  \/ \E kind \in {"question", "approval"} : AnswerCard(kind)
  \/ \E s \in Session : Select(s) \/ RequestDelete(s)
  \/ ConfirmDelete

----------------------------------------------------------------------------
(* What arrives *)

Arrives(kinds) == app = "up" /\ channel # <<>> /\ Head(channel).kind \in kinds

Taken ==
  /\ channel' = Tail(channel)
  /\ UNCHANGED <<runVars, dataVars, app, lost, faults>>

Cleared(kinds, s) ==
  [k \in DOMAIN card |->
     IF k \in kinds /\ card[k] # NoCard /\ sessionOf[card[k].run] = s THEN NoCard ELSE card[k]]

\* updateStreamMessage: the main process and the window name a message
\* differently, so it is always the last open one.
Update(s, r, open) ==
  LET at == SelectLastInSeq(replies[s], LAMBDA m : m.open)
  IN IF at = 0 THEN replies
     ELSE LET from == replies[s][at].from \cup {r}
          IN [replies EXCEPT ![s][at] = [@ EXCEPT !.from = from, !.open = open]]

StartedArrives ==
  /\ Arrives({"started"})
  /\ LET r == Head(channel).run
     IN active' = IF active.session = sessionOf[r] THEN [active EXCEPT !.turn = r] ELSE active
  /\ Taken
  /\ UNCHANGED <<screen, listed, watchdog, doomed, card, replies, overtaken, moves>>

ChunkArrives ==
  /\ Arrives({"chunk"})
  /\ LET r == Head(channel).run
     IN replies' = Update(sessionOf[r], r, TRUE)
  /\ Taken
  /\ UNCHANGED <<screen, listed, active, watchdog, doomed, card, overtaken, moves>>

\* applyChatEvent for chat.done and chat.error
TerminalArrives ==
  /\ Arrives({"done", "error"})
  /\ LET r == Head(channel).run
         s == sessionOf[r]
     IN /\ replies' = Update(s, r, FALSE)
        /\ active' = IF active.session = s THEN NoActive ELSE active
        /\ card' = Cleared({"question", "approval"}, s)
  /\ watchdog' = NoSession
  /\ Taken
  /\ UNCHANGED <<screen, listed, doomed, overtaken, moves>>

RequestArrives ==
  /\ Arrives({"question", "approval"})
  /\ LET q == Head(channel)
     IN card' = [card EXCEPT ![q.kind] = q]
  /\ Taken
  /\ UNCHANGED <<screen, listed, active, watchdog, doomed, replies, overtaken, moves>>

\* The answer to chat.abort sets the watchdog.
StoppedArrives ==
  /\ Arrives({"stopped"})
  /\ watchdog' = Head(channel).session
  /\ card' = Cleared({"question"}, Head(channel).session)
  /\ Taken
  /\ UNCHANGED <<screen, listed, active, doomed, replies, overtaken, moves>>

\* Slip: the empty list clears the card whatever session it is for.
ListedArrivesForAll ==
  /\ Arrives({"listed"})
  /\ LET list == Head(channel)
     IN card' = IF list.session # screen THEN card
                ELSE [card EXCEPT !.question =
                        IF list.questions # {} THEN CHOOSE q \in list.questions : TRUE ELSE NoCard]
  /\ Taken
  /\ UNCHANGED <<screen, listed, active, watchdog, doomed, replies, overtaken, moves>>

\* The answer to question.pending.list, unless the session was left meanwhile.
ListedArrives ==
  /\ Arrives({"listed"})
  /\ LET list == Head(channel)
     IN card' = IF list.session # screen THEN card
                ELSE IF list.questions = {} THEN Cleared({"question"}, screen)
                ELSE [card EXCEPT !.question = CHOOSE q \in list.questions : TRUE]
  /\ Taken
  /\ UNCHANGED <<screen, listed, active, watchdog, doomed, replies, overtaken, moves>>

\* deleteSession after the durable deletion, or after its failure: the list of
\* the disk is taken, the selection kept.
DeletionAnswered ==
  /\ app = "up"
  /\ Answered
  /\ LET s == deletion.session
     IN IF deletion.phase = "deleted"
        THEN /\ listed' = listed \ {s}
             /\ screen' = IF screen = s THEN NoSession ELSE screen
        ELSE /\ listed' = stored
             /\ screen' = screen
  /\ UNCHANGED <<active, watchdog, doomed, card, replies, overtaken, moves>>

\* The run is underway, or something that tells of it still is.
Tells(e, r) == e.kind \in {"started", "chunk", "done", "error"} /\ e.run = r
Heard(r) == Underway(r) \/ \E i \in DOMAIN channel : Tells(channel[i], r)

\* Slip: the timer only takes itself off.
WatchdogForgets ==
  /\ app = "up" /\ watchdog # NoSession
  /\ watchdog' = NoSession
  /\ UNCHANGED <<chatVars, screen, listed, active, doomed, card, replies, overtaken, moves>>

\* Fifteen seconds after the answer to the stop, no terminal event between.
WatchdogFires ==
  /\ app = "up" /\ watchdog # NoSession
  /\ watchdog' = NoSession
  /\ active' = IF active.session = watchdog THEN NoActive ELSE active
  /\ overtaken' = (overtaken \/ \E r \in Run : sessionOf[r] = watchdog /\ Heard(r))
  /\ UNCHANGED <<chatVars, screen, listed, doomed, card, replies, moves>>

ArrivalStep ==
  \/ StartedArrives \/ ChunkArrives \/ TerminalArrives \/ RequestArrives
  \/ StoppedArrives \/ ListedArrives \/ DeletionAnswered

\* What the window knew is gone with it.
WindowGone ==
  /\ screen' = NoSession /\ listed' = {} /\ active' = NoActive
  /\ watchdog' = NoSession /\ doomed' = NoSession
  /\ card' = [question |-> NoCard, approval |-> NoCard]
  /\ replies' = [s \in Session |-> <<>>]
  /\ overtaken' = FALSE /\ moves' = 0

Next ==
  \/ MainStep /\ UNCHANGED windowVars
  \/ AppStep /\ WindowGone
  \/ UserStep
  \/ ArrivalStep
  \/ WatchdogFires

\* Promises settle, timers fire, messages arrive and the disk answers.  A run
\* that heard its abort unwinds, unless it is deaf to it; nothing is promised of the
\* user, of the model, or of a deaf run.
Unwinds(r) == r \in aborted \ Deaf /\ Fail(r) /\ UNCHANGED windowVars
Settles(r) == app # "gone" /\ Settle(r) /\ UNCHANGED windowVars
DeletionGoesOn == DeletionStep /\ UNCHANGED windowVars
AppExits == Exit /\ WindowGone

Fairness ==
  /\ \A r \in Run : WF_vars(Unwinds(r)) /\ WF_vars(Settles(r))
  /\ WF_vars(DeletionGoesOn) /\ WF_vars(AppExits)
  /\ WF_vars(ArrivalStep) /\ WF_vars(WatchdogFires)

Spec == Init /\ [][Next]_vars /\ Fairness

----------------------------------------------------------------------------
(* Properties *)

\* A run is suspended exactly when the user owes it one answer, and nobody waits
\* on behalf of an aborted run: question and approval go with the run they stop.
SuspendedOnce ==
  \A r \in Run :
    /\ phase[r] = "waiting" <=> Cardinality({q \in pending : q.run = r}) = 1
    /\ r \in aborted => \A q \in pending : q.run # r

\* A run whose events arrive is told about exactly once, whichever of its ends
\* came first, and is out of the registry when it is over.
ToldExactlyOnce ==
  /\ \A r \in Run : /\ told[r] <= 1
                    /\ phase[r] \in {"closing", "over"} /\ r \notin lost /\ app = "up" => told[r] = 1
  /\ \A r \in registered : phase[r] \notin {"unborn", "over"}

\* What a run sends ends up in the message that asked for it, and whatever is
\* underway is the run the window shows as active, unless the watchdog released
\* one that was still underway.
OneRunAtATime ==
  app = "up" /\ ~overtaken =>
    /\ \A r \in Run : Underway(r) => active.session = sessionOf[r] /\ active.turn \in {r, NoRun}
    /\ \A s \in Session : \A i \in DOMAIN replies[s] : replies[s][i].from \subseteq {replies[s][i].turn}

\* Once everything sent has arrived, what a suspended run waits for is on a card
\* of the window, across changes of the session on screen.
EveryRequestHasItsCard ==
  app = "up" /\ channel = <<>> /\ ~overtaken =>
    \A q \in pending : q.run \in lost \/ card[q.kind] = q

\* A deletion that neither gave up waiting nor failed leaves no scope and no task
\* of the session behind, and nothing brings them back.
NothingLeftBehind ==
  \A s \in Session \ (stored \cup excused) :
    deletion.session # s => s \notin scopes /\ TasksOf(s) = {}

\* Every run gives one answer, and what it waits for goes with it.
RunsAnswerOnce == SuspendedOnce /\ ToldExactlyOnce /\ NothingLeftBehind

\* The window shows the run there is and what that run waits for.
WindowFollowsRuns == OneRunAtATime /\ EveryRequestHasItsCard

\* The inductive invariant behind RunsAnswerOnce.  A run that waits owes it to one
\* request; while the process is up, the registry holds exactly the runs that
\* are not over, and afterwards all of those are aborted.
Alive(r) == phase[r] \notin {"unborn", "over"}

RunsInv ==
  /\ phase \in [Run -> {"unborn", "reading", "working", "waiting", "closing", "over"}]
  /\ told \in [Run -> 0..1] /\ aborted \subseteq Run /\ app \in {"up", "quitting", "gone"}
  /\ \A r \in Run : phase[r] = "waiting" <=> \E q \in pending : q.run = r
  /\ \A p, q \in pending : p.run = q.run => p = q
  /\ \A q \in pending : q.run \in Run \ aborted
  /\ registered = IF app = "up" THEN {r \in Run : Alive(r)} ELSE {}
  /\ app # "up" => pending = {} /\ \A r \in Run : Alive(r) => r \in aborted
  /\ \A r \in Run : IF phase[r] \in {"closing", "over"} THEN app = "up" => told[r] = 1 \/ r \in lost
                    ELSE told[r] = 0

\* Whatever lives, is listed or on the screen is of a session that is stored, is
\* being deleted, or was deleted while its runs went on.  A deletion that is past
\* its wait has no run left, and leaves behind what it took apart.
Rest == stored \cup excused \cup {deletion.session}

PastWait(phases) ==
  deletion.phase \in phases /\ app = "up" /\ deletion.session \notin excused

DeletionRecord ==
  [session : Session \cup {NoSession}, waits : SUBSET Run,
   phase : {"none", "waiting", "deleting", "dropping", "deleted", "failed"}]

DeletionInv ==
  /\ deletion \in DeletionRecord
  /\ deletion.phase = "none" => deletion.session = NoSession
  /\ deletion.phase = "failed" => deletion.session \in excused
  /\ deletion.phase = "waiting" =>
       \A r \in Run : Alive(r) /\ sessionOf[r] = deletion.session => r \in deletion.waits
  /\ PastWait({"deleting", "dropping", "deleted"}) =>
       \A r \in Run : Alive(r) => sessionOf[r] # deletion.session
  /\ PastWait({"dropping", "deleted"}) => deletion.session \notin scopes
  /\ PastWait({"deleted"}) => TasksOf(deletion.session) = {}

RestInv ==
  /\ screen \in (Rest \cap Session) \cup {NoSession} /\ listed \subseteq Rest \cap Session
  /\ stored \subseteq Session
  /\ \A r \in Run : Alive(r) => sessionOf[r] \in Rest \cap Session
  /\ \A r \in tasks : r \in Run /\ phase[r] # "unborn"
  /\ sessionOf \in [Run -> Session \cup {NoSession}]
  /\ NothingLeftBehind

ChatInv == RunsInv /\ DeletionInv /\ RestInv

\* The inductive invariant behind WindowFollowsRuns.  It is about the order of what
\* is on its way: while nothing was overtaken, one run at most is underway or
\* told of, the window believes it active, its message is the last of its
\* session, and its terminal event is the last thing it sent.
Requests == [kind : {"question", "approval"}, run : Run, n : Nat]
Messages ==
  [kind : {"started", "chunk", "done", "error"}, run : Run, n : {0}] \cup Requests
    \cup [kind : {"listed"}, session : Session, questions : SUBSET Requests]
    \cup [kind : {"stopped"}, session : Session]

Replies == [turn : Run, open : BOOLEAN, from : SUBSET Run]

WindowTyped ==
  /\ active \in [session : Session, turn : Run \cup {NoRun}] \cup {NoActive}
  /\ channel \in Seq(Messages) /\ pending \subseteq Requests /\ news \in [Run -> Nat]
  /\ DOMAIN card = {"question", "approval"}
  /\ replies \in [Session -> Seq(Replies)]
  /\ \A r \in Run : phase[r] # "unborn" => sessionOf[r] \in Session
  /\ \A i \in DOMAIN channel : \A r \in Run :
       channel[i].kind \notin {"listed", "stopped"} /\ channel[i].run = r => phase[r] # "unborn"

LastReply(s) == replies[s][Len(replies[s])]

Shown(r) ==
  /\ active.session = sessionOf[r] /\ active.turn \in {r, NoRun}
  /\ replies[sessionOf[r]] # <<>>
  /\ LastReply(sessionOf[r]).turn = r /\ LastReply(sessionOf[r]).open

InOrder ==
  \A i \in DOMAIN channel : channel[i].kind \in {"done", "error"} =>
    /\ ~Underway(channel[i].run)
    /\ \A j \in DOMAIN channel : Tells(channel[j], channel[i].run) => j <= i

OwnMessages ==
  \A s \in Session : \A i \in DOMAIN replies[s] : replies[s][i].from \subseteq {replies[s][i].turn}

\* What takes the card of a request away, and that a request is on its card, or
\* arrives, and nothing behind it takes it away.
Spoils(e, q) ==
  \/ e.kind \in {"done", "error"} /\ sessionOf[e.run] = sessionOf[q.run]
  \/ e.kind = q.kind /\ e # q
  \/ q.kind = "question" /\ e.kind = "stopped" /\ e.session = sessionOf[q.run]
  \/ /\ q.kind = "question" /\ e.kind = "listed"
     /\ IF e.session = sessionOf[q.run] THEN e.questions # {q} ELSE e.questions # {}

CardComes(q) ==
  \/ card[q.kind] = q /\ \A j \in DOMAIN channel : ~Spoils(channel[j], q)
  \/ \E i \in DOMAIN channel :
       channel[i] = q /\ \A j \in DOMAIN channel : j > i => ~Spoils(channel[j], q)

FollowInv ==
  /\ WindowTyped
  /\ app = "up" /\ ~overtaken =>
       /\ \A r \in Run : Heard(r) => Shown(r)
       /\ \A q, r \in Run : Heard(q) /\ Heard(r) => q = r
       /\ InOrder /\ OwnMessages
       /\ \A q \in pending : q.run \in lost \/ CardComes(q)

\* What must not last, nor last after a stop: the deletion of a session even if
\* its runs never end, an aborted run, suspended or not, and a window busy with
\* the stopped session, which a terminal event or the watchdog releases.
DeletionWaits == deletion.phase = "waiting"
Unwinding(r) == r \in aborted /\ phase[r] # "over"
BusyWith(s) == active.session = s /\ ~overtaken /\ app = "up"
Stopped(s) == watchdog = s /\ BusyWith(s)
=============================================================================
