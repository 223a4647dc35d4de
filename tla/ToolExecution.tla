---------------------------- MODULE ToolExecution ----------------------------
(***************************************************************************)
(* The life of a modifying Navisworks tool call: the safety ladder of      *)
(* navisworks/toolExecutor.ts (runNavisworksTool) composed with the ledger,*)
(* the per-document lock, the approval dialog, the bridge client and the   *)
(* Navisworks document on the other side of the pipe.                      *)
(*                                                                         *)
(* A call belongs to a run that was bound to one document when the run     *)
(* started.  pc[c] names the `await` the call is suspended at; an action   *)
(* is the code between two awaits.  Several calls are in flight at once    *)
(* because several conversations may run at once.                          *)
(*                                                                         *)
(* A document here stands for instanceId + bridgeSessionId +               *)
(* documentInstanceId.  The plugin mints a fresh GUID whenever a document  *)
(* is opened, switched or reopened and whenever the plugin is loaded, so   *)
(* identities never come back.                                             *)
(***************************************************************************)
EXTENDS DocumentOperationCoordinator, ExecutionLedger, FiniteSets

CONSTANTS Op,          \* tool name + arguments
          ItemOp,      \* those whose arguments name items of the plugin's cache
          Permission,  \* settings the tool may have: "ask", "allow"
          MaxAborts    \* bound on runs the user cancels

ASSUME ToolExecutionConstants ==
  /\ Subject = Key \X Op
  /\ ItemOp \subseteq Op
  /\ Permission \subseteq {"ask", "allow"}
  /\ MaxAborts \in Nat

VARIABLES
  pc,         \* where the call is suspended
  bound,      \* the document its run is bound to
  op,         \* what it does
  confirmed,  \* allowAmbiguousRetry: the user's text asks to run it again
  permission, \* the tool's permission setting
  answer,     \* who let it pass: the user, the setting, or nobody
  retryOf,    \* `ambiguous`: the record found before begin()
  aborted,    \* the run's AbortSignal
  fault,      \* the exception being handled
  executing,  \* the local flag `executing`
  outcome,    \* what the model is told
  request,    \* the tool call on the other side of the pipe
  appliedTo,  \* the document it changed
  document,   \* the active document of Navisworks
  opened,     \* identities minted so far
  gone        \* identities of plugin loads that ended

callVars == <<bound, op, confirmed, permission>>
hostVars == <<document, opened, gone>>
vars == <<coordinatorVars, ledgerVars, pc, callVars, answer, retryOf, aborted,
          fault, executing, outcome, request, appliedTo, hostVars>>

PC == {"idle", "bound", "beginning", "asking", "approval", "approving",
       "resolving", "locking", "marking", "calling", "succeeding",
       "cancelling", "caught", "settling", "done"}

\* The branches of the catch block.
Branch == {"terminated", "aborted", "ambiguous", "failed"}

\* The exception the catch block handles, then the branch it took.
Fault == {"none", "error", "ambiguous", "target", "abort"} \cup Branch

Outcome == {"none", "blocked", "cancelled", "success", "failed", "ambiguous",
            "terminated", "aborted", "lost"}

CallTypeOK ==
  /\ pc \in [Call -> PC]
  /\ bound \in [Call -> Key \cup {NoKey}]
  /\ op \in [Call -> Op]
  /\ confirmed \in [Call -> BOOLEAN]
  /\ permission \in [Call -> Permission]
  /\ answer \in [Call -> {"nobody", "user", "setting"}]
  /\ retryOf \in [Call -> Call \cup {NoCall}]
  /\ aborted \in [Call -> BOOLEAN]
  /\ fault \in [Call -> Fault]
  /\ executing \in [Call -> BOOLEAN]
  /\ outcome \in [Call -> Outcome]
  /\ request \in [Call -> {"none", "sent", "applied", "refused"}]
  /\ appliedTo \in [Call -> Key \cup {NoKey}]
  /\ document \in Key
  /\ opened \subseteq Key
  /\ gone \subseteq Key

TypeOK == CoordinatorTypeOK /\ LedgerTypeOK /\ CallTypeOK

Init ==
  /\ CoordinatorInit
  /\ LedgerInit
  /\ pc = [c \in Call |-> "idle"]
  /\ bound = [c \in Call |-> NoKey]
  /\ op \in [Call -> Op]
  /\ confirmed \in [Call -> BOOLEAN]
  /\ permission \in [Call -> Permission]
  /\ answer = [c \in Call |-> "nobody"]
  /\ retryOf = [c \in Call |-> NoCall]
  /\ aborted = [c \in Call |-> FALSE]
  /\ fault = [c \in Call |-> "none"]
  /\ executing = [c \in Call |-> FALSE]
  /\ outcome = [c \in Call |-> "none"]
  /\ request = [c \in Call |-> "none"]
  /\ appliedTo = [c \in Call |-> NoKey]
  /\ document \in Key
  /\ opened = {document}
  /\ gone = {}

----------------------------------------------------------------------------
(* Moving a call along.  Each helper fixes pc, fault and outcome.           *)

Goto(c, there) ==
  /\ pc' = [pc EXCEPT ![c] = there]
  /\ UNCHANGED <<fault, outcome>>

Finish(c, result) ==
  /\ pc' = [pc EXCEPT ![c] = "done"]
  /\ outcome' = [outcome EXCEPT ![c] = result]
  /\ UNCHANGED fault

Throw(c, cause) ==
  /\ pc' = [pc EXCEPT ![c] = "caught"]
  /\ fault' = [fault EXCEPT ![c] = cause]
  /\ UNCHANGED outcome

SubjectOf(c) == <<bound[c], op[c]>>

\* c is suspended at the save it asked for, and the save is over.
AwaitRejected(c, here) ==
  /\ pc[c] = here
  /\ process = "up"
  /\ write[c] = "rejected"

AwaitSaved(c, here) ==
  /\ pc[c] = here
  /\ process = "up"
  /\ write[c] = "saved"

----------------------------------------------------------------------------
(* Binding and the request.                                                 *)

\* prepareRun: the run reads the status of the selected instance and is bound
\* to the document it reports.
BindRun(c) ==
  /\ pc[c] = "idle"
  /\ process = "up"
  /\ bound' = [bound EXCEPT ![c] = document]
  /\ Goto(c, "bound")
  /\ UNCHANGED <<coordinatorVars, ledgerVars, op, confirmed, permission, answer,
                 retryOf, aborted, executing, request, appliedTo, hostVars>>

\* AMBIGUOUS_RETRY_BLOCKED: returned before anything is written.
BlockRetry(c) ==
  /\ pc[c] = "bound"
  /\ process = "up"
  /\ Ambiguous(SubjectOf(c)) # {}
  /\ ~confirmed[c]
  /\ Finish(c, "blocked")
  /\ UNCHANGED <<coordinatorVars, ledgerVars, callVars, answer, retryOf, aborted,
                 executing, request, appliedTo, hostVars>>

\* findAmbiguous and begin() run without an await between them.
BeginRecord(c) ==
  /\ pc[c] = "bound"
  /\ \/ /\ Ambiguous(SubjectOf(c)) = {}
        /\ UNCHANGED retryOf
     \/ /\ confirmed[c]
        /\ \E a \in Ambiguous(SubjectOf(c)) : retryOf' = [retryOf EXCEPT ![c] = a]
  /\ Begin(c, SubjectOf(c))
  /\ Goto(c, "beginning")
  /\ UNCHANGED <<coordinatorVars, callVars, answer, aborted, executing, request,
                 appliedTo, hostVars>>

\* An awaited save was refused by the file system: the catch block decides what
\* becomes of the record.
SaveRejected(c) ==
  /\ \E here \in {"beginning", "asking", "approving", "resolving", "cancelling",
                  "succeeding"} : AwaitRejected(c, here)
  /\ Throw(c, "error")
  /\ UNCHANGED <<coordinatorVars, ledgerVars, callVars, answer, retryOf, aborted,
                 executing, request, appliedTo, hostVars>>

RequestApproval(c) ==
  /\ AwaitSaved(c, "beginning")
  /\ Mark(c, c, "awaiting-approval")
  /\ Goto(c, "asking")
  /\ UNCHANGED <<coordinatorVars, callVars, answer, retryOf, aborted, executing,
                 request, appliedTo, hostVars>>

----------------------------------------------------------------------------
(* Approval (ToolApprovalRegistry) and what follows it.                     *)

\* permission "ask": the dialog opens.
OpenDialog(c) ==
  /\ AwaitSaved(c, "asking")
  /\ permission[c] = "ask"
  /\ Goto(c, "approval")
  /\ UNCHANGED <<coordinatorVars, ledgerVars, callVars, answer, retryOf, aborted,
                 executing, request, appliedTo, hostVars>>

\* The user clicks "allow", or permission "allow" makes the dialog superfluous.
\* throwIfAborted stands between that and the record: an abort while the
\* dialog is open has already closed it.
Approve(c, by) ==
  /\ \/ by = "user" /\ pc[c] = "approval" /\ ~aborted[c]
     \/ by = "setting" /\ permission[c] = "allow" /\ AwaitSaved(c, "asking")
  /\ answer' = [answer EXCEPT ![c] = by]
  /\ IF aborted[c]
       THEN Throw(c, "abort") /\ UNCHANGED ledgerVars
       ELSE Mark(c, c, "approved") /\ Goto(c, "approving")
  /\ UNCHANGED <<coordinatorVars, callVars, retryOf, aborted, executing, request,
                 appliedTo, hostVars>>

\* A refusal, a closed window or the abort listener: finish(false).
Denied(c) ==
  /\ pc[c] = "approval"
  /\ Mark(c, c, "cancelled")
  /\ Goto(c, "cancelling")
  /\ UNCHANGED <<coordinatorVars, callVars, answer, retryOf, aborted, executing,
                 request, appliedTo, hostVars>>

----------------------------------------------------------------------------
(* Validation.  The bound endpoint is asked for its status; the answer is   *)
(* what the host reports at that moment.                                    *)

IdentityHolds(c) == bound[c] \notin gone /\ document = bound[c]

\* readBoundStatus turns every failure into NavisworksTargetError, an abort and
\* a pipe error of a healthy host included.
ValidationFails(c) ==
  /\ AwaitSaved(c, "approving")
  /\ Mark(c, c, "cancelled")
  /\ Goto(c, "cancelling")
  /\ UNCHANGED <<coordinatorVars, callVars, answer, retryOf, aborted, executing,
                 request, appliedTo, hostVars>>

Validated(c) ==
  /\ AwaitSaved(c, "approving")
  /\ ~aborted[c]
  /\ IdentityHolds(c)

\* Slip: a record that another retry resolved is as good as resolved.
ResolveOrSkip(c) ==
  /\ Validated(c)
  /\ retryOf[c] # NoCall
  /\ IF CanMark(retryOf[c], "resolved")
       THEN Mark(c, retryOf[c], "resolved")
       ELSE UNCHANGED ledgerVars
  /\ Goto(c, "resolving")
  /\ UNCHANGED <<coordinatorVars, callVars, answer, retryOf, aborted, executing,
                 request, appliedTo, hostVars>>

\* A confirmed retry resolves the record found before begin(), before it runs.
\* If a concurrent retry resolved it meanwhile, mark() throws.
ResolveAmbiguous(c) ==
  /\ Validated(c)
  /\ retryOf[c] # NoCall
  /\ IF CanMark(retryOf[c], "resolved")
       THEN Mark(c, retryOf[c], "resolved") /\ Goto(c, "resolving")
       ELSE Throw(c, "error") /\ UNCHANGED ledgerVars
  /\ UNCHANGED <<coordinatorVars, callVars, answer, retryOf, aborted, executing,
                 request, appliedTo, hostVars>>

----------------------------------------------------------------------------
(* The locked part.                                                         *)

\* operationCoordinator.runExclusive(instance + document, execute).
QueueUp(c) ==
  /\ \/ Validated(c) /\ retryOf[c] = NoCall
     \/ AwaitSaved(c, "resolving")
  /\ Chain(c, bound[c])
  /\ Goto(c, "locking")
  /\ UNCHANGED <<ledgerVars, callVars, answer, retryOf, aborted, executing,
                 request, appliedTo, hostVars>>

\* The lock is granted and execute() runs up to its first await.
MarkExecuting(c) ==
  /\ pc[c] = "locking"
  /\ Enter(c)
  /\ Mark(c, c, "executing")
  /\ Goto(c, "marking")
  /\ UNCHANGED <<callVars, answer, retryOf, aborted, executing, request,
                 appliedTo, hostVars>>

MarkExecutingFails(c) ==
  /\ AwaitRejected(c, "marking")
  /\ Release(c)
  /\ Throw(c, "error")
  /\ UNCHANGED <<ledgerVars, callVars, answer, retryOf, aborted, executing,
                 request, appliedTo, hostVars>>

\* Slip: the save of `executing` is not awaited.
SendCallEarly(c) ==
  /\ pc[c] = "marking"
  /\ process = "up"
  /\ ~aborted[c]
  /\ IdentityHolds(c)
  /\ executing' = [executing EXCEPT ![c] = TRUE]
  /\ request' = [request EXCEPT ![c] = "sent"]
  /\ Goto(c, "calling")
  /\ UNCHANGED <<coordinatorVars, ledgerVars, callVars, answer, retryOf, aborted,
                 appliedTo, hostVars>>

\* The write-ahead record is on disk.  The identity is checked once more, and
\* if it is still the bound one a second connection carries the tool call.
SendCall(c) ==
  /\ AwaitSaved(c, "marking")
  /\ ~aborted[c]
  /\ IdentityHolds(c)
  /\ executing' = [executing EXCEPT ![c] = TRUE]
  /\ request' = [request EXCEPT ![c] = "sent"]
  /\ Goto(c, "calling")
  /\ UNCHANGED <<coordinatorVars, ledgerVars, callVars, answer, retryOf, aborted,
                 appliedTo, hostVars>>

\* Identity changed, host unreachable, abort: NavisworksTargetError.  After a
\* good status an abort or a refused second connection keeps its own error.
CheckFails(c) ==
  /\ AwaitSaved(c, "marking")
  /\ Release(c)
  /\ executing' = [executing EXCEPT ![c] = TRUE]
  /\ \/ Throw(c, "target")
     \/ IdentityHolds(c) /\ Throw(c, IF aborted[c] THEN "abort" ELSE "error")
  /\ UNCHANGED <<ledgerVars, callVars, answer, retryOf, aborted, request,
                 appliedTo, hostVars>>

\* The plugin answers with a result.
ResultArrives(c) ==
  /\ pc[c] = "calling"
  /\ request[c] = "applied"
  /\ Release(c)
  /\ Mark(c, c, "success")
  /\ Goto(c, "succeeding")
  /\ UNCHANGED <<callVars, answer, retryOf, aborted, executing, request,
                 appliedTo, hostVars>>

\* The plugin answers with an error response.
ErrorArrives(c) ==
  /\ pc[c] = "calling"
  /\ process = "up"
  /\ request[c] = "refused"
  /\ Release(c)
  /\ Throw(c, "error")
  /\ UNCHANGED <<ledgerVars, callVars, answer, retryOf, aborted, executing,
                 request, appliedTo, hostVars>>

\* Slip: a broken pipe is a disconnected target, whatever was sent through it.
AnswerLostAsTarget(c) ==
  /\ pc[c] = "calling"
  /\ process = "up"
  /\ Release(c)
  /\ Throw(c, IF aborted[c] THEN "abort" ELSE "target")
  /\ UNCHANGED <<ledgerVars, callVars, answer, retryOf, aborted, executing,
                 request, appliedTo, hostVars>>

\* Slip: the error does not say that the request may have been sent.
AnswerLostAsError(c) ==
  /\ pc[c] = "calling"
  /\ process = "up"
  /\ Release(c)
  /\ Throw(c, IF aborted[c] THEN "abort" ELSE "error")
  /\ UNCHANGED <<ledgerVars, callVars, answer, retryOf, aborted, executing,
                 request, appliedTo, hostVars>>

\* requestTimeoutMs passes or the pipe breaks after it was connected
\* (ambiguousOutcome), or the run is aborted; the plugin knows nothing of it.
AnswerLost(c) ==
  /\ pc[c] = "calling"
  /\ process = "up"
  /\ Release(c)
  /\ Throw(c, IF aborted[c] THEN "abort" ELSE "ambiguous")
  /\ UNCHANGED <<ledgerVars, callVars, answer, retryOf, aborted, executing,
                 request, appliedTo, hostVars>>

----------------------------------------------------------------------------
(* After the lock.                                                          *)

Return(c) ==
  /\ \/ AwaitSaved(c, "succeeding") /\ Finish(c, "success")
     \/ AwaitSaved(c, "cancelling") /\ Finish(c, "cancelled")
  /\ UNCHANGED <<coordinatorVars, ledgerVars, callVars, answer, retryOf, aborted,
                 executing, request, appliedTo, hostVars>>

\* How the catch block reads the exception.
Reading(c) ==
  IF fault[c] = "target" THEN "terminated"
  ELSE IF aborted[c] THEN "aborted"
  ELSE IF fault[c] = "ambiguous" THEN "ambiguous"
  ELSE "failed"

\* Slip: an aborted execution counts as failed.
VerdictWithoutDoubt(c) ==
  CASE Reading(c) \in {"terminated", "aborted"} /\ status[c] = "executing" -> "failed"
    [] Reading(c) \in {"terminated", "aborted"}
         /\ status[c] \in {"awaiting-approval", "approved"} -> "cancelled"
    [] Reading(c) \in {"ambiguous", "failed"} /\ status[c] = "executing" -> Reading(c)
    [] OTHER -> "none"

\* What it does to the record; "none" when it leaves the record alone.  A
\* plain error before execution leaves an unfinished record behind.
Verdict(c) ==
  CASE Reading(c) = "terminated" /\ status[c] = "executing" -> "failed"
    [] Reading(c) = "aborted" /\ status[c] = "executing" /\ executing[c] -> "ambiguous"
    [] Reading(c) \in {"terminated", "aborted"}
         /\ status[c] \in {"awaiting-approval", "approved"} -> "cancelled"
    [] Reading(c) \in {"ambiguous", "failed"} /\ status[c] = "executing" -> Reading(c)
    [] OTHER -> "none"

Catch(c) ==
  /\ pc[c] = "caught"
  /\ process = "up"
  /\ IF Verdict(c) = "none"
       THEN Finish(c, Reading(c)) /\ UNCHANGED ledgerVars
       ELSE /\ Mark(c, c, Verdict(c))
            /\ pc' = [pc EXCEPT ![c] = "settling"]
            /\ fault' = [fault EXCEPT ![c] = Reading(c)]
            /\ UNCHANGED outcome
  /\ UNCHANGED <<coordinatorVars, callVars, answer, retryOf, aborted, executing,
                 request, appliedTo, hostVars>>

\* When the save of the verdict fails the exception leaves runNavisworksTool,
\* and AgentRuntime reports a plain TOOL_EXECUTION_FAILED (or the abort).
Settle(c) ==
  /\ \/ AwaitSaved(c, "settling") /\ Finish(c, fault[c])
     \/ /\ AwaitRejected(c, "settling")
        /\ Finish(c, IF aborted[c] THEN "aborted" ELSE "failed")
  /\ UNCHANGED <<coordinatorVars, ledgerVars, callVars, answer, retryOf, aborted,
                 executing, request, appliedTo, hostVars>>

----------------------------------------------------------------------------
(* The user, the plugin and the crashes.                                    *)

\* chat.abort, sessions.delete: the signal of the run fires, once.
Abort(c) ==
  /\ pc[c] \notin {"idle", "done"}
  /\ process = "up"
  /\ ~aborted[c]
  /\ Cardinality({d \in Call : aborted[d]}) < MaxAborts
  /\ aborted' = [aborted EXCEPT ![c] = TRUE]
  /\ UNCHANGED <<coordinatorVars, ledgerVars, pc, callVars, answer, retryOf,
                 fault, executing, outcome, request, appliedTo, hostVars>>

\* Execute() on the UI thread of Navisworks, on whatever document is active by
\* then, whether or not the client still waits.  An item id resolves only in
\* the document that minted it; other arguments resolve in any document.
PluginApplies(c) ==
  /\ request[c] = "sent"
  /\ bound[c] \notin gone
  /\ op[c] \in ItemOp => document = bound[c]
  /\ request' = [request EXCEPT ![c] = "applied"]
  /\ appliedTo' = [appliedTo EXCEPT ![c] = document]
  /\ UNCHANGED <<coordinatorVars, ledgerVars, pc, callVars, answer, retryOf,
                 aborted, fault, executing, outcome, hostVars>>

\* STALE_ITEM_ID, NO_DOCUMENT, NAVISWORKS_ERROR, ...  A Navisworks error midway
\* (between the two SetHidden of isolate, say) may leave part of the change
\* behind; an error answer counts as "not applied" here, as it does in the code.
PluginRefuses(c) ==
  /\ request[c] = "sent"
  /\ bound[c] \notin gone
  /\ request' = [request EXCEPT ![c] = "refused"]
  /\ UNCHANGED <<coordinatorVars, ledgerVars, pc, callVars, answer, retryOf,
                 aborted, fault, executing, outcome, appliedTo, hostVars>>

\* The user opens, switches or reopens a document: ResetSessionState.
DocumentChanges ==
  /\ \E d \in Key \ opened : document' = d /\ opened' = opened \cup {d}
  /\ UNCHANGED <<coordinatorVars, ledgerVars, pc, callVars, answer, retryOf,
                 aborted, fault, executing, outcome, request, appliedTo, gone>>

\* Navisworks exits and is started again: a new pipe, a new bridge session.
HostRestarts ==
  /\ \E d \in Key \ opened : document' = d /\ opened' = opened \cup {d}
  /\ gone' = opened
  /\ UNCHANGED <<coordinatorVars, ledgerVars, pc, callVars, answer, retryOf,
                 aborted, fault, executing, outcome, request, appliedTo>>

\* The desktop process dies: its calls, its lock and its memory are gone;
\* requests already in the pipe are not.
Crash ==
  /\ LedgerCrash
  /\ CoordinatorCrash
  /\ LET dead(c) == pc[c] \notin {"idle", "done"}
     IN /\ pc' = [c \in Call |-> IF dead(c) THEN "done" ELSE pc[c]]
        /\ outcome' = [c \in Call |-> IF dead(c) THEN "lost" ELSE outcome[c]]
  /\ UNCHANGED <<callVars, answer, retryOf, aborted, fault, executing, request,
                 appliedTo, hostVars>>

LedgerOnly == UNCHANGED <<coordinatorVars, pc, callVars, answer, retryOf, aborted,
                          fault, executing, outcome, request, appliedTo, hostVars>>

SaveStep == (SaveStarts \/ SaveSucceeds \/ SaveFails) /\ LedgerOnly

Restart == (LedgerRestart \/ RecoverySaved) /\ LedgerOnly

\* The steps of the code on behalf of c, the user's clicks excepted.
CallStep(c) ==
  \/ BindRun(c) \/ BlockRetry(c) \/ BeginRecord(c) \/ SaveRejected(c)
  \/ RequestApproval(c) \/ OpenDialog(c) \/ Approve(c, "setting")
  \/ ValidationFails(c) \/ ResolveAmbiguous(c) \/ QueueUp(c)
  \/ MarkExecuting(c) \/ MarkExecutingFails(c) \/ SendCall(c) \/ CheckFails(c)
  \/ ResultArrives(c) \/ ErrorArrives(c) \/ AnswerLost(c)
  \/ Return(c) \/ Catch(c) \/ Settle(c)

UserStep(c) == Approve(c, "user") \/ Denied(c) \/ Abort(c)

PluginStep(c) == PluginApplies(c) \/ PluginRefuses(c)

\* Every run over: nothing is left to happen.
Finished ==
  /\ \A c \in Call : pc[c] = "done"
  /\ process = "up"
  /\ writeTail = <<>>
  /\ UNCHANGED vars

Next ==
  \/ \E c \in Call : CallStep(c) \/ UserStep(c) \/ PluginStep(c)
  \/ SaveStep \/ Crash \/ Restart \/ DocumentChanges \/ HostRestarts
  \/ Finished

\* The event loop runs every settled continuation, file operations settle, the
\* request timeout ends every exchange, and an abort cancels an open dialog.
\* Nothing makes the user answer or the plugin handle a request.
Fairness ==
  /\ \A c \in Call : WF_vars(CallStep(c))
  /\ \A c \in Call : WF_vars(aborted[c] /\ Denied(c))
  /\ WF_vars(SaveStep)

Spec == Init /\ [][Next]_vars /\ Fairness

----------------------------------------------------------------------------
(* What must hold.                                                          *)

\* The lock covers the whole critical part: the second identity check, the
\* write-ahead save and the bridge exchange of two modifications of one
\* document never overlap, as far as the desktop side can tell.
SerialPerDocument ==
  \A c, d \in Call :
    /\ pc[c] \in {"marking", "calling"} /\ pc[d] \in {"marking", "calling"}
    /\ bound[c] = bound[d]
    => c = d

\* Why: where a call is suspended tells where it is inside runExclusive.
LockFollowsPc ==
  \A c \in Call :
    /\ pc[c] # "idle" => bound[c] \in Key
    /\ pc[c] = "locking" => phase[c] = "waiting" /\ keyOf[c] = bound[c]
    /\ pc[c] \in {"marking", "calling"} => phase[c] = "running" /\ keyOf[c] = bound[c]
    /\ pc[c] \in {"idle", "bound", "beginning", "asking", "approval", "approving",
                  "resolving"} => phase[c] = "out"

\* Why: a call that awaits the save of its verdict has taken a branch.
SettlesByBranch == \A c \in Call : pc[c] = "settling" => fault[c] \in Branch

\* The inductive invariant behind the typing and the exclusion of tool calls.
CoreInv == ChainInv /\ LedgerInv /\ CallTypeOK /\ LockFollowsPc /\ SettlesByBranch

\* Nothing is sent to Navisworks before the record that says so is on disk,
\* whoever else was saving, failing to save or crashing at the time.
WriteAhead ==
  \A c \in Call : request[c] # "none" => file[c] \in {"executing"} \cup Reached

\* Neither memory nor the file ever tells a lie about a modification: success
\* is written only for one that was applied, failed only for one that never left
\* or that the plugin answered with an error, cancelled only for one that never
\* left.
Honest(record) ==
  \A c \in Call :
    /\ record[c] = "success" => request[c] = "applied"
    /\ record[c] = "failed" => request[c] \in {"none", "refused"}
    /\ record[c] = "cancelled" => request[c] = "none"

HonestRecord == Honest(status) /\ Honest(file)

\* What the model hears as "did not happen" was never sent.
ReportedUntouched ==
  \A c \in Call :
    outcome[c] \in {"blocked", "cancelled", "terminated"} => request[c] = "none"

\* Why the records are honest.  The saves under way belong to suspended calls,
\* one each.
SavesInOrder ==
  /\ \A i \in 1..Len(writeTail) : write[writeTail[i]] = "pending"
  /\ \A i, j \in 1..Len(writeTail) : writeTail[i] = writeTail[j] => i = j
  /\ \A c \in Call :
       write[c] = "pending" => pc[c] \in {"beginning", "asking", "approving", "resolving",
                                        "marking", "succeeding", "cancelling", "settling"}

\* A dead process runs no call.
DownMeansOver == process # "up" => \A c \in Call : pc[c] \in {"idle", "done"}

\* Nothing is reported before the call is over.
ReportedAtTheEnd == \A c \in Call : pc[c] # "done" => outcome[c] = "none"

\* A request leaves from one place only.
SentOnlyFromCalling ==
  \A c \in Call :
    pc[c] \in {"idle", "bound", "beginning", "asking", "approval", "approving",
              "resolving", "locking", "marking", "cancelling"} => request[c] = "none"

\* The save that a call awaits before it sends is a save of `executing`.
ExecutingIsSaved ==
  \A c \in Call : pc[c] = "marking" =>
    /\ status[c] = "executing"
    /\ write[c] = "saved" => file[c] = "executing"
    /\ saving /\ Head(writeTail) = c => snapshot[c] = "executing"

\* What an exception says about the request.
ExceptionTells ==
  \A c \in Call :
    /\ pc[c] = "succeeding" => status[c] = "success"
    /\ pc[c] = "caught" =>
         /\ fault[c] \in {"error", "ambiguous", "target", "abort"}
         /\ fault[c] = "target" => request[c] = "none"
         /\ fault[c] = "error" => request[c] \in {"none", "refused"} \/ status[c] = "success"
         /\ fault[c] = "abort" => aborted[c]
    /\ pc[c] = "settling" /\ fault[c] = "terminated" => request[c] = "none"

\* The inductive invariant behind WriteAhead, HonestRecord and ReportedUntouched.
RecordInv ==
  /\ CoreInv
  /\ SavesInOrder /\ DownMeansOver /\ ReportedAtTheEnd /\ SentOnlyFromCalling
  /\ ExecutingIsSaved /\ ExceptionTells
  /\ WriteAhead
  /\ HonestRecord /\ Honest(snapshot)
  /\ ReportedUntouched

\* A modification that took effect is reported as a plain failure only when the
\* ledger could not be saved (then nothing stops the model from trying again).
WrongReportOnlyAfterLostSave ==
  \A c \in Call :
    outcome[c] = "failed" /\ request[c] = "applied" => write[c] = "rejected" \/ crashes > 0

\* A call that ended leaves a finished record, unless a save was refused or it
\* lost the race for the ambiguous record it wanted to resolve.
UnfinishedOnlyAfterFault ==
  \A c \in Call :
    /\ pc[c] = "done" /\ outcome[c] # "lost" /\ crashes = 0
    /\ status[c] \notin Terminal \cup {"none"}
    => write[c] = "rejected" \/ retryOf[c] # NoCall

\* A modification that names items changes the document its run is bound to,
\* also when the user changes documents between the identity check and the call;
\* one that names none can change the new one.
ItemsKeepToTheirDocument ==
  \A c \in Call : appliedTo[c] \notin {NoKey, bound[c]} => op[c] \notin ItemOp

\* What a run reports wrongly, leaves unfinished or does to a document it is not
\* bound to has an explanation.
FaultsExplain ==
  WrongReportOnlyAfterLostSave /\ UnfinishedOnlyAfterFault /\ ItemsKeepToTheirDocument

\* What is known of a record where its call is suspended: which exception found
\* it in which status, and whether a save was refused on the way.
InExecution(c) == status[c] = "executing" /\ executing[c]

StatusTells(c) ==
  /\ pc[c] \in {"idle", "bound"} /\ crashes = 0 => status[c] = "none"
  /\ pc[c] \in {"asking", "approval"} => status[c] = "awaiting-approval"
  /\ pc[c] = "calling" => InExecution(c)
  /\ pc[c] = "cancelling" => status[c] = "cancelled"
  /\ pc[c] = "caught" =>
       /\ fault[c] \in {"target", "ambiguous"} => InExecution(c)
       /\ fault[c] = "abort" => InExecution(c) \/ status[c] = "awaiting-approval"
       /\ fault[c] = "error" => write[c] = "rejected" \/ retryOf[c] # NoCall \/ InExecution(c)
       /\ fault[c] = "error" => write[c] = "rejected" \/ request[c] \in {"none", "refused"}
  /\ pc[c] = "settling" =>
       /\ status[c] \in Terminal
       /\ fault[c] = "failed" => request[c] \in {"none", "refused"}

\* What a call that is over leaves behind, and what the plugin changed for it.
EndTells(c) ==
  /\ outcome[c] = "failed" =>
       request[c] \in {"none", "refused"} \/ write[c] = "rejected" \/ crashes > 0
  /\ appliedTo[c] # NoKey => request[c] = "applied"

\* The inductive invariant behind FaultsExplain, with RecordInv.
FaultInv ==
  /\ process # "up" => crashes > 0
  /\ \A c \in Call : StatusTells(c) /\ EndTells(c)
  /\ UnfinishedOnlyAfterFault /\ ItemsKeepToTheirDocument

\* After a crash and the restart, every call that was cut off after its request
\* was sent has a record that says so: it blocks the same modification.
CrashLeavesSuspicion ==
  \A c \in Call :
    outcome[c] = "lost" /\ request[c] # "none" /\ process = "up" => status[c] \in Reached

\* Why: recovery leaves no record `executing`, and a call that was cut off marks
\* none again.
NoneLeftExecuting ==
  \A c \in Call : outcome[c] = "lost" \/ process # "up" => status[c] # "executing"

\* An ambiguous record is laid to rest only by a call for the same modification
\* that the user asked for again and that was let through.
ResolvedOnlyByConfirmedRetry ==
  \A a \in Call :
    "resolved" \in {status[a], file[a]} =>
      \E c \in Call \ {a} :
        /\ retryOf[c] = a /\ confirmed[c] /\ answer[c] # "nobody"
        /\ op[c] = op[a] /\ bound[c] = bound[a]

\* Two conversations that both retry the same ambiguous modification do not both
\* run it, although both found the record before either had resolved it.
RetriedOnce ==
  \A c, d \in Call :
    /\ retryOf[c] = retryOf[d] /\ retryOf[c] # NoCall
    /\ request[c] # "none" /\ request[d] # "none"
    => c = d

\* Retries of an ambiguous modification are confirmed ones, and one at most runs.
RetriesAreConfirmed == ResolvedOnlyByConfirmedRetry /\ RetriedOnce

\* A record is about what its call does, and a call that goes on to execute was
\* let through.
RecordsAreOfTheirCalls ==
  \A c \in Call :
    /\ subject[c] # NoSubject => subject[c] = SubjectOf(c) /\ pc[c] # "idle"
    /\ pc[c] \in {"approving", "resolving"} => answer[c] # "nobody"

\* What a retry and the call it repeats have to do with each other.
RetriesMatch ==
  \A c \in Call : retryOf[c] # NoCall =>
    LET a == retryOf[c]
    IN /\ a # c /\ confirmed[c] /\ op[c] = op[a] /\ bound[c] = bound[a]
       /\ pc[c] \notin {"idle", "bound"} /\ pc[a] # "idle"

\* Whatever copy of a record says `resolved`, there is a retry that said so.
ResolvedByRetry ==
  \A a \in Call :
    "resolved" \in {status[a], snapshot[a], file[a]} =>
      \E c \in Call : retryOf[c] = a /\ answer[c] # "nobody"

\* The save that a retry awaits before it goes on is a save of the resolution.
ResolvingIsSaved ==
  \A c \in Call : pc[c] = "resolving" =>
    /\ retryOf[c] # NoCall
    /\ status[retryOf[c]] = "resolved"
    /\ write[c] = "saved" => file[retryOf[c]] = "resolved"
    /\ saving /\ Head(writeTail) = c => snapshot[retryOf[c]] = "resolved"

\* A retry that went on found its resolution on disk, where no crash undoes it.
GoesOn(c) == pc[c] \in {"locking", "marking", "calling"} \/ request[c] # "none"
ResolvedBeforeExecution ==
  \A c \in Call : retryOf[c] # NoCall /\ GoesOn(c) => file[retryOf[c]] = "resolved"

\* Only one call resolves a record and goes on.
OneResolves ==
  \A c, d \in Call :
    /\ retryOf[c] = retryOf[d] /\ retryOf[c] # NoCall
    /\ GoesOn(c) \/ pc[c] = "resolving"
    /\ GoesOn(d) \/ pc[d] = "resolving"
    => c = d

\* The inductive invariant behind RetriesAreConfirmed, with RecordInv.
RetryInv ==
  /\ RecordsAreOfTheirCalls /\ RetriesMatch /\ ResolvedByRetry
  /\ ResolvingIsSaved /\ ResolvedBeforeExecution /\ OneResolves

\* A call that was let through, or whose run was aborted (an open dialog
\* included), comes to an end: no lock, save or silent plugin holds it for ever.
LetThroughOrAbortedEnds ==
  \A c \in Call : pc[c] = "approving" \/ aborted[c] ~> pc[c] = "done"

=============================================================================
