------------------------ MODULE ToolExecution_proofs ------------------------
(***************************************************************************)
(* Proofs about ToolExecution.  The lock and the ledger keep the           *)
(* invariants they have on their own when the tool executor, the plugin    *)
(* and crashes drive them together, and the place where a call is          *)
(* suspended is tied to its place in the lock, so that what the lock       *)
(* promises becomes a promise about tool calls.  Then what the records say *)
(* of the calls: nothing is sent before the file says so (WriteAhead), no  *)
(* record lies (HonestRecord), and what the model hears as "did not        *)
(* happen" did not (ReportedUntouched).  Last what a run reports and what  *)
(* becomes of retries: what looks wrong afterwards has an explanation      *)
(* (FaultsExplain), a call that a crash cut off stays under suspicion      *)
(* (CrashLeavesSuspicion), and an ambiguous modification is repeated by    *)
(* one confirmed retry (RetriesAreConfirmed).                              *)
(***************************************************************************)
EXTENDS ToolExecution, ToolParts_proofs

\* Nothing has happened yet.
LEMMA InitCore == Init => CoreInv
<1> SUFFICES ASSUME Init PROVE CoreInv
  OBVIOUS
<1>1. ChainInv /\ LedgerInv
  BY ChainInit, LedgerInitInv DEF Init
<1>2. CallTypeOK
  BY DEF Init, CallTypeOK, PC, Fault, Outcome
<1>3. LockFollowsPc /\ SettlesByBranch
  BY DEF Init, CoordinatorInit, LockFollowsPc, SettlesByBranch
<1> QED BY <1>1, <1>2, <1>3 DEF CoreInv

----------------------------------------------------------------------------
(* The lock.                                                                *)

\* Every step of the composition is a step of the lock, a crash of it, or leaves
\* it alone.
LEMMA StepsOfTheLock ==
  ASSUME Next, CallTypeOK, LockFollowsPc
  PROVE  [CoordinatorNext]_coordinatorVars \/ CoordinatorCrash
<1>1. ASSUME NEW c \in Call, CallStep(c)
      PROVE  [CoordinatorNext]_coordinatorVars
  <2>1. ASSUME QueueUp(c) PROVE CoordinatorNext
    <3>1. Chain(c, bound[c]) /\ bound[c] \in Key
      BY <2>1 DEF QueueUp, Validated, AwaitSaved, LockFollowsPc
    <3> QED BY <3>1 DEF CoordinatorNext
  <2>2. ASSUME MarkExecuting(c) PROVE CoordinatorNext
    BY <2>2 DEF MarkExecuting, CoordinatorNext
  <2>3. ASSUME MarkExecutingFails(c) \/ CheckFails(c) \/ ResultArrives(c)
               \/ ErrorArrives(c) \/ AnswerLost(c)
        PROVE  CoordinatorNext
    BY <2>3 DEF MarkExecutingFails, CheckFails, ResultArrives, ErrorArrives, AnswerLost,
                CoordinatorNext
  <2>4. ASSUME \/ BindRun(c) \/ BlockRetry(c) \/ BeginRecord(c) \/ SaveRejected(c)
               \/ RequestApproval(c) \/ OpenDialog(c) \/ Approve(c, "setting")
               \/ ValidationFails(c) \/ ResolveAmbiguous(c) \/ SendCall(c)
               \/ Return(c) \/ Catch(c) \/ Settle(c)
        PROVE  UNCHANGED coordinatorVars
    BY <2>4 DEF BindRun, BlockRetry, BeginRecord, SaveRejected, RequestApproval, OpenDialog,
                Approve, ValidationFails, ResolveAmbiguous, SendCall, Return, Catch, Settle
  <2> QED BY <1>1, <2>1, <2>2, <2>3, <2>4 DEF CallStep
<1>2. ASSUME NEW c \in Call, UserStep(c) \/ PluginStep(c)
      PROVE  UNCHANGED coordinatorVars
  BY <1>2 DEF UserStep, PluginStep, Approve, Denied, Abort, PluginApplies, PluginRefuses
<1>3. ASSUME SaveStep \/ Restart \/ DocumentChanges \/ HostRestarts \/ Finished
      PROVE  UNCHANGED coordinatorVars
  BY <1>3 DEF SaveStep, Restart, LedgerOnly, DocumentChanges, HostRestarts, Finished, vars
<1>4. ASSUME Crash PROVE CoordinatorCrash
  BY <1>4 DEF Crash
<1> QED BY <1>1, <1>2, <1>3, <1>4 DEF Next

\* Every step of the composition keeps the line in order.
LEMMA NextKeepsChainInv == CoreInv /\ Next => ChainInv'
BY StepsOfTheLock, ChainNext, CrashKeepsInv DEF CoreInv

----------------------------------------------------------------------------
(* The ledger.                                                              *)

\* A record is marked by a call, with a status of the table.
LEMMA MarkInTable ==
  ASSUME LedgerInv, NEW w \in Call, NEW c \in Call, NEW to, Mark(w, c, to)
  PROVE  LedgerInv'
<1>1. status[c] \in Status /\ to \in Transitions[status[c]]
  BY DEF LedgerInv, LedgerTypeOK, Statuses, Mark, CanMark
<1>2. to \in Status
  BY <1>1, TransitionsAreForward
<1> QED BY <1>2, MarkKeepsInv

\* A step that leaves the ledger alone keeps its invariant.
LEMMA IdleKeepsLedgerInv ==
  ASSUME LedgerInv, UNCHANGED ledgerVars
  PROVE  LedgerInv'
BY LedgerNextInv

\* Every step of the composition keeps the invariant of the ledger, and replaces
\* the file only by a save or a recovery.
LEMMA NextKeepsLedgerInv ==
  ASSUME CoreInv, Next
  PROVE  LedgerInv' /\ (SaveSucceeds \/ RecoverySaved \/ UNCHANGED file)
<1>1. LedgerInv /\ CallTypeOK /\ LockFollowsPc
  BY DEF CoreInv
<1>2. ASSUME NEW w \in Call, NEW c \in Call, NEW to, Mark(w, c, to)
      PROVE  LedgerInv' /\ UNCHANGED file
  BY <1>1, <1>2, MarkInTable DEF Mark
<1>3. ASSUME UNCHANGED ledgerVars
      PROVE  LedgerInv' /\ UNCHANGED file
  BY <1>1, <1>3, IdleKeepsLedgerInv DEF ledgerVars
<1>4. ASSUME NEW c \in Call, CallStep(c)
      PROVE  LedgerInv' /\ UNCHANGED file
  <2>1. ASSUME BeginRecord(c) PROVE LedgerInv' /\ UNCHANGED file
    <3>1. SubjectOf(c) \in Subject /\ Begin(c, SubjectOf(c))
      BY <2>1, <1>1, ToolExecutionConstants
         DEF BeginRecord, SubjectOf, LockFollowsPc, CallTypeOK
    <3> QED BY <3>1, <1>1, BeginKeepsInv DEF Begin
  <2>2. ASSUME RequestApproval(c) \/ ValidationFails(c) \/ MarkExecuting(c)
               \/ ResultArrives(c)
        PROVE  LedgerInv' /\ UNCHANGED file
    BY <2>2, <1>2 DEF RequestApproval, ValidationFails, MarkExecuting, ResultArrives
  <2>3. ASSUME Approve(c, "setting") PROVE LedgerInv' /\ UNCHANGED file
    BY <2>3, <1>2, <1>3 DEF Approve
  <2>4. ASSUME ResolveAmbiguous(c) PROVE LedgerInv' /\ UNCHANGED file
    <3>1. retryOf[c] \in Call
      BY <2>4, <1>1 DEF ResolveAmbiguous, CallTypeOK
    <3> QED BY <2>4, <3>1, <1>2, <1>3 DEF ResolveAmbiguous
  <2>5. ASSUME Catch(c) PROVE LedgerInv' /\ UNCHANGED file
    BY <2>5, <1>2, <1>3 DEF Catch
  <2>6. ASSUME \/ BindRun(c) \/ BlockRetry(c) \/ SaveRejected(c) \/ OpenDialog(c)
               \/ QueueUp(c) \/ MarkExecutingFails(c) \/ SendCall(c) \/ CheckFails(c)
               \/ ErrorArrives(c) \/ AnswerLost(c) \/ Return(c) \/ Settle(c)
        PROVE  LedgerInv' /\ UNCHANGED file
    <3>1. UNCHANGED ledgerVars
      BY <2>6 DEF BindRun, BlockRetry, SaveRejected, OpenDialog, QueueUp,
                  MarkExecutingFails, SendCall, CheckFails, ErrorArrives, AnswerLost,
                  Return, Settle
    <3> QED BY <3>1, <1>3
  <2> QED BY <1>4, <2>1, <2>2, <2>3, <2>4, <2>5, <2>6 DEF CallStep
<1>5. ASSUME NEW c \in Call, UserStep(c) \/ PluginStep(c)
      PROVE  LedgerInv' /\ UNCHANGED file
  <2>1. ASSUME Approve(c, "user") PROVE LedgerInv' /\ UNCHANGED file
    BY <2>1, <1>2, <1>3 DEF Approve
  <2>2. ASSUME Denied(c) PROVE LedgerInv' /\ UNCHANGED file
    BY <2>2, <1>2 DEF Denied
  <2>3. ASSUME Abort(c) \/ PluginStep(c) PROVE LedgerInv' /\ UNCHANGED file
    BY <2>3, <1>3 DEF Abort, PluginStep, PluginApplies, PluginRefuses
  <2> QED BY <1>5, <2>1, <2>2, <2>3 DEF UserStep
<1>6. ASSUME SaveStep \/ Crash \/ Restart
      PROVE  LedgerInv' /\ (SaveSucceeds \/ RecoverySaved \/ UNCHANGED file)
  BY <1>6, <1>1, SaveKeepsInv, CrashRestartKeepInv
     DEF SaveStep, Crash, Restart, SaveStarts, SaveFails, LedgerCrash, LedgerRestart
<1>7. ASSUME DocumentChanges \/ HostRestarts \/ Finished
      PROVE  LedgerInv' /\ UNCHANGED file
  BY <1>7, <1>3 DEF DocumentChanges, HostRestarts, Finished, vars
<1> QED BY <1>4, <1>5, <1>6, <1>7 DEF Next

----------------------------------------------------------------------------
(* The calls.                                                               *)

\* A move of one call to a known place, with a known fault and outcome, is well
\* typed.
LEMMA MovesAreTyped ==
  ASSUME CallTypeOK, NEW c \in Call,
         \/ \E p \in PC : Goto(c, p)
         \/ \E r \in Outcome : Finish(c, r)
         \/ \E f \in Fault : Throw(c, f)
  PROVE  /\ pc' \in [Call -> PC]
         /\ fault' \in [Call -> Fault]
         /\ outcome' \in [Call -> Outcome]
BY DEF CallTypeOK, Goto, Finish, Throw, PC

\* The catch block takes one of its branches.
LEMMA ReadingIsABranch ==
  ASSUME NEW c \in Call
  PROVE  Reading(c) \in Branch
BY DEF Reading, Branch

\* Every step keeps the local state of the calls well typed.
LEMMA NextKeepsCallTypeOK ==
  ASSUME CallTypeOK, SettlesByBranch, Next
  PROVE  CallTypeOK'
<1>1. ASSUME NEW c \in Call, CallStep(c)
      PROVE  CallTypeOK'
  <2> USE DEF CallTypeOK, callVars, hostVars
  <2>1. CASE BindRun(c)
    BY <2>1, MovesAreTyped DEF BindRun, PC
  <2>2. CASE BlockRetry(c) \/ Return(c)
    BY <2>2, MovesAreTyped DEF BlockRetry, Return, Outcome
  <2>3. CASE BeginRecord(c)
    BY <2>3, MovesAreTyped DEF BeginRecord, Ambiguous, PC
  <2>4. CASE SaveRejected(c) \/ MarkExecutingFails(c) \/ ErrorArrives(c) \/ AnswerLost(c)
    BY <2>4, MovesAreTyped DEF SaveRejected, MarkExecutingFails, ErrorArrives, AnswerLost, Fault
  <2>5. CASE RequestApproval(c) \/ OpenDialog(c) \/ ValidationFails(c) \/ QueueUp(c)
              \/ MarkExecuting(c) \/ ResultArrives(c)
    BY <2>5, MovesAreTyped DEF RequestApproval, OpenDialog, ValidationFails, QueueUp,
                               MarkExecuting, ResultArrives, PC
  <2>6. CASE Approve(c, "setting")
    BY <2>6, MovesAreTyped DEF Approve, PC, Fault
  <2>7. CASE ResolveAmbiguous(c)
    BY <2>7, MovesAreTyped DEF ResolveAmbiguous, PC, Fault
  <2>8. CASE SendCall(c)
    BY <2>8, MovesAreTyped DEF SendCall, PC
  <2>9. CASE CheckFails(c)
    BY <2>9, MovesAreTyped DEF CheckFails, Fault
  <2>10. CASE Catch(c)
    <3>1. /\ pc' \in [Call -> PC]
          /\ fault' \in [Call -> Fault]
          /\ outcome' \in [Call -> Outcome]
      BY <2>10, MovesAreTyped, ReadingIsABranch DEF Catch, PC, Fault, Outcome, Branch
    <3> QED BY <2>10, <3>1 DEF Catch
  <2>11. CASE Settle(c)
    <3>1. /\ pc' \in [Call -> PC]
          /\ fault' \in [Call -> Fault]
          /\ outcome' \in [Call -> Outcome]
      BY <2>11, MovesAreTyped
         DEF Settle, SettlesByBranch, AwaitSaved, AwaitRejected, Outcome, Branch
    <3> QED BY <2>11, <3>1 DEF Settle
  <2> QED
    BY <1>1, <2>1, <2>2, <2>3, <2>4, <2>5, <2>6, <2>7, <2>8, <2>9, <2>10, <2>11 DEF CallStep
<1>2. ASSUME NEW c \in Call, UserStep(c) \/ PluginStep(c)
      PROVE  CallTypeOK'
  <2> USE DEF CallTypeOK, callVars, hostVars
  <2>1. CASE Approve(c, "user")
    BY <2>1, MovesAreTyped DEF Approve, PC, Fault
  <2>2. CASE Denied(c)
    BY <2>2, MovesAreTyped DEF Denied, PC
  <2>3. CASE Abort(c)
    BY <2>3 DEF Abort
  <2>4. CASE PluginStep(c)
    BY <2>4 DEF PluginStep, PluginApplies, PluginRefuses
  <2> QED BY <1>2, <2>1, <2>2, <2>3, <2>4 DEF UserStep
<1>3. ASSUME SaveStep \/ Restart \/ Finished
      PROVE  CallTypeOK'
  BY <1>3 DEF SaveStep, Restart, LedgerOnly, Finished, vars, CallTypeOK, callVars, hostVars
<1>4. ASSUME DocumentChanges \/ HostRestarts
      PROVE  CallTypeOK'
  BY <1>4 DEF DocumentChanges, HostRestarts, CallTypeOK, callVars
<1>5. ASSUME Crash PROVE CallTypeOK'
  BY <1>5 DEF Crash, CallTypeOK, callVars, hostVars, PC, Outcome
<1> QED BY <1>1, <1>2, <1>3, <1>4, <1>5 DEF Next

----------------------------------------------------------------------------
(* Where a call is suspended and where it is in the lock.                   *)

\* A step of c's that moves nothing in the lock and keeps c on its side of it.
LEMMA MoveOutsideLock ==
  ASSUME CoreInv, NEW c \in Call, NEW there \in PC,
         UNCHANGED <<coordinatorVars, bound>>, pc' = [pc EXCEPT ![c] = there],
         pc[c] # "idle", there \notin {"locking", "marking"},
         there = "calling" => pc[c] = "marking",
         there \in {"idle", "bound", "beginning", "asking", "approval", "approving",
                   "resolving"}
           => pc[c] \in {"bound", "beginning", "asking", "approval", "approving"}
  PROVE  LockFollowsPc'
BY DEF CoreInv, LockFollowsPc, CallTypeOK, coordinatorVars

\* A step of c's that opens its gate leaves the locked part for the catch block
\* or for the save of its success.
LEMMA MoveOutOfLock ==
  ASSUME CoreInv, NEW c \in Call, NEW there \in {"caught", "succeeding"},
         Release(c), UNCHANGED bound, pc' = [pc EXCEPT ![c] = there], pc[c] # "idle"
  PROVE  LockFollowsPc'
BY DEF CoreInv, ChainInv, CoordinatorTypeOK, Release, LockFollowsPc, CallTypeOK

\* Every step keeps the calls where the lock says they are.
LEMMA NextKeepsLockFollowsPc == CoreInv /\ Next => LockFollowsPc'
<1> SUFFICES ASSUME CoreInv, Next PROVE LockFollowsPc'
  OBVIOUS
<1>1. /\ LockFollowsPc /\ pc \in [Call -> PC] /\ bound \in [Call -> Key \cup {NoKey}]
      /\ document \in Key
      /\ phase \in [Call -> Phase] /\ keyOf \in [Call -> Key \cup {NoKey}]
  BY DEF CoreInv, CallTypeOK, ChainInv, CoordinatorTypeOK
<1>2. ASSUME NEW c \in Call, CallStep(c)
      PROVE  LockFollowsPc'
  <2>1. CASE BindRun(c)
    BY <1>1, <2>1 DEF BindRun, Goto, LockFollowsPc, coordinatorVars
  <2>2. CASE BlockRetry(c) \/ Return(c) \/ Settle(c)
    <3>1. /\ pc' = [pc EXCEPT ![c] = "done"] /\ pc[c] # "idle"
          /\ UNCHANGED <<coordinatorVars, bound>>
      BY <2>2 DEF BlockRetry, Return, Settle, Finish, AwaitSaved, AwaitRejected, callVars
    <3> QED BY <3>1, MoveOutsideLock DEF PC
  <2>3. CASE SaveRejected(c)
    <3>1. /\ pc' = [pc EXCEPT ![c] = "caught"] /\ pc[c] # "idle"
          /\ UNCHANGED <<coordinatorVars, bound>>
      BY <2>3 DEF SaveRejected, Throw, AwaitRejected, callVars
    <3> QED BY <3>1, MoveOutsideLock DEF PC
  <2>4. CASE BeginRecord(c) \/ RequestApproval(c) \/ OpenDialog(c)
    <3>1. /\ \E there \in {"beginning", "asking", "approval"} :
                pc' = [pc EXCEPT ![c] = there]
          /\ pc[c] \in {"bound", "beginning", "asking"}
          /\ UNCHANGED <<coordinatorVars, bound>>
      BY <2>4 DEF BeginRecord, RequestApproval, OpenDialog, Goto, AwaitSaved, callVars
    <3> QED BY <3>1, MoveOutsideLock DEF PC
  <2>5. CASE Approve(c, "setting") \/ ResolveAmbiguous(c)
    <3>1. /\ \E there \in {"approving", "resolving", "caught"} :
                pc' = [pc EXCEPT ![c] = there]
          /\ pc[c] \in {"asking", "approval", "approving"}
          /\ UNCHANGED <<coordinatorVars, bound>>
      BY <2>5 DEF Approve, ResolveAmbiguous, Validated, Goto, Throw, AwaitSaved, callVars
    <3> QED BY <3>1, MoveOutsideLock DEF PC
  <2>6. CASE ValidationFails(c)
    <3>1. /\ pc' = [pc EXCEPT ![c] = "cancelling"] /\ pc[c] # "idle"
          /\ UNCHANGED <<coordinatorVars, bound>>
      BY <2>6 DEF ValidationFails, Goto, AwaitSaved, callVars
    <3> QED BY <3>1, MoveOutsideLock DEF PC
  <2>7. CASE QueueUp(c)
    <3>1. /\ pc' = [pc EXCEPT ![c] = "locking"] /\ UNCHANGED bound
          /\ Chain(c, bound[c]) /\ pc[c] # "idle"
      BY <2>7 DEF QueueUp, Goto, Validated, AwaitSaved, callVars
    <3> QED BY <1>1, <3>1 DEF Chain, LockFollowsPc
  <2>8. CASE MarkExecuting(c)
    BY <1>1, <2>8 DEF MarkExecuting, Enter, Goto, LockFollowsPc, callVars
  <2>9. CASE SendCall(c)
    <3>1. /\ pc' = [pc EXCEPT ![c] = "calling"] /\ pc[c] = "marking"
          /\ UNCHANGED <<coordinatorVars, bound>>
      BY <2>9 DEF SendCall, Goto, AwaitSaved, callVars
    <3> QED BY <3>1, MoveOutsideLock DEF PC
  <2>10. CASE \/ MarkExecutingFails(c) \/ CheckFails(c) \/ ResultArrives(c)
              \/ ErrorArrives(c) \/ AnswerLost(c)
    <3>1. /\ \E there \in {"caught", "succeeding"} : pc' = [pc EXCEPT ![c] = there]
          /\ Release(c) /\ UNCHANGED bound /\ pc[c] # "idle"
      BY <2>10 DEF MarkExecutingFails, CheckFails, ResultArrives, ErrorArrives, AnswerLost,
                   Goto, Throw, AwaitSaved, AwaitRejected, callVars
    <3> QED BY <3>1, MoveOutOfLock
  <2>11. CASE Catch(c)
    <3>1. /\ \E there \in {"done", "settling"} : pc' = [pc EXCEPT ![c] = there]
          /\ pc[c] # "idle" /\ UNCHANGED <<coordinatorVars, bound>>
      BY <2>11 DEF Catch, Finish, callVars
    <3> QED BY <3>1, MoveOutsideLock DEF PC
  <2> QED
    BY <1>2, <2>1, <2>2, <2>3, <2>4, <2>5, <2>6, <2>7, <2>8, <2>9, <2>10, <2>11 DEF CallStep
<1>3. ASSUME NEW c \in Call, UserStep(c)
      PROVE  LockFollowsPc'
  <2>1. CASE Approve(c, "user") \/ Denied(c)
    <3>1. /\ \E there \in {"approving", "caught", "cancelling"} :
                pc' = [pc EXCEPT ![c] = there]
          /\ pc[c] \in {"approval", "asking"}
          /\ UNCHANGED <<coordinatorVars, bound>>
      BY <2>1 DEF Approve, Denied, Goto, Throw, AwaitSaved, callVars
    <3> QED BY <3>1, MoveOutsideLock DEF PC
  <2>2. CASE Abort(c)
    BY <1>1, <2>2 DEF Abort, LockFollowsPc, coordinatorVars, callVars
  <2> QED BY <1>3, <2>1, <2>2 DEF UserStep
<1>4. ASSUME \/ \E c \in Call : PluginStep(c)
             \/ SaveStep \/ Restart \/ DocumentChanges \/ HostRestarts \/ Finished
      PROVE  LockFollowsPc'
  <2>1. UNCHANGED <<coordinatorVars, pc, bound>>
    BY <1>4 DEF PluginStep, PluginApplies, PluginRefuses, SaveStep, Restart, LedgerOnly,
                DocumentChanges, HostRestarts, Finished, vars, callVars
  <2> QED BY <1>1, <2>1 DEF LockFollowsPc, coordinatorVars
<1>5. ASSUME Crash PROVE LockFollowsPc'
  <2>1. /\ \A c \in Call : pc'[c] \in {"idle", "done"} /\ (pc'[c] = "idle" => pc[c] = "idle")
        /\ \A c \in Call : pc'[c] = "idle" => phase'[c] = phase[c]
        /\ \A c \in Call : pc'[c] # "idle" => pc[c] # "idle"
        /\ UNCHANGED bound
    BY <1>1, <1>5 DEF Crash, CoordinatorCrash, callVars, LockFollowsPc
  <2> QED BY <1>1, <2>1 DEF LockFollowsPc
<1> QED BY <1>2, <1>3, <1>4, <1>5 DEF Next

\* Only Catch sends a call to settle, and it leaves the branch behind.
LEMMA NextKeepsSettlesByBranch == CoreInv /\ Next => SettlesByBranch'
<1> SUFFICES ASSUME CoreInv, Next PROVE SettlesByBranch'
  OBVIOUS
<1>1. SettlesByBranch /\ pc \in [Call -> PC] /\ fault \in [Call -> Fault]
  BY DEF CoreInv, CallTypeOK
<1>2. ASSUME NEW c \in Call, NEW there \in PC, there # "settling",
             pc' = [pc EXCEPT ![c] = there],
             fault' = fault \/ \E f \in Fault : fault' = [fault EXCEPT ![c] = f]
      PROVE  SettlesByBranch'
  BY <1>1, <1>2 DEF SettlesByBranch
<1>3. ASSUME UNCHANGED <<pc, fault>>
      PROVE  SettlesByBranch'
  BY <1>1, <1>3 DEF SettlesByBranch
<1>4. ASSUME NEW c \in Call, CallStep(c)
      PROVE  SettlesByBranch'
  <2>1. CASE Catch(c)
    <3>1. CASE Finish(c, Reading(c))
      BY <1>2, <3>1 DEF Finish, PC
    <3>2. CASE /\ pc' = [pc EXCEPT ![c] = "settling"]
               /\ fault' = [fault EXCEPT ![c] = Reading(c)]
      BY <1>1, <3>2, ReadingIsABranch DEF SettlesByBranch
    <3> QED BY <2>1, <3>1, <3>2 DEF Catch
  <2>2. CASE \/ BindRun(c) \/ BlockRetry(c) \/ BeginRecord(c) \/ RequestApproval(c)
             \/ OpenDialog(c) \/ ValidationFails(c) \/ QueueUp(c) \/ MarkExecuting(c)
             \/ SendCall(c) \/ ResultArrives(c) \/ Return(c) \/ Settle(c)
    <3>1. /\ \E there \in PC \ {"settling"} : pc' = [pc EXCEPT ![c] = there]
          /\ fault' = fault
      BY <2>2 DEF BindRun, BlockRetry, BeginRecord, RequestApproval, OpenDialog,
                  ValidationFails, QueueUp, MarkExecuting, SendCall, ResultArrives, Return,
                  Settle, Goto, Finish, PC
    <3> QED BY <1>2, <3>1
  <2>3. CASE \/ SaveRejected(c) \/ Approve(c, "setting") \/ ResolveAmbiguous(c)
             \/ MarkExecutingFails(c) \/ CheckFails(c) \/ ErrorArrives(c) \/ AnswerLost(c)
    <3>1. /\ \E there \in PC \ {"settling"} : pc' = [pc EXCEPT ![c] = there]
          /\ fault' = fault \/ \E f \in Fault : fault' = [fault EXCEPT ![c] = f]
      BY <2>3 DEF SaveRejected, Approve, ResolveAmbiguous, MarkExecutingFails, CheckFails,
                  ErrorArrives, AnswerLost, Goto, Throw, PC, Fault
    <3> QED BY <1>2, <3>1
  <2> QED BY <1>4, <2>1, <2>2, <2>3 DEF CallStep
<1>5. ASSUME NEW c \in Call, UserStep(c)
      PROVE  SettlesByBranch'
  <2>1. CASE Approve(c, "user") \/ Denied(c)
    <3>1. /\ \E there \in PC \ {"settling"} : pc' = [pc EXCEPT ![c] = there]
          /\ fault' = fault \/ \E f \in Fault : fault' = [fault EXCEPT ![c] = f]
      BY <2>1 DEF Approve, Denied, Goto, Throw, PC, Fault
    <3> QED BY <1>2, <3>1
  <2>2. CASE Abort(c)
    BY <1>3, <2>2 DEF Abort
  <2> QED BY <1>5, <2>1, <2>2 DEF UserStep
<1>6. ASSUME \/ \E c \in Call : PluginStep(c)
             \/ SaveStep \/ Restart \/ DocumentChanges \/ HostRestarts \/ Finished
      PROVE  SettlesByBranch'
  <2>1. UNCHANGED <<pc, fault>>
    BY <1>6 DEF PluginStep, PluginApplies, PluginRefuses, SaveStep, Restart, LedgerOnly,
                DocumentChanges, HostRestarts, Finished, vars
  <2> QED BY <2>1, <1>3
<1>7. ASSUME Crash PROVE SettlesByBranch'
  BY <1>7 DEF Crash, SettlesByBranch
<1> QED BY <1>4, <1>5, <1>6, <1>7 DEF Next

\* The invariant of the composition is inductive.
LEMMA NextKeepsCoreInv == CoreInv /\ [Next]_vars => CoreInv'
<1>1. CoreInv /\ UNCHANGED vars => CoreInv'
  <2> SUFFICES ASSUME CoreInv, UNCHANGED vars PROVE CoreInv'
    OBVIOUS
  <2>1. ChainInv' /\ LedgerInv'
    BY ChainNext, LedgerNextInv DEF CoreInv, vars
  <2>2. CallTypeOK' /\ LockFollowsPc' /\ SettlesByBranch'
    BY DEF CoreInv, vars, callVars, hostVars, coordinatorVars, CallTypeOK, LockFollowsPc,
           SettlesByBranch
  <2> QED BY <2>1, <2>2 DEF CoreInv
<1>2. CoreInv /\ Next => CoreInv'
  BY NextKeepsChainInv, NextKeepsLedgerInv, NextKeepsCallTypeOK, NextKeepsLockFollowsPc,
     NextKeepsSettlesByBranch DEF CoreInv
<1> QED BY <1>1, <1>2

----------------------------------------------------------------------------
(* The theorems about the lock and the ledger.                              *)

\* The invariant holds throughout.
THEOREM CoreAlwaysInv == Spec => []CoreInv
<1>1. Init => CoreInv
  BY InitCore
<1>2. CoreInv /\ [Next]_vars => CoreInv'
  BY NextKeepsCoreInv
<1> QED BY <1>1, <1>2, PTL DEF Spec

\* Every reachable state is well typed.
THEOREM Typing == Spec => []TypeOK
<1>1. CoreInv => TypeOK
  BY DEF CoreInv, TypeOK, ChainInv, LedgerInv
<1> QED BY <1>1, CoreAlwaysInv, PTL

\* Two modifications of one document are never in their critical part at once:
\* for any number of calls, documents, crashes, refused saves and aborts.
THEOREM SerialExecution == Spec => []SerialPerDocument
<1>1. CoreInv => SerialPerDocument
  <2> SUFFICES ASSUME CoreInv PROVE SerialPerDocument
    OBVIOUS
  <2>1. MutualExclusion /\ LockFollowsPc
    BY InvExcludes DEF CoreInv
  <2> QED BY <2>1 DEF SerialPerDocument, MutualExclusion, LockFollowsPc
<1> QED BY <1>1, CoreAlwaysInv, PTL

\* Driven by tool calls, the ledger file still never gets ahead of memory.
THEOREM FileIsBehindCalls == Spec => []FileNeverAhead
<1>1. CoreInv => FileNeverAhead
  BY DEF CoreInv, LedgerInv
<1> QED BY <1>1, CoreAlwaysInv, PTL

\* Driven by tool calls, a verdict on disk still stands.
THEOREM VerdictsOfCallsStand == Spec => DurableVerdictStable
<1>1. CoreInv /\ [Next]_vars =>
        [\A c \in Call : file[c] \in Terminal =>
           \/ file'[c] = file[c]
           \/ file[c] = "ambiguous" /\ file'[c] = "resolved"]_ledgerVars
  BY NextKeepsLedgerInv, StepsKeepVerdicts DEF vars, CoreInv, ledgerVars
<1> QED BY <1>1, CoreAlwaysInv, PTL DEF Spec, DurableVerdictStable

----------------------------------------------------------------------------
(* Records.                                                                 *)

\* Appending to a chain of saves and serving its head.
LEMMA AppendToChain ==
  ASSUME NEW s \in Seq(Call), NEW w \in Call
  PROVE  /\ Append(s, w) \in Seq(Call)
         /\ Len(Append(s, w)) = Len(s) + 1
         /\ \A i \in 1..Len(s) : Append(s, w)[i] = s[i]
         /\ Append(s, w)[Len(s) + 1] = w
         /\ s # <<>> => Head(Append(s, w)) = Head(s)
OBVIOUS

LEMMA ServeHead ==
  ASSUME NEW s \in Seq(Call), s # <<>>
  PROVE  /\ Head(s) = s[1] /\ Head(s) \in Call
         /\ Len(s) \in Nat \ {0}
         /\ Len(Tail(s)) = Len(s) - 1
         /\ \A i \in 1..Len(Tail(s)) : Tail(s)[i] = s[i + 1]
OBVIOUS

\* The types the proofs below rest on.
LEMMA RecordTypes ==
  ASSUME RecordInv
  PROVE  /\ CoreInv /\ LedgerInv /\ CallTypeOK
         /\ status \in Statuses /\ file \in Statuses /\ snapshot \in Statuses
         /\ writeTail \in Seq(Call)
         /\ write \in [Call -> {"idle", "pending", "saved", "rejected"}]
         /\ pc \in [Call -> PC]
BY DEF RecordInv, CoreInv, LedgerInv, LedgerTypeOK, CallTypeOK

\* Nothing is suspended, recorded or sent at the start.
LEMMA InitRecords == Init => RecordInv
<1> SUFFICES ASSUME Init PROVE RecordInv
  OBVIOUS
<1>1. CoreInv
  BY InitCore
<1>2. SavesInOrder
  BY DEF Init, LedgerInit, SavesInOrder
<1>3. DownMeansOver /\ ReportedAtTheEnd /\ SentOnlyFromCalling /\ ExecutingIsSaved
      /\ ExceptionTells /\ WriteAhead /\ ReportedUntouched
  BY DEF Init, LedgerInit, DownMeansOver, ReportedAtTheEnd, SentOnlyFromCalling,
         ExecutingIsSaved, ExceptionTells, WriteAhead, ReportedUntouched
<1>4. HonestRecord /\ Honest(snapshot)
  BY DEF Init, LedgerInit, HonestRecord, Honest
<1> QED BY <1>1, <1>2, <1>3, <1>4 DEF RecordInv

----------------------------------------------------------------------------
(* The chain of saves.                                                      *)

\* A suspended call is woken by the save it awaits, so it never has two.
LEMMA PersistKeepsOrder ==
  ASSUME RecordInv, NEW c \in Call, write[c] # "pending", Persist(c),
         NEW there \in {"beginning", "asking", "approving", "resolving", "marking",
                        "succeeding", "cancelling", "settling"},
         pc' = [pc EXCEPT ![c] = there]
  PROVE  SavesInOrder'
<1>1. /\ writeTail \in Seq(Call) /\ SavesInOrder /\ pc \in [Call -> PC]
      /\ write \in [Call -> {"idle", "pending", "saved", "rejected"}]
  BY RecordTypes DEF RecordInv
<1>2. /\ writeTail' = Append(writeTail, c)
      /\ write' = [write EXCEPT ![c] = "pending"]
  BY DEF Persist
<1>3. /\ Len(writeTail') = Len(writeTail) + 1
      /\ \A i \in 1..Len(writeTail) : writeTail'[i] = writeTail[i] /\ writeTail[i] # c
                                      /\ writeTail[i] \in Call
      /\ writeTail'[Len(writeTail) + 1] = c
      /\ Len(writeTail) \in Nat
  BY <1>1, <1>2, AppendToChain DEF SavesInOrder
<1>4. \A i \in 1..Len(writeTail') :
        i \in 1..Len(writeTail) \/ i = Len(writeTail) + 1
  BY <1>3
<1>5. \A i \in 1..Len(writeTail') : write'[writeTail'[i]] = "pending"
  BY <1>1, <1>2, <1>3, <1>4 DEF SavesInOrder
<1>6. \A i, j \in 1..Len(writeTail') : writeTail'[i] = writeTail'[j] => i = j
  BY <1>1, <1>3, <1>4 DEF SavesInOrder
<1>7. \A d \in Call : write'[d] = "pending" =>
        pc'[d] \in {"beginning", "asking", "approving", "resolving", "marking",
                    "succeeding", "cancelling", "settling"}
  BY <1>1, <1>2 DEF SavesInOrder
<1> QED BY <1>5, <1>6, <1>7 DEF SavesInOrder

\* The save at the head is served once.
LEMMA ServeKeepsOrder ==
  ASSUME RecordInv, SaveSucceeds \/ SaveFails, UNCHANGED pc
  PROVE  SavesInOrder'
<1>1. /\ writeTail \in Seq(Call) /\ SavesInOrder /\ writeTail # <<>>
      /\ write \in [Call -> {"idle", "pending", "saved", "rejected"}]
  BY RecordTypes DEF RecordInv, LedgerInv, SaveSucceeds, SaveFails
<1>2. /\ writeTail' = Tail(writeTail)
      /\ \E how \in {"saved", "rejected"} : write' = [write EXCEPT ![Head(writeTail)] = how]
  BY DEF SaveSucceeds, SaveFails
<1>3. /\ Head(writeTail) = writeTail[1] /\ Len(writeTail) \in Nat \ {0}
      /\ Len(writeTail') = Len(writeTail) - 1
      /\ \A i \in 1..Len(writeTail') : writeTail'[i] = writeTail[i + 1]
      /\ \A i \in 1..Len(writeTail) : writeTail[i] \in Call
  BY <1>1, <1>2, ServeHead
<1>4. \A i \in 1..Len(writeTail') :
        /\ i + 1 \in 1..Len(writeTail)
        /\ writeTail'[i] = writeTail[i + 1]
        /\ writeTail[i + 1] # Head(writeTail)
  <2>1. \A i \in 1..Len(writeTail') : i + 1 \in 1..Len(writeTail) /\ i + 1 # 1
    BY <1>3
  <2>2. 1 \in 1..Len(writeTail)
    BY <1>3
  <2> QED BY <2>1, <2>2, <1>1, <1>3 DEF SavesInOrder
<1>5. \A i \in 1..Len(writeTail') : write'[writeTail'[i]] = "pending"
  BY <1>1, <1>2, <1>3, <1>4 DEF SavesInOrder
<1>6. \A i, j \in 1..Len(writeTail') : writeTail'[i] = writeTail'[j] => i = j
  <2> TAKE i, j \in 1..Len(writeTail')
  <2> HAVE writeTail'[i] = writeTail'[j]
  <2>1. i + 1 = j + 1
    BY <1>1, <1>4 DEF SavesInOrder
  <2>2. i \in Nat /\ j \in Nat
    OBVIOUS
  <2> QED BY <2>1, <2>2
<1>7. \A d \in Call : write'[d] = "pending" => write[d] = "pending"
  BY <1>1, <1>2
<1> QED BY <1>1, <1>5, <1>6, <1>7 DEF SavesInOrder

\* A call that awaits no save moves without touching the chain.
LEMMA MoveKeepsOrder ==
  ASSUME RecordInv, NEW c \in Call, write[c] # "pending",
         UNCHANGED <<writeTail, write>>,
         NEW there \in PC, pc' = [pc EXCEPT ![c] = there]
  PROVE  SavesInOrder'
BY RecordTypes DEF RecordInv, SavesInOrder

\* A call suspended anywhere but at a save awaits none.
LEMMA AwaitsNothing ==
  ASSUME RecordInv, NEW c \in Call,
         pc[c] \in {"idle", "bound", "approval", "locking", "calling", "caught", "done"}
  PROVE  write[c] # "pending"
BY DEF RecordInv, SavesInOrder

\* Every step keeps one pending save per suspended call.
LEMMA NextKeepsSavesInOrder == RecordInv /\ Next => SavesInOrder'
<1> SUFFICES ASSUME RecordInv, Next PROVE SavesInOrder'
  OBVIOUS
<1>1. ASSUME NEW c \in Call, CallStep(c) \/ Approve(c, "user") \/ Denied(c)
      PROVE  SavesInOrder'
  <2>1. CASE \/ BeginRecord(c) \/ RequestApproval(c) \/ ValidationFails(c)
             \/ MarkExecuting(c) \/ ResultArrives(c) \/ Denied(c)
    <3>1. /\ Persist(c) /\ write[c] # "pending"
          /\ \E there \in {"beginning", "asking", "marking", "succeeding", "cancelling"} :
               pc' = [pc EXCEPT ![c] = there]
      BY <2>1, AwaitsNothing
         DEF BeginRecord, Begin, RequestApproval, ValidationFails, MarkExecuting,
             ResultArrives, Denied, Mark, Goto, AwaitSaved
    <3> QED BY <3>1, PersistKeepsOrder
  <2>2. CASE Approve(c, "setting") \/ Approve(c, "user")
    <3>1. write[c] # "pending"
      BY <2>2, AwaitsNothing DEF Approve, AwaitSaved
    <3>2. \/ Persist(c) /\ pc' = [pc EXCEPT ![c] = "approving"]
          \/ UNCHANGED <<writeTail, write>> /\ pc' = [pc EXCEPT ![c] = "caught"]
      BY <2>2 DEF Approve, Mark, Goto, Throw, ledgerVars
    <3> QED BY <3>1, <3>2, PersistKeepsOrder, MoveKeepsOrder DEF PC
  <2>3. CASE ResolveAmbiguous(c)
    <3>1. write[c] # "pending"
      BY <2>3 DEF ResolveAmbiguous, Validated, AwaitSaved
    <3>2. \/ Persist(c) /\ pc' = [pc EXCEPT ![c] = "resolving"]
          \/ UNCHANGED <<writeTail, write>> /\ pc' = [pc EXCEPT ![c] = "caught"]
      BY <2>3 DEF ResolveAmbiguous, Mark, Goto, Throw, ledgerVars
    <3> QED BY <3>1, <3>2, PersistKeepsOrder, MoveKeepsOrder DEF PC
  <2>4. CASE Catch(c)
    <3>1. write[c] # "pending"
      BY <2>4, AwaitsNothing DEF Catch
    <3>2. \/ Persist(c) /\ pc' = [pc EXCEPT ![c] = "settling"]
          \/ UNCHANGED <<writeTail, write>> /\ pc' = [pc EXCEPT ![c] = "done"]
      BY <2>4 DEF Catch, Mark, Finish, ledgerVars
    <3> QED BY <3>1, <3>2, PersistKeepsOrder, MoveKeepsOrder DEF PC
  <2>5. CASE \/ BindRun(c) \/ BlockRetry(c) \/ SaveRejected(c) \/ OpenDialog(c)
             \/ QueueUp(c) \/ MarkExecutingFails(c) \/ SendCall(c) \/ CheckFails(c)
             \/ ErrorArrives(c) \/ AnswerLost(c) \/ Return(c) \/ Settle(c)
    <3>1. write[c] # "pending"
      BY <2>5, AwaitsNothing
         DEF BindRun, BlockRetry, SaveRejected, OpenDialog, QueueUp, Validated,
             MarkExecutingFails, SendCall, CheckFails, ErrorArrives, AnswerLost, Return,
             Settle, AwaitSaved, AwaitRejected
    <3>2. /\ UNCHANGED <<writeTail, write>>
          /\ \E there \in PC : pc' = [pc EXCEPT ![c] = there]
      BY <2>5 DEF BindRun, BlockRetry, SaveRejected, OpenDialog, QueueUp,
                  MarkExecutingFails, SendCall, CheckFails, ErrorArrives, AnswerLost,
                  Return, Settle, Goto, Finish, Throw, PC, ledgerVars
    <3> QED BY <3>1, <3>2, MoveKeepsOrder
  <2> QED BY <1>1, <2>1, <2>2, <2>3, <2>4, <2>5 DEF CallStep
<1>2. CASE (SaveSucceeds \/ SaveFails) /\ LedgerOnly
  BY <1>2, ServeKeepsOrder DEF LedgerOnly
<1>3. ASSUME \/ \E c \in Call : Abort(c) \/ PluginStep(c)
             \/ SaveStarts /\ LedgerOnly
             \/ Restart \/ DocumentChanges \/ HostRestarts \/ Finished
      PROVE  SavesInOrder'
  <2>1. UNCHANGED <<writeTail, write, pc>>
    BY <1>3 DEF Abort, PluginStep, PluginApplies, PluginRefuses, SaveStarts, Restart,
                LedgerRestart, RecoverySaved, LedgerOnly, DocumentChanges, HostRestarts,
                Finished, vars, ledgerVars
  <2> QED BY <2>1 DEF RecordInv, SavesInOrder
<1>4. CASE Crash
  <2>1. writeTail' = <<>> /\ write' = [c \in Call |-> "idle"]
    BY <1>4 DEF Crash, LedgerCrash
  <2> QED BY <2>1 DEF SavesInOrder
<1> QED BY <1>1, <1>2, <1>3, <1>4 DEF Next, UserStep, SaveStep

----------------------------------------------------------------------------
(* Where a call is and what it has sent.                                    *)

\* A step of a call moves that call and happens in a live process.
LEMMA CallStepsAlive ==
  ASSUME NEW c \in Call, CallStep(c) \/ UserStep(c)
  PROVE  process = "up" /\ process' = "up"
<1>1. CASE CallStep(c)
  <2>1. process = "up"
    BY <1>1 DEF CallStep, BindRun, BlockRetry, BeginRecord, Begin, SaveRejected,
                RequestApproval, OpenDialog, Approve, ValidationFails, ResolveAmbiguous,
                Validated, QueueUp, MarkExecuting, Mark, MarkExecutingFails, SendCall,
                CheckFails, ResultArrives, ErrorArrives, AnswerLost, Return, Catch, Settle,
                AwaitSaved, AwaitRejected
  <2>2. UNCHANGED process
    BY <1>1 DEF CallStep, BindRun, BlockRetry, BeginRecord, Begin, SaveRejected,
                RequestApproval, OpenDialog, Approve, ValidationFails, ResolveAmbiguous,
                QueueUp, MarkExecuting, Mark, MarkExecutingFails, SendCall, CheckFails,
                ResultArrives, ErrorArrives, AnswerLost, Return, Catch, Settle, ledgerVars
  <2> QED BY <2>1, <2>2
<1>2. CASE UserStep(c)
  BY <1>2 DEF UserStep, Approve, Denied, Abort, Mark, AwaitSaved, ledgerVars
<1> QED BY <1>1, <1>2

\* Every step of a dead process leaves no call suspended.
LEMMA NextKeepsDownMeansOver == RecordInv /\ Next => DownMeansOver'
<1> SUFFICES ASSUME RecordInv, Next PROVE DownMeansOver'
  OBVIOUS
<1>1. CASE \E c \in Call : CallStep(c) \/ UserStep(c)
  BY <1>1, CallStepsAlive DEF DownMeansOver
<1>2. CASE \/ \E c \in Call : PluginStep(c)
           \/ SaveStep \/ Restart \/ DocumentChanges \/ HostRestarts \/ Finished
  <2>1. /\ UNCHANGED pc
        /\ process' # "up" => process # "up"
    BY <1>2 DEF PluginStep, PluginApplies, PluginRefuses, SaveStep, SaveStarts,
                SaveSucceeds, SaveFails, Restart, LedgerRestart, RecoverySaved, LedgerOnly,
                DocumentChanges, HostRestarts, Finished, vars, ledgerVars
  <2> QED BY <2>1 DEF RecordInv, DownMeansOver
<1>3. CASE Crash
  BY <1>3, RecordTypes DEF Crash, DownMeansOver
<1> QED BY <1>1, <1>2, <1>3 DEF Next

\* Only SendCall sends, and it leaves the part before the call.
LEMMA NextKeepsSentOnlyFromCalling == RecordInv /\ Next => SentOnlyFromCalling'
<1> SUFFICES ASSUME RecordInv, Next PROVE SentOnlyFromCalling'
  OBVIOUS
<1> USE RecordTypes DEF SentOnlyFromCalling
<1>1. ASSUME NEW c \in Call, CallStep(c) \/ Approve(c, "user") \/ Denied(c)
      PROVE  SentOnlyFromCalling'
  <2>1. CASE \/ BindRun(c) \/ BeginRecord(c) \/ RequestApproval(c) \/ OpenDialog(c)
             \/ ValidationFails(c) \/ QueueUp(c) \/ MarkExecuting(c) \/ Denied(c)
             \/ Approve(c, "setting") \/ Approve(c, "user") \/ ResolveAmbiguous(c)
    <3>1. /\ UNCHANGED request
          /\ \E there \in PC : pc' = [pc EXCEPT ![c] = there]
          /\ pc[c] \in {"idle", "bound", "beginning", "asking", "approval", "approving",
                        "resolving", "locking"}
      BY <2>1 DEF BindRun, BeginRecord, RequestApproval, OpenDialog, ValidationFails,
                  QueueUp, MarkExecuting, Denied, Approve, ResolveAmbiguous, Validated,
                  AwaitSaved, Goto, Throw, PC
    <3> QED BY <3>1 DEF RecordInv
  <2>2. CASE \/ BlockRetry(c) \/ SaveRejected(c) \/ MarkExecutingFails(c)
             \/ CheckFails(c) \/ ResultArrives(c) \/ ErrorArrives(c) \/ AnswerLost(c)
             \/ Return(c) \/ Catch(c) \/ Settle(c)
    <3>1. /\ UNCHANGED request
          /\ \E there \in {"succeeding", "caught", "settling", "done"} :
               pc' = [pc EXCEPT ![c] = there]
      BY <2>2 DEF BlockRetry, SaveRejected, MarkExecutingFails, CheckFails, ResultArrives,
                  ErrorArrives, AnswerLost, Return, Catch, Settle, Goto, Finish, Throw
    <3> QED BY <3>1 DEF RecordInv
  <2>3. CASE SendCall(c)
    <3>1. /\ request' = [request EXCEPT ![c] = "sent"]
          /\ pc' = [pc EXCEPT ![c] = "calling"]
      BY <2>3 DEF SendCall, Goto
    <3> QED BY <3>1 DEF RecordInv, CallTypeOK
  <2> QED BY <1>1, <2>1, <2>2, <2>3 DEF CallStep
<1>2. CASE \E c \in Call : PluginStep(c)
  <2>1. PICK c \in Call : PluginStep(c)
    BY <1>2
  <2>2. /\ request[c] = "sent" /\ UNCHANGED pc
        /\ \E r \in {"applied", "refused"} : request' = [request EXCEPT ![c] = r]
    BY <2>1 DEF PluginStep, PluginApplies, PluginRefuses
  <2> QED BY <2>2 DEF RecordInv, CallTypeOK
<1>3. CASE \/ \E c \in Call : Abort(c)
           \/ SaveStep \/ Restart \/ DocumentChanges \/ HostRestarts \/ Finished
  <2>1. UNCHANGED <<pc, request>>
    BY <1>3 DEF Abort, SaveStep, Restart, LedgerOnly, DocumentChanges, HostRestarts,
                Finished, vars
  <2> QED BY <2>1 DEF RecordInv
<1>4. CASE Crash
  BY <1>4 DEF RecordInv, Crash
<1> QED BY <1>1, <1>2, <1>3, <1>4 DEF Next, UserStep

----------------------------------------------------------------------------
(* The write-ahead record.                                                  *)

\* A record marked `executing` is only ever followed by a verdict, and what is
\* followed by `executing` is no verdict.
LEMMA AroundExecuting ==
  ASSUME NEW s \in Status \cup {"none"}, NEW t \in Status \cup {"none"},
         t = s \/ t \in Reachable(s)
  PROVE  /\ s \in {"executing"} \cup Reached => t \in {"executing"} \cup Reached
         /\ t = "executing" => s \notin {"success", "failed", "cancelled"} \cup Reached
BY DEF Status, Reachable, Reached

\* Asking for a save leaves the saves that others await alone.
LEMMA PersistKeepsExecutingIsSaved ==
  ASSUME RecordInv, NEW c \in Call, write[c] # "pending", Persist(c),
         UNCHANGED <<saving, snapshot, file>>,
         NEW there \in PC, pc' = [pc EXCEPT ![c] = there],
         there = "marking" => status'[c] = "executing",
         \A d \in Call \ {c} : status[d] = "executing" => status'[d] = "executing"
  PROVE  ExecutingIsSaved'
<1>1. /\ writeTail' = Append(writeTail, c)
      /\ write' = [write EXCEPT ![c] = "pending"]
      /\ saving => writeTail # <<>>
      /\ ExecutingIsSaved /\ SavesInOrder
  BY DEF Persist, RecordInv, CoreInv, LedgerInv
<1>2. saving' => /\ Head(writeTail') = Head(writeTail)
                 /\ Head(writeTail) # c
  <2>1. ASSUME saving PROVE Head(writeTail') = Head(writeTail) /\ Head(writeTail) # c
    <3>1. Head(writeTail') = Head(writeTail)
      BY <1>1, <2>1, RecordTypes, AppendToChain
    <3>2. Head(writeTail) = writeTail[1] /\ 1 \in 1..Len(writeTail)
      BY <1>1, <2>1, RecordTypes, ServeHead
    <3> QED BY <1>1, <3>1, <3>2 DEF SavesInOrder
  <2> QED BY <2>1
<1>3. ASSUME NEW d \in Call, pc'[d] = "marking"
      PROVE  /\ status'[d] = "executing"
             /\ write'[d] = "saved" => file'[d] = "executing"
             /\ saving' /\ Head(writeTail') = d => snapshot'[d] = "executing"
  <2>1. CASE d = c
    BY <2>1, <1>1, <1>2, <1>3, RecordTypes
  <2>2. CASE d # c
    BY <2>2, <1>1, <1>2, <1>3, RecordTypes DEF ExecutingIsSaved
  <2> QED BY <2>1, <2>2
<1> QED BY <1>3 DEF ExecutingIsSaved

\* A step that leaves the ledger alone and brings no call to `marking`.
LEMMA MoveKeepsExecutingIsSaved ==
  ASSUME RecordInv, UNCHANGED ledgerVars,
         \A d \in Call : pc'[d] = "marking" => pc[d] = "marking"
  PROVE  ExecutingIsSaved'
BY DEF RecordInv, ExecutingIsSaved, ledgerVars

\* While c awaits the save of `executing`, a save that ends well and is not its
\* own wrote nothing else about c if c's save is over.
LEMMA SaveKeepsExecutingIsSaved ==
  ASSUME RecordInv, SaveStarts \/ SaveSucceeds \/ SaveFails, UNCHANGED pc
  PROVE  ExecutingIsSaved'
<1>1. /\ ExecutingIsSaved /\ SavesInOrder
      /\ Follows(status, snapshot) /\ Follows(snapshot, file) /\ status' = status
      /\ saving => writeTail # <<>>
  BY DEF RecordInv, CoreInv, LedgerInv, FileNeverAhead, SaveStarts, SaveSucceeds, SaveFails
<1>2. CASE SaveStarts
  BY <1>1, <1>2 DEF SaveStarts, ExecutingIsSaved
<1>3. CASE SaveSucceeds
  <2>1. ASSUME NEW d \in Call, pc[d] = "marking", write'[d] = "saved"
        PROVE  file'[d] = "executing"
    <3>1. status[d] = "executing" /\ file'[d] = snapshot[d]
      BY <1>1, <1>3, <2>1 DEF ExecutingIsSaved, SaveSucceeds
    <3>2. CASE d = Head(writeTail)
      BY <3>1, <3>2, <1>1, <1>3, <2>1 DEF ExecutingIsSaved, SaveSucceeds
    <3>3. CASE d # Head(writeTail)
      <4>1. write[d] = "saved" /\ file[d] = "executing"
        BY <1>1, <1>3, <2>1, <3>3, RecordTypes DEF SaveSucceeds, ExecutingIsSaved
      <4>2. /\ snapshot[d] \in Status \cup {"none"}
            /\ snapshot[d] \in {"executing"} \cup Reached
        BY <4>1, <1>1, RecordTypes, AroundExecuting DEF Follows, Statuses
      <4>3. snapshot[d] \notin Reached
        BY <4>2, <3>1, <1>1, RecordTypes, AroundExecuting DEF Follows, Statuses
      <4> QED BY <3>1, <4>2, <4>3
    <3> QED BY <3>2, <3>3
  <2> QED BY <2>1, <1>1, <1>3 DEF ExecutingIsSaved, SaveSucceeds
<1>4. CASE SaveFails
  <2>1. \A d \in Call : write'[d] = "saved" => write[d] = "saved"
    BY <1>1, <1>4, RecordTypes DEF SaveFails
  <2> QED BY <2>1, <1>1, <1>4 DEF ExecutingIsSaved, SaveFails
<1> QED BY <1>2, <1>3, <1>4

\* Marking a record changes no other record.
LEMMA MarkChangesOne ==
  ASSUME NEW w, NEW c \in Call, NEW to, Mark(w, c, to), status \in Statuses
  PROVE  /\ status'[c] = to
         /\ \A d \in Call \ {c} : status'[d] = status[d]
         /\ Persist(w) /\ UNCHANGED <<saving, snapshot, file>>
BY DEF Mark, Statuses

\* A record that is being executed or succeeded cannot be resolved.
LEMMA ResolveNeedsDoubt ==
  ASSUME NEW c, CanMark(c, "resolved")
  PROVE  status[c] \notin {"executing", "success"}
BY DEF CanMark, Transitions, Status

\* Every step keeps the saves of `executing` what they are.
LEMMA NextKeepsExecutingIsSaved == RecordInv /\ Next => ExecutingIsSaved'
<1> SUFFICES ASSUME RecordInv, Next PROVE ExecutingIsSaved'
  OBVIOUS
<1>1. ASSUME NEW c \in Call, CallStep(c) \/ Approve(c, "user") \/ Denied(c)
      PROVE  ExecutingIsSaved'
  <2>1. CASE BeginRecord(c)
    <3>1. /\ Persist(c) /\ write[c] # "pending" /\ UNCHANGED <<saving, snapshot, file>>
          /\ pc' = [pc EXCEPT ![c] = "beginning"]
          /\ \A d \in Call \ {c} : status'[d] = status[d]
      BY <2>1, AwaitsNothing, RecordTypes DEF BeginRecord, Begin, Goto, Statuses
    <3> QED BY <3>1, PersistKeepsExecutingIsSaved DEF PC
  <2>2. CASE RequestApproval(c) \/ ValidationFails(c) \/ MarkExecuting(c)
             \/ ResultArrives(c) \/ Denied(c)
    <3>1. write[c] # "pending"
      BY <2>2, AwaitsNothing
         DEF RequestApproval, ValidationFails, MarkExecuting, ResultArrives, Denied, AwaitSaved
    <3>2. PICK to \in Status, there \in {"asking", "marking", "succeeding", "cancelling"} :
            /\ Mark(c, c, to) /\ pc' = [pc EXCEPT ![c] = there]
            /\ there = "marking" => to = "executing"
      BY <2>2 DEF RequestApproval, ValidationFails, MarkExecuting, ResultArrives, Denied,
                  Goto, Status
    <3>3. /\ status'[c] = to /\ \A d \in Call \ {c} : status'[d] = status[d]
          /\ Persist(c) /\ UNCHANGED <<saving, snapshot, file>>
      BY <3>2, RecordTypes, MarkChangesOne
    <3> QED BY <3>1, <3>2, <3>3, PersistKeepsExecutingIsSaved DEF PC
  <2>3. CASE Approve(c, "setting") \/ Approve(c, "user")
    <3>1. write[c] # "pending"
      BY <2>3, AwaitsNothing DEF Approve, AwaitSaved
    <3>2. \/ Mark(c, c, "approved") /\ pc' = [pc EXCEPT ![c] = "approving"]
          \/ UNCHANGED ledgerVars /\ pc' = [pc EXCEPT ![c] = "caught"]
      BY <2>3 DEF Approve, Goto, Throw
    <3> QED BY <3>1, <3>2, RecordTypes, MarkChangesOne, PersistKeepsExecutingIsSaved,
               MoveKeepsExecutingIsSaved DEF PC
  <2>4. CASE ResolveAmbiguous(c)
    <3>1. write[c] # "pending" /\ retryOf[c] \in Call
      BY <2>4, RecordTypes DEF ResolveAmbiguous, Validated, AwaitSaved, CallTypeOK
    <3>2. CASE Mark(c, retryOf[c], "resolved") /\ pc' = [pc EXCEPT ![c] = "resolving"]
      <4>1. \A d \in Call : status[d] = "executing" => status'[d] = "executing"
        BY <3>1, <3>2, RecordTypes, MarkChangesOne, ResolveNeedsDoubt DEF Mark
      <4> QED BY <3>1, <3>2, <4>1, RecordTypes, MarkChangesOne,
                 PersistKeepsExecutingIsSaved DEF PC
    <3>3. CASE UNCHANGED ledgerVars /\ pc' = [pc EXCEPT ![c] = "caught"]
      BY <3>3, RecordTypes, MoveKeepsExecutingIsSaved
    <3> QED BY <2>4, <3>2, <3>3 DEF ResolveAmbiguous, Goto, Throw
  <2>5. CASE Catch(c)
    <3>1. write[c] # "pending"
      BY <2>5, AwaitsNothing DEF Catch
    <3>2. \/ Mark(c, c, Verdict(c)) /\ pc' = [pc EXCEPT ![c] = "settling"]
          \/ UNCHANGED ledgerVars /\ pc' = [pc EXCEPT ![c] = "done"]
      BY <2>5 DEF Catch, Finish
    <3> QED BY <3>1, <3>2, RecordTypes, MarkChangesOne, PersistKeepsExecutingIsSaved,
               MoveKeepsExecutingIsSaved DEF PC
  <2>6. CASE \/ BindRun(c) \/ BlockRetry(c) \/ SaveRejected(c) \/ OpenDialog(c)
             \/ QueueUp(c) \/ MarkExecutingFails(c) \/ SendCall(c) \/ CheckFails(c)
             \/ ErrorArrives(c) \/ AnswerLost(c) \/ Return(c) \/ Settle(c)
    <3>1. /\ UNCHANGED ledgerVars
          /\ \E there \in PC \ {"marking"} : pc' = [pc EXCEPT ![c] = there]
      BY <2>6 DEF BindRun, BlockRetry, SaveRejected, OpenDialog, QueueUp,
                  MarkExecutingFails, SendCall, CheckFails, ErrorArrives, AnswerLost,
                  Return, Settle, Goto, Finish, Throw, PC
    <3> QED BY <3>1, RecordTypes, MoveKeepsExecutingIsSaved
  <2> QED BY <1>1, <2>1, <2>2, <2>3, <2>4, <2>5, <2>6 DEF CallStep
<1>2. CASE SaveStep
  BY <1>2, SaveKeepsExecutingIsSaved DEF SaveStep, LedgerOnly
<1>3. CASE \/ \E c \in Call : Abort(c) \/ PluginStep(c)
           \/ DocumentChanges \/ HostRestarts \/ Finished
  <2>1. UNCHANGED <<pc, ledgerVars>>
    BY <1>3 DEF Abort, PluginStep, PluginApplies, PluginRefuses, DocumentChanges,
                HostRestarts, Finished, vars
  <2> QED BY <2>1, MoveKeepsExecutingIsSaved
<1>4. CASE Crash \/ Restart
  <2>1. \A c \in Call : pc'[c] # "marking"
    BY <1>4, RecordTypes
       DEF Crash, Restart, LedgerRestart, RecoverySaved, LedgerOnly, RecordInv, DownMeansOver
  <2> QED BY <2>1 DEF ExecutingIsSaved
<1> QED BY <1>1, <1>2, <1>3, <1>4 DEF Next, UserStep

----------------------------------------------------------------------------
(* What exceptions tell.                                                    *)

\* What is known about a call does not depend on the steps of other calls.
LEMMA OthersKeepTheirException ==
  ASSUME RecordInv, NEW d \in Call,
         pc'[d] = pc[d], fault'[d] = fault[d], aborted[d] => aborted'[d],
         request'[d] = request[d] \/ request[d] = "sent",
         status[d] = "success" => status'[d] = "success"
  PROVE  /\ pc'[d] = "succeeding" => status'[d] = "success"
         /\ pc'[d] = "caught" =>
              /\ fault'[d] \in {"error", "ambiguous", "target", "abort"}
              /\ fault'[d] = "target" => request'[d] = "none"
              /\ fault'[d] = "error" =>
                   request'[d] \in {"none", "refused"} \/ status'[d] = "success"
              /\ fault'[d] = "abort" => aborted'[d]
         /\ pc'[d] = "settling" /\ fault'[d] = "terminated" => request'[d] = "none"
BY DEF RecordInv, ExceptionTells

\* No step takes a success back while the process lives.
LEMMA SuccessStays ==
  ASSUME RecordInv, NEW c \in Call, CallStep(c) \/ UserStep(c)
  PROVE  \A d \in Call : status[d] = "success" => status'[d] = "success"
<1>1. ASSUME NEW w \in Call, NEW x \in Call, NEW to, Mark(w, x, to)
      PROVE  \A d \in Call : status[d] = "success" => status'[d] = "success"
  <2>1. status[x] # "success"
    BY <1>1 DEF Mark, CanMark, Transitions, Status
  <2> QED BY <2>1, <1>1, RecordTypes, MarkChangesOne
<1>2. ASSUME NEW s, Begin(c, s)
      PROVE  \A d \in Call : status[d] = "success" => status'[d] = "success"
  BY <1>2, RecordTypes DEF Begin, Statuses
<1>3. CASE CallStep(c)
  <2>1. CASE ResolveAmbiguous(c)
    <3>1. retryOf[c] \in Call
      BY <2>1, RecordTypes DEF ResolveAmbiguous, CallTypeOK
    <3> QED BY <2>1, <3>1, <1>1 DEF ResolveAmbiguous, ledgerVars
  <2>2. CASE BeginRecord(c)
    BY <2>2, <1>2 DEF BeginRecord
  <2>3. CASE \/ RequestApproval(c) \/ ValidationFails(c) \/ MarkExecuting(c)
             \/ ResultArrives(c) \/ Approve(c, "setting") \/ Catch(c)
    <3>1. (\E to : Mark(c, c, to)) \/ UNCHANGED ledgerVars
      BY <2>3 DEF RequestApproval, ValidationFails, MarkExecuting, ResultArrives, Approve, Catch
    <3> QED BY <3>1, <1>1 DEF ledgerVars
  <2>4. CASE \/ BindRun(c) \/ BlockRetry(c) \/ SaveRejected(c) \/ OpenDialog(c)
             \/ QueueUp(c) \/ MarkExecutingFails(c) \/ SendCall(c) \/ CheckFails(c)
             \/ ErrorArrives(c) \/ AnswerLost(c) \/ Return(c) \/ Settle(c)
    <3>1. UNCHANGED ledgerVars
      BY <2>4 DEF BindRun, BlockRetry, SaveRejected, OpenDialog, QueueUp,
                  MarkExecutingFails, SendCall, CheckFails, ErrorArrives, AnswerLost,
                  Return, Settle
    <3> QED BY <3>1 DEF ledgerVars
  <2> QED BY <1>3, <2>1, <2>2, <2>3, <2>4 DEF CallStep
<1>4. CASE UserStep(c)
  <2>1. (\E to : Mark(c, c, to)) \/ UNCHANGED ledgerVars
    BY <1>4 DEF UserStep, Approve, Denied, Abort
  <2> QED BY <2>1, <1>1 DEF ledgerVars
<1> QED BY <1>3, <1>4

\* A step of c touches no other call.
LEMMA StepsTouchOneCall ==
  ASSUME RecordInv, NEW c \in Call, CallStep(c) \/ UserStep(c), NEW d \in Call \ {c}
  PROVE  /\ pc'[d] = pc[d] /\ fault'[d] = fault[d] /\ outcome'[d] = outcome[d]
         /\ request'[d] = request[d]
         /\ aborted[d] => aborted'[d]
<1> USE RecordTypes DEF CallTypeOK
<1>1. CASE CallStep(c)
  BY <1>1 DEF CallStep, BindRun, BlockRetry, BeginRecord, SaveRejected, RequestApproval,
              OpenDialog, Approve, ValidationFails, ResolveAmbiguous, QueueUp, MarkExecuting,
              MarkExecutingFails, SendCall, CheckFails, ResultArrives, ErrorArrives,
              AnswerLost, Return, Catch, Settle, Goto, Finish, Throw
<1>2. CASE UserStep(c)
  BY <1>2 DEF UserStep, Approve, Denied, Abort, Goto, Throw
<1> QED BY <1>1, <1>2

\* Every step keeps what exceptions tell.
LEMMA NextKeepsExceptionTells == RecordInv /\ Next => ExceptionTells'
<1> SUFFICES ASSUME RecordInv, Next PROVE ExceptionTells'
  OBVIOUS
<1> DEFINE Tells(d) ==
      /\ pc[d] = "succeeding" => status[d] = "success"
      /\ pc[d] = "caught" =>
           /\ fault[d] \in {"error", "ambiguous", "target", "abort"}
           /\ fault[d] = "target" => request[d] = "none"
           /\ fault[d] = "error" =>
                request[d] \in {"none", "refused"} \/ status[d] = "success"
           /\ fault[d] = "abort" => aborted[d]
      /\ pc[d] = "settling" /\ fault[d] = "terminated" => request[d] = "none"
<1>1. \A d \in Call : Tells(d)
  BY DEF RecordInv, ExceptionTells
<1>2. SUFFICES \A d \in Call : Tells(d)'
  BY DEF ExceptionTells
<1>3. ASSUME NEW c \in Call, CallStep(c) \/ Approve(c, "user") \/ Denied(c)
      PROVE  \A d \in Call : Tells(d)'
  <2>1. ASSUME NEW d \in Call \ {c} PROVE Tells(d)'
    <3>1. /\ pc'[d] = pc[d] /\ fault'[d] = fault[d] /\ request'[d] = request[d]
          /\ aborted[d] => aborted'[d]
          /\ status[d] = "success" => status'[d] = "success"
      BY <1>3, SuccessStays, StepsTouchOneCall DEF UserStep
    <3> QED BY <3>1, OthersKeepTheirException
  <2>2. Tells(c)'
    <3> USE RecordTypes DEF CallTypeOK
    <3>1. CASE \/ BindRun(c) \/ BlockRetry(c) \/ BeginRecord(c) \/ RequestApproval(c)
               \/ OpenDialog(c) \/ ValidationFails(c) \/ QueueUp(c) \/ MarkExecuting(c)
               \/ SendCall(c) \/ Return(c) \/ Settle(c) \/ Denied(c)
      <4>1. pc'[c] \notin {"succeeding", "caught", "settling"}
        BY <3>1 DEF BindRun, BlockRetry, BeginRecord, RequestApproval, OpenDialog,
                    ValidationFails, QueueUp, MarkExecuting, SendCall, Return, Settle, Denied,
                    Goto, Finish
      <4> QED BY <4>1
    <3>2. CASE Approve(c, "setting") \/ Approve(c, "user")
      BY <3>2 DEF Approve, Goto, Throw
    <3>3. CASE SaveRejected(c)
      <4>1. /\ pc'[c] = "caught" /\ fault'[c] = "error"
            /\ UNCHANGED <<request, status>>
            /\ pc[c] \in {"beginning", "asking", "approving", "resolving", "cancelling",
                          "succeeding"}
        BY <3>3 DEF SaveRejected, Throw, AwaitRejected, ledgerVars
      <4> QED BY <4>1, <1>1 DEF RecordInv, SentOnlyFromCalling
    <3>4. CASE ResolveAmbiguous(c)
      <4>1. request'[c] = "none"
        BY <3>4 DEF ResolveAmbiguous, Validated, AwaitSaved, RecordInv, SentOnlyFromCalling
      <4>2. pc'[c] \in {"resolving", "caught"} /\ (pc'[c] = "caught" => fault'[c] = "error")
        BY <3>4 DEF ResolveAmbiguous, Goto, Throw
      <4> QED BY <4>1, <4>2
    <3>5. CASE MarkExecutingFails(c) \/ CheckFails(c)
      <4>1. request'[c] = "none"
        BY <3>5 DEF MarkExecutingFails, CheckFails, AwaitSaved, AwaitRejected, RecordInv,
                    SentOnlyFromCalling
      <4>2. /\ pc'[c] = "caught" /\ fault'[c] \in {"error", "target", "abort"}
            /\ fault'[c] = "abort" => aborted'[c]
        BY <3>5 DEF MarkExecutingFails, CheckFails, Throw
      <4> QED BY <4>1, <4>2
    <3>6. CASE ErrorArrives(c) \/ AnswerLost(c)
      BY <3>6 DEF ErrorArrives, AnswerLost, Throw
    <3>7. CASE ResultArrives(c)
      BY <3>7, MarkChangesOne DEF ResultArrives, Goto
    <3>8. CASE Catch(c)
      <4>1. /\ pc[c] = "caught" /\ UNCHANGED request
            /\ pc'[c] = "done" \/ (pc'[c] = "settling" /\ fault'[c] = Reading(c))
        BY <3>8 DEF Catch, Finish
      <4>2. Reading(c) = "terminated" => request[c] = "none"
        BY <4>1, <1>1 DEF Reading
      <4> QED BY <4>1, <4>2
    <3> QED BY <1>3, <3>1, <3>2, <3>3, <3>4, <3>5, <3>6, <3>7, <3>8 DEF CallStep
  <2> QED BY <2>1, <2>2
<1>4. ASSUME NEW c \in Call, Abort(c) \/ PluginStep(c)
      PROVE  \A d \in Call : Tells(d)'
  <2>1. \A d \in Call :
          /\ pc'[d] = pc[d] /\ fault'[d] = fault[d] /\ status'[d] = status[d]
          /\ aborted[d] => aborted'[d]
          /\ request'[d] = request[d] \/ request[d] = "sent"
    BY <1>4, RecordTypes
       DEF Abort, PluginStep, PluginApplies, PluginRefuses, ledgerVars, CallTypeOK
  <2> QED BY <2>1, OthersKeepTheirException
<1>5. CASE SaveStep \/ DocumentChanges \/ HostRestarts \/ Finished
  <2>1. UNCHANGED <<pc, fault, status, aborted, request>>
    BY <1>5 DEF SaveStep, SaveStarts, SaveSucceeds, SaveFails, LedgerOnly, DocumentChanges,
                HostRestarts, Finished, vars, ledgerVars
  <2> QED BY <2>1, <1>1
<1>6. CASE Crash \/ Restart
  <2>1. \A c \in Call : pc'[c] \in {"idle", "done"}
    BY <1>6, RecordTypes
       DEF Crash, Restart, LedgerRestart, RecoverySaved, LedgerOnly, RecordInv, DownMeansOver
  <2> QED BY <2>1
<1> QED BY <1>3, <1>4, <1>5, <1>6 DEF Next, UserStep

----------------------------------------------------------------------------
(* Write-ahead and honesty.                                                 *)

\* What the file says next follows what it says now.
LEMMA FileMovesForward ==
  ASSUME RecordInv, Next
  PROVE  Follows(file', file)
<1>1. /\ LedgerInv
      /\ SaveSucceeds \/ RecoverySaved \/ UNCHANGED file
  BY NextKeepsLedgerInv DEF RecordInv, CoreInv
<1>2. CASE SaveSucceeds
  BY <1>1, <1>2 DEF SaveSucceeds, LedgerInv, FileNeverAhead
<1>3. CASE RecoverySaved
  <2>1. Follows(status, snapshot) /\ Follows(snapshot, file)
    BY <1>1, <1>3 DEF RecoverySaved, LedgerInv, FileNeverAhead
  <2> QED BY <2>1, <1>3, FollowsTransitive DEF RecoverySaved
<1>4. CASE UNCHANGED file
  BY <1>4, FollowsReflexive
<1> QED BY <1>1, <1>2, <1>3, <1>4

\* A request is made by SendCall and answered by the plugin while it is under way.
LEMMA OnlySendCallSends ==
  ASSUME RecordInv, Next, NEW c \in Call, request[c] # "sent", request'[c] # request[c]
  PROVE  SendCall(c)
<1> USE RecordTypes DEF CallTypeOK
<1>1. ASSUME NEW d \in Call, CallStep(d), ~SendCall(d)
      PROVE  UNCHANGED request
  BY <1>1 DEF CallStep, BindRun, BlockRetry, BeginRecord, SaveRejected, RequestApproval,
              OpenDialog, Approve, ValidationFails, ResolveAmbiguous, QueueUp, MarkExecuting,
              MarkExecutingFails, CheckFails, ResultArrives, ErrorArrives, AnswerLost, Return,
              Catch, Settle
<1>2. ASSUME NEW d \in Call, SendCall(d)
      PROVE  c = d
  BY <1>2 DEF SendCall
<1>3. ASSUME NEW d \in Call, PluginStep(d)
      PROVE  FALSE
  BY <1>3 DEF PluginStep, PluginApplies, PluginRefuses
<1>4. ASSUME NEW d \in Call, UserStep(d)
      PROVE  UNCHANGED request
  BY <1>4 DEF UserStep, Approve, Denied, Abort
<1>5. ASSUME SaveStep \/ Crash \/ Restart \/ DocumentChanges \/ HostRestarts \/ Finished
      PROVE  UNCHANGED request
  BY <1>5 DEF SaveStep, Crash, Restart, LedgerOnly, DocumentChanges, HostRestarts, Finished, vars
<1> QED BY <1>1, <1>2, <1>3, <1>4, <1>5 DEF Next

\* When c sends, memory, the save under way and the file all say `executing` at
\* most, and the file says it.
LEMMA SendCallKnows ==
  ASSUME RecordInv, NEW c \in Call, SendCall(c)
  PROVE  /\ file[c] = "executing" /\ status[c] = "executing"
         /\ snapshot[c] \notin {"success", "failed", "cancelled"}
         /\ UNCHANGED ledgerVars
<1>1. /\ file[c] = "executing" /\ status[c] = "executing" /\ process = "up"
      /\ UNCHANGED ledgerVars
  BY DEF RecordInv, ExecutingIsSaved, SendCall, AwaitSaved
<1>2. Follows(status, snapshot)
  BY <1>1 DEF RecordInv, CoreInv, LedgerInv, FileNeverAhead
<1> QED BY <1>1, <1>2, RecordTypes, AroundExecuting DEF Follows, Statuses

\* Every step keeps the file ahead of the requests.
LEMMA NextKeepsWriteAhead == RecordInv /\ Next => WriteAhead'
<1> SUFFICES ASSUME RecordInv, Next, NEW c \in Call, request'[c] # "none"
             PROVE  file'[c] \in {"executing"} \cup Reached
  BY DEF WriteAhead
<1>1. CASE request[c] = "none"
  <2>1. SendCall(c)
    BY <1>1, OnlySendCallSends
  <2> QED BY <2>1, SendCallKnows DEF ledgerVars
<1>2. CASE request[c] # "none"
  <2>1. file[c] \in {"executing"} \cup Reached /\ file'[c] \in Status \cup {"none"}
    BY <1>2, NextKeepsLedgerInv DEF RecordInv, WriteAhead, LedgerInv, LedgerTypeOK, Statuses
  <2> QED BY <2>1, FileMovesForward, RecordTypes, AroundExecuting DEF Follows, Statuses
<1> QED BY <1>1, <1>2

----------------------------------------------------------------------------
(* Honesty.                                                                 *)

\* What the records say, held against the requests after the step.
HonestThen(record) ==
  \A c \in Call :
    /\ record[c] = "success" => request'[c] = "applied"
    /\ record[c] = "failed" => request'[c] \in {"none", "refused"}
    /\ record[c] = "cancelled" => request'[c] = "none"

\* A request that leaves or is answered gives no old record the lie.
LEMMA OldRecordsStayHonest ==
  ASSUME RecordInv, Next
  PROVE  HonestThen(status) /\ HonestThen(snapshot) /\ HonestThen(file)
<1>1. ASSUME NEW r, Honest(r),
             \A c \in Call : SendCall(c) => r[c] \notin {"success", "failed", "cancelled"}
      PROVE  HonestThen(r)
  <2> SUFFICES ASSUME NEW c \in Call
               PROVE  /\ r[c] = "success" => request'[c] = "applied"
                      /\ r[c] = "failed" => request'[c] \in {"none", "refused"}
                      /\ r[c] = "cancelled" => request'[c] = "none"
    BY DEF HonestThen
  <2>1. request'[c] = request[c] \/ request[c] = "sent" \/ SendCall(c)
    BY OnlySendCallSends
  <2> QED BY <2>1, <1>1 DEF Honest
<1>2. \A c \in Call : SendCall(c) =>
        /\ status[c] \notin {"success", "failed", "cancelled"}
        /\ snapshot[c] \notin {"success", "failed", "cancelled"}
        /\ file[c] \notin {"success", "failed", "cancelled"}
  BY SendCallKnows
<1>3. Honest(status) /\ Honest(file) /\ Honest(snapshot)
  BY DEF RecordInv, HonestRecord
<1> QED BY <1>1, <1>2, <1>3

\* A record that is marked says nothing false either.
LEMMA HonestMark ==
  ASSUME RecordInv, Next, NEW w, NEW x \in Call, NEW to, Mark(w, x, to),
         to = "success" => request'[x] = "applied",
         to = "failed" => request'[x] \in {"none", "refused"},
         to = "cancelled" => request'[x] = "none"
  PROVE  Honest(status)'
<1>1. status'[x] = to /\ \A d \in Call \ {x} : status'[d] = status[d]
  BY RecordTypes, MarkChangesOne
<1>2. HonestThen(status)
  BY OldRecordsStayHonest
<1> QED BY <1>1, <1>2 DEF HonestThen, Honest

\* Memory, the save under way and the file hand records on to each other.
LEMMA RecordsAreCopied ==
  ASSUME RecordInv, Next
  PROVE  snapshot' \in {snapshot, status, file} /\ file' \in {snapshot, status, file}
<1>1. ASSUME NEW c \in Call, CallStep(c) \/ UserStep(c)
      PROVE  UNCHANGED <<snapshot, file>>
  <2>1. CASE CallStep(c)
    BY <2>1 DEF CallStep, BindRun, BlockRetry, BeginRecord, Begin, SaveRejected,
                RequestApproval, OpenDialog, Approve, ValidationFails, ResolveAmbiguous,
                QueueUp, MarkExecuting, MarkExecutingFails, SendCall, CheckFails,
                ResultArrives, ErrorArrives, AnswerLost, Return, Catch, Settle, Mark,
                ledgerVars
  <2>2. CASE UserStep(c)
    BY <2>2 DEF UserStep, Approve, Denied, Abort, Mark, ledgerVars
  <2> QED BY <1>1, <2>1, <2>2
<1>2. CASE SaveStep
  BY <1>2 DEF SaveStep, SaveStarts, SaveSucceeds, SaveFails
<1>3. CASE Crash \/ Restart
  BY <1>3 DEF Crash, Restart, LedgerCrash, LedgerRestart, RecoverySaved
<1>4. CASE \/ \E c \in Call : PluginStep(c)
           \/ DocumentChanges \/ HostRestarts \/ Finished
  BY <1>4 DEF PluginStep, PluginApplies, PluginRefuses, DocumentChanges, HostRestarts,
              Finished, vars, ledgerVars
<1> QED BY <1>1, <1>2, <1>3, <1>4 DEF Next

\* The catch block writes `failed` and `cancelled` only about a request that took
\* no effect: an exception of the target or of the plugin says so, and a record
\* that did not get as far as `executing` has no request, for the file knows.
LEMMA VerdictIsTrue ==
  ASSUME RecordInv, NEW c \in Call, Catch(c)
  PROVE  /\ Verdict(c) # "success"
         /\ Verdict(c) = "failed" => request[c] \in {"none", "refused"}
         /\ Verdict(c) = "cancelled" => request[c] = "none"
<1>1. /\ fault[c] \in {"error", "ambiguous", "target", "abort"}
      /\ fault[c] = "target" => request[c] = "none"
      /\ fault[c] = "error" => request[c] \in {"none", "refused"} \/ status[c] = "success"
      /\ fault[c] = "abort" => aborted[c]
  BY DEF RecordInv, ExceptionTells, Catch
<1>2. Verdict(c) # "success"
  BY DEF Verdict, Reading
<1>3. ASSUME Verdict(c) = "failed"
      PROVE  request[c] \in {"none", "refused"}
  BY <1>1, <1>3 DEF Verdict, Reading
<1>4. ASSUME Verdict(c) = "cancelled"
      PROVE  request[c] = "none"
  <2>1. status[c] \in {"awaiting-approval", "approved"}
    BY <1>4 DEF Verdict, Reading
  <2>2. Follows(status, snapshot) /\ Follows(snapshot, file)
    BY DEF Catch, RecordInv, CoreInv, LedgerInv, FileNeverAhead
  <2>3. Follows(status, file)
    BY <2>2, FollowsTransitive
  <2>4. file[c] \notin {"executing"} \cup Reached
    BY <2>1, <2>3, RecordTypes, AroundExecuting DEF Follows, Statuses, Reached
  <2> QED BY <2>4 DEF RecordInv, WriteAhead
<1> QED BY <1>2, <1>3, <1>4

\* Every step keeps memory honest.
LEMMA NextKeepsMemoryHonest == RecordInv /\ Next => Honest(status)'
<1> SUFFICES ASSUME RecordInv, Next PROVE Honest(status)'
  OBVIOUS
<1>1. HonestThen(status) /\ HonestThen(file)
  BY OldRecordsStayHonest
<1>2. ASSUME UNCHANGED status
      PROVE  Honest(status)'
  BY <1>1, <1>2 DEF Honest, HonestThen
<1>3. ASSUME NEW c \in Call, CallStep(c) \/ UserStep(c)
      PROVE  Honest(status)'
  <2>1. CASE BeginRecord(c)
    <3>1. /\ status'[c] = "requested"
          /\ \A d \in Call \ {c} : status'[d] = status[d]
      BY <2>1, RecordTypes DEF BeginRecord, Begin, Statuses
    <3> QED BY <3>1, <1>1 DEF Honest, HonestThen
  <2>2. CASE RequestApproval(c) \/ MarkExecuting(c)
    BY <2>2, HonestMark DEF RequestApproval, MarkExecuting
  <2>3. CASE Approve(c, "setting") \/ Approve(c, "user")
    BY <2>3, <1>2, HonestMark DEF Approve, ledgerVars
  <2>4. CASE ValidationFails(c) \/ Denied(c)
    <3>1. Mark(c, c, "cancelled") /\ request'[c] = "none"
      BY <2>4 DEF ValidationFails, Denied, AwaitSaved, RecordInv, SentOnlyFromCalling
    <3> QED BY <3>1, HonestMark
  <2>5. CASE ResolveAmbiguous(c)
    <3>1. retryOf[c] \in Call
      BY <2>5, RecordTypes DEF ResolveAmbiguous, CallTypeOK
    <3> QED BY <2>5, <3>1, <1>2, HonestMark DEF ResolveAmbiguous, ledgerVars
  <2>6. CASE ResultArrives(c)
    <3>1. Mark(c, c, "success") /\ request'[c] = "applied"
      BY <2>6 DEF ResultArrives
    <3> QED BY <3>1, HonestMark
  <2>7. CASE Catch(c)
    <3>1. /\ Mark(c, c, Verdict(c)) \/ UNCHANGED ledgerVars
          /\ UNCHANGED request
      BY <2>7 DEF Catch
    <3> QED BY <2>7, <3>1, <1>2, VerdictIsTrue, HonestMark DEF ledgerVars
  <2>8. CASE \/ BindRun(c) \/ BlockRetry(c) \/ SaveRejected(c) \/ OpenDialog(c)
             \/ QueueUp(c) \/ MarkExecutingFails(c) \/ SendCall(c) \/ CheckFails(c)
             \/ ErrorArrives(c) \/ AnswerLost(c) \/ Return(c) \/ Settle(c) \/ Abort(c)
    BY <2>8, <1>2 DEF BindRun, BlockRetry, SaveRejected, OpenDialog, QueueUp,
                      MarkExecutingFails, SendCall, CheckFails, ErrorArrives, AnswerLost,
                      Return, Settle, Abort, ledgerVars
  <2> QED BY <1>3, <2>1, <2>2, <2>3, <2>4, <2>5, <2>6, <2>7, <2>8 DEF CallStep, UserStep
<1>4. CASE Crash
  BY <1>4 DEF Crash, LedgerCrash, Honest
<1>5. CASE Restart
  <2>1. status' = status \/ status' = Recovered(file)
    BY <1>5 DEF Restart, LedgerRestart, RecoverySaved
  <2> QED BY <2>1, <1>1, <1>2 DEF Honest, HonestThen, Recovered
<1>6. CASE \/ \E c \in Call : PluginStep(c)
           \/ SaveStep \/ DocumentChanges \/ HostRestarts \/ Finished
  BY <1>6, <1>2 DEF PluginStep, PluginApplies, PluginRefuses, SaveStep, SaveStarts,
                    SaveSucceeds, SaveFails, DocumentChanges, HostRestarts, Finished, vars,
                    ledgerVars
<1> QED BY <1>3, <1>4, <1>5, <1>6 DEF Next

\* Every step keeps every copy of the records honest.
LEMMA NextKeepsHonest == RecordInv /\ Next => HonestRecord' /\ Honest(snapshot)'
<1> SUFFICES ASSUME RecordInv, Next PROVE HonestRecord' /\ Honest(snapshot)'
  OBVIOUS
<1>1. HonestThen(status) /\ HonestThen(snapshot) /\ HonestThen(file)
  BY OldRecordsStayHonest
<1>2. Honest(snapshot)' /\ Honest(file)'
  BY <1>1, RecordsAreCopied DEF Honest, HonestThen
<1> QED BY <1>2, NextKeepsMemoryHonest DEF HonestRecord

----------------------------------------------------------------------------
(* Reports.                                                                 *)

\* Every step keeps the reports for the end.
LEMMA NextKeepsReportedAtTheEnd == RecordInv /\ Next => ReportedAtTheEnd'
<1> SUFFICES ASSUME RecordInv, Next PROVE ReportedAtTheEnd'
  OBVIOUS
<1> USE RecordTypes DEF CallTypeOK
<1>1. ReportedAtTheEnd
  BY DEF RecordInv
<1>2. ASSUME NEW c \in Call, CallStep(c) \/ UserStep(c)
      PROVE  ReportedAtTheEnd'
  <2>1. \A d \in Call \ {c} : pc'[d] = pc[d] /\ outcome'[d] = outcome[d]
    BY <1>2, StepsTouchOneCall
  <2>2. pc[c] # "done" /\ (outcome'[c] = outcome[c] \/ pc'[c] = "done")
    <3>1. CASE CallStep(c)
      BY <3>1 DEF CallStep, BindRun, BlockRetry, BeginRecord, SaveRejected, AwaitRejected,
                  AwaitSaved, RequestApproval, OpenDialog, Approve, ValidationFails,
                  ResolveAmbiguous, Validated, QueueUp, MarkExecuting, MarkExecutingFails,
                  SendCall, CheckFails, ResultArrives, ErrorArrives, AnswerLost, Return,
                  Catch, Settle, Goto, Finish, Throw
    <3>2. CASE UserStep(c)
      BY <3>2 DEF UserStep, Approve, Denied, Abort, AwaitSaved, Goto, Throw
    <3> QED BY <1>2, <3>1, <3>2
  <2> QED BY <1>1, <2>1, <2>2 DEF ReportedAtTheEnd
<1>3. CASE Crash
  BY <1>1, <1>3 DEF Crash, ReportedAtTheEnd
<1>4. CASE \/ \E c \in Call : PluginStep(c)
           \/ SaveStep \/ Restart \/ DocumentChanges \/ HostRestarts \/ Finished
  BY <1>1, <1>4 DEF PluginStep, PluginApplies, PluginRefuses, SaveStep, Restart, LedgerOnly,
                    DocumentChanges, HostRestarts, Finished, vars, ReportedAtTheEnd
<1> QED BY <1>2, <1>3, <1>4 DEF Next

\* Every step keeps the reports true.
LEMMA NextKeepsReportedUntouched == RecordInv /\ Next => ReportedUntouched'
<1> SUFFICES ASSUME RecordInv, Next, NEW d \in Call,
                    outcome'[d] \in {"blocked", "cancelled", "terminated"}
             PROVE  request'[d] = "none"
  BY DEF ReportedUntouched
<1> USE RecordTypes DEF CallTypeOK
<1>1. ASSUME outcome'[d] = outcome[d]
      PROVE  request'[d] = "none"
  <2>1. request[d] = "none" /\ pc[d] = "done"
    BY <1>1 DEF RecordInv, ReportedUntouched, ReportedAtTheEnd
  <2>2. ~SendCall(d)
    BY <2>1 DEF SendCall, AwaitSaved
  <2> QED BY <2>1, <2>2, OnlySendCallSends
<1>2. ASSUME CallStep(d)
      PROVE  request'[d] = "none"
  <2>1. CASE BlockRetry(d) \/ Return(d)
    BY <2>1 DEF BlockRetry, Return, AwaitSaved, Finish, RecordInv, SentOnlyFromCalling
  <2>2. CASE Catch(d)
    <3>1. /\ outcome'[d] = outcome[d] \/ outcome'[d] = Reading(d)
          /\ pc[d] = "caught" /\ UNCHANGED request
      BY <2>2 DEF Catch, Finish
    <3>2. Reading(d) \notin {"blocked", "cancelled"}
          /\ (Reading(d) = "terminated" => fault[d] = "target")
      BY DEF Reading
    <3> QED BY <3>1, <3>2, <1>1 DEF RecordInv, ExceptionTells
  <2>3. CASE Settle(d)
    BY <2>3 DEF Settle, AwaitSaved, AwaitRejected, Finish, RecordInv, CoreInv,
                SettlesByBranch, Branch, ExceptionTells
  <2>4. CASE \/ BindRun(d) \/ BeginRecord(d) \/ SaveRejected(d) \/ RequestApproval(d)
             \/ OpenDialog(d) \/ Approve(d, "setting") \/ ValidationFails(d)
             \/ ResolveAmbiguous(d) \/ QueueUp(d) \/ MarkExecuting(d)
             \/ MarkExecutingFails(d) \/ SendCall(d) \/ CheckFails(d) \/ ResultArrives(d)
             \/ ErrorArrives(d) \/ AnswerLost(d)
    <3>1. outcome'[d] = outcome[d]
      BY <2>4 DEF BindRun, BeginRecord, SaveRejected, RequestApproval, OpenDialog, Approve,
                  ValidationFails, ResolveAmbiguous, QueueUp, MarkExecuting,
                  MarkExecutingFails, SendCall, CheckFails, ResultArrives, ErrorArrives,
                  AnswerLost, Goto, Throw
    <3> QED BY <3>1, <1>1
  <2> QED BY <1>2, <2>1, <2>2, <2>3, <2>4 DEF CallStep
<1>3. ASSUME NEW c \in Call, c # d, CallStep(c)
      PROVE  request'[d] = "none"
  BY <1>1, <1>3, StepsTouchOneCall
<1>4. CASE Crash
  BY <1>1, <1>4 DEF Crash
<1>5. CASE \/ \E c \in Call : UserStep(c) \/ PluginStep(c)
           \/ SaveStep \/ Restart \/ DocumentChanges \/ HostRestarts \/ Finished
  <2>1. outcome'[d] = outcome[d]
    BY <1>5 DEF UserStep, Approve, Denied, Abort, Goto, Throw, PluginStep, PluginApplies,
                PluginRefuses, SaveStep, Restart, LedgerOnly, DocumentChanges,
                HostRestarts, Finished, vars
  <2> QED BY <2>1, <1>1
<1> QED BY <1>2, <1>3, <1>4, <1>5 DEF Next

----------------------------------------------------------------------------
(* The theorems about the records.                                          *)

\* The invariant about the records is inductive.
LEMMA NextKeepsRecordInv == RecordInv /\ [Next]_vars => RecordInv'
<1>1. CASE Next
  <2>1. RecordInv => CoreInv
    BY DEF RecordInv
  <2> QED
    BY <1>1, <2>1, NextKeepsCoreInv, NextKeepsSavesInOrder, NextKeepsDownMeansOver,
       NextKeepsReportedAtTheEnd, NextKeepsSentOnlyFromCalling, NextKeepsExecutingIsSaved,
       NextKeepsExceptionTells, NextKeepsWriteAhead, NextKeepsHonest,
       NextKeepsReportedUntouched
       DEF RecordInv
<1>2. CASE UNCHANGED vars
  <2> SUFFICES ASSUME RecordInv PROVE RecordInv'
    OBVIOUS
  <2>1. CoreInv'
    BY <1>2, NextKeepsCoreInv DEF RecordInv
  <2> QED
    BY <1>2, <2>1
       DEF vars, ledgerVars, RecordInv, SavesInOrder, DownMeansOver, ReportedAtTheEnd,
           SentOnlyFromCalling, ExecutingIsSaved, ExceptionTells, WriteAhead, HonestRecord,
           Honest, ReportedUntouched
<1> QED BY <1>1, <1>2

\* The invariant about the records holds throughout.
THEOREM RecordsAlwaysInv == Spec => []RecordInv
<1>1. Init => RecordInv
  BY InitRecords
<1>2. RecordInv /\ [Next]_vars => RecordInv'
  BY NextKeepsRecordInv
<1> QED BY <1>1, <1>2, PTL DEF Spec

\* Nothing is sent to Navisworks before the file says that it may be under way.
THEOREM NothingSentUnrecorded == Spec => []WriteAhead
<1>1. RecordInv => WriteAhead
  BY DEF RecordInv
<1> QED BY <1>1, RecordsAlwaysInv, PTL

\* No record, in memory or on disk, says of a modification what is not so.
THEOREM RecordsAreHonest == Spec => []HonestRecord
<1>1. RecordInv => HonestRecord
  BY DEF RecordInv
<1> QED BY <1>1, RecordsAlwaysInv, PTL

\* What is reported as blocked, cancelled or terminated was never sent.
THEOREM ReportsOfNothingAreTrue == Spec => []ReportedUntouched
<1>1. RecordInv => ReportedUntouched
  BY DEF RecordInv
<1> QED BY <1>1, RecordsAlwaysInv, PTL

-----------------------------------------------------------------------------
\* The steps that are not of a call nor of its user, a crash apart.
AsideStep ==
  \/ \E c \in Call : PluginStep(c)
  \/ SaveStep \/ Restart \/ DocumentChanges \/ HostRestarts \/ Finished

LEMMA StepsOfNext ==
  Next => (\E c \in Call : CallStep(c) \/ UserStep(c)) \/ AsideStep \/ Crash
BY DEF Next, AsideStep

\* A step of a call or of its user writes no file and asks for one save at most.
LEMMA CallStepsLeave ==
  ASSUME NEW c \in Call, CallStep(c) \/ UserStep(c)
  PROVE  /\ UNCHANGED <<saving, snapshot, file, process, crashes, op, confirmed,
                       appliedTo>>
         /\ Persist(c) \/ UNCHANGED <<writeTail, write>>
<1>1. CASE CallStep(c)
  BY <1>1 DEF CallStep, BindRun, BlockRetry, BeginRecord, Begin, SaveRejected,
              RequestApproval, OpenDialog, Approve, ValidationFails, ResolveAmbiguous,
              QueueUp, MarkExecuting, MarkExecutingFails, SendCall, CheckFails,
              ResultArrives, ErrorArrives, AnswerLost, Return, Catch, Settle, Mark,
              ledgerVars, callVars
<1>2. CASE UserStep(c)
  BY <1>2 DEF UserStep, Approve, Denied, Abort, Mark, ledgerVars, callVars
<1> QED BY <1>1, <1>2

\* A step of c leaves the other calls where they are, and the records of the
\* others but for the ambiguous one it resolves.
LEMMA StepsLeaveOthers ==
  ASSUME RecordInv, NEW c \in Call, CallStep(c) \/ UserStep(c), NEW d \in Call \ {c}
  PROVE  /\ executing'[d] = executing[d] /\ answer'[d] = answer[d]
         /\ retryOf'[d] = retryOf[d] /\ bound'[d] = bound[d]
         /\ subject'[d] = subject[d] /\ write'[d] = write[d]
<1> USE RecordTypes DEF CallTypeOK
<1>1. write'[d] = write[d]
  BY CallStepsLeave DEF Persist
<1>2. subject \in [Call -> Subject \cup {NoSubject}]
  BY DEF LedgerInv, LedgerTypeOK
<1>3. CASE CallStep(c)
  BY <1>1, <1>2, <1>3
     DEF CallStep, BindRun, BlockRetry, BeginRecord, Begin, SaveRejected,
         RequestApproval, OpenDialog, Approve, ValidationFails, ResolveAmbiguous,
         QueueUp, MarkExecuting, MarkExecutingFails, SendCall, CheckFails,
         ResultArrives, ErrorArrives, AnswerLost, Return, Catch, Settle, Mark,
         ledgerVars, callVars
<1>4. CASE UserStep(c)
  BY <1>1, <1>2, <1>4 DEF UserStep, Approve, Denied, Abort, Mark, ledgerVars, callVars
<1> QED BY <1>3, <1>4

LEMMA StepsLeaveRecords ==
  ASSUME RecordInv, NEW c \in Call, CallStep(c) \/ UserStep(c), NEW d \in Call \ {c}
  PROVE  \/ status'[d] = status[d]
         \/ /\ ResolveAmbiguous(c) /\ retryOf[c] = d
            /\ status[d] = "ambiguous" /\ status'[d] = "resolved"
<1> USE RecordTypes DEF CallTypeOK
<1>1. ASSUME NEW to, Mark(c, c, to) PROVE status'[d] = status[d]
  BY <1>1, MarkChangesOne
<1>2. CASE ResolveAmbiguous(c)
  <2>1. CASE UNCHANGED ledgerVars
    BY <2>1 DEF ledgerVars
  <2>2. CASE Mark(c, retryOf[c], "resolved")
    <3> DEFINE a == retryOf[c]
    <3>0. a \in Call
      BY <1>2 DEF ResolveAmbiguous
    <3>1. status'[a] = "resolved" /\ \A x \in Call \ {a} : status'[x] = status[x]
      BY <2>2, <3>0, MarkChangesOne
    <3>2. status[a] = "ambiguous"
      BY <2>2, <3>0 DEF Mark, CanMark, Transitions, Status, Statuses
    <3> QED BY <1>2, <3>1, <3>2
  <2> QED BY <1>2, <2>1, <2>2 DEF ResolveAmbiguous
<1>3. CASE BeginRecord(c)
  BY <1>3 DEF BeginRecord, Begin, Statuses
<1>4. CASE CallStep(c) /\ ~ResolveAmbiguous(c) /\ ~BeginRecord(c)
  <2>1. (\E to : Mark(c, c, to)) \/ UNCHANGED ledgerVars
    BY <1>4 DEF CallStep, BindRun, BlockRetry, SaveRejected,
         RequestApproval, OpenDialog, Approve, ValidationFails,
         QueueUp, MarkExecuting, MarkExecutingFails, SendCall, CheckFails,
         ResultArrives, ErrorArrives, AnswerLost, Return, Catch, Settle
  <2> QED BY <1>1, <2>1 DEF ledgerVars
<1>5. CASE UserStep(c)
  <2>1. (\E to : Mark(c, c, to)) \/ UNCHANGED ledgerVars
    BY <1>5 DEF UserStep, Approve, Denied, Abort
  <2> QED BY <1>1, <2>1 DEF ledgerVars
<1> QED BY <1>2, <1>3, <1>4, <1>5

\* The other steps leave the calls alone.
LEMMA AsideLeaves ==
  ASSUME AsideStep
  PROVE  UNCHANGED <<pc, callVars, answer, retryOf, aborted, fault, executing, outcome,
                     subject, crashes>>
BY DEF AsideStep, PluginStep, PluginApplies, PluginRefuses, SaveStep, SaveStarts,
       SaveSucceeds, SaveFails, Restart, LedgerRestart, RecoverySaved, LedgerOnly,
       DocumentChanges, HostRestarts, Finished, vars, ledgerVars

\* A save that is over stays as it went until its call asks for another.
LEMMA SavesStayOver ==
  ASSUME RecordInv, AsideStep, NEW d \in Call, write[d] # "pending"
  PROVE  write'[d] = write[d]
<1>1. CASE SaveSucceeds \/ SaveFails
  <2>1. writeTail # <<>> /\ writeTail \in Seq(Call)
    BY <1>1, RecordTypes DEF SaveSucceeds, SaveFails, LedgerInv
  <2>2. write[Head(writeTail)] = "pending"
    BY <2>1, ServeHead DEF RecordInv, SavesInOrder
  <2>3. write \in [Call -> {"idle", "pending", "saved", "rejected"}]
    BY RecordTypes
  <2> QED BY <1>1, <2>2, <2>3 DEF SaveSucceeds, SaveFails
<1>2. CASE ~(SaveSucceeds \/ SaveFails)
  BY <1>2 DEF AsideStep, PluginStep, PluginApplies, PluginRefuses, SaveStep, SaveStarts,
         Restart, LedgerRestart, RecoverySaved,
         DocumentChanges, HostRestarts, Finished, vars, ledgerVars
<1> QED BY <1>1, <1>2

\* Memory changes only by a restart, and a request only by an answer.
LEMMA AsideRecords ==
  ASSUME RecordInv, AsideStep
  PROVE  /\ status' = status \/ (process = "down" /\ status' = Recovered(file))
         /\ \A d \in Call : request'[d] = request[d] \/ request[d] = "sent"
<1>1. status' = status \/ (process = "down" /\ status' = Recovered(file))
  BY DEF AsideStep, PluginStep, PluginApplies, PluginRefuses, SaveStep, SaveStarts,
         SaveSucceeds, SaveFails, Restart, LedgerRestart, RecoverySaved,
         DocumentChanges, HostRestarts, Finished, vars, ledgerVars
<1>2. \A d \in Call : request'[d] = request[d] \/ request[d] = "sent"
  BY RecordTypes
     DEF AsideStep, PluginStep, PluginApplies, PluginRefuses, SaveStep, Restart, LedgerOnly,
         DocumentChanges, HostRestarts, Finished, vars, CallTypeOK
<1> QED BY <1>1, <1>2

\* What a crash leaves.
LEMMA CrashLeaves ==
  ASSUME RecordInv, Crash
  PROVE  /\ UNCHANGED <<op, confirmed, bound, subject, answer, retryOf, request, file, appliedTo>>
         /\ crashes' = crashes + 1 /\ process' = "down" /\ snapshot' = file /\ ~saving'
         /\ \A d \in Call : /\ status'[d] = "none" /\ write'[d] = "idle"
                            /\ pc'[d] \in {"idle", "done"} /\ (pc'[d] = "idle" => pc[d] = "idle")
                            /\ pc[d] = "idle" => pc'[d] = "idle"
                            /\ outcome'[d] \in {outcome[d], "lost"}
BY RecordTypes DEF Crash, LedgerCrash, callVars, CallTypeOK

----------------------------------------------------------------------------
(* Crashes.                                                                 *)

LEMMA InitNoneLeftExecuting == Init => NoneLeftExecuting
BY DEF Init, LedgerInit, NoneLeftExecuting

\* Every step leaves no record of a call that was cut off `executing`.
LEMMA NextKeepsNoneLeftExecuting ==
  ASSUME RecordInv, NoneLeftExecuting, Next
  PROVE  NoneLeftExecuting'
<1> USE RecordTypes DEF CallTypeOK
<1>1. ASSUME NEW c \in Call, CallStep(c) \/ UserStep(c)
      PROVE  NoneLeftExecuting'
  <2>1. process = "up" /\ process' = "up"
    BY <1>1, CallStepsAlive
  <2>2. ASSUME NEW d \in Call \ {c}, outcome'[d] = "lost" PROVE status'[d] # "executing"
    BY <1>1, <2>2, StepsTouchOneCall, StepsLeaveRecords DEF NoneLeftExecuting
  <2>3. outcome'[c] # "lost"
    <3>1. pc[c] # "done" /\ (outcome'[c] = outcome[c] \/ outcome'[c] # "lost")
      <4>1. CASE CallStep(c)
        BY <4>1 DEF CallStep, BindRun, BlockRetry, BeginRecord, SaveRejected, AwaitRejected,
                  AwaitSaved, RequestApproval, OpenDialog, Approve, ValidationFails,
                  ResolveAmbiguous, Validated, QueueUp, MarkExecuting, MarkExecutingFails,
                  SendCall, CheckFails, ResultArrives, ErrorArrives, AnswerLost, Return,
                  Catch, Reading, Settle, Goto, Finish, Throw, RecordInv, CoreInv,
                  SettlesByBranch, Branch
      <4>2. CASE UserStep(c)
        BY <4>2 DEF UserStep, Approve, Denied, Abort, AwaitSaved, Goto, Throw
      <4> QED BY <1>1, <4>1, <4>2
    <3> QED BY <3>1 DEF RecordInv, ReportedAtTheEnd
  <2> QED BY <2>1, <2>2, <2>3 DEF NoneLeftExecuting
<1>2. CASE AsideStep
  <2>1. outcome' = outcome /\ (process' # "up" => process # "up")
    BY <1>2, AsideLeaves
       DEF AsideStep, PluginStep, PluginApplies, PluginRefuses, SaveStep, SaveStarts,
         SaveSucceeds, SaveFails, Restart, LedgerRestart, RecoverySaved,
         DocumentChanges, HostRestarts, Finished, vars, ledgerVars
  <2>2. CASE status' = status
    BY <2>1, <2>2 DEF NoneLeftExecuting
  <2>3. CASE status' = Recovered(file)
    BY <2>3 DEF NoneLeftExecuting, Recovered
  <2> QED BY <1>2, <2>2, <2>3, AsideRecords
<1>3. CASE Crash
  BY <1>3, CrashLeaves DEF NoneLeftExecuting
<1> QED BY <1>1, <1>2, <1>3, StepsOfNext

\* A call that was cut off after its request was sent has, after the restart, a
\* record that blocks the same modification (executionLedger.ts, recoverFrom).
THEOREM CrashesLeaveSuspicion == Spec => []CrashLeavesSuspicion
<1>1. RecordInv /\ NoneLeftExecuting /\ [Next]_vars => NoneLeftExecuting'
  <2>1. NoneLeftExecuting /\ UNCHANGED vars => NoneLeftExecuting'
    BY DEF vars, ledgerVars, NoneLeftExecuting
  <2> QED BY <2>1, NextKeepsNoneLeftExecuting
<1>2. RecordInv /\ NoneLeftExecuting => CrashLeavesSuspicion
  <2> SUFFICES ASSUME RecordInv, NoneLeftExecuting, NEW c \in Call,
                      outcome[c] = "lost", request[c] # "none", process = "up"
               PROVE  status[c] \in Reached
    BY DEF CrashLeavesSuspicion
  <2>1. file[c] \in {"executing"} \cup Reached /\ status[c] # "executing"
    BY DEF RecordInv, WriteAhead, NoneLeftExecuting
  <2>2. Follows(status, file)
    BY FollowsTransitive DEF RecordInv, CoreInv, LedgerInv, FileNeverAhead
  <2> QED BY <2>1, <2>2, RecordTypes, AroundExecuting DEF Follows, Statuses
<1> QED BY <1>1, <1>2, InitNoneLeftExecuting, RecordsAlwaysInv, PTL DEF Spec

----------------------------------------------------------------------------
(* What has an explanation.                                                 *)

\* What FaultInv says of one call, the unfinished record included.
Explained(c) ==
  /\ StatusTells(c) /\ EndTells(c)
  /\ /\ pc[c] = "done" /\ outcome[c] # "lost" /\ crashes = 0
     /\ status[c] \notin Terminal \cup {"none"}
     => write[c] = "rejected" \/ retryOf[c] # NoCall
  /\ appliedTo[c] \notin {NoKey, bound[c]} => op[c] \notin ItemOp

LEMMA FaultInvByCall == FaultInv <=> (process # "up" => crashes > 0) /\ \A c \in Call : Explained(c)
BY DEF FaultInv, Explained, UnfinishedOnlyAfterFault, ItemsKeepToTheirDocument

LEMMA InitExplained == Init => FaultInv
BY FaultInvByCall
   DEF Init, LedgerInit, Explained, StatusTells, EndTells, InExecution

\* A step of another call leaves the explanation of d.
LEMMA OthersStayExplained ==
  ASSUME RecordInv, FaultInv, NEW c \in Call, CallStep(c) \/ UserStep(c), NEW d \in Call \ {c}
  PROVE  Explained(d)'
<1>1. Explained(d)
  BY FaultInvByCall
<1>2. /\ pc'[d] = pc[d] /\ fault'[d] = fault[d] /\ outcome'[d] = outcome[d]
      /\ request'[d] = request[d] /\ executing'[d] = executing[d] /\ write'[d] = write[d]
      /\ retryOf'[d] = retryOf[d] /\ bound'[d] = bound[d]
      /\ crashes' = crashes /\ op' = op /\ appliedTo' = appliedTo
  BY StepsTouchOneCall, StepsLeaveOthers, CallStepsLeave
<1>3. status'[d] = status[d] \/ (status[d] = "ambiguous" /\ status'[d] = "resolved")
  BY StepsLeaveRecords
<1> QED BY <1>1, <1>2, <1>3 DEF Explained, StatusTells, EndTells, InExecution, Terminal

\* A save that fails throws an error that the write explains.
LEMMA OwnStepsExplained ==
  ASSUME RecordInv, FaultInv, NEW c \in Call, CallStep(c) \/ UserStep(c)
  PROVE  Explained(c)'
<1> USE RecordTypes DEF CallTypeOK
<1>1. /\ Explained(c) /\ crashes' = crashes /\ op' = op /\ appliedTo' = appliedTo
      /\ process = "up"
  BY FaultInvByCall, CallStepsLeave, CallStepsAlive
<1>2. /\ pc[c] # "done" => outcome[c] = "none"
      /\ pc[c] \in {"idle", "bound", "beginning", "asking", "approval", "approving",
                    "resolving", "locking", "marking", "cancelling"} => request[c] = "none"
      /\ pc[c] = "marking" => status[c] = "executing"
      /\ pc[c] = "succeeding" => status[c] = "success"
  BY DEF RecordInv, ReportedAtTheEnd, SentOnlyFromCalling, ExecutingIsSaved, ExceptionTells
<1>3. ASSUME NEW to, Mark(c, c, to) PROVE status'[c] = to
  BY <1>3, MarkChangesOne
<1> USE DEF Explained, StatusTells, EndTells, InExecution, Terminal, Goto, Finish, Throw
<1>4. CASE BindRun(c)
  BY <1>1, <1>2, <1>4 DEF BindRun, ledgerVars
<1>5. CASE BlockRetry(c)
  BY <1>1, <1>2, <1>5 DEF BlockRetry, ledgerVars, callVars
<1>6. CASE BeginRecord(c)
  BY <1>1, <1>2, <1>6 DEF BeginRecord, Begin, callVars
<1>7. CASE SaveRejected(c)
  <2>1. /\ pc'[c] = "caught" /\ fault'[c] = "error" /\ write'[c] = "rejected"
        /\ UNCHANGED <<outcome, request, bound>> /\ pc[c] # "done"
    BY <1>7 DEF SaveRejected, AwaitRejected, ledgerVars, callVars
  <2> QED BY <1>1, <1>2, <2>1
<1>8. CASE RequestApproval(c)
  BY <1>1, <1>2, <1>3, <1>8 DEF RequestApproval, callVars, AwaitSaved
<1>9. CASE OpenDialog(c)
  BY <1>1, <1>2, <1>9 DEF OpenDialog, callVars, ledgerVars, AwaitSaved
<1>10. CASE \E by \in {"user", "setting"} : Approve(c, by)
  BY <1>1, <1>2, <1>3, <1>10 DEF Approve, callVars, ledgerVars, AwaitSaved
<1>11. CASE ValidationFails(c) \/ Denied(c)
  BY <1>1, <1>2, <1>3, <1>11 DEF ValidationFails, Denied, callVars, AwaitSaved
<1>12. CASE ResolveAmbiguous(c)
  BY <1>1, <1>2, <1>12 DEF ResolveAmbiguous, Validated, callVars, AwaitSaved
<1>13. CASE QueueUp(c)
  BY <1>1, <1>2, <1>13 DEF QueueUp, Validated, callVars, ledgerVars, AwaitSaved
<1>14. CASE MarkExecuting(c)
  BY <1>1, <1>2, <1>3, <1>14 DEF MarkExecuting, callVars
<1>15. CASE MarkExecutingFails(c)
  BY <1>1, <1>2, <1>15 DEF MarkExecutingFails, AwaitRejected, callVars, ledgerVars
<1>16. CASE SendCall(c)
  BY <1>1, <1>2, <1>16 DEF SendCall, AwaitSaved, callVars, ledgerVars
<1>17. CASE CheckFails(c)
  BY <1>1, <1>2, <1>17 DEF CheckFails, AwaitSaved, callVars, ledgerVars
<1>18. CASE ResultArrives(c)
  BY <1>1, <1>2, <1>3, <1>18 DEF ResultArrives, callVars
<1>19. CASE ErrorArrives(c) \/ AnswerLost(c)
  BY <1>1, <1>2, <1>19 DEF ErrorArrives, AnswerLost, callVars, ledgerVars
<1>20. CASE Return(c)
  BY <1>1, <1>2, <1>20 DEF Return, AwaitSaved, callVars, ledgerVars
<1>21. CASE Catch(c)
  <2>1. fault[c] \in {"error", "ambiguous", "target", "abort"} /\ pc[c] = "caught"
        /\ (fault[c] = "abort" => aborted[c])
    BY <1>21 DEF Catch, RecordInv, ExceptionTells
  <2>2. UNCHANGED <<request, bound, retryOf, executing>>
    BY <1>21 DEF Catch, callVars
  <2>3. CASE Verdict(c) = "none"
    <3>1. pc'[c] = "done" /\ outcome'[c] = Reading(c) /\ UNCHANGED <<status, write>>
      BY <1>21, <2>3 DEF Catch, ledgerVars
    <3>2. ~InExecution(c)
      BY <2>1, <2>3 DEF Verdict, Reading
    <3>3. fault[c] = "error" \/ (Reading(c) = "aborted" /\ status[c] = "awaiting-approval")
      BY <1>1, <2>1, <3>2 DEF Reading
    <3>4. fault[c] = "error"
      BY <2>3, <3>3 DEF Verdict
    <3> QED BY <1>1, <2>2, <3>1, <3>2, <3>4, <2>1
  <2>4. CASE Verdict(c) # "none"
    <3>1. /\ pc'[c] = "settling" /\ fault'[c] = Reading(c) /\ status'[c] = Verdict(c)
          /\ outcome' = outcome
      BY <1>21, <2>4, <1>3 DEF Catch
    <3>2. Verdict(c) \in {"failed", "ambiguous", "cancelled"}
      BY <2>4 DEF Verdict, Reading
    <3>3. Reading(c) = "failed" => Verdict(c) = "failed"
      BY <2>4 DEF Verdict, Reading
    <3> QED BY <1>1, <1>2, <1>21, <2>1, <2>2, <3>1, <3>2, <3>3, VerdictIsTrue
  <2> QED BY <2>3, <2>4
<1>22. CASE Settle(c)
  <2>1. fault[c] \in Branch
    BY <1>22 DEF Settle, AwaitSaved, AwaitRejected, RecordInv, CoreInv, SettlesByBranch
  <2> QED BY <1>1, <1>2, <1>22, <2>1 DEF Settle, AwaitSaved, AwaitRejected, callVars, ledgerVars
<1>23. CASE Abort(c)
  BY <1>1, <1>2, <1>23 DEF Abort, callVars, ledgerVars
<1> QED
  BY <1>4, <1>5, <1>6, <1>7, <1>8, <1>9, <1>10, <1>11, <1>12, <1>13, <1>14, <1>15, <1>16,
     <1>17, <1>18, <1>19, <1>20, <1>21, <1>22, <1>23 DEF CallStep, UserStep

\* What the plugin changes is the bound document if the call names items.
LEMMA PluginChangesExplained ==
  ASSUME RecordInv, FaultInv, AsideStep, NEW d \in Call
  PROVE  /\ appliedTo'[d] # NoKey => request'[d] = "applied"
         /\ appliedTo'[d] \notin {NoKey, bound[d]} => op[d] \notin ItemOp
<1> USE RecordTypes DEF CallTypeOK
<1>1. Explained(d)
  BY FaultInvByCall
<1>2. ASSUME NEW c \in Call, PluginApplies(c)
      PROVE  /\ appliedTo'[d] # NoKey => request'[d] = "applied"
             /\ appliedTo'[d] \notin {NoKey, bound[d]} => op[d] \notin ItemOp
  BY <1>1, <1>2 DEF PluginApplies, Explained, EndTells
<1>3. ASSUME NEW c \in Call, PluginRefuses(c)
      PROVE  /\ appliedTo'[d] # NoKey => request'[d] = "applied"
             /\ appliedTo'[d] \notin {NoKey, bound[d]} => op[d] \notin ItemOp
  BY <1>1, <1>3 DEF PluginRefuses, Explained, EndTells
<1>4. CASE SaveStep \/ Restart \/ DocumentChanges \/ HostRestarts \/ Finished
  BY <1>1, <1>4 DEF SaveStep, Restart, LedgerOnly, DocumentChanges, HostRestarts, Finished,
                    vars, Explained, EndTells
<1> QED BY <1>2, <1>3, <1>4 DEF AsideStep, PluginStep

\* Every step has an explanation for what it leaves.
LEMMA NextKeepsFaultInv ==
  ASSUME RecordInv, FaultInv, Next
  PROVE  FaultInv'
<1>1. CASE \E c \in Call : CallStep(c) \/ UserStep(c)
  <2>1. PICK c \in Call : CallStep(c) \/ UserStep(c)
    BY <1>1
  <2>2. \A d \in Call : Explained(d)'
    BY <2>1, OthersStayExplained, OwnStepsExplained
  <2>3. process' = "up"
    BY <2>1, CallStepsAlive
  <2> QED BY <2>2, <2>3, FaultInvByCall DEF FaultInv, Explained, UnfinishedOnlyAfterFault, ItemsKeepToTheirDocument
<1>2. CASE AsideStep
  <2>1. UNCHANGED <<pc, bound, op, retryOf, fault, executing, outcome, crashes>>
    BY <1>2, AsideLeaves DEF callVars
  <2>2. process' # "up" => crashes > 0
    BY <1>2
       DEF AsideStep, PluginStep, PluginApplies, PluginRefuses, SaveStep, SaveStarts,
         SaveSucceeds, SaveFails, Restart, LedgerRestart, RecoverySaved,
         DocumentChanges, HostRestarts, Finished, vars, ledgerVars, FaultInv
  <2>3. ASSUME NEW d \in Call PROVE Explained(d)'
    <3>1. Explained(d)
      BY FaultInvByCall
    <3>2. pc[d] \in {"idle", "bound", "approval", "locking", "calling", "caught", "done"}
             => write'[d] = write[d]
      BY <1>2, SavesStayOver, AwaitsNothing
    <3>3. request'[d] = request[d] \/ request[d] = "sent"
      BY <1>2, AsideRecords
    <3>4. CASE status' = status
      <4>1. outcome[d] = "failed" => pc[d] = "done"
        BY DEF RecordInv, ReportedAtTheEnd
      <4>2. StatusTells(d)'
        BY <2>1, <3>1, <3>2, <3>3, <3>4 DEF Explained, StatusTells, InExecution
      <4> QED BY <1>2, <2>1, <3>1, <3>2, <3>3, <3>4, <4>1, <4>2, PluginChangesExplained
              DEF Explained, EndTells
    <3>5. CASE process = "down"
      <4>1. crashes > 0 /\ pc[d] \in {"idle", "done"} /\ crashes \in Nat
        BY <3>5, RecordTypes, LedgerConstants DEF FaultInv, RecordInv, DownMeansOver, LedgerInv, LedgerTypeOK
      <4> QED BY <1>2, <2>1, <4>1, PluginChangesExplained DEF Explained, StatusTells, EndTells
    <3> QED BY <1>2, <3>4, <3>5, AsideRecords
  <2> QED BY <2>1, <2>2, <2>3 DEF FaultInv, Explained, UnfinishedOnlyAfterFault, ItemsKeepToTheirDocument
<1>3. CASE Crash
  <2>1. crashes' > 0
    BY <1>3, CrashLeaves, RecordTypes, LedgerConstants DEF LedgerInv, LedgerTypeOK
  <2> QED BY <1>3, <2>1, CrashLeaves
          DEF FaultInv, StatusTells, EndTells, UnfinishedOnlyAfterFault, ItemsKeepToTheirDocument
<1> QED BY <1>1, <1>2, <1>3, StepsOfNext

LEMMA FaultInvUnchanged == FaultInv /\ UNCHANGED vars => FaultInv'
BY DEF FaultInv, StatusTells, EndTells, InExecution, UnfinishedOnlyAfterFault,
       ItemsKeepToTheirDocument, vars, callVars, ledgerVars, hostVars

\* A wrong report, a record left unfinished and a change of another document
\* each have the explanation the code gives them, and no other.
THEOREM FaultsAreExplained == Spec => []FaultsExplain
<1>1. RecordInv /\ FaultInv /\ [Next]_vars => FaultInv'
  BY NextKeepsFaultInv, FaultInvUnchanged
<1>2. FaultInv => FaultsExplain
  BY DEF FaultInv, EndTells, FaultsExplain, WrongReportOnlyAfterLostSave
<1> QED BY <1>1, <1>2, InitExplained, RecordsAlwaysInv, PTL DEF Spec

----------------------------------------------------------------------------
(* Retries.                                                                 *)

\* Resolves: c finds the record of a in doubt and lays it to rest.
Resolves(c, a) == ResolveAmbiguous(c) /\ retryOf[c] = a /\ CanMark(a, "resolved")

\* A resolution stays, and a record is resolved by a retry only.
LEMMA ResolutionSteps ==
  ASSUME RecordInv, NEW c \in Call, CallStep(c) \/ UserStep(c), NEW a \in Call
  PROVE  /\ status[a] = "resolved" => status'[a] = "resolved"
         /\ status'[a] = "resolved" => status[a] = "resolved" \/ Resolves(c, a)
<1> USE RecordTypes DEF CallTypeOK
<1>1. ASSUME NEW to, to # "resolved", Mark(c, c, to)
      PROVE  /\ status[a] = "resolved" => status'[a] = "resolved"
             /\ status'[a] = "resolved" => status[a] = "resolved"
  <2>1. status[c] # "resolved"
    BY <1>1 DEF Mark, CanMark, Transitions, Status
  <2> QED BY <2>1, <1>1, MarkChangesOne
<1>2. CASE UNCHANGED ledgerVars
  BY <1>2 DEF ledgerVars
<1>3. CASE BeginRecord(c)
  BY <1>3 DEF BeginRecord, Begin, Statuses
<1>4. CASE ResolveAmbiguous(c) /\ ~UNCHANGED ledgerVars
  <2>1. /\ retryOf[c] \in Call /\ Mark(c, retryOf[c], "resolved")
        /\ CanMark(retryOf[c], "resolved")
    BY <1>4 DEF ResolveAmbiguous
  <2>2. /\ status'[retryOf[c]] = "resolved"
        /\ \A d \in Call \ {retryOf[c]} : status'[d] = status[d]
    BY <2>1, MarkChangesOne
  <2> QED BY <1>4, <2>1, <2>2 DEF Resolves
<1>5. CASE Catch(c)
  <2>1. Verdict(c) # "resolved"
    BY DEF Verdict, Reading
  <2> QED BY <1>1, <1>2, <1>5, <2>1 DEF Catch
<1>6. CASE CallStep(c) /\ ~Catch(c) /\ ~ResolveAmbiguous(c) /\ ~BeginRecord(c)
  <2>1. (\E to : to # "resolved" /\ Mark(c, c, to)) \/ UNCHANGED ledgerVars
    BY <1>6 DEF CallStep, BindRun, BlockRetry, SaveRejected,
         RequestApproval, OpenDialog, Approve, ValidationFails,
         QueueUp, MarkExecuting, MarkExecutingFails, SendCall, CheckFails,
         ResultArrives, ErrorArrives, AnswerLost, Return, Settle
  <2> QED BY <1>1, <1>2, <2>1
<1>7. CASE UserStep(c)
  <2>1. (\E to : to # "resolved" /\ Mark(c, c, to)) \/ UNCHANGED ledgerVars
    BY <1>7 DEF UserStep, Approve, Denied, Abort
  <2> QED BY <1>1, <1>2, <2>1
<1> QED BY <1>2, <1>3, <1>4, <1>5, <1>6, <1>7

\* What is settled about c itself: who let it pass, what it repeats, where it is
\* on its way.
LEMMA OwnSteps ==
  ASSUME RecordInv, NEW c \in Call, CallStep(c) \/ UserStep(c)
  PROVE  /\ answer[c] # "nobody" => answer'[c] # "nobody"
         /\ pc[c] # "idle" => bound'[c] = bound[c]
         /\ pc'[c] # "idle"
         /\ pc'[c] \in {"approving", "resolving"} =>
              answer'[c] # "nobody" \/ pc[c] \in {"approving", "resolving"}
         /\ (retryOf'[c] = retryOf[c] /\ subject'[c] = subject[c]) \/ BeginRecord(c)
         /\ pc'[c] \in {"idle", "bound"} => pc[c] \in {"idle", "bound"} /\ ~BeginRecord(c)
         /\ pc'[c] = "resolving" => pc[c] = "resolving" \/ Resolves(c, retryOf[c])
         /\ GoesOn(c)' => GoesOn(c) \/ QueueUp(c)
<1> USE RecordTypes DEF CallTypeOK, Goto, Finish, Throw
<1>1. CASE CallStep(c)
  BY <1>1 DEF CallStep, BindRun, BlockRetry, BeginRecord, Begin, SaveRejected,
         RequestApproval, OpenDialog, Approve, ValidationFails, ResolveAmbiguous,
         QueueUp, MarkExecuting, MarkExecutingFails, SendCall, CheckFails,
         ResultArrives, ErrorArrives, AnswerLost, Return, Catch, Settle, Mark,
         ledgerVars, callVars, AwaitSaved, AwaitRejected, Validated, Resolves, GoesOn
<1>2. CASE UserStep(c)
  BY <1>2 DEF UserStep, Approve, Denied, Abort, Mark, ledgerVars, callVars, AwaitSaved,
              BeginRecord, Resolves, GoesOn
<1> QED BY <1>1, <1>2

\* What is resolved on disk stays resolved.
LEMMA ResolvedOnDiskStays ==
  ASSUME RecordInv, Next, NEW a \in Call, file[a] = "resolved"
  PROVE  file'[a] = "resolved"
BY RecordTypes, NextKeepsLedgerInv, StepsKeepVerdicts DEF Terminal

\* What is resolved on disk is resolved in what came after.
LEMMA ResolvedOnDiskHolds ==
  ASSUME RecordInv, NEW a \in Call, file[a] = "resolved", process # "down"
  PROVE  status[a] = "resolved" /\ snapshot[a] = "resolved"
<1>1. Follows(status, snapshot) /\ Follows(snapshot, file)
  BY DEF RecordInv, CoreInv, LedgerInv, FileNeverAhead
<1>2. Reachable("resolved") = {}
  BY DEF Reachable
<1> QED BY <1>1, <1>2 DEF Follows
\* Every step keeps the records with their calls.
LEMMA NextKeepsOwnership ==
  ASSUME RecordInv, RecordsAreOfTheirCalls, Next
  PROVE  RecordsAreOfTheirCalls'
<1> USE RecordTypes DEF CallTypeOK, LedgerInv, LedgerTypeOK
<1>1. ASSUME NEW c \in Call, CallStep(c) \/ UserStep(c), NEW d \in Call
      PROVE  /\ subject'[d] # NoSubject => subject'[d] = SubjectOf(d)' /\ pc'[d] # "idle"
             /\ pc'[d] \in {"approving", "resolving"} => answer'[d] # "nobody"
  <2>1. /\ subject[d] # NoSubject => subject[d] = SubjectOf(d) /\ pc[d] # "idle"
        /\ pc[d] \in {"approving", "resolving"} => answer[d] # "nobody"
    BY DEF RecordsAreOfTheirCalls
  <2>2. op' = op
    BY <1>1, CallStepsLeave
  <2>3. CASE d # c
    BY <1>1, <2>1, <2>2, <2>3, StepsTouchOneCall, StepsLeaveOthers DEF SubjectOf
  <2>4. CASE d = c /\ ~BeginRecord(c)
    BY <1>1, <2>1, <2>2, <2>4, OwnSteps DEF SubjectOf
  <2>5. CASE d = c /\ BeginRecord(c)
    <3>1. subject'[c] = SubjectOf(c) /\ bound' = bound /\ pc'[c] = "beginning"
      BY <2>5 DEF BeginRecord, Begin, callVars, Goto
    <3> QED BY <2>2, <2>5, <3>1 DEF SubjectOf
  <2> QED BY <2>3, <2>4, <2>5
<1>2. CASE AsideStep
  BY <1>2, AsideLeaves DEF RecordsAreOfTheirCalls, SubjectOf, callVars
<1>3. CASE Crash
  BY <1>3, CrashLeaves DEF RecordsAreOfTheirCalls, SubjectOf
<1> QED BY <1>1, <1>2, <1>3, StepsOfNext DEF RecordsAreOfTheirCalls

\* A retry is of a call for the same modification that began before it.
LEMMA BeginMatches ==
  ASSUME RecordInv, RecordsAreOfTheirCalls, NEW c \in Call, BeginRecord(c),
         retryOf'[c] # retryOf[c]
  PROVE  LET a == retryOf'[c]
         IN a \in Call /\ a # c /\ confirmed[c] /\ op[c] = op[a] /\ bound[c] = bound[a]
            /\ pc[a] # "idle"
<1>1. PICK a \in Ambiguous(SubjectOf(c)) : confirmed[c] /\ retryOf' = [retryOf EXCEPT ![c] = a]
  BY DEF BeginRecord
<1>2. a = retryOf'[c] /\ a \in Call /\ status[a] = "ambiguous" /\ subject[a] = SubjectOf(c)
  BY <1>1, RecordTypes DEF CallTypeOK, Ambiguous
<1>3. a # c
  BY <1>2 DEF BeginRecord, Begin
<1>4. SubjectOf(c) \in Subject
  BY RecordTypes, ToolExecutionConstants
     DEF BeginRecord, SubjectOf, CoreInv, LockFollowsPc, CallTypeOK
<1>5. SubjectOf(c) = SubjectOf(a) /\ pc[a] # "idle"
  BY <1>2, <1>4, LedgerConstants DEF RecordsAreOfTheirCalls
<1> QED BY <1>1, <1>2, <1>3, <1>5 DEF SubjectOf

LEMMA NextKeepsRetriesMatch ==
  ASSUME RecordInv, RecordsAreOfTheirCalls, RetriesMatch, Next
  PROVE  RetriesMatch'
<1> DEFINE Match(c, a) ==
      /\ a # c /\ confirmed[c] /\ op[c] = op[a] /\ bound[c] = bound[a]
      /\ pc[c] \notin {"idle", "bound"} /\ pc[a] # "idle"
<1> USE RecordTypes DEF CallTypeOK
<1>1. ASSUME NEW c \in Call, CallStep(c) \/ UserStep(c),
             NEW d \in Call, retryOf'[d] # NoCall
      PROVE  Match(d, retryOf[d])' \/ retryOf'[d] # retryOf[d]
  <2>1. ASSUME retryOf'[d] = retryOf[d]
        PROVE  Match(d, retryOf[d])'
    <3>1. retryOf[d] \in Call /\ Match(d, retryOf[d])
      BY <1>1, <2>1 DEF RetriesMatch
    <3>2. op' = op /\ confirmed' = confirmed
      BY <1>1, CallStepsLeave
    <3>3. \A x \in Call : pc[x] # "idle" => bound'[x] = bound[x] /\ pc'[x] # "idle"
      BY <1>1, StepsTouchOneCall, StepsLeaveOthers, OwnSteps
    <3>4. pc'[d] \notin {"idle", "bound"}
      BY <1>1, <3>1, StepsTouchOneCall, OwnSteps
    <3> QED BY <2>1, <3>1, <3>2, <3>3, <3>4
  <2> QED BY <2>1
<1>2. ASSUME NEW c \in Call, CallStep(c) \/ UserStep(c),
             NEW d \in Call, retryOf'[d] # NoCall, retryOf'[d] # retryOf[d]
      PROVE  Match(d, retryOf[d])'
  <2>1. d = c /\ BeginRecord(c)
    BY <1>2, StepsLeaveOthers, OwnSteps
  <2>2. /\ op' = op /\ confirmed' = confirmed /\ bound' = bound
        /\ pc' = [pc EXCEPT ![c] = "beginning"]
    BY <2>1 DEF BeginRecord, callVars, Goto
  <2> QED BY <1>2, <2>1, <2>2, BeginMatches
<1>3. CASE AsideStep
  BY <1>3, AsideLeaves DEF RetriesMatch, callVars
<1>4. CASE Crash
  BY <1>4, CrashLeaves DEF RetriesMatch
<1>5. ASSUME NEW c \in Call, CallStep(c) \/ UserStep(c) PROVE RetriesMatch'
  BY <1>1, <1>2, <1>5 DEF RetriesMatch
<1> QED BY <1>3, <1>4, <1>5, StepsOfNext
\* Which copies of a record say `resolved` is decided by memory: a save carries
\* it to the file, a restart back.
LEMMA CopiesOfResolution ==
  ASSUME RecordInv, AsideStep \/ Crash, NEW a \in Call,
         "resolved" \in {status'[a], snapshot'[a], file'[a]}
  PROVE  "resolved" \in {status[a], snapshot[a], file[a]}
<1>1. CASE AsideStep
  BY <1>1 DEF AsideStep, PluginStep, PluginApplies, PluginRefuses, SaveStep, SaveStarts,
         SaveSucceeds, SaveFails, Restart, LedgerRestart, RecoverySaved, Recovered,
         DocumentChanges, HostRestarts, Finished, vars, ledgerVars
<1>2. CASE Crash
  BY <1>2, CrashLeaves
<1> QED BY <1>1, <1>2

LEMMA NextKeepsResolvedByRetry ==
  ASSUME RecordInv, RecordsAreOfTheirCalls, RetriesMatch, ResolvedByRetry, Next
  PROVE  ResolvedByRetry'
<1> DEFINE Said(a, c) == retryOf[c] = a /\ answer[c] # "nobody"
<1>1. ASSUME NEW c \in Call, CallStep(c) \/ UserStep(c), NEW a \in Call,
             "resolved" \in {status'[a], snapshot'[a], file'[a]}
      PROVE  \E d \in Call : Said(a, d)'
  <2>1. UNCHANGED <<snapshot, file>>
    BY <1>1, CallStepsLeave
  <2>2. CASE "resolved" \in {status[a], snapshot[a], file[a]}
    <3>1. PICK d \in Call : Said(a, d)
      BY <2>2 DEF ResolvedByRetry
    <3>2. retryOf'[d] = retryOf[d]
      <4>1. pc[d] # "bound"
        BY <3>1, NoCallAssumption DEF RetriesMatch
      <4> QED BY <1>1, <4>1, StepsLeaveOthers, OwnSteps DEF BeginRecord
    <3>3. answer'[d] # "nobody"
      BY <1>1, <3>1, StepsLeaveOthers, OwnSteps
    <3> QED BY <3>1, <3>2, <3>3
  <2>3. CASE Resolves(c, a)
    <3>1. retryOf' = retryOf /\ answer' = answer /\ pc[c] = "approving"
      BY <2>3 DEF Resolves, ResolveAmbiguous, Validated, AwaitSaved
    <3> QED BY <2>3, <3>1 DEF Resolves, RecordsAreOfTheirCalls
  <2> QED BY <1>1, <2>1, <2>2, <2>3, ResolutionSteps
<1>2. CASE AsideStep \/ Crash
  <2>1. UNCHANGED <<retryOf, answer>>
    BY <1>2, AsideLeaves, CrashLeaves
  <2> QED BY <1>2, <2>1, CopiesOfResolution DEF ResolvedByRetry
<1> QED BY <1>1, <1>2, StepsOfNext DEF ResolvedByRetry

\* Asking for a save leaves the saves of resolutions that others await alone.
LEMMA StepsKeepResolvingSaved ==
  ASSUME RecordInv, RetriesMatch, ResolvingIsSaved, NEW c \in Call, CallStep(c) \/ UserStep(c)
  PROVE  ResolvingIsSaved'
<1> USE RecordTypes DEF CallTypeOK
<1>1. UNCHANGED <<saving, snapshot, file>> /\ (Persist(c) \/ UNCHANGED <<writeTail, write>>)
  BY CallStepsLeave
<1>2. saving => writeTail # <<>>
  BY DEF LedgerInv
<1>3. ASSUME saving', NEW d \in Call, Head(writeTail') = d
      PROVE  Head(writeTail) = d /\ write[d] = "pending"
  <2>1. Head(writeTail') = Head(writeTail)
    BY <1>1, <1>2, <1>3, AppendToChain DEF Persist
  <2>2. Head(writeTail) = writeTail[1] /\ 1 \in 1..Len(writeTail)
    BY <1>1, <1>2, <1>3, ServeHead
  <2> QED BY <1>3, <2>1, <2>2 DEF RecordInv, SavesInOrder
<1>4. ASSUME NEW d \in Call, pc'[d] = "resolving", pc[d] = "resolving"
      PROVE  /\ retryOf'[d] # NoCall
             /\ status'[retryOf'[d]] = "resolved"
             /\ write'[d] = "saved" => file'[retryOf'[d]] = "resolved"
             /\ saving' /\ Head(writeTail') = d => snapshot'[retryOf'[d]] = "resolved"
  <2> DEFINE a == retryOf[d]
  <2>1. /\ a # NoCall /\ status[a] = "resolved" /\ a \in Call
        /\ write[d] = "saved" => file[a] = "resolved"
        /\ saving /\ Head(writeTail) = d => snapshot[a] = "resolved"
    BY <1>4 DEF ResolvingIsSaved
  <2>2. retryOf'[d] = a
    BY <1>4, StepsLeaveOthers, OwnSteps DEF BeginRecord
  <2>3. status'[a] = "resolved"
    BY <2>1, ResolutionSteps
  <2>4. write'[d] = "saved" => write[d] = "saved"
    BY <1>1 DEF Persist
  <2> QED BY <1>1, <1>3, <1>4, <2>1, <2>2, <2>3, <2>4
<1>5. ASSUME NEW d \in Call, pc'[d] = "resolving", pc[d] # "resolving"
      PROVE  /\ retryOf'[d] # NoCall
             /\ status'[retryOf'[d]] = "resolved"
             /\ write'[d] # "saved"
             /\ ~(saving' /\ Head(writeTail') = d)
  <2>1. d = c /\ Resolves(c, retryOf[c])
    BY <1>5, StepsTouchOneCall, OwnSteps
  <2>2. /\ retryOf[c] \in Call /\ retryOf' = retryOf /\ Mark(c, retryOf[c], "resolved")
        /\ write[c] = "saved"
    BY <2>1 DEF Resolves, ResolveAmbiguous, Validated, AwaitSaved
  <2>3. status'[retryOf[c]] = "resolved" /\ Persist(c)
    BY <2>2, MarkChangesOne
  <2>4. write'[c] = "pending"
    BY <2>3 DEF Persist
  <2> QED BY <1>3, <2>1, <2>2, <2>3, <2>4, NoCallAssumption
<1> QED BY <1>4, <1>5 DEF ResolvingIsSaved

\* While c awaits the save of a resolution, a save that ends well and is not its
\* own wrote nothing else about it if c's save is over.
LEMMA SavesKeepResolvingSaved ==
  ASSUME RecordInv, ResolvingIsSaved, AsideStep
  PROVE  ResolvingIsSaved'
<1> USE RecordTypes DEF CallTypeOK
<1>1. UNCHANGED <<pc, retryOf>>
  BY AsideLeaves
<1>2. ASSUME NEW d \in Call, pc[d] = "resolving"
      PROVE  /\ status'[retryOf[d]] = "resolved"
             /\ write'[d] = "saved" => file'[retryOf[d]] = "resolved"
             /\ saving' /\ Head(writeTail') = d => snapshot'[retryOf[d]] = "resolved"
  <2> DEFINE a == retryOf[d]
  <2>1. /\ a \in Call /\ status[a] = "resolved" /\ process = "up"
        /\ write[d] = "saved" => file[a] = "resolved"
        /\ saving /\ Head(writeTail) = d => snapshot[a] = "resolved"
    BY <1>2 DEF ResolvingIsSaved, RecordInv, DownMeansOver
  <2>2. status' = status
    BY <2>1, AsideRecords
  <2>3. CASE SaveStarts
    BY <2>1, <2>2, <2>3 DEF SaveStarts
  <2>4. CASE SaveSucceeds
    <3>1. CASE d = Head(writeTail)
      BY <2>1, <2>2, <2>4, <3>1 DEF SaveSucceeds
    <3>2. CASE d # Head(writeTail)
      <4>1. write'[d] = write[d]
        BY <2>4, <3>2 DEF SaveSucceeds
      <4> QED BY <2>1, <2>2, <2>4, <4>1, ResolvedOnDiskHolds DEF SaveSucceeds
    <3> QED BY <3>1, <3>2
  <2>5. CASE SaveFails
    <3>1. write'[d] = "saved" => write[d] = "saved"
      BY <2>5 DEF SaveFails
    <3> QED BY <2>1, <2>2, <2>5, <3>1 DEF SaveFails
  <2>6. CASE ~(SaveStarts \/ SaveSucceeds \/ SaveFails)
    <3>1. UNCHANGED <<write, file, saving, writeTail, snapshot>>
      BY <2>1, <2>6 DEF AsideStep, PluginStep, PluginApplies, PluginRefuses, SaveStep, Restart,
             LedgerRestart, RecoverySaved, DocumentChanges, HostRestarts, Finished, vars,
             ledgerVars
    <3> QED BY <2>1, <2>2, <3>1
  <2> QED BY <2>3, <2>4, <2>5, <2>6
<1> QED BY <1>1, <1>2 DEF ResolvingIsSaved

LEMMA NextKeepsResolvingIsSaved ==
  ASSUME RecordInv, RetriesMatch, ResolvingIsSaved, Next
  PROVE  ResolvingIsSaved'
<1>1. CASE Crash
  BY <1>1, CrashLeaves DEF ResolvingIsSaved
<1> QED BY <1>1, StepsOfNext, StepsKeepResolvingSaved, SavesKeepResolvingSaved

\* A retry goes on to execute when its resolution is on disk.
LEMMA NextKeepsResolvedBeforeExecution ==
  ASSUME RecordInv, RetriesMatch, ResolvingIsSaved, ResolvedBeforeExecution, Next
  PROVE  ResolvedBeforeExecution'
<1> USE RecordTypes DEF CallTypeOK
<1>1. ASSUME NEW d \in Call, retryOf[d] # NoCall, GoesOn(d) \/ QueueUp(d)
      PROVE  file[retryOf[d]] = "resolved"
  BY <1>1 DEF ResolvedBeforeExecution, ResolvingIsSaved, QueueUp, AwaitSaved
<1>2. ASSUME NEW d \in Call, retryOf'[d] # NoCall, GoesOn(d)'
      PROVE  retryOf'[d] = retryOf[d] /\ (GoesOn(d) \/ QueueUp(d))
  <2>1. ASSUME NEW c \in Call, CallStep(c) \/ UserStep(c)
        PROVE  retryOf'[d] = retryOf[d] /\ (GoesOn(d) \/ QueueUp(d))
    <3>1. CASE c = d
      <4>1. ~BeginRecord(d)
        BY <1>2 DEF BeginRecord, Goto, GoesOn, RecordInv, SentOnlyFromCalling
      <4> QED BY <1>2, <2>1, <3>1, <4>1, OwnSteps
    <3>2. CASE c # d
      BY <1>2, <2>1, <3>2, StepsTouchOneCall, StepsLeaveOthers DEF GoesOn
    <3> QED BY <3>1, <3>2
  <2>2. CASE AsideStep
    BY <1>2, <2>2, AsideLeaves, AsideRecords DEF GoesOn
  <2>3. CASE Crash
    BY <1>2, <2>3, CrashLeaves DEF GoesOn
  <2> QED BY <2>1, <2>2, <2>3, StepsOfNext
<1>3. ASSUME NEW d \in Call, retryOf'[d] # NoCall, GoesOn(d)'
      PROVE  file'[retryOf'[d]] = "resolved"
  BY <1>1, <1>2, <1>3, ResolvedOnDiskStays
<1> QED BY <1>3 DEF ResolvedBeforeExecution

\* Two retries of one record: the second finds it resolved and throws.
LEMMA NextKeepsOneResolves ==
  ASSUME RecordInv, RetriesMatch, ResolvingIsSaved, ResolvedBeforeExecution, OneResolves, Next
  PROVE  OneResolves'
<1> USE RecordTypes DEF CallTypeOK
<1> DEFINE Has(d) == GoesOn(d) \/ pc[d] = "resolving"
<1>1. ASSUME NEW d \in Call, retryOf[d] # NoCall, Has(d), process = "up"
      PROVE  ~CanMark(retryOf[d], "resolved")
  <2>1. status[retryOf[d]] = "resolved"
    <3>1. CASE pc[d] = "resolving"
      BY <1>1, <3>1 DEF ResolvingIsSaved
    <3>2. CASE GoesOn(d)
      BY <1>1, <3>2, ResolvedOnDiskHolds DEF ResolvedBeforeExecution
    <3> QED BY <1>1, <3>1, <3>2
  <2> QED BY <2>1 DEF CanMark, Transitions, Status
<1>2. ASSUME NEW c \in Call, CallStep(c) \/ UserStep(c)
      PROVE  OneResolves'
  <2>1. process = "up"
    BY <1>2, CallStepsAlive
  <2>2. \A d \in Call \ {c} : Has(d)' = Has(d) /\ retryOf'[d] = retryOf[d]
    BY <1>2, StepsTouchOneCall, StepsLeaveOthers DEF GoesOn
  <2>3. ASSUME Has(c)', retryOf'[c] # NoCall
        PROVE  retryOf'[c] = retryOf[c] /\ (Has(c) \/ Resolves(c, retryOf[c]))
    <3>1. ~BeginRecord(c)
      BY <2>3 DEF BeginRecord, Goto, GoesOn, RecordInv, SentOnlyFromCalling
    <3>2. retryOf'[c] = retryOf[c]
      BY <1>2, <3>1, OwnSteps
    <3>3. QueueUp(c) => pc[c] = "resolving"
      BY <2>3, <3>2 DEF QueueUp, AwaitSaved
    <3> QED BY <1>2, <2>3, <3>2, <3>3, OwnSteps
  <2>4. ASSUME NEW d \in Call \ {c}, retryOf'[d] = retryOf'[c], retryOf'[d] # NoCall,
               Has(d)', Has(c)'
        PROVE  FALSE
    <3>1. Has(d) /\ retryOf[d] = retryOf[c] /\ retryOf[c] # NoCall
      BY <2>2, <2>3, <2>4
    <3>2. CASE Has(c)
      BY <3>1, <3>2 DEF OneResolves
    <3>3. CASE Resolves(c, retryOf[c])
      BY <1>1, <2>1, <3>1, <3>3 DEF Resolves
    <3> QED BY <2>3, <2>4, <3>1, <3>2, <3>3
  <2>5. ASSUME NEW x \in Call, NEW y \in Call, retryOf'[x] = retryOf'[y],
               retryOf'[x] # NoCall, Has(x)', Has(y)'
        PROVE  x = y
    <3>1. CASE x = c \/ y = c
      BY <2>4, <2>5, <3>1
    <3>2. CASE x # c /\ y # c
      BY <2>2, <2>5, <3>2 DEF OneResolves
    <3> QED BY <3>1, <3>2
  <2> QED BY <2>5 DEF OneResolves
<1>3. CASE AsideStep \/ Crash
  <2>1. retryOf' = retryOf /\ \A d \in Call : Has(d)' => Has(d)
    BY <1>3, AsideLeaves, AsideRecords, CrashLeaves DEF GoesOn
  <2> QED BY <2>1 DEF OneResolves
<1> QED BY <1>2, <1>3, StepsOfNext

LEMMA InitRetries == Init => RetryInv
BY NoCallAssumption, LedgerConstants
   DEF Init, LedgerInit, RetryInv, RecordsAreOfTheirCalls, RetriesMatch, ResolvedByRetry,
       ResolvingIsSaved, ResolvedBeforeExecution, OneResolves

LEMMA RetryInvUnchanged == RetryInv /\ UNCHANGED vars => RetryInv'
BY DEF RetryInv, RecordsAreOfTheirCalls, SubjectOf, RetriesMatch, ResolvedByRetry,
       ResolvingIsSaved, ResolvedBeforeExecution, OneResolves, GoesOn, vars, callVars,
       ledgerVars

\* A record in doubt is resolved by a confirmed retry of the same modification
\* that was let through, and of several such retries one runs, whatever crashes
\* or saves fail in between (toolExecutor.ts, findAmbiguous to execute).
THEOREM RetriesAlwaysConfirmed == Spec => []RetriesAreConfirmed
<1>1. RecordInv /\ RetryInv /\ [Next]_vars => RetryInv'
  BY NextKeepsOwnership, NextKeepsRetriesMatch, NextKeepsResolvedByRetry,
     NextKeepsResolvingIsSaved, NextKeepsResolvedBeforeExecution, NextKeepsOneResolves,
     RetryInvUnchanged DEF RetryInv
<1>2. RetryInv => RetriesAreConfirmed
  <2> SUFFICES ASSUME RetryInv PROVE RetriesAreConfirmed
    OBVIOUS
  <2>1. ResolvedOnlyByConfirmedRetry
    BY NoCallAssumption DEF RetryInv, ResolvedByRetry, RetriesMatch, ResolvedOnlyByConfirmedRetry
  <2>2. RetriedOnce
    BY DEF RetryInv, OneResolves, GoesOn, RetriedOnce
  <2> QED BY <2>1, <2>2 DEF RetriesAreConfirmed
<1> QED BY <1>1, <1>2, InitRetries, RecordsAlwaysInv, PTL DEF Spec
=============================================================================
