--------------------------- MODULE ExecutionLedger ---------------------------
(***************************************************************************)
(* The durable ledger of modifying operations (agent/executionLedger.ts,   *)
(* class ToolExecutionLedger) and its write-behind file.                   *)
(*                                                                         *)
(* Every mutation changes the record in memory at once and then chains a   *)
(* save behind writeTail.  A save serialises whatever the WHOLE map holds  *)
(* when its turn comes, not what it held when the save was asked for.  A   *)
(* failed save rejects the caller that waits for it, breaks no chain, and  *)
(* leaves memory ahead of the file.  A crash keeps the file only; the next *)
(* start loads it and turns every `executing` record into `ambiguous`.     *)
(*                                                                         *)
(* One record per call: the key is runId + toolCallId, and both are fresh. *)
(* The file is a single atomic value here; LedgerFile models how it is     *)
(* replaced.                                                               *)
(***************************************************************************)
EXTENDS Naturals, Sequences, ToolCalls

CONSTANTS Subject,     \* what makes two calls "the same modification":
                       \* instance, document, tool name and argument hash
          NoSubject,   \* the subject of a call that has no record
          MaxCrashes,  \* bound on crashes of the desktop process
          MaxFailures  \* bound on saves the file system refuses

ASSUME LedgerConstants ==
  NoSubject \notin Subject /\ MaxCrashes \in Nat /\ MaxFailures \in Nat

Status == {"requested", "awaiting-approval", "approved", "executing",
           "success", "failed", "cancelled", "ambiguous", "resolved"}

Terminal == {"success", "failed", "cancelled", "ambiguous", "resolved"}

\* TRANSITIONS: the statuses that may follow s.
Transitions == [s \in Status |->
  CASE s = "requested"         -> {"awaiting-approval"}
    [] s = "awaiting-approval" -> {"approved", "cancelled"}
    [] s = "approved"          -> {"executing", "cancelled"}
    [] s = "executing"         -> {"success", "failed", "ambiguous"}
    [] s = "ambiguous"         -> {"resolved"}
    [] OTHER                   -> {}]

\* A call whose record does not exist has status "none".
Statuses == [Call -> Status \cup {"none"}]

VARIABLES
  status,    \* status[c]: the record of c in memory
  subject,   \* subject[c]: what the record of c is about
  writeTail, \* calls whose saves are chained, in order; the head is served
  saving,    \* the save at the head has read the map and is writing it
  snapshot,  \* what that save is writing; the file when there is none
  file,      \* what load() would return
  write,     \* write[c]: how the save that c awaits went
  process,   \* the desktop process
  crashes,   \* crashes so far
  failures   \* refused saves so far

ledgerVars == <<status, subject, writeTail, saving, snapshot, file, write,
                process, crashes, failures>>

LedgerTypeOK ==
  /\ status \in Statuses
  /\ subject \in [Call -> Subject \cup {NoSubject}]
  /\ writeTail \in Seq(Call)
  /\ saving \in BOOLEAN
  /\ snapshot \in Statuses
  /\ file \in Statuses
  /\ write \in [Call -> {"idle", "pending", "saved", "rejected"}]
  /\ process \in {"up", "down", "recovering"}
  /\ crashes \in 0..MaxCrashes
  /\ failures \in 0..MaxFailures

LedgerInit ==
  /\ status = [c \in Call |-> "none"]
  /\ subject = [c \in Call |-> NoSubject]
  /\ writeTail = <<>>
  /\ saving = FALSE
  /\ snapshot = status
  /\ file = status
  /\ write = [c \in Call |-> "idle"]
  /\ process = "up"
  /\ crashes = 0
  /\ failures = 0

----------------------------------------------------------------------------
\* The records findAmbiguous may return for s.  The code returns the oldest;
\* which one of several is left open here.
Ambiguous(s) == {c \in Call : status[c] = "ambiguous" /\ subject[c] = s}

\* #persist on behalf of caller w: chain a save and await it.
Persist(w) ==
  /\ writeTail' = Append(writeTail, w)
  /\ write' = [write EXCEPT ![w] = "pending"]

\* begin(): throws if the record exists.
Begin(c, s) ==
  /\ process = "up"
  /\ status[c] = "none"
  /\ status' = [status EXCEPT ![c] = "requested"]
  /\ subject' = [subject EXCEPT ![c] = s]
  /\ Persist(c)
  /\ UNCHANGED <<saving, snapshot, file, process, crashes, failures>>

\* mark() called by w on the record of c: an illegal transition throws before
\* anything changes, which the caller sees as CanMark being false.
CanMark(c, to) == status[c] # "none" /\ to \in Transitions[status[c]]

Mark(w, c, to) ==
  /\ process = "up"
  /\ CanMark(c, to)
  /\ status' = [status EXCEPT ![c] = to]
  /\ Persist(w)
  /\ UNCHANGED <<subject, saving, snapshot, file, process, crashes, failures>>

\* The save at the head of the chain starts: `this.all()` is evaluated now.
SaveStarts ==
  /\ process = "up"
  /\ ~saving
  /\ writeTail # <<>>
  /\ saving' = TRUE
  /\ snapshot' = status
  /\ UNCHANGED <<status, subject, writeTail, file, write, process, crashes, failures>>

\* The rename: the file is the snapshot, and the caller's await returns.
SaveSucceeds ==
  /\ process = "up"
  /\ saving
  /\ saving' = FALSE
  /\ file' = snapshot
  /\ write' = [write EXCEPT ![Head(writeTail)] = "saved"]
  /\ writeTail' = Tail(writeTail)
  /\ UNCHANGED <<status, subject, snapshot, process, crashes, failures>>

\* mkdir, copyFile, writeFile or rename throws: only the caller learns of it.
SaveFails ==
  /\ process = "up"
  /\ saving
  /\ failures < MaxFailures
  /\ failures' = failures + 1
  /\ saving' = FALSE
  /\ write' = [write EXCEPT ![Head(writeTail)] = "rejected"]
  /\ writeTail' = Tail(writeTail)
  /\ snapshot' = file
  /\ UNCHANGED <<status, subject, file, process, crashes>>

\* The process dies: memory and the chain are gone.
LedgerCrash ==
  /\ process \in {"up", "recovering"}
  /\ crashes < MaxCrashes
  /\ process' = "down"
  /\ crashes' = crashes + 1
  /\ status' = [c \in Call |-> "none"]
  /\ writeTail' = <<>>
  /\ saving' = FALSE
  /\ snapshot' = file
  /\ write' = [c \in Call |-> "idle"]
  /\ UNCHANGED <<subject, file, failures>>

\* Slip: recovery keeps the interrupted records and drops the finished ones.
RecoveredInterruptedOnly(records) ==
  [c \in Call |-> IF records[c] = "executing" THEN "ambiguous" ELSE "none"]

\* Slip: the loaded records are taken over as they are.
RecoveredAsLoaded(records) == records

\* recoverFrom(): what the loaded records become.
Recovered(records) ==
  [c \in Call |-> IF records[c] = "executing" THEN "ambiguous" ELSE records[c]]

\* initialize(): load and recover; persist only if something was recovered.
LedgerRestart ==
  /\ process = "down"
  /\ status' = Recovered(file)
  /\ process' = IF \E c \in Call : file[c] = "executing" THEN "recovering" ELSE "up"
  /\ UNCHANGED <<subject, writeTail, saving, snapshot, file, write, crashes, failures>>

\* The recovery save is awaited before the application starts; if it fails the
\* application does not start, which is LedgerCrash again.
RecoverySaved ==
  /\ process = "recovering"
  /\ file' = status
  /\ snapshot' = status
  /\ process' = "up"
  /\ UNCHANGED <<status, subject, writeTail, saving, write, crashes, failures>>

LedgerNext ==
  \/ \E c \in Call, s \in Subject : Begin(c, s)
  \/ \E w, c \in Call, to \in Status : write[w] # "pending" /\ Mark(w, c, to)
  \/ SaveStarts \/ SaveSucceeds \/ SaveFails
  \/ LedgerCrash \/ LedgerRestart \/ RecoverySaved

LedgerSpec == LedgerInit /\ [][LedgerNext]_ledgerVars

----------------------------------------------------------------------------
\* The verdicts on a call that was marked executing.
Reached == {"success", "failed", "ambiguous", "resolved"}

\* The statuses a record may take after it had status s.
Reachable(s) ==
  CASE s = "none"              -> Status
    [] s = "requested"         -> Status \ {"requested"}
    [] s = "awaiting-approval" -> Status \ {"requested", "awaiting-approval"}
    [] s = "approved"          -> {"executing", "cancelled"} \cup Reached
    [] s = "executing"         -> Reached
    [] s = "ambiguous"         -> {"resolved"}
    [] OTHER                   -> {}

\* `later` is what became of `earlier`, record by record.
Follows(later, earlier) ==
  \A c \in Call : later[c] = earlier[c] \/ later[c] \in Reachable(earlier[c])

\* The file is only ever behind memory: never ahead of it, never on another
\* branch, whichever saves failed, were merged into a later one or were cut off
\* by a crash.  Otherwise a restart would revive a verdict memory never reached.
FileNeverAhead ==
  process # "down" => Follows(status, snapshot) /\ Follows(snapshot, file)

\* Why: a save under way is a snapshot of memory taken after the last good file,
\* and saves and crashes leave nothing else behind.
LedgerInv ==
  /\ LedgerTypeOK
  /\ FileNeverAhead
  /\ saving => process = "up" /\ writeTail # <<>>
  /\ ~saving => snapshot = file
  /\ process # "up" => writeTail = <<>>

\* A verdict that reached the disk stands, over every restart and every late or
\* failed save; only a confirmed retry turns `ambiguous` into `resolved`.
DurableVerdictStable ==
  [][\A c \in Call : file[c] \in Terminal =>
       \/ file'[c] = file[c]
       \/ file[c] = "ambiguous" /\ file'[c] = "resolved"]_ledgerVars
=============================================================================
