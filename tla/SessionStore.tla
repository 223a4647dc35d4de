---------------------------- MODULE SessionStore ----------------------------
(***************************************************************************)
(* Where conversations are kept (main/ipc.ts, class PersistenceFacade, and *)
(* main/sessionRepository.ts, class JsonSessionRepository).                *)
(*                                                                         *)
(* All sessions are one list in one file with a backup.  Every change is   *)
(* read-modify-write on that list: load, change one session, write the     *)
(* primary, write the backup.  The write tail runs the changes one after   *)
(* the other; a set of tombstones refuses saves of deleted sessions.       *)
(*                                                                         *)
(* The clients of the store are here too, as far as they read it and write *)
(* it back: the user interface, which works on copies of sessions, one     *)
(* chat run or /compact at a time, and the deletion of a session.          *)
(*                                                                         *)
(* Writes are numbered in the order they are asked for.  A stored session  *)
(* is the number of the save that wrote its messages (0: not in the list), *)
(* and those of the writes its compactSummary and semanticMemory are from. *)
(***************************************************************************)
EXTENDS Naturals, Sequences

CONSTANTS Session, NoSession,
          Missing, Damaged, \* a file that is not there, one that does not parse
          MaxWrites,        \* bound on changes asked for
          MaxFailures,      \* bound on writes refused by the disk
          MaxCrashes,       \* bound on crashes of the desktop
          MaxDamages        \* bound on files damaged from outside

Stored == [by : Nat, summary : Nat, memory : Nat]
List   == [stamp : Nat, sessions : [Session -> Stored]]

ASSUME StoreConstants ==
  /\ NoSession \notin Session
  /\ Missing # Damaged /\ Missing \notin List \cup Nat /\ Damaged \notin List
  /\ {MaxWrites, MaxFailures, MaxCrashes, MaxDamages} \subseteq Nat

VARIABLES
  primary,      \* sessions.json
  backup,       \* sessions.backup.json
  queue,        \* changes asked for and not settled, the running one first
  step,         \* where the running one is
  content,      \* the list it writes
  deleted,      \* #deletedSessionIds
  asked,        \* changes asked for so far
  acknowledged, \* the last change whose two writes succeeded
  view,         \* what the user interface has of each session
  carried,      \* the compactSummary its copy carries
  untitled,     \* sessions the model is finding a title for
  run,          \* the chat run or /compact under way
  deleting,     \* the deletion under way
  kept,         \* auxiliary: what was acknowledged of each session
  gone,         \* auxiliary: sessions durably deleted, ever
  failures, crashes, damages

fileVars   == <<primary, backup>>
clientVars == <<view, carried, untitled, run, deleting>>
faultVars  == <<failures, crashes, damages>>
storeVars  == <<primary, backup, step, content, deleted, acknowledged, kept, gone>>
vars == <<storeVars, queue, asked, clientVars, faultVars>>

NotStored == [by |-> 0, summary |-> 0, memory |-> 0]
EmptyList == [stamp |-> 0, sessions |-> [s \in Session |-> NotStored]]
NoRun == [session |-> NoSession, phase |-> "none", own |-> 0, awaits |-> 0,
          seen |-> 0, memory |-> 0, aborted |-> FALSE, saved |-> FALSE]
NoDeletion == [session |-> NoSession, phase |-> "none"]

Init ==
  /\ primary = Missing /\ backup = Missing
  /\ queue = <<>> /\ step = "idle" /\ content = EmptyList
  /\ deleted = {}
  /\ asked = 0 /\ acknowledged = 0
  /\ view = [s \in Session |-> "fresh"]
  /\ carried = [s \in Session |-> 0]
  /\ untitled = {}
  /\ run = NoRun /\ deleting = NoDeletion
  /\ kept = [s \in Session |-> NotStored]
  /\ gone = {}
  /\ failures = 0 /\ crashes = 0 /\ damages = 0

----------------------------------------------------------------------------
(* Reading *)

Readable(file) == file \notin {Missing, Damaged}

\* load(): the primary if it parses, else the backup, else nothing.
Loaded ==
  IF Readable(primary) THEN primary ELSE IF Readable(backup) THEN backup ELSE EmptyList

CanPersist == Readable(primary) \/ Readable(backup) \/ {primary, backup} = {Missing}

\* Slip: the tail is not awaited.
SettledAtOnce(n) == TRUE

\* `await this.#writeTail` is over for whoever found write n at the tail.
Settled(n) == \A i \in DOMAIN queue : queue[i].n > n

----------------------------------------------------------------------------
(* Changes *)

Change(n, kind, s, summary, memory) ==
  [n |-> n, kind |-> kind, session |-> s, summary |-> summary, memory |-> memory]

\* #serializeWrite: behind whatever was asked for before.
Ask(kind, s, summary, memory) ==
  /\ asked < MaxWrites
  /\ asked' = asked + 1
  /\ queue' = Append(queue, Change(asked + 1, kind, s, summary, memory))

\* Slip: the copy replaces what is stored.
Overwritten(old, c) == [by |-> c.n, summary |-> c.summary, memory |-> c.memory]

\* A save does not know of all the store knows: what the copy leaves out stays.
Merged(old, c) ==
  [by |-> c.n,
   summary |-> IF c.summary = 0 THEN old.summary ELSE c.summary,
   memory |-> IF c.memory = 0 THEN old.memory ELSE c.memory]

Changed(sessions, c) ==
  [sessions EXCEPT ![c.session] =
     CASE c.kind = "save"    -> Merged(@, c)
       [] c.kind = "summary" -> [@ EXCEPT !.summary = c.n]
       [] c.kind = "memory"  -> [@ EXCEPT !.memory = c.n]
       [] c.kind = "delete"  -> NotStored]

\* Slip: #assertNotDeleted is not called.
RefusedIfUnreadable(c) == ~CanPersist

Refused(c) == (c.kind = "save" /\ c.session \in deleted) \/ ~CanPersist

\* Nothing to delete, or nothing to add a summary or a memory to.
Pointless(c) == c.kind # "save" /\ Loaded.sessions[c.session].by = 0

\* The change is over: the next one's turn, and whoever waits for this one goes
\* on (the delete route, or /compact with its save).
Settle(ok) ==
  LET c == Head(queue) IN
  /\ queue' = Tail(queue)
  /\ step' = "idle"
  /\ deleting' = IF c.kind # "delete" THEN deleting
                 ELSE [deleting EXCEPT !.phase = IF ok THEN "deleted" ELSE "refused"]
  /\ run' = IF run.phase = "saving" /\ run.awaits = c.n
            THEN IF ok THEN [run EXCEPT !.phase = "reloading", !.awaits = asked] ELSE NoRun
            ELSE [run EXCEPT !.saved = @ \/ (run.own = c.n /\ ok)]
  /\ UNCHANGED <<asked, view, carried, untitled, crashes, damages>>

Turn(c) == step = "idle" /\ queue # <<>> /\ c = Head(queue)

WriteRefused(c) ==
  /\ Turn(c) /\ Refused(c)
  /\ Settle(FALSE)
  /\ UNCHANGED <<fileVars, content, deleted, acknowledged, kept, gone, failures>>

WriteSkipped(c) ==
  /\ Turn(c) /\ ~Refused(c) /\ Pointless(c)
  /\ Settle(TRUE)
  /\ UNCHANGED <<fileVars, content, deleted, acknowledged, kept, gone, failures>>

\* From here on a deletion may take the session away, whatever it reports.
WriteStarts(c) ==
  /\ Turn(c) /\ ~Refused(c) /\ ~Pointless(c)
  /\ content' = [stamp |-> c.n, sessions |-> Changed(Loaded.sessions, c)]
  /\ kept' = IF c.kind = "delete" THEN [kept EXCEPT ![c.session] = NotStored] ELSE kept
  /\ step' = "primary"
  /\ UNCHANGED <<fileVars, queue, deleted, asked, acknowledged, gone, clientVars, faultVars>>

\* A file is replaced as a whole: temporary file and rename.
PrimaryReplaced ==
  /\ step = "primary"
  /\ primary' = content
  /\ step' = "backup"
  /\ UNCHANGED <<backup, queue, content, deleted, asked, acknowledged, kept, gone,
                 clientVars, faultVars>>

BackupReplaced ==
  /\ step = "backup"
  /\ backup' = content
  /\ step' = "returning"
  /\ UNCHANGED <<primary, queue, content, deleted, asked, acknowledged, kept, gone,
                 clientVars, faultVars>>

\* Slip: what save() returned is not looked at.
WriteFailsUnnoticed ==
  /\ step \in {"primary", "backup"}
  /\ failures < MaxFailures
  /\ failures' = failures + 1
  /\ step' = "returning"
  /\ UNCHANGED <<fileVars, queue, content, deleted, asked, acknowledged, kept, gone,
                 clientVars, crashes, damages>>

\* save() returns FALSE and the change throws, with one file written or none.
WriteFails ==
  /\ step \in {"primary", "backup"}
  /\ failures < MaxFailures
  /\ failures' = failures + 1
  /\ Settle(FALSE)
  /\ UNCHANGED <<fileVars, content, deleted, acknowledged, kept, gone>>

WriteReturns(c) ==
  /\ step = "returning" /\ c = Head(queue)
  /\ acknowledged' = c.n
  /\ kept' = [kept EXCEPT ![c.session] =
       CASE c.kind = "save"    -> [@ EXCEPT !.by = c.n]
         [] c.kind = "summary" -> [@ EXCEPT !.summary = c.n]
         [] c.kind = "memory"  -> [@ EXCEPT !.memory = c.n]
         [] c.kind = "delete"  -> NotStored]
  /\ deleted' = IF c.kind = "delete" THEN deleted \cup {c.session} ELSE deleted
  /\ gone' = IF c.kind = "delete" THEN gone \cup {c.session} ELSE gone
  /\ Settle(TRUE)
  /\ UNCHANGED <<fileVars, content, failures>>

StoreStep ==
  \/ \E i \in DOMAIN queue :
       LET c == queue[i] IN
       WriteRefused(c) \/ WriteSkipped(c) \/ WriteStarts(c) \/ WriteReturns(c)
  \/ PrimaryReplaced \/ BackupReplaced \/ WriteFails

----------------------------------------------------------------------------
(* The user interface *)

SaveCopy(s) == Ask("save", s, carried[s], 0)

\* sendText: the copy with the new message is saved, then the run starts and
\* asks for the history.
Send(s) ==
  /\ run = NoRun /\ deleting = NoDeletion
  /\ view[s] \in {"fresh", "loaded"}
  /\ SaveCopy(s)
  /\ view' = [view EXCEPT ![s] = "loaded"]
  /\ untitled' = IF view[s] = "fresh" THEN untitled \cup {s} ELSE untitled
  /\ run' = [NoRun EXCEPT !.session = s, !.phase = "reading",
                          !.own = asked + 1, !.awaits = asked + 1]
  /\ UNCHANGED <<storeVars, carried, deleting, faultVars>>

\* The model-made title arrives some time after the first message.
Retitle(s) ==
  /\ s \in untitled /\ view[s] = "loaded"
  /\ untitled' = untitled \ {s}
  /\ SaveCopy(s)
  /\ UNCHANGED <<storeVars, view, carried, run, deleting, faultVars>>

\* A session chosen from the list is fetched; the copy carries its summary.
Load(s) ==
  /\ view[s] = "listed" /\ Settled(asked)
  /\ Loaded.sessions[s].by # 0
  /\ view' = [view EXCEPT ![s] = "loaded"]
  /\ carried' = [carried EXCEPT ![s] = Loaded.sessions[s].summary]
  /\ UNCHANGED <<storeVars, queue, asked, untitled, run, deleting, faultVars>>

\* The user confirms the dialog; whether a run is under way was asked when it
\* opened.  The route stops the runs of the session, waits up to three seconds
\* for them and then deletes.
Delete(s) ==
  /\ deleting = NoDeletion
  /\ view[s] \in {"listed", "loaded"}
  /\ deleting' = [session |-> s, phase |-> "aborting"]
  /\ run' = IF run.session = s /\ run.phase \in {"reading", "running", "settled"}
            THEN [run EXCEPT !.aborted = TRUE] ELSE run
  /\ UNCHANGED <<storeVars, queue, asked, view, carried, untitled, faultVars>>

DeleteWaited ==
  /\ deleting.phase = "aborting"
  /\ Ask("delete", deleting.session, 0, 0)
  /\ deleting' = [deleting EXCEPT !.phase = "asked"]
  /\ UNCHANGED <<storeVars, view, carried, untitled, run, faultVars>>

\* Only now does the user interface drop the session from its list.
Deleted ==
  /\ deleting.phase = "deleted"
  /\ view' = [view EXCEPT ![deleting.session] = "dropped"]
  /\ deleting' = NoDeletion
  /\ UNCHANGED <<storeVars, queue, asked, carried, untitled, run, faultVars>>

\* The list is read again and loses what is not on disk, unless that fails; a copy
\* on the screen stays.
DeleteRefused ==
  /\ deleting.phase = "refused" /\ Settled(asked)
  /\ \E lost \in SUBSET {s \in Session : Loaded.sessions[s].by = 0} :
       view' = [s \in Session |-> IF s \in lost /\ view[s] # "fresh" THEN "dropped" ELSE view[s]]
  /\ deleting' = NoDeletion
  /\ UNCHANGED <<storeVars, queue, asked, carried, untitled, run, faultVars>>

----------------------------------------------------------------------------
(* Runs and /compact *)

\* getAgentHistory
ReadHistory ==
  /\ run.phase = "reading" /\ Settled(run.awaits)
  /\ run' = [run EXCEPT !.phase = "running",
               !.seen = IF CanPersist THEN Loaded.sessions[run.session].by ELSE Missing]
  /\ UNCHANGED <<storeVars, queue, asked, view, carried, untitled, deleting, faultVars>>

\* The run succeeds: the terminal event is sent, then the summary and the memory
\* it made are persisted; nobody waits for that.
RunSucceeds(kind) ==
  /\ run.phase = "running" /\ ~run.aborted
  /\ CASE kind = "none" -> UNCHANGED <<queue, asked>>
       [] kind \in {"summary", "memory"} -> Ask(kind, run.session, 0, 0)
       [] kind = "both" ->
            /\ asked + 1 < MaxWrites
            /\ asked' = asked + 2
            /\ queue' = Append(Append(queue, Change(asked + 1, "summary", run.session, 0, 0)),
                              Change(asked + 2, "memory", run.session, 0, 0))
  /\ run' = [run EXCEPT !.phase = "settled"]
  /\ UNCHANGED <<storeVars, view, carried, untitled, deleting, faultVars>>

RunFails ==
  /\ run.phase \in {"reading", "running"}
  /\ run' = [run EXCEPT !.phase = "settled"]
  /\ UNCHANGED <<storeVars, queue, asked, view, carried, untitled, deleting, faultVars>>

\* chat.done or chat.error reaches the user interface, which saves its copy of a
\* session that is still in its list.
TerminalArrives ==
  /\ run.phase = "settled"
  /\ IF view[run.session] = "loaded" THEN SaveCopy(run.session) ELSE UNCHANGED <<queue, asked>>
  /\ run' = NoRun
  /\ UNCHANGED <<storeVars, view, carried, untitled, deleting, faultVars>>

Compact(s) ==
  /\ run = NoRun /\ view[s] = "loaded"
  /\ run' = [NoRun EXCEPT !.session = s, !.phase = "digesting", !.awaits = asked]
  /\ UNCHANGED <<storeVars, queue, asked, view, carried, untitled, deleting, faultVars>>

CompactReads ==
  /\ run.phase = "digesting" /\ Settled(run.awaits)
  /\ run' = IF Loaded.sessions[run.session].by = 0 THEN NoRun
            ELSE [run EXCEPT !.phase = "summarising", !.memory = Loaded.sessions[run.session].memory]
  /\ UNCHANGED <<storeVars, queue, asked, view, carried, untitled, deleting, faultVars>>

\* The transcript becomes the summary; the rest is what was read before.
CompactSaves ==
  /\ run.phase = "summarising"
  /\ Ask("save", run.session, asked + 1, run.memory)
  /\ run' = [run EXCEPT !.phase = "saving", !.awaits = asked + 1]
  /\ UNCHANGED <<storeVars, view, carried, untitled, deleting, faultVars>>

CompactReloads ==
  /\ run.phase = "reloading" /\ Settled(run.awaits)
  /\ carried' = [carried EXCEPT ![run.session] = Loaded.sessions[run.session].summary]
  /\ run' = NoRun
  /\ UNCHANGED <<storeVars, queue, asked, view, untitled, deleting, faultVars>>

ClientStep ==
  \/ \E s \in Session : Send(s) \/ Retitle(s) \/ Load(s) \/ Delete(s) \/ Compact(s)
  \/ DeleteWaited \/ Deleted \/ DeleteRefused
  \/ ReadHistory \/ RunFails \/ TerminalArrives
  \/ \E kind \in {"none", "summary", "memory", "both"} : RunSucceeds(kind)
  \/ CompactReads \/ CompactSaves \/ CompactReloads

----------------------------------------------------------------------------
(* The surroundings *)

\* The desktop dies and is started again.  The list on the screen is what load()
\* returns.
CrashAndRestart ==
  /\ crashes < MaxCrashes
  /\ crashes' = crashes + 1
  /\ queue' = <<>> /\ step' = "idle" /\ deleted' = {}
  /\ run' = NoRun /\ deleting' = NoDeletion /\ untitled' = {}
  /\ view' = [s \in Session |-> IF view[s] = "fresh" THEN "fresh"
                                ELSE IF Loaded.sessions[s].by # 0 THEN "listed"
                                ELSE "dropped"]
  /\ UNCHANGED <<fileVars, content, asked, acknowledged, carried, kept, gone,
                 failures, damages>>

Damage ==
  /\ damages < MaxDamages
  /\ damages' = damages + 1
  /\ \/ Readable(primary) /\ primary' = Damaged /\ UNCHANGED backup
     \/ Readable(backup) /\ backup' = Damaged /\ UNCHANGED primary
  /\ UNCHANGED <<queue, step, content, deleted, asked, acknowledged, kept, gone,
                 clientVars, failures, crashes>>

\* Every change was used up, or the user does nothing more.
Finished == queue = <<>> /\ (asked = MaxWrites \/ run = NoRun) /\ UNCHANGED vars

Next == StoreStep \/ ClientStep \/ CrashAndRestart \/ Damage \/ Finished

Spec == Init /\ [][Next]_vars

----------------------------------------------------------------------------
File   == List \cup {Missing, Damaged}
Kind   == {"save", "summary", "memory", "delete"}
Phases == {"none", "reading", "running", "settled",
           "digesting", "summarising", "saving", "reloading"}

\* Typing, with the facts that tie the variables together: who writes is at the
\* head of the queue, and a tombstone stands for a durable deletion only.
StoreTypeOK ==
  /\ primary \in File /\ backup \in File /\ content \in List
  /\ queue \in Seq([n : Nat, kind : Kind, session : Session, summary : Nat, memory : Nat])
  /\ step \in {"idle", "primary", "backup", "returning"}
  /\ step # "idle" => queue # <<>>
  /\ deleted \subseteq gone /\ gone \subseteq Session
  /\ asked \in Nat /\ acknowledged \in Nat
  /\ view \in [Session -> {"fresh", "listed", "loaded", "dropped"}]
  /\ carried \in [Session -> Nat] /\ untitled \subseteq Session
  /\ run \in [session : Session \cup {NoSession}, phase : Phases, own : Nat, awaits : Nat,
               seen : Nat \cup {Missing}, memory : Nat, aborted : BOOLEAN, saved : BOOLEAN]
  /\ run.phase # "none" => run.session \in Session
  /\ deleting \in [session : Session \cup {NoSession},
                    phase : {"none", "aborting", "asked", "deleted", "refused"}]
  /\ deleting.phase = "aborting" => deleting.session \in Session
  /\ kept \in [Session -> Stored]
  /\ failures \in Nat /\ crashes \in Nat /\ damages \in Nat

Files == {file \in {primary, backup} : Readable(file)}

\* A session that was durably deleted is in no file again, whatever was still
\* under way for it (a save sent before the answer, a run that would not stop, a
\* title, a /compact), also after a restart and whichever file is damaged.
DeletedForGood == \A s \in gone, file \in Files : file.sessions[s].by = 0

\* The store is well formed, and what was deleted from it stays deleted.
StoreInv == StoreTypeOK /\ DeletedForGood

\* Every acknowledged change is in each file that can be read: the messages (or
\* newer ones) and the memory of every session no deletion was tried of.  So one
\* damaged file costs nothing, even when the disk refuses writes in between and
\* the desktop dies between the two files.  Nor is the summary of a session ever
\* wiped, though a save can put an older one in its place.
EitherFileWillDo ==
  \A file \in Files :
    /\ file.stamp >= acknowledged
    /\ \A s \in Session :
         kept[s].by # 0 => /\ file.sessions[s].by >= kept[s].by
                           /\ file.sessions[s].memory >= kept[s].memory
                           /\ (kept[s].summary # 0 => file.sessions[s].summary # 0)

\* Why.  Changes settle in the order they were asked for.
ChangesInOrder ==
  /\ acknowledged <= asked
  /\ \A i \in DOMAIN queue : acknowledged < queue[i].n /\ queue[i].n <= asked
  /\ \A i, j \in DOMAIN queue : i < j => queue[i].n < queue[j].n

\* The list has what was acknowledged of s.
Keeps(list, s) ==
  /\ kept[s].by <= list.sessions[s].by
  /\ kept[s].memory <= list.sessions[s].memory
  /\ kept[s].summary # 0 => list.sessions[s].summary # 0

\* The list has what the change c brings.
Carries(list, c) ==
  /\ c.kind = "save"    => list.sessions[c.session].by = c.n
  /\ c.kind = "summary" => list.sessions[c.session].summary = c.n
  /\ c.kind = "memory"  => list.sessions[c.session].memory = c.n

\* A file whose turn is over holds what was written to it, if anything.
FilesWritten ==
  /\ step \in {"backup", "returning"} => primary \in {content, Damaged}
  /\ step = "returning" => backup \in {content, Damaged}

\* Whatever is in a file or on its way there keeps what was acknowledged, and is
\* older than the changes to come.
ListsKeep ==
  /\ \A s \in Session : /\ kept[s].by <= acknowledged /\ kept[s].memory <= acknowledged
                        /\ kept[s].summary <= acknowledged
  /\ primary = Missing => backup = Missing /\ acknowledged = 0
  /\ damages = 0 => Damaged \notin {primary, backup}
  /\ step # "idle" => /\ content.stamp = Head(queue).n /\ Carries(content, Head(queue))
                      /\ \A s \in Session : Keeps(content, s)
  /\ \A file \in Files :
       /\ acknowledged <= file.stamp /\ file.stamp <= asked
       /\ \A s \in Session : Keeps(file, s)
       /\ \A i \in DOMAIN queue :
            \/ file.stamp < queue[i].n
            \/ i = 1 /\ step \in {"backup", "returning"} /\ file = content

\* The memory a /compact puts back is none a run has replaced meanwhile: it read
\* it when every memory asked for before was settled, and no run goes on beside it.
MemoryPutBack ==
  /\ \A i \in DOMAIN queue : queue[i].kind = "save" /\ queue[i].memory # 0 =>
       /\ kept[queue[i].session].memory <= queue[i].memory
       /\ \A j \in 1..(i - 1) : queue[j].kind # "memory"
  /\ run.phase = "digesting" =>
       \A i \in DOMAIN queue : queue[i].kind = "memory" => queue[i].n <= run.awaits
  /\ run.phase = "summarising" =>
       /\ kept[run.session].memory <= run.memory
       /\ \A i \in DOMAIN queue : queue[i].kind # "memory"

\* The inductive invariant behind EitherFileWillDo and PairActsAtomically.
KeepInv == StoreTypeOK /\ ChangesInOrder /\ FilesWritten /\ ListsKeep /\ MemoryPutBack

\* A run nobody stopped knows the message it answers: the save sent just before
\* chat.start, once it is acknowledged, was in the history the run read (ipc.ts
\* 1124-1125), if there was a file to read.
HistoryIsCurrent ==
  run.phase = "running" /\ run.saved /\ ~run.aborted /\ run.seen # Missing
    => run.seen >= run.own

\* Why.  One deletion is under way at a time, and it stops the run of its session.
OneDeletion ==
  /\ \A i \in DOMAIN queue : queue[i].kind = "delete" =>
       deleting.phase = "asked" /\ deleting.session = queue[i].session
  /\ \A i, j \in DOMAIN queue : queue[i].kind = "delete" /\ queue[j].kind = "delete" => i = j
  /\ deleting.phase # "none" /\ run.session = deleting.session
     /\ run.phase \in {"reading", "running", "settled"} => run.aborted

\* The run waits for its own save, and what is acknowledged of its session from
\* then on is not older.
OwnSaveFirst ==
  /\ run.phase = "reading" =>
       /\ run.awaits = run.own /\ run.own <= asked
       /\ \A i \in DOMAIN queue : queue[i].n = run.own =>
            queue[i].kind = "save" /\ queue[i].session = run.session
       /\ run.saved => /\ \A i \in DOMAIN queue : run.own < queue[i].n
                       /\ run.aborted \/ run.own <= kept[run.session].by
  /\ run.phase = "running" =>
       run.own <= asked /\ \A i \in DOMAIN queue : run.own < queue[i].n

\* The inductive invariant behind HistoryIsCurrent, with KeepInv.
HistoryInv == OneDeletion /\ OwnSaveFirst /\ HistoryIsCurrent

Pair == INSTANCE DurableFile
          WITH content <- Loaded.stamp, promised <- acknowledged, intact <- damages = 0

\* As long as nothing damages them, the two files are one atomic file that keeps
\* what was acknowledged (the promise LedgerFile keeps in another way).
PairActsAtomically == Pair!Spec

\* ipc.ts 1093-1094, 1159-1160: the summary a run made is not lost by a save of
\* the user interface, before or after it.
SummaryKept ==
  \A file \in Files, s \in Session :
    kept[s].by # 0 => file.sessions[s].summary >= kept[s].summary
=============================================================================
