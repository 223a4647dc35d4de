------------------------- MODULE SessionStore_proofs -------------------------
(***************************************************************************)
(* Proofs about the session store, for any number of sessions, changes,    *)
(* refused writes, crashes and damaged files: what was durably deleted     *)
(* stays deleted; either file has everything that was acknowledged, and    *)
(* the two of them are one atomic file until one is damaged; and a run     *)
(* reads a history with the message it answers.                            *)
(***************************************************************************)
EXTENDS SessionStore, TLAPS

ChangeRecord == [n : Nat, kind : Kind, session : Session, summary : Nat, memory : Nat]

\* What a queue consists of after the change at its head is settled, or one more
\* was asked for.
LEMMA TailElements ==
  ASSUME NEW S, NEW q \in Seq(S), q # <<>>
  PROVE  /\ Head(q) \in S /\ Head(q) = q[1] /\ 1 \in DOMAIN q
         /\ Tail(q) \in Seq(S)
         /\ \A i \in DOMAIN Tail(q) : i + 1 \in DOMAIN q /\ Tail(q)[i] = q[i + 1]
OBVIOUS

LEMMA AppendElements ==
  ASSUME NEW S, NEW q \in Seq(S), NEW c \in S
  PROVE  /\ Append(q, c) \in Seq(S) /\ Append(q, c) # <<>>
         /\ q # <<>> => Head(Append(q, c)) = Head(q)
         /\ \A i \in DOMAIN Append(q, c) :
              \/ i \in DOMAIN q /\ Append(q, c)[i] = q[i]
              \/ Append(q, c)[i] = c
OBVIOUS

\* load() returns a list.
LEMMA LoadedIsList == StoreTypeOK => Loaded \in List
<1>1. EmptyList \in List
  BY DEF EmptyList, List, Stored, NotStored
<1> QED BY <1>1 DEF StoreTypeOK, Loaded, File, Readable

\* A change of one session in a list is a list.
LEMMA ChangedIsList ==
  ASSUME NEW sessions \in [Session -> Stored], NEW c \in ChangeRecord
  PROVE  /\ Changed(sessions, c) \in [Session -> Stored]
         /\ \A s \in Session : s # c.session => Changed(sessions, c)[s] = sessions[s]
         /\ c.kind = "delete" => Changed(sessions, c)[c.session].by = 0
         /\ c.kind \in {"summary", "memory"} =>
              Changed(sessions, c)[c.session].by = sessions[c.session].by
<1>1. c.session \in Session /\ sessions[c.session] \in Stored /\ c.kind \in Kind
  BY DEF ChangeRecord
<1>2. Merged(sessions[c.session], c) \in Stored /\ NotStored \in Stored
  BY <1>1 DEF Merged, Stored, ChangeRecord, NotStored
<1>3. /\ [sessions[c.session] EXCEPT !.summary = c.n] \in Stored
      /\ [sessions[c.session] EXCEPT !.memory = c.n] \in Stored
      /\ [sessions[c.session] EXCEPT !.summary = c.n].by = sessions[c.session].by
      /\ [sessions[c.session] EXCEPT !.memory = c.n].by = sessions[c.session].by
  BY <1>1 DEF Stored, ChangeRecord
<1>4. NotStored.by = 0
  BY DEF NotStored
<1>5. CASE c.kind = "save"
  BY <1>1, <1>2, <1>5 DEF Changed
<1>6. CASE c.kind = "summary"
  BY <1>1, <1>3, <1>6 DEF Changed
<1>7. CASE c.kind = "memory"
  BY <1>1, <1>3, <1>7 DEF Changed
<1>8. CASE c.kind = "delete"
  BY <1>1, <1>2, <1>4, <1>8 DEF Changed
<1> QED BY <1>1, <1>5, <1>6, <1>7, <1>8 DEF Kind

RunRecord == [session : Session \cup {NoSession}, phase : Phases, own : Nat, awaits : Nat,
              seen : Nat \cup {Missing}, memory : Nat, aborted : BOOLEAN, saved : BOOLEAN]
DeletionRecord == [session : Session \cup {NoSession},
                   phase : {"none", "aborting", "asked", "deleted", "refused"}]

LEMMA NullsTyped == /\ NoRun \in RunRecord /\ NoRun.phase = "none" /\ NoRun.session = NoSession
                    /\ NoDeletion \in DeletionRecord /\ NoDeletion.phase = "none"
                    /\ NoDeletion.session = NoSession
                    /\ NotStored \in Stored /\ EmptyList \in List
BY DEF NoRun, RunRecord, NoDeletion, DeletionRecord, Phases, NotStored, Stored, EmptyList, List

\* When a change settles the queue loses its head and whoever waited goes on.
Settling == \E ok \in BOOLEAN : Settle(ok)

SettledTyping ==
  /\ queue' \in Seq(ChangeRecord) /\ queue' = Tail(queue) /\ step' = "idle"
  /\ run' \in RunRecord /\ (run'.phase # "none" => run'.session \in Session)
  /\ run'.session = run.session \/ run' = NoRun
  /\ deleting' \in DeletionRecord
  /\ deleting'.session = deleting.session
  /\ (deleting'.phase = "aborting" => deleting.phase = "aborting" /\ deleting'.session \in Session)
  /\ UNCHANGED <<asked, view, carried, untitled, crashes, damages>>

LEMMA SettleTyped ==
  ASSUME StoreTypeOK, queue # <<>>, Settling
  PROVE  SettledTyping
<1> PICK ok \in BOOLEAN : Settle(ok)
  BY DEF Settling
<1>1. queue \in Seq(ChangeRecord) /\ Head(queue) \in ChangeRecord /\ Tail(queue) \in Seq(ChangeRecord)
  BY TailElements DEF StoreTypeOK, ChangeRecord
<1>2. run \in RunRecord /\ deleting \in DeletionRecord /\ asked \in Nat
      /\ (run.phase # "none" => run.session \in Session)
      /\ (deleting.phase = "aborting" => deleting.session \in Session)
  BY DEF StoreTypeOK, RunRecord, DeletionRecord
<1>3. /\ deleting' \in DeletionRecord /\ deleting'.session = deleting.session
      /\ (deleting'.phase = "aborting" => deleting.phase = "aborting" /\ deleting'.session \in Session)
  BY <1>2 DEF Settle, DeletionRecord
<1>4. run' \in RunRecord /\ (run'.phase # "none" => run'.session \in Session)
      /\ (run'.session = run.session \/ run' = NoRun)
  <2>1. CASE run.phase = "saving" /\ run.awaits = Head(queue).n
    <3>1. run' = [run EXCEPT !.phase = "reloading", !.awaits = asked] \/ run' = NoRun
      BY <2>1 DEF Settle
    <3> QED BY <1>2, <2>1, <3>1, NullsTyped DEF RunRecord, Phases
  <2>2. CASE ~(run.phase = "saving" /\ run.awaits = Head(queue).n)
    <3>1. run' = [run EXCEPT !.saved = run.saved \/ (run.own = Head(queue).n /\ ok)]
      BY <2>2 DEF Settle
    <3>2. (run.saved \/ (run.own = Head(queue).n /\ ok)) \in BOOLEAN
      OBVIOUS
    <3> QED BY <1>2, <3>1, <3>2 DEF RunRecord
  <2> QED BY <2>1, <2>2
<1> QED BY <1>1, <1>3, <1>4 DEF Settle, SettledTyping

\* One more change at the end of the queue.
LEMMA AskTyped ==
  ASSUME StoreTypeOK, NEW kind \in Kind, NEW s \in Session, NEW summary \in Nat, NEW memory \in Nat,
         Ask(kind, s, summary, memory)
  PROVE  /\ Change(asked + 1, kind, s, summary, memory) \in ChangeRecord
         /\ queue' = Append(queue, Change(asked + 1, kind, s, summary, memory))
         /\ queue' \in Seq(ChangeRecord) /\ queue' # <<>>
         /\ asked' = asked + 1 /\ asked' \in Nat
<1>1. Change(asked + 1, kind, s, summary, memory) \in ChangeRecord /\ asked \in Nat
  BY DEF Change, ChangeRecord, StoreTypeOK
<1>2. queue \in Seq(ChangeRecord)
  BY DEF StoreTypeOK, ChangeRecord
<1> QED BY <1>1, <1>2, AppendElements DEF Ask

LEMMA TypedInit == Init => StoreTypeOK
<1> SUFFICES ASSUME Init PROVE StoreTypeOK
  OBVIOUS
<1>1. queue \in Seq(ChangeRecord)
  BY DEF Init
<1> QED BY <1>1, NullsTyped DEF Init, StoreTypeOK, ChangeRecord, RunRecord, DeletionRecord, File

\* Typing of the variables a settling change, or the client, leaves behind.
LEMMA StoreStepTyped == StoreTypeOK /\ StoreStep => StoreTypeOK'
<1> SUFFICES ASSUME StoreTypeOK, StoreStep PROVE StoreTypeOK'
  OBVIOUS
<1>1. queue \in Seq(ChangeRecord)
  BY DEF StoreTypeOK, ChangeRecord
<1>2. Loaded \in List
  BY LoadedIsList
<1>3. CASE PrimaryReplaced
  BY <1>3 DEF PrimaryReplaced, StoreTypeOK, clientVars, faultVars, File
<1>4. CASE BackupReplaced
  BY <1>4 DEF BackupReplaced, StoreTypeOK, clientVars, faultVars, File
<1>5. ASSUME queue # <<>>, Settling, failures' \in Nat,
             UNCHANGED <<primary, backup, content, deleted, acknowledged, kept, gone>>
      PROVE  StoreTypeOK'
  <2>1. SettledTyping
    BY <1>5, SettleTyped
  <2> QED BY <1>5, <2>1
          DEF SettledTyping, StoreTypeOK, ChangeRecord, RunRecord, DeletionRecord
<1>6. ASSUME NEW i \in DOMAIN queue,
             WriteRefused(queue[i]) \/ WriteSkipped(queue[i]) \/ WriteFails
      PROVE  StoreTypeOK'
  <2>1. Settling
    BY <1>6 DEF WriteRefused, WriteSkipped, WriteFails, Settling
  <2>2. UNCHANGED <<primary, backup, content, deleted, acknowledged, kept, gone>>
    BY <1>6 DEF WriteRefused, WriteSkipped, WriteFails, fileVars
  <2>3. queue # <<>>
    BY <1>1
  <2>4. failures' = failures \/ failures' = failures + 1
    BY <1>6, Zenon DEF WriteRefused, WriteSkipped, WriteFails
  <2>5. failures' \in Nat
    <3>1. failures \in Nat
      BY DEF StoreTypeOK
    <3> HIDE <1>6
    <3> QED BY <2>4, <3>1
  <2> QED BY <1>5, <2>1, <2>2, <2>3, <2>5
<1>7. ASSUME NEW i \in DOMAIN queue, WriteStarts(queue[i])
      PROVE  StoreTypeOK'
  <2>1. queue[i] \in ChangeRecord /\ queue # <<>>
    BY <1>1
  <2>2. Loaded.sessions \in [Session -> Stored]
    BY <1>2 DEF List
  <2>3. content' \in List
    BY <1>7, <2>1, <2>2, ChangedIsList DEF WriteStarts, List, ChangeRecord
  <2>4. kept' \in [Session -> Stored]
    BY <1>7, <2>1, NullsTyped DEF WriteStarts, StoreTypeOK
  <2> QED BY <1>7, <2>1, <2>3, <2>4 DEF WriteStarts, StoreTypeOK, fileVars, clientVars, faultVars
<1>8. ASSUME NEW i \in DOMAIN queue, WriteReturns(queue[i])
      PROVE  StoreTypeOK'
  <2> DEFINE c == queue[i]
  <2>1. c \in ChangeRecord /\ queue # <<>>
    BY <1>1
  <2>4. SettledTyping
    <3>1. Settling
      BY <1>8 DEF WriteReturns, Settling
    <3> QED BY <2>1, <3>1, SettleTyped
  <2>5. UNCHANGED <<primary, backup, content, failures>>
    BY <1>8 DEF WriteReturns, fileVars
  <2>2. kept' \in [Session -> Stored]
    <3>1. kept[c.session] \in Stored /\ c.session \in Session /\ c.n \in Nat /\ c.kind \in Kind
      BY <2>1 DEF StoreTypeOK, ChangeRecord
    <3>2. /\ [kept[c.session] EXCEPT !.by = c.n] \in Stored
          /\ [kept[c.session] EXCEPT !.summary = c.n] \in Stored
          /\ [kept[c.session] EXCEPT !.memory = c.n] \in Stored
      BY <3>1 DEF Stored
    <3>3. \E stored \in Stored : kept' = [kept EXCEPT ![c.session] = stored]
      <4>1. CASE c.kind = "save"
        BY <1>8, <3>2, <4>1 DEF WriteReturns
      <4>2. CASE c.kind = "summary"
        BY <1>8, <3>2, <4>2 DEF WriteReturns
      <4>3. CASE c.kind = "memory"
        BY <1>8, <3>2, <4>3 DEF WriteReturns
      <4>4. CASE c.kind = "delete"
        BY <1>8, NullsTyped, <4>4 DEF WriteReturns
      <4> QED BY <3>1, <4>1, <4>2, <4>3, <4>4 DEF Kind
    <3> QED BY <3>3 DEF StoreTypeOK
  <2>3. acknowledged' \in Nat /\ deleted' \subseteq gone' /\ gone' \subseteq Session
    BY <1>8, <2>1 DEF WriteReturns, StoreTypeOK, ChangeRecord
  <2> QED BY <2>2, <2>3, <2>4, <2>5
          DEF SettledTyping, StoreTypeOK, ChangeRecord, RunRecord, DeletionRecord
<1>9. CASE WriteFails
  <2>1. queue # <<>> /\ 1 \in DOMAIN queue
    BY <1>1, <1>9, TailElements DEF WriteFails, StoreTypeOK
  <2> QED BY <1>6, <1>9, <2>1
<1> QED BY <1>3, <1>4, <1>6, <1>7, <1>8, <1>9 DEF StoreStep

\* A step that asks for no change.
Waiting == UNCHANGED <<queue, asked>>

LEMMA ClientStepTyped == StoreTypeOK /\ ClientStep => StoreTypeOK'
<1> SUFFICES ASSUME StoreTypeOK, ClientStep PROVE StoreTypeOK'
  OBVIOUS
<1>0. /\ run \in RunRecord /\ (run.phase # "none" => run.session \in Session)
      /\ deleting \in DeletionRecord /\ asked \in Nat /\ carried \in [Session -> Nat]
      /\ view \in [Session -> {"fresh", "listed", "loaded", "dropped"}]
      /\ queue \in Seq(ChangeRecord) /\ untitled \subseteq Session
      /\ Loaded \in List
  BY LoadedIsList DEF StoreTypeOK, RunRecord, DeletionRecord, ChangeRecord
<1>1. ASSUME UNCHANGED storeVars, UNCHANGED faultVars,
             queue' \in Seq(ChangeRecord), queue # <<>> => queue' # <<>>, asked' \in Nat,
             view' \in [Session -> {"fresh", "listed", "loaded", "dropped"}],
             carried' \in [Session -> Nat], untitled' \subseteq Session,
             run' \in RunRecord, run'.phase # "none" => run'.session \in Session,
             deleting' \in DeletionRecord,
             deleting'.phase = "aborting" => deleting'.session \in Session
      PROVE  StoreTypeOK'
  BY <1>1 DEF storeVars, faultVars, StoreTypeOK, ChangeRecord, RunRecord, DeletionRecord
<1>2. ASSUME NEW kind \in Kind, NEW s \in Session, NEW summary \in Nat, NEW memory \in Nat,
             Ask(kind, s, summary, memory)
      PROVE  queue' \in Seq(ChangeRecord) /\ queue' # <<>> /\ asked' \in Nat
  BY <1>2, AskTyped
<1>3. ASSUME NEW s \in Session, Send(s) PROVE StoreTypeOK'
  <2>1. queue' \in Seq(ChangeRecord) /\ queue' # <<>> /\ asked' \in Nat
    BY <1>0, <1>2, <1>3 DEF Send, SaveCopy, Kind
  <2>2. run' \in RunRecord /\ run'.session = s
    <3>1. run' = [NoRun EXCEPT !.session = s, !.phase = "reading",
                               !.own = asked + 1, !.awaits = asked + 1]
      BY <1>3, Zenon DEF Send
    <3>2. asked + 1 \in Nat
      BY <1>0
    <3> QED BY <3>1, <3>2, NullsTyped DEF RunRecord, Phases
  <2> QED BY <1>0, <1>1, <1>3, <2>1, <2>2, NullsTyped DEF Send
<1>4. ASSUME NEW s \in Session, Retitle(s) PROVE StoreTypeOK'
  <2>1. queue' \in Seq(ChangeRecord) /\ queue' # <<>> /\ asked' \in Nat
    BY <1>0, <1>2, <1>4 DEF Retitle, SaveCopy, Kind
  <2> QED BY <1>0, <1>1, <1>4, <2>1 DEF Retitle, StoreTypeOK
<1>5. ASSUME NEW s \in Session, Load(s) PROVE StoreTypeOK'
  <2>1. Loaded.sessions[s].summary \in Nat
    BY <1>0 DEF List, Stored
  <2> QED BY <1>0, <1>1, <1>5, <2>1 DEF Load, StoreTypeOK
<1>6. ASSUME NEW s \in Session, Delete(s) PROVE StoreTypeOK'
  <2>1. deleting' \in DeletionRecord /\ deleting'.session = s
    BY <1>6 DEF Delete, DeletionRecord
  <2>2. run' \in RunRecord /\ (run'.phase # "none" => run'.session \in Session)
    BY <1>0, <1>6 DEF Delete, RunRecord
  <2> QED BY <1>0, <1>1, <1>6, <2>1, <2>2 DEF Delete
<1>7. ASSUME NEW s \in Session, Compact(s) PROVE StoreTypeOK'
  <2>1. run' \in RunRecord /\ run'.session = s
    BY <1>0, <1>7, NullsTyped DEF Compact, RunRecord, Phases
  <2> QED BY <1>0, <1>1, <1>7, <2>1 DEF Compact, StoreTypeOK
<1>8. CASE DeleteWaited
  <2>1. queue' \in Seq(ChangeRecord) /\ queue' # <<>> /\ asked' \in Nat
    BY <1>0, <1>2, <1>8 DEF DeleteWaited, Kind, StoreTypeOK
  <2>2. deleting' \in DeletionRecord /\ deleting'.phase = "asked"
    BY <1>0, <1>8 DEF DeleteWaited, DeletionRecord
  <2> QED BY <1>0, <1>1, <1>8, <2>1, <2>2 DEF DeleteWaited
<1>9. CASE Deleted \/ DeleteRefused
  <2>1. view' \in [Session -> {"fresh", "listed", "loaded", "dropped"}]
    BY <1>0, <1>9 DEF Deleted, DeleteRefused
  <2>2. UNCHANGED <<storeVars, queue, asked, carried, untitled, run, faultVars>>
        /\ deleting' = NoDeletion
    BY <1>9, Zenon DEF Deleted, DeleteRefused
  <2> QED BY <1>0, <1>1, <2>1, <2>2, NullsTyped DEF StoreTypeOK
<1>10. CASE ReadHistory
  <2>1. Loaded.sessions[run.session].by \in Nat
    BY <1>0, <1>10 DEF ReadHistory, List, Stored
  <2>2. run' \in RunRecord /\ run'.session = run.session
    BY <1>0, <1>10, <2>1 DEF ReadHistory, RunRecord, Phases
  <2> QED BY <1>0, <1>1, <1>10, <2>2 DEF ReadHistory, StoreTypeOK
<1>11. CASE RunFails
  <2>1. run' \in RunRecord /\ run'.session = run.session
    BY <1>0, <1>11 DEF RunFails, RunRecord, Phases
  <2> QED BY <1>0, <1>1, <1>11, <2>1 DEF RunFails, StoreTypeOK
<1>12. CASE TerminalArrives
  <2>1. queue' \in Seq(ChangeRecord) /\ (queue # <<>> => queue' # <<>>) /\ asked' \in Nat
    <3>1. run.session \in Session
      BY <1>0, <1>12 DEF TerminalArrives
    <3>2. CASE view[run.session] = "loaded"
      <4>1. Ask("save", run.session, carried[run.session], 0)
        BY <1>12, <3>2, Zenon DEF TerminalArrives, SaveCopy
      <4>2. carried[run.session] \in Nat
        BY <1>0, <3>1
      <4> QED BY <1>2, <3>1, <4>1, <4>2 DEF Kind
    <3>3. CASE view[run.session] # "loaded"
      <4>1. UNCHANGED <<queue, asked>>
        BY <1>12, <3>3, Zenon DEF TerminalArrives
      <4> QED BY <1>0, <4>1
    <3> QED BY <3>2, <3>3
  <2> QED BY <1>0, <1>1, <1>12, <2>1, NullsTyped DEF TerminalArrives, StoreTypeOK
<1>13. ASSUME NEW kind \in {"none", "summary", "memory", "both"}, RunSucceeds(kind)
       PROVE  StoreTypeOK'
  <2>1. run.session \in Session
    BY <1>0, <1>13 DEF RunSucceeds
  <2>2. queue' \in Seq(ChangeRecord) /\ (queue # <<>> => queue' # <<>>) /\ asked' \in Nat
    <3>1. CASE kind = "none"
      BY <1>0, <1>13, <3>1 DEF RunSucceeds
    <3>2. CASE kind \in {"summary", "memory"}
      BY <1>0, <1>2, <1>13, <2>1, <3>2 DEF RunSucceeds, Kind
    <3>3. CASE kind = "both"
      <4>1. Change(asked + 1, "summary", run.session, 0, 0) \in ChangeRecord
            /\ Change(asked + 2, "memory", run.session, 0, 0) \in ChangeRecord
        BY <1>0, <2>1 DEF Change, ChangeRecord, Kind
      <4>2. Append(queue, Change(asked + 1, "summary", run.session, 0, 0)) \in Seq(ChangeRecord)
        BY <1>0, <4>1, AppendElements
      <4>3. /\ queue' = Append(Append(queue, Change(asked + 1, "summary", run.session, 0, 0)),
                              Change(asked + 2, "memory", run.session, 0, 0))
            /\ asked' = asked + 2
        BY <1>13, <3>3 DEF RunSucceeds
      <4>4. asked' \in Nat
        BY <1>0, <4>3
      <4>5. queue' \in Seq(ChangeRecord) /\ queue' # <<>>
        BY <4>1, <4>2, <4>3, AppendElements
      <4> QED BY <4>4, <4>5
    <3> QED BY <3>1, <3>2, <3>3
  <2>3. run' \in RunRecord /\ run'.session = run.session
    <3>1. run' = [run EXCEPT !.phase = "settled"]
      BY <1>13, Zenon DEF RunSucceeds
    <3> QED BY <1>0, <3>1 DEF RunRecord, Phases
  <2> QED BY <1>0, <1>1, <1>13, <2>1, <2>2, <2>3 DEF RunSucceeds, StoreTypeOK
<1>14. CASE CompactReads
  <2>1. Loaded.sessions[run.session].memory \in Nat /\ run.session \in Session
    BY <1>0, <1>14 DEF CompactReads, List, Stored
  <2>2. run' \in RunRecord /\ (run'.phase # "none" => run'.session \in Session)
    BY <1>0, <1>14, <2>1, NullsTyped DEF CompactReads, RunRecord, Phases
  <2> QED BY <1>0, <1>1, <1>14, <2>2 DEF CompactReads, StoreTypeOK
<1>15. CASE CompactSaves
  <2>1. queue' \in Seq(ChangeRecord) /\ queue' # <<>> /\ asked' \in Nat
    <3>1. run.session \in Session /\ run.memory \in Nat /\ asked + 1 \in Nat
      BY <1>0, <1>15 DEF CompactSaves, RunRecord
    <3> QED BY <1>2, <1>15, <3>1 DEF CompactSaves, Kind
  <2>2. run' \in RunRecord /\ run'.session = run.session
    <3>1. run' = [run EXCEPT !.phase = "saving", !.awaits = asked + 1]
      BY <1>15, Zenon DEF CompactSaves
    <3>2. asked + 1 \in Nat
      BY <1>0
    <3> QED BY <1>0, <3>1, <3>2 DEF RunRecord, Phases
  <2> QED BY <1>0, <1>1, <1>15, <2>1, <2>2 DEF CompactSaves, StoreTypeOK
<1>16. CASE CompactReloads
  <2>1. Loaded.sessions[run.session].summary \in Nat
    BY <1>0, <1>16 DEF CompactReloads, List, Stored
  <2> QED BY <1>0, <1>1, <1>16, <2>1, NullsTyped DEF CompactReloads, StoreTypeOK
<1> QED BY <1>3, <1>4, <1>5, <1>6, <1>7, <1>8, <1>9, <1>10, <1>11, <1>12, <1>13, <1>14,
          <1>15, <1>16 DEF ClientStep

LEMMA SurroundingsTyped == StoreTypeOK /\ (CrashAndRestart \/ Damage) => StoreTypeOK'
<1> SUFFICES ASSUME StoreTypeOK, CrashAndRestart \/ Damage PROVE StoreTypeOK'
  OBVIOUS
<1>1. CASE CrashAndRestart
  <2>1. queue' \in Seq(ChangeRecord)
    BY <1>1 DEF CrashAndRestart
  <2>2. view' \in [Session -> {"fresh", "listed", "loaded", "dropped"}]
    BY <1>1 DEF CrashAndRestart
  <2>3. run' \in RunRecord /\ run'.phase = "none" /\ deleting' \in DeletionRecord
        /\ deleting'.phase = "none"
    BY <1>1, NullsTyped DEF CrashAndRestart
  <2>4. crashes' \in Nat /\ step' = "idle" /\ deleted' = {} /\ untitled' = {}
    BY <1>1 DEF CrashAndRestart, StoreTypeOK
  <2>5. UNCHANGED <<primary, backup, content, asked, acknowledged, carried, kept, gone,
                    failures, damages>>
    BY <1>1 DEF CrashAndRestart, fileVars
  <2> QED BY <2>1, <2>2, <2>3, <2>4, <2>5
          DEF StoreTypeOK, ChangeRecord, RunRecord, DeletionRecord
<1>2. CASE Damage
  BY <1>2 DEF Damage, StoreTypeOK, clientVars, File
<1> QED BY <1>1, <1>2

\* Typing, and what ties the variables together: only the change at the head of
\* the queue writes, and a tombstone stands for a durable deletion.
THEOREM StoreTyping == Spec => []StoreTypeOK
<1>1. StoreTypeOK /\ [Next]_vars => StoreTypeOK'
  <2> SUFFICES ASSUME StoreTypeOK, [Next]_vars PROVE StoreTypeOK'
    OBVIOUS
  <2>1. CASE UNCHANGED vars
    BY <2>1 DEF vars, storeVars, clientVars, faultVars, StoreTypeOK
  <2>2. CASE Finished
    BY <2>2 DEF Finished, vars, storeVars, clientVars, faultVars, StoreTypeOK
  <2> QED BY <2>1, <2>2, StoreStepTyped, ClientStepTyped, SurroundingsTyped DEF Next
<1> QED BY <1>1, TypedInit, PTL DEF Spec

----------------------------------------------------------------------------
\* The list being written contains no deleted session, nor the one a deletion
\* that is running takes away.
WritingWithoutGone ==
  step # "idle" =>
    /\ \A s \in gone : content.sessions[s].by = 0
    /\ Head(queue).kind = "delete" => content.sessions[Head(queue).session].by = 0

\* After a restart the tombstones are gone; but then nobody is left who would
\* save a session deleted before.
NoWayBack ==
  \A s \in gone \ deleted :
    /\ view[s] = "dropped" /\ run.session # s
    /\ \A i \in DOMAIN queue : queue[i].kind = "save" => queue[i].session # s

\* No session is deleted or changed before the user interface has had it.
KnownOnly ==
  /\ \A s \in gone : view[s] # "fresh"
  /\ \A i \in DOMAIN queue : view[queue[i].session] # "fresh"
  /\ \A s \in Session : run.session = s => view[s] # "fresh"
  /\ deleting.phase = "aborting" => view[deleting.session] # "fresh"

GoneInv == StoreTypeOK /\ DeletedForGood /\ WritingWithoutGone /\ FilesWritten /\ NoWayBack /\ KnownOnly

\* What load() returns contains no deleted session.
LEMMA LoadedWithoutGone ==
  ASSUME StoreTypeOK, DeletedForGood
  PROVE  \A s \in gone : Loaded.sessions[s].by = 0
<1> SUFFICES ASSUME NEW s \in gone PROVE Loaded.sessions[s].by = 0
  OBVIOUS
<1>1. s \in Session
  BY DEF StoreTypeOK
<1>2. EmptyList.sessions[s].by = 0
  BY <1>1 DEF EmptyList, NotStored
<1> QED BY <1>2 DEF Loaded, DeletedForGood, Files

----------------------------------------------------------------------------
\* What a client may add to the queue: a save only of a session it has, or of
\* the one its run is about.
Joins(c) ==
  /\ c \in ChangeRecord /\ view'[c.session] # "fresh"
  /\ c.kind = "save" => c.session = run.session \/ view'[c.session] = "loaded"

QueueGrows ==
  /\ \A i \in DOMAIN queue' : (i \in DOMAIN queue /\ queue'[i] = queue[i]) \/ Joins(queue'[i])
  /\ queue # <<>> => Head(queue') = Head(queue)

\* What a client may do to its own copies, its run and its deletion.
ViewsKept ==
  \A s \in Session : /\ view[s] # "fresh" => view'[s] # "fresh"
                     /\ view[s] = "dropped" => view'[s] = "dropped"
RunKnown == \A s \in Session : run'.session = s => run.session = s \/ view'[s] = "loaded"
DeletionKnown == deleting'.phase = "aborting" =>
                   deleting'.session \in Session /\ view'[deleting'.session] # "fresh"

ClientChange == UNCHANGED storeVars /\ QueueGrows /\ ViewsKept /\ RunKnown /\ DeletionKnown

LEMMA AskJoins ==
  ASSUME StoreTypeOK, NEW kind \in Kind, NEW s \in Session, NEW summary \in Nat, NEW memory \in Nat,
         Ask(kind, s, summary, memory), view'[s] # "fresh",
         kind = "save" => s = run.session \/ view'[s] = "loaded"
  PROVE  QueueGrows
<1> DEFINE c == Change(asked + 1, kind, s, summary, memory)
<1>1. c \in ChangeRecord /\ queue' = Append(queue, c)
  BY AskTyped
<1>2. c.kind = kind /\ c.session = s
  BY DEF Change
<1>3. Joins(c)
  BY <1>1, <1>2 DEF Joins
<1>4. queue \in Seq(ChangeRecord)
  BY DEF StoreTypeOK, ChangeRecord
<1> HIDE DEF c
<1> QED BY <1>1, <1>3, <1>4, AppendElements DEF QueueGrows

\* A client that follows these rules keeps the invariant.
LEMMA ClientChangeKeepsGone == GoneInv /\ StoreTypeOK' /\ ClientChange => GoneInv'
<1> SUFFICES ASSUME GoneInv, StoreTypeOK', ClientChange PROVE GoneInv'
  OBVIOUS
<1>1. /\ UNCHANGED <<primary, backup, step, content, deleted, gone>>
      /\ gone \subseteq Session
      /\ step # "idle" => queue # <<>>
  BY DEF ClientChange, storeVars, GoneInv, StoreTypeOK
<1>2. DeletedForGood' /\ FilesWritten'
  BY <1>1 DEF GoneInv, DeletedForGood, Files, Readable, FilesWritten
<1>3. WritingWithoutGone'
  BY <1>1 DEF GoneInv, WritingWithoutGone, ClientChange, QueueGrows
<1>4. NoWayBack'
  <2> SUFFICES ASSUME NEW s \in gone \ deleted
               PROVE  /\ view'[s] = "dropped" /\ run'.session # s
                      /\ \A i \in DOMAIN queue' : queue'[i].kind = "save" => queue'[i].session # s
    BY <1>1 DEF NoWayBack
  <2>1. s \in Session /\ view[s] = "dropped" /\ run.session # s
        /\ \A i \in DOMAIN queue : queue[i].kind = "save" => queue[i].session # s
    BY <1>1 DEF GoneInv, NoWayBack
  <2>2. view'[s] = "dropped"
    BY <2>1 DEF ClientChange, ViewsKept
  <2>3. run'.session # s
    BY <2>1, <2>2 DEF ClientChange, RunKnown
  <2> QED BY <2>1, <2>2, <2>3 DEF ClientChange, QueueGrows, Joins
<1>5. KnownOnly'
  <2>1. \A s \in gone' : view'[s] # "fresh"
    BY <1>1 DEF GoneInv, KnownOnly, ClientChange, ViewsKept
  <2>2. ASSUME NEW i \in DOMAIN queue' PROVE view'[queue'[i].session] # "fresh"
    <3>1. CASE i \in DOMAIN queue /\ queue'[i] = queue[i]
      <4>1. queue[i].session \in Session
        <5>1. queue \in Seq(ChangeRecord)
          BY DEF GoneInv, StoreTypeOK, ChangeRecord
        <5>2. queue[i] \in ChangeRecord
          BY <3>1, <5>1
        <5> QED BY <5>2 DEF ChangeRecord
      <4> QED BY <3>1, <4>1 DEF GoneInv, KnownOnly, ClientChange, ViewsKept
    <3>2. CASE Joins(queue'[i])
      BY <3>2 DEF Joins
    <3> QED BY <3>1, <3>2 DEF ClientChange, QueueGrows
  <2>3. \A s \in Session : run'.session = s => view'[s] # "fresh"
    BY DEF GoneInv, KnownOnly, ClientChange, ViewsKept, RunKnown
  <2> QED BY <2>1, <2>2, <2>3 DEF KnownOnly, ClientChange, DeletionKnown
<1> QED BY <1>2, <1>3, <1>4, <1>5 DEF GoneInv

\* Every step of a client follows the rules.
LEMMA ClientStepChanges == GoneInv /\ ClientStep => ClientChange
<1> SUFFICES ASSUME GoneInv, ClientStep PROVE ClientChange
  OBVIOUS
<1>0. /\ StoreTypeOK /\ run \in RunRecord /\ (run.phase # "none" => run.session \in Session)
      /\ deleting \in DeletionRecord /\ asked \in Nat /\ carried \in [Session -> Nat]
      /\ view \in [Session -> {"fresh", "listed", "loaded", "dropped"}]
      /\ queue \in Seq(ChangeRecord)
      /\ (deleting.phase = "aborting" =>
            deleting.session \in Session /\ view[deleting.session] # "fresh")
      /\ \A s \in Session : run.session = s => view[s] # "fresh"
  BY DEF GoneInv, KnownOnly, StoreTypeOK, RunRecord, DeletionRecord, ChangeRecord
<1>1. UNCHANGED storeVars
  BY DEF ClientStep, Send, Retitle, Load, Delete, Compact, DeleteWaited, Deleted, DeleteRefused, ReadHistory,
         RunFails, TerminalArrives, RunSucceeds, CompactReads, CompactSaves, CompactReloads
<1>2. Waiting => QueueGrows
  BY DEF Waiting, QueueGrows
<1>3. UNCHANGED view => ViewsKept
  BY DEF ViewsKept
<1>4. run'.session = run.session \/ run' = NoRun => RunKnown
  BY NullsTyped, StoreConstants DEF RunKnown
<1>5. UNCHANGED deleting /\ ViewsKept => DeletionKnown
  BY <1>0 DEF DeletionKnown, ViewsKept
<1>6. ASSUME NEW s \in Session, Send(s) PROVE ClientChange
  <2>1. Ask("save", s, carried[s], 0) /\ carried[s] \in Nat
    BY <1>0, <1>6, Zenon DEF Send, SaveCopy
  <2>2. view' = [view EXCEPT ![s] = "loaded"] /\ view[s] \in {"fresh", "loaded"} /\ UNCHANGED deleting
    BY <1>6, Zenon DEF Send
  <2>3. run'.session = s
    <3>1. run' = [NoRun EXCEPT !.session = s, !.phase = "reading",
                               !.own = asked + 1, !.awaits = asked + 1]
      BY <1>6, Zenon DEF Send
    <3> QED BY <3>1 DEF NoRun
  <2>4. view'[s] = "loaded" /\ ViewsKept
    BY <1>0, <2>2 DEF ViewsKept
  <2>5. QueueGrows
    BY <1>0, <2>1, <2>4, AskJoins DEF Kind
  <2>6. RunKnown
    BY <2>3, <2>4 DEF RunKnown
  <2> QED BY <1>1, <1>5, <2>2, <2>4, <2>5, <2>6 DEF ClientChange
<1>7. ASSUME NEW s \in Session, Retitle(s) PROVE ClientChange
  <2>1. Ask("save", s, carried[s], 0) /\ carried[s] \in Nat
    BY <1>0, <1>7, Zenon DEF Retitle, SaveCopy
  <2>2. view[s] = "loaded" /\ UNCHANGED <<view, run, deleting>>
    BY <1>7, Zenon DEF Retitle
  <2>3. QueueGrows
    BY <1>0, <2>1, <2>2, AskJoins DEF Kind
  <2> QED BY <1>1, <1>3, <1>4, <1>5, <2>2, <2>3 DEF ClientChange
<1>8. ASSUME NEW s \in Session, Load(s) PROVE ClientChange
  <2>1. view' = [view EXCEPT ![s] = "loaded"] /\ view[s] = "listed"
        /\ UNCHANGED <<queue, asked, run, deleting>>
    BY <1>8, Zenon DEF Load
  <2>2. ViewsKept
    BY <1>0, <2>1 DEF ViewsKept
  <2> QED BY <1>1, <1>2, <1>4, <1>5, <2>1, <2>2 DEF ClientChange, Waiting
<1>9. ASSUME NEW s \in Session, Delete(s) PROVE ClientChange
  <2>1. deleting' = [session |-> s, phase |-> "aborting"] /\ view[s] \in {"listed", "loaded"}
        /\ UNCHANGED <<queue, asked, view>>
    BY <1>9, Zenon DEF Delete
  <2>2. run'.session = run.session
    BY <1>0, <1>9 DEF Delete, RunRecord
  <2>3. DeletionKnown
    BY <2>1 DEF DeletionKnown
  <2> QED BY <1>1, <1>2, <1>3, <1>4, <2>1, <2>2, <2>3 DEF ClientChange, Waiting
<1>10. ASSUME NEW s \in Session, Compact(s) PROVE ClientChange
  <2>1. view[s] = "loaded" /\ UNCHANGED <<queue, asked, view, deleting>>
    BY <1>10, Zenon DEF Compact
  <2>2. run'.session = s
    <3>1. run' = [NoRun EXCEPT !.session = s, !.phase = "digesting", !.awaits = asked]
      BY <1>10, Zenon DEF Compact
    <3> QED BY <3>1 DEF NoRun
  <2>3. RunKnown
    BY <2>1, <2>2 DEF RunKnown
  <2> QED BY <1>1, <1>2, <1>3, <1>5, <2>1, <2>3 DEF ClientChange, Waiting
<1>11. CASE DeleteWaited
  <2>1. Ask("delete", deleting.session, 0, 0) /\ deleting.phase = "aborting"
        /\ UNCHANGED <<view, run>>
    BY <1>11, Zenon DEF DeleteWaited
  <2>2. deleting'.phase = "asked"
    BY <1>0, <1>11 DEF DeleteWaited, DeletionRecord
  <2>3. DeletionKnown
    BY <2>2 DEF DeletionKnown
  <2>4. QueueGrows
    <3>1. deleting.session \in Session /\ view'[deleting.session] # "fresh"
      BY <1>0, <2>1
    <3> QED BY <1>0, <2>1, <3>1, AskJoins DEF Kind
  <2> QED BY <1>1, <1>3, <1>4, <2>1, <2>3, <2>4 DEF ClientChange
<1>12. CASE Deleted \/ DeleteRefused
  <2>1. UNCHANGED <<queue, asked, run>> /\ deleting' = NoDeletion
    BY <1>12, Zenon DEF Deleted, DeleteRefused
  <2>2. ViewsKept
    <3>1. CASE Deleted
      BY <1>0, <3>1 DEF Deleted, ViewsKept
    <3>2. CASE DeleteRefused
      BY <1>0, <3>2 DEF DeleteRefused, ViewsKept
    <3> QED BY <1>12, <3>1, <3>2
  <2>3. DeletionKnown
    BY <2>1, NullsTyped DEF DeletionKnown
  <2> QED BY <1>1, <1>2, <1>4, <2>1, <2>2, <2>3 DEF ClientChange, Waiting
<1>13. CASE ReadHistory \/ RunFails \/ CompactReads \/ CompactReloads
  <2>1. UNCHANGED <<queue, asked, view, deleting>>
    BY <1>13, Zenon DEF ReadHistory, RunFails, CompactReads, CompactReloads
  <2>2. run'.session = run.session \/ run' = NoRun
    BY <1>0, <1>13 DEF ReadHistory, RunFails, CompactReads, CompactReloads, RunRecord
  <2> QED BY <1>1, <1>2, <1>3, <1>4, <1>5, <2>1, <2>2 DEF ClientChange, Waiting
<1>14. CASE TerminalArrives
  <2>1. run' = NoRun /\ run.phase = "settled" /\ UNCHANGED <<view, deleting>>
    BY <1>14, Zenon DEF TerminalArrives
  <2>2. QueueGrows
    <3>1. run.session \in Session /\ carried[run.session] \in Nat
      BY <1>0, <2>1
    <3>2. CASE view[run.session] = "loaded"
      <4>1. Ask("save", run.session, carried[run.session], 0)
        BY <1>14, <3>2, Zenon DEF TerminalArrives, SaveCopy
      <4> QED BY <1>0, <2>1, <3>1, <3>2, <4>1, AskJoins DEF Kind
    <3>3. CASE view[run.session] # "loaded"
      <4>1. Waiting
        BY <1>14, <3>3, Zenon DEF TerminalArrives, Waiting
      <4> QED BY <1>2, <4>1
    <3> QED BY <3>2, <3>3
  <2> QED BY <1>1, <1>3, <1>4, <1>5, <2>1, <2>2 DEF ClientChange
<1>15. ASSUME NEW kind \in {"none", "summary", "memory", "both"}, RunSucceeds(kind)
       PROVE  ClientChange
  <2>1. run' = [run EXCEPT !.phase = "settled"] /\ run.phase = "running" /\ UNCHANGED <<view, deleting>>
    BY <1>15, Zenon DEF RunSucceeds
  <2>2. run'.session = run.session
    BY <1>0, <2>1 DEF RunRecord
  <2>3. run.session \in Session /\ view'[run.session] # "fresh"
    BY <1>0, <2>1
  <2>4. QueueGrows
    <3>1. CASE kind = "none"
      BY <1>2, <1>15, <3>1 DEF RunSucceeds, Waiting
    <3>2. CASE kind \in {"summary", "memory"}
      <4>1. Ask(kind, run.session, 0, 0)
        BY <1>15, <3>2 DEF RunSucceeds
      <4> QED BY <1>0, <2>3, <3>2, <4>1, AskJoins DEF Kind
    <3>3. CASE kind = "both"
      <4> DEFINE c == Change(asked + 1, "summary", run.session, 0, 0)
                 d == Change(asked + 2, "memory", run.session, 0, 0)
      <4>1. queue' = Append(Append(queue, c), d)
        BY <1>15, <3>3 DEF RunSucceeds
      <4>2. c \in ChangeRecord /\ d \in ChangeRecord
        BY <1>0, <2>3 DEF Change, ChangeRecord, Kind
      <4>3. Joins(c) /\ Joins(d)
        BY <2>3, <4>2 DEF Joins, Change
      <4> HIDE DEF c, d
      <4>4. Append(queue, c) \in Seq(ChangeRecord) /\ Append(queue, c) # <<>>
            /\ (queue # <<>> => Head(Append(queue, c)) = Head(queue))
            /\ \A i \in DOMAIN Append(queue, c) :
                 (i \in DOMAIN queue /\ Append(queue, c)[i] = queue[i]) \/ Append(queue, c)[i] = c
        BY <1>0, <4>2, AppendElements
      <4>5. /\ Head(queue') = Head(Append(queue, c))
            /\ \A i \in DOMAIN queue' :
                 (i \in DOMAIN Append(queue, c) /\ queue'[i] = Append(queue, c)[i]) \/ queue'[i] = d
        BY <4>1, <4>2, <4>4, AppendElements
      <4> QED BY <4>3, <4>4, <4>5 DEF QueueGrows
    <3> QED BY <3>1, <3>2, <3>3
  <2> QED BY <1>1, <1>3, <1>4, <1>5, <2>1, <2>2, <2>4 DEF ClientChange
<1>16. CASE CompactSaves
  <2>1. Ask("save", run.session, asked + 1, run.memory) /\ run.phase = "summarising"
        /\ run' = [run EXCEPT !.phase = "saving", !.awaits = asked + 1]
        /\ UNCHANGED <<view, deleting>>
    BY <1>16, Zenon DEF CompactSaves
  <2>2. run'.session = run.session
    BY <1>0, <2>1 DEF RunRecord
  <2>3. run.session \in Session /\ view'[run.session] # "fresh"
        /\ run.memory \in Nat /\ asked + 1 \in Nat
    BY <1>0, <2>1 DEF RunRecord
  <2>4. QueueGrows
    BY <1>0, <2>1, <2>3, AskJoins DEF Kind
  <2> QED BY <1>1, <1>3, <1>4, <1>5, <2>1, <2>2, <2>4 DEF ClientChange
<1> QED BY <1>6, <1>7, <1>8, <1>9, <1>10, <1>11, <1>12, <1>13, <1>14, <1>15, <1>16 DEF ClientStep

\* When a change settles nobody new can bring a session back: whoever waited goes
\* on with the session it had.
LEMMA SettlingKeepsGone ==
  ASSUME GoneInv, queue # <<>>, SettledTyping, gone' \ deleted' \subseteq gone \ deleted,
         \A s \in gone' : s \in gone \/ (s \in Session /\ view[s] # "fresh")
  PROVE  NoWayBack' /\ KnownOnly' /\ WritingWithoutGone' /\ FilesWritten'
<1>1. queue \in Seq(ChangeRecord) /\ gone \subseteq Session
      /\ (deleting.phase = "aborting" => deleting.session \in Session)
  BY DEF GoneInv, StoreTypeOK, ChangeRecord
<1>2. /\ queue' = Tail(queue) /\ step' = "idle" /\ view' = view
      /\ (run'.session = run.session \/ run' = NoRun)
      /\ deleting'.session = deleting.session
      /\ (deleting'.phase = "aborting" => deleting.phase = "aborting")
  BY DEF SettledTyping
<1>3. \A i \in DOMAIN queue' : i + 1 \in DOMAIN queue /\ queue'[i] = queue[i + 1]
  BY <1>1, <1>2, TailElements
<1>4. NoWayBack'
  <2> SUFFICES ASSUME NEW s \in gone \ deleted
               PROVE  /\ view'[s] = "dropped" /\ run'.session # s
                      /\ \A i \in DOMAIN queue' : queue'[i].kind = "save" => queue'[i].session # s
    BY DEF NoWayBack
  <2>1. s \in Session /\ view[s] = "dropped" /\ run.session # s
        /\ \A i \in DOMAIN queue : queue[i].kind = "save" => queue[i].session # s
    BY <1>1 DEF GoneInv, NoWayBack
  <2>2. run'.session # s
    BY <1>2, <2>1, NullsTyped, StoreConstants
  <2> QED BY <1>2, <1>3, <2>1, <2>2
<1>5. KnownOnly'
  <2>1. \A s \in gone' : view'[s] # "fresh"
    BY <1>2 DEF GoneInv, KnownOnly
  <2>2. \A i \in DOMAIN queue' : view'[queue'[i].session] # "fresh"
    BY <1>2, <1>3 DEF GoneInv, KnownOnly
  <2>3. \A s \in Session : run'.session = s => view'[s] # "fresh"
    BY <1>2, NullsTyped, StoreConstants DEF GoneInv, KnownOnly
  <2>4. deleting'.phase = "aborting" => view'[deleting'.session] # "fresh"
    BY <1>2 DEF GoneInv, KnownOnly
  <2> QED BY <2>1, <2>2, <2>3, <2>4 DEF KnownOnly
<1> QED BY <1>2, <1>4, <1>5 DEF WritingWithoutGone, FilesWritten

LEMMA StoreStepKeepsGone == GoneInv /\ StoreTypeOK' /\ StoreStep => GoneInv'
<1> SUFFICES ASSUME GoneInv, StoreTypeOK', StoreStep PROVE GoneInv'
  OBVIOUS
<1>0. /\ StoreTypeOK /\ DeletedForGood /\ queue \in Seq(ChangeRecord)
      /\ gone \subseteq Session /\ deleted \subseteq gone /\ content \in List
  BY DEF GoneInv, StoreTypeOK, ChangeRecord
<1>1. ASSUME NEW i \in DOMAIN queue,
             WriteRefused(queue[i]) \/ WriteSkipped(queue[i]) \/ WriteFails
      PROVE  GoneInv'
  <2>1. Settling
    BY <1>1 DEF WriteRefused, WriteSkipped, WriteFails, Settling
  <2>2. UNCHANGED <<primary, backup, deleted, gone>>
    BY <1>1, Zenon DEF WriteRefused, WriteSkipped, WriteFails, fileVars
  <2>3. queue # <<>>
    BY <1>0
  <2>4. SettledTyping
    BY <1>0, <2>1, <2>3, SettleTyped
  <2>5. DeletedForGood'
    BY <1>0, <2>2 DEF DeletedForGood, Files, Readable
  <2>6. \A s \in gone' : s \in gone \/ (s \in Session /\ view[s] # "fresh")
    BY <2>2
  <2> QED BY <2>2, <2>3, <2>4, <2>5, <2>6, SettlingKeepsGone DEF GoneInv
<1>2. ASSUME NEW i \in DOMAIN queue, WriteReturns(queue[i])
      PROVE  GoneInv'
  <2> DEFINE c == queue[i]
  <2>1. c \in ChangeRecord /\ c.session \in Session /\ queue # <<>> /\ c = Head(queue)
        /\ step = "returning" /\ view[c.session] # "fresh"
    <3>1. c \in ChangeRecord /\ queue # <<>>
      BY <1>0
    <3> QED BY <1>2, <3>1 DEF WriteReturns, ChangeRecord, GoneInv, KnownOnly
  <2>2. UNCHANGED <<primary, backup, content>>
    BY <1>2, Zenon DEF WriteReturns, fileVars
  <2>3. /\ c.kind = "delete" => gone' = gone \cup {c.session} /\ deleted' = deleted \cup {c.session}
        /\ c.kind # "delete" => UNCHANGED <<gone, deleted>>
    BY <1>2 DEF WriteReturns
  <2>4. SettledTyping
    <3>1. Settling
      BY <1>2 DEF WriteReturns, Settling
    <3> QED BY <1>0, <2>1, <3>1, SettleTyped
  <2>5. primary \in {content, Damaged} /\ backup \in {content, Damaged}
    BY <2>1 DEF GoneInv, FilesWritten
  <2>6. \A s \in gone' : content.sessions[s].by = 0
    BY <2>1, <2>3 DEF GoneInv, WritingWithoutGone
  <2>7. DeletedForGood'
    BY <2>2, <2>5, <2>6 DEF DeletedForGood, Files, Readable
  <2>8. \A s \in gone' : s \in gone \/ (s \in Session /\ view[s] # "fresh")
    BY <2>1, <2>3
  <2>9. gone' \ deleted' \subseteq gone \ deleted
    BY <2>3
  <2> QED BY <2>1, <2>4, <2>7, <2>8, <2>9, SettlingKeepsGone DEF GoneInv
<1>3. ASSUME NEW i \in DOMAIN queue, WriteStarts(queue[i])
      PROVE  GoneInv'
  <2> DEFINE c == queue[i]
  <2>1. /\ c \in ChangeRecord /\ c.kind \in Kind /\ c.session \in Session
        /\ c = Head(queue) /\ ~Refused(c)
        /\ content' = [stamp |-> c.n, sessions |-> Changed(Loaded.sessions, c)]
    <3>1. c \in ChangeRecord
      BY <1>0
    <3>2. /\ c = Head(queue) /\ ~Refused(c)
          /\ content' = [stamp |-> c.n, sessions |-> Changed(Loaded.sessions, c)]
      BY <1>3, Zenon DEF WriteStarts, Turn
    <3> QED BY <3>1, <3>2 DEF ChangeRecord
  <2>2. step' = "primary"
        /\ UNCHANGED <<primary, backup, queue, deleted, gone, view, run, deleting>>
    BY <1>3 DEF WriteStarts, fileVars, clientVars
  <2>3. Loaded.sessions \in [Session -> Stored]
    BY <1>0, LoadedIsList DEF List
  <2>4. ASSUME NEW s \in gone PROVE content'.sessions[s].by = 0
    <3>1. s \in Session /\ Loaded.sessions[s].by = 0
      BY <1>0, LoadedWithoutGone
    <3>2. CASE s # c.session
      BY <2>1, <2>3, <3>1, <3>2, ChangedIsList
    <3>3. CASE s = c.session
      <4>1. c.kind # "save"
        <5> SUFFICES ASSUME c.kind = "save" PROVE FALSE
          OBVIOUS
        <5>1. s \notin deleted
          BY <2>1, <3>3 DEF Refused
        <5> QED BY <3>3, <5>1 DEF GoneInv, NoWayBack
      <4> QED BY <2>1, <2>3, <3>1, <3>3, <4>1, ChangedIsList DEF Kind
    <3> QED BY <3>2, <3>3
  <2>5. c.kind = "delete" => content'.sessions[c.session].by = 0
    BY <2>1, <2>3, ChangedIsList
  <2>6. WritingWithoutGone'
    BY <2>1, <2>2, <2>4, <2>5 DEF WritingWithoutGone
  <2>7. DeletedForGood' /\ FilesWritten' /\ NoWayBack' /\ KnownOnly'
    BY <2>2 DEF GoneInv, DeletedForGood, Files, Readable, FilesWritten, NoWayBack, KnownOnly
  <2> QED BY <2>6, <2>7 DEF GoneInv
<1>4. CASE PrimaryReplaced \/ BackupReplaced
  <2>1. /\ UNCHANGED <<queue, content, deleted, gone, view, run, deleting>>
        /\ \/ step = "primary" /\ step' = "backup" /\ primary' = content /\ backup' = backup
           \/ step = "backup" /\ step' = "returning" /\ backup' = content /\ primary' = primary
    BY <1>4 DEF PrimaryReplaced, BackupReplaced, clientVars
  <2>2. \A s \in gone : content.sessions[s].by = 0
    BY <2>1 DEF GoneInv, WritingWithoutGone
  <2>3. DeletedForGood'
    BY <2>1, <2>2 DEF GoneInv, DeletedForGood, Files, Readable
  <2>4. WritingWithoutGone' /\ NoWayBack' /\ KnownOnly'
    BY <2>1 DEF GoneInv, WritingWithoutGone, NoWayBack, KnownOnly
  <2>5. FilesWritten'
    BY <2>1 DEF GoneInv, FilesWritten
  <2> QED BY <2>3, <2>4, <2>5 DEF GoneInv
<1>5. CASE WriteFails
  <2>1. queue # <<>> /\ 1 \in DOMAIN queue
    BY <1>0, <1>5, TailElements DEF WriteFails, StoreTypeOK
  <2> QED BY <1>1, <1>5, <2>1
<1> QED BY <1>1, <1>2, <1>3, <1>4, <1>5 DEF StoreStep

\* A restart shows only sessions a file holds, so no deleted one; and damage
\* brings nothing back.
LEMMA SurroundingsKeepGone == GoneInv /\ StoreTypeOK' /\ (CrashAndRestart \/ Damage) => GoneInv'
<1> SUFFICES ASSUME GoneInv, StoreTypeOK', CrashAndRestart \/ Damage PROVE GoneInv'
  OBVIOUS
<1>1. CASE CrashAndRestart
  <2>1. /\ queue' = <<>> /\ step' = "idle" /\ run' = NoRun /\ deleting' = NoDeletion
        /\ UNCHANGED <<primary, backup, gone>>
        /\ view' = [s \in Session |-> IF view[s] = "fresh" THEN "fresh"
                                      ELSE IF Loaded.sessions[s].by # 0 THEN "listed"
                                      ELSE "dropped"]
    BY <1>1 DEF CrashAndRestart, fileVars
  <2>2. gone \subseteq Session /\ \A s \in gone : Loaded.sessions[s].by = 0 /\ view[s] # "fresh"
    BY LoadedWithoutGone DEF GoneInv, StoreTypeOK, KnownOnly
  <2>3. \A s \in gone : view'[s] = "dropped"
    BY <2>1, <2>2
  <2>4. \A s \in Session : run'.session # s
    BY <2>1, NullsTyped, StoreConstants
  <2>5. DOMAIN queue' = {} /\ deleting'.phase = "none"
    BY <2>1, NullsTyped
  <2>6. DeletedForGood' /\ WritingWithoutGone' /\ FilesWritten'
    BY <2>1 DEF GoneInv, DeletedForGood, Files, Readable, WritingWithoutGone, FilesWritten
  <2>7. NoWayBack' /\ KnownOnly'
    BY <2>1, <2>2, <2>3, <2>4, <2>5 DEF NoWayBack, KnownOnly
  <2> QED BY <2>6, <2>7 DEF GoneInv
<1>2. CASE Damage
  <2>1. /\ primary' \in {primary, Damaged} /\ backup' \in {backup, Damaged}
        /\ UNCHANGED <<queue, step, content, deleted, gone, view, run, deleting>>
    BY <1>2 DEF Damage, clientVars
  <2>2. DeletedForGood' /\ FilesWritten'
    BY <2>1 DEF GoneInv, DeletedForGood, Files, Readable, FilesWritten
  <2>3. WritingWithoutGone' /\ NoWayBack' /\ KnownOnly'
    BY <2>1 DEF GoneInv, WritingWithoutGone, NoWayBack, KnownOnly
  <2> QED BY <2>2, <2>3 DEF GoneInv
<1> QED BY <1>1, <1>2

\* A session that was durably deleted is in no file again: not by a save asked for
\* before the deletion answered, nor by a run that would not stop, nor after a
\* restart, when the tombstones are forgotten, nor from the other file when one is
\* damaged.
THEOREM DeletionIsFinal == Spec => []DeletedForGood
<1>1. Init => GoneInv
  <2> SUFFICES ASSUME Init PROVE GoneInv
    OBVIOUS
  <2>1. \A s \in Session : run.session # s
    BY NullsTyped, StoreConstants DEF Init
  <2> QED BY <2>1, TypedInit, NullsTyped
          DEF Init, GoneInv, DeletedForGood, WritingWithoutGone, FilesWritten, NoWayBack, KnownOnly
<1>2. GoneInv /\ [Next]_vars => GoneInv'
  <2> SUFFICES ASSUME GoneInv, [Next]_vars PROVE GoneInv'
    OBVIOUS
  <2>1. CASE UNCHANGED vars \/ Finished
    <3>1. UNCHANGED vars
      BY <2>1 DEF Finished
    <3>2. UNCHANGED <<primary, backup, queue, step, content, deleted, gone, view, run, deleting>>
      BY <3>1 DEF vars, storeVars, clientVars
    <3>3. StoreTypeOK'
      BY <3>1 DEF GoneInv, vars, storeVars, clientVars, faultVars, StoreTypeOK
    <3> QED BY <3>2, <3>3 DEF GoneInv, DeletedForGood, Files, Readable, WritingWithoutGone,
                              FilesWritten, NoWayBack, KnownOnly
  <2>2. CASE StoreStep \/ ClientStep \/ CrashAndRestart \/ Damage
    <3>1. StoreTypeOK'
      BY <2>2, StoreStepTyped, ClientStepTyped, SurroundingsTyped DEF GoneInv
    <3> QED BY <2>2, <3>1, StoreStepKeepsGone, ClientStepChanges, ClientChangeKeepsGone,
               SurroundingsKeepGone
  <2> QED BY <2>1, <2>2 DEF Next
<1>3. GoneInv => DeletedForGood
  BY DEF GoneInv
<1> QED BY <1>1, <1>2, <1>3, PTL DEF Spec

\* A well-formed store without its deleted sessions, for any number of sessions,
\* changes, refused writes, crashes and damaged files.
THEOREM StoreHolds == Spec => []StoreInv
BY StoreTyping, DeletionIsFinal, PTL DEF StoreInv

----------------------------------------------------------------------------
(* What was acknowledged is kept.                                           *)

\* What a change does to the session it is about.
LEMMA ChangedFields ==
  ASSUME NEW sessions \in [Session -> Stored], NEW c \in ChangeRecord
  PROVE  LET old == sessions[c.session]
             new == Changed(sessions, c)[c.session]
         IN /\ c.kind = "save" => /\ new.by = c.n
                                  /\ new.memory = IF c.memory = 0 THEN old.memory ELSE c.memory
                                  /\ old.summary # 0 => new.summary # 0
            /\ c.kind = "summary" => /\ new.by = old.by /\ new.memory = old.memory
                                     /\ new.summary = c.n
            /\ c.kind = "memory" => /\ new.by = old.by /\ new.summary = old.summary
                                    /\ new.memory = c.n
<1> DEFINE old == sessions[c.session]
           new == Changed(sessions, c)[c.session]
<1>1. c.session \in Session /\ old \in Stored /\ c.kind \in Kind
  BY DEF ChangeRecord
<1>2. CASE c.kind = "save"
  <2>1. new = Merged(old, c)
    BY <1>1, <1>2 DEF Changed
  <2> QED BY <1>2, <2>1 DEF Merged
<1>3. CASE c.kind = "summary"
  <2>1. new = [old EXCEPT !.summary = c.n]
    BY <1>1, <1>3 DEF Changed
  <2> QED BY <1>1, <1>3, <2>1 DEF Stored
<1>4. CASE c.kind = "memory"
  <2>1. new = [old EXCEPT !.memory = c.n]
    BY <1>1, <1>4 DEF Changed
  <2> QED BY <1>1, <1>4, <2>1 DEF Stored
<1>5. CASE c.kind = "delete"
  BY <1>5
<1> QED BY <1>1, <1>2, <1>3, <1>4, <1>5 DEF Kind

LEMMA NumbersAreNumbers ==
  ASSUME StoreTypeOK
  PROVE  \A i \in DOMAIN queue : queue[i] \in ChangeRecord /\ queue[i].n \in Nat
<1>1. queue \in Seq(ChangeRecord)
  BY DEF StoreTypeOK, ChangeRecord
<1>2. \A i \in DOMAIN queue : queue[i] \in ChangeRecord
  BY <1>1
<1> QED BY <1>2 DEF ChangeRecord

\* What load() returns is one of the files, or empty because nothing was ever
\* written or nothing can be read.
LEMMA LoadedKeeps ==
  ASSUME KeepInv
  PROVE  /\ Loaded \in Files \/ (Files = {} /\ Loaded = EmptyList)
         /\ CanPersist => \A s \in Session : Keeps(Loaded, s)
         /\ \A i \in DOMAIN queue : step = "idle" => Loaded.stamp < queue[i].n
         /\ step = "primary" => Loaded.stamp < Head(queue).n
<1>1. /\ Readable(primary) => primary \in Files
      /\ Readable(backup) => backup \in Files
      /\ Files # {} => Readable(primary) \/ Readable(backup)
  BY DEF Files
<1>2. Loaded \in Files \/ (Files = {} /\ Loaded = EmptyList)
  BY <1>1 DEF Loaded
<1>3. CanPersist /\ Files = {} => primary = Missing
  BY <1>1 DEF CanPersist
<1>4. ASSUME CanPersist, NEW s \in Session PROVE Keeps(Loaded, s)
  <2>1. CASE Loaded \in Files
    BY <2>1 DEF KeepInv, ListsKeep
  <2>2. CASE Files = {} /\ Loaded = EmptyList
    <3>1. acknowledged = 0 /\ kept[s] \in Stored
          /\ kept[s].by <= 0 /\ kept[s].memory <= 0 /\ kept[s].summary <= 0
      BY <1>3, <1>4, <2>2 DEF KeepInv, ListsKeep, StoreTypeOK
    <3>2. EmptyList.sessions[s] = NotStored
      BY DEF EmptyList
    <3> QED BY <2>2, <3>1, <3>2 DEF Keeps, Stored, NotStored
  <2> QED BY <1>2, <2>1, <2>2
<1>5. queue \in Seq(ChangeRecord) /\ asked \in Nat /\ acknowledged \in Nat
  BY DEF KeepInv, StoreTypeOK, ChangeRecord
<1>6. ASSUME NEW i \in DOMAIN queue, step \in {"idle", "primary"} PROVE Loaded.stamp < queue[i].n
  <2>1. CASE Loaded \in Files
    BY <1>6, <2>1 DEF KeepInv, ListsKeep
  <2>2. CASE Loaded = EmptyList
    <3>1. queue[i].n \in Nat /\ acknowledged < queue[i].n
      BY <1>6, NumbersAreNumbers DEF KeepInv, ChangesInOrder
    <3>2. Loaded.stamp = 0
      BY <2>2 DEF EmptyList
    <3> QED BY <1>5, <3>1, <3>2
  <2> QED BY <1>2, <2>1, <2>2
<1>7. step = "primary" => 1 \in DOMAIN queue /\ Head(queue) = queue[1]
  BY <1>5, TailElements DEF KeepInv, StoreTypeOK
<1> QED BY <1>2, <1>4, <1>6, <1>7

\* The order of the changes when one is settled.
LEMMA SettlingKeepsOrder ==
  ASSUME KeepInv, queue # <<>>, queue' = Tail(queue), UNCHANGED asked,
         acknowledged' = acknowledged \/ acknowledged' = Head(queue).n
  PROVE  /\ ChangesInOrder'
         /\ \A i \in DOMAIN queue' :
              i + 1 \in DOMAIN queue /\ queue'[i] = queue[i + 1] /\ Head(queue).n < queue'[i].n
<1>1. queue \in Seq(ChangeRecord) /\ asked \in Nat /\ acknowledged \in Nat /\ ChangesInOrder
  BY DEF KeepInv, StoreTypeOK, ChangeRecord
<1>2. /\ Head(queue) = queue[1] /\ 1 \in DOMAIN queue
      /\ \A i \in DOMAIN queue' : i + 1 \in DOMAIN queue /\ queue'[i] = queue[i + 1] /\ i \in Nat \ {0}
  BY <1>1, TailElements
<1>3. \A i \in DOMAIN queue : queue[i].n \in Nat
  BY NumbersAreNumbers DEF KeepInv
<1>4. \A i \in DOMAIN queue' : Head(queue).n < queue'[i].n
  BY <1>1, <1>2 DEF ChangesInOrder
<1>5. acknowledged' <= asked'
  <2>1. queue[1].n <= asked /\ acknowledged <= asked
    BY <1>1, <1>2 DEF ChangesInOrder
  <2> QED BY <1>2, <2>1
<1>6. \A i \in DOMAIN queue' : acknowledged' < queue'[i].n /\ queue'[i].n <= asked'
  BY <1>1, <1>2, <1>4 DEF ChangesInOrder
<1>7. \A i, j \in DOMAIN queue' : i < j => queue'[i].n < queue'[j].n
  BY <1>1, <1>2 DEF ChangesInOrder
<1> QED BY <1>2, <1>4, <1>5, <1>6, <1>7 DEF ChangesInOrder

\* What settling does to the run.
LEMMA SettlingAndRun ==
  ASSUME StoreTypeOK, Settling
  PROVE  /\ run'.phase \in {"reading", "running", "settled", "digesting", "summarising"} =>
              /\ run'.phase = run.phase /\ run'.session = run.session
              /\ run'.awaits = run.awaits /\ run'.own = run.own /\ run'.seen = run.seen
              /\ run'.memory = run.memory /\ run'.aborted = run.aborted
              /\ run'.saved => run.saved \/ run.own = Head(queue).n
<1> PICK ok \in BOOLEAN : Settle(ok)
  BY DEF Settling
<1>1. run \in RunRecord
  BY DEF StoreTypeOK, RunRecord
<1>2. CASE run.phase = "saving" /\ run.awaits = Head(queue).n
  <2>1. run' = [run EXCEPT !.phase = "reloading", !.awaits = asked] \/ run' = NoRun
    BY <1>2 DEF Settle
  <2> QED BY <1>1, <2>1, NullsTyped DEF RunRecord
<1>3. CASE ~(run.phase = "saving" /\ run.awaits = Head(queue).n)
  <2>1. run' = [run EXCEPT !.saved = run.saved \/ (run.own = Head(queue).n /\ ok)]
    BY <1>3 DEF Settle
  <2> QED BY <1>1, <2>1 DEF RunRecord
<1> QED BY <1>2, <1>3
----------------------------------------------------------------------------
\* A change that settles, with success or without, keeps what was acknowledged.
LEMMA SettlingKeepsLists ==
  ASSUME KeepInv, queue # <<>>, SettledTyping, StoreTypeOK', Settling,
         UNCHANGED <<primary, backup>>,
         \/ UNCHANGED <<acknowledged, kept>>
         \/ WriteReturns(Head(queue))
  PROVE  KeepInv'
<1>1. /\ StoreTypeOK /\ queue \in Seq(ChangeRecord) /\ queue' = Tail(queue) /\ step' = "idle"
      /\ UNCHANGED <<asked, view, damages>>
      /\ asked \in Nat /\ acknowledged \in Nat
  BY DEF KeepInv, StoreTypeOK, ChangeRecord, SettledTyping
<1> DEFINE c == Head(queue)
<1>2. c \in ChangeRecord /\ c = queue[1] /\ 1 \in DOMAIN queue
  BY <1>1, TailElements
<1>3. c.n \in Nat /\ c.session \in Session /\ c.kind \in Kind /\ c.memory \in Nat
  BY <1>2 DEF ChangeRecord
<1>4. acknowledged < c.n /\ c.n <= asked
  BY <1>2 DEF KeepInv, ChangesInOrder
<1>5. acknowledged' = acknowledged \/ acknowledged' = c.n
  BY DEF WriteReturns
<1>6. /\ ChangesInOrder'
      /\ \A i \in DOMAIN queue' :
           i + 1 \in DOMAIN queue /\ queue'[i] = queue[i + 1] /\ c.n < queue'[i].n
  BY <1>1, <1>5, SettlingKeepsOrder
<1>7. FilesWritten'
  BY <1>1 DEF FilesWritten
<1>8. ASSUME WriteReturns(c)
      PROVE  /\ acknowledged' = c.n /\ primary \in {content, Damaged} /\ backup \in {content, Damaged}
             /\ content.stamp = c.n
             /\ \A s \in Session : s # c.session => kept'[s] = kept[s]
             /\ c.kind # "save" => kept'[c.session].by \in {kept[c.session].by, 0}
             /\ c.kind = "save" => kept'[c.session].by = c.n
             /\ c.kind # "memory" => kept'[c.session].memory \in {kept[c.session].memory, 0}
             /\ c.kind = "memory" => kept'[c.session].memory = c.n
             /\ c.kind # "summary" => kept'[c.session].summary \in {kept[c.session].summary, 0}
             /\ c.kind = "summary" => kept'[c.session].summary = c.n
  <2>1. /\ step = "returning" /\ acknowledged' = c.n
        /\ kept' = [kept EXCEPT ![c.session] =
             CASE c.kind = "save"    -> [kept[c.session] EXCEPT !.by = c.n]
               [] c.kind = "summary" -> [kept[c.session] EXCEPT !.summary = c.n]
               [] c.kind = "memory"  -> [kept[c.session] EXCEPT !.memory = c.n]
               [] c.kind = "delete"  -> NotStored]
    BY <1>8 DEF WriteReturns
  <2>2. kept \in [Session -> Stored] /\ kept[c.session] \in Stored
    BY <1>1, <1>3 DEF StoreTypeOK
  <2>3. \A s \in Session : s # c.session => kept'[s] = kept[s]
    BY <2>1, <2>2
  <2>4. kept'[c.session] =
          CASE c.kind = "save"    -> [kept[c.session] EXCEPT !.by = c.n]
            [] c.kind = "summary" -> [kept[c.session] EXCEPT !.summary = c.n]
            [] c.kind = "memory"  -> [kept[c.session] EXCEPT !.memory = c.n]
            [] c.kind = "delete"  -> NotStored
    BY <2>1, <2>2, <1>3
  <2> HIDE DEF c
  <2> DEFINE Kept ==
        /\ c.kind # "save" => kept'[c.session].by \in {kept[c.session].by, 0}
        /\ c.kind = "save" => kept'[c.session].by = c.n
        /\ c.kind # "memory" => kept'[c.session].memory \in {kept[c.session].memory, 0}
        /\ c.kind = "memory" => kept'[c.session].memory = c.n
        /\ c.kind # "summary" => kept'[c.session].summary \in {kept[c.session].summary, 0}
        /\ c.kind = "summary" => kept'[c.session].summary = c.n
  <2>5. ASSUME c.kind = "save" PROVE Kept
    BY <2>2, <2>4, <2>5 DEF Stored
  <2>6. ASSUME c.kind = "summary" PROVE Kept
    BY <2>2, <2>4, <2>6 DEF Stored
  <2>7. ASSUME c.kind = "memory" PROVE Kept
    BY <2>2, <2>4, <2>7 DEF Stored
  <2>8. ASSUME c.kind = "delete" PROVE Kept
    BY <2>2, <2>4, <2>8 DEF NotStored
  <2>9. primary \in {content, Damaged} /\ backup \in {content, Damaged} /\ content.stamp = c.n
    BY <2>1 DEF KeepInv, FilesWritten, ListsKeep, c
  <2> QED BY <1>3, <2>1, <2>3, <2>5, <2>6, <2>7, <2>8, <2>9 DEF Kind
<1>9. \A s \in Session : kept'[s].by <= acknowledged' /\ kept'[s].memory <= acknowledged'
                         /\ kept'[s].summary <= acknowledged'
  <2> SUFFICES ASSUME NEW s \in Session
               PROVE  kept'[s].by <= acknowledged' /\ kept'[s].memory <= acknowledged'
                      /\ kept'[s].summary <= acknowledged'
    OBVIOUS
  <2>1. /\ kept[s].by <= acknowledged /\ kept[s].memory <= acknowledged
        /\ kept[s].summary <= acknowledged
        /\ kept[s].by \in Nat /\ kept[s].memory \in Nat /\ kept[s].summary \in Nat
    <3>1. kept[s] \in Stored
      BY <1>1 DEF StoreTypeOK
    <3> QED BY <3>1 DEF KeepInv, ListsKeep, Stored
  <2>2. CASE UNCHANGED <<acknowledged, kept>>
    BY <2>1, <2>2
  <2>3. CASE WriteReturns(c)
    <3>1. /\ acknowledged' = c.n
          /\ s # c.session => kept'[s] = kept[s]
          /\ kept'[c.session].by \in {kept[c.session].by, c.n, 0}
          /\ kept'[c.session].memory \in {kept[c.session].memory, c.n, 0}
          /\ kept'[c.session].summary \in {kept[c.session].summary, c.n, 0}
      BY <1>8, <2>3
    <3>2. kept'[s].by \in {kept[s].by, c.n, 0} /\ kept'[s].memory \in {kept[s].memory, c.n, 0}
          /\ kept'[s].summary \in {kept[s].summary, c.n, 0}
      BY <3>1
    <3>3. \A x \in Nat : \A y \in {x, c.n, 0} : x <= acknowledged => y <= acknowledged'
      BY <1>1, <1>3, <1>4, <3>1
    <3> QED BY <2>1, <3>2, <3>3
  <2> QED BY <2>2, <2>3
<1>10. ASSUME NEW file \in Files
       PROVE  /\ acknowledged' <= file.stamp /\ file.stamp <= asked'
              /\ \A s \in Session : Keeps(file, s)'
              /\ \A i \in DOMAIN queue' : file.stamp < queue'[i].n
  <2>1. /\ acknowledged <= file.stamp /\ file.stamp <= asked /\ file \in List
        /\ file.stamp \in Nat /\ \A s \in Session : file.sessions[s] \in Stored
        /\ \A s \in Session : Keeps(file, s)
        /\ file.stamp < c.n \/ (file = content /\ step # "idle")
    <3>1. file \in List
      BY <1>1 DEF StoreTypeOK, Files, File, Readable
    <3>2. file.stamp \in Nat /\ \A s \in Session : file.sessions[s] \in Stored
      BY <3>1 DEF List
    <3>3. /\ acknowledged <= file.stamp /\ file.stamp <= asked
          /\ \A s \in Session : Keeps(file, s)
          /\ \/ file.stamp < queue[1].n
             \/ step \in {"backup", "returning"} /\ file = content
      BY <1>2 DEF KeepInv, ListsKeep
    <3> QED BY <1>2, <3>1, <3>2, <3>3
  <2>2. file = content /\ step # "idle" => file.stamp = c.n
    BY DEF KeepInv, ListsKeep
  <2>3. \A i \in DOMAIN queue' : file.stamp < queue'[i].n
    <3>1. \A i \in DOMAIN queue' : queue'[i].n \in Nat
      BY <1>6, NumbersAreNumbers DEF KeepInv
    <3> HIDE DEF c
    <3> QED BY <1>3, <1>6, <2>1, <2>2, <3>1
  <2>4. CASE UNCHANGED <<acknowledged, kept>>
    BY <1>1, <2>1, <2>3, <2>4 DEF Keeps
  <2>5. CASE WriteReturns(c)
    <3>1. file = content
      BY <1>8, <2>5 DEF Files, Readable
    <3>2. step = "returning"
      BY <2>5 DEF WriteReturns
    <3>3. Carries(content, c)
      BY <3>2 DEF KeepInv, ListsKeep
    <3>4. ASSUME NEW s \in Session PROVE Keeps(file, s)'
      <4>1. CASE s # c.session
        BY <1>8, <2>1, <2>5, <4>1 DEF Keeps
      <4>2. CASE s = c.session
        <5>1. Keeps(file, s) /\ file.sessions[s] \in Stored
          BY <2>1
        <5> HIDE DEF c
        <5> QED BY <1>3, <1>8, <2>5, <3>1, <3>3, <4>2, <5>1 DEF Keeps, Carries, Stored
      <4> QED BY <4>1, <4>2
    <3> QED BY <1>1, <1>8, <2>1, <2>3, <2>5, <3>1, <3>4
  <2> QED BY <2>4, <2>5
<1>11. ListsKeep'
  <2>1. step' = "idle" /\ Files' = Files
    BY <1>1 DEF Files, Readable
  <2>2. primary' = Missing => backup' = Missing /\ acknowledged' = 0
    <3>1. WriteReturns(c) => primary # Missing
      BY <1>1, <1>8, StoreConstants DEF StoreTypeOK
    <3> QED BY <3>1 DEF KeepInv, ListsKeep
  <2>3. damages' = 0 => Damaged \notin {primary', backup'}
    BY <1>1 DEF KeepInv, ListsKeep
  <2> QED BY <1>9, <1>10, <2>1, <2>2, <2>3 DEF ListsKeep
<1>12. MemoryPutBack'
  <2>1. ASSUME NEW i \in DOMAIN queue', queue'[i].kind = "save", queue'[i].memory # 0
        PROVE  /\ kept'[queue'[i].session].memory <= queue'[i].memory
               /\ \A j \in 1..(i - 1) : queue'[j].kind # "memory"
    <3>1. /\ i \in Nat \ {0} /\ i + 1 \in DOMAIN queue /\ queue'[i] = queue[i + 1]
          /\ \A j \in 1..(i - 1) : j \in DOMAIN queue' /\ j + 1 \in 1..((i + 1) - 1)
      BY <1>1, <1>6, TailElements
    <3>2. /\ kept[queue[i + 1].session].memory <= queue[i + 1].memory
          /\ \A j \in 1..((i + 1) - 1) : queue[j].kind # "memory"
      BY <2>1, <3>1 DEF KeepInv, MemoryPutBack
    <3>3. c.kind # "memory"
      BY <1>2, <3>1, <3>2
    <3>4. queue[i + 1].session \in Session /\ queue[i + 1].memory \in Nat
      BY <3>1, NumbersAreNumbers DEF KeepInv, ChangeRecord
    <3>5. kept'[queue[i + 1].session].memory \in {kept[queue[i + 1].session].memory, 0}
      BY <1>8, <3>3, <3>4
    <3> QED BY <1>6, <3>1, <3>2, <3>4, <3>5
  <2>2. run'.phase \in {"digesting", "summarising"} =>
          /\ run'.phase = run.phase /\ run'.session = run.session
          /\ run'.awaits = run.awaits /\ run'.memory = run.memory
    BY <1>1, SettlingAndRun
  <2>3. run'.phase = "digesting" =>
          \A i \in DOMAIN queue' : queue'[i].kind = "memory" => queue'[i].n <= run'.awaits
    BY <1>6, <2>2 DEF KeepInv, MemoryPutBack
  <2>4. ASSUME run'.phase = "summarising"
        PROVE  /\ kept'[run'.session].memory <= run'.memory
               /\ \A i \in DOMAIN queue' : queue'[i].kind # "memory"
    <3>1. /\ kept[run.session].memory <= run.memory /\ run.session \in Session /\ run.memory \in Nat
          /\ \A i \in DOMAIN queue : queue[i].kind # "memory"
      BY <1>1, <2>2, <2>4 DEF KeepInv, MemoryPutBack, StoreTypeOK
    <3>2. kept'[run.session].memory \in {kept[run.session].memory, 0}
      BY <1>2, <1>8, <3>1
    <3> QED BY <1>6, <2>2, <2>4, <3>1, <3>2
  <2> QED BY <2>1, <2>3, <2>4 DEF MemoryPutBack
<1> QED BY <1>6, <1>7, <1>11, <1>12 DEF KeepInv

\* A change that starts from what load() returned keeps what was acknowledged.
LEMMA StartingKeepsLists ==
  ASSUME KeepInv, StoreTypeOK', NEW c \in ChangeRecord, WriteStarts(c)
  PROVE  KeepInv'
<1>1. /\ step = "idle" /\ c = Head(queue) /\ ~Refused(c)
      /\ content' = [stamp |-> c.n, sessions |-> Changed(Loaded.sessions, c)]
      /\ kept' = IF c.kind = "delete" THEN [kept EXCEPT ![c.session] = NotStored] ELSE kept
      /\ step' = "primary"
      /\ UNCHANGED <<primary, backup, queue, asked, acknowledged, run, damages>>
  BY DEF WriteStarts, Turn, fileVars, clientVars, faultVars
<1>2. /\ StoreTypeOK /\ queue \in Seq(ChangeRecord) /\ queue # <<>> /\ c = queue[1] /\ 1 \in DOMAIN queue
      /\ asked \in Nat /\ acknowledged \in Nat
      /\ c.n \in Nat /\ c.session \in Session /\ c.kind \in Kind /\ c.memory \in Nat
  <2>1. queue \in Seq(ChangeRecord) /\ queue # <<>>
    BY DEF KeepInv, StoreTypeOK, ChangeRecord, WriteStarts, Turn
  <2>2. c = queue[1] /\ 1 \in DOMAIN queue
    BY <1>1, <2>1, TailElements
  <2> QED BY <2>1, <2>2 DEF KeepInv, StoreTypeOK, ChangeRecord
<1>3. acknowledged < c.n
  BY <1>2 DEF KeepInv, ChangesInOrder
<1>4. /\ Loaded \in List /\ Loaded.sessions \in [Session -> Stored]
      /\ \A s \in Session : Keeps(Loaded, s)
  <2>1. Loaded \in List
    BY <1>2, LoadedIsList
  <2>2. CanPersist
    BY <1>1 DEF Refused
  <2> QED BY <2>1, <2>2, LoadedKeeps DEF List
\* A promise about a session may only be given up.
<1>5. ASSUME NEW s \in Session
      PROVE  /\ kept[s] \in Stored /\ kept'[s] \in {kept[s], NotStored}
             /\ s # c.session => kept'[s] = kept[s]
             /\ s = c.session /\ c.kind = "delete" => kept'[s] = NotStored
             /\ kept'[s].by \in {kept[s].by, 0} /\ kept'[s].memory \in {kept[s].memory, 0}
             /\ kept'[s].summary \in {kept[s].summary, 0}
  <2>1. kept \in [Session -> Stored] /\ kept[s] \in Stored
    BY <1>2 DEF StoreTypeOK
  <2>2. /\ kept'[s] \in {kept[s], NotStored}
        /\ s # c.session => kept'[s] = kept[s]
        /\ s = c.session /\ c.kind = "delete" => kept'[s] = NotStored
    BY <1>1, <1>2, <2>1
  <2> QED BY <2>1, <2>2 DEF NotStored
<1>6. ASSUME NEW list \in List, NEW s \in Session, Keeps(list, s) PROVE Keeps(list, s)'
  <2>1. list.sessions[s] \in Stored /\ list.sessions[s].by \in Nat /\ list.sessions[s].memory \in Nat
    BY DEF List, Stored
  <2> QED BY <1>5, <1>6, <2>1 DEF Keeps
<1>7. ASSUME NEW s \in Session PROVE Keeps(content, s)'
  <2>1. /\ content'.sessions = Changed(Loaded.sessions, c) /\ Changed(Loaded.sessions, c)[s] \in Stored
        /\ kept[s] \in Stored /\ Loaded.sessions[s] \in Stored
    BY <1>1, <1>4, <1>5, ChangedIsList
  <2>2. CASE s # c.session
    <3>1. content'.sessions[s] = Loaded.sessions[s]
      BY <1>4, <2>1, <2>2, ChangedIsList
    <3> QED BY <1>4, <1>5, <2>2, <3>1 DEF Keeps
  <2>3. CASE s = c.session /\ c.kind = "delete"
    BY <1>5, <2>1, <2>3 DEF Keeps, Stored, NotStored
  <2>4. CASE s = c.session /\ c.kind # "delete"
    <3> DEFINE old == Loaded.sessions[c.session]
               new == Changed(Loaded.sessions, c)[c.session]
    <3>1. /\ c.kind = "save" => /\ new.by = c.n
                                /\ new.memory = IF c.memory = 0 THEN old.memory ELSE c.memory
                                /\ old.summary # 0 => new.summary # 0
          /\ c.kind = "summary" => /\ new.by = old.by /\ new.memory = old.memory
                                   /\ new.summary = c.n
          /\ c.kind = "memory" => /\ new.by = old.by /\ new.summary = old.summary
                                  /\ new.memory = c.n
      BY <1>4, ChangedFields
    <3>2. /\ kept[s].by <= old.by /\ kept[s].memory <= old.memory
          /\ kept[s].summary # 0 => old.summary # 0
      BY <1>4, <2>4 DEF Keeps
    <3>3. kept[s].by <= acknowledged /\ kept[s].memory <= acknowledged
      BY DEF KeepInv, ListsKeep
    <3>4. c.kind = "save" /\ c.memory # 0 => kept[s].memory <= c.memory
      BY <1>2, <2>4 DEF KeepInv, MemoryPutBack
    <3>5. /\ kept[s].by \in Nat /\ kept[s].memory \in Nat /\ kept[s].summary \in Nat
          /\ new \in Stored /\ kept'[s] = kept[s] /\ content'.sessions[s] = new
      BY <1>1, <2>1, <2>4 DEF Stored
    <3> HIDE DEF old, new
    <3>6. kept[s].by <= new.by /\ kept[s].memory <= new.memory /\ (kept[s].summary # 0 => new.summary # 0)
      <4>1. ASSUME c.kind = "save" PROVE <3>6!:
        BY <1>2, <1>3, <3>1, <3>2, <3>3, <3>4, <3>5, <4>1
      <4>2. ASSUME c.kind = "summary" PROVE <3>6!:
        BY <1>2, <1>3, <3>1, <3>2, <3>5, <4>2
      <4>3. ASSUME c.kind = "memory" PROVE <3>6!:
        BY <1>2, <1>3, <3>1, <3>2, <3>3, <3>5, <4>3
      <4> QED BY <1>2, <2>4, <4>1, <4>2, <4>3 DEF Kind
    <3> QED BY <3>5, <3>6 DEF Keeps
  <2> QED BY <2>2, <2>3, <2>4
<1>8. Carries(content', c)
  <2>1. content'.sessions = Changed(Loaded.sessions, c)
    BY <1>1
  <2> QED BY <1>4, <2>1, ChangedFields DEF Carries
<1>9. ListsKeep'
  <2>1. Files' = Files /\ \A file \in Files : file \in List
    BY <1>1, <1>2 DEF Files, Readable, StoreTypeOK, File
  <2>2. \A s \in Session : kept'[s].by <= acknowledged' /\ kept'[s].memory <= acknowledged'
                           /\ kept'[s].summary <= acknowledged'
    BY <1>1, <1>2, <1>5 DEF KeepInv, ListsKeep
  <2>3. content'.stamp = Head(queue').n /\ Carries(content', Head(queue'))
    BY <1>1, <1>8
  <2>4. ASSUME NEW file \in Files'
        PROVE  /\ acknowledged' <= file.stamp /\ file.stamp <= asked'
               /\ \A s \in Session : Keeps(file, s)'
               /\ \A i \in DOMAIN queue' : file.stamp < queue'[i].n
    <3>1. /\ acknowledged <= file.stamp /\ file.stamp <= asked
          /\ \A s \in Session : Keeps(file, s)
          /\ \A i \in DOMAIN queue : file.stamp < queue[i].n
      BY <1>1, <2>1 DEF KeepInv, ListsKeep
    <3> QED BY <1>1, <1>6, <2>1, <3>1
  <2>5. /\ primary' = Missing => backup' = Missing /\ acknowledged' = 0
        /\ damages' = 0 => Damaged \notin {primary', backup'}
    BY <1>1 DEF KeepInv, ListsKeep
  <2> QED BY <1>7, <2>2, <2>3, <2>4, <2>5 DEF ListsKeep
<1>10. MemoryPutBack'
  <2>1. ASSUME NEW i \in DOMAIN queue', queue'[i].kind = "save", queue'[i].memory # 0
        PROVE  /\ kept'[queue'[i].session].memory <= queue'[i].memory
               /\ \A j \in 1..(i - 1) : queue'[j].kind # "memory"
    <3>1. queue[i].session \in Session /\ queue[i].memory \in Nat
      BY <1>1, NumbersAreNumbers DEF KeepInv, ChangeRecord
    <3>2. /\ kept[queue[i].session].memory <= queue[i].memory
          /\ \A j \in 1..(i - 1) : queue[j].kind # "memory"
      BY <1>1, <2>1 DEF KeepInv, MemoryPutBack
    <3> QED BY <1>1, <1>5, <3>1, <3>2
  <2>2. ASSUME run'.phase = "summarising"
        PROVE  /\ kept'[run'.session].memory <= run'.memory
               /\ \A i \in DOMAIN queue' : queue'[i].kind # "memory"
    <3>1. run.session \in Session /\ run.memory \in Nat
      BY <1>1, <1>2, <2>2 DEF StoreTypeOK
    <3>2. kept[run.session].memory <= run.memory /\ \A i \in DOMAIN queue : queue[i].kind # "memory"
      BY <1>1, <2>2 DEF KeepInv, MemoryPutBack
    <3> QED BY <1>1, <1>5, <3>1, <3>2
  <2>3. run'.phase = "digesting" =>
          \A i \in DOMAIN queue' : queue'[i].kind = "memory" => queue'[i].n <= run'.awaits
    BY <1>1 DEF KeepInv, MemoryPutBack
  <2> QED BY <2>1, <2>2, <2>3 DEF MemoryPutBack
<1> QED BY <1>1, <1>9, <1>10 DEF KeepInv, ChangesInOrder, FilesWritten

\* A file replaced by the list that was written keeps what the list keeps.
LEMMA ReplacingKeepsLists ==
  ASSUME KeepInv, StoreTypeOK', PrimaryReplaced \/ BackupReplaced
  PROVE  KeepInv'
<1>1. /\ UNCHANGED <<queue, content, asked, acknowledged, kept, run, damages>>
      /\ \/ step = "primary" /\ step' = "backup" /\ primary' = content /\ backup' = backup
         \/ step = "backup" /\ step' = "returning" /\ backup' = content /\ primary' = primary
  BY DEF PrimaryReplaced, BackupReplaced, clientVars, faultVars
<1>2. /\ StoreTypeOK /\ queue \in Seq(ChangeRecord) /\ queue # <<>>
      /\ asked \in Nat /\ acknowledged \in Nat /\ content \in List
  BY <1>1 DEF KeepInv, StoreTypeOK, ChangeRecord
<1>3. Readable(content)
  BY <1>2, StoreConstants DEF Readable
<1>4. step = "backup" => primary \in {content, Damaged}
  BY DEF KeepInv, FilesWritten
<1>5. /\ content.stamp = Head(queue).n /\ Carries(content, Head(queue))
      /\ \A s \in Session : Keeps(content, s)
  BY <1>1 DEF KeepInv, ListsKeep
<1>6. Head(queue) = queue[1] /\ 1 \in DOMAIN queue
  BY <1>2, TailElements
<1>7. /\ acknowledged <= content.stamp /\ content.stamp <= asked
      /\ \A i \in DOMAIN queue : i # 1 => content.stamp < queue[i].n
  <2>1. acknowledged < queue[1].n /\ queue[1].n <= asked /\ queue[1].n \in Nat
    BY <1>6, NumbersAreNumbers DEF KeepInv, ChangesInOrder
  <2>2. \A i \in DOMAIN queue : i # 1 => 1 < i
    BY <1>2
  <2> QED BY <1>2, <1>5, <1>6, <2>1, <2>2 DEF KeepInv, ChangesInOrder
<1>8. \A file \in Files' : file \in Files \/ file = content
  BY <1>1 DEF Files, Readable
<1>9. ListsKeep'
  <2>1. ASSUME NEW file \in Files'
        PROVE  /\ acknowledged' <= file.stamp /\ file.stamp <= asked'
               /\ \A s \in Session : Keeps(file, s)'
               /\ \A i \in DOMAIN queue' :
                    \/ file.stamp < queue'[i].n
                    \/ i = 1 /\ step' \in {"backup", "returning"} /\ file = content'
    <3>1. CASE file = content
      BY <1>1, <1>5, <1>7, <3>1 DEF Keeps
    <3>2. CASE file \in Files
      <4>1. /\ acknowledged <= file.stamp /\ file.stamp <= asked
            /\ \A s \in Session : Keeps(file, s)
            /\ \A i \in DOMAIN queue :
                 \/ file.stamp < queue[i].n
                 \/ i = 1 /\ step \in {"backup", "returning"} /\ file = content
        BY <3>2 DEF KeepInv, ListsKeep
      <4> QED BY <1>1, <4>1 DEF Keeps
    <3> QED BY <1>8, <3>1, <3>2
  <2>2. primary' # Missing
    BY <1>1, <1>2, <1>4, StoreConstants
  <2>3. damages' = 0 => Damaged \notin {primary', backup'}
    BY <1>1, <1>2, StoreConstants DEF KeepInv, ListsKeep
  <2>4. Carries(content', Head(queue')) /\ content'.stamp = Head(queue').n
        /\ \A s \in Session : Keeps(content, s)'
    BY <1>1, <1>5 DEF Keeps
  <2>5. \A s \in Session : kept'[s].by <= acknowledged' /\ kept'[s].memory <= acknowledged'
                           /\ kept'[s].summary <= acknowledged'
    BY <1>1 DEF KeepInv, ListsKeep
  <2> QED BY <2>1, <2>2, <2>3, <2>4, <2>5 DEF ListsKeep
<1>10. FilesWritten'
  BY <1>1, <1>4 DEF FilesWritten
<1>11. MemoryPutBack' /\ ChangesInOrder'
  BY <1>1 DEF KeepInv, MemoryPutBack, ChangesInOrder
<1> QED BY <1>9, <1>10, <1>11 DEF KeepInv

LEMMA StoreStepKeepsLists == KeepInv /\ StoreTypeOK' /\ StoreStep => KeepInv'
<1> SUFFICES ASSUME KeepInv, StoreTypeOK', StoreStep PROVE KeepInv'
  OBVIOUS
<1>1. StoreTypeOK /\ queue \in Seq(ChangeRecord)
  BY DEF KeepInv, StoreTypeOK, ChangeRecord
<1>2. ASSUME Settling, queue # <<>>, UNCHANGED <<primary, backup, acknowledged, kept>>
      PROVE  KeepInv'
  BY <1>1, <1>2, SettleTyped, SettlingKeepsLists
<1>3. ASSUME NEW i \in DOMAIN queue, WriteRefused(queue[i]) \/ WriteSkipped(queue[i])
      PROVE  KeepInv'
  <2>1. Settling
    BY <1>3 DEF WriteRefused, WriteSkipped, Settling
  <2>3. queue # <<>>
    BY <1>1
  <2>2. UNCHANGED <<primary, backup, acknowledged, kept>>
    BY <1>3, Zenon DEF WriteRefused, WriteSkipped, fileVars
  <2> QED BY <1>2, <2>1, <2>2, <2>3
<1>4. ASSUME NEW i \in DOMAIN queue, WriteStarts(queue[i]) PROVE KeepInv'
  <2>1. queue[i] \in ChangeRecord
    BY <1>1
  <2> QED BY <1>4, <2>1, StartingKeepsLists
<1>5. ASSUME NEW i \in DOMAIN queue, WriteReturns(queue[i]) PROVE KeepInv'
  <2>1. Settling /\ queue[i] = Head(queue)
    BY <1>5 DEF WriteReturns, Settling
  <2>4. queue # <<>>
    BY <1>1
  <2>2. UNCHANGED <<primary, backup>>
    BY <1>5, Zenon DEF WriteReturns, fileVars
  <2>3. WriteReturns(Head(queue))
    BY <1>5, <2>1
  <2> QED BY <1>1, <2>1, <2>2, <2>3, <2>4, SettleTyped, SettlingKeepsLists
<1>6. CASE WriteFails
  <2>1. Settling /\ UNCHANGED <<primary, backup, acknowledged, kept>>
    BY <1>6 DEF WriteFails, Settling, fileVars
  <2>2. queue # <<>>
    BY <1>1, <1>6 DEF WriteFails, StoreTypeOK
  <2> QED BY <1>2, <2>1, <2>2
<1> QED BY <1>3, <1>4, <1>5, <1>6, ReplacingKeepsLists DEF StoreStep


LEMMA SurroundingsKeepLists == KeepInv /\ StoreTypeOK' /\ (CrashAndRestart \/ Damage) => KeepInv'
<1> SUFFICES ASSUME KeepInv, StoreTypeOK', CrashAndRestart \/ Damage PROVE KeepInv'
  OBVIOUS
<1>1. CASE CrashAndRestart
  <2>1. /\ queue' = <<>> /\ step' = "idle" /\ run' = NoRun
        /\ UNCHANGED <<primary, backup, content, asked, acknowledged, kept, damages>>
    BY <1>1 DEF CrashAndRestart, fileVars
  <2>2. DOMAIN queue' = {} /\ run'.phase = "none"
    BY <2>1, NullsTyped
  <2>3. ChangesInOrder' /\ FilesWritten' /\ MemoryPutBack'
    BY <2>1, <2>2 DEF KeepInv, ChangesInOrder, FilesWritten, MemoryPutBack
  <2>4. ListsKeep'
    BY <2>1, <2>2 DEF KeepInv, ListsKeep, Keeps, Files, Readable
  <2> QED BY <2>3, <2>4 DEF KeepInv
<1>2. CASE Damage
  <2>1. /\ \/ Readable(primary) /\ primary' = Damaged /\ backup' = backup
           \/ Readable(backup) /\ backup' = Damaged /\ primary' = primary
        /\ damages' = damages + 1
        /\ UNCHANGED <<queue, step, content, asked, acknowledged, kept, run>>
    BY <1>2 DEF Damage, clientVars
  <2>2. ChangesInOrder' /\ FilesWritten' /\ MemoryPutBack'
    BY <2>1 DEF KeepInv, ChangesInOrder, FilesWritten, MemoryPutBack
  <2>3. \A file \in Files' : file \in Files
    BY <2>1 DEF Files, Readable
  <2>4. damages' # 0
    BY <2>1 DEF KeepInv, StoreTypeOK
  <2>5. primary' # Missing \/ (primary' = Missing /\ backup' = Missing /\ acknowledged' = 0)
    BY <2>1, StoreConstants DEF KeepInv, ListsKeep, Readable
  <2>6. ASSUME NEW file \in Files'
        PROVE  /\ acknowledged' <= file.stamp /\ file.stamp <= asked'
               /\ \A s \in Session : Keeps(file, s)'
               /\ \A i \in DOMAIN queue' :
                    \/ file.stamp < queue'[i].n
                    \/ i = 1 /\ step' \in {"backup", "returning"} /\ file = content'
    BY <2>1, <2>3 DEF KeepInv, ListsKeep, Keeps
  <2>7. /\ \A s \in Session : /\ kept'[s].by <= acknowledged' /\ kept'[s].memory <= acknowledged'
                              /\ kept'[s].summary <= acknowledged'
        /\ step' # "idle" => /\ content'.stamp = Head(queue').n /\ Carries(content', Head(queue'))
                             /\ \A s \in Session : Keeps(content, s)'
    BY <2>1 DEF KeepInv, ListsKeep, Keeps
  <2> QED BY <2>2, <2>4, <2>5, <2>6, <2>7 DEF KeepInv, ListsKeep
<1> QED BY <1>1, <1>2

----------------------------------------------------------------------------
\* What a client may ask for: a memory only while its run goes on, a memory put
\* back only by the /compact that read it, a deletion only once the runs stopped.
AskedFor(c) ==
  /\ c \in ChangeRecord
  /\ c.kind = "memory" => run.phase = "running" /\ run'.phase = "settled"
  /\ c.kind = "save" /\ c.memory # 0 =>
       run.phase = "summarising" /\ c.session = run.session /\ c.memory = run.memory
  /\ c.kind = "delete" =>
       /\ deleting.phase = "aborting"
       /\ deleting'.phase = "asked" /\ deleting'.session = c.session

\* The queue grows at its end, by changes with higher numbers.
New == DOMAIN queue' \ DOMAIN queue
Grows ==
  /\ queue' \in Seq(ChangeRecord) /\ asked' \in Nat /\ asked <= asked'
  /\ queue # <<>> => Head(queue') = Head(queue)
  /\ \A i \in DOMAIN queue : i \in DOMAIN queue' /\ queue'[i] = queue[i]
  /\ \A i \in New : /\ AskedFor(queue'[i]) /\ asked < queue'[i].n /\ queue'[i].n <= asked'
                    /\ \A j \in DOMAIN queue : j < i
                    /\ \A j \in New : i < j => queue'[i].n < queue'[j].n
                    /\ \A j \in New : queue'[i].kind = "delete" => j = i

LEMMA WaitingGrows == StoreTypeOK /\ Waiting => Grows
<1> SUFFICES ASSUME StoreTypeOK, Waiting PROVE Grows
  OBVIOUS
<1>1. queue \in Seq(ChangeRecord) /\ asked \in Nat
  BY DEF StoreTypeOK, ChangeRecord
<1> QED BY <1>1 DEF Waiting, Grows, New

LEMMA AskGrows ==
  ASSUME StoreTypeOK, NEW kind \in Kind, NEW s \in Session, NEW summary \in Nat, NEW memory \in Nat,
         Ask(kind, s, summary, memory),
         kind = "memory" => run.phase = "running" /\ run'.phase = "settled",
         kind = "save" /\ memory # 0 => run.phase = "summarising" /\ s = run.session /\ memory = run.memory,
         kind = "delete" => deleting.phase = "aborting" /\ deleting'.phase = "asked" /\ deleting'.session = s
  PROVE  /\ Grows
         /\ asked' = asked + 1
         /\ \A i \in New : queue'[i] = Change(asked + 1, kind, s, summary, memory)
<1> DEFINE c == Change(asked + 1, kind, s, summary, memory)
<1>1. c \in ChangeRecord /\ queue' = Append(queue, c) /\ asked' = asked + 1 /\ asked' \in Nat
      /\ queue' \in Seq(ChangeRecord)
  BY AskTyped
<1>2. c.n = asked + 1 /\ c.kind = kind /\ c.session = s /\ c.memory = memory
  BY DEF Change
<1>3. queue \in Seq(ChangeRecord) /\ asked \in Nat
  BY DEF StoreTypeOK, ChangeRecord
<1>4. AskedFor(c)
  BY <1>1, <1>2 DEF AskedFor
<1> HIDE DEF c
<1>5. /\ \A i \in DOMAIN queue : i \in DOMAIN queue' /\ queue'[i] = queue[i]
      /\ \A i \in New : i = Len(queue) + 1 /\ queue'[i] = c
      /\ \A j \in DOMAIN queue : j < Len(queue) + 1
      /\ queue # <<>> => Head(queue') = Head(queue)
  BY <1>1, <1>3 DEF New
<1> QED BY <1>1, <1>2, <1>3, <1>4, <1>5 DEF Grows, c

\* A run that made a summary and a memory.
LEMMA BothGrow ==
  ASSUME StoreTypeOK, RunSucceeds("both"), run.session \in Session
  PROVE  Grows
<1> DEFINE c == Change(asked + 1, "summary", run.session, 0, 0)
           d == Change(asked + 2, "memory", run.session, 0, 0)
<1>1. /\ queue' = Append(Append(queue, c), d) /\ asked' = asked + 2
      /\ run.phase = "running" /\ run' = [run EXCEPT !.phase = "settled"]
  BY DEF RunSucceeds
<1>2. run'.phase = "settled"
  BY <1>1 DEF StoreTypeOK
<1>3. queue \in Seq(ChangeRecord) /\ asked \in Nat
  BY DEF StoreTypeOK, ChangeRecord
<1>4. c \in ChangeRecord /\ d \in ChangeRecord
  BY <1>3 DEF Change, ChangeRecord, Kind
<1>5. c.n = asked + 1 /\ c.kind = "summary" /\ d.n = asked + 2 /\ d.kind = "memory"
  BY DEF Change
<1>6. AskedFor(c) /\ AskedFor(d)
  BY <1>1, <1>2, <1>4, <1>5 DEF AskedFor
<1> HIDE DEF c, d
<1>7. /\ queue' \in Seq(ChangeRecord)
      /\ \A i \in DOMAIN queue : i \in DOMAIN queue' /\ queue'[i] = queue[i]
      /\ \A i \in New : \/ i = Len(queue) + 1 /\ queue'[i] = c
                        \/ i = Len(queue) + 2 /\ queue'[i] = d
      /\ \A j \in DOMAIN queue : j < Len(queue) + 1 /\ j < Len(queue) + 2
      /\ Len(queue) \in Nat
  BY <1>1, <1>3, <1>4 DEF New
<1>8. queue # <<>> => Head(queue') = Head(queue)
  <2>1. Append(queue, c) \in Seq(ChangeRecord) /\ Append(queue, c) # <<>>
        /\ (queue # <<>> => Head(Append(queue, c)) = Head(queue))
    BY <1>3, <1>4, AppendElements
  <2> QED BY <1>1, <1>4, <2>1, AppendElements
<1> QED BY <1>1, <1>3, <1>5, <1>6, <1>7, <1>8 DEF Grows

\* What becomes of the run and of the deletion.
SameRun ==
  /\ run'.phase = run.phase /\ run'.session = run.session
  /\ run'.own = run.own /\ run'.awaits = run.awaits
  /\ run'.seen = run.seen /\ run'.saved = run.saved
  /\ run.aborted => run'.aborted

RunMoves ==
  /\ run'.phase = "digesting" => run' = run \/ (run'.awaits = asked /\ Waiting)
  /\ run'.phase = "summarising" => run' = run \/ CompactReads
  /\ run'.phase = "reading" => SameRun \/ \E s \in Session : Send(s)
  /\ run'.phase = "running" => SameRun \/ ReadHistory

Stoppable(phase) == phase \in {"reading", "running", "settled"}

DeletionMoves ==
  /\ deleting.phase = "asked" => deleting' = deleting
  /\ deleting'.phase # "none" /\ run'.session = deleting'.session /\ Stoppable(run'.phase) =>
       \/ run'.aborted
       \/ /\ deleting.phase # "none" /\ run.session = deleting.session /\ Stoppable(run.phase)
          /\ run.aborted => run'.aborted

ClientMoves == UNCHANGED storeVars /\ UNCHANGED damages /\ Grows /\ RunMoves /\ DeletionMoves

LEMMA ClientStepMoves == StoreTypeOK /\ ClientStep => ClientMoves
<1> SUFFICES ASSUME StoreTypeOK, ClientStep PROVE ClientMoves
  OBVIOUS
<1>0. /\ run \in RunRecord /\ (run.phase # "none" => run.session \in Session)
      /\ deleting \in DeletionRecord /\ asked \in Nat /\ carried \in [Session -> Nat]
      /\ (deleting.phase = "aborting" => deleting.session \in Session)
  BY DEF StoreTypeOK, RunRecord, DeletionRecord
<1>1. UNCHANGED storeVars /\ UNCHANGED damages
  BY DEF ClientStep, Send, Retitle, Load, Delete, Compact, DeleteWaited, Deleted, DeleteRefused, ReadHistory,
         RunFails, TerminalArrives, RunSucceeds, CompactReads, CompactSaves, CompactReloads, faultVars
<1>2. Waiting => Grows
  BY WaitingGrows
<1>3. UNCHANGED run => RunMoves
  BY DEF RunMoves, SameRun
<1>4. UNCHANGED deleting /\ (run'.phase = "none" \/ run'.phase = "saving" \/ run'.phase = "digesting"
                            \/ run'.phase = "summarising")
        => DeletionMoves
  BY DEF DeletionMoves, Stoppable
<1>5. UNCHANGED <<run, deleting>> => DeletionMoves
  BY DEF DeletionMoves
<1>6. ASSUME NEW s \in Session, Send(s) PROVE ClientMoves
  <2>1. /\ Ask("save", s, carried[s], 0) /\ carried[s] \in Nat
        /\ deleting = NoDeletion /\ UNCHANGED deleting
    BY <1>0, <1>6, Zenon DEF Send, SaveCopy
  <2>2. run' = [NoRun EXCEPT !.session = s, !.phase = "reading",
                             !.own = asked + 1, !.awaits = asked + 1]
    BY <1>6, Zenon DEF Send
  <2>3. run'.phase = "reading"
    BY <2>2 DEF NoRun
  <2>4. RunMoves
    BY <1>6, <2>3 DEF RunMoves
  <2>5. DeletionMoves
    BY <2>1, NullsTyped DEF DeletionMoves
  <2>6. Grows
    BY <2>1, AskGrows DEF Kind
  <2> QED BY <1>1, <2>4, <2>5, <2>6 DEF ClientMoves
<1>7. ASSUME NEW s \in Session, Retitle(s) PROVE ClientMoves
  <2>1. Ask("save", s, carried[s], 0) /\ carried[s] \in Nat /\ UNCHANGED <<run, deleting>>
    BY <1>0, <1>7, Zenon DEF Retitle, SaveCopy
  <2>2. Grows
    BY <2>1, AskGrows DEF Kind
  <2> QED BY <1>1, <1>3, <1>5, <2>1, <2>2 DEF ClientMoves
<1>8. ASSUME NEW s \in Session, Load(s) PROVE ClientMoves
  <2>1. UNCHANGED <<queue, asked, run, deleting>>
    BY <1>8, Zenon DEF Load
  <2> QED BY <1>1, <1>2, <1>3, <1>5, <2>1 DEF ClientMoves, Waiting
<1>9. ASSUME NEW s \in Session, Delete(s) PROVE ClientMoves
  <2>1. /\ deleting = NoDeletion /\ deleting' = [session |-> s, phase |-> "aborting"]
        /\ run' = IF run.session = s /\ run.phase \in {"reading", "running", "settled"}
                  THEN [run EXCEPT !.aborted = TRUE] ELSE run
        /\ UNCHANGED <<queue, asked>>
    BY <1>9, Zenon DEF Delete
  <2>2. run'.session = s /\ Stoppable(run'.phase) => run'.aborted
    BY <1>0, <2>1 DEF Stoppable, RunRecord
  <2>3. RunMoves
    BY <1>0, <2>1 DEF RunMoves, SameRun, RunRecord
  <2>4. DeletionMoves
    BY <2>1, <2>2, NullsTyped DEF DeletionMoves
  <2> QED BY <1>1, <1>2, <2>1, <2>3, <2>4 DEF ClientMoves, Waiting
<1>10. ASSUME NEW s \in Session, Compact(s) PROVE ClientMoves
  <2>1. /\ run' = [NoRun EXCEPT !.session = s, !.phase = "digesting", !.awaits = asked]
        /\ UNCHANGED <<queue, asked, deleting>>
    BY <1>10, Zenon DEF Compact
  <2>2. run'.phase = "digesting" /\ run'.awaits = asked
    BY <2>1 DEF NoRun
  <2>3. RunMoves
    BY <2>1, <2>2 DEF RunMoves, Waiting
  <2> QED BY <1>1, <1>2, <1>4, <2>1, <2>2, <2>3 DEF ClientMoves, Waiting
<1>11. CASE DeleteWaited
  <2>1. /\ Ask("delete", deleting.session, 0, 0) /\ deleting.phase = "aborting"
        /\ deleting' = [deleting EXCEPT !.phase = "asked"] /\ UNCHANGED run
    BY <1>11, Zenon DEF DeleteWaited
  <2>2. deleting'.phase = "asked" /\ deleting'.session = deleting.session
    BY <1>0, <2>1 DEF DeletionRecord
  <2>3. Grows
    BY <1>0, <2>1, <2>2, AskGrows DEF Kind
  <2>4. DeletionMoves
    BY <2>1, <2>2 DEF DeletionMoves
  <2> QED BY <1>1, <1>3, <2>1, <2>3, <2>4 DEF ClientMoves
<1>12. CASE Deleted \/ DeleteRefused
  <2>1. /\ UNCHANGED <<queue, asked, run>> /\ deleting' = NoDeletion
        /\ deleting.phase \in {"deleted", "refused"}
    BY <1>12, Zenon DEF Deleted, DeleteRefused
  <2>2. DeletionMoves
    BY <2>1, NullsTyped DEF DeletionMoves
  <2> QED BY <1>1, <1>2, <1>3, <2>1, <2>2 DEF ClientMoves, Waiting
<1>13. CASE ReadHistory
  <2>1. /\ run.phase = "reading" /\ UNCHANGED <<queue, asked, deleting>>
        /\ run'.phase = "running" /\ run'.session = run.session /\ run'.aborted = run.aborted
    BY <1>0, <1>13 DEF ReadHistory, RunRecord
  <2>2. RunMoves
    BY <1>13, <2>1 DEF RunMoves
  <2>3. DeletionMoves
    BY <2>1 DEF DeletionMoves, Stoppable
  <2> QED BY <1>1, <1>2, <2>1, <2>2, <2>3 DEF ClientMoves, Waiting
<1>14. CASE RunFails
  <2>1. /\ run.phase \in {"reading", "running"} /\ UNCHANGED <<queue, asked, deleting>>
        /\ run'.phase = "settled" /\ run'.session = run.session /\ run'.aborted = run.aborted
    BY <1>0, <1>14 DEF RunFails, RunRecord
  <2>2. RunMoves /\ DeletionMoves
    BY <2>1 DEF RunMoves, DeletionMoves, Stoppable
  <2> QED BY <1>1, <1>2, <2>1, <2>2 DEF ClientMoves, Waiting
<1>15. CASE TerminalArrives
  <2>1. run' = NoRun /\ UNCHANGED deleting /\ run.session \in Session
    BY <1>0, <1>15, Zenon DEF TerminalArrives
  <2>2. RunMoves /\ run'.phase = "none"
    BY <2>1, NullsTyped DEF RunMoves
  <2>3. Grows
    <3>1. CASE view[run.session] = "loaded"
      <4>1. Ask("save", run.session, carried[run.session], 0) /\ carried[run.session] \in Nat
        BY <1>0, <1>15, <2>1, <3>1, Zenon DEF TerminalArrives, SaveCopy
      <4> QED BY <2>1, <4>1, AskGrows DEF Kind
    <3>2. CASE view[run.session] # "loaded"
      BY <1>2, <1>15, <3>2, Zenon DEF TerminalArrives, Waiting
    <3> QED BY <3>1, <3>2
  <2> QED BY <1>1, <1>4, <2>1, <2>2, <2>3 DEF ClientMoves
<1>16. ASSUME NEW kind \in {"none", "summary", "memory", "both"}, RunSucceeds(kind)
       PROVE  ClientMoves
  <2>1. run' = [run EXCEPT !.phase = "settled"] /\ run.phase = "running" /\ UNCHANGED deleting
    BY <1>16, Zenon DEF RunSucceeds
  <2>2. /\ run'.phase = "settled" /\ run'.session = run.session /\ run'.aborted = run.aborted
        /\ run.session \in Session
    BY <1>0, <2>1 DEF RunRecord
  <2>3. RunMoves /\ DeletionMoves
    BY <2>1, <2>2 DEF RunMoves, DeletionMoves, Stoppable
  <2>4. Grows
    <3>1. CASE kind = "none"
      BY <1>2, <1>16, <3>1 DEF RunSucceeds, Waiting
    <3>2. CASE kind \in {"summary", "memory"}
      <4>1. Ask(kind, run.session, 0, 0)
        BY <1>16, <3>2 DEF RunSucceeds
      <4> QED BY <2>1, <2>2, <3>2, <4>1, AskGrows DEF Kind
    <3>3. CASE kind = "both"
      BY <1>16, <2>2, <3>3, BothGrow
    <3> QED BY <3>1, <3>2, <3>3
  <2> QED BY <1>1, <2>3, <2>4 DEF ClientMoves
<1>17. CASE CompactReads
  <2>1. /\ run.phase = "digesting" /\ UNCHANGED <<queue, asked, deleting>>
        /\ run'.phase \in {"none", "summarising"}
    BY <1>0, <1>17, NullsTyped DEF CompactReads, RunRecord
  <2>2. RunMoves
    BY <1>17, <2>1 DEF RunMoves
  <2> QED BY <1>1, <1>2, <1>4, <2>1, <2>2 DEF ClientMoves, Waiting
<1>18. CASE CompactSaves
  <2>1. /\ Ask("save", run.session, asked + 1, run.memory) /\ run.phase = "summarising"
        /\ run' = [run EXCEPT !.phase = "saving", !.awaits = asked + 1]
        /\ UNCHANGED deleting
    BY <1>18, Zenon DEF CompactSaves
  <2>2. run'.phase = "saving" /\ run.session \in Session /\ run.memory \in Nat /\ asked + 1 \in Nat
    BY <1>0, <2>1 DEF RunRecord
  <2>3. RunMoves
    BY <2>2 DEF RunMoves
  <2>4. Grows
    BY <2>1, <2>2, AskGrows DEF Kind
  <2> QED BY <1>1, <1>4, <2>1, <2>2, <2>3, <2>4 DEF ClientMoves
<1>19. CASE CompactReloads
  <2>1. run' = NoRun /\ UNCHANGED <<queue, asked, deleting>>
    BY <1>19, Zenon DEF CompactReloads
  <2>2. RunMoves /\ run'.phase = "none"
    BY <2>1, NullsTyped DEF RunMoves
  <2> QED BY <1>1, <1>2, <1>4, <2>1, <2>2 DEF ClientMoves, Waiting
<1> QED BY <1>6, <1>7, <1>8, <1>9, <1>10, <1>11, <1>12, <1>13, <1>14, <1>15, <1>16,
          <1>17, <1>18, <1>19 DEF ClientStep


\* What a grown queue consists of.
LEMMA GrownElements ==
  ASSUME StoreTypeOK, Grows
  PROVE  /\ asked \in Nat /\ asked' \in Nat /\ asked <= asked'
         /\ \A i \in DOMAIN queue' : /\ queue'[i] \in ChangeRecord /\ queue'[i].n \in Nat
                                     /\ i \in New \/ (i \in DOMAIN queue /\ queue'[i] = queue[i])
<1>1. queue' \in Seq(ChangeRecord) /\ asked \in Nat
  BY DEF StoreTypeOK, Grows
<1>2. \A i \in DOMAIN queue' : queue'[i] \in ChangeRecord
  BY <1>1
<1> QED BY <1>1, <1>2 DEF Grows, New, ChangeRecord

LEMMA GrowingKeepsOrder == KeepInv /\ Grows /\ UNCHANGED acknowledged => ChangesInOrder'
<1> SUFFICES ASSUME KeepInv, Grows, UNCHANGED acknowledged PROVE ChangesInOrder'
  OBVIOUS
<1>1. StoreTypeOK /\ ChangesInOrder /\ acknowledged \in Nat
  BY DEF KeepInv, StoreTypeOK
<1>2. /\ asked \in Nat /\ asked' \in Nat /\ asked <= asked'
      /\ \A i \in DOMAIN queue' : /\ queue'[i].n \in Nat
                                  /\ i \in New \/ (i \in DOMAIN queue /\ queue'[i] = queue[i])
  BY <1>1, GrownElements
<1>3. acknowledged' <= asked'
  BY <1>1, <1>2 DEF ChangesInOrder
<1>4. \A i \in DOMAIN queue' : acknowledged' < queue'[i].n /\ queue'[i].n <= asked'
  BY <1>1, <1>2 DEF ChangesInOrder, Grows
<1>5. ASSUME NEW i \in DOMAIN queue', NEW j \in DOMAIN queue', i < j
      PROVE  queue'[i].n < queue'[j].n
  <2>1. CASE i \in New
    <3>1. j \in New
      <4>1. j \in DOMAIN queue => j < i
        BY <2>1 DEF Grows
      <4>2. i \in Nat /\ j \in Nat
        BY DEF Grows
      <4> QED BY <1>2, <1>5, <4>1, <4>2
    <3> QED BY <1>5, <2>1, <3>1 DEF Grows
  <2>2. CASE i \in DOMAIN queue /\ queue'[i] = queue[i]
    <3>1. CASE j \in New
      <4>1. queue[i].n <= asked /\ asked < queue'[j].n /\ queue[i].n \in Nat /\ queue'[j].n \in Nat
        BY <1>1, <1>2, <2>2, <3>1 DEF ChangesInOrder, Grows
      <4> QED BY <1>2, <2>2, <4>1
    <3>2. CASE j \in DOMAIN queue /\ queue'[j] = queue[j]
      BY <1>1, <1>5, <2>2, <3>2 DEF ChangesInOrder
    <3> QED BY <1>2, <3>1, <3>2
  <2> QED BY <1>2, <2>1, <2>2
<1> QED BY <1>3, <1>4, <1>5 DEF ChangesInOrder

LEMMA ClientMovesKeepLists == KeepInv /\ StoreTypeOK' /\ ClientMoves => KeepInv'
<1> SUFFICES ASSUME KeepInv, StoreTypeOK', ClientMoves PROVE KeepInv'
  OBVIOUS
<1>1. /\ UNCHANGED <<primary, backup, step, content, acknowledged, kept, damages>>
      /\ Grows /\ RunMoves /\ StoreTypeOK
      /\ step # "idle" => queue # <<>>
  BY DEF ClientMoves, storeVars, KeepInv, StoreTypeOK
<1>2. /\ asked \in Nat /\ asked' \in Nat /\ asked <= asked'
      /\ \A i \in DOMAIN queue' : /\ queue'[i] \in ChangeRecord /\ queue'[i].n \in Nat
                                  /\ i \in New \/ (i \in DOMAIN queue /\ queue'[i] = queue[i])
  BY <1>1, GrownElements
<1>3. ChangesInOrder' /\ FilesWritten'
  BY <1>1, GrowingKeepsOrder DEF KeepInv, FilesWritten
<1>4. ListsKeep'
  <2>1. Files' = Files
    BY <1>1 DEF Files, Readable
  <2>2. ASSUME NEW file \in Files
        PROVE  /\ acknowledged' <= file.stamp /\ file.stamp <= asked'
               /\ \A s \in Session : Keeps(file, s)'
               /\ \A i \in DOMAIN queue' :
                    \/ file.stamp < queue'[i].n
                    \/ i = 1 /\ step' \in {"backup", "returning"} /\ file = content'
    <3>1. file \in List
      BY <1>1 DEF StoreTypeOK, Files, File, Readable
    <3>2. file.stamp \in Nat
      BY <3>1 DEF List
    <3>3. /\ acknowledged <= file.stamp /\ file.stamp <= asked
          /\ \A s \in Session : Keeps(file, s)
          /\ \A i \in DOMAIN queue :
               \/ file.stamp < queue[i].n
               \/ i = 1 /\ step \in {"backup", "returning"} /\ file = content
      BY DEF KeepInv, ListsKeep
    <3>4. \A i \in New : file.stamp < queue'[i].n
      <4> SUFFICES ASSUME NEW i \in New PROVE file.stamp < queue'[i].n
        OBVIOUS
      <4>1. asked < queue'[i].n /\ queue'[i].n \in Nat
        BY <1>1, <1>2 DEF Grows, New
      <4> QED BY <1>2, <3>2, <3>3, <4>1
    <3>5. file.stamp <= asked'
      BY <1>2, <3>2, <3>3
    <3>6. \A s \in Session : Keeps(file, s)'
      BY <1>1, <3>3 DEF Keeps
    <3> QED BY <1>1, <1>2, <3>3, <3>4, <3>5, <3>6
  <2>3. step' # "idle" => /\ content'.stamp = Head(queue').n /\ Carries(content', Head(queue'))
                          /\ \A s \in Session : Keeps(content, s)'
    <3> SUFFICES ASSUME step # "idle"
                 PROVE  /\ content'.stamp = Head(queue').n /\ Carries(content', Head(queue'))
                        /\ \A s \in Session : Keeps(content, s)'
      BY <1>1
    <3>1. Head(queue') = Head(queue)
      BY <1>1 DEF Grows
    <3>2. /\ content.stamp = Head(queue).n /\ Carries(content, Head(queue))
          /\ \A s \in Session : Keeps(content, s)
      BY DEF KeepInv, ListsKeep
    <3> QED BY <1>1, <3>1, <3>2 DEF Keeps
  <2>4. /\ \A s \in Session : /\ kept'[s].by <= acknowledged' /\ kept'[s].memory <= acknowledged'
                              /\ kept'[s].summary <= acknowledged'
        /\ primary' = Missing => backup' = Missing /\ acknowledged' = 0
        /\ damages' = 0 => Damaged \notin {primary', backup'}
    BY <1>1 DEF KeepInv, ListsKeep
  <2> QED BY <2>1, <2>2, <2>3, <2>4 DEF ListsKeep
<1>5. ASSUME NEW i \in DOMAIN queue', queue'[i].kind = "save", queue'[i].memory # 0
      PROVE  /\ kept'[queue'[i].session].memory <= queue'[i].memory
             /\ \A j \in 1..(i - 1) : queue'[j].kind # "memory"
  <2>1. CASE i \in DOMAIN queue /\ queue'[i] = queue[i]
    <3>1. /\ kept[queue[i].session].memory <= queue[i].memory
          /\ \A j \in 1..(i - 1) : queue[j].kind # "memory"
      BY <1>5, <2>1 DEF KeepInv, MemoryPutBack
    <3>2. \A j \in 1..(i - 1) : j \in DOMAIN queue
      BY <1>1, <2>1 DEF StoreTypeOK
    <3> QED BY <1>1, <2>1, <3>1, <3>2 DEF Grows
  <2>2. CASE i \in New
    <3>1. run.phase = "summarising" /\ queue'[i].session = run.session /\ queue'[i].memory = run.memory
      BY <1>1, <1>5, <2>2 DEF Grows, AskedFor
    <3>2. kept[run.session].memory <= run.memory /\ \A j \in DOMAIN queue : queue[j].kind # "memory"
      BY <3>1 DEF KeepInv, MemoryPutBack
    <3>3. \A j \in New : queue'[j].kind # "memory"
      BY <1>1, <3>1 DEF Grows, AskedFor
    <3>4. \A j \in 1..(i - 1) : j \in DOMAIN queue'
      BY <1>1, <1>5 DEF Grows
    <3> QED BY <1>1, <1>2, <3>1, <3>2, <3>3, <3>4
  <2> QED BY <1>2, <2>1, <2>2
<1>6. run'.phase \in {"digesting", "summarising"} => \A i \in New : queue'[i].kind # "memory"
  BY <1>1 DEF Grows, AskedFor
<1>7. ASSUME run'.phase = "digesting", NEW i \in DOMAIN queue', queue'[i].kind = "memory"
      PROVE  queue'[i].n <= run'.awaits
  <2>1. i \in DOMAIN queue /\ queue'[i] = queue[i]
    BY <1>2, <1>6, <1>7
  <2>2. CASE run' = run
    BY <1>7, <2>1, <2>2 DEF KeepInv, MemoryPutBack
  <2>3. CASE run'.awaits = asked
    BY <2>1, <2>3 DEF KeepInv, ChangesInOrder
  <2> QED BY <1>1, <1>7, <2>2, <2>3 DEF RunMoves
<1>8. ASSUME run'.phase = "summarising"
      PROVE  /\ kept'[run'.session].memory <= run'.memory
             /\ \A i \in DOMAIN queue' : queue'[i].kind # "memory"
  <2>1. CASE run' = run
    BY <1>1, <1>2, <1>6, <1>8, <2>1 DEF KeepInv, MemoryPutBack
  <2>2. CASE CompactReads
    <3>1. /\ run.phase = "digesting" /\ Settled(run.awaits) /\ UNCHANGED queue
          /\ run' = [run EXCEPT !.phase = "summarising",
                                !.memory = Loaded.sessions[run.session].memory]
          /\ Loaded.sessions[run.session].by # 0
      BY <1>8, <2>2, NullsTyped DEF CompactReads
    <3>2. run \in RunRecord /\ run.session \in Session /\ run.awaits \in Nat
      BY <1>1, <3>1 DEF StoreTypeOK, RunRecord
    <3>3. run'.session = run.session /\ run'.memory = Loaded.sessions[run.session].memory
      BY <3>1, <3>2 DEF RunRecord
    <3>4. CanPersist
      <4> SUFFICES ASSUME ~CanPersist PROVE FALSE
        OBVIOUS
      <4>1. Loaded = EmptyList
        BY DEF CanPersist, Loaded
      <4>2. EmptyList.sessions[run.session].by = 0
        BY <3>2 DEF EmptyList, NotStored
      <4> QED BY <3>1, <4>1, <4>2
    <3>5. kept[run.session].memory <= Loaded.sessions[run.session].memory
      BY <3>2, <3>4, LoadedKeeps DEF Keeps
    <3>6. \A i \in DOMAIN queue : queue[i].kind # "memory"
      <4> SUFFICES ASSUME NEW i \in DOMAIN queue, queue[i].kind = "memory" PROVE FALSE
        OBVIOUS
      <4>1. queue[i].n <= run.awaits /\ queue[i].n > run.awaits /\ queue[i].n \in Nat
        BY <1>1, <3>1, NumbersAreNumbers DEF KeepInv, MemoryPutBack, Settled
      <4> QED BY <3>2, <4>1
    <3> QED BY <1>1, <3>1, <3>3, <3>5, <3>6
  <2> QED BY <1>1, <1>8, <2>1, <2>2 DEF RunMoves
<1>9. MemoryPutBack'
  BY <1>5, <1>7, <1>8 DEF MemoryPutBack
<1> QED BY <1>3, <1>4, <1>9 DEF KeepInv

LEMMA KeepInit == Init => KeepInv
<1> SUFFICES ASSUME Init PROVE KeepInv
  OBVIOUS
<1>1. Files = {} /\ DOMAIN queue = {} /\ run.phase = "none" /\ damages = 0 /\ acknowledged = 0 /\ asked = 0
  BY NullsTyped DEF Init, Files, Readable
<1>2. \A s \in Session : kept[s] = NotStored
  BY DEF Init
<1>3. Damaged \notin {primary, backup}
  BY StoreConstants DEF Init
<1>4. ListsKeep
  BY <1>1, <1>2, <1>3 DEF Init, ListsKeep, NotStored
<1> QED BY <1>1, <1>4, TypedInit DEF Init, KeepInv, ChangesInOrder, FilesWritten, MemoryPutBack

LEMMA KeepStep == KeepInv /\ [Next]_vars => KeepInv'
<1> SUFFICES ASSUME KeepInv, [Next]_vars PROVE KeepInv'
  OBVIOUS
<1>1. CASE UNCHANGED vars \/ Finished
  <2>1. UNCHANGED vars
    BY <1>1 DEF Finished
  <2>2. StoreTypeOK'
    BY <2>1 DEF KeepInv, vars, storeVars, clientVars, faultVars, StoreTypeOK
  <2>3. UNCHANGED <<primary, backup, queue, step, content, acknowledged, asked, kept, run, damages>>
    BY <2>1 DEF vars, storeVars, clientVars, faultVars
  <2> QED BY <2>2, <2>3 DEF KeepInv, ChangesInOrder, FilesWritten, ListsKeep, MemoryPutBack,
                            Keeps, Files, Readable
<1>2. CASE StoreStep \/ ClientStep \/ CrashAndRestart \/ Damage
  <2>1. StoreTypeOK /\ StoreTypeOK'
    BY <1>2, StoreStepTyped, ClientStepTyped, SurroundingsTyped DEF KeepInv
  <2> QED BY <1>2, <2>1, StoreStepKeepsLists, SurroundingsKeepLists, ClientStepMoves,
             ClientMovesKeepLists
<1> QED BY <1>1, <1>2 DEF Next

\* Changes settle in the order they were asked for, and whatever is in a file or
\* on its way there has what was acknowledged.
THEOREM NothingIsForgotten == Spec => []KeepInv
BY KeepInit, KeepStep, PTL DEF Spec

\* Each file that can be read has everything that was acknowledged: any number of
\* sessions, changes, refused writes, crashes and damaged files later.
THEOREM OneFileIsEnough == Spec => []EitherFileWillDo
<1>1. KeepInv => EitherFileWillDo
  <2> SUFFICES ASSUME KeepInv, NEW file \in Files
               PROVE  /\ file.stamp >= acknowledged
                      /\ \A s \in Session :
                           kept[s].by # 0 => /\ file.sessions[s].by >= kept[s].by
                                             /\ file.sessions[s].memory >= kept[s].memory
                                             /\ (kept[s].summary # 0 => file.sessions[s].summary # 0)
    BY DEF EitherFileWillDo
  <2>1. acknowledged <= file.stamp /\ \A s \in Session : Keeps(file, s)
    BY DEF KeepInv, ListsKeep
  <2>2. file \in List /\ acknowledged \in Nat /\ kept \in [Session -> Stored]
    BY DEF KeepInv, StoreTypeOK, Files, File, Readable
  <2>3. /\ file.stamp \in Nat
        /\ \A s \in Session : /\ file.sessions[s].by \in Nat /\ file.sessions[s].memory \in Nat
                              /\ kept[s].by \in Nat /\ kept[s].memory \in Nat
    <3>1. file.stamp \in Nat /\ \A s \in Session : file.sessions[s] \in Stored /\ kept[s] \in Stored
      BY <2>2 DEF List
    <3> QED BY <3>1 DEF Stored
  <2> QED BY <2>1, <2>2, <2>3 DEF Keeps
<1> QED BY <1>1, NothingIsForgotten, PTL


\* As long as no file is damaged, what a reader finds changes only when the
\* primary is replaced, and to something newer; what is acknowledged is found.
LEMMA StepActsAtomically ==
  ASSUME KeepInv, KeepInv', Next, damages' = 0
  PROVE  \/ Loaded'.stamp > Loaded.stamp /\ UNCHANGED acknowledged
         \/ acknowledged' = Loaded.stamp /\ Loaded'.stamp = Loaded.stamp
         \/ UNCHANGED <<Loaded, acknowledged>>
<1>1. UNCHANGED <<primary, backup>> => UNCHANGED Loaded
  BY DEF Loaded, Readable
<1>2. StoreTypeOK /\ content \in List /\ Readable(content)
  <2>1. StoreTypeOK /\ content \in List
    BY DEF KeepInv, StoreTypeOK
  <2> QED BY <2>1, StoreConstants DEF Readable
<1>3. CASE PrimaryReplaced
  <2>1. step = "primary" /\ primary' = content /\ UNCHANGED <<acknowledged, content>>
    BY <1>3 DEF PrimaryReplaced
  <2>2. Loaded' = content
    BY <1>2, <2>1 DEF Loaded, Readable
  <2>3. Loaded.stamp < content.stamp
    BY <2>1, LoadedKeeps DEF KeepInv, ListsKeep
  <2>4. Loaded.stamp \in Nat /\ content.stamp \in Nat
    BY <1>2, LoadedIsList DEF List
  <2> QED BY <2>1, <2>2, <2>3, <2>4
<1>4. CASE BackupReplaced
  <2>1. step = "backup" /\ UNCHANGED <<primary, acknowledged, damages>>
    BY <1>4 DEF BackupReplaced, faultVars
  <2>2. primary = content
    BY <2>1 DEF KeepInv, FilesWritten, ListsKeep
  <2> QED BY <1>2, <2>1, <2>2 DEF Loaded, Readable
<1>5. ASSUME NEW i \in DOMAIN queue, WriteReturns(queue[i])
      PROVE  acknowledged' = Loaded.stamp /\ Loaded'.stamp = Loaded.stamp
  <2>1. /\ step = "returning" /\ acknowledged' = Head(queue).n
        /\ UNCHANGED <<primary, backup, damages>>
    BY <1>5 DEF WriteReturns, fileVars, Settle
  <2>2. primary = content /\ content.stamp = Head(queue).n
    BY <2>1 DEF KeepInv, FilesWritten, ListsKeep
  <2>3. Loaded = content
    BY <1>2, <2>2 DEF Loaded
  <2> QED BY <1>1, <2>1, <2>2, <2>3
<1>6. ASSUME NEW i \in DOMAIN queue,
             WriteRefused(queue[i]) \/ WriteSkipped(queue[i]) \/ WriteStarts(queue[i]) \/ WriteFails
      PROVE  UNCHANGED <<primary, backup, acknowledged>>
  BY <1>6 DEF WriteRefused, WriteSkipped, WriteStarts, WriteFails, fileVars
<1>7. CASE WriteFails
  BY <1>1, <1>7 DEF WriteFails, fileVars
<1>8. CASE ClientStep
  <2>1. UNCHANGED storeVars
    BY <1>2, <1>8, ClientStepMoves DEF ClientMoves
  <2> QED BY <1>1, <2>1 DEF storeVars
<1>9. CASE CrashAndRestart \/ Finished
  BY <1>1, <1>9 DEF CrashAndRestart, Finished, fileVars, vars, storeVars
<1>10. ~Damage
  BY DEF Damage, KeepInv, StoreTypeOK
<1> QED BY <1>1, <1>3, <1>4, <1>5, <1>6, <1>7, <1>8, <1>9, <1>10 DEF Next, StoreStep

\* As long as nothing damages them, the two files are one atomic file: whatever
\* fails between them, a reader finds no mixture, and never less than was
\* acknowledged.
THEOREM FilesActAsOne == Spec => PairActsAtomically
<1>1. Init => Pair!Init
  <2> SUFFICES ASSUME Init PROVE Loaded.stamp = 0 /\ acknowledged = 0 /\ (damages = 0) = TRUE
    BY DEF Pair!Init
  <2>1. Loaded = EmptyList
    BY DEF Init, Loaded, Readable
  <2> QED BY <2>1 DEF Init, EmptyList
<1>2. KeepInv /\ KeepInv' /\ [Next]_vars =>
        [Pair!Replace \/ Pair!Acknowledge \/ Pair!Loss]_<<Loaded.stamp, acknowledged, damages = 0>>
  <2>1. ASSUME UNCHANGED vars PROVE UNCHANGED <<Loaded.stamp, acknowledged, damages = 0>>
    BY <2>1 DEF vars, storeVars, faultVars, Loaded, Readable
  <2>2. ASSUME KeepInv, Next, damages' = 0 PROVE damages = 0
    <3>1. damages \in Nat /\ StoreTypeOK
      BY <2>2 DEF KeepInv, StoreTypeOK
    <3>2. UNCHANGED damages \/ damages' = damages + 1
      <4>1. StoreStep => UNCHANGED damages
        BY DEF StoreStep, WriteRefused, WriteSkipped, WriteStarts, WriteReturns, PrimaryReplaced,
               BackupReplaced, WriteFails, Settle, faultVars
      <4>2. ClientStep => UNCHANGED damages
        BY <3>1, ClientStepMoves DEF ClientMoves
      <4>3. CrashAndRestart \/ Finished => UNCHANGED damages
        BY DEF CrashAndRestart, Finished, vars, faultVars
      <4> QED BY <2>2, <4>1, <4>2, <4>3 DEF Next, Damage
    <3> QED BY <2>2, <3>1, <3>2
  <2>3. ASSUME KeepInv, KeepInv', Next, damages' = 0
        PROVE  \/ Pair!Replace \/ Pair!Acknowledge
               \/ UNCHANGED <<Loaded.stamp, acknowledged, damages = 0>>
    BY <2>2, <2>3, StepActsAtomically DEF Pair!Replace, Pair!Acknowledge
  <2>4. ASSUME damages' # 0 PROVE Pair!Loss
    BY <2>4 DEF Pair!Loss
  <2> QED BY <2>1, <2>3, <2>4
<1> QED BY <1>1, <1>2, NothingIsForgotten, PTL DEF Spec, PairActsAtomically, Pair!Spec

----------------------------------------------------------------------------
(* The history a run reads.                                                 *)

\* What settling does to the deletion, and who is told that his save succeeded.
LEMMA SettlingAndDeletion ==
  ASSUME StoreTypeOK, NEW ok \in BOOLEAN, Settle(ok)
  PROVE  /\ Head(queue).kind # "delete" => UNCHANGED deleting
         /\ deleting'.session = deleting.session
         /\ deleting'.phase = "none" \/ Head(queue).kind = "delete" \/ deleting'.phase = deleting.phase
         /\ Stoppable(run'.phase) /\ run'.saved => run.saved \/ (run.own = Head(queue).n /\ ok)
<1>1. run \in RunRecord /\ deleting \in DeletionRecord
  BY DEF StoreTypeOK, RunRecord, DeletionRecord
<1>2. /\ Head(queue).kind # "delete" => UNCHANGED deleting
      /\ deleting'.session = deleting.session
      /\ deleting'.phase = "none" \/ Head(queue).kind = "delete" \/ deleting'.phase = deleting.phase
  BY <1>1 DEF Settle, DeletionRecord
<1>3. ASSUME run.phase = "saving" /\ run.awaits = Head(queue).n PROVE ~Stoppable(run'.phase)
  <2>1. run' = [run EXCEPT !.phase = "reloading", !.awaits = asked] \/ run' = NoRun
    BY <1>3 DEF Settle
  <2> QED BY <1>1, <2>1, NullsTyped DEF RunRecord, Stoppable
<1>4. ASSUME ~(run.phase = "saving" /\ run.awaits = Head(queue).n)
      PROVE  run'.saved => run.saved \/ (run.own = Head(queue).n /\ ok)
  <2>1. run' = [run EXCEPT !.saved = run.saved \/ (run.own = Head(queue).n /\ ok)]
    BY <1>4 DEF Settle
  <2> QED BY <1>1, <2>1 DEF RunRecord
<1> QED BY <1>2, <1>3, <1>4

\* Settling a change: the run's own save is acknowledged before its history is read.
LEMMA SettlingKeepsHistory ==
  ASSUME KeepInv, StoreTypeOK', HistoryInv, queue # <<>>, SettledTyping, NEW ok \in BOOLEAN, Settle(ok),
         \/ UNCHANGED kept /\ (ok => Head(queue).kind # "save")
         \/ WriteReturns(Head(queue))
  PROVE  HistoryInv'
<1> DEFINE c == Head(queue)
<1>1. /\ StoreTypeOK /\ queue \in Seq(ChangeRecord) /\ queue' = Tail(queue)
      /\ UNCHANGED asked /\ Settling
  BY DEF KeepInv, StoreTypeOK, ChangeRecord, SettledTyping, Settling
<1>2. c \in ChangeRecord /\ c = queue[1] /\ 1 \in DOMAIN queue
  BY <1>1, TailElements
<1>3. c.n \in Nat /\ c.session \in Session /\ c.kind \in Kind
  BY <1>2 DEF ChangeRecord
<1>4. \A i \in DOMAIN queue' :
        /\ i \in Nat \ {0} /\ i + 1 \in DOMAIN queue /\ queue'[i] = queue[i + 1]
        /\ c.n < queue'[i].n /\ queue'[i].n \in Nat
  <2>1. \A i \in DOMAIN queue' : i + 1 \in DOMAIN queue /\ queue'[i] = queue[i + 1] /\ i \in Nat \ {0}
    BY <1>1, TailElements
  <2>2. \A i \in DOMAIN queue' : queue'[i].n \in Nat
    BY <2>1, NumbersAreNumbers DEF KeepInv
  <2>3. \A i \in DOMAIN queue' : queue[1].n < queue[i + 1].n
    BY <1>2, <2>1 DEF KeepInv, ChangesInOrder
  <2> QED BY <1>2, <2>1, <2>2, <2>3
<1>5. /\ c.kind # "delete" => UNCHANGED deleting
      /\ deleting'.session = deleting.session
      /\ deleting'.phase = "none" \/ c.kind = "delete" \/ deleting'.phase = deleting.phase
      /\ Stoppable(run'.phase) /\ run'.saved => run.saved \/ (run.own = c.n /\ ok)
  BY <1>1, SettlingAndDeletion
<1>6. Stoppable(run'.phase) =>
        /\ run'.phase = run.phase /\ run'.session = run.session
        /\ run'.awaits = run.awaits /\ run'.own = run.own /\ run'.seen = run.seen
        /\ run'.aborted = run.aborted
  BY <1>1, SettlingAndRun DEF Stoppable
\* A promise is given up only when the session is deleted.
<1>7. ASSUME NEW s \in Session
      PROVE  \/ kept'[s].by = kept[s].by
             \/ s = c.session /\ c.kind = "save" /\ kept'[s].by = c.n
             \/ s = c.session /\ c.kind = "delete"
  <2>1. CASE UNCHANGED kept
    BY <2>1
  <2>2. CASE WriteReturns(c)
    <3>1. kept' = [kept EXCEPT ![c.session] =
             CASE c.kind = "save"    -> [kept[c.session] EXCEPT !.by = c.n]
               [] c.kind = "summary" -> [kept[c.session] EXCEPT !.summary = c.n]
               [] c.kind = "memory"  -> [kept[c.session] EXCEPT !.memory = c.n]
               [] c.kind = "delete"  -> NotStored]
      BY <2>2 DEF WriteReturns
    <3>2. kept \in [Session -> Stored] /\ kept[c.session] \in Stored
      BY <1>1, <1>3 DEF StoreTypeOK
    <3> HIDE DEF c
    <3>3. s # c.session => kept'[s] = kept[s]
      BY <3>1, <3>2
    <3>4. s = c.session /\ c.kind = "save" => kept'[s].by = c.n
      BY <3>1, <3>2 DEF Stored
    <3>5. s = c.session /\ c.kind \in {"summary", "memory"} => kept'[s].by = kept[s].by
      BY <3>1, <3>2 DEF Stored
    <3> QED BY <1>3, <3>3, <3>4, <3>5 DEF Kind
  <2> QED BY <2>1, <2>2
<1>8. OneDeletion'
  <2>1. ASSUME NEW i \in DOMAIN queue', queue'[i].kind = "delete"
        PROVE  deleting'.phase = "asked" /\ deleting'.session = queue'[i].session
    <3>1. /\ i + 1 \in DOMAIN queue /\ queue[i + 1].kind = "delete" /\ i + 1 # 1
          /\ queue'[i] = queue[i + 1]
      BY <1>4, <2>1
    <3>2. deleting.phase = "asked" /\ deleting.session = queue[i + 1].session
      BY <3>1 DEF HistoryInv, OneDeletion
    <3>3. c.kind # "delete"
      BY <1>2, <3>1 DEF HistoryInv, OneDeletion
    <3> QED BY <1>5, <3>1, <3>2, <3>3
  <2>2. ASSUME NEW i \in DOMAIN queue', NEW j \in DOMAIN queue',
               queue'[i].kind = "delete", queue'[j].kind = "delete"
        PROVE  i = j
    <3>1. i + 1 = j + 1
      BY <1>4, <2>2 DEF HistoryInv, OneDeletion
    <3> QED BY <1>4, <3>1
  <2>3. ASSUME deleting'.phase # "none", run'.session = deleting'.session, Stoppable(run'.phase)
        PROVE  run'.aborted
    <3>1. deleting.phase # "none"
      <4>1. c.kind = "delete" => deleting.phase = "asked"
        BY <1>2 DEF HistoryInv, OneDeletion
      <4> QED BY <1>5, <2>3, <4>1
    <3> QED BY <1>5, <1>6, <2>3, <3>1 DEF HistoryInv, OneDeletion, Stoppable
  <2> QED BY <2>1, <2>2, <2>3 DEF OneDeletion, Stoppable
<1>9. ASSUME run'.phase = "reading"
      PROVE  /\ run'.awaits = run'.own /\ run'.own <= asked'
             /\ \A i \in DOMAIN queue' : queue'[i].n = run'.own =>
                  queue'[i].kind = "save" /\ queue'[i].session = run'.session
             /\ run'.saved => /\ \A i \in DOMAIN queue' : run'.own < queue'[i].n
                              /\ run'.aborted \/ run'.own <= kept'[run'.session].by
  <2>1. /\ run.phase = "reading" /\ run'.session = run.session /\ run'.own = run.own
        /\ run'.awaits = run.awaits /\ run'.aborted = run.aborted
        /\ run'.saved => run.saved \/ (run.own = c.n /\ ok)
    BY <1>5, <1>6, <1>9 DEF Stoppable
  <2>2. /\ run.awaits = run.own /\ run.own <= asked
        /\ \A i \in DOMAIN queue : queue[i].n = run.own =>
             queue[i].kind = "save" /\ queue[i].session = run.session
        /\ run.saved => /\ \A i \in DOMAIN queue : run.own < queue[i].n
                        /\ run.aborted \/ run.own <= kept[run.session].by
    BY <2>1 DEF HistoryInv, OwnSaveFirst
  <2>3. run.session \in Session /\ run.own \in Nat
    BY <1>1, <2>1 DEF StoreTypeOK
  <2>4. ASSUME run'.saved
        PROVE  /\ \A i \in DOMAIN queue' : run.own < queue'[i].n
               /\ run.aborted \/ run.own <= kept'[run.session].by
    <3>1. CASE run.saved
      <4>1. \A i \in DOMAIN queue' : run.own < queue'[i].n
        BY <1>4, <2>2, <3>1
      <4>2. ASSUME ~run.aborted PROVE run.own <= kept'[run.session].by
        <5>1. ~(run.session = c.session /\ c.kind = "delete")
          BY <1>2, <2>1, <4>2 DEF HistoryInv, OneDeletion
        <5>2. run.own <= kept[run.session].by /\ run.own < c.n
          BY <1>2, <2>2, <3>1, <4>2
        <5>3. kept'[run.session].by = kept[run.session].by \/ kept'[run.session].by = c.n
          BY <1>7, <2>3, <5>1
        <5> QED BY <1>3, <2>3, <5>2, <5>3
      <4> QED BY <4>1, <4>2
    <3>2. CASE run.own = c.n /\ ok
      <4>1. c.kind = "save" /\ c.session = run.session
        BY <1>2, <2>2, <3>2
      <4>2. WriteReturns(c) /\ kept'[run.session].by = c.n
        <5>1. WriteReturns(c)
          BY <3>2, <4>1
        <5>2. kept' = [kept EXCEPT ![c.session] = [kept[c.session] EXCEPT !.by = c.n]]
          BY <4>1, <5>1 DEF WriteReturns
        <5>3. kept \in [Session -> Stored] /\ kept[c.session] \in Stored
          BY <1>1, <1>3 DEF StoreTypeOK
        <5> QED BY <4>1, <5>1, <5>2, <5>3, <2>3 DEF Stored
      <4> QED BY <1>3, <1>4, <3>2, <4>2
    <3> QED BY <2>1, <2>4, <3>1, <3>2
  <2> QED BY <1>1, <1>4, <2>1, <2>2, <2>4
<1>10. ASSUME run'.phase = "running"
       PROVE  /\ run'.own <= asked' /\ \A i \in DOMAIN queue' : run'.own < queue'[i].n
              /\ HistoryIsCurrent'
  <2>1. /\ run.phase = "running" /\ run'.own = run.own /\ run'.seen = run.seen
        /\ run'.aborted = run.aborted
        /\ run'.saved => run.saved \/ (run.own = c.n /\ ok)
    BY <1>5, <1>6, <1>10 DEF Stoppable
  <2>2. run.own <= asked /\ \A i \in DOMAIN queue : run.own < queue[i].n
    BY <2>1 DEF HistoryInv, OwnSaveFirst
  <2>3. run.own # c.n
    <3>1. run.own < c.n /\ run.own \in Nat
      BY <1>1, <1>2, <2>2 DEF StoreTypeOK
    <3> QED BY <1>3, <3>1
  <2> QED BY <1>1, <1>4, <2>1, <2>2, <2>3 DEF HistoryInv, HistoryIsCurrent
<1>11. run'.phase # "running" => HistoryIsCurrent'
  BY DEF HistoryIsCurrent
<1> QED BY <1>8, <1>9, <1>10, <1>11 DEF HistoryInv, OwnSaveFirst


LEMMA StoreStepKeepsHistory == KeepInv /\ StoreTypeOK' /\ HistoryInv /\ StoreStep => HistoryInv'
<1> SUFFICES ASSUME KeepInv, StoreTypeOK', HistoryInv, StoreStep PROVE HistoryInv'
  OBVIOUS
<1>1. StoreTypeOK /\ queue \in Seq(ChangeRecord)
  BY DEF KeepInv, StoreTypeOK, ChangeRecord
<1>2. ASSUME NEW ok \in BOOLEAN, Settle(ok), queue # <<>>,
             \/ UNCHANGED kept /\ (ok => Head(queue).kind # "save")
             \/ WriteReturns(Head(queue))
      PROVE  HistoryInv'
  <2>1. SettledTyping
    BY <1>1, <1>2, SettleTyped DEF Settling
  <2> QED BY <1>2, <2>1, SettlingKeepsHistory
<1>3. ASSUME NEW i \in DOMAIN queue, WriteRefused(queue[i]) PROVE HistoryInv'
  <2>1. queue # <<>>
    BY <1>1
  <2> QED BY <1>2, <1>3, <2>1 DEF WriteRefused
<1>4. ASSUME NEW i \in DOMAIN queue, WriteSkipped(queue[i]) PROVE HistoryInv'
  <2>1. queue # <<>>
    BY <1>1
  <2>2. Settle(TRUE) /\ UNCHANGED kept /\ Head(queue).kind # "save"
    BY <1>4 DEF WriteSkipped, Turn, Pointless
  <2> QED BY <1>2, <2>1, <2>2
<1>5. ASSUME NEW i \in DOMAIN queue, WriteReturns(queue[i]) PROVE HistoryInv'
  <2>1. queue # <<>>
    BY <1>1
  <2>2. Settle(TRUE) /\ queue[i] = Head(queue)
    BY <1>5 DEF WriteReturns
  <2>3. WriteReturns(Head(queue))
    BY <1>5, <2>2
  <2> QED BY <1>2, <2>1, <2>2, <2>3
<1>6. CASE WriteFails
  <2>1. queue # <<>>
    BY <1>1, <1>6 DEF WriteFails, StoreTypeOK
  <2>2. Settle(FALSE) /\ UNCHANGED kept
    BY <1>6 DEF WriteFails
  <2> QED BY <1>2, <2>1, <2>2
<1>7. CASE PrimaryReplaced \/ BackupReplaced
  <2>1. UNCHANGED <<queue, asked, kept, run, deleting>>
    BY <1>7 DEF PrimaryReplaced, BackupReplaced, clientVars
  <2> QED BY <2>1 DEF HistoryInv, OneDeletion, OwnSaveFirst, HistoryIsCurrent
\* A deletion that starts: the run of its session was stopped before.
<1>8. ASSUME NEW i \in DOMAIN queue, WriteStarts(queue[i]) PROVE HistoryInv'
  <2> DEFINE c == queue[i]
  <2>1. /\ c = Head(queue) /\ UNCHANGED <<queue, asked, run, deleting>>
        /\ kept' = IF c.kind = "delete" THEN [kept EXCEPT ![c.session] = NotStored] ELSE kept
    BY <1>8 DEF WriteStarts, Turn, clientVars
  <2>2. ASSUME run.phase = "reading", run.saved, ~run.aborted
        PROVE  run.own <= kept'[run.session].by
    <3>1. ~(c.kind = "delete" /\ c.session = run.session)
      BY <1>8, <2>2 DEF HistoryInv, OneDeletion
    <3>2. run.session \in Session /\ kept \in [Session -> Stored]
      BY <1>1, <2>2 DEF StoreTypeOK
    <3>3. kept'[run.session] = kept[run.session]
      BY <2>1, <3>1, <3>2
    <3> QED BY <2>2, <3>3 DEF HistoryInv, OwnSaveFirst
  <2>3. OwnSaveFirst'
    BY <2>1, <2>2 DEF HistoryInv, OwnSaveFirst
  <2> QED BY <2>1, <2>3 DEF HistoryInv, OneDeletion, HistoryIsCurrent
<1> QED BY <1>3, <1>4, <1>5, <1>6, <1>7, <1>8 DEF StoreStep

LEMMA ClientMovesKeepHistory == KeepInv /\ HistoryInv /\ ClientMoves => HistoryInv'
<1> SUFFICES ASSUME KeepInv, HistoryInv, ClientMoves PROVE HistoryInv'
  OBVIOUS
<1>1. /\ UNCHANGED kept /\ Grows /\ RunMoves /\ DeletionMoves /\ StoreTypeOK
      /\ run \in RunRecord
  BY DEF ClientMoves, storeVars, KeepInv, StoreTypeOK, RunRecord
<1>2. /\ asked \in Nat /\ asked' \in Nat /\ asked <= asked'
      /\ \A i \in DOMAIN queue' : /\ queue'[i] \in ChangeRecord /\ queue'[i].n \in Nat
                                  /\ i \in New \/ (i \in DOMAIN queue /\ queue'[i] = queue[i])
  BY <1>1, GrownElements
<1>3. OneDeletion'
  <2>1. ASSUME NEW i \in DOMAIN queue', queue'[i].kind = "delete"
        PROVE  deleting'.phase = "asked" /\ deleting'.session = queue'[i].session
    <3>1. CASE i \in New
      BY <1>1, <2>1, <3>1 DEF Grows, AskedFor
    <3>2. CASE i \in DOMAIN queue /\ queue'[i] = queue[i]
      <4>1. deleting.phase = "asked" /\ deleting.session = queue[i].session
        BY <2>1, <3>2 DEF HistoryInv, OneDeletion
      <4> QED BY <1>1, <3>2, <4>1 DEF DeletionMoves
    <3> QED BY <1>2, <3>1, <3>2
  <2>2. ASSUME NEW i \in DOMAIN queue', NEW j \in DOMAIN queue',
               queue'[i].kind = "delete", queue'[j].kind = "delete"
        PROVE  i = j
    <3>1. \A k \in DOMAIN queue : queue[k].kind = "delete" => deleting.phase = "asked"
      BY DEF HistoryInv, OneDeletion
    <3>2. \A k \in New : queue'[k].kind = "delete" => deleting.phase = "aborting"
      BY <1>1 DEF Grows, AskedFor
    <3>3. CASE i \in New /\ j \in New
      BY <1>1, <2>2, <3>3 DEF Grows
    <3>4. CASE i \in DOMAIN queue /\ j \in DOMAIN queue
      BY <1>1, <2>2, <3>4 DEF Grows, HistoryInv, OneDeletion
    <3> QED BY <1>2, <2>2, <3>1, <3>2, <3>3, <3>4
  <2>3. ASSUME deleting'.phase # "none", run'.session = deleting'.session, Stoppable(run'.phase)
        PROVE  run'.aborted
    BY <1>1, <2>3 DEF DeletionMoves, HistoryInv, OneDeletion, Stoppable
  <2> QED BY <2>1, <2>2, <2>3 DEF OneDeletion, Stoppable
<1>4. ASSUME run'.phase = "reading"
      PROVE  /\ run'.awaits = run'.own /\ run'.own <= asked'
             /\ \A i \in DOMAIN queue' : queue'[i].n = run'.own =>
                  queue'[i].kind = "save" /\ queue'[i].session = run'.session
             /\ run'.saved => /\ \A i \in DOMAIN queue' : run'.own < queue'[i].n
                              /\ run'.aborted \/ run'.own <= kept'[run'.session].by
  <2>1. CASE SameRun
    <3>1. /\ run.phase = "reading" /\ run'.session = run.session /\ run'.own = run.own
          /\ run'.awaits = run.awaits /\ run'.saved = run.saved /\ (run.aborted => run'.aborted)
          /\ run.own \in Nat
      BY <1>1, <1>4, <2>1 DEF SameRun, RunRecord
    <3>2. /\ run.awaits = run.own /\ run.own <= asked
          /\ \A i \in DOMAIN queue : queue[i].n = run.own =>
               queue[i].kind = "save" /\ queue[i].session = run.session
          /\ run.saved => /\ \A i \in DOMAIN queue : run.own < queue[i].n
                          /\ run.aborted \/ run.own <= kept[run.session].by
      BY <3>1 DEF HistoryInv, OwnSaveFirst
    <3>3. \A i \in New : run.own < queue'[i].n
      <4> SUFFICES ASSUME NEW i \in New PROVE run.own < queue'[i].n
        OBVIOUS
      <4>1. asked < queue'[i].n /\ queue'[i].n \in Nat
        BY <1>1, <1>2 DEF Grows, New
      <4> QED BY <1>2, <3>1, <3>2, <4>1
    <3>4. \A i \in New : queue'[i].n # run.own
      <4> SUFFICES ASSUME NEW i \in New PROVE queue'[i].n # run.own
        OBVIOUS
      <4>1. queue'[i].n \in Nat
        BY <1>2 DEF New
      <4> QED BY <3>1, <3>3, <4>1
    <3>5. run.own <= asked'
      BY <1>2, <3>1, <3>2
    <3> QED BY <1>1, <1>2, <3>1, <3>2, <3>3, <3>4, <3>5
  <2>2. ASSUME NEW s \in Session, Send(s)
        PROVE  /\ run'.awaits = asked + 1 /\ run'.own = asked + 1 /\ run'.session = s
               /\ ~run'.saved /\ asked' = asked + 1
               /\ \A i \in New : queue'[i].kind = "save" /\ queue'[i].session = s
    <3>1. Ask("save", s, carried[s], 0) /\ carried[s] \in Nat
      BY <1>1, <2>2, Zenon DEF Send, SaveCopy, StoreTypeOK
    <3>2. run' = [NoRun EXCEPT !.session = s, !.phase = "reading",
                               !.own = asked + 1, !.awaits = asked + 1]
      BY <2>2, Zenon DEF Send
    <3>3. /\ run'.awaits = asked + 1 /\ run'.own = asked + 1 /\ run'.session = s /\ ~run'.saved
      BY <3>2 DEF NoRun
    <3>4. /\ asked' = asked + 1
          /\ \A i \in New : queue'[i] = Change(asked + 1, "save", s, carried[s], 0)
      BY <1>1, <3>1, AskGrows DEF Kind
    <3> QED BY <3>3, <3>4 DEF Change
  <2>3. CASE \E s \in Session : Send(s)
    <3> PICK s \in Session : Send(s)
      BY <2>3
    <3>1. /\ run'.awaits = asked + 1 /\ run'.own = asked + 1 /\ run'.session = s
          /\ ~run'.saved /\ asked' = asked + 1
          /\ \A i \in New : queue'[i].kind = "save" /\ queue'[i].session = s
      BY <2>2
    <3>2. \A i \in DOMAIN queue : queue[i].n # asked + 1
      <4> SUFFICES ASSUME NEW i \in DOMAIN queue PROVE queue[i].n # asked + 1
        OBVIOUS
      <4>1. queue[i].n <= asked /\ queue[i].n \in Nat
        BY NumbersAreNumbers DEF KeepInv, ChangesInOrder
      <4> QED BY <1>2, <4>1
    <3> QED BY <1>2, <3>1, <3>2
  <2> QED BY <1>1, <1>4, <2>1, <2>3 DEF RunMoves
<1>5. ASSUME run'.phase = "running"
      PROVE  /\ run'.own <= asked' /\ \A i \in DOMAIN queue' : run'.own < queue'[i].n
             /\ HistoryIsCurrent'
  <2>1. /\ run'.own = run.own /\ run.own \in Nat /\ run.own <= asked
        /\ \A i \in DOMAIN queue : run.own < queue[i].n
        /\ HistoryIsCurrent'
    <3>1. CASE SameRun
      BY <1>1, <1>5, <3>1 DEF SameRun, HistoryInv, OwnSaveFirst, HistoryIsCurrent, RunRecord
    <3>2. CASE ReadHistory
      <4>1. /\ run.phase = "reading" /\ Settled(run.awaits) /\ run.session \in Session
            /\ run' = [run EXCEPT !.phase = "running",
                         !.seen = IF CanPersist THEN Loaded.sessions[run.session].by ELSE Missing]
        BY <1>1, <3>2 DEF ReadHistory, StoreTypeOK
      <4>2. /\ run'.own = run.own /\ run.own \in Nat /\ run'.saved = run.saved
            /\ run'.aborted = run.aborted
            /\ run'.seen = IF CanPersist THEN Loaded.sessions[run.session].by ELSE Missing
        BY <1>1, <4>1 DEF RunRecord
      <4>3. /\ run.awaits = run.own /\ run.own <= asked
            /\ run.saved => run.aborted \/ run.own <= kept[run.session].by
        BY <4>1 DEF HistoryInv, OwnSaveFirst
      <4>4. \A i \in DOMAIN queue : run.own < queue[i].n
        <5> SUFFICES ASSUME NEW i \in DOMAIN queue PROVE run.own < queue[i].n
          OBVIOUS
        <5>1. queue[i].n > run.awaits /\ queue[i].n \in Nat
          BY <4>1, NumbersAreNumbers DEF KeepInv, Settled
        <5> QED BY <4>2, <4>3, <5>1
      <4>5. ASSUME run.saved, ~run.aborted, CanPersist
            PROVE  Loaded.sessions[run.session].by >= run.own
        <5>1. Keeps(Loaded, run.session)
          BY <4>1, <4>5, LoadedKeeps
        <5>2. run.own <= kept[run.session].by
          BY <4>3, <4>5
        <5>3. Loaded.sessions[run.session] \in Stored /\ kept[run.session] \in Stored
          BY <1>1, <4>1, LoadedIsList DEF List, StoreTypeOK
        <5> QED BY <4>2, <5>1, <5>2, <5>3 DEF Keeps, Stored
      <4> QED BY <4>2, <4>3, <4>4, <4>5 DEF HistoryIsCurrent
    <3> QED BY <1>1, <1>5, <3>1, <3>2 DEF RunMoves
  <2>2. \A i \in New : run.own < queue'[i].n
    <3> SUFFICES ASSUME NEW i \in New PROVE run.own < queue'[i].n
      OBVIOUS
    <3>1. asked < queue'[i].n /\ queue'[i].n \in Nat
      BY <1>1, <1>2 DEF Grows, New
    <3> QED BY <1>2, <2>1, <3>1
  <2>3. run.own <= asked'
    BY <1>2, <2>1
  <2> QED BY <1>2, <2>1, <2>2, <2>3
<1>6. run'.phase # "running" => HistoryIsCurrent'
  BY DEF HistoryIsCurrent
<1> QED BY <1>3, <1>4, <1>5, <1>6 DEF HistoryInv, OwnSaveFirst

\* The message a run answers is in the history it reads, for any number of sessions,
\* changes, refused writes, crashes and damaged files.
THEOREM HistoryStaysCurrent == Spec => []HistoryIsCurrent
<1>1. Init => HistoryInv
  <2> SUFFICES ASSUME Init PROVE HistoryInv
    OBVIOUS
  <2>1. DOMAIN queue = {} /\ run.phase = "none" /\ deleting.phase = "none"
    BY NullsTyped DEF Init
  <2> QED BY <2>1 DEF HistoryInv, OneDeletion, OwnSaveFirst, HistoryIsCurrent
<1>2. KeepInv /\ KeepInv' /\ HistoryInv /\ [Next]_vars => HistoryInv'
  <2> SUFFICES ASSUME KeepInv, KeepInv', HistoryInv, [Next]_vars PROVE HistoryInv'
    OBVIOUS
  <2>1. StoreTypeOK /\ StoreTypeOK'
    BY DEF KeepInv
  <2>2. CASE UNCHANGED <<queue, asked, kept, run, deleting>>
    BY <2>2 DEF HistoryInv, OneDeletion, OwnSaveFirst, HistoryIsCurrent
  <2>3. CASE UNCHANGED vars \/ Finished \/ Damage
    BY <2>2, <2>3 DEF Finished, Damage, vars, storeVars, clientVars
  <2>4. CASE CrashAndRestart
    <3>1. DOMAIN queue' = {} /\ run'.phase = "none" /\ deleting'.phase = "none"
      BY <2>4, NullsTyped DEF CrashAndRestart
    <3> QED BY <3>1 DEF HistoryInv, OneDeletion, OwnSaveFirst, HistoryIsCurrent
  <2> QED BY <2>1, <2>3, <2>4, StoreStepKeepsHistory, ClientStepMoves, ClientMovesKeepHistory DEF Next
<1>3. HistoryInv => HistoryIsCurrent
  BY DEF HistoryInv
<1> QED BY <1>1, <1>2, <1>3, NothingIsForgotten, PTL DEF Spec
=============================================================================
