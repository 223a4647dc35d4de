----------------------------- MODULE LedgerFile -----------------------------
(***************************************************************************)
(* How one save replaces the ledger file (agent/executionLedger.ts, class  *)
(* ExecutionLedgerRepository): the primary is copied over the backup, the  *)
(* new content goes to a temporary file, and a rename puts it in place.    *)
(* load() takes the primary if it parses, else the backup, else nothing.   *)
(*                                                                         *)
(* Saves come one at a time (the writeTail of ExecutionLedger).  A file is *)
(* missing, torn (it does not parse) or holds the content of some save;    *)
(* contents are numbered in the order the saves were asked for.            *)
(***************************************************************************)
EXTENDS Naturals

CONSTANTS Missing, Torn,  \* a file that is not there, a file that does not parse
          MaxSaves,       \* bound on saves
          MaxCrashes,     \* bound on crashes of the process
          MaxDamages      \* bound on primary files found damaged after a crash

ASSUME FileConstants ==
  /\ Missing # Torn /\ Missing \notin Nat /\ Torn \notin Nat
  /\ MaxSaves \in Nat /\ MaxCrashes \in Nat /\ MaxDamages \in Nat

VARIABLES
  primary,      \* execution-ledger.json
  backup,       \* execution-ledger.backup.json
  temporary,    \* the temporary file of the save under way
  step,         \* where save() is
  asked,        \* saves asked for so far
  acknowledged, \* the last save that returned, or what the process started from
  process,      \* the desktop process
  crashes,      \* crashes so far
  damages,      \* damaged primaries so far
  before        \* auxiliary: the save acknowledged before the last one

vars == <<primary, backup, temporary, step, asked, acknowledged, process,
          crashes, damages, before>>

Readable(contents) == contents \notin {Missing, Torn}

Init ==
  /\ primary = Missing /\ backup = Missing /\ temporary = Missing
  /\ step = "idle"
  /\ asked = 0 /\ acknowledged = 0
  /\ process = "up"
  /\ crashes = 0 /\ damages = 0
  /\ before = 0

\* load()
Loaded ==
  IF Readable(primary) THEN primary
  ELSE IF Readable(backup) THEN backup
  ELSE 0

\* Slip: a backup that is there is not made again.
CopyOnce ==
  /\ process = "up" /\ step = "idle"
  /\ asked < MaxSaves
  /\ asked' = asked + 1
  /\ IF primary = Missing \/ Readable(backup)
       THEN step' = "writing" /\ UNCHANGED backup
       ELSE step' = "copying" /\ backup' = Torn
  /\ UNCHANGED <<primary, temporary, acknowledged, process, crashes, damages, before>>

\* copyFile(primary, backup) has opened the backup; without a primary there is
\* nothing to copy.
CopyStarts ==
  /\ process = "up" /\ step = "idle"
  /\ asked < MaxSaves
  /\ asked' = asked + 1
  /\ IF primary = Missing
       THEN step' = "writing" /\ UNCHANGED backup
       ELSE step' = "copying" /\ backup' = Torn
  /\ UNCHANGED <<primary, temporary, acknowledged, process, crashes, damages, before>>

\* The copy says what the primary says, whether that parses or not.
CopyEnds ==
  /\ process = "up" /\ step = "copying"
  /\ backup' = primary
  /\ step' = "writing"
  /\ UNCHANGED <<primary, temporary, asked, acknowledged, process, crashes, damages,
                 before>>

\* Slip: the new content is written over the primary.
WriteInPlace ==
  /\ process = "up" /\ step = "writing"
  /\ primary' = Torn
  /\ temporary' = asked
  /\ step' = "renaming"
  /\ UNCHANGED <<backup, asked, acknowledged, process, crashes, damages, before>>

WriteTemporary ==
  /\ process = "up" /\ step = "writing"
  /\ temporary' = asked
  /\ step' = "renaming"
  /\ UNCHANGED <<primary, backup, asked, acknowledged, process, crashes, damages, before>>

Rename ==
  /\ process = "up" /\ step = "renaming"
  /\ primary' = temporary
  /\ temporary' = Missing
  /\ step' = "returning"
  /\ UNCHANGED <<backup, asked, acknowledged, process, crashes, damages, before>>

SaveReturns ==
  /\ process = "up" /\ step = "returning"
  /\ acknowledged' = asked
  /\ before' = acknowledged
  /\ step' = "idle"
  /\ UNCHANGED <<primary, backup, temporary, asked, process, crashes, damages>>

\* The copy, the write or the rename throws; `finally` removes the temporary file.
SaveThrows ==
  /\ process = "up" /\ step \in {"copying", "writing", "renaming"}
  /\ temporary' = Missing
  /\ step' = "idle"
  /\ UNCHANGED <<primary, backup, asked, acknowledged, process, crashes, damages, before>>

\* The process dies.  Its temporary file stays behind, but under a name no
\* later save uses.
Crash ==
  /\ process = "up"
  /\ crashes < MaxCrashes
  /\ crashes' = crashes + 1
  /\ process' = "down"
  /\ step' = "idle"
  /\ temporary' = Missing
  /\ UNCHANGED <<primary, backup, asked, acknowledged, damages, before>>

\* The machine loses the primary: nothing was flushed before the rename.
Damage ==
  /\ process = "down"
  /\ damages < MaxDamages
  /\ Readable(primary)
  /\ damages' = damages + 1
  /\ primary' = Torn
  /\ UNCHANGED <<backup, temporary, step, asked, acknowledged, process, crashes,
                 before>>

\* initialize(): memory is what load() returns.
Restart ==
  /\ process = "down"
  /\ process' = "up"
  /\ acknowledged' = Loaded
  /\ before' = IF Loaded > acknowledged THEN acknowledged
               ELSE IF Loaded < before THEN Loaded
               ELSE before
  /\ UNCHANGED <<primary, backup, temporary, step, asked, crashes, damages>>

\* Every save was used up.
Finished ==
  /\ process = "up" /\ step = "idle" /\ asked = MaxSaves
  /\ UNCHANGED vars

Next ==
  \/ CopyStarts \/ CopyEnds \/ WriteTemporary \/ Rename \/ SaveReturns \/ SaveThrows
  \/ Crash \/ Damage \/ Restart \/ Finished

Spec == Init /\ [][Next]_vars

----------------------------------------------------------------------------
FileTypeOK ==
  /\ primary \in Nat \cup {Missing, Torn}
  /\ backup \in Nat \cup {Missing, Torn}
  /\ temporary \in Nat \cup {Missing, Torn}
  /\ step \in {"idle", "copying", "writing", "renaming", "returning"}
  /\ asked \in Nat /\ acknowledged \in Nat
  /\ process \in {"up", "down"}
  /\ damages \in Nat /\ before \in Nat

\* Why crashes are harmless: as long as nothing damages the primary it is never
\* torn, and it is as new as what was acknowledged.  So the backup, which a
\* crash can leave torn, is not needed.
PrimaryHolds ==
  /\ primary # Torn
  /\ primary = Missing => ~Readable(backup) /\ acknowledged = 0
  /\ primary \in Nat => acknowledged <= primary /\ primary <= asked
  /\ step \in {"copying", "writing", "renaming"} /\ primary \in Nat => primary < asked
  /\ step = "renaming" => temporary = asked
  /\ step = "returning" => primary = asked
  /\ step # "idle" => asked > 0 /\ process = "up"

FileInv == FileTypeOK /\ (damages = 0 => PrimaryHolds)

\* Why a damaged primary costs one save: the backup is a copy of the primary the
\* save under way will replace, so never older than the save before the last one.
BackupHolds ==
  /\ acknowledged <= asked /\ before <= acknowledged
  /\ Readable(primary) => acknowledged <= primary /\ primary <= asked
  /\ Readable(backup)  => before <= backup /\ backup <= asked
  /\ primary = Missing => ~Readable(backup)
  /\ process = "up" /\ step # "returning" /\ Readable(primary) => primary = acknowledged
  /\ Readable(backup) /\ \/ step \in {"writing", "renaming", "returning"}
                         \/ Readable(primary) /\ acknowledged < primary
       => acknowledged <= backup
  /\ step = "copying" => primary # Missing
  /\ step = "renaming" => temporary = asked
  /\ step = "returning" => primary = asked
  /\ process = "down" => step = "idle"

File == INSTANCE DurableFile
          WITH content <- Loaded, promised <- acknowledged, intact <- damages = 0

\* A process that dies anywhere inside save() loses at most the save it was at:
\* what load() returns changes in one piece, never to something older, and no
\* acknowledged save is ever lost.  (This is the file of ExecutionLedger.)
ActsAtomically == File!Spec

\* A damaged primary costs the last acknowledged save and no other, wherever the
\* process died, if there was a backup that parsed.
DamageCostsOneSave == [][Damage /\ Readable(backup) => Loaded' >= before]_vars
=============================================================================
