-------------------------- MODULE LedgerFile_proofs --------------------------
(***************************************************************************)
(* Proofs that save() acts atomically under crashes, for any number of     *)
(* saves and crashes, until something damages the primary, and that the    *)
(* damage then costs one save.                                             *)
(***************************************************************************)
EXTENDS LedgerFile, TLAPS

\* Nothing was saved at the start.
LEMMA FileInit == Init => FileInv
BY FileConstants DEF Init, FileInv, FileTypeOK, PrimaryHolds, Readable

\* What load() returns is a number.
LEMMA LoadedIsNat == FileTypeOK => Loaded \in Nat
BY DEF FileTypeOK, Loaded, Readable

\* Every step keeps the primary good and as new as was promised, until one
\* damages it.
LEMMA StepKeepsFileInv == FileInv /\ Next => FileInv'
<1> SUFFICES ASSUME FileInv, Next PROVE FileInv'
  OBVIOUS
<1> USE FileConstants DEF FileInv, FileTypeOK, PrimaryHolds, Readable
<1>1. CASE CopyStarts
  BY <1>1 DEF CopyStarts
<1>2. CASE CopyEnds
  BY <1>2 DEF CopyEnds
<1>3. CASE WriteTemporary
  BY <1>3 DEF WriteTemporary
<1>4. CASE Rename
  BY <1>4 DEF Rename
<1>5. CASE SaveReturns
  BY <1>5 DEF SaveReturns
<1>6. CASE SaveThrows
  BY <1>6 DEF SaveThrows
<1>7. CASE Crash
  BY <1>7 DEF Crash
<1>8. CASE Restart
  <2>1. Loaded \in Nat /\ before' \in Nat
    BY <1>8, LoadedIsNat DEF Restart
  <2>2. damages = 0 => Loaded = IF primary \in Nat THEN primary ELSE 0
    BY DEF Loaded
  <2> QED BY <1>8, <2>1, <2>2 DEF Restart
<1>9. CASE Finished
  BY <1>9 DEF Finished, vars
<1>10. CASE Damage
  BY <1>10 DEF Damage
<1> QED BY <1>1, <1>2, <1>3, <1>4, <1>5, <1>6, <1>7, <1>8, <1>9, <1>10 DEF Next

\* Until then a step is a step of the atomic file, or none.
LEMMA StepActsAtomically ==
  ASSUME FileInv, Next, damages' = 0
  PROVE  \/ Loaded' > Loaded /\ UNCHANGED acknowledged
         \/ acknowledged' = Loaded /\ Loaded' = Loaded
         \/ UNCHANGED <<Loaded, acknowledged>>
<1> USE FileConstants DEF FileInv, FileTypeOK, PrimaryHolds, Readable
<1>1. damages = 0 /\ ~Damage
  BY DEF Next, CopyStarts, CopyEnds, WriteTemporary, Rename, SaveReturns, SaveThrows,
         Crash, Restart, Finished, vars, Damage
<1>2. Loaded = IF primary \in Nat THEN primary ELSE 0
  BY <1>1 DEF Loaded
<1>3. Loaded' = IF primary' \in Nat THEN primary' ELSE 0
  <2>1. FileInv'
    BY StepKeepsFileInv
  <2> QED BY <2>1 DEF Loaded
<1>4. CASE Rename
  <2>1. primary' = asked /\ asked \in Nat /\ asked > 0 /\ UNCHANGED acknowledged
    BY <1>1, <1>4 DEF Rename
  <2>2. Loaded < asked
    BY <1>1, <1>2, <1>4 DEF Rename
  <2> QED BY <1>3, <2>1, <2>2
<1>5. CASE SaveReturns
  BY <1>1, <1>2, <1>3, <1>5 DEF SaveReturns
<1>6. CASE Restart
  BY <1>2, <1>3, <1>6 DEF Restart
<1>7. CASE CopyStarts \/ CopyEnds \/ WriteTemporary \/ SaveThrows \/ Crash \/ Finished
  <2>1. UNCHANGED <<primary, acknowledged>>
    BY <1>7 DEF CopyStarts, CopyEnds, WriteTemporary, SaveThrows, Crash, Finished, vars
  <2> QED BY <1>2, <1>3, <2>1
<1> QED BY <1>1, <1>4, <1>5, <1>6, <1>7 DEF Next

\* Crashes inside save() never leave a torn primary, nor one older than what was
\* acknowledged.
THEOREM PrimaryIsGood == Spec => []FileInv
<1>1. FileInv /\ UNCHANGED vars => FileInv'
  BY DEF vars, FileInv, FileTypeOK, PrimaryHolds, Readable
<1> QED BY <1>1, FileInit, StepKeepsFileInv, PTL DEF Spec

\* Until the primary is damaged, the file, its backup and its temporary file are
\* one atomic file: crashes inside save() lose nothing that was acknowledged.
THEOREM SavesAreAtomic == Spec => ActsAtomically
<1>1. Init => File!Init
  BY FileConstants DEF Init, File!Init, Loaded, Readable
<1>2. FileInv /\ [Next]_vars =>
        [File!Replace \/ File!Acknowledge \/ File!Loss]_<<Loaded, acknowledged, damages = 0>>
  <2>1. ASSUME UNCHANGED vars PROVE UNCHANGED <<Loaded, acknowledged, damages = 0>>
    BY <2>1 DEF vars, Loaded, Readable
  <2>2. ASSUME FileInv, Next, damages' = 0 PROVE damages = 0
    BY <2>2 DEF FileInv, FileTypeOK, Next, CopyStarts, CopyEnds, WriteTemporary, Rename, SaveReturns,
       SaveThrows, Crash, Restart, Finished, vars, Damage
  <2>3. ASSUME FileInv, Next, damages' = 0
        PROVE  \/ File!Replace \/ File!Acknowledge
               \/ UNCHANGED <<Loaded, acknowledged, damages = 0>>
    BY <2>2, <2>3, StepActsAtomically DEF File!Replace, File!Acknowledge
  <2>4. ASSUME damages' # 0 PROVE File!Loss
    BY <2>4 DEF File!Loss
  <2> QED BY <2>1, <2>3, <2>4
<1> QED BY <1>1, <1>2, PrimaryIsGood, PTL DEF Spec, ActsAtomically, File!Spec

----------------------------------------------------------------------------
LEMMA BackupInit == Init => BackupHolds
BY FileConstants DEF Init, BackupHolds, Readable

\* Every step keeps the backup, if it parses, at most one save behind.
LEMMA StepKeepsBackup == FileTypeOK /\ BackupHolds /\ Next => BackupHolds'
<1> SUFFICES ASSUME FileTypeOK, BackupHolds, Next PROVE BackupHolds'
  OBVIOUS
<1> USE FileConstants DEF FileTypeOK, BackupHolds, Readable
<1>1. CASE CopyStarts
  BY <1>1 DEF CopyStarts
<1>2. CASE CopyEnds
  BY <1>2 DEF CopyEnds
<1>3. CASE WriteTemporary
  BY <1>3 DEF WriteTemporary
<1>4. CASE Rename
  BY <1>4 DEF Rename
<1>5. CASE SaveReturns
  BY <1>5 DEF SaveReturns
<1>6. CASE SaveThrows
  BY <1>6 DEF SaveThrows
<1>7. CASE Crash
  BY <1>7 DEF Crash
<1>8. CASE Restart
  <2>1. UNCHANGED <<primary, backup, asked>> /\ step' = "idle" /\ process' = "up"
        /\ acknowledged' = Loaded /\ Loaded \in Nat
    BY <1>8, LoadedIsNat DEF Restart
  <2>2. /\ Readable(primary) => Loaded = primary
        /\ ~Readable(primary) /\ Readable(backup) => Loaded = backup
        /\ ~Readable(primary) /\ ~Readable(backup) => Loaded = 0
    BY DEF Loaded
  <2>3. before' \in {before, acknowledged, Loaded} /\ before' <= Loaded
        /\ (Loaded > acknowledged => before' = acknowledged)
        /\ (Loaded <= acknowledged => before' <= before)
    BY <1>8, <2>1 DEF Restart
  <2>4. Readable(backup) => before' <= backup
    <3>1. CASE Readable(primary)
      BY <2>1, <2>2, <2>3, <3>1
    <3>2. CASE ~Readable(primary)
      BY <2>1, <2>2, <2>3, <3>2
    <3> QED BY <3>1, <3>2
  <2>5. Loaded <= asked
    BY <2>2
  <2> QED BY <2>1, <2>2, <2>3, <2>4, <2>5
<1>9. CASE Finished
  BY <1>9 DEF Finished, vars
<1>10. CASE Damage
  BY <1>10 DEF Damage
<1> QED BY <1>1, <1>2, <1>3, <1>4, <1>5, <1>6, <1>7, <1>8, <1>9, <1>10 DEF Next

\* A damaged primary costs the last acknowledged save and no other, for any number
\* of saves, crashes and damaged primaries, if there was a backup that parsed.
THEOREM DamageIsCheap == Spec => DamageCostsOneSave
<1>1. FileTypeOK /\ BackupHolds /\ [Next]_vars => BackupHolds'
  <2>1. BackupHolds /\ UNCHANGED vars => BackupHolds'
    BY DEF vars, BackupHolds, Readable
  <2> QED BY <2>1, StepKeepsBackup
<1>2. FileTypeOK /\ BackupHolds /\ [Next]_vars => [Damage /\ Readable(backup) => Loaded' >= before]_vars
  <2> SUFFICES ASSUME FileTypeOK, BackupHolds, Damage, Readable(backup) PROVE Loaded' >= before
    OBVIOUS
  <2>1. primary' = Torn /\ backup' = backup
    BY DEF Damage
  <2>2. Loaded' = backup
    BY <2>1 DEF Loaded, Readable
  <2> QED BY <2>2, FileConstants DEF FileTypeOK, BackupHolds, Readable
<1>3. FileInv => FileTypeOK
  BY DEF FileInv
<1> QED BY <1>1, <1>2, <1>3, BackupInit, PrimaryIsGood, PTL DEF Spec, DamageCostsOneSave
=============================================================================
